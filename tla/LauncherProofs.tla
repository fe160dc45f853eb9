----------------------------- MODULE LauncherProofs -----------------------------
(***************************************************************************)
(* Theorems about Launcher, for any number of launches, every set of       *)
(* layouts and every size of the node's memory and of its large pages: a   *)
(* launch without another one at its time gets the pages it asks for if    *)
(* there is room, and its program never goes short of them.                *)
(***************************************************************************)
EXTENDS Launcher, FiniteSetTheorems, WellFoundedInduction, TLAPS

-------------------------------------------------------------------------------
(* The pages in use: a sum over the launches.                              *)

\* A non-empty set of naturals has a least element.
LEMMA LeastNatural ==
    ASSUME NEW T \in SUBSET Nat, T # {}
    PROVE  \E m \in T : \A n \in T : m <= n
<1> DEFINE lt == OpToRel(<, Nat)
<1>1. \E m \in T : \A n \in T : ~(<<n, m>> \in lt)
    <2>1. IsWellFoundedOn(lt, Nat)
        BY NatLessThanWellFounded
    <2> HIDE DEF lt
    <2> QED BY <2>1, WFMin
<1>2. PICK m \in T : \A n \in T : ~(<<n, m>> \in lt)
    BY <1>1
<1>3. ASSUME NEW n \in T PROVE m <= n
    <2>1. <<n, m>> \in Nat \X Nat /\ ~(<<n, m>> \in lt)
        BY <1>2
    <2>2. ~(n < m)
        BY <2>1 DEF OpToRel
    <2> QED BY <2>2
<1> QED BY <1>3

\* The recursion by which MapThenSumSet adds F over the subsets of a set T.
Pick(s) == CHOOSE x \in s : TRUE
Adds(T, F, g) ==
    g = [s \in SUBSET T |-> IF s = {} THEN 0 ELSE F[Pick(s)] + g[s \ {Pick(s)}]]

\* It has one solution over a finite set: two would differ on a smallest subset.
LEMMA OneSum ==
    ASSUME NEW T, IsFiniteSet(T), NEW F, NEW g, Adds(T, F, g), NEW h, Adds(T, F, h)
    PROVE  g = h
<1> DEFINE D == {n \in Nat : \E s \in SUBSET T : Cardinality(s) = n /\ g[s] # h[s]}
<1>1. \A s \in SUBSET T : IsFiniteSet(s) /\ Cardinality(s) \in Nat
    BY FS_Subset, FS_CardinalityType
<1>2. /\ \A s \in SUBSET T :
            g[s] = IF s = {} THEN 0 ELSE F[Pick(s)] + g[s \ {Pick(s)}]
      /\ \A s \in SUBSET T :
            h[s] = IF s = {} THEN 0 ELSE F[Pick(s)] + h[s \ {Pick(s)}]
    BY DEF Adds
<1>3. ASSUME D # {} PROVE FALSE
    <2>1. PICK m \in D : \A n \in D : m <= n
        <3>1. D \in SUBSET Nat
            OBVIOUS
        <3> HIDE DEF D
        <3> QED BY <1>3, <3>1, LeastNatural
    <2>2. PICK s \in SUBSET T : Cardinality(s) = m /\ g[s] # h[s]
        OBVIOUS
    <2>3. s # {}
        BY <1>2, <2>2
    <2> DEFINE x == Pick(s)
               r == s \ {x}
    <2>4. x \in s
        BY <2>3 DEF Pick
    <2> HIDE DEF x
    <2>5. r \in SUBSET T /\ Cardinality(r) = Cardinality(s) - 1 /\ Cardinality(r) \in Nat
        BY <1>1, <2>4, FS_RemoveElement
    <2>6. Cardinality(r) \notin D
        <3>1. m \in Nat /\ ~(m <= Cardinality(r))
            BY <1>1, <2>2, <2>5
        <3> HIDE DEF D, r
        <3> QED BY <2>1, <3>1
    <2>7. g[r] = h[r]
        BY <2>5, <2>6
    <2> QED BY <1>2, <2>2, <2>3, <2>7 DEF x
<1>4. \A s \in SUBSET T : g[s] = h[s]
    BY <1>1, <1>3
<1>5. g = [s \in SUBSET T |-> g[s]] /\ h = [s \in SUBSET T |-> h[s]]
    BY DEF Adds
<1> QED BY <1>4, <1>5

\* The pages that the numbers F give to each element of s, told apart.
PagesOf(F, s) == {p \in s \X Nat : p[2] < F[p[1]]}

\* One element has as many as F says.
LEMMA PagesOfOne ==
    ASSUME NEW F, NEW x, F[x] \in Nat
    PROVE  IsFiniteSet(PagesOf(F, {x})) /\ Cardinality(PagesOf(F, {x})) = F[x]
<1> DEFINE n == F[x]
<1>1. PagesOf(F, {x}) = {x} \X (0 .. n - 1)
    BY DEF PagesOf
<1>5. n \in Nat /\ 0 \in Int /\ n - 1 \in Int
    OBVIOUS
<1> HIDE DEF n
<1>2. IsFiniteSet({x}) /\ Cardinality({x}) = 1
    BY FS_Singleton
<1>3. IsFiniteSet(0 .. n - 1) /\ Cardinality(0 .. n - 1) = n
    <2>1. IsFiniteSet(0 .. n - 1)
          /\ Cardinality(0 .. n - 1) = IF 0 > n - 1 THEN 0 ELSE (n - 1) - 0 + 1
        BY <1>5, FS_Interval
    <2> QED BY <1>5, <2>1
<1>4. /\ IsFiniteSet({x} \X (0 .. n - 1))
      /\ Cardinality({x} \X (0 .. n - 1)) = Cardinality({x}) * Cardinality(0 .. n - 1)
    BY <1>2, <1>3, FS_Product
<1>6. Cardinality({x} \X (0 .. n - 1)) = n
    <2>1. 1 * n = n
        BY <1>5
    <2> QED BY <1>2, <1>3, <1>4, <2>1
<1>7. IsFiniteSet(PagesOf(F, {x})) /\ Cardinality(PagesOf(F, {x})) = n
    BY <1>1, <1>4, <1>6
<1> QED BY <1>7 DEF n

\* The pages of a set are those of one element and those of the others.
LEMMA PagesSplit ==
    ASSUME NEW s, NEW F, NEW x \in s, F[x] \in Nat, IsFiniteSet(PagesOf(F, s \ {x}))
    PROVE  /\ IsFiniteSet(PagesOf(F, s))
           /\ Cardinality(PagesOf(F, s)) = F[x] + Cardinality(PagesOf(F, s \ {x}))
<1> DEFINE a == PagesOf(F, {x})
           b == PagesOf(F, s \ {x})
<1>1. PagesOf(F, s) = a \cup b /\ a \cap b = {}
    BY DEF PagesOf
<1>2. IsFiniteSet(a) /\ Cardinality(a) = F[x]
    BY PagesOfOne
<1>3. Cardinality(b) \in Nat
    BY FS_CardinalityType
<1> HIDE DEF a, b
<1>4. /\ IsFiniteSet(a \cup b)
      /\ Cardinality(a \cup b) = Cardinality(a) + Cardinality(b) - Cardinality(a \cap b)
    BY <1>2, FS_Union DEF b
<1>5. Cardinality(a \cap b) = 0
    BY <1>1, FS_EmptySet
<1>6. Cardinality(a \cup b) = F[x] + Cardinality(b)
    BY <1>2, <1>3, <1>4, <1>5
<1> QED BY <1>1, <1>4, <1>6 DEF b

\* A finite set has finitely many pages.
LEMMA PagesFinite ==
    ASSUME NEW T, IsFiniteSet(T), NEW F, \A x \in T : F[x] \in Nat, NEW s \in SUBSET T
    PROVE  IsFiniteSet(PagesOf(F, s))
<1> DEFINE D == {n \in Nat : \E r \in SUBSET T : Cardinality(r) = n /\ ~IsFiniteSet(PagesOf(F, r))}
<1>1. \A r \in SUBSET T : IsFiniteSet(r) /\ Cardinality(r) \in Nat
    BY FS_Subset, FS_CardinalityType
<1>2. ASSUME D # {} PROVE FALSE
    <2>1. PICK m \in D : \A n \in D : m <= n
        <3>1. D \in SUBSET Nat
            OBVIOUS
        <3> HIDE DEF D
        <3> QED BY <1>2, <3>1, LeastNatural
    <2>2. PICK r \in SUBSET T : Cardinality(r) = m /\ ~IsFiniteSet(PagesOf(F, r))
        OBVIOUS
    <2>3. r # {}
        <3>1. PagesOf(F, {}) = {}
            BY DEF PagesOf
        <3> QED BY <2>2, <3>1, FS_EmptySet
    <2>4. PICK x \in r : TRUE
        BY <2>3
    <2> DEFINE q == r \ {x}
    <2>5. q \in SUBSET T /\ Cardinality(q) = m - 1 /\ Cardinality(q) \in Nat /\ m \in Nat
        BY <1>1, <2>2, FS_RemoveElement
    <2>6. m - 1 \notin D
        <3>1. ~(m <= m - 1)
            BY <2>5
        <3> HIDE DEF D, q
        <3> QED BY <2>1, <3>1
    <2>7. IsFiniteSet(PagesOf(F, q))
        <3> HIDE DEF q
        <3> QED BY <2>5, <2>6
    <2> QED BY <2>2, <2>7, PagesSplit
<1>3. IsFiniteSet(s) /\ Cardinality(s) \in Nat
    BY <1>1
<1> QED BY <1>2, <1>3

\* The sum by which MapThenSumSet adds F over T is the number of these pages.
LEMMA SumIsPages ==
    ASSUME NEW T, IsFiniteSet(T), NEW F, \A x \in T : F[x] \in Nat
    PROVE  Adds(T, F, [s \in SUBSET T |-> Cardinality(PagesOf(F, s))])
<1> DEFINE g == [s \in SUBSET T |-> Cardinality(PagesOf(F, s))]
<1> SUFFICES ASSUME NEW s \in SUBSET T
             PROVE  g[s] = IF s = {} THEN 0 ELSE F[Pick(s)] + g[s \ {Pick(s)}]
    BY DEF Adds
<1>1. CASE s = {}
    <2>1. PagesOf(F, s) = {}
        BY <1>1 DEF PagesOf
    <2> QED BY <1>1, <2>1, FS_EmptySet
<1>2. CASE s # {}
    <2> DEFINE x == Pick(s)
    <2>1. x \in s /\ x \in T /\ s \ {x} \in SUBSET T
        BY <1>2 DEF Pick
    <2> HIDE DEF x
    <2>2. IsFiniteSet(PagesOf(F, s \ {x}))
        BY <2>1, PagesFinite
    <2>3. Cardinality(PagesOf(F, s)) = F[x] + Cardinality(PagesOf(F, s \ {x}))
        BY <2>1, <2>2, PagesSplit
    <2> QED BY <1>2, <2>1, <2>3 DEF x
<1> QED BY <1>1, <1>2

\* What the launches have of the pages of one size, and how many that are.
Has(m, k) == [l \in Launches |-> m[l][k]]
InUse(m, k) == Cardinality(PagesOf(Has(m, k), Launches))

\* Used is that number.
LEMMA UsedIsInUse ==
    ASSUME NEW k, \A l \in Launches : mapped[l][k] \in Nat
    PROVE  Used(k) = InUse(mapped, k)
<1> DEFINE T == Launches
           F == Has(mapped, k)
           g == [s \in SUBSET T |-> Cardinality(PagesOf(F, s))]
           iter == CHOOSE f : f = [s \in SUBSET T |->
                      IF s = {} THEN 0
                      ELSE LET x == CHOOSE x \in s : TRUE IN mapped[x][k] + f[s \ {x}]]
<1>1. IsFiniteSet(T)
    BY LauncherAssumption
<1>2. \A x \in T : F[x] \in Nat /\ F[x] = mapped[x][k]
    BY DEF Has
<1>3. Used(k) = iter[T]
    BY DEF Used, MapThenSumSet, MapThenFoldSet
<1>4. Adds(T, F, g)
    <2> HIDE DEF F
    <2> QED BY <1>1, <1>2, SumIsPages
<1>5. \A s \in SUBSET T : s # {} => F[Pick(s)] = mapped[Pick(s)][k]
    <2>1. \A s \in SUBSET T : s # {} => Pick(s) \in T
        BY DEF Pick
    <2> QED BY <1>2, <2>1
<1>6. Adds(T, F, iter)
    <2> DEFINE G == [s \in SUBSET T |->
                        IF s = {} THEN 0
                        ELSE LET x == CHOOSE x \in s : TRUE IN mapped[x][k] + g[s \ {x}]]
    <2>1. g = G
        <3> SUFFICES ASSUME NEW s \in SUBSET T PROVE g[s] = G[s]
            OBVIOUS
        <3> HIDE DEF F, g
        <3>1. g[s] = IF s = {} THEN 0 ELSE F[Pick(s)] + g[s \ {Pick(s)}]
            BY <1>4 DEF Adds
        <3>2. G[s] = IF s = {} THEN 0 ELSE mapped[Pick(s)][k] + g[s \ {Pick(s)}]
            BY DEF Pick
        <3> HIDE DEF G
        <3> QED BY <1>5, <3>1, <3>2
    <2> HIDE DEF F, g
    <2>2. iter = [s \in SUBSET T |->
                     IF s = {} THEN 0
                     ELSE LET x == CHOOSE x \in s : TRUE IN mapped[x][k] + iter[s \ {x}]]
        BY <2>1
    <2> HIDE DEF iter
    <2> QED BY <1>5, <2>2 DEF Adds, Pick
<1>7. iter = g
    <2> HIDE DEF iter, F, g
    <2> QED BY <1>1, <1>4, <1>6, OneSum
<1> HIDE DEF iter
<1> QED BY <1>3, <1>7 DEF InUse

\* The pages in use are those of one launch and those of the others, which do not
\* depend on the first.
Others(m, k, l) == Cardinality(PagesOf(Has(m, k), Launches \ {l}))

\* The two add up to the pages in use.
LEMMA InUseSplit ==
    ASSUME NEW m \in [Launches -> [Sizes -> Nat]], NEW k \in Sizes, NEW l \in Launches
    PROVE  InUse(m, k) = m[l][k] + Others(m, k, l) /\ Others(m, k, l) \in Nat
<1> DEFINE F == Has(m, k)
           r == Launches \ {l}
<1>1. \A x \in Launches : F[x] \in Nat /\ F[x] = m[x][k]
    BY DEF Has
<1>2. IsFiniteSet(Launches) /\ r \in SUBSET Launches
    BY LauncherAssumption
<1> HIDE DEF F, r
<1>3. IsFiniteSet(PagesOf(F, r))
    BY <1>1, <1>2, PagesFinite
<1>4. Cardinality(PagesOf(F, r)) \in Nat
    BY <1>3, FS_CardinalityType
<1>5. Cardinality(PagesOf(F, Launches)) = F[l] + Cardinality(PagesOf(F, r))
    BY <1>1, <1>3, PagesSplit DEF r
<1> QED BY <1>1, <1>4, <1>5 DEF Others, InUse, F, r

\* A sum of naturals is one.
LEMMA InUseType ==
    ASSUME NEW m \in [Launches -> [Sizes -> Nat]], NEW k \in Sizes
    PROVE  InUse(m, k) \in Nat
<1>1. \A x \in Launches : Has(m, k)[x] \in Nat
    BY DEF Has
<1>2. IsFiniteSet(PagesOf(Has(m, k), Launches))
    BY <1>1, LauncherAssumption, PagesFinite
<1> QED BY <1>2, FS_CardinalityType DEF InUse

\* If only one launch's pages change, those of the others are as many as before.
LEMMA OthersSame ==
    ASSUME NEW m, NEW n, NEW k, NEW l \in Launches,
           \A x \in Launches \ {l} : m[x][k] = n[x][k]
    PROVE  Others(m, k, l) = Others(n, k, l)
<1>1. \A x \in Launches \ {l} : Has(m, k)[x] = Has(n, k)[x]
    BY DEF Has
<1>2. PagesOf(Has(m, k), Launches \ {l}) = PagesOf(Has(n, k), Launches \ {l})
    BY <1>1 DEF PagesOf
<1> QED BY <1>2 DEF Others

\* If the others have none, they have none in sum.
LEMMA NoOthers ==
    ASSUME NEW m, NEW k, NEW l \in Launches, \A x \in Launches \ {l} : m[x][k] = 0
    PROVE  Others(m, k, l) = 0
<1>1. \A x \in Launches \ {l} : Has(m, k)[x] = 0
    BY DEF Has
<1>2. PagesOf(Has(m, k), Launches \ {l}) = {}
    BY <1>1 DEF PagesOf
<1> QED BY <1>2, FS_EmptySet DEF Others

-------------------------------------------------------------------------------
(* The invariant.                                                          *)

Labels == {"idle", "lock", "compare", "first", "second", "check", "start", "init", "running"}
          \cup Over

\* The types of the variables.
Types ==
    /\ layout \in [Launches -> Layouts]
    /\ format \in [Launches -> {"legacy", "new"}]
    /\ debug \in [Launches -> BOOLEAN]
    /\ supported \in BOOLEAN /\ fragmented \in BOOLEAN
    /\ pc \in [Launches -> Labels] /\ order \in [Launches -> Sizes]
    /\ config \in [Launches -> Layouts]
    /\ mapped \in [Launches -> [Sizes -> Nat]]
    /\ alone \in [Launches -> BOOLEAN]
    /\ file \subseteq Layouts
    /\ nr \in [Sizes -> Nat]

\* Only a running program has pages, no more than its pools at their full size.
OnlyRunning ==
    \A l \in Launches :
        IF pc[l] = "running" THEN \A k \in Sizes : mapped[l][k] <= Backed(config[l])[k]
        ELSE mapped[l] = None

\* A launch that was without another one all the time still is.
AloneIsAlone == \A l \in Launches : alone[l] /\ l \in Active => Active = {l}

\* The kernel never gives more than it has, and no large pages where there are none.
InMemory ==
    /\ NrHugepages("2mb") + GBPages * NrHugepages("1gb") <= Memory
    /\ supported \/ nr["1gb"] = 0

\* Without another launch, a program runs with its own layout.
OwnLayout ==
    \A l \in Launches : alone[l] =>
        /\ format[l] = "new" /\ l \in Active => file = {layout[l]}
        /\ pc[l] \in {"init", "running", "done"} => config[l] = layout[l]

\* From the script's check on, the pages that were asked for stay.
Enough ==
    \A l \in Launches : alone[l] /\ ~debug[l] =>
        /\ pc[l] \in {"start", "init", "running"} => \A k \in Sizes : nr[k] >= Requested(l)[k]
        /\ pc[l] # "short"

\* What a launch needs for ReservedIfItFits.
Fits(l) ==
    /\ alone[l] /\ ~fragmented
    /\ Requested(l)["2mb"] + GBPages * Requested(l)["1gb"] <= Memory
    /\ supported \/ Requested(l)["1gb"] = 0

\* The script sets the size first of which there is too much, so that the other size
\* finds room.
Setting ==
    \A l \in Launches : Fits(l) =>
        /\ pc[l] = "first" => (order[l] = "2mb" <=> nr["2mb"] > Requested(l)["2mb"])
        /\ pc[l] = "second" =>
              IF order[l] = "2mb" THEN nr["2mb"] = Requested(l)["2mb"]
              ELSE nr["2mb"] <= Requested(l)["2mb"] /\ nr["1gb"] = Requested(l)["1gb"]
        /\ pc[l] = "check" => \A k \in Sizes : nr[k] >= Requested(l)[k]
        /\ pc[l] # "failed"

\* The inductive invariant.
IInv == Types /\ OnlyRunning /\ AloneIsAlone /\ InMemory /\ OwnLayout /\ Enough /\ Setting

-------------------------------------------------------------------------------
(* The kernel's numbers.                                                   *)

Larger(a, b) == IF a <= b THEN b ELSE a

\* What Max and Min choose from two integers.
LEMMA MaxOfPair ==
    ASSUME NEW a \in Int, NEW b \in Int
    PROVE  Max({a, b}) = Larger(a, b) /\ Min({a, b}) = IF a <= b THEN a ELSE b
<1>1. CASE a <= b
    <2>1. \A x \in {a, b} : (\A y \in {a, b} : x >= y) => x = b
        BY <1>1
    <2>2. b \in {a, b} /\ \A y \in {a, b} : b >= y
        BY <1>1
    <2>3. \A x \in {a, b} : (\A y \in {a, b} : x <= y) => x = a
        BY <1>1
    <2>4. a \in {a, b} /\ \A y \in {a, b} : a <= y
        BY <1>1
    <2> QED BY <1>1, <2>1, <2>2, <2>3, <2>4 DEF Max, Min, Larger
<1>2. CASE b < a
    <2>1. \A x \in {a, b} : (\A y \in {a, b} : x >= y) => x = a
        BY <1>2
    <2>2. a \in {a, b} /\ \A y \in {a, b} : a >= y
        BY <1>2
    <2>3. \A x \in {a, b} : (\A y \in {a, b} : x <= y) => x = b
        BY <1>2
    <2>4. b \in {a, b} /\ \A y \in {a, b} : b <= y
        BY <1>2
    <2> QED BY <1>2, <2>1, <2>2, <2>3, <2>4 DEF Max, Min, Larger
<1> QED BY <1>1, <1>2

\* What the kernel says of the pages of size k.
Number(n, m, k) == Larger(n[k], InUse(m, k))

KernelOf(k) ==
    /\ Used(k) = InUse(mapped, k) /\ InUse(mapped, k) \in Nat
    /\ NrHugepages(k) = Number(nr, mapped, k)
    /\ NrHugepages(k) \in Nat

\* With the right types, that is what it says in the model ...
LEMMA Kernel == Types => \A k \in Sizes : KernelOf(k)
<1> SUFFICES ASSUME Types, NEW k \in Sizes PROVE KernelOf(k)
    OBVIOUS
<1>1. mapped \in [Launches -> [Sizes -> Nat]] /\ nr[k] \in Nat
    BY DEF Types
<1>2. Used(k) = InUse(mapped, k)
    <2>1. \A l \in Launches : mapped[l][k] \in Nat
        BY <1>1
    <2> QED BY <2>1, UsedIsInUse
<1>3. InUse(mapped, k) \in Nat
    BY <1>1, InUseType
<1>4. Max({nr[k], Used(k)}) = Larger(nr[k], Used(k))
    BY <1>1, <1>2, <1>3, MaxOfPair
<1> QED BY <1>1, <1>2, <1>3, <1>4 DEF KernelOf, NrHugepages, Number, Larger

\* ... and after a step too.
LEMMA KernelNext == Types' => \A k \in Sizes : KernelOf(k)'
<1>1. Types' => (\A k \in Sizes : KernelOf(k))'
    BY Kernel, PTL
<1> QED BY <1>1

\* A division rounds down.
LEMMA Division ==
    ASSUME NEW a \in Nat, NEW w \in Nat \ {0}
    PROVE  /\ a \div w \in Nat /\ w * (a \div w) <= a
           /\ \A n \in Nat : w * n <= a => n <= a \div w
<1> DEFINE q == a \div w
           r == a % w
<1>1. q \in Nat /\ r \in Nat /\ r < w /\ a = w * q + r
    OBVIOUS
<1> HIDE DEF q, r
<1>2. w * q \in Nat /\ w * q <= a
    BY <1>1
<1>3. ASSUME NEW n \in Nat, w * n <= a PROVE n <= q
    <2>1. CASE q < n
        <3>1. w * (q + 1) <= w * n
            <4>1. q + 1 \in Nat /\ q + 1 <= n
                BY <1>1, <2>1
            <4> QED BY <4>1
        <3>2. w * (q + 1) = w * q + w
            BY <1>1
        <3> QED BY <1>1, <1>2, <1>3, <3>1, <3>2
    <2> QED BY <1>1, <2>1
<1> QED BY <1>1, <1>2, <1>3 DEF q

\* Products grow with a factor.
LEMMA TimesMonotone ==
    ASSUME NEW w \in Nat, NEW a \in Nat, NEW b \in Nat, a <= b
    PROVE  w * a \in Nat /\ w * b \in Nat /\ w * a <= w * b
OBVIOUS

\* The memory that n pages of size k take beside the pages that there are of the other.
Beside(k, n) ==
    IF k = "1gb" THEN NrHugepages("2mb") + GBPages * n ELSE n + GBPages * NrHugepages("1gb")

\* What becomes of a write of n to nr_hugepages: m.
Given(k, n, m) ==
    /\ m \in Nat /\ nr' = [nr EXCEPT ![k] = m]
    /\ n <= NrHugepages(k) => m = n
    /\ ~(n <= NrHugepages(k)) => NrHugepages(k) <= m /\ Beside(k, m) <= Memory
    /\ ~fragmented /\ Beside(k, n) <= Memory => m = n

\* Every write of the script's is answered so.
LEMMA KeepGives ==
    ASSUME Types, InMemory, NEW k \in Sizes, NEW n \in Nat, Keep(k, n)
    PROVE  \E m \in Nat : Given(k, n, m)
<1> DEFINE o == NrHugepages(Other(k))
           p == NrHugepages(k)
           w == Weight[k]
           v == Weight[Other(k)]
           a == Memory - v * o
           room == a \div w
           got == Min({n, room})
<1>1. o \in Nat /\ p \in Nat /\ NrHugepages("2mb") \in Nat /\ NrHugepages("1gb") \in Nat
    BY Kernel DEF KernelOf, Other, Sizes
<1>2. w \in Nat \ {0} /\ v \in Nat \ {0} /\ Memory \in Nat /\ GBPages \in Nat
    BY LauncherAssumption DEF Weight, Sizes, Other
<1>3. \A x \in Nat : Beside(k, x) = w * x + v * o
    <2>1. CASE k = "1gb"
        <3>1. w = GBPages /\ v = 1 /\ o = NrHugepages("2mb")
            BY <2>1 DEF Weight, Sizes, Other
        <3>2. 1 * NrHugepages("2mb") = NrHugepages("2mb")
            BY <1>1
        <3> HIDE DEF w, v, o
        <3>3. \A x \in Nat : GBPages * x \in Nat
            BY <1>2
        <3> QED BY <1>1, <1>2, <2>1, <3>1, <3>2, <3>3 DEF Beside
    <2>2. CASE k = "2mb"
        <3>1. w = 1 /\ v = GBPages /\ o = NrHugepages("1gb")
            BY <2>2 DEF Weight, Sizes, Other
        <3>2. \A x \in Nat : 1 * x = x
            OBVIOUS
        <3> HIDE DEF w, v, o
        <3> QED BY <1>1, <1>2, <2>2, <3>1, <3>2 DEF Beside
    <2> QED BY <2>1, <2>2 DEF Sizes
<1>4. Beside(k, p) <= Memory
    BY DEF Beside, InMemory, Sizes
<1>5. \E m \in IF n <= p THEN {n} ELSE IF fragmented THEN p .. got ELSE {got} :
         nr' = [nr EXCEPT ![k] = m]
    BY DEF Keep
<1> HIDE DEF o, p, w, v
<1>6. v * o \in Nat /\ \A x \in Nat : w * x \in Nat
    BY <1>1, <1>2
<1>7. a \in Nat
    BY <1>1, <1>2, <1>3, <1>4, <1>6
<1>8. /\ room \in Nat /\ w * room <= a
      /\ \A x \in Nat : w * x <= a => x <= room
    <2> HIDE DEF a
    <2> QED BY <1>2, <1>7, Division
<1> HIDE DEF room
<1>9. \A x \in Nat : x <= room => Beside(k, x) <= Memory
    <2> SUFFICES ASSUME NEW x \in Nat, x <= room PROVE Beside(k, x) <= Memory
        OBVIOUS
    <2>1. w * x <= w * room
        BY <1>2, <1>8, TimesMonotone
    <2>2. w * x \in Nat /\ w * room \in Nat /\ w * room <= Memory - v * o
        BY <1>6, <1>8
    <2>3. w * x + v * o <= Memory
        BY <1>2, <1>6, <2>1, <2>2
    <2> QED BY <1>3, <2>3
<1>10. \A x \in Nat : Beside(k, x) <= Memory => x <= room
    BY <1>2, <1>3, <1>6, <1>8
<1>11. got = IF n <= room THEN n ELSE room
    <2>1. n \in Int /\ room \in Int
        BY <1>8
    <2> QED BY <2>1, MaxOfPair
<1> HIDE DEF got
<1>12. p <= room
    BY <1>1, <1>4, <1>10
<1>13. PICK m \in IF n <= p THEN {n} ELSE IF fragmented THEN p .. got ELSE {got} :
          nr' = [nr EXCEPT ![k] = m]
    BY <1>5
<1>14. m \in Nat /\ (~(n <= p) => p <= m /\ m <= room) /\ (n <= p => m = n)
    BY <1>1, <1>8, <1>11, <1>12, <1>13
<1>15. ~fragmented /\ Beside(k, n) <= Memory => m = n
    BY <1>10, <1>11, <1>13
<1>16. Given(k, n, m)
    BY <1>9, <1>13, <1>14, <1>15 DEF Given, p
<1> QED BY <1>14, <1>16

-------------------------------------------------------------------------------
(* The steps: types.                                                       *)

\* The pages of a layout are natural numbers.
LEMMA LayoutTypes ==
    ASSUME NEW lay \in Layouts
    PROVE  /\ Backed(lay) \in [Sizes -> Nat] /\ Total(lay) \in [Sizes -> Nat]
           /\ \A k \in Sizes : Backed(lay)[k] = Total(lay)[k]
<1>1. lay.brk \in [Sizes -> Nat] /\ lay.mmap \in [Sizes -> Nat]
    BY LauncherAssumption
<1> QED BY <1>1 DEF Backed, Total

\* The script is asked for at least the pages of the layout.
LEMMA RequestedTypes ==
    ASSUME Types, NEW l \in Launches
    PROVE  \A k \in Sizes : /\ Requested(l)[k] \in Nat
                            /\ Total(layout[l])[k] \in Nat
                            /\ Total(layout[l])[k] <= Requested(l)[k]
<1>1. Total(layout[l]) \in [Sizes -> Nat]
    BY LayoutTypes DEF Types
<1>2. \A k \in Sizes : Total(layout[l])[k] \in Nat
    BY <1>1
<1> QED BY <1>2 DEF Requested

\* What the pools may have at a time is a number of pages of each size.
LEMMA TargetTypes ==
    ASSUME NEW lay \in Layouts,
           NEW t \in [Sizes -> 0 .. Max({Backed(lay)[k] : k \in Sizes})]
    PROVE  t \in [Sizes -> Nat]
<1> DEFINE b == Backed(lay)
<1>1. b["2mb"] \in Nat /\ b["1gb"] \in Nat
    BY LayoutTypes DEF Sizes
<1>2. {Backed(lay)[k] : k \in Sizes} = {b["2mb"], b["1gb"]}
    BY DEF Sizes
<1>3. Max({b["2mb"], b["1gb"]}) \in Nat
    <2> HIDE DEF b
    <2> QED BY <1>1, MaxOfPair DEF Larger
<1>4. t \in [Sizes -> 0 .. Max({b["2mb"], b["1gb"]})]
    BY <1>2
<1> QED BY <1>3, <1>4

\* No pages are a number of pages of each size.
LEMMA NoneType == None \in [Sizes -> Nat]
BY DEF None

\* A step of the kernel's on the way of a script.
LEMMA SetPagesCases ==
    ASSUME Types, InMemory, NEW p \in Launches, SetPages(p)
    PROVE  \E at \in {"first", "second"}, k \in Sizes, m \in Nat :
              /\ pc[p] = at /\ k = IF at = "first" THEN order[p] ELSE Other(order[p])
              /\ pc' = [pc EXCEPT ![p] = IF at = "first" THEN "second" ELSE "check"]
              /\ IF k = "1gb" /\ ~supported THEN nr' = nr /\ m = nr[k]
                 ELSE Given(k, Requested(p)[k], m)
              /\ nr' = [nr EXCEPT ![k] = m]
<1>1. PICK at \in {"first", "second"} :
         LET k == IF at = "first" THEN order[p] ELSE Other(order[p])
         IN /\ pc[p] = at
            /\ Goto(p, IF at = "first" THEN "second" ELSE "check")
            /\ IF k = "1gb" /\ ~supported THEN UNCHANGED nr ELSE Keep(k, Requested(p)[k])
    BY DEF SetPages
<1> DEFINE k == IF at = "first" THEN order[p] ELSE Other(order[p])
<1>2. k \in Sizes
    BY DEF Types, Other, Sizes
<1>3. /\ pc[p] = at
      /\ Goto(p, IF at = "first" THEN "second" ELSE "check")
      /\ IF k = "1gb" /\ ~supported THEN UNCHANGED nr ELSE Keep(k, Requested(p)[k])
    BY <1>1
<1>4. \E m \in Nat : /\ IF k = "1gb" /\ ~supported THEN nr' = nr /\ m = nr[k]
                        ELSE Given(k, Requested(p)[k], m)
                     /\ nr' = [nr EXCEPT ![k] = m]
    <2> HIDE DEF k
    <2>1. CASE k = "1gb" /\ ~supported
        <3>1. nr \in [Sizes -> Nat]
            BY DEF Types
        <3>2. nr' = nr /\ nr[k] \in Nat /\ nr = [nr EXCEPT ![k] = nr[k]]
            BY <1>2, <1>3, <2>1, <3>1
        <3> QED BY <2>1, <3>2
    <2>2. CASE ~(k = "1gb" /\ ~supported)
        <3>1. Requested(p)[k] \in Nat
            BY <1>2, RequestedTypes
        <3>2. Keep(k, Requested(p)[k])
            BY <1>3, <2>2
        <3>3. PICK m \in Nat : Given(k, Requested(p)[k], m)
            BY <1>2, <3>1, <3>2, KeepGives
        <3> QED BY <2>2, <3>3 DEF Given
    <2> QED BY <2>1, <2>2
<1> QED BY <1>2, <1>3, <1>4 DEF Goto

\* The program of one launch gets pages or ends.
LEMMA MapCases ==
    ASSUME NEW p \in Launches, Types, NEW t \in [Sizes -> Nat], NEW next \in Labels,
           Map(p, t, next)
    PROVE  /\ UNCHANGED <<user, node, order, config, alone, lock, file, nr>>
           /\ \/ /\ \A k \in Sizes : t[k] - mapped[p][k] <= Free(k)
                 /\ mapped' = [mapped EXCEPT ![p] = t]
                 /\ pc' = [pc EXCEPT ![p] = next]
              \/ /\ ~(\A k \in Sizes : t[k] - mapped[p][k] <= Free(k))
                 /\ mapped' = [mapped EXCEPT ![p] = None]
                 /\ pc' = [pc EXCEPT ![p] = "short"]
<1>1. CASE \A k \in Sizes : t[k] - mapped[p][k] <= Free(k)
    BY <1>1 DEF Map, Goto
<1>2. CASE ~(\A k \in Sizes : t[k] - mapped[p][k] <= Free(k))
    BY <1>2 DEF Map, Goto
<1> QED BY <1>1, <1>2

\* Both actions by which it does so.
Pages(p, t, at) ==
    /\ t \in [Sizes -> Nat] /\ pc[p] = at /\ at \in {"init", "running"}
    /\ \A k \in Sizes : t[k] <= Backed(config[p])[k]
    /\ Map(p, t, "running")

\* InitRegions and Resize are such steps.
LEMMA MapSteps ==
    ASSUME Types, NEW p \in Launches, InitRegions(p) \/ Resize(p)
    PROVE  \E t, at : Pages(p, t, at)
<1>1. config[p] \in Layouts
    BY DEF Types
<1>2. CASE InitRegions(p)
    <2>1. Backed(config[p]) \in [Sizes -> Nat]
        BY <1>1, LayoutTypes
    <2>2. \A k \in Sizes : Backed(config[p])[k] <= Backed(config[p])[k]
        BY <2>1
    <2>3. Pages(p, Backed(config[p]), "init")
        BY <1>2, <2>1, <2>2 DEF InitRegions, Pages
    <2> QED BY <2>3
<1>3. CASE Resize(p)
    <2>1. PICK t \in [Sizes -> 0 .. Max({Backed(config[p])[k] : k \in Sizes})] :
             (\A k \in Sizes : t[k] <= Backed(config[p])[k]) /\ Map(p, t, "running")
        BY <1>3 DEF Resize
    <2>2. t \in [Sizes -> Nat]
        BY <1>1, TargetTypes
    <2>3. Pages(p, t, "running")
        BY <1>3, <2>1, <2>2 DEF Resize, Pages
    <2> QED BY <2>3
<1> QED BY <1>2, <1>3

\* Every step keeps the types.
LEMMA StepTypes ==
    ASSUME Types, InMemory, Next
    PROVE  Types'
<1> PICK p \in Launches :
       \/ Launch(p) \/ Lock(p) \/ Compare(p) \/ SetPages(p) \/ Check(p)
       \/ Start(p) \/ Refuse(p) \/ InitRegions(p) \/ Resize(p) \/ End(p)
    BY DEF Next
<1>1. CASE Launch(p)
    <2>1. /\ pc' \in [Launches -> Labels] /\ alone' \in [Launches -> BOOLEAN]
          /\ file' \subseteq Layouts
        BY <1>1 DEF Launch, Goto, Types, Labels
    <2> QED BY <1>1, <2>1 DEF Launch, Types, user, node
<1>2. CASE Lock(p)
    BY <1>2 DEF Lock, Goto, Types, Labels, user, node
<1>3. CASE Compare(p)
    <2>1. order' \in [Launches -> Sizes] /\ pc' \in [Launches -> Labels]
        BY <1>3 DEF Compare, Goto, Types, Labels, Sizes
    <2> QED BY <1>3, <2>1 DEF Compare, Types, user, node
<1>4. CASE SetPages(p)
    <2>1. UNCHANGED <<user, node, order, config, mapped, alone, lock, file>>
        BY <1>4 DEF SetPages
    <2>2. nr' \in [Sizes -> Nat] /\ pc' \in [Launches -> Labels]
        <3>1. PICK at \in {"first", "second"}, k \in Sizes, m \in Nat :
                 /\ pc' = [pc EXCEPT ![p] = IF at = "first" THEN "second" ELSE "check"]
                 /\ nr' = [nr EXCEPT ![k] = m]
            BY <1>4, SetPagesCases
        <3>2. pc \in [Launches -> Labels] /\ nr \in [Sizes -> Nat]
            BY DEF Types
        <3>3. {"second", "check"} \subseteq Labels
            BY DEF Labels
        <3> QED BY <3>1, <3>2, <3>3
    <2> QED BY <2>1, <2>2 DEF Types, user, node
<1>5. CASE Check(p)
    <2>1. pc' \in [Launches -> Labels]
        BY <1>5 DEF Check, Goto, Types, Labels, Over
    <2> QED BY <1>5, <2>1 DEF Check, Types, user, node
<1>6. CASE Start(p)
    <2>1. config' \in [Launches -> Layouts] /\ pc' \in [Launches -> Labels]
        BY <1>6 DEF Start, Goto, Types, Labels
    <2> QED BY <1>6, <2>1 DEF Start, Types, user, node
<1>7. CASE Refuse(p)
    <2>1. pc' \in [Launches -> Labels]
        BY <1>7 DEF Refuse, Goto, Types, Labels, Over
    <2> QED BY <1>7, <2>1 DEF Refuse, Types, user, node
<1>8. CASE InitRegions(p) \/ Resize(p)
    <2>1. PICK t, at : Pages(p, t, at)
        BY <1>8, MapSteps
    <2>2. t \in [Sizes -> Nat] /\ "running" \in Labels /\ Map(p, t, "running")
        BY <2>1 DEF Pages, Labels
    <2>3. UNCHANGED <<user, node, order, config, alone, lock, file, nr>>
        BY <2>2, MapCases
    <2>4. mapped' \in [Launches -> [Sizes -> Nat]] /\ pc' \in [Launches -> Labels]
        <3>1. \/ mapped' = [mapped EXCEPT ![p] = t] /\ pc' = [pc EXCEPT ![p] = "running"]
              \/ mapped' = [mapped EXCEPT ![p] = None] /\ pc' = [pc EXCEPT ![p] = "short"]
            BY <2>2, MapCases
        <3>2. pc \in [Launches -> Labels] /\ mapped \in [Launches -> [Sizes -> Nat]]
            BY DEF Types
        <3>3. {"running", "short"} \subseteq Labels
            BY DEF Labels, Over
        <3> QED BY <2>2, <3>1, <3>2, <3>3, NoneType
    <2> QED BY <2>3, <2>4 DEF Types, user, node
<1>9. CASE End(p)
    <2>1. mapped' \in [Launches -> [Sizes -> Nat]] /\ pc' \in [Launches -> Labels]
        BY <1>9, NoneType DEF End, Goto, Types, Labels, Over
    <2> QED BY <1>9, <2>1 DEF End, Types, user, node
<1> QED BY <1>1, <1>2, <1>3, <1>4, <1>5, <1>6, <1>7, <1>8, <1>9

-------------------------------------------------------------------------------
(* The steps: who is there.                                                *)

\* Every step but a launch is one of a launch that is active.
Going(p) ==
    \/ Lock(p) \/ Compare(p) \/ SetPages(p) \/ Check(p)
    \/ Start(p) \/ Refuse(p) \/ InitRegions(p) \/ Resize(p) \/ End(p)

\* It changes the place of no other launch, and none goes back to the start.
LEMMA GoingSteps ==
    ASSUME Types, InMemory, NEW p \in Launches, Going(p)
    PROVE  /\ p \in Active /\ UNCHANGED <<user, node, alone, file>>
           /\ \E to \in Labels \ {"idle"} : pc' = [pc EXCEPT ![p] = to]
<1> DEFINE D == p \in Active /\ UNCHANGED <<user, node, alone, file>>
           G == \E to \in Labels \ {"idle"} : pc' = [pc EXCEPT ![p] = to]
<1>0. {"compare", "first", "start", "failed", "init", "refused", "done", "short", "running",
       "second", "check"} \subseteq Labels \ {"idle"}
    BY DEF Labels, Over
<1>1. CASE Lock(p) \/ Compare(p) \/ Start(p) \/ Refuse(p) \/ End(p)
    <2>1. D
        BY <1>1 DEF Lock, Compare, Start, Refuse, End, Active, Over
    <2>2. G
        BY <1>0, <1>1 DEF Lock, Compare, Start, Refuse, End, Goto
    <2> QED BY <2>1, <2>2
<1>2. CASE Check(p)
    <2>1. D
        BY <1>2 DEF Check, Active, Over
    <2>2. pc' = [pc EXCEPT ![p] = "start"] \/ pc' = [pc EXCEPT ![p] = "failed"]
        BY <1>2 DEF Check, Goto
    <2> QED BY <1>0, <2>1, <2>2
<1>3. CASE SetPages(p)
    <2>1. UNCHANGED <<user, node, alone, file>>
        BY <1>3 DEF SetPages
    <2>2. PICK at \in {"first", "second"}, k \in Sizes, m \in Nat :
             pc[p] = at /\ pc' = [pc EXCEPT ![p] = IF at = "first" THEN "second" ELSE "check"]
        BY <1>3, SetPagesCases
    <2>3. p \in Active
        BY <2>2 DEF Active, Over
    <2>4. pc' = [pc EXCEPT ![p] = "second"] \/ pc' = [pc EXCEPT ![p] = "check"]
        BY <2>2
    <2> QED BY <1>0, <2>1, <2>3, <2>4
<1>4. CASE InitRegions(p) \/ Resize(p)
    <2>1. PICK t, at : Pages(p, t, at)
        BY <1>4, MapSteps
    <2>2. t \in [Sizes -> Nat] /\ "running" \in Labels /\ Map(p, t, "running")
        BY <2>1 DEF Pages, Labels
    <2>3. UNCHANGED <<user, node, alone, file>>
        BY <2>2, MapCases
    <2>4. pc' = [pc EXCEPT ![p] = "running"] \/ pc' = [pc EXCEPT ![p] = "short"]
        BY <2>2, MapCases
    <2>5. p \in Active
        BY <2>1 DEF Pages, Active, Over
    <2> QED BY <1>0, <2>3, <2>4, <2>5
<1> QED BY <1>1, <1>2, <1>3, <1>4 DEF Going

\* There are no other steps.
LEMMA NextSteps == Next <=> \E p \in Launches : Launch(p) \/ Going(p)
BY DEF Next, Going

\* A launch that is the only one is the one that takes the step.
LEMMA OnlyOne ==
    ASSUME AloneIsAlone, NEW l \in Launches, NEW p \in Active, alone[l], l \in Active
    PROVE  p = l
BY DEF AloneIsAlone

\* What a new launch finds: it is alone if no other is active, and ends that of others.
LEMMA LaunchSteps ==
    ASSUME Types, NEW p \in Launches, Launch(p)
    PROVE  /\ pc[p] = "idle" /\ p \in Active' /\ p \notin Active
           /\ \E to \in {"start", "lock"} :
                 /\ pc' = [pc EXCEPT ![p] = to]
                 /\ to = "start" => debug[p]
           /\ \A l \in Launches : alone'[l] => alone[l]
           /\ \A l \in Launches : alone'[l] /\ l \in Active' => l = p /\ Active = {}
           /\ UNCHANGED <<user, node, order, config, mapped, lock, nr>>
           /\ file' = IF format[p] = "new" THEN {layout[p]} ELSE file
<1>1. /\ pc[p] = "idle"
      /\ alone' = [m \in Launches |-> alone[m] /\ (m \in Active \cup {p} => Active = {})]
      /\ UNCHANGED <<user, node, order, config, mapped, lock, nr>>
      /\ file' = IF format[p] = "new" THEN {layout[p]} ELSE file
    BY DEF Launch
<1>2. pc' = [pc EXCEPT ![p] = IF debug[p] THEN "start" ELSE "lock"]
    BY DEF Launch, Goto
<1>3. \E to \in {"start", "lock"} : pc' = [pc EXCEPT ![p] = to] /\ (to = "start" => debug[p])
    <2>1. CASE debug[p]
        BY <1>2, <2>1
    <2>2. CASE ~debug[p]
        BY <1>2, <2>2
    <2> QED BY <2>1, <2>2
<1>4. p \notin Active
    BY <1>1 DEF Active
<1>5. Active' = Active \cup {p}
    BY <1>2 DEF Active, Over, Types
<1>6. \A l \in Launches : alone'[l] = (alone[l] /\ (l \in Active \cup {p} => Active = {}))
    BY <1>1
<1>7. \A l \in Launches : alone'[l] /\ l \in Active' => l = p /\ Active = {}
    BY <1>5, <1>6
<1>8. \A l \in Launches : alone'[l] => alone[l]
    BY <1>6
<1>9. p \in Active'
    BY <1>5
<1> QED BY <1>1, <1>3, <1>4, <1>7, <1>8, <1>9

\* A launch without another one stays so until the next Launch.
LEMMA StepAlone ==
    ASSUME Types, AloneIsAlone, InMemory, Next
    PROVE  AloneIsAlone'
<1> PICK p \in Launches : Launch(p) \/ Going(p)
    BY NextSteps
<1> SUFFICES ASSUME NEW l \in Launches, alone'[l], l \in Active' PROVE Active' = {l}
    BY DEF AloneIsAlone
<1>1. CASE Launch(p)
    <2>1. l = p /\ Active = {}
        BY <1>1, LaunchSteps
    <2>2. Active' \subseteq Active \cup {p}
        BY <1>1 DEF Launch, Goto, Active, Types
    <2> QED BY <2>1, <2>2
<1>2. CASE Going(p)
    <2>1. p \in Active /\ alone' = alone
        BY <1>2, GoingSteps
    <2>2. Active' \subseteq Active
        <3>1. PICK to \in Labels : pc' = [pc EXCEPT ![p] = to]
            BY <1>2, GoingSteps
        <3> QED BY <2>1, <3>1 DEF Active, Types
    <2> QED BY <2>1, <2>2 DEF AloneIsAlone
<1> QED BY <1>1, <1>2

\* Only Map and End change what a program has, and only where it runs.
LEMMA StepOnlyRunning ==
    ASSUME Types, OnlyRunning, InMemory, Next
    PROVE  OnlyRunning'
<1> DEFINE Owns(l) == IF pc[l] = "running"
                      THEN \A k \in Sizes : mapped[l][k] <= Backed(config[l])[k]
                      ELSE mapped[l] = None
<1> PICK p \in Launches :
       \/ Launch(p) \/ Lock(p) \/ Compare(p) \/ SetPages(p) \/ Check(p)
       \/ Start(p) \/ Refuse(p) \/ InitRegions(p) \/ Resize(p) \/ End(p)
    BY DEF Next
<1>1. /\ \A l \in Launches : Owns(l)
      /\ pc \in [Launches -> Labels] /\ mapped \in [Launches -> [Sizes -> Nat]]
      /\ config \in [Launches -> Layouts]
    BY DEF OnlyRunning, Types
<1>2. CASE Launch(p) \/ Lock(p) \/ Compare(p) \/ Check(p) \/ Refuse(p)
    <2>1. /\ mapped' = mapped /\ config' = config /\ pc[p] # "running"
          /\ \E to : pc' = [pc EXCEPT ![p] = to] /\ to # "running"
        BY <1>2 DEF Launch, Lock, Compare, Check, Refuse, Goto
    <2> QED BY <1>1, <2>1 DEF OnlyRunning
<1>3. CASE Start(p)
    <2>1. /\ mapped' = mapped /\ pc[p] # "running" /\ pc' = [pc EXCEPT ![p] = "init"]
          /\ \A l \in Launches \ {p} : config'[l] = config[l]
        BY <1>1, <1>3 DEF Start, Goto
    <2> QED BY <1>1, <2>1 DEF OnlyRunning
<1>4. CASE SetPages(p)
    <2>1. mapped' = mapped /\ config' = config
        BY <1>4 DEF SetPages
    <2>2. PICK at \in {"first", "second"}, k \in Sizes, m \in Nat :
             pc[p] = at /\ pc' = [pc EXCEPT ![p] = IF at = "first" THEN "second" ELSE "check"]
        BY <1>4, SetPagesCases
    <2> QED BY <1>1, <2>1, <2>2 DEF OnlyRunning
<1>5. CASE InitRegions(p) \/ Resize(p)
    <2>1. PICK t, at : Pages(p, t, at)
        BY <1>5, MapSteps
    <2>2. t \in [Sizes -> Nat] /\ "running" \in Labels /\ Map(p, t, "running")
        BY <2>1 DEF Pages, Labels
    <2>3. /\ config' = config
          /\ \/ mapped' = [mapped EXCEPT ![p] = t] /\ pc' = [pc EXCEPT ![p] = "running"]
             \/ mapped' = [mapped EXCEPT ![p] = None] /\ pc' = [pc EXCEPT ![p] = "short"]
        BY <2>2, MapCases
    <2>4. \A k \in Sizes : t[k] <= Backed(config[p])[k]
        BY <2>1 DEF Pages
    <2> QED BY <1>1, <2>3, <2>4 DEF OnlyRunning
<1>6. CASE End(p)
    <2>1. /\ config' = config /\ mapped' = [mapped EXCEPT ![p] = None]
          /\ pc' = [pc EXCEPT ![p] = "done"]
        BY <1>6 DEF End, Goto
    <2> QED BY <1>1, <2>1 DEF OnlyRunning
<1> QED BY <1>2, <1>3, <1>4, <1>5, <1>6

-------------------------------------------------------------------------------
(* The steps: the kernel's memory.                                         *)

\* The numbers before and after a step.
Both(k) ==
    /\ Used(k) = InUse(mapped, k) /\ InUse(mapped, k) \in Nat /\ nr[k] \in Nat
    /\ NrHugepages(k) = Larger(nr[k], InUse(mapped, k))
    /\ InUse(mapped', k) \in Nat /\ nr'[k] \in Nat
    /\ NrHugepages(k)' = Larger(nr'[k], InUse(mapped', k))

\* The types give both.
LEMMA BothNumbers ==
    ASSUME Types, Types', NEW k \in Sizes
    PROVE  Both(k)
<1>1. KernelOf(k) /\ KernelOf(k)'
    BY Kernel, KernelNext
<1>2. nr[k] \in Nat /\ nr'[k] \in Nat
    BY DEF Types
<1>3. NrHugepages(k)' = Larger(nr'[k], InUse(mapped', k)) /\ InUse(mapped', k) \in Nat
    BY <1>1 DEF KernelOf, Number
<1> QED BY <1>1, <1>2, <1>3 DEF KernelOf, Number, Both

\* There is room as long as there are no more pages than before.
LEMMA LessFits ==
    ASSUME Types, Types', InMemory, UNCHANGED node, supported \/ nr'["1gb"] = 0,
           \A k \in Sizes : NrHugepages(k)' <= NrHugepages(k)
    PROVE  InMemory'
<1> DEFINE a == NrHugepages("2mb")
           b == NrHugepages("1gb")
           c == NrHugepages("2mb")'
           d == NrHugepages("1gb")'
<1>1. a \in Nat /\ b \in Nat /\ c \in Nat /\ d \in Nat
    <2>1. Both("2mb") /\ Both("1gb")
        BY BothNumbers DEF Sizes
    <2> QED BY <2>1 DEF Both, Larger
<1>2. c <= a /\ d <= b /\ a + GBPages * b <= Memory
    BY DEF InMemory, Sizes
<1>3. GBPages \in Nat /\ Memory \in Nat
    BY LauncherAssumption
<1>4. supported' = supported
    BY DEF node
<1> HIDE DEF a, b, c, d
<1>5. GBPages * d \in Nat /\ GBPages * b \in Nat /\ GBPages * d <= GBPages * b
    BY <1>1, <1>2, <1>3, TimesMonotone
<1>6. c + GBPages * d <= Memory
    BY <1>1, <1>2, <1>3, <1>5
<1>7. NrHugepages("2mb")' + GBPages * NrHugepages("1gb")' <= Memory
    BY <1>6 DEF c, d
<1> QED BY <1>4, <1>7 DEF InMemory

\* The pages in use after one launch's pages have become t.
LEMMA UseChanges ==
    ASSUME Types, NEW p \in Launches, NEW t \in [Sizes -> Nat],
           mapped' = [mapped EXCEPT ![p] = t], NEW k \in Sizes
    PROVE  /\ InUse(mapped, k) = mapped[p][k] + Others(mapped, k, p)
           /\ InUse(mapped', k) = t[k] + Others(mapped, k, p)
           /\ Others(mapped, k, p) \in Nat /\ mapped[p][k] \in Nat /\ t[k] \in Nat
<1>1. mapped \in [Launches -> [Sizes -> Nat]] /\ mapped' \in [Launches -> [Sizes -> Nat]]
    BY DEF Types
<1>2. \A x \in Launches \ {p} : mapped'[x][k] = mapped[x][k]
    BY <1>1
<1>3. Others(mapped', k, p) = Others(mapped, k, p)
    <2> DEFINE m == mapped'
               n == mapped
    <2>1. \A x \in Launches \ {p} : m[x][k] = n[x][k]
        BY <1>2
    <2> HIDE DEF m, n
    <2>2. Others(m, k, p) = Others(n, k, p)
        BY <2>1, OthersSame
    <2> QED BY <2>2 DEF m, n
<1>4. InUse(mapped, k) = mapped[p][k] + Others(mapped, k, p) /\ Others(mapped, k, p) \in Nat
    BY <1>1, InUseSplit
<1>5. InUse(mapped', k) = mapped'[p][k] + Others(mapped', k, p)
    BY <1>1, InUseSplit
<1>6. mapped'[p] = t /\ mapped[p][k] \in Nat /\ t[k] \in Nat
    BY <1>1
<1> QED BY <1>3, <1>4, <1>5, <1>6

\* A program gives all its pages back.
LEMMA GivesBack ==
    ASSUME Types, Types', InMemory, NEW p \in Launches,
           mapped' = [mapped EXCEPT ![p] = None], nr' = nr, UNCHANGED node
    PROVE  InMemory'
<1>1. \A k \in Sizes : NrHugepages(k)' <= NrHugepages(k)
    <2> SUFFICES ASSUME NEW k \in Sizes PROVE NrHugepages(k)' <= NrHugepages(k)
        OBVIOUS
    <2>1. /\ InUse(mapped, k) = mapped[p][k] + Others(mapped, k, p)
          /\ InUse(mapped', k) = None[k] + Others(mapped, k, p)
          /\ Others(mapped, k, p) \in Nat /\ mapped[p][k] \in Nat
        BY NoneType, UseChanges
    <2>2. Both(k) /\ None[k] = 0
        BY BothNumbers DEF None
    <2> QED BY <2>1, <2>2 DEF Both, Larger
<1>2. supported \/ nr'["1gb"] = 0
    BY DEF InMemory
<1> QED BY <1>1, <1>2, LessFits

\* No step makes the kernel have more pages than fit: a write is cut to the room there
\* is, and a program takes only pages that are free.
LEMMA StepInMemory ==
    ASSUME Types, Types', InMemory, Next
    PROVE  InMemory'
<1> PICK p \in Launches :
       \/ Launch(p) \/ Lock(p) \/ Compare(p) \/ SetPages(p) \/ Check(p)
       \/ Start(p) \/ Refuse(p) \/ InitRegions(p) \/ Resize(p) \/ End(p)
    BY DEF Next
<1>0. (\A k \in Sizes : Both(k)) /\ (supported \/ nr["1gb"] = 0)
    BY BothNumbers DEF InMemory
<1>1. CASE Launch(p) \/ Lock(p) \/ Compare(p) \/ Check(p) \/ Start(p) \/ Refuse(p)
    <2>1. mapped' = mapped /\ nr' = nr /\ UNCHANGED node
        BY <1>1 DEF Launch, Lock, Compare, Check, Start, Refuse
    <2>2. \A k \in Sizes : NrHugepages(k)' <= NrHugepages(k)
        <3> SUFFICES ASSUME NEW k \in Sizes PROVE NrHugepages(k)' <= NrHugepages(k)
            OBVIOUS
        <3>1. NrHugepages(k)' = NrHugepages(k) /\ NrHugepages(k) \in Nat
            BY <1>0, <2>1 DEF Both, Larger
        <3> QED BY <3>1
    <2> QED BY <1>0, <2>1, <2>2, LessFits
<1>2. CASE SetPages(p)
    <2>1. mapped' = mapped /\ UNCHANGED node
        BY <1>2 DEF SetPages
    <2>2. PICK at \in {"first", "second"}, k \in Sizes, m \in Nat :
             /\ IF k = "1gb" /\ ~supported THEN nr' = nr /\ m = nr[k]
                ELSE Given(k, Requested(p)[k], m)
             /\ nr' = [nr EXCEPT ![k] = m]
        BY <1>2, SetPagesCases
    <2> DEFINE n == Requested(p)[k]
    <2>3. n \in Nat
        BY RequestedTypes
    <2> HIDE DEF n
    <2>4. nr \in [Sizes -> Nat]
        BY DEF Types
    <2>5. \A j \in Sizes : j # k => NrHugepages(j)' = NrHugepages(j)
        BY <1>0, <2>1, <2>2, <2>4 DEF Both
    <2>6. NrHugepages(k)' = Larger(m, InUse(mapped, k))
        BY <1>0, <2>1, <2>2, <2>4 DEF Both
    <2>7. \A j \in Sizes : NrHugepages(j) \in Nat /\ InUse(mapped, j) \in Nat
                           /\ InUse(mapped, j) <= NrHugepages(j) /\ nr[j] <= NrHugepages(j)
        BY <1>0 DEF Both, Larger
    <2>8. CASE k = "1gb" /\ ~supported
        <3>1. nr' = nr /\ m = nr[k]
            BY <2>2, <2>8
        <3>2. NrHugepages(k)' <= NrHugepages(k)
            BY <2>6, <2>7, <3>1 DEF Larger
        <3>3. \A j \in Sizes : NrHugepages(j)' <= NrHugepages(j)
            BY <2>5, <2>7, <3>2
        <3> QED BY <1>0, <2>1, <3>1, <3>3, LessFits
    <2>9. CASE ~(k = "1gb" /\ ~supported)
        <3>1. Given(k, n, m)
            BY <2>2, <2>9 DEF n
        <3>2. CASE n <= NrHugepages(k)
            <4>1. m = n
                BY <3>1, <3>2 DEF Given
            <4>2. NrHugepages(k)' <= NrHugepages(k)
                BY <2>3, <2>6, <2>7, <3>2, <4>1 DEF Larger
            <4>3. \A j \in Sizes : NrHugepages(j)' <= NrHugepages(j)
                BY <2>5, <2>7, <4>2
            <4>4. supported \/ nr'["1gb"] = 0
                BY <2>2, <2>4, <2>9 DEF InMemory, Sizes
            <4> QED BY <2>1, <4>3, <4>4, LessFits
        <3>3. CASE ~(n <= NrHugepages(k))
            <4>1. NrHugepages(k) <= m /\ Beside(k, m) <= Memory
                BY <3>1, <3>3 DEF Given
            <4>2. NrHugepages(k)' = m
                BY <2>6, <2>7, <4>1 DEF Larger
            <4>3. NrHugepages("2mb")' + GBPages * NrHugepages("1gb")' <= Memory
                BY <2>5, <4>1, <4>2 DEF Beside, Sizes
            <4>4. supported' = supported /\ (supported \/ nr'["1gb"] = 0)
                BY <2>1, <2>2, <2>4, <2>9 DEF InMemory, node, Sizes
            <4> QED BY <4>3, <4>4 DEF InMemory
        <3> QED BY <3>2, <3>3
    <2> QED BY <2>8, <2>9
<1>3. CASE InitRegions(p) \/ Resize(p)
    <2>1. PICK t, at : Pages(p, t, at)
        BY <1>3, MapSteps
    <2>2. t \in [Sizes -> Nat] /\ "running" \in Labels /\ Map(p, t, "running")
        BY <2>1 DEF Pages, Labels
    <2>3. nr' = nr /\ UNCHANGED node
        BY <2>2, MapCases
    <2>4. CASE (\A k \in Sizes : t[k] - mapped[p][k] <= Free(k))
               /\ mapped' = [mapped EXCEPT ![p] = t]
        <3>1. \A k \in Sizes : NrHugepages(k)' <= NrHugepages(k)
            <4> SUFFICES ASSUME NEW k \in Sizes PROVE NrHugepages(k)' <= NrHugepages(k)
                OBVIOUS
            <4>1. /\ InUse(mapped, k) = mapped[p][k] + Others(mapped, k, p)
                  /\ InUse(mapped', k) = t[k] + Others(mapped, k, p)
                  /\ Others(mapped, k, p) \in Nat /\ mapped[p][k] \in Nat /\ t[k] \in Nat
                BY <2>2, <2>4, UseChanges
            <4>2. t[k] - mapped[p][k] <= NrHugepages(k) - InUse(mapped, k)
                BY <1>0, <2>4 DEF Free, Both
            <4>3. Both(k)
                BY <1>0
            <4> QED BY <2>3, <4>1, <4>2, <4>3 DEF Both, Larger
        <3> QED BY <1>0, <2>3, <3>1, LessFits
    <2>5. CASE mapped' = [mapped EXCEPT ![p] = None]
        BY <2>3, <2>5, GivesBack
    <2> QED BY <2>2, <2>4, <2>5, MapCases
<1>4. CASE End(p)
    <2>1. mapped' = [mapped EXCEPT ![p] = None] /\ nr' = nr /\ UNCHANGED node
        BY <1>4 DEF End
    <2> QED BY <2>1, GivesBack
<1> QED BY <1>1, <1>2, <1>3, <1>4

-------------------------------------------------------------------------------
(* The steps: a launch without another one.                                *)

\* While there is no other launch, the pages in use are its own.
LEMMA OwnUse ==
    ASSUME Types, OnlyRunning, AloneIsAlone, NEW l \in Launches, alone[l], l \in Active,
           NEW k \in Sizes
    PROVE  InUse(mapped, k) = mapped[l][k]
<1>1. \A x \in Launches \ {l} : x \notin Active
    BY DEF AloneIsAlone
<1>2. \A x \in Launches \ {l} : pc[x] # "running"
    BY <1>1 DEF Active, Over
<1>3. \A x \in Launches \ {l} : mapped[x][k] = 0
    BY <1>2 DEF OnlyRunning, None
<1>4. mapped \in [Launches -> [Sizes -> Nat]]
    BY DEF Types
<1>5. Others(mapped, k, l) = 0
    <2> HIDE DEF Types, OnlyRunning, AloneIsAlone
    <2> QED BY <1>3, NoOthers
<1>6. InUse(mapped, k) = mapped[l][k] + Others(mapped, k, l)
    BY <1>4, InUseSplit
<1> QED BY <1>4, <1>5, <1>6

\* Before it runs there are none.
LEMMA NoUse ==
    ASSUME Types, OnlyRunning, AloneIsAlone, NEW l \in Launches, alone[l], l \in Active,
           pc[l] # "running", NEW k \in Sizes
    PROVE  Used(k) = 0 /\ NrHugepages(k) = nr[k] /\ nr[k] \in Nat
<1>1. InUse(mapped, k) = 0
    BY OwnUse DEF OnlyRunning, None
<1>2. KernelOf(k) /\ nr[k] \in Nat
    BY Kernel DEF Types
<1> QED BY <1>1, <1>2 DEF KernelOf, Number, Larger

\* A launch without another one reads the file as it wrote it itself.
LEMMA StepOwnLayout ==
    ASSUME Types, AloneIsAlone, InMemory, OwnLayout, Next
    PROVE  OwnLayout'
<1> PICK p \in Launches : Launch(p) \/ Going(p)
    BY NextSteps
<1> SUFFICES ASSUME NEW l \in Launches, alone'[l]
             PROVE  /\ format'[l] = "new" /\ l \in Active' => file' = {layout'[l]}
                    /\ pc'[l] \in {"init", "running", "done"} => config'[l] = layout'[l]
    BY DEF OwnLayout
<1>0. pc \in [Launches -> Labels] /\ config \in [Launches -> Layouts]
    BY DEF Types
<1>1. CASE Launch(p)
    <2>1. /\ alone[l] /\ UNCHANGED <<layout, format, config>>
          /\ l \in Active' => l = p
          /\ file' = IF format[p] = "new" THEN {layout[p]} ELSE file
        BY <1>1, LaunchSteps DEF user
    <2>2. PICK to \in {"start", "lock"} : pc' = [pc EXCEPT ![p] = to]
        BY <1>1, LaunchSteps
    <2>3. pc'[l] \in {"init", "running", "done"} => pc[l] \in {"init", "running", "done"}
        BY <1>0, <2>2
    <2> QED BY <2>1, <2>3 DEF OwnLayout
<1>2. CASE Going(p)
    <2>1. /\ p \in Active /\ UNCHANGED <<layout, format, file>> /\ alone[l]
          /\ \E to \in Labels : pc' = [pc EXCEPT ![p] = to]
        BY <1>2, GoingSteps DEF user
    <2>2. l \in Active' => l \in Active
        BY <1>0, <2>1 DEF Active
    <2>3. format[l] = "new" /\ l \in Active' => file' = {layout[l]}
        BY <2>1, <2>2 DEF OwnLayout
    <2>4. pc'[l] \in {"init", "running", "done"} => config'[l] = layout[l]
        <3>1. CASE l # p
            <4>1. pc'[l] = pc[l]
                BY <1>0, <2>1, <3>1
            <4>2. config'[l] = config[l]
                <5>1. CASE Start(p)
                    BY <1>0, <3>1, <5>1 DEF Start
                <5>2. CASE InitRegions(p) \/ Resize(p)
                    BY <5>2, MapSteps, MapCases DEF InitRegions, Resize, Map
                <5>3. CASE Lock(p) \/ Compare(p) \/ SetPages(p) \/ Check(p) \/ Refuse(p) \/ End(p)
                    BY <5>3 DEF Lock, Compare, SetPages, Check, Refuse, End
                <5> QED BY <1>2, <5>1, <5>2, <5>3 DEF Going
            <4> QED BY <2>1, <4>1, <4>2 DEF OwnLayout
        <3>2. CASE l = p /\ Start(p)
            <4>1. pc[p] = "start" /\ config' = [config EXCEPT ![p] = config'[p]]
                  /\ config'[p] \in (IF format[p] = "new" THEN file ELSE {layout[p]})
                BY <1>0, <3>2 DEF Start
            <4>2. format[p] = "new" => file = {layout[p]}
                BY <2>1, <3>2 DEF OwnLayout
            <4> QED BY <3>2, <4>1, <4>2
        <3>3. CASE l = p /\ (Lock(p) \/ Compare(p) \/ Check(p) \/ Refuse(p))
            <4>1. pc'[p] \in {"compare", "first", "start", "failed", "refused"}
                BY <1>0, <3>3 DEF Lock, Compare, Check, Refuse, Goto
            <4> QED BY <3>3, <4>1
        <3>4. CASE l = p /\ SetPages(p)
            <4>1. pc'[p] \in {"second", "check"}
                BY <1>0, <3>4, SetPagesCases
            <4> QED BY <3>4, <4>1
        <3>5. CASE l = p /\ (InitRegions(p) \/ Resize(p) \/ End(p))
            <4>1. pc[p] \in {"init", "running"} /\ config' = config
                BY <3>5 DEF InitRegions, Resize, End, Map
            <4> QED BY <2>1, <3>5, <4>1 DEF OwnLayout
        <3> QED BY <1>2, <3>1, <3>2, <3>3, <3>4, <3>5 DEF Going
    <2> QED BY <2>1, <2>3, <2>4
<1> QED BY <1>1, <1>2

\* The program of a launch without another one gets the pages of its own layout.
LEMMA GetsPages ==
    ASSUME Types, OnlyRunning, AloneIsAlone, OwnLayout, Enough,
           NEW p \in Launches, alone[p], ~debug[p], NEW t, NEW at, Pages(p, t, at)
    PROVE  \A k \in Sizes : t[k] - mapped[p][k] <= Free(k)
<1> SUFFICES ASSUME NEW k \in Sizes PROVE t[k] - mapped[p][k] <= Free(k)
    OBVIOUS
<1>1. /\ pc[p] \in {"init", "running"} /\ t \in [Sizes -> Nat]
      /\ t[k] <= Backed(config[p])[k]
    BY DEF Pages
<1>2. p \in Active
    BY <1>1 DEF Active, Over
<1>3. config[p] = layout[p]
    BY <1>1 DEF OwnLayout
<1>4. nr[k] >= Requested(p)[k]
    BY <1>1 DEF Enough
<1>5. layout[p] \in Layouts
    BY DEF Types
<1>6. Backed(config[p])[k] \in Nat /\ Backed(config[p])[k] <= Requested(p)[k]
      /\ Requested(p)[k] \in Nat
    BY <1>3, <1>5, LayoutTypes, RequestedTypes
<1>7. InUse(mapped, k) = mapped[p][k]
    BY <1>2, OwnUse
<1>8. KernelOf(k) /\ nr[k] \in Nat
    BY Kernel DEF Types
<1>9. t[k] \in Nat
    BY <1>1
<1> QED BY <1>1, <1>4, <1>6, <1>7, <1>8, <1>9 DEF KernelOf, Number, Larger, Free

\* After the script's check only the launch itself takes pages, never more than it
\* asked for.
LEMMA StepEnough ==
    ASSUME Types, OnlyRunning, AloneIsAlone, InMemory, OwnLayout, Enough, Next
    PROVE  Enough'
<1> PICK p \in Launches : Launch(p) \/ Going(p)
    BY NextSteps
<1> SUFFICES ASSUME NEW l \in Launches, alone'[l], ~debug'[l]
             PROVE  /\ pc'[l] \in {"start", "init", "running"} =>
                          \A k \in Sizes : nr'[k] >= Requested(l)'[k]
                    /\ pc'[l] # "short"
    BY DEF Enough
<1>0. pc \in [Launches -> Labels]
    BY DEF Types
<1>1. CASE Launch(p)
    <2>1. alone[l] /\ UNCHANGED <<layout, debug, nr>> /\ pc[p] = "idle"
        BY <1>1, LaunchSteps DEF user
    <2>2. PICK to \in {"start", "lock"} : pc' = [pc EXCEPT ![p] = to] /\ (to = "start" => debug[p])
        BY <1>1, LaunchSteps
    <2>3. pc'[l] \in {"start", "init", "running", "short"} => pc'[l] = pc[l]
        BY <1>0, <2>1, <2>2
    <2>4. Requested(l)' = Requested(l)
        BY <2>1 DEF Requested
    <2> QED BY <2>1, <2>3, <2>4 DEF Enough
<1>2. CASE Going(p)
    <2>1. /\ p \in Active /\ UNCHANGED <<layout, debug>> /\ alone[l] /\ ~debug[l]
          /\ \E to \in Labels : pc' = [pc EXCEPT ![p] = to]
        BY <1>2, GoingSteps DEF user
    <2>2. Requested(l)' = Requested(l)
        BY <2>1 DEF Requested
    <2>3. CASE l # p
        <3>1. l \notin Active
            BY <2>1, <2>3, OnlyOne
        <3>2. pc'[l] = pc[l]
            BY <1>0, <2>1, <2>3
        <3>3. pc[l] \notin {"start", "init", "running"}
            BY <3>1 DEF Active, Over
        <3> QED BY <2>1, <3>2, <3>3 DEF Enough
    <2>4. CASE l = p /\ (Lock(p) \/ Compare(p))
        <3>1. pc'[p] \in {"compare", "first"}
            BY <1>0, <2>4 DEF Lock, Compare, Goto
        <3> QED BY <2>4, <3>1
    <2>5. CASE l = p /\ SetPages(p)
        <3>1. pc'[p] \in {"second", "check"}
            BY <1>0, <2>5, SetPagesCases
        <3> QED BY <2>5, <3>1
    <2>6. CASE l = p /\ Check(p)
        <3>1. pc[p] = "check" /\ nr' = nr
            BY <2>6 DEF Check
        <3>2. CASE \A k \in Sizes : NrHugepages(k) >= Requested(p)[k]
            <4>1. \A k \in Sizes : NrHugepages(k) = nr[k]
                BY <2>1, <2>6, <3>1, NoUse
            <4>2. pc'[p] = "start"
                BY <1>0, <2>6, <3>2 DEF Check, Goto
            <4> QED BY <2>2, <2>6, <3>1, <3>2, <4>1, <4>2
        <3>3. CASE ~(\A k \in Sizes : NrHugepages(k) >= Requested(p)[k])
            <4>1. pc'[p] = "failed"
                BY <1>0, <2>6, <3>3 DEF Check, Goto
            <4> QED BY <2>6, <4>1
        <3> QED BY <3>2, <3>3
    <2>7. CASE l = p /\ Start(p)
        <3>1. pc[p] = "start" /\ pc'[p] = "init" /\ nr' = nr
            BY <1>0, <2>7 DEF Start, Goto
        <3> QED BY <2>1, <2>2, <2>7, <3>1 DEF Enough
    <2>8. CASE l = p /\ (Refuse(p) \/ End(p))
        <3>1. pc'[p] \in {"refused", "done"}
            BY <1>0, <2>8 DEF Refuse, End, Goto
        <3> QED BY <2>8, <3>1
    <2>9. CASE l = p /\ (InitRegions(p) \/ Resize(p))
        <3>1. PICK t, at : Pages(p, t, at)
            BY <2>9, MapSteps
        <3>2. t \in [Sizes -> Nat] /\ "running" \in Labels /\ Map(p, t, "running")
              /\ pc[p] \in {"init", "running"}
            BY <3>1 DEF Pages, Labels
        <3>3. \A k \in Sizes : t[k] - mapped[p][k] <= Free(k)
            BY <2>1, <2>9, <3>1, GetsPages
        <3>4. pc'[p] = "running" /\ nr' = nr
            BY <1>0, <3>2, <3>3, MapCases
        <3> QED BY <2>1, <2>2, <2>9, <3>2, <3>4 DEF Enough
    <2> QED BY <1>2, <2>3, <2>4, <2>5, <2>6, <2>7, <2>8, <2>9 DEF Going
<1> QED BY <1>1, <1>2

-------------------------------------------------------------------------------
(* The steps: a script that finds room.                                    *)

\* What Setting says of one launch.
SetAs(l) ==
    /\ pc[l] = "first" => (order[l] = "2mb" <=> nr["2mb"] > Requested(l)["2mb"])
    /\ pc[l] = "second" =>
          IF order[l] = "2mb" THEN nr["2mb"] = Requested(l)["2mb"]
          ELSE nr["2mb"] <= Requested(l)["2mb"] /\ nr["1gb"] = Requested(l)["1gb"]
    /\ pc[l] = "check" => \A k \in Sizes : nr[k] >= Requested(l)[k]
    /\ pc[l] # "failed"

\* What is asked for of one size fits beside what there is of the other, if that is
\* no more than what is asked for of it.
LEMMA FitsBeside ==
    ASSUME Types, NEW l \in Launches, Fits(l), NEW k \in Sizes,
           NrHugepages(Other(k)) \in Nat, NrHugepages(Other(k)) <= Requested(l)[Other(k)]
    PROVE  Beside(k, Requested(l)[k]) <= Memory
<1> DEFINE a == Requested(l)["2mb"]
           b == Requested(l)["1gb"]
           c == NrHugepages("2mb")
           d == NrHugepages("1gb")
<1>1. a \in Nat /\ b \in Nat /\ GBPages \in Nat /\ Memory \in Nat
    BY RequestedTypes, LauncherAssumption DEF Sizes
<1>2. a + GBPages * b <= Memory
    BY DEF Fits
<1>3. CASE k = "1gb"
    <2>1. c \in Nat /\ c <= a /\ Beside(k, Requested(l)[k]) = c + GBPages * b
        BY <1>3 DEF Other, Beside
    <2> HIDE DEF a, b, c
    <2>2. GBPages * b \in Nat
        BY <1>1
    <2> QED BY <1>1, <1>2, <2>1, <2>2
<1>4. CASE k = "2mb"
    <2>1. d \in Nat /\ d <= b /\ Beside(k, Requested(l)[k]) = a + GBPages * d
        BY <1>4 DEF Other, Beside
    <2> HIDE DEF a, b, d
    <2>2. GBPages * d <= GBPages * b /\ GBPages * d \in Nat /\ GBPages * b \in Nat
        BY <1>1, <2>1, TimesMonotone
    <2> QED BY <1>1, <1>2, <2>1, <2>2
<1> QED BY <1>3, <1>4 DEF Sizes

\* Whichever size is set first, the second finds room.
LEMMA SetPagesSets ==
    ASSUME Types, OnlyRunning, AloneIsAlone, InMemory, NEW l \in Launches, Fits(l), SetAs(l),
           SetPages(l)
    PROVE  /\ pc'[l] = "second" =>
                 IF order[l] = "2mb" THEN nr'["2mb"] = Requested(l)["2mb"]
                 ELSE nr'["2mb"] <= Requested(l)["2mb"] /\ nr'["1gb"] = Requested(l)["1gb"]
           /\ pc'[l] = "check" => \A k \in Sizes : nr'[k] >= Requested(l)[k]
           /\ pc'[l] \in {"second", "check"}
<1>1. PICK at \in {"first", "second"}, k \in Sizes, m \in Nat :
         /\ pc[l] = at /\ k = IF at = "first" THEN order[l] ELSE Other(order[l])
         /\ pc' = [pc EXCEPT ![l] = IF at = "first" THEN "second" ELSE "check"]
         /\ IF k = "1gb" /\ ~supported THEN nr' = nr /\ m = nr[k]
            ELSE Given(k, Requested(l)[k], m)
         /\ nr' = [nr EXCEPT ![k] = m]
    BY SetPagesCases
<1>2. l \in Active /\ alone[l] /\ pc[l] # "running"
    BY <1>1 DEF Active, Over, Fits
<1>3. \A j \in Sizes : NrHugepages(j) = nr[j] /\ nr[j] \in Nat /\ Requested(l)[j] \in Nat
    BY <1>2, NoUse, RequestedTypes
<1>4. /\ nr \in [Sizes -> Nat] /\ order[l] \in Sizes
      /\ pc'[l] = IF at = "first" THEN "second" ELSE "check"
    BY <1>1 DEF Types
<1>5. k = "1gb" /\ ~supported => nr[k] = 0 /\ Requested(l)[k] = 0
    BY DEF InMemory, Fits
<1>6. nr'[k] = m /\ \A j \in Sizes : j # k => nr'[j] = nr[j]
    BY <1>1, <1>4
\* There is room for the other size, so the kernel gives what is asked for.
<1>7. ASSUME nr[Other(k)] <= Requested(l)[Other(k)] PROVE m = Requested(l)[k]
    <2>1. Other(k) \in Sizes
        BY DEF Other, Sizes
    <2>2. Beside(k, Requested(l)[k]) <= Memory
        BY <1>3, <1>7, <2>1, FitsBeside
    <2> QED BY <1>1, <1>5, <2>2 DEF Given, Fits
<1>8. CASE at = "first" /\ order[l] = "2mb"
    <2>1. k = "2mb" /\ nr[k] > Requested(l)[k]
        BY <1>1, <1>8 DEF SetAs
    <2>2. m = Requested(l)[k]
        BY <1>1, <1>3, <2>1 DEF Given
    <2> QED BY <1>4, <1>6, <1>8, <2>1, <2>2
<1>9. CASE at = "first" /\ order[l] # "2mb"
    <2>1. k = "1gb" /\ Other(k) = "2mb" /\ nr["2mb"] <= Requested(l)["2mb"]
        BY <1>1, <1>3, <1>4, <1>9 DEF SetAs, Other, Sizes
    <2>2. m = Requested(l)[k]
        BY <1>7, <2>1
    <2> QED BY <1>4, <1>6, <1>9, <2>1, <2>2 DEF Sizes
<1>10. CASE at = "second"
    <2>1. nr[Other(k)] = Requested(l)[Other(k)] /\ Other(k) \in Sizes
        BY <1>1, <1>4, <1>10 DEF SetAs, Other, Sizes
    <2>2. m = Requested(l)[k]
        BY <1>3, <1>7, <2>1
    <2>3. \A j \in Sizes : j = k \/ j = Other(k)
        BY DEF Other, Sizes
    <2>4. \A j \in Sizes : nr'[j] = Requested(l)[j]
        BY <1>6, <2>1, <2>2, <2>3
    <2> QED BY <1>3, <1>4, <1>10, <2>4
<1> QED BY <1>8, <1>9, <1>10

\* A script for whose pages there is room gets them and does not fail.
LEMMA StepSetting ==
    ASSUME Types, OnlyRunning, AloneIsAlone, InMemory, Setting, Next
    PROVE  Setting'
<1> PICK p \in Launches : Launch(p) \/ Going(p)
    BY NextSteps
<1> SUFFICES ASSUME NEW l \in Launches, Fits(l)' PROVE SetAs(l)'
    BY DEF Setting, SetAs
<1>0. pc \in [Launches -> Labels] /\ order \in [Launches -> Sizes]
    BY DEF Types
<1>1. CASE Launch(p)
    <2>1. /\ alone'[l] /\ alone[l] /\ UNCHANGED <<layout, order, nr, supported, fragmented>>
          /\ pc[p] = "idle"
        BY <1>1, LaunchSteps DEF user, node, Fits
    <2>2. PICK to \in {"start", "lock"} : pc' = [pc EXCEPT ![p] = to]
        BY <1>1, LaunchSteps
    <2>3. Requested(l)' = Requested(l)
        BY <2>1 DEF Requested
    <2>4. Fits(l)
        BY <2>1, <2>3 DEF Fits
    <2>5. SetAs(l)
        BY <2>4 DEF Setting, SetAs
    <2>6. pc'[l] \in {"first", "second", "check", "failed"} => pc'[l] = pc[l]
        BY <1>0, <2>2
    <2> QED BY <2>1, <2>3, <2>5, <2>6 DEF SetAs
<1>2. CASE Going(p)
    <2>1. /\ p \in Active /\ UNCHANGED <<layout, supported, fragmented>> /\ alone[l]
          /\ \E to \in Labels : pc' = [pc EXCEPT ![p] = to]
        BY <1>2, GoingSteps DEF user, node, Fits
    <2>2. Requested(l)' = Requested(l)
        BY <2>1 DEF Requested
    <2>3. Fits(l)
        BY <2>1, <2>2 DEF Fits
    <2>4. SetAs(l)
        BY <2>3 DEF Setting, SetAs
    <2>5. CASE l # p
        <3>1. l \notin Active
            BY <2>1, <2>5, OnlyOne
        <3>2. pc'[l] = pc[l]
            BY <1>0, <2>1, <2>5
        <3>3. pc[l] \notin {"first", "second", "check"}
            BY <3>1 DEF Active, Over
        <3> QED BY <2>4, <3>2, <3>3 DEF SetAs
    <2>6. CASE l = p /\ Compare(p)
        <3>1. pc[p] = "compare" /\ pc'[p] = "first" /\ nr' = nr
            BY <1>0, <2>6 DEF Compare, Goto
        <3>2. NrHugepages("2mb") = nr["2mb"]
            BY <2>1, <2>6, <3>1, NoUse DEF Sizes
        <3>3. order'[p] = IF NrHugepages("2mb") > Requested(p)["2mb"] THEN "2mb" ELSE "1gb"
            BY <1>0, <2>6 DEF Compare
        <3> QED BY <2>2, <2>6, <3>1, <3>2, <3>3 DEF SetAs
    <2>7. CASE l = p /\ SetPages(p)
        <3>1. order' = order
            BY <2>7 DEF SetPages
        <3> QED BY <2>2, <2>3, <2>4, <2>7, <3>1, SetPagesSets DEF SetAs
    <2>8. CASE l = p /\ Check(p)
        <3>1. pc[p] = "check" /\ \A k \in Sizes : nr[k] >= Requested(p)[k]
            BY <2>4, <2>8 DEF Check, SetAs
        <3>2. \A k \in Sizes : NrHugepages(k) = nr[k]
            BY <2>1, <2>8, <3>1, NoUse
        <3>3. pc'[p] = "start"
            BY <1>0, <2>8, <3>1, <3>2 DEF Check, Goto
        <3> QED BY <2>8, <3>3 DEF SetAs
    <2>9. CASE l = p /\ (Lock(p) \/ Start(p) \/ Refuse(p) \/ End(p))
        <3>1. pc'[p] \in {"compare", "init", "refused", "done"}
            BY <1>0, <2>9 DEF Lock, Start, Refuse, End, Goto
        <3> QED BY <2>9, <3>1 DEF SetAs
    <2>10. CASE l = p /\ (InitRegions(p) \/ Resize(p))
        <3>1. PICK t, at : Pages(p, t, at)
            BY <2>10, MapSteps
        <3>2. t \in [Sizes -> Nat] /\ "running" \in Labels /\ Map(p, t, "running")
            BY <3>1 DEF Pages, Labels
        <3>3. pc'[p] \in {"running", "short"}
            BY <1>0, <3>2, MapCases
        <3> QED BY <2>10, <3>3 DEF SetAs
    <2> QED BY <1>2, <2>5, <2>6, <2>7, <2>8, <2>9, <2>10 DEF Going
<1> QED BY <1>1, <1>2

-------------------------------------------------------------------------------
(* The theorems.                                                           *)

\* The invariant holds at the start ...
LEMMA InitIInv == Init => IInv
<1> SUFFICES ASSUME Init PROVE IInv
    OBVIOUS
<1>1. pc = [l \in Launches |-> "idle"] /\ mapped = [l \in Launches |-> None]
      /\ Active = {}
    BY DEF Init, Active
<1>2. Memory \in Nat /\ GBPages \in Nat
    BY LauncherAssumption
<1>3. nr \in [Sizes -> Nat] /\ nr["2mb"] + GBPages * nr["1gb"] <= Memory
      /\ (supported \/ nr["1gb"] = 0)
    BY <1>2 DEF Init, Sizes
<1>4. Types
    <2>1. order \in [Launches -> Sizes] /\ pc \in [Launches -> Labels]
          /\ mapped \in [Launches -> [Sizes -> Nat]]
        BY <1>1, NoneType DEF Init, Sizes, Labels
    <2> QED BY <1>3, <2>1 DEF Init, Types
<1>5. OnlyRunning /\ AloneIsAlone
    BY <1>1 DEF OnlyRunning, AloneIsAlone
<1>6. InMemory
    <2>1. \A k \in Sizes : NrHugepages(k) = nr[k]
        <3> SUFFICES ASSUME NEW k \in Sizes PROVE NrHugepages(k) = nr[k]
            OBVIOUS
        <3>1. \A l \in Launches : Has(mapped, k)[l] = 0
            BY <1>1 DEF Has, None
        <3>2. PagesOf(Has(mapped, k), Launches) = {}
            BY <3>1 DEF PagesOf
        <3>3. InUse(mapped, k) = 0
            BY <3>2, FS_EmptySet DEF InUse
        <3>4. nr[k] \in Nat /\ KernelOf(k)
            BY <1>3, <1>4, Kernel
        <3> QED BY <3>3, <3>4 DEF KernelOf, Number, Larger
    <2> QED BY <1>3, <2>1 DEF InMemory, Sizes
<1>7. OwnLayout /\ Enough /\ Setting
    BY <1>1 DEF OwnLayout, Enough, Setting
<1> QED BY <1>4, <1>5, <1>6, <1>7 DEF IInv

\* ... and every step keeps it.
LEMMA StepIInv == IInv /\ [Next]_vars => IInv'
<1> SUFFICES ASSUME IInv, [Next]_vars PROVE IInv'
    OBVIOUS
<1>0. Types /\ OnlyRunning /\ AloneIsAlone /\ InMemory /\ OwnLayout /\ Enough /\ Setting
    BY DEF IInv
<1>1. CASE Next
    <2>1. Types'
        BY <1>0, <1>1, StepTypes
    <2>2. OnlyRunning' /\ AloneIsAlone'
        BY <1>0, <1>1, StepOnlyRunning, StepAlone
    <2>3. InMemory'
        BY <1>0, <1>1, <2>1, StepInMemory
    <2>4. OwnLayout' /\ Enough' /\ Setting'
        BY <1>0, <1>1, StepOwnLayout, StepEnough, StepSetting
    <2> QED BY <2>1, <2>2, <2>3, <2>4 DEF IInv
<1>2. CASE UNCHANGED vars
    <2>1. Types' /\ OnlyRunning' /\ AloneIsAlone' /\ OwnLayout' /\ Enough' /\ Setting'
        BY <1>0, <1>2 DEF vars, user, node, Types, OnlyRunning, AloneIsAlone, Active, OwnLayout,
           Enough, Setting, Fits, Requested
    <2>2. InMemory'
        <3>1. nr' = nr /\ mapped' = mapped /\ UNCHANGED node
            BY <1>2 DEF vars
        <3>2. \A k \in Sizes : NrHugepages(k)' <= NrHugepages(k)
            <4> SUFFICES ASSUME NEW k \in Sizes PROVE NrHugepages(k)' <= NrHugepages(k)
                OBVIOUS
            <4>1. Both(k)
                BY <1>0, <2>1, BothNumbers
            <4> QED BY <3>1, <4>1 DEF Both, Larger
        <3>3. supported \/ nr'["1gb"] = 0
            BY <1>0, <3>1 DEF InMemory
        <3> QED BY <1>0, <2>1, <3>1, <3>2, <3>3, LessFits
    <2> QED BY <2>1, <2>2 DEF IInv
<1> QED BY <1>1, <1>2

\* The inductive invariant holds always.
THEOREM Invariance == Spec => []IInv
BY InitIInv, StepIInv, PTL DEF Spec

\* The kernel never has more pages than memory, no program has pages before it runs
\* or after its end, and no more than its pools hold at their full size.
THEOREM WithinMemory == Spec => [](Types /\ OnlyRunning /\ InMemory)
<1>1. IInv => Types /\ OnlyRunning /\ InMemory
    BY DEF IInv
<1> QED BY Invariance, <1>1, PTL

\* However many pages of either size were kept before, and whichever of them the
\* script sets first, a launch that is the only one in its time gets all it asks for
\* if there is room (reserveHugePages.sh:118-128).
THEOREM ReservedIfThereIsRoom == Spec => []ReservedIfItFits
<1>1. IInv => ReservedIfItFits
    BY DEF IInv, Setting, Fits, ReservedIfItFits
<1> QED BY Invariance, <1>1, PTL

\* A program that the script has let start, with no other launch in its time, has
\* its own layout and never goes short of pages, however its pools grow and shrink.
THEOREM NeverGoesShort == Spec => []NeverShortAlone
<1>1. IInv => NeverShortAlone
    BY DEF IInv, OwnLayout, Enough, NeverShortAlone
<1> QED BY Invariance, <1>1, PTL
===============================================================================
