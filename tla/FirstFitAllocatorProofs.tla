------------------------ MODULE FirstFitAllocatorProofs ------------------------
(***************************************************************************)
(* Proofs about FirstFitAllocator, for every pool, table size, set of      *)
(* sizes and mix of callers.  The links of the table always thread two     *)
(* lists that share no node and hold every used one; for callers that free *)
(* from the start of a region the lists are sorted, every call does to the *)
(* regions in them what FirstFit does to its sets, and the validation the  *)
(* code can run after each call never fails.                               *)
(*                                                                         *)
(* Each helper of the code has a lemma on the links it sets (which         *)
(* sequence of nodes its list becomes) and one on the regions (what the    *)
(* sets of FirstFit become).  Induction along a list, over the rounds of   *)
(* CombineAdjacentFreeNodes or over a sum is by a least counterexample.    *)
(***************************************************************************)
EXTENDS FirstFitAllocator, FiniteSetTheorems, WellFoundedInduction, TLAPS

\* A non-empty set of naturals has a least element.
LEMMA LeastNatural ==
    ASSUME NEW T \in SUBSET Nat, T # {}
    PROVE  \E m \in T : \A n \in T : m <= n
<1> DEFINE lt == OpToRel(<, Nat)
<1>1. \E m \in T : \A n \in T : ~(<<n, m>> \in lt)
    <2>1. IsWellFoundedOn(lt, Nat)
        BY NatLessThanWellFounded
    <2> HIDE DEF lt
    <2> QED BY <2>1, WFMin
<1>2. PICK m \in T : \A n \in T : ~(<<n, m>> \in lt)
    BY <1>1
<1>3. ASSUME NEW n \in T PROVE m <= n
    <2>1. <<n, m>> \in Nat \X Nat /\ ~(<<n, m>> \in lt)
        BY <1>2
    <2>2. ~(n < m)
        BY <2>1 DEF OpToRel
    <2> QED BY <2>2
<1> QED BY <1>3

\* w lists the nodes that the links of arr thread from head.
Chain(arr, head, w) ==
    /\ w \in Seq(Nodes) /\ IsInjective(w)
    /\ head = At(w, 1)
    /\ \A k \in 1 .. Len(w) : arr[w[k]].next = At(w, k + 1)

Links == Nodes \cup {NIL}
Arrays == [Nodes -> [start : Nat, end : Nat, next : Links]]

\* A chain is no longer than the table.
LEMMA ChainFits ==
    ASSUME NEW w \in Seq(Nodes), IsInjective(w)
    PROVE  Len(w) \in 0 .. TableLen
<1>1. TableLen \in Nat /\ Len(w) \in Nat /\ DOMAIN w = 1 .. Len(w)
    BY TableLenAssumption
<1>2. IsFiniteSet(Nodes) /\ Cardinality(Nodes) = TableLen
    <2>1. 0 \in Int /\ TableLen - 1 \in Int
        BY <1>1
    <2>2. /\ IsFiniteSet(0 .. TableLen - 1)
          /\ Cardinality(0 .. TableLen - 1) =
               IF 0 > TableLen - 1 THEN 0 ELSE (TableLen - 1) - 0 + 1
        BY <2>1, FS_Interval
    <2>3. Cardinality(0 .. TableLen - 1) = TableLen
        BY <2>2, TableLenAssumption
    <2> QED BY <2>2, <2>3 DEF Nodes
<1>3. IsFiniteSet(1 .. Len(w)) /\ Cardinality(1 .. Len(w)) = Len(w)
    <2>1. 1 \in Int /\ Len(w) \in Int
        BY <1>1
    <2>2. /\ IsFiniteSet(1 .. Len(w))
          /\ Cardinality(1 .. Len(w)) = IF 1 > Len(w) THEN 0 ELSE Len(w) - 1 + 1
        BY <2>1, FS_Interval
    <2> QED BY <1>1, <2>2
<1>4. w \in Injection(1 .. Len(w), Nodes)
    BY <1>1 DEF IsInjective, Injection
<1>5. Cardinality(1 .. Len(w)) <= Cardinality(Nodes)
    BY <1>2, <1>4, FS_Injection
<1> QED BY <1>1, <1>2, <1>3, <1>5

\* The walk from head visits the nodes of the chain and stops.
LEMMA ChainWalk ==
    ASSUME NEW arr \in Arrays, NEW head, NEW w, Chain(arr, head, w)
    PROVE  Walk(arr, head) = w
<1> DEFINE succ == [i \in Nodes \cup {NIL} |-> IF i = NIL THEN NIL ELSE arr[i].next]
           nth[k \in 0 .. TableLen] == IF k = 0 THEN head ELSE succ[nth[k - 1]]
           len == Cardinality({k \in 0 .. TableLen : nth[k] # NIL})
           g == [k \in 0 .. TableLen |-> At(w, k + 1)]
<1>1. Walk(arr, head) = [k \in 1 .. len |-> nth[k - 1]]
    BY DEF Walk
<1>2. /\ w \in Seq(Nodes) /\ Len(w) \in 0 .. TableLen /\ TableLen \in Nat
      /\ DOMAIN w = 1 .. Len(w) /\ \A k \in 1 .. Len(w) : w[k] \in Nodes
    BY ChainFits, TableLenAssumption DEF Chain
<1>3. g = [k \in 0 .. TableLen |-> IF k = 0 THEN head ELSE succ[g[k - 1]]]
    <2> SUFFICES ASSUME NEW k \in 0 .. TableLen
                 PROVE  g[k] = IF k = 0 THEN head ELSE succ[g[k - 1]]
        OBVIOUS
    <2>1. CASE k = 0
        BY <1>2, <2>1 DEF Chain
    <2>2. CASE k > 0 /\ k <= Len(w)
        BY <1>2, <2>2 DEF Chain, At, NIL, Nodes
    <2>3. CASE k > Len(w) /\ k > 0
        BY <1>2, <2>3 DEF Chain, At, NIL, Nodes
    <2> QED BY <1>2, <2>1, <2>2, <2>3
<1>4. nth = [k \in 0 .. TableLen |-> IF k = 0 THEN head ELSE succ[nth[k - 1]]]
    <2> HIDE DEF g, succ
    <2> QED BY <1>3
<1>5. nth = g
    <2> DEFINE T == {k \in 0 .. TableLen : nth[k] # g[k]}
    <2> SUFFICES T = {}
        BY <1>4
    <2> SUFFICES ASSUME T # {} PROVE FALSE
        OBVIOUS
    <2> HIDE DEF g, succ, nth
    <2>1. PICK m \in T : \A n \in T : m <= n
        <3>1. T \in SUBSET Nat
            OBVIOUS
        <3> HIDE DEF T
        <3> QED BY <3>1, LeastNatural
    <2>2. CASE m = 0
        BY <1>2, <1>3, <1>4, <2>2
    <2>3. CASE m # 0
        <3>1. m - 1 \in 0 .. TableLen /\ m - 1 \notin T
            BY <1>2, <2>1, <2>3
        <3> QED BY <1>3, <1>4, <2>1, <2>3, <3>1
    <2> QED BY <2>2, <2>3
<1> HIDE DEF nth, succ
<1>6. {k \in 0 .. TableLen : nth[k] # NIL} = 0 .. Len(w) - 1
    BY <1>2, <1>5 DEF At, NIL, Nodes
<1>7. len = Len(w)
    <2>1. Cardinality(0 .. Len(w) - 1) = Len(w)
        <3>1. 0 \in Int /\ Len(w) - 1 \in Int
            BY <1>2
        <3>2. Cardinality(0 .. Len(w) - 1) =
                IF 0 > Len(w) - 1 THEN 0 ELSE (Len(w) - 1) - 0 + 1
            BY <3>1, FS_Interval
        <3> QED BY <1>2, <3>2
    <2> QED BY <1>6, <2>1
<1>8. [k \in 1 .. Len(w) |-> nth[k - 1]] = w
    BY <1>2, <1>5 DEF At
<1> HIDE DEF len
<1> QED BY <1>1, <1>7, <1>8
-------------------------------------------------------------------------------
(* Sequences of nodes with one more, or one less.                          *)

InsertedAt(w, k, x) ==
    [j \in 1 .. Len(w) + 1 |-> IF j < k THEN w[j] ELSE IF j = k THEN x ELSE w[j - 1]]
RemovedAt(w, k) ==
    [j \in 1 .. Len(w) - 1 |-> IF j < k THEN w[j] ELSE w[j + 1]]

\* A finite function from 1 .. n is a sequence.
LEMMA SequenceOf ==
    ASSUME NEW S, NEW n \in Nat, NEW s, s = [j \in 1 .. n |-> s[j]],
           \A j \in 1 .. n : s[j] \in S
    PROVE  s \in Seq(S) /\ Len(s) = n /\ DOMAIN s = 1 .. n
<1>1. s \in [1 .. n -> S]
    OBVIOUS
<1> QED BY <1>1

LEMMA Inserted ==
    ASSUME NEW w \in Seq(Nodes), IsInjective(w), NEW x \in Nodes \ ToSet(w),
           NEW k \in 1 .. Len(w) + 1
    PROVE  /\ InsertedAt(w, k, x) \in Seq(Nodes) /\ IsInjective(InsertedAt(w, k, x))
           /\ Len(InsertedAt(w, k, x)) = Len(w) + 1
           /\ ToSet(InsertedAt(w, k, x)) = ToSet(w) \cup {x}
<1> DEFINE v == InsertedAt(w, k, x)
<1>1. /\ Len(w) \in Nat /\ DOMAIN w = 1 .. Len(w)
      /\ \A j \in 1 .. Len(w) : w[j] \in Nodes /\ w[j] \in ToSet(w)
    BY DEF ToSet
<1>2. /\ v = [j \in 1 .. Len(w) + 1 |-> v[j]]
      /\ \A j \in 1 .. Len(w) + 1 :
            v[j] = IF j < k THEN w[j] ELSE IF j = k THEN x ELSE w[j - 1]
    BY DEF InsertedAt
<1> HIDE DEF v
<1>3. \A j \in 1 .. Len(w) + 1 : v[j] \in Nodes
    BY <1>1, <1>2
<1>4. v \in Seq(Nodes) /\ Len(v) = Len(w) + 1 /\ DOMAIN v = 1 .. Len(w) + 1
    <2>1. Len(w) + 1 \in Nat
        BY <1>1
    <2> QED BY <1>2, <1>3, <2>1, SequenceOf
<1>5. IsInjective(v)
    <2> SUFFICES ASSUME NEW a \in 1 .. Len(w) + 1, NEW b \in 1 .. Len(w) + 1,
                        v[a] = v[b], a < b
                 PROVE  FALSE
        BY <1>1, <1>4 DEF IsInjective
    <2> QED BY <1>1, <1>2 DEF IsInjective
<1>6. ToSet(v) = ToSet(w) \cup {x}
    <2>1. ASSUME NEW j \in 1 .. Len(w) + 1 PROVE v[j] \in ToSet(w) \cup {x}
        BY <1>1, <1>2
    <2>2. ASSUME NEW j \in 1 .. Len(w) PROVE \E l \in 1 .. Len(w) + 1 : v[l] = w[j]
        <3>1. CASE j < k
            BY <1>1, <1>2, <3>1
        <3>2. CASE ~(j < k)
            <4>1. j + 1 \in 1 .. Len(w) + 1 /\ v[j + 1] = w[j]
                BY <1>1, <1>2, <3>2
            <4> QED BY <4>1
        <3> QED BY <3>1, <3>2
    <2>3. v[k] = x
        BY <1>1, <1>2
    <2>4. /\ ToSet(v) = {v[j] : j \in 1 .. Len(w) + 1}
          /\ ToSet(w) = {w[j] : j \in 1 .. Len(w)}
        BY <1>1, <1>4 DEF ToSet
    <2>5. ToSet(v) \subseteq ToSet(w) \cup {x}
        BY <2>1, <2>4
    <2>6. ToSet(w) \subseteq ToSet(v)
        BY <2>2, <2>4
    <2>7. x \in ToSet(v)
        BY <2>3, <2>4
    <2> QED BY <2>5, <2>6, <2>7
<1> QED BY <1>4, <1>5, <1>6 DEF v

LEMMA Removed ==
    ASSUME NEW w \in Seq(Nodes), IsInjective(w), NEW k \in 1 .. Len(w)
    PROVE  /\ RemovedAt(w, k) \in Seq(Nodes) /\ IsInjective(RemovedAt(w, k))
           /\ Len(RemovedAt(w, k)) = Len(w) - 1
           /\ ToSet(RemovedAt(w, k)) = ToSet(w) \ {w[k]}
<1> DEFINE v == RemovedAt(w, k)
<1>1. /\ Len(w) \in Nat /\ DOMAIN w = 1 .. Len(w)
      /\ \A j \in 1 .. Len(w) : w[j] \in Nodes
    OBVIOUS
<1>2. /\ v = [j \in 1 .. Len(w) - 1 |-> v[j]]
      /\ \A j \in 1 .. Len(w) - 1 : v[j] = IF j < k THEN w[j] ELSE w[j + 1]
    BY DEF RemovedAt
<1> HIDE DEF v
<1>3. \A j \in 1 .. Len(w) - 1 : v[j] \in Nodes
    BY <1>1, <1>2
<1>4. v \in Seq(Nodes) /\ Len(v) = Len(w) - 1 /\ DOMAIN v = 1 .. Len(w) - 1
    <2>1. Len(w) - 1 \in Nat
        BY <1>1
    <2> QED BY <1>2, <1>3, <2>1, SequenceOf
<1>5. IsInjective(v)
    <2> SUFFICES ASSUME NEW a \in 1 .. Len(w) - 1, NEW b \in 1 .. Len(w) - 1,
                        v[a] = v[b], a < b
                 PROVE  FALSE
        BY <1>1, <1>4 DEF IsInjective
    <2> QED BY <1>1, <1>2 DEF IsInjective
<1>6. ToSet(v) = ToSet(w) \ {w[k]}
    <2>1. ASSUME NEW j \in 1 .. Len(w) - 1
          PROVE  \E l \in 1 .. Len(w) : v[j] = w[l] /\ w[l] # w[k]
        BY <1>1, <1>2 DEF IsInjective
    <2>2. ASSUME NEW j \in 1 .. Len(w), w[j] # w[k]
          PROVE  \E l \in 1 .. Len(w) - 1 : v[l] = w[j]
        <3>1. CASE j < k
            BY <1>1, <1>2, <3>1
        <3>2. CASE ~(j < k)
            <4>1. j - 1 \in 1 .. Len(w) - 1 /\ v[j - 1] = w[j]
                BY <1>1, <1>2, <2>2, <3>2
            <4> QED BY <4>1
        <3> QED BY <3>1, <3>2
    <2>3. /\ ToSet(v) = {v[j] : j \in 1 .. Len(w) - 1}
          /\ ToSet(w) = {w[j] : j \in 1 .. Len(w)}
        BY <1>1, <1>4 DEF ToSet
    <2>4. ToSet(v) \subseteq ToSet(w) \ {w[k]}
        BY <2>1, <2>3
    <2>5. ToSet(w) \ {w[k]} \subseteq ToSet(v)
        BY <2>2, <2>3
    <2> QED BY <2>4, <2>5
<1> QED BY <1>4, <1>5, <1>6 DEF v

-------------------------------------------------------------------------------
(* Setting the link or all of one node of a table.                         *)

LEMMA SetNext ==
    ASSUME NEW arr \in Arrays, NEW n \in Nodes, NEW x \in Links
    PROVE  LET new == [arr EXCEPT ![n].next = x]
           IN /\ new \in Arrays /\ new[n].next = x
              /\ new[n].start = arr[n].start /\ new[n].end = arr[n].end
              /\ \A i \in Nodes \ {n} : new[i] = arr[i]
BY DEF Arrays

LEMMA Emptied ==
    ASSUME NEW arr \in Arrays, NEW n \in Nodes
    PROVE  LET new == [arr EXCEPT ![n] = EmptyNode]
           IN /\ new \in Arrays /\ new[n] = EmptyNode
              /\ \A i \in Nodes \ {n} : new[i] = arr[i]
<1>1. EmptyNode \in [start : Nat, end : Nat, next : Links]
    BY DEF EmptyNode, NULL, NIL, Links
<1> QED BY <1>1 DEF Arrays

-------------------------------------------------------------------------------
(* Threading a node into a chain and taking one out.                       *)

\* A chain depends on the links of its own nodes only.
LEMMA ChainFrame ==
    ASSUME NEW arr, NEW new, NEW head, NEW w, Chain(arr, head, w),
           \A i \in ToSet(w) : new[i].next = arr[i].next
    PROVE  Chain(new, head, w)
BY DEF Chain, ToSet

LEMMA LinkChain ==
    ASSUME NEW arr \in Arrays, NEW head, NEW w, Chain(arr, head, w),
           NEW k \in 1 .. Len(w) + 1, NEW node \in Nodes \ ToSet(w)
    PROVE  LET l == Link(arr, w, head, k, node)
           IN /\ l.array \in Arrays
              /\ Chain(l.array, l.head, InsertedAt(w, k, node))
              /\ \A i \in Nodes : /\ l.array[i].start = arr[i].start
                                  /\ l.array[i].end = arr[i].end
              /\ \A i \in Nodes \ (ToSet(w) \cup {node}) : l.array[i] = arr[i]
<1> DEFINE l == Link(arr, w, head, k, node)
           v == InsertedAt(w, k, node)
<1>1. /\ w \in Seq(Nodes) /\ Len(w) \in Nat /\ DOMAIN w = 1 .. Len(w) /\ IsInjective(w)
      /\ \A j \in 1 .. Len(w) : w[j] \in Nodes /\ w[j] \in ToSet(w)
      /\ head = At(w, 1)
      /\ \A j \in 1 .. Len(w) : arr[w[j]].next = At(w, j + 1)
    BY DEF Chain, ToSet
<1>0. \A a, b \in 1 .. Len(w) : a # b => w[a] # w[b]
    BY <1>1 DEF IsInjective
<1>2. /\ v \in Seq(Nodes) /\ IsInjective(v) /\ Len(v) = Len(w) + 1
      /\ DOMAIN v = 1 .. Len(w) + 1
      /\ \A j \in 1 .. Len(w) + 1 :
            v[j] = IF j < k THEN w[j] ELSE IF j = k THEN node ELSE w[j - 1]
    <2>1. v \in Seq(Nodes) /\ IsInjective(v) /\ Len(v) = Len(w) + 1
        BY <1>1, Inserted
    <2>2. v = [j \in 1 .. Len(w) + 1 |->
                 IF j < k THEN w[j] ELSE IF j = k THEN node ELSE w[j - 1]]
        BY DEF InsertedAt
    <2> HIDE DEF v
    <2> QED BY <2>1, <2>2
<1> HIDE DEF v
<1>3. \A j \in Int : At(w, j) \in Links
    BY <1>1 DEF At, Links
<1> DEFINE set == [arr EXCEPT ![node].next = At(w, k)]
<1>4. /\ set \in Arrays /\ set[node].next = At(w, k)
      /\ \A i \in Nodes : set[i].start = arr[i].start /\ set[i].end = arr[i].end
      /\ \A i \in Nodes : i # node => set[i] = arr[i]
    BY <1>3 DEF Arrays
<1> HIDE DEF set
<1>5. CASE k = 1
    <2>1. l = [head |-> node, array |-> set]
        BY <1>1, <1>5 DEF Link, At, set
    <2> HIDE DEF l
    <2>2. node = At(v, 1)
        BY <1>1, <1>2, <1>5 DEF At
    <2>3. ASSUME NEW j \in 1 .. Len(v) PROVE set[v[j]].next = At(v, j + 1)
        <3>1. CASE j = 1
            BY <1>1, <1>2, <1>4, <1>5, <3>1 DEF At
        <3>2. CASE j > 1
            <4>1. v[j] = w[j - 1] /\ w[j - 1] # node /\ j - 1 \in 1 .. Len(w)
                BY <1>1, <1>2, <1>5, <3>2
            <4>2. set[v[j]].next = At(w, j)
                BY <1>1, <1>4, <4>1
            <4> QED BY <1>1, <1>2, <1>5, <3>2, <4>2 DEF At
        <3> QED BY <3>1, <3>2
    <2> QED BY <1>2, <1>4, <2>1, <2>2, <2>3 DEF Chain, l, v
<1>6. CASE k > 1
    <2> DEFINE prev == w[k - 1]
               new == [set EXCEPT ![prev].next = node]
    <2>1. /\ prev \in Nodes /\ prev # node /\ prev # NIL /\ prev \in ToSet(w)
          /\ prev = At(w, k - 1) /\ k - 1 \in 1 .. Len(w)
        BY <1>1, <1>6 DEF At, NIL, Nodes
    <2>2. l = [head |-> head, array |-> new]
        BY <2>1 DEF Link, set
    <2> HIDE DEF l
    <2>3. /\ new \in Arrays /\ new[node].next = At(w, k) /\ new[prev].next = node
          /\ \A i \in Nodes : new[i].start = arr[i].start /\ new[i].end = arr[i].end
          /\ \A i \in Nodes : i # node /\ i # prev => new[i] = arr[i]
        BY <1>4, <2>1 DEF Arrays, Links
    <2> HIDE DEF new
    <2>4. head = At(v, 1)
        BY <1>1, <1>2, <1>6 DEF At
    <2>5. ASSUME NEW j \in 1 .. Len(v) PROVE new[v[j]].next = At(v, j + 1)
        <3>1. CASE j < k - 1
            <4>1. v[j] = w[j] /\ w[j] # prev /\ w[j] # node /\ j \in 1 .. Len(w)
                <5>1. j \in 1 .. Len(w) /\ k - 1 \in 1 .. Len(w) /\ j # k - 1
                    BY <1>1, <1>2, <3>1, <2>1
                <5>2. w[j] # w[k - 1] /\ w[j] # node
                    BY <1>0, <1>1, <5>1
                <5> QED BY <1>2, <3>1, <5>1, <5>2
            <4>2. v[j + 1] = w[j + 1] /\ j + 1 \in DOMAIN v /\ j + 1 \in DOMAIN w
                BY <1>1, <1>2, <3>1, <2>1
            <4>3. At(v, j + 1) = At(w, j + 1)
                BY <4>2 DEF At
            <4>4. w[j] \in Nodes /\ arr[w[j]].next = At(w, j + 1)
                BY <1>1, <4>1
            <4> HIDE DEF v, prev
            <4> QED BY <2>3, <4>1, <4>3, <4>4
        <3>2. CASE j = k - 1
            <4>1. v[j] = prev /\ v[j + 1] = node /\ j + 1 \in DOMAIN v
                BY <1>1, <1>2, <2>1, <3>2
            <4> QED BY <2>3, <4>1 DEF At
        <3>3. CASE j = k
            BY <1>1, <1>2, <2>3, <3>3 DEF At
        <3>4. CASE j > k
            <4>1. v[j] = w[j - 1] /\ w[j - 1] # prev /\ w[j - 1] # node /\ j - 1 \in 1 .. Len(w)
                <5>1. j - 1 \in 1 .. Len(w) /\ k - 1 \in 1 .. Len(w) /\ j - 1 # k - 1
                    BY <1>1, <1>2, <3>4, <2>1
                <5>2. w[j - 1] # w[k - 1] /\ w[j - 1] # node
                    BY <1>0, <1>1, <5>1
                <5> QED BY <1>2, <3>4, <5>1, <5>2
            <4> QED BY <1>1, <1>2, <2>3, <3>4, <4>1 DEF At
        <3> QED BY <1>2, <3>1, <3>2, <3>3, <3>4
    <2> QED BY <1>2, <2>1, <2>2, <2>3, <2>4, <2>5 DEF Chain, l, v
<1> QED BY <1>1, <1>5, <1>6

\* What is left when the node at position k leaves: its predecessor, or the head
\* if it has none, takes over its link.
LEMMA UnlinkChain ==
    ASSUME NEW arr \in Arrays, NEW head, NEW w, Chain(arr, head, w),
           NEW k \in 1 .. Len(w), NEW new \in Arrays, NEW h,
           k = 1 => h = At(w, 2),
           k > 1 => h = head /\ new[w[k - 1]].next = At(w, k + 1),
           \A i \in ToSet(w) : i # w[k] /\ (k > 1 => i # w[k - 1])
                                  => new[i].next = arr[i].next
    PROVE  Chain(new, h, RemovedAt(w, k))
<1> DEFINE v == RemovedAt(w, k)
<1>1. /\ w \in Seq(Nodes) /\ Len(w) \in Nat /\ DOMAIN w = 1 .. Len(w) /\ IsInjective(w)
      /\ \A j \in 1 .. Len(w) : w[j] \in Nodes /\ w[j] \in ToSet(w)
      /\ head = At(w, 1)
      /\ \A j \in 1 .. Len(w) : arr[w[j]].next = At(w, j + 1)
    BY DEF Chain, ToSet
<1>0. \A a, b \in 1 .. Len(w) : a # b => w[a] # w[b]
    BY <1>1 DEF IsInjective
<1>2. /\ v \in Seq(Nodes) /\ IsInjective(v) /\ Len(v) = Len(w) - 1
      /\ DOMAIN v = 1 .. Len(w) - 1
      /\ \A j \in 1 .. Len(w) - 1 : v[j] = IF j < k THEN w[j] ELSE w[j + 1]
    BY <1>1, Removed DEF RemovedAt
<1> HIDE DEF v
<1>3. h = At(v, 1)
    BY <1>1, <1>2 DEF At
<1>4. ASSUME NEW j \in 1 .. Len(v) PROVE new[v[j]].next = At(v, j + 1)
    <2>1. CASE j < k - 1
        <3>1. v[j] = w[j] /\ w[j] # w[k] /\ w[j] # w[k - 1] /\ j \in 1 .. Len(w)
            <4>1. j \in 1 .. Len(w) /\ k - 1 \in 1 .. Len(w) /\ j # k - 1 /\ j # k
                BY <1>1, <1>2, <2>1
            <4>2. w[j] # w[k - 1] /\ w[j] # w[k]
                BY <1>0, <4>1
            <4> QED BY <1>2, <2>1, <4>1, <4>2
        <3> QED BY <1>1, <1>2, <2>1, <3>1 DEF At
    <2>2. CASE j = k - 1
        BY <1>1, <1>2, <2>2 DEF At
    <2>3. CASE j >= k
        <3>1. v[j] = w[j + 1] /\ w[j + 1] # w[k] /\ j + 1 \in 1 .. Len(w)
            <4>1. j + 1 \in 1 .. Len(w) /\ j + 1 # k
                BY <1>1, <1>2, <2>3
            <4>2. w[j + 1] # w[k]
                BY <1>0, <4>1
            <4> QED BY <1>2, <2>3, <4>1, <4>2
        <3>2. k > 1 => w[j + 1] # w[k - 1]
            BY <1>0, <1>1, <2>3, <3>1
        <3> QED BY <1>1, <1>2, <2>3, <3>1, <3>2 DEF At
    <2> QED BY <1>2, <2>1, <2>2, <2>3
<1> QED BY <1>2, <1>3, <1>4 DEF Chain, v
-------------------------------------------------------------------------------
(* The table as two chains.                                                *)

FFAs == [array : Arrays, occupied_head : Links, free_head : Links]
UsedNodes(f) == {i \in Nodes : f.array[i].start # NULL}

\* The lists of f are o and w, which share no node and have every node in use.
Threaded(f, o, w) ==
    /\ f \in FFAs
    /\ Chain(f.array, f.occupied_head, o)
    /\ Chain(f.array, f.free_head, w)
    /\ ToSet(o) \cap ToSet(w) = {}
    /\ ToSet(o) \cup ToSet(w) = UsedNodes(f)

SameBounds(f, g, i) ==
    f.array[i].start = g.array[i].start /\ f.array[i].end = g.array[i].end

LEMMA ThreadedFacts ==
    ASSUME NEW f, NEW o, NEW w, Threaded(f, o, w)
    PROVE  /\ f \in FFAs /\ f.array \in Arrays
           /\ o \in Seq(Nodes) /\ Len(o) \in Nat /\ DOMAIN o = 1 .. Len(o)
           /\ w \in Seq(Nodes) /\ Len(w) \in Nat /\ DOMAIN w = 1 .. Len(w)
           /\ IsInjective(o) /\ IsInjective(w)
           /\ \A k \in 1 .. Len(o) : o[k] \in Nodes /\ o[k] \in ToSet(o)
           /\ \A k \in 1 .. Len(w) : w[k] \in Nodes /\ w[k] \in ToSet(w)
           /\ f.occupied_head = At(o, 1) /\ f.free_head = At(w, 1)
           /\ ToSet(o) \subseteq Nodes /\ ToSet(w) \subseteq Nodes
           /\ \A i \in Nodes : /\ f.array[i].start \in Nat /\ f.array[i].end \in Nat
                               /\ f.array[i].next \in Links
BY DEF Threaded, Chain, ToSet, FFAs, Arrays

LEMMA Walks ==
    ASSUME NEW f, NEW o, NEW w, Threaded(f, o, w)
    PROVE  OccupiedList(f) = o /\ FreeList(f) = w
BY ChainWalk DEF Threaded, FFAs, OccupiedList, FreeList

\* The first index of a set, 0 if it is empty.
LEMMA FirstIndex ==
    ASSUME NEW n \in Nat, NEW I \in SUBSET (1 .. n),
           NEW k, k = IF I # {} THEN Min(I) ELSE 0
    PROVE  \/ k = 0 /\ I = {}
           \/ k \in I /\ \A j \in 1 .. n : j < k => j \notin I
<1>1. CASE I = {}
    BY <1>1
<1>2. CASE I # {}
    <2>1. PICK m \in I : \A j \in I : m <= j
        BY <1>2, LeastNatural
    <2>2. k \in I /\ \A j \in I : k <= j
        BY <1>2, <2>1 DEF Min
    <2> QED BY <2>2
<1> QED BY <1>1, <1>2

LEMMA UnusedNode ==
    ASSUME NEW f
    PROVE  \/ FindFreeNode(f) = NIL /\ UsedNodes(f) = Nodes
           \/ FindFreeNode(f) \in Nodes \ UsedNodes(f)
<1> DEFINE unused == {i \in Nodes : f.array[i].start = NULL}
<1>1. CASE unused = {}
    BY <1>1 DEF FindFreeNode, UsedNodes
<1>2. CASE unused # {}
    <2>1. unused \in SUBSET Nat
        BY TableLenAssumption DEF Nodes
    <2>2. \E i \in unused : \A j \in unused : i <= j
        <3> HIDE DEF unused
        <3> QED BY <1>2, <2>1, LeastNatural
    <2>3. FindFreeNode(f) \in unused
        BY <1>2, <2>2 DEF FindFreeNode
    <2> QED BY <2>3 DEF UsedNodes
<1> QED BY <1>1, <1>2

LEMMA InsertPositionFacts ==
    ASSUME NEW f, NEW w \in Seq(Nodes), NEW start
    PROVE  LET k == InsertPosition(f, w, start)
           IN /\ k \in 1 .. Len(w) + 1
              /\ \A j \in 1 .. Len(w) : j < k => ~(f.array[w[j]].start > start)
              /\ k \in 1 .. Len(w) => f.array[w[k]].start > start
<1> DEFINE I == {j \in 1 .. Len(w) : f.array[w[j]].start > start}
           m == IF I # {} THEN Min(I) ELSE 0
<1>1. InsertPosition(f, w, start) = IF m = 0 THEN Len(w) + 1 ELSE m
    BY DEF InsertPosition, FirstWhere, SelectInSeq
<1>2. \/ m = 0 /\ I = {}
      \/ m \in I /\ \A j \in 1 .. Len(w) : j < m => j \notin I
    <2>1. Len(w) \in Nat /\ I \in SUBSET (1 .. Len(w))
        OBVIOUS
    <2> HIDE DEF I
    <2> QED BY <2>1, FirstIndex
<1> HIDE DEF m
<1>3. Len(w) \in Nat
    OBVIOUS
<1> QED BY <1>1, <1>2, <1>3

\* The lists stay as they are when no link changes and no node goes out of use or
\* comes into use.
LEMMA SameLinks ==
    ASSUME NEW f, NEW o, NEW w, Threaded(f, o, w), NEW g \in FFAs,
           g.occupied_head = f.occupied_head, g.free_head = f.free_head,
           \A i \in Nodes : g.array[i].next = f.array[i].next,
           UsedNodes(g) = UsedNodes(f)
    PROVE  Threaded(g, o, w)
<1>1. ToSet(o) \subseteq Nodes /\ ToSet(w) \subseteq Nodes
    BY ThreadedFacts
<1> QED BY <1>1, ChainFrame DEF Threaded

\* AllocateMemoryRegionNode with an unused node: it joins the occupied list.
LEMMA AllocateUnused ==
    ASSUME NEW f, NEW o, NEW w, Threaded(f, o, w),
           NEW start \in Nat \ {0}, NEW size \in Nat, FindFreeNode(f) # NIL
    PROVE  LET n == FindFreeNode(f)
               r == AllocateMemoryRegionNode(f, NIL, start, size)
               k == InsertPosition(f, o, start)
           IN /\ r.node = n /\ n \in Nodes \ UsedNodes(f)
              /\ Threaded(r.ffa, InsertedAt(o, k, n), w)
              /\ r.ffa.array[n].start = start /\ r.ffa.array[n].end = start + size
              /\ \A i \in Nodes \ {n} : SameBounds(f, r.ffa, i)
<1> DEFINE n == FindFreeNode(f)
           r == AllocateMemoryRegionNode(f, NIL, start, size)
           k == InsertPosition(f, o, start)
           l == Link(f.array, o, f.occupied_head, k, n)
           g == [array |-> [l.array EXCEPT ![n].start = start, ![n].end = start + size],
                 occupied_head |-> l.head,
                 free_head |-> f.free_head]
<1>1. n \in Nodes \ UsedNodes(f)
    BY UnusedNode
<1>2. n \in Nodes /\ n # NIL /\ n \notin ToSet(o) /\ n \notin ToSet(w)
    BY <1>1 DEF Threaded, NIL, Nodes
<1>3. n # f.free_head
    BY <1>2, ThreadedFacts DEF At
<1>4. r = [node |-> n, ffa |-> g]
    <2>1. OccupiedList(f) = o
        BY Walks
    <2> HIDE DEF n
    <2> QED BY <1>2, <1>3, <2>1 DEF AllocateMemoryRegionNode, n
<1>5. k \in 1 .. Len(o) + 1
    BY InsertPositionFacts, ThreadedFacts
<1>6. /\ l.array \in Arrays
      /\ Chain(l.array, l.head, InsertedAt(o, k, n))
      /\ \A i \in Nodes : l.array[i].start = f.array[i].start /\ l.array[i].end = f.array[i].end
      /\ \A i \in Nodes \ (ToSet(o) \cup {n}) : l.array[i] = f.array[i]
    <2> HIDE DEF n, k
    <2> QED BY <1>2, <1>5, LinkChain, ThreadedFacts DEF Threaded
<1> HIDE DEF n, k, r, l
<1>7. /\ g.array \in Arrays /\ g.array[n].start = start /\ g.array[n].end = start + size
      /\ \A i \in Nodes : g.array[i].next = l.array[i].next
      /\ \A i \in Nodes \ {n} : g.array[i] = l.array[i]
    BY <1>2, <1>6 DEF Arrays
<1>8. g.occupied_head = l.head /\ g.free_head = f.free_head
    OBVIOUS
<1>9. g = [array |-> g.array, occupied_head |-> g.occupied_head, free_head |-> g.free_head]
    OBVIOUS
<1> HIDE DEF g
<1> DEFINE v == InsertedAt(o, k, n)
<1>10. /\ v \in Seq(Nodes) /\ ToSet(v) = ToSet(o) \cup {n} /\ ToSet(v) \subseteq Nodes
    BY <1>2, <1>5, Inserted, ThreadedFacts
<1> HIDE DEF v
<1>11. Chain(g.array, g.occupied_head, v)
    BY <1>6, <1>7, <1>8, <1>10, ChainFrame DEF v
<1>12. Chain(g.array, g.free_head, w)
    <2>1. \A i \in ToSet(w) : g.array[i].next = f.array[i].next
        BY <1>2, <1>6, <1>7, ThreadedFacts DEF Threaded
    <2> QED BY <1>8, <2>1, ChainFrame DEF Threaded
<1>13. g \in FFAs
    <2>1. g.occupied_head \in Links
        BY <1>10, <1>11 DEF Chain, At, Links
    <2>2. g.free_head \in Links
        BY <1>8 DEF Threaded, FFAs
    <2> QED BY <1>7, <1>9, <2>1, <2>2 DEF FFAs
<1>14. UsedNodes(g) = UsedNodes(f) \cup {n}
    BY <1>2, <1>6, <1>7 DEF UsedNodes, NULL
<1>15. Threaded(g, v, w)
    BY <1>2, <1>10, <1>11, <1>12, <1>13, <1>14 DEF Threaded
<1>16. \A i \in Nodes \ {n} : SameBounds(f, g, i)
    BY <1>6, <1>7 DEF SameBounds
<1> QED BY <1>1, <1>4, <1>7, <1>15, <1>16 DEF n, k, r, v

\* MoveNodeFromFeeListToOccupied: the node at position k of the free list joins
\* the occupied list with the region it has.
LEMMA MoveNode ==
    ASSUME NEW f, NEW o, NEW w, Threaded(f, o, w), NEW k \in 1 .. Len(w)
    PROVE  LET n == w[k]
               g == MoveNodeFromFeeListToOccupied(f, n, At(w, k - 1)).ffa
               p == InsertPosition(f, o, f.array[n].start)
           IN /\ Threaded(g, InsertedAt(o, p, n), RemovedAt(w, k))
              /\ \A i \in Nodes : SameBounds(f, g, i)
<1> DEFINE n == w[k]
           g == MoveNodeFromFeeListToOccupied(f, n, At(w, k - 1)).ffa
           p == InsertPosition(f, o, f.array[n].start)
           l == Link(f.array, o, f.occupied_head, p, n)
           set == [l.array EXCEPT ![n].start = f.array[n].start,
                                  ![n].end = f.array[n].start + NodeSize(f, n)]
           h == IF n = f.free_head THEN f.array[n].next ELSE f.free_head
           m == AllocateMemoryRegionNode(f, n, f.array[n].start, NodeSize(f, n))
<1>0. /\ f \in FFAs /\ f.array \in Arrays
      /\ o \in Seq(Nodes) /\ Len(o) \in Nat /\ DOMAIN o = 1 .. Len(o)
      /\ w \in Seq(Nodes) /\ Len(w) \in Nat /\ DOMAIN w = 1 .. Len(w)
      /\ IsInjective(o) /\ IsInjective(w)
      /\ \A j \in 1 .. Len(w) : w[j] \in Nodes /\ w[j] \in ToSet(w)
      /\ f.free_head = At(w, 1)
      /\ ToSet(o) \subseteq Nodes /\ ToSet(w) \subseteq Nodes
      /\ \A i \in Nodes : f.array[i].start \in Nat /\ f.array[i].end \in Nat
    BY ThreadedFacts
<1>1. n \in Nodes /\ n # NIL /\ n \in ToSet(w) /\ n \notin ToSet(o) /\ n \in UsedNodes(f)
    BY <1>0 DEF Threaded, NIL, Nodes
<1>2. OccupiedList(f) = o
    BY Walks
<1>3. m = [node |-> n, ffa |-> [array |-> set, occupied_head |-> l.head, free_head |-> h]]
    <2> HIDE DEF n
    <2> QED BY <1>1, <1>2 DEF AllocateMemoryRegionNode
<1>4. p \in 1 .. Len(o) + 1
    BY <1>0, InsertPositionFacts
<1>5. /\ l.array \in Arrays
      /\ Chain(l.array, l.head, InsertedAt(o, p, n))
      /\ \A i \in Nodes : l.array[i].start = f.array[i].start /\ l.array[i].end = f.array[i].end
      /\ \A i \in Nodes \ (ToSet(o) \cup {n}) : l.array[i] = f.array[i]
    <2> HIDE DEF n, p
    <2> QED BY <1>0, <1>1, <1>4, LinkChain DEF Threaded
<1>6. f.array[n].start + NodeSize(f, n) = f.array[n].end
    BY <1>0, <1>1 DEF NodeSize
<1> HIDE DEF l, p
<1>7. /\ set \in Arrays
      /\ \A i \in Nodes : /\ set[i].next = l.array[i].next
                          /\ set[i].start = f.array[i].start /\ set[i].end = f.array[i].end
      /\ \A i \in Nodes \ (ToSet(o) \cup {n}) : set[i].next = f.array[i].next
    <2>1. /\ f.array[n].start \in Nat /\ f.array[n].start + NodeSize(f, n) \in Nat
        BY <1>0, <1>1, <1>6
    <2> HIDE DEF n
    <2>2. /\ set \in Arrays /\ set[n].next = l.array[n].next
          /\ set[n].start = f.array[n].start
          /\ set[n].end = f.array[n].start + NodeSize(f, n)
          /\ \A i \in Nodes \ {n} : set[i] = l.array[i]
        <3> DEFINE s == f.array[n].start
                   e == f.array[n].start + NodeSize(f, n)
        <3>1. s \in Nat /\ e \in Nat
            BY <2>1
        <3> HIDE DEF s, e
        <3>2. l.array \in Arrays /\ n \in Nodes
            BY <1>1, <1>5
        <3>3. [l.array EXCEPT ![n].start = s, ![n].end = e] = set
            BY DEF s, e
        <3>4. /\ set \in Arrays /\ set[n].next = l.array[n].next
              /\ set[n].start = s /\ set[n].end = e
              /\ \A i \in Nodes \ {n} : set[i] = l.array[i]
            <4>1. LET b == [l.array EXCEPT ![n].start = s, ![n].end = e]
                  IN /\ b \in Arrays /\ b[n].next = l.array[n].next
                     /\ b[n].start = s /\ b[n].end = e
                     /\ \A i \in Nodes \ {n} : b[i] = l.array[i]
                BY <3>1, <3>2 DEF Arrays
            <4> QED BY <3>3, <4>1
        <3> QED BY <3>4 DEF s, e
    <2>3. \A i \in Nodes \ {n} : set[i] = l.array[i]
        BY <2>2
    <2> HIDE DEF set
    <2>4. \A i \in Nodes : /\ set[i].next = l.array[i].next
                          /\ set[i].start = f.array[i].start /\ set[i].end = f.array[i].end
        BY <1>5, <1>6, <2>2, <2>3
    <2> QED BY <1>5, <2>2, <2>4
<1> DEFINE v == InsertedAt(o, p, n)
           u == RemovedAt(w, k)
<1>8. v \in Seq(Nodes) /\ ToSet(v) = ToSet(o) \cup {n} /\ ToSet(v) \subseteq Nodes
    BY <1>0, <1>1, <1>4, Inserted
<1>9. u \in Seq(Nodes) /\ ToSet(u) = ToSet(w) \ {n} /\ ToSet(u) \subseteq Nodes
    BY <1>0, Removed
<1>10. f.array[n].next = At(w, k + 1)
    BY DEF Threaded, Chain
<1>11. \A a, b \in 1 .. Len(w) : a # b => w[a] # w[b]
    BY <1>0 DEF IsInjective
<1>12. \E arr \in Arrays :
           /\ g = [array |-> arr, occupied_head |-> l.head, free_head |-> h]
           /\ \A i \in Nodes : arr[i].start = f.array[i].start /\ arr[i].end = f.array[i].end
           /\ \A i \in ToSet(v) : arr[i].next = set[i].next
           /\ \A i \in ToSet(w) : i # n /\ (k > 1 => i # w[k - 1])
                                     => arr[i].next = f.array[i].next
           /\ k > 1 => arr[w[k - 1]].next = At(w, k + 1)
    <2>1. CASE k = 1
        <3>1. At(w, k - 1) = NIL
            BY <1>0, <2>1 DEF At
        <3>2. g = [array |-> set, occupied_head |-> l.head, free_head |-> h]
            <4> HIDE DEF m, set, h
            <4> QED BY <1>3, <3>1 DEF MoveNodeFromFeeListToOccupied, m
        <3> HIDE DEF g, set, n, h, v
        <3>3. \A i \in ToSet(w) : i # n => set[i].next = f.array[i].next
            BY <1>0, <1>7 DEF Threaded
        <3> set \in Arrays
            BY <1>7
        <3> WITNESS set \in Arrays
        <3> QED BY <1>7, <2>1, <3>2, <3>3
    <2>2. CASE k > 1
        <3> DEFINE q == w[k - 1]
                   arr == [set EXCEPT ![q].next = f.array[n].next]
        <3>1. At(w, k - 1) = q /\ q # NIL /\ q \in Nodes /\ q \in ToSet(w) /\ q # n
              /\ q \notin ToSet(o)
            <4>1. k - 1 \in DOMAIN w /\ k - 1 # k /\ k - 1 \in 1 .. Len(w)
                BY <1>0, <2>2
            <4>2. At(w, k - 1) = q /\ q \in Nodes /\ q \in ToSet(w) /\ q # n
                BY <1>0, <1>11, <4>1 DEF At
            <4> HIDE DEF q
            <4>3. q # NIL /\ q \notin ToSet(o)
                BY <4>2 DEF NIL, Nodes, Threaded
            <4> QED BY <4>2, <4>3
        <3>2. g = [array |-> arr, occupied_head |-> l.head, free_head |-> h]
            <4> HIDE DEF m, set, h, q
            <4> QED BY <1>3, <3>1 DEF MoveNodeFromFeeListToOccupied, m
        <3> HIDE DEF g, set, n, h, v, q
        <3>3. f.array[n].next \in Links
            BY <1>0, <1>1 DEF Arrays
        <3>4. /\ arr \in Arrays /\ arr[q].next = f.array[n].next
              /\ \A i \in Nodes : arr[i].start = set[i].start /\ arr[i].end = set[i].end
              /\ \A i \in Nodes : i # q => arr[i].next = set[i].next
            BY <1>7, <3>1, <3>3 DEF Arrays
        <3> HIDE DEF arr
        <3>5. \A i \in ToSet(w) : i # n /\ i # q => arr[i].next = f.array[i].next
            BY <1>0, <1>7, <3>4 DEF Threaded
        <3>6. \A i \in ToSet(v) : arr[i].next = set[i].next
            BY <1>8, <3>1, <3>4
        <3>7. \A i \in Nodes : arr[i].start = f.array[i].start /\ arr[i].end = f.array[i].end
            BY <1>7, <3>4
        <3>8. arr[w[k - 1]].next = At(w, k + 1)
            BY <1>10, <3>4 DEF q, n
        <3>9. \A i \in ToSet(w) : i # n /\ (k > 1 => i # w[k - 1])
                                    => arr[i].next = f.array[i].next
            BY <2>2, <3>5 DEF q
        <3> arr \in Arrays
            BY <3>4
        <3> WITNESS arr \in Arrays
        <3> QED BY <3>2, <3>6, <3>7, <3>8, <3>9
    <2> HIDE DEF g, v, h, n, set
    <2> QED BY <1>0, <2>1, <2>2
<1>13. PICK arr \in Arrays :
           /\ g = [array |-> arr, occupied_head |-> l.head, free_head |-> h]
           /\ \A i \in Nodes : arr[i].start = f.array[i].start /\ arr[i].end = f.array[i].end
           /\ \A i \in ToSet(v) : arr[i].next = set[i].next
           /\ \A i \in ToSet(w) : i # n /\ (k > 1 => i # w[k - 1])
                                     => arr[i].next = f.array[i].next
           /\ k > 1 => arr[w[k - 1]].next = At(w, k + 1)
    BY <1>12
<1>14. k = 1 => h = At(w, 2)
    BY <1>0, <1>10 DEF At
<1>15. k > 1 => h = f.free_head
    <2>1. k > 1 => n # w[1] /\ 1 \in DOMAIN w
        BY <1>0, <1>11
    <2> QED BY <1>0, <2>1 DEF At
<1> HIDE DEF g, set, n, h, v, u
<1>16. Chain(arr, h, u)
    <2>1. Chain(f.array, f.free_head, w)
        BY DEF Threaded
    <2>2. \A i \in ToSet(w) : i # w[k] /\ (k > 1 => i # w[k - 1])
                                 => arr[i].next = f.array[i].next
        BY <1>13 DEF n
    <2>3. k > 1 => h = f.free_head /\ arr[w[k - 1]].next = At(w, k + 1)
        BY <1>13, <1>15
    <2>4. f.array \in Arrays
        BY <1>0
    <2> QED BY <1>14, <2>1, <2>2, <2>3, <2>4, UnlinkChain DEF u
<1>17. Chain(arr, l.head, v)
    <2>1. \A i \in ToSet(v) : arr[i].next = l.array[i].next
        BY <1>7, <1>8, <1>13
    <2> QED BY <1>5, <2>1, ChainFrame DEF v
<1>18. g \in FFAs /\ g.array = arr
    BY <1>8, <1>9, <1>13, <1>16, <1>17 DEF FFAs, Chain, At, Links
<1>19. UsedNodes(g) = UsedNodes(f)
    BY <1>13, <1>18 DEF UsedNodes
<1>20. Threaded(g, v, u)
    <2>1. ToSet(v) \cap ToSet(u) = {} /\ ToSet(v) \cup ToSet(u) = UsedNodes(g)
        BY <1>1, <1>8, <1>9, <1>19 DEF Threaded
    <2> QED BY <1>13, <1>16, <1>17, <1>18, <2>1 DEF Threaded
<1>21. \A i \in Nodes : SameBounds(f, g, i)
    BY <1>13, <1>18 DEF SameBounds
<1> QED BY <1>20, <1>21 DEF g, v, u, n, p

\* FreeOccupiedRegionNode: the node at position q leaves the occupied list and
\* is empty.
LEMMA ReleaseNode ==
    ASSUME NEW f, NEW o, NEW w, Threaded(f, o, w), NEW q \in 1 .. Len(o)
    PROVE  LET g == FreeOccupiedRegionNode(f, o[q])
           IN /\ Threaded(g, RemovedAt(o, q), w)
              /\ \A i \in Nodes \ {o[q]} : SameBounds(f, g, i)
<1> DEFINE n == o[q]
           g == FreeOccupiedRegionNode(f, n)
           I == {j \in 1 .. Len(o) : o[j] = n}
           u == RemovedAt(o, q)
           next == f.array[n].next
<1>0. /\ f \in FFAs /\ f.array \in Arrays
      /\ o \in Seq(Nodes) /\ Len(o) \in Nat /\ DOMAIN o = 1 .. Len(o)
      /\ IsInjective(o)
      /\ \A j \in 1 .. Len(o) : o[j] \in Nodes /\ o[j] \in ToSet(o)
      /\ f.occupied_head = At(o, 1)
      /\ ToSet(o) \subseteq Nodes /\ ToSet(w) \subseteq Nodes
    BY ThreadedFacts
<1>1. n \in Nodes /\ n \in ToSet(o) /\ n \notin ToSet(w)
    BY <1>0 DEF Threaded
<1>2. \A a, b \in 1 .. Len(o) : a # b => o[a] # o[b]
    BY <1>0 DEF IsInjective
<1>3. IF I # {} THEN Min(I) = q ELSE FALSE
    <2>1. I = {q}
        BY <1>2
    <2>2. Min({q}) = q
        BY DEF Min
    <2> QED BY <2>1, <2>2
<1>4. g = IF At(o, q - 1) = NIL
          THEN [f EXCEPT !.array[n] = EmptyNode, !.occupied_head = next]
          ELSE [f EXCEPT !.array = [@ EXCEPT ![At(o, q - 1)].next = next, ![n] = EmptyNode]]
    <2>1. OccupiedList(f) = o
        BY Walks
    <2>2. FirstWhere(o, LAMBDA i : i = n) = IF I # {} THEN Min(I) ELSE 0
        BY DEF FirstWhere, SelectInSeq
    <2>3. FirstWhere(o, LAMBDA i : i = n) = q
        BY <1>3, <2>2
    <2> HIDE DEF n, I
    <2> QED BY <2>1, <2>3 DEF FreeOccupiedRegionNode
<1>5. next = At(o, q + 1)
    BY DEF Threaded, Chain
<1>6. next \in Links
    BY <1>0, <1>1 DEF Arrays
<1>7. \E new \in Arrays, h \in Links :
          /\ g = [array |-> new, occupied_head |-> h, free_head |-> f.free_head]
          /\ new[n] = EmptyNode
          /\ \A i \in Nodes \ {n} : new[i].start = f.array[i].start /\ new[i].end = f.array[i].end
          /\ \A i \in Nodes : i # n /\ (q > 1 => i # o[q - 1]) => new[i].next = f.array[i].next
          /\ q = 1 => h = At(o, 2)
          /\ q > 1 => h = f.occupied_head /\ new[o[q - 1]].next = At(o, q + 1)
    <2>1. CASE q = 1
        <3> DEFINE new == [f.array EXCEPT ![n] = EmptyNode]
        <3>1. At(o, q - 1) = NIL
            BY <1>0, <2>1 DEF At
        <3>2. g = [array |-> new, occupied_head |-> next, free_head |-> f.free_head]
            <4> HIDE DEF g, n, next
            <4> QED BY <1>0, <1>4, <3>1 DEF FFAs
        <3> HIDE DEF g, n, next
        <3>3. /\ new \in Arrays /\ new[n] = EmptyNode
              /\ \A i \in Nodes \ {n} : new[i] = f.array[i]
            <4>1. f.array \in Arrays /\ n \in Nodes
                BY <1>0, <1>1
            <4> QED BY <4>1, Emptied
        <3> HIDE DEF new
        <3> QED BY <1>5, <1>6, <2>1, <3>2, <3>3
    <2>2. CASE q > 1
        <3> DEFINE prev == o[q - 1]
                   new == [f.array EXCEPT ![prev].next = next, ![n] = EmptyNode]
        <3>1. q - 1 \in DOMAIN o /\ q - 1 # q /\ q - 1 \in 1 .. Len(o)
            BY <1>0, <2>2
        <3>2. At(o, q - 1) = prev /\ prev \in Nodes /\ prev # n
            BY <1>0, <1>2, <3>1 DEF At
        <3> HIDE DEF prev
        <3>3. prev # NIL
            BY <3>2 DEF NIL, Nodes
        <3>4. g = [array |-> new, occupied_head |-> f.occupied_head, free_head |-> f.free_head]
            <4> HIDE DEF g, n, next
            <4> QED BY <1>0, <1>4, <3>2, <3>3 DEF FFAs
        <3> HIDE DEF g, n, next
        <3>5. /\ new \in Arrays /\ new[n] = EmptyNode /\ new[prev].next = next
              /\ new[prev].start = f.array[prev].start /\ new[prev].end = f.array[prev].end
              /\ \A i \in Nodes \ {n, prev} : new[i] = f.array[i]
            <4> DEFINE mid == [f.array EXCEPT ![prev].next = next]
            <4>1. /\ mid \in Arrays /\ mid[prev].next = next
                  /\ mid[prev].start = f.array[prev].start /\ mid[prev].end = f.array[prev].end
                  /\ \A i \in Nodes \ {prev} : mid[i] = f.array[i]
                BY <1>0, <1>6, <3>2, SetNext
            <4> HIDE DEF mid
            <4>2. [mid EXCEPT ![n] = EmptyNode] = new
                BY DEF mid
            <4>3. /\ new \in Arrays /\ new[n] = EmptyNode
                  /\ \A i \in Nodes \ {n} : new[i] = mid[i]
                <5>1. LET b == [mid EXCEPT ![n] = EmptyNode]
                      IN b \in Arrays /\ b[n] = EmptyNode /\ \A i \in Nodes \ {n} : b[i] = mid[i]
                    BY <1>1, <4>1, Emptied
                <5> QED BY <4>2, <5>1
            <4> HIDE DEF new
            <4> QED BY <3>2, <4>1, <4>3
        <3> HIDE DEF new
        <3>6. f.occupied_head \in Links
            BY <1>0 DEF FFAs
        <3>7. new[o[q - 1]].next = At(o, q + 1)
            BY <1>5, <3>5 DEF prev
        <3>8. \A i \in Nodes : i # n /\ (q > 1 => i # o[q - 1]) => new[i].next = f.array[i].next
            BY <2>2, <3>5 DEF prev
        <3>9. \A i \in Nodes \ {n} : new[i].start = f.array[i].start /\ new[i].end = f.array[i].end
            BY <3>5
        <3> QED BY <2>2, <3>4, <3>5, <3>6, <3>7, <3>8, <3>9
    <2> HIDE DEF g, n, next
    <2> QED BY <1>0, <2>1, <2>2
<1>8. PICK new \in Arrays, h \in Links :
          /\ g = [array |-> new, occupied_head |-> h, free_head |-> f.free_head]
          /\ new[n] = EmptyNode
          /\ \A i \in Nodes \ {n} : new[i].start = f.array[i].start /\ new[i].end = f.array[i].end
          /\ \A i \in Nodes : i # n /\ (q > 1 => i # o[q - 1]) => new[i].next = f.array[i].next
          /\ q = 1 => h = At(o, 2)
          /\ q > 1 => h = f.occupied_head /\ new[o[q - 1]].next = At(o, q + 1)
    BY <1>7
<1> HIDE DEF g, next
<1>9. Chain(new, h, u)
    <2>1. \A i \in ToSet(o) : i # o[q] /\ (q > 1 => i # o[q - 1])
                                 => new[i].next = f.array[i].next
        BY <1>0, <1>8
    <2> QED BY <1>0, <1>8, <2>1, UnlinkChain DEF Threaded
<1>10. u \in Seq(Nodes) /\ ToSet(u) = ToSet(o) \ {n}
    BY <1>0, Removed
<1> HIDE DEF n, u
<1>11. Chain(new, f.free_head, w)
    <2>1. \A i \in ToSet(w) : i # n /\ (q > 1 => i # o[q - 1])
        <3>1. q > 1 => o[q - 1] \in ToSet(o)
            BY <1>0
        <3> QED BY <1>1, <3>1 DEF Threaded
    <2>2. \A i \in ToSet(w) : new[i].next = f.array[i].next
        BY <1>0, <1>8, <2>1
    <2> QED BY <2>2, ChainFrame DEF Threaded
<1>12. g \in FFAs /\ g.array = new
    BY <1>0, <1>8 DEF FFAs
<1>13. UsedNodes(g) = UsedNodes(f) \ {n}
    BY <1>8, <1>12 DEF UsedNodes, EmptyNode
<1>14. Threaded(g, u, w)
    <2>1. ToSet(u) \cap ToSet(w) = {} /\ ToSet(u) \cup ToSet(w) = UsedNodes(g)
        BY <1>1, <1>10, <1>13 DEF Threaded
    <2> QED BY <1>8, <1>9, <1>11, <1>12, <2>1 DEF Threaded
<1>15. \A i \in Nodes \ {n} : SameBounds(f, g, i)
    BY <1>8, <1>12 DEF SameBounds
<1> QED BY <1>14, <1>15 DEF g, n, u

\* AddFreedRegionToFreeList when no free region touches the freed one: an unused
\* node joins the free list with it.
ListFreed(f, w, start, size) ==
    LET n == FindFreeNode(f)
        list == Link(f.array, w, f.free_head, InsertPosition(f, w, start), n)
    IN [f EXCEPT !.array = [list.array EXCEPT ![n].start = start, ![n].end = start + size],
                 !.free_head = list.head]

LEMMA InsertFreed ==
    ASSUME NEW f, NEW o, NEW w, Threaded(f, o, w),
           NEW start \in Nat \ {0}, NEW size \in Nat, FindFreeNode(f) # NIL
    PROVE  LET n == FindFreeNode(f)
               g == ListFreed(f, w, start, size)
               k == InsertPosition(f, w, start)
           IN /\ n \in Nodes \ UsedNodes(f)
              /\ Threaded(g, o, InsertedAt(w, k, n))
              /\ g.array[n].start = start /\ g.array[n].end = start + size
              /\ \A i \in Nodes \ {n} : SameBounds(f, g, i)
<1> DEFINE n == FindFreeNode(f)
           k == InsertPosition(f, w, start)
           l == Link(f.array, w, f.free_head, k, n)
           g == ListFreed(f, w, start, size)
           arr == [l.array EXCEPT ![n].start = start, ![n].end = start + size]
           v == InsertedAt(w, k, n)
<1>1. n \in Nodes \ UsedNodes(f)
    BY UnusedNode
<1>2. n \in Nodes /\ n # NIL /\ n \notin ToSet(o) /\ n \notin ToSet(w)
    BY <1>1 DEF Threaded, NIL, Nodes
<1>3. k \in 1 .. Len(w) + 1
    BY InsertPositionFacts, ThreadedFacts
<1>4. /\ l.array \in Arrays
      /\ Chain(l.array, l.head, v)
      /\ \A i \in Nodes : l.array[i].start = f.array[i].start /\ l.array[i].end = f.array[i].end
      /\ \A i \in Nodes \ (ToSet(w) \cup {n}) : l.array[i] = f.array[i]
    <2> HIDE DEF n, k
    <2> QED BY <1>2, <1>3, LinkChain, ThreadedFacts DEF Threaded
<1>5. g = [array |-> arr, occupied_head |-> f.occupied_head, free_head |-> l.head]
    <2>1. f \in FFAs
        BY ThreadedFacts
    <2>2. g = [f EXCEPT !.array = arr, !.free_head = l.head]
        BY DEF ListFreed
    <2> HIDE DEF g, l, arr
    <2> QED BY <2>1, <2>2 DEF FFAs
<1>6. v \in Seq(Nodes) /\ ToSet(v) = ToSet(w) \cup {n} /\ ToSet(v) \subseteq Nodes
    BY <1>2, <1>3, Inserted, ThreadedFacts
<1> HIDE DEF n, k, l, g, v
<1>7. /\ arr \in Arrays /\ arr[n].start = start /\ arr[n].end = start + size
      /\ arr[n].next = l.array[n].next
      /\ \A i \in Nodes \ {n} : arr[i] = l.array[i]
    BY <1>2, <1>4 DEF Arrays
<1> HIDE DEF arr
<1>8. Chain(arr, l.head, v)
    <2>1. \A i \in ToSet(v) : arr[i].next = l.array[i].next
        BY <1>6, <1>7
    <2> QED BY <1>4, <2>1, ChainFrame
<1>9. Chain(arr, f.occupied_head, o)
    <2>1. \A i \in ToSet(o) : arr[i].next = f.array[i].next
        BY <1>2, <1>4, <1>7, ThreadedFacts DEF Threaded
    <2> QED BY <2>1, ChainFrame DEF Threaded
<1>10. g \in FFAs /\ g.array = arr
    <2>1. l.head \in Links
        BY <1>6, <1>8 DEF Chain, At, Links
    <2>2. f.occupied_head \in Links
        BY DEF Threaded, FFAs
    <2> QED BY <1>5, <1>7, <2>1, <2>2 DEF FFAs
<1>11. UsedNodes(g) = UsedNodes(f) \cup {n}
    BY <1>2, <1>4, <1>7, <1>10 DEF UsedNodes, NULL
<1>12. Threaded(g, o, v)
    <2>1. ToSet(o) \cap ToSet(v) = {} /\ ToSet(o) \cup ToSet(v) = UsedNodes(g)
        BY <1>2, <1>6, <1>11 DEF Threaded
    <2> QED BY <1>5, <1>8, <1>9, <1>10, <2>1 DEF Threaded
<1>13. \A i \in Nodes \ {n} : SameBounds(f, g, i)
    BY <1>4, <1>7, <1>10 DEF SameBounds
<1> QED BY <1>1, <1>7, <1>10, <1>12, <1>13 DEF n, k, g, v

\* Merge takes the second of two neighbours out of the free list.
LEMMA MergeNodes ==
    ASSUME NEW f, NEW o, NEW w, Threaded(f, o, w), NEW k \in 2 .. Len(w)
    PROVE  LET g == Merge(f, w[k - 1], w[k])
           IN /\ Threaded(g, o, RemovedAt(w, k))
              /\ g.array[w[k - 1]].start = f.array[w[k - 1]].start
              /\ g.array[w[k - 1]].end = f.array[w[k]].end
              /\ \A i \in Nodes \ {w[k - 1], w[k]} : SameBounds(f, g, i)
<1> DEFINE p == w[k - 1]
           n == w[k]
           g == Merge(f, p, n)
           arr == [f.array EXCEPT ![p].end = f.array[n].end,
                                  ![p].next = f.array[n].next, ![n] = EmptyNode]
           u == RemovedAt(w, k)
<1>0. /\ f \in FFAs /\ f.array \in Arrays
      /\ w \in Seq(Nodes) /\ Len(w) \in Nat /\ DOMAIN w = 1 .. Len(w)
      /\ IsInjective(w)
      /\ \A j \in 1 .. Len(w) : w[j] \in Nodes /\ w[j] \in ToSet(w)
      /\ ToSet(o) \subseteq Nodes /\ ToSet(w) \subseteq Nodes
    BY ThreadedFacts
<1>1. k \in 1 .. Len(w) /\ k - 1 \in 1 .. Len(w) /\ k - 1 # k /\ k > 1
    BY <1>0
<1>2. /\ p \in Nodes /\ p \in ToSet(w) /\ p \notin ToSet(o)
      /\ n \in Nodes /\ n \in ToSet(w) /\ n \notin ToSet(o) /\ n # p
    BY <1>0, <1>1 DEF Threaded, IsInjective
<1>3. f.array[n].next = At(w, k + 1)
    BY <1>1 DEF Threaded, Chain
<1>4. g = [array |-> arr, occupied_head |-> f.occupied_head, free_head |-> f.free_head]
    <2> HIDE DEF p, n
    <2> QED BY <1>0 DEF Merge, FFAs
<1>5. u \in Seq(Nodes) /\ ToSet(u) = ToSet(w) \ {n}
    BY <1>0, <1>1, Removed
<1> HIDE DEF g, u
<1>6. /\ arr \in Arrays /\ arr[n] = EmptyNode
      /\ arr[p].start = f.array[p].start /\ arr[p].end = f.array[n].end
      /\ arr[p].next = f.array[n].next
      /\ \A i \in Nodes \ {p, n} : arr[i] = f.array[i]
    <2>1. f.array[n].end \in Nat /\ f.array[n].next \in Links
        BY <1>0, <1>2 DEF Arrays
    <2> HIDE DEF p, n
    <2>2. EmptyNode \in [start : Nat, end : Nat, next : Links]
        BY DEF EmptyNode, NULL, NIL, Links
    <2> QED BY <1>0, <1>2, <2>1, <2>2 DEF Arrays
<1> HIDE DEF arr
<1>7. Chain(arr, f.free_head, u)
    <2>1. \A i \in ToSet(w) : i # w[k] /\ (k > 1 => i # w[k - 1])
                                 => arr[i].next = f.array[i].next
        BY <1>0, <1>1, <1>6
    <2>2. arr[w[k - 1]].next = At(w, k + 1)
        BY <1>3, <1>6
    <2>3. Chain(f.array, f.free_head, w)
        BY DEF Threaded
    <2>4. f.array \in Arrays /\ arr \in Arrays
        BY <1>0, <1>6
    <2> HIDE DEF p, n
    <2> QED BY <1>1, <2>1, <2>2, <2>3, <2>4, UnlinkChain DEF u
<1> HIDE DEF p, n
<1>8. Chain(arr, f.occupied_head, o)
    <2>1. \A i \in ToSet(o) : arr[i].next = f.array[i].next
        BY <1>0, <1>2, <1>6
    <2> QED BY <2>1, ChainFrame DEF Threaded
<1>9. g \in FFAs /\ g.array = arr
    BY <1>0, <1>4, <1>6 DEF FFAs
<1>10. UsedNodes(g) = UsedNodes(f) \ {n}
    BY <1>2, <1>6, <1>9 DEF UsedNodes, EmptyNode
<1>11. Threaded(g, o, u)
    <2>1. ToSet(o) \cap ToSet(u) = {} /\ ToSet(o) \cup ToSet(u) = UsedNodes(g)
        BY <1>2, <1>5, <1>10 DEF Threaded
    <2> QED BY <1>4, <1>7, <1>8, <1>9, <2>1 DEF Threaded
<1>12. \A i \in Nodes \ {p, n} : SameBounds(f, g, i)
    BY <1>6, <1>9 DEF SameBounds
<1> QED BY <1>6, <1>9, <1>11, <1>12 DEF g, p, n, u

-------------------------------------------------------------------------------
(* Combining touching regions, one pair at a time.                         *)

\* Regions of the pool that do not overlap.
Separate(R) == R \subseteq FF!Regions /\ \A r, q \in R : r # q => FF!Disjoint(r, q)

LEMMA SeparateFacts ==
    ASSUME NEW R, Separate(R)
    PROVE  /\ \A r \in R : r.start \in Nat /\ r.end \in Nat /\ r.start < r.end
           /\ \A r, q \in R : r = q \/ r.end <= q.start \/ q.end <= r.start
           /\ \A r, q \in R : r.start = q.start \/ r.end = q.end => r = q
           /\ \A r \in R : r = [start |-> r.start, end |-> r.end]
<1>1. \A r \in R : /\ r.start \in Nat /\ r.end \in Nat /\ r.start < r.end
                   /\ r = [start |-> r.start, end |-> r.end]
    BY DEF Separate, FF!Regions
<1>2. \A r, q \in R : r = q \/ r.end <= q.start \/ q.end <= r.start
    BY DEF Separate, FF!Disjoint
<1> QED BY <1>1, <1>2

\* Regions none of which touches another are what combining leaves.
LEMMA NothingToCombine ==
    ASSUME NEW R, Separate(R), \A r, q \in R : r.end # q.start
    PROVE  FF!CombineAdjacentFreeNodes(R) = R
<1>0. /\ \A r \in R : r.start \in Nat /\ r.end \in Nat /\ r.start < r.end
      /\ \A r, q \in R : r = q \/ r.end <= q.start \/ q.end <= r.start
      /\ \A r \in R : r = [start |-> r.start, end |-> r.end]
    BY SeparateFacts
<1>1. FF!Heads(R) = R /\ FF!Tails(R) = R
    BY DEF FF!Heads, FF!Tails
<1>2. ASSUME NEW h \in R, NEW t \in R PROVE FF!Unbroken(R, h, t) <=> h = t
    <2>1. CASE h = t
        BY <1>0, <2>1 DEF FF!Unbroken
    <2>2. CASE h # t
        <3>1. h.start <= t.start => h.start < t.start
            BY <1>0, <2>2
        <3> QED BY <1>0, <2>2, <3>1 DEF FF!Unbroken
    <2> QED BY <2>1, <2>2
<1>3. FF!CombineAdjacentFreeNodes(R) =
        {[start |-> p[1].start, end |-> p[2].end] : p \in {p \in R \X R : p[1] = p[2]}}
    <2>1. {p \in FF!Heads(R) \X FF!Tails(R) : FF!Unbroken(R, p[1], p[2])}
            = {p \in R \X R : p[1] = p[2]}
        BY <1>1, <1>2
    <2> QED BY <2>1 DEF FF!CombineAdjacentFreeNodes
<1>4. ASSUME NEW p \in R \X R, p[1] = p[2]
      PROVE  [start |-> p[1].start, end |-> p[2].end] \in R
    BY <1>0, <1>4
<1>5. ASSUME NEW r \in R
      PROVE  \E p \in R \X R : p[1] = p[2] /\ r = [start |-> p[1].start, end |-> p[2].end]
    <2>1. <<r, r>> \in R \X R
        OBVIOUS
    <2> QED BY <1>0, <2>1
<1> QED BY <1>3, <1>4, <1>5

\* Merging one pair of touching regions does not change what combining leaves.
LEMMA MergedPair ==
    ASSUME NEW R, Separate(R), NEW p \in R, NEW n \in R, p.end = n.start
    PROVE  LET m == [start |-> p.start, end |-> n.end]
               S == (R \ {p, n}) \cup {m}
           IN Separate(S) /\ FF!CombineAdjacentFreeNodes(S) = FF!CombineAdjacentFreeNodes(R)
<1> DEFINE m == [start |-> p.start, end |-> n.end]
           S == (R \ {p, n}) \cup {m}
<1>0. /\ \A r \in R : r.start \in Nat /\ r.end \in Nat /\ r.start < r.end
      /\ \A r, q \in R : r = q \/ r.end <= q.start \/ q.end <= r.start
      /\ \A r, q \in R : r.start = q.start \/ r.end = q.end => r = q
    BY SeparateFacts
<1>1. p # n /\ m.start = p.start /\ m.end = n.end /\ m \in FF!Regions /\ m.start < m.end
    BY <1>0 DEF Separate, FF!Regions
<1> HIDE DEF m
<1>2. \A r \in R \ {p, n} : (r.end <= m.start \/ m.end <= r.start) /\ r # m
    BY <1>0, <1>1
<1>3. Separate(S)
    BY <1>1, <1>2 DEF Separate, FF!Disjoint
<1>4. S = (R \ {p, n}) \cup {m}
    OBVIOUS
<1> HIDE DEF S
\* Whatever begins before n and is not p begins before p.
<1>5. \A r \in R \ {p, n} : r.start < n.start <=> r.start < p.start
    BY <1>0, <1>1
\* A region is followed by another before the merge just if it is after.
<1>6. ASSUME NEW r \in R \ {p, n}
      PROVE  (\E q \in R : q.start = r.end) <=> (\E q \in S : q.start = r.end)
    <2>1. n.start # r.end
        BY <1>0
    <2>2. ASSUME NEW q \in R, q.start = r.end PROVE \E x \in S : x.start = r.end
        <3>1. CASE q = p
            BY <1>1, <1>4, <2>2, <3>1
        <3>2. CASE q # p
            BY <1>4, <2>1, <2>2, <3>2
        <3> QED BY <3>1, <3>2
    <2>3. ASSUME NEW q \in S, q.start = r.end PROVE \E x \in R : x.start = r.end
        BY <1>1, <1>4, <2>3
    <2> QED BY <2>2, <2>3
<1>7. (\E q \in R : q.start = n.end) <=> (\E q \in S : q.start = m.end)
    BY <1>0, <1>1, <1>4
<1>8. ASSUME NEW r \in R \ {p, n}
      PROVE  (\E q \in R : q.end = r.start) <=> (\E q \in S : q.end = r.start)
    <2>1. p.end # r.start
        BY <1>0
    <2>2. ASSUME NEW q \in R, q.end = r.start PROVE \E x \in S : x.end = r.start
        <3>1. CASE q = n
            BY <1>1, <1>4, <2>2, <3>1
        <3>2. CASE q # n
            BY <1>4, <2>1, <2>2, <3>2
        <3> QED BY <3>1, <3>2
    <2>3. ASSUME NEW q \in S, q.end = r.start PROVE \E x \in R : x.end = r.start
        BY <1>1, <1>4, <2>3
    <2> QED BY <2>2, <2>3
<1>9. (\E q \in R : q.end = p.start) <=> (\E q \in S : q.end = m.start)
    BY <1>0, <1>1, <1>4
<1>10. FF!Heads(R) \ {p} = FF!Heads(S) \ {m} /\ (p \in FF!Heads(R) <=> m \in FF!Heads(S))
       /\ n \notin FF!Heads(R) /\ FF!Heads(R) \subseteq R /\ FF!Heads(S) \subseteq S
    BY <1>2, <1>4, <1>8, <1>9 DEF FF!Heads
<1>11. FF!Tails(R) \ {n} = FF!Tails(S) \ {m} /\ (n \in FF!Tails(R) <=> m \in FF!Tails(S))
       /\ p \notin FF!Tails(R) /\ FF!Tails(R) \subseteq R /\ FF!Tails(S) \subseteq S
    BY <1>2, <1>4, <1>6, <1>7 DEF FF!Tails
\* A run that ends before or after the pair.
<1>12. ASSUME NEW h \in R \ {n}, NEW g \in S, h.start = g.start, NEW t \in R \ {p, n}
       PROVE  FF!Unbroken(R, h, t) <=> FF!Unbroken(S, g, t)
    <2>1. h.start <= n.start <=> h.start <= p.start
        BY <1>0, <1>5
    <2>2. p.start < t.start <=> n.start < t.start
        BY <1>0
    <2>3. ASSUME FF!Unbroken(R, h, t), NEW r \in S, g.start <= r.start, r.start < t.start
          PROVE  \E q \in S : q.start = r.end
        <3>1. CASE r = m
            <4>1. h.start <= n.start /\ n.start < t.start
                BY <1>0, <1>1, <1>12, <2>1, <2>2, <2>3, <3>1
            <4> QED BY <1>7, <2>3, <3>1, <4>1 DEF FF!Unbroken
        <3>2. CASE r \in R \ {p, n}
            BY <1>6, <1>12, <2>3, <3>2 DEF FF!Unbroken
        <3> QED BY <1>4, <3>1, <3>2
    <2>4. ASSUME FF!Unbroken(S, g, t), NEW r \in R, h.start <= r.start, r.start < t.start
          PROVE  \E q \in R : q.start = r.end
        <3>1. CASE r = p
            BY <3>1
        <3>2. CASE r = n
            <4>1. g.start <= m.start /\ m.start < t.start /\ m \in S
                BY <1>0, <1>1, <1>4, <1>12, <2>1, <2>2, <2>4, <3>2
            <4> QED BY <1>7, <2>4, <3>2, <4>1 DEF FF!Unbroken
        <3>3. CASE r \in R \ {p, n}
            BY <1>4, <1>6, <1>12, <2>4, <3>3 DEF FF!Unbroken
        <3> QED BY <3>1, <3>2, <3>3
    <2> QED BY <1>12, <2>3, <2>4 DEF FF!Unbroken
\* A run that ends with the pair.
<1>13. ASSUME NEW h \in R \ {n}, NEW g \in S, h.start = g.start
       PROVE  FF!Unbroken(R, h, n) <=> FF!Unbroken(S, g, m)
    <2>1. h.start <= n.start <=> h.start <= p.start
        BY <1>0, <1>5
    <2>2. ASSUME FF!Unbroken(R, h, n), NEW r \in S, g.start <= r.start, r.start < m.start
          PROVE  \E q \in S : q.start = r.end
        <3>1. r \in R \ {p, n}
            BY <1>0, <1>1, <1>4, <2>2
        <3>2. r.start < n.start
            BY <1>1, <1>5, <2>2, <3>1
        <3> QED BY <1>6, <1>13, <2>2, <3>1, <3>2 DEF FF!Unbroken
    <2>3. ASSUME FF!Unbroken(S, g, m), NEW r \in R, h.start <= r.start, r.start < n.start
          PROVE  \E q \in R : q.start = r.end
        <3>1. CASE r = p
            BY <3>1
        <3>2. CASE r # p
            <4>1. r \in R \ {p, n} /\ r.start < m.start /\ r \in S
                BY <1>0, <1>1, <1>4, <1>5, <2>3, <3>2
            <4> QED BY <1>6, <1>13, <2>3, <4>1 DEF FF!Unbroken
        <3> QED BY <3>1, <3>2
    <2> QED BY <1>1, <1>13, <2>1, <2>2, <2>3 DEF FF!Unbroken
<1> DEFINE Runs(Q) == {x \in FF!Heads(Q) \X FF!Tails(Q) : FF!Unbroken(Q, x[1], x[2])}
           Joined(x) == [start |-> x[1].start, end |-> x[2].end]
\* The head and the tail of a run, before the merge and after it.
<1>14. ASSUME NEW h \in FF!Heads(R), NEW t \in FF!Tails(R), FF!Unbroken(R, h, t)
       PROVE  \E x \in Runs(S) : Joined(x) = Joined(<<h, t>>)
    <2> DEFINE g == IF h = p THEN m ELSE h
               u == IF t = n THEN m ELSE t
    <2>1. g \in FF!Heads(S) /\ g.start = h.start /\ g \in S /\ h \in R \ {n}
        BY <1>1, <1>10
    <2>2. u \in FF!Tails(S) /\ u.end = t.end
        BY <1>1, <1>11
    <2>3. FF!Unbroken(S, g, u)
        <3>1. CASE t = n
            BY <1>13, <1>14, <2>1, <3>1
        <3>2. CASE t # n
            <4>1. t \in R \ {p, n}
                BY <1>11, <3>2
            <4> QED BY <1>12, <1>14, <2>1, <3>2, <4>1
        <3> QED BY <3>1, <3>2
    <2> HIDE DEF g, u
    <2>4. <<g, u>> \in Runs(S)
        BY <2>1, <2>2, <2>3
    <2> QED BY <2>1, <2>2, <2>4
<1>15. ASSUME NEW g \in FF!Heads(S), NEW u \in FF!Tails(S), FF!Unbroken(S, g, u)
       PROVE  \E x \in Runs(R) : Joined(x) = Joined(<<g, u>>)
    <2> DEFINE h == IF g = m THEN p ELSE g
               t == IF u = m THEN n ELSE u
    <2>1. h \in FF!Heads(R) /\ g.start = h.start /\ g \in S /\ h \in R \ {n}
        BY <1>1, <1>10
    <2>2. t \in FF!Tails(R) /\ u.end = t.end
        BY <1>1, <1>11
    <2>3. FF!Unbroken(R, h, t)
        <3>1. CASE u = m
            BY <1>13, <1>15, <2>1, <3>1
        <3>2. CASE u # m
            <4>1. u \in R \ {p, n}
                BY <1>11, <3>2
            <4> QED BY <1>12, <1>15, <2>1, <3>2, <4>1
        <3> QED BY <3>1, <3>2
    <2> HIDE DEF h, t
    <2>4. <<h, t>> \in Runs(R)
        BY <2>1, <2>2, <2>3
    <2> QED BY <2>1, <2>2, <2>4
<1>16. \A Q : FF!CombineAdjacentFreeNodes(Q) = {Joined(x) : x \in Runs(Q)}
    BY DEF FF!CombineAdjacentFreeNodes
<1>17. ASSUME NEW x \in Runs(R) PROVE \E y \in Runs(S) : Joined(y) = Joined(x)
    <2>1. x[1] \in FF!Heads(R) /\ x[2] \in FF!Tails(R) /\ FF!Unbroken(R, x[1], x[2])
        OBVIOUS
    <2>2. \E y \in Runs(S) : Joined(y) = Joined(<<x[1], x[2]>>)
        <3> HIDE DEF Runs, Joined
        <3> QED BY <1>14, <2>1
    <2> QED BY <2>2
<1>18. ASSUME NEW x \in Runs(S) PROVE \E y \in Runs(R) : Joined(y) = Joined(x)
    <2>1. x[1] \in FF!Heads(S) /\ x[2] \in FF!Tails(S) /\ FF!Unbroken(S, x[1], x[2])
        OBVIOUS
    <2>2. \E y \in Runs(R) : Joined(y) = Joined(<<x[1], x[2]>>)
        <3> HIDE DEF Runs, Joined
        <3> QED BY <1>15, <2>1
    <2> QED BY <2>2
<1> HIDE DEF Runs, Joined
<1>19. {Joined(x) : x \in Runs(S)} = {Joined(x) : x \in Runs(R)}
    BY <1>17, <1>18
<1> QED BY <1>3, <1>16, <1>19 DEF S, m

-------------------------------------------------------------------------------
(* The regions of a list.                                                  *)

Bounds(f, i) == [start |-> f.array[i].start, end |-> f.array[i].end]
RegionsIn(f, w) == {Bounds(f, i) : i \in ToSet(w)}

\* The regions of a list are in the pool, and each ends before the next begins.
Ordered(f, w) ==
    /\ \A k \in 1 .. Len(w) : Bounds(f, w[k]) \in FF!Regions
    /\ \A j, k \in 1 .. Len(w) : j < k => f.array[w[j]].end <= f.array[w[k]].start

\* No region of the one list overlaps one of the other.
Clear(f, o, w) ==
    \A i \in ToSet(o), j \in ToSet(w) :
        f.array[i].end <= f.array[j].start \/ f.array[j].end <= f.array[i].start

InOrder(f, o, w) == Ordered(f, o) /\ Ordered(f, w) /\ Clear(f, o, w)

LEMMA BoundsFacts ==
    ASSUME NEW f, NEW i, Bounds(f, i) \in FF!Regions
    PROVE  /\ f.array[i].start \in Nat /\ f.array[i].end \in Nat
           /\ Start <= f.array[i].start /\ f.array[i].start < f.array[i].end
           /\ f.array[i].end <= End
BY DEF Bounds, FF!Regions

LEMMA OrderedFacts ==
    ASSUME NEW f, NEW w \in Seq(Nodes), Ordered(f, w)
    PROVE  /\ \A k \in 1 .. Len(w) :
                /\ f.array[w[k]].start \in Nat /\ f.array[w[k]].end \in Nat
                /\ Start <= f.array[w[k]].start /\ f.array[w[k]].start < f.array[w[k]].end
                /\ f.array[w[k]].end <= End
           /\ \A j, k \in 1 .. Len(w) : j < k => f.array[w[j]].end <= f.array[w[k]].start
           /\ Len(w) \in Nat /\ DOMAIN w = 1 .. Len(w)
           /\ \A i \in ToSet(w) : \E k \in 1 .. Len(w) : i = w[k]
BY BoundsFacts DEF Ordered, ToSet

LEMMA OrderedSeparate ==
    ASSUME NEW f, NEW w \in Seq(Nodes), Ordered(f, w)
    PROVE  /\ Separate(RegionsIn(f, w))
           /\ \A i, j \in ToSet(w) : Bounds(f, i) = Bounds(f, j) => i = j
<1>1. ASSUME NEW i \in ToSet(w), NEW j \in ToSet(w), i # j
      PROVE  f.array[i].end <= f.array[j].start \/ f.array[j].end <= f.array[i].start
    <2>1. PICK a \in 1 .. Len(w), b \in 1 .. Len(w) : i = w[a] /\ j = w[b]
        BY OrderedFacts
    <2>2. a < b \/ b < a
        BY <1>1, <2>1
    <2> QED BY <2>1, <2>2, OrderedFacts
<1>2. \A i \in ToSet(w) : Bounds(f, i) \in FF!Regions
    BY OrderedFacts DEF Ordered
<1>3. ASSUME NEW i \in ToSet(w), NEW j \in ToSet(w), i # j
      PROVE  FF!Disjoint(Bounds(f, i), Bounds(f, j)) /\ Bounds(f, i) # Bounds(f, j)
    <2>1. f.array[i].start \in Nat /\ f.array[i].start < f.array[i].end /\ f.array[i].end \in Nat
        BY <1>2, BoundsFacts
    <2> QED BY <1>1, <1>3, <2>1 DEF Bounds, FF!Disjoint
<1> QED BY <1>2, <1>3 DEF Separate, RegionsIn

LEMMA SameRegions ==
    ASSUME NEW f, NEW g, NEW w \in Seq(Nodes), \A i \in ToSet(w) : SameBounds(f, g, i)
    PROVE  RegionsIn(g, w) = RegionsIn(f, w) /\ (Ordered(f, w) => Ordered(g, w))
<1>1. \A i \in ToSet(w) : /\ Bounds(g, i) = Bounds(f, i)
                         /\ g.array[i].start = f.array[i].start
                         /\ g.array[i].end = f.array[i].end
    BY DEF SameBounds, Bounds
<1>2. RegionsIn(g, w) = RegionsIn(f, w)
    BY <1>1 DEF RegionsIn
<1>3. \A k \in 1 .. Len(w) : w[k] \in ToSet(w)
    BY DEF ToSet
<1>4. ASSUME Ordered(f, w) PROVE Ordered(g, w)
    BY <1>1, <1>3, <1>4 DEF Ordered
<1> QED BY <1>2, <1>4

-------------------------------------------------------------------------------
(* CombineAdjacentFreeNodes.                                               *)

Pairs(f, w) == {k \in 2 .. Len(w) : f.array[w[k - 1]].end = f.array[w[k]].start}
MergeFirst(g) ==
    LET walk == FreeList(g)
        pairs == {k \in 2 .. Len(walk) :
                    g.array[walk[k - 1]].end = g.array[walk[k]].start}
        k == Min(pairs)
    IN IF pairs = {} THEN g ELSE Merge(g, walk[k - 1], walk[k])

\* One round of the loop.
LEMMA MergeFirstStep ==
    ASSUME NEW f, NEW o, NEW w, Threaded(f, o, w)
    PROVE  \E v : /\ Threaded(MergeFirst(f), o, v)
                  /\ \A i \in ToSet(o) : SameBounds(f, MergeFirst(f), i)
                  /\ \/ Pairs(f, w) = {} /\ MergeFirst(f) = f /\ v = w
                     \/ Pairs(f, w) # {} /\ Len(v) = Len(w) - 1
                  /\ InOrder(f, o, w) =>
                        /\ InOrder(MergeFirst(f), o, v)
                        /\ FF!CombineAdjacentFreeNodes(RegionsIn(MergeFirst(f), v))
                             = FF!CombineAdjacentFreeNodes(RegionsIn(f, w))
<1> DEFINE k == Min(Pairs(f, w))
           g == MergeFirst(f)
<1>0. /\ o \in Seq(Nodes) /\ w \in Seq(Nodes) /\ Len(w) \in Nat /\ IsInjective(w)
      /\ DOMAIN w = 1 .. Len(w) /\ DOMAIN o = 1 .. Len(o)
      /\ \A j \in 1 .. Len(w) : w[j] \in Nodes /\ w[j] \in ToSet(w)
      /\ ToSet(o) \subseteq Nodes
    BY ThreadedFacts
<1>1. g = IF Pairs(f, w) = {} THEN f ELSE Merge(f, w[k - 1], w[k])
    <2>1. FreeList(f) = w
        BY Walks
    <2> QED BY <2>1 DEF MergeFirst, Pairs
<1>2. CASE Pairs(f, w) = {}
    <2>1. g = f
        BY <1>1, <1>2
    <2>2. \A i \in ToSet(o) : SameBounds(f, f, i)
        BY DEF SameBounds
    <2> HIDE DEF g
    <2> WITNESS w
    <2> QED BY <1>2, <2>1, <2>2 DEF g
<1>3. CASE Pairs(f, w) # {}
    <2>1. k \in Pairs(f, w)
        <3>1. Pairs(f, w) \in SUBSET Nat
            BY <1>0 DEF Pairs
        <3>2. \E m \in Pairs(f, w) : \A j \in Pairs(f, w) : m <= j
            BY <1>3, <3>1, LeastNatural
        <3> QED BY <3>2 DEF Min
    <2> HIDE DEF k
    <2>2. /\ k \in 2 .. Len(w) /\ k \in 1 .. Len(w) /\ k - 1 \in 1 .. Len(w)
          /\ f.array[w[k - 1]].end = f.array[w[k]].start
        <3>1. k \in 2 .. Len(w) /\ f.array[w[k - 1]].end = f.array[w[k]].start
            BY <2>1 DEF Pairs
        <3> QED BY <1>0, <3>1
    <2> DEFINE p == w[k - 1]
               n == w[k]
               v == RemovedAt(w, k)
    <2>3. g = Merge(f, p, n)
        BY <1>1, <1>3
    <2> HIDE DEF g
    <2>4. /\ Threaded(g, o, v)
          /\ g.array[p].start = f.array[p].start /\ g.array[p].end = f.array[n].end
          /\ \A i \in Nodes \ {p, n} : SameBounds(f, g, i)
        BY <2>2, <2>3, MergeNodes
    <2>5. /\ v \in Seq(Nodes) /\ Len(v) = Len(w) - 1 /\ ToSet(v) = ToSet(w) \ {n}
          /\ v = [j \in 1 .. Len(w) - 1 |-> IF j < k THEN w[j] ELSE w[j + 1]]
        BY <1>0, <2>2, Removed DEF RemovedAt
    <2>6. p \in ToSet(w) /\ n \in ToSet(w) /\ p \notin ToSet(o) /\ n \notin ToSet(o) /\ p # n
        BY <1>0, <2>2 DEF Threaded, IsInjective
    <2>7. \A i \in ToSet(o) : SameBounds(f, g, i)
        BY <1>0, <2>4, <2>6
    <2> HIDE DEF v
    <2>8. ASSUME InOrder(f, o, w)
          PROVE  /\ InOrder(g, o, v)
                 /\ FF!CombineAdjacentFreeNodes(RegionsIn(g, v))
                      = FF!CombineAdjacentFreeNodes(RegionsIn(f, w))
        <3>0. /\ \A j \in 1 .. Len(w) :
                    /\ f.array[w[j]].start \in Nat /\ f.array[w[j]].end \in Nat
                    /\ Start <= f.array[w[j]].start
                    /\ f.array[w[j]].start < f.array[w[j]].end
                    /\ f.array[w[j]].end <= End
              /\ \A i, j \in 1 .. Len(w) : i < j => f.array[w[i]].end <= f.array[w[j]].start
            BY <1>0, <2>8, OrderedFacts DEF InOrder
        <3> DEFINE m == [start |-> Bounds(f, p).start, end |-> Bounds(f, n).end]
        <3>1. Bounds(g, p) = m /\ m \in FF!Regions
            <4>1. /\ f.array[p].start \in Nat /\ f.array[n].end \in Nat
                  /\ Start <= f.array[p].start /\ f.array[p].start < f.array[p].end
                  /\ f.array[p].end <= f.array[n].start
                  /\ f.array[n].start < f.array[n].end /\ f.array[n].end <= End
                  /\ f.array[p].end \in Nat /\ f.array[n].start \in Nat
                BY <2>2, <3>0
            <4>2. f.array[p].start < f.array[n].end
                BY <4>1
            <4>3. m \in FF!Regions
                BY <4>1, <4>2 DEF Bounds, FF!Regions
            <4> QED BY <2>4, <4>3 DEF Bounds
        <3>2. \A i \in Nodes \ {p, n} : /\ Bounds(g, i) = Bounds(f, i)
                                       /\ g.array[i].start = f.array[i].start
                                       /\ g.array[i].end = f.array[i].end
            BY <2>4 DEF SameBounds, Bounds
        <3>3. Bounds(f, p) \in RegionsIn(f, w) /\ Bounds(f, n) \in RegionsIn(f, w)
              /\ Bounds(f, p).end = Bounds(f, n).start
            BY <2>2, <2>6 DEF RegionsIn, Bounds
        <3>4. /\ Separate(RegionsIn(f, w))
              /\ \A i, j \in ToSet(w) : Bounds(f, i) = Bounds(f, j) => i = j
            BY <1>0, <2>8, OrderedSeparate DEF InOrder
        <3>5. RegionsIn(g, v) = (RegionsIn(f, w) \ {Bounds(f, p), Bounds(f, n)}) \cup {m}
            <4> HIDE DEF m
            <4>1. ToSet(v) = (ToSet(w) \ {p, n}) \cup {p}
                BY <2>5, <2>6
            <4>2. RegionsIn(g, v) = {Bounds(g, i) : i \in ToSet(w) \ {p, n}} \cup {m}
                BY <3>1, <4>1 DEF RegionsIn
            <4>3. {Bounds(g, i) : i \in ToSet(w) \ {p, n}}
                    = {Bounds(f, i) : i \in ToSet(w) \ {p, n}}
                <5>1. ToSet(w) \subseteq Nodes
                    BY <1>0 DEF ToSet
                <5> QED BY <3>2, <5>1
            <4>4. {Bounds(f, i) : i \in ToSet(w) \ {p, n}}
                    = RegionsIn(f, w) \ {Bounds(f, p), Bounds(f, n)}
                BY <2>6, <3>4 DEF RegionsIn
            <4> QED BY <4>2, <4>3, <4>4
        <3>6. FF!CombineAdjacentFreeNodes(RegionsIn(g, v))
                = FF!CombineAdjacentFreeNodes(RegionsIn(f, w))
            BY <3>3, <3>4, <3>5, MergedPair
        <3>7. Ordered(g, o)
            BY <1>0, <2>7, <2>8, SameRegions DEF InOrder
        <3>8. \A j \in 1 .. Len(w) : j # k => w[j] # n
            BY <1>0, <2>2 DEF IsInjective
        <3>9. \A j \in 1 .. Len(w) : j # k /\ j # k - 1 => w[j] # p
            BY <1>0, <2>2 DEF IsInjective
        <3>10. \A j \in 1 .. Len(w) : j # k =>
                  /\ g.array[w[j]].start = f.array[w[j]].start
                  /\ Bounds(g, w[j]) \in FF!Regions
                  /\ j # k - 1 => g.array[w[j]].end = f.array[w[j]].end
            <4> SUFFICES ASSUME NEW j \in 1 .. Len(w), j # k
                         PROVE  /\ g.array[w[j]].start = f.array[w[j]].start
                                /\ Bounds(g, w[j]) \in FF!Regions
                                /\ j # k - 1 => g.array[w[j]].end = f.array[w[j]].end
                OBVIOUS
            <4>1. CASE j = k - 1
                BY <2>4, <3>1, <4>1
            <4>2. CASE j # k - 1
                <5>1. w[j] \in Nodes \ {p, n}
                    BY <1>0, <3>8, <3>9, <4>2
                <5>2. Bounds(f, w[j]) \in FF!Regions
                    BY <2>8 DEF InOrder, Ordered
                <5> QED BY <3>2, <5>1, <5>2
            <4> QED BY <4>1, <4>2
        <3>11. Ordered(g, v)
            <4>1. \A j \in 1 .. Len(v) : v[j] = IF j < k THEN w[j] ELSE w[j + 1]
                BY <2>5
            <4>2. ASSUME NEW j \in 1 .. Len(v) PROVE Bounds(g, v[j]) \in FF!Regions
                <5> DEFINE a == IF j < k THEN j ELSE j + 1
                <5>1. a \in 1 .. Len(w) /\ a # k /\ v[j] = w[a]
                    BY <1>0, <2>2, <2>5, <4>1
                <5> HIDE DEF a
                <5> QED BY <3>10, <5>1
            <4>3. ASSUME NEW i \in 1 .. Len(v), NEW j \in 1 .. Len(v), i < j
                  PROVE  g.array[v[i]].end <= g.array[v[j]].start
                <5> DEFINE a == IF i < k THEN i ELSE i + 1
                           b == IF j < k THEN j ELSE j + 1
                <5>1. a \in 1 .. Len(w) /\ b \in 1 .. Len(w) /\ a < b /\ a # k /\ b # k
                      /\ v[i] = w[a] /\ v[j] = w[b] /\ (a = k - 1 => k < b)
                    BY <1>0, <2>2, <2>5, <4>1, <4>3
                <5> HIDE DEF a, b
                <5>2. g.array[w[b]].start = f.array[w[b]].start
                    <6>1. b \in 1 .. Len(w) /\ b # k
                        BY <5>1
                    <6> QED BY <3>10, <6>1
                <5>3. CASE a = k - 1
                    <6>1. f.array[n].end <= f.array[w[b]].start
                        BY <2>2, <3>0, <5>1, <5>3
                    <6> QED BY <2>4, <5>1, <5>2, <5>3, <6>1
                <5>4. CASE a # k - 1
                    <6>1. a \in 1 .. Len(w) /\ a # k
                        BY <5>1
                    <6>2. g.array[w[a]].end = f.array[w[a]].end
                        BY <3>10, <5>4, <6>1
                    <6>3. f.array[w[a]].end <= f.array[w[b]].start
                        BY <3>0, <5>1
                    <6> QED BY <5>1, <5>2, <6>2, <6>3
                <5> QED BY <5>3, <5>4
            <4> QED BY <4>2, <4>3 DEF Ordered
        <3>12. Clear(g, o, v)
            <4> SUFFICES ASSUME NEW i \in ToSet(o), NEW j \in ToSet(v)
                         PROVE  \/ g.array[i].end <= g.array[j].start
                                \/ g.array[j].end <= g.array[i].start
                BY DEF Clear
            <4>1. g.array[i].start = f.array[i].start /\ g.array[i].end = f.array[i].end
                BY <2>7 DEF SameBounds
            <4>2. f.array[i].start \in Nat /\ f.array[i].end \in Nat
                  /\ f.array[i].start < f.array[i].end
                BY <1>0, <2>8, OrderedFacts DEF InOrder
            <4>3. \A q \in ToSet(w) : \/ f.array[i].end <= f.array[q].start
                                     \/ f.array[q].end <= f.array[i].start
                BY <2>8 DEF InOrder, Clear
            <4>4. CASE j = p
                <5>1. /\ f.array[p].start \in Nat /\ f.array[p].end \in Nat
                      /\ f.array[n].start \in Nat /\ f.array[n].end \in Nat
                    BY <2>2, <3>0
                <5>2. /\ \/ f.array[i].end <= f.array[p].start
                         \/ f.array[p].end <= f.array[i].start
                      /\ \/ f.array[i].end <= f.array[n].start
                         \/ f.array[n].end <= f.array[i].start
                    BY <2>6, <4>3
                <5>3. f.array[p].end = f.array[n].start
                    BY <2>2
                <5>4. \/ f.array[i].end <= f.array[p].start
                      \/ f.array[n].end <= f.array[i].start
                    <6> HIDE DEF p, n
                    <6> QED BY <4>2, <5>1, <5>2, <5>3
                <5> QED BY <2>4, <4>1, <4>4, <5>4
            <4>5. CASE j # p
                <5>1. j \in ToSet(w) /\ j \in Nodes \ {p, n}
                    <6>1. ToSet(w) \subseteq Nodes
                        BY <1>0 DEF ToSet
                    <6>2. j \in ToSet(w) /\ j # n /\ j # p
                        BY <2>5, <4>5
                    <6> QED BY <6>1, <6>2
                <5> QED BY <3>2, <4>1, <4>3, <5>1
            <4> QED BY <4>4, <4>5
        <3> QED BY <3>6, <3>7, <3>11, <3>12 DEF InOrder
    <2> WITNESS v
    <2> QED BY <1>3, <2>4, <2>5, <2>7, <2>8 DEF g
<1> QED BY <1>2, <1>3

\* Where no pair of neighbours touches, no two regions do.
LEMMA NoPairs ==
    ASSUME NEW f, NEW w \in Seq(Nodes), Ordered(f, w), Pairs(f, w) = {}
    PROVE  \A r, q \in RegionsIn(f, w) : r.end # q.start
<1>1. ASSUME NEW i \in ToSet(w), NEW j \in ToSet(w), f.array[i].end = f.array[j].start
      PROVE  FALSE
    <2>1. /\ \A k \in 1 .. Len(w) :
                /\ f.array[w[k]].start \in Nat /\ f.array[w[k]].end \in Nat
                /\ f.array[w[k]].start < f.array[w[k]].end
          /\ \A a, b \in 1 .. Len(w) : a < b => f.array[w[a]].end <= f.array[w[b]].start
          /\ Len(w) \in Nat
        BY OrderedFacts
    <2>2. PICK a \in 1 .. Len(w), b \in 1 .. Len(w) : i = w[a] /\ j = w[b]
        BY OrderedFacts
    <2>3. a < b
        <3>1. f.array[w[a]].end = f.array[w[b]].start
            BY <1>1, <2>2
        <3>2. /\ f.array[w[a]].start \in Nat /\ f.array[w[a]].end \in Nat
              /\ f.array[w[a]].start < f.array[w[a]].end
              /\ f.array[w[b]].start \in Nat /\ f.array[w[b]].end \in Nat
              /\ f.array[w[b]].start < f.array[w[b]].end
            BY <2>1
        <3>3. b < a => f.array[w[b]].end <= f.array[w[a]].start
            BY <2>1
        <3>4. ~(b < a)
            BY <3>1, <3>2, <3>3
        <3>5. a # b
            BY <3>1, <3>2
        <3> QED BY <2>1, <3>4, <3>5
    <2>4. CASE b = a + 1
        <3>1. b \in 2 .. Len(w) /\ b - 1 = a
            BY <2>1, <2>4
        <3>2. b \in Pairs(f, w)
            BY <1>1, <2>2, <3>1 DEF Pairs
        <3> QED BY <3>2
    <2>5. CASE a + 1 < b
        <3>1. a + 1 \in 1 .. Len(w) /\ a < a + 1
            BY <2>1, <2>5
        <3>2. /\ f.array[w[a]].end <= f.array[w[a + 1]].start
              /\ f.array[w[a + 1]].end <= f.array[w[b]].start
            BY <2>1, <2>5, <3>1
        <3> QED BY <1>1, <2>1, <2>2, <3>1, <3>2
    <2> QED BY <2>1, <2>3, <2>4, <2>5
<1> QED BY <1>1 DEF RegionsIn, Bounds

\* The values of the structure round by round.
Rounds(f, n, h) == h = [k \in 0 .. n |-> IF k = 0 THEN f ELSE MergeFirst(h[k - 1])]

LEMMA RoundsExist ==
    ASSUME NEW f, NEW n \in Nat
    PROVE  \E h : Rounds(f, n, h)
<1> DEFINE T == {k \in Nat : ~\E h : Rounds(f, k, h)}
<1> SUFFICES ASSUME T # {} PROVE FALSE
    OBVIOUS
<1>1. PICK m \in T : \A k \in T : m <= k
    <2>1. T \in SUBSET Nat
        OBVIOUS
    <2> HIDE DEF T
    <2> QED BY <2>1, LeastNatural
<1>2. CASE m = 0
    <2>1. Rounds(f, 0, [k \in 0 .. 0 |-> f])
        BY DEF Rounds
    <2> QED BY <1>2, <2>1
<1>3. CASE m # 0
    <2>1. m \in Nat /\ m - 1 \in Nat /\ m - 1 \notin T
        BY <1>1, <1>3
    <2>2. PICK h : Rounds(f, m - 1, h)
        BY <2>1
    <2> DEFINE e == [k \in 0 .. m |-> IF k = m THEN MergeFirst(h[m - 1]) ELSE h[k]]
    <2>3. \A k \in 0 .. m - 1 : h[k] = IF k = 0 THEN f ELSE MergeFirst(h[k - 1])
        BY <2>1, <2>2 DEF Rounds
    <2>4. \A k \in 0 .. m : e[k] = IF k = 0 THEN f ELSE MergeFirst(e[k - 1])
        <3> SUFFICES ASSUME NEW k \in 0 .. m
                     PROVE  e[k] = IF k = 0 THEN f ELSE MergeFirst(e[k - 1])
            OBVIOUS
        <3>1. CASE k = 0
            BY <1>3, <2>1, <2>3, <3>1
        <3>2. CASE k = m
            <4>1. k # 0 /\ k - 1 \in 0 .. m /\ k - 1 # m /\ k - 1 = m - 1
                BY <1>3, <2>1, <3>2
            <4>2. e[k] = MergeFirst(h[m - 1]) /\ e[k - 1] = h[m - 1]
                BY <3>2, <4>1
            <4> QED BY <4>1, <4>2
        <3>3. CASE k # 0 /\ k # m
            <4>1. k \in 0 .. m - 1 /\ k - 1 \in 0 .. m /\ k - 1 # m
                BY <2>1, <3>3
            <4>2. e[k] = h[k] /\ e[k - 1] = h[k - 1]
                BY <3>3, <4>1
            <4> QED BY <2>3, <3>3, <4>1, <4>2
        <3> QED BY <3>1, <3>2, <3>3
    <2>5. e = [k \in 0 .. m |-> e[k]]
        OBVIOUS
    <2> HIDE DEF e
    <2>6. Rounds(f, m, e)
        BY <2>4, <2>5 DEF Rounds
    <2> QED BY <2>6
<1> QED BY <1>2, <1>3

\* CombineAdjacentFreeNodes threads the same nodes but those it empties, leaves the
\* occupied regions alone, and leaves the free regions combined.
LEMMA CombineAll ==
    ASSUME NEW f, NEW o, NEW w, Threaded(f, o, w)
    PROVE  \E v : LET g == CombineAdjacentFreeNodes(f)
                  IN /\ Threaded(g, o, v)
                     /\ \A i \in ToSet(o) : SameBounds(f, g, i)
                     /\ InOrder(f, o, w) =>
                           /\ InOrder(g, o, v)
                           /\ RegionsIn(g, v)
                                = FF!CombineAdjacentFreeNodes(RegionsIn(f, w))
<1> DEFINE merged[k \in 0 .. TableLen] == IF k = 0 THEN f ELSE MergeFirst(merged[k - 1])
           Good(g, k, v) ==
                /\ Threaded(g, o, v)
                /\ \A i \in ToSet(o) : SameBounds(f, g, i)
                /\ Len(v) <= Len(w) - k \/ Pairs(g, v) = {}
                /\ InOrder(f, o, w) =>
                      /\ InOrder(g, o, v)
                      /\ FF!CombineAdjacentFreeNodes(RegionsIn(g, v))
                            = FF!CombineAdjacentFreeNodes(RegionsIn(f, w))
<1>1. CombineAdjacentFreeNodes(f) = merged[TableLen]
    BY DEF CombineAdjacentFreeNodes, MergeFirst
<1>2. Rounds(f, TableLen, merged)
    <2>1. \E h : Rounds(f, TableLen, h)
        BY RoundsExist, TableLenAssumption
    <2> QED BY <2>1 DEF Rounds
<1> HIDE DEF merged
<1>3. \A k \in 0 .. TableLen : merged[k] = IF k = 0 THEN f ELSE MergeFirst(merged[k - 1])
    BY <1>2 DEF Rounds
<1>4. TableLen \in Nat /\ Len(w) \in Nat /\ Len(w) <= TableLen
    BY TableLenAssumption, ChainFits, ThreadedFacts
<1>5. \A k \in 0 .. TableLen : \E v : Good(merged[k], k, v)
    <2> DEFINE T == {k \in 0 .. TableLen : ~\E v : Good(merged[k], k, v)}
    <2> SUFFICES ASSUME T # {} PROVE FALSE
        OBVIOUS
    <2>1. PICK m \in T : \A k \in T : m <= k
        <3>1. T \in SUBSET Nat
            BY <1>4
        <3> HIDE DEF T
        <3> QED BY <3>1, LeastNatural
    <2>2. CASE m = 0
        <3>1. merged[0] = f
            BY <1>3, <1>4
        <3>2. Good(f, 0, w)
            BY <1>4 DEF SameBounds
        <3> QED BY <2>2, <3>1, <3>2
    <2>3. CASE m # 0
        <3>1. m \in 0 .. TableLen /\ m - 1 \in 0 .. TableLen /\ m - 1 \notin T
            <4>1. m \in 0 .. TableLen
                OBVIOUS
            <4> HIDE DEF T
            <4> QED BY <1>4, <2>1, <2>3, <4>1
        <3>2. PICK v : Good(merged[m - 1], m - 1, v)
            BY <3>1
        <3> DEFINE e == merged[m - 1]
                   g == MergeFirst(e)
        <3>3. merged[m] = g
            BY <1>3, <2>3, <3>1
        <3> HIDE DEF e, g
        <3>4. /\ Threaded(e, o, v)
              /\ \A i \in ToSet(o) : SameBounds(f, e, i)
              /\ Len(v) <= Len(w) - (m - 1) \/ Pairs(e, v) = {}
              /\ InOrder(f, o, w) =>
                    /\ InOrder(e, o, v)
                    /\ FF!CombineAdjacentFreeNodes(RegionsIn(e, v))
                          = FF!CombineAdjacentFreeNodes(RegionsIn(f, w))
            BY <3>2 DEF e
        <3>5. PICK u : /\ Threaded(g, o, u)
                       /\ \A i \in ToSet(o) : SameBounds(e, g, i)
                       /\ \/ Pairs(e, v) = {} /\ g = e /\ u = v
                          \/ Pairs(e, v) # {} /\ Len(u) = Len(v) - 1
                       /\ InOrder(e, o, v) =>
                             /\ InOrder(g, o, u)
                             /\ FF!CombineAdjacentFreeNodes(RegionsIn(g, u))
                                  = FF!CombineAdjacentFreeNodes(RegionsIn(e, v))
            BY <3>4, MergeFirstStep DEF g
        <3>6. \A i \in ToSet(o) : SameBounds(f, g, i)
            BY <3>4, <3>5 DEF SameBounds
        <3>7. Len(u) <= Len(w) - m \/ Pairs(g, u) = {}
            <4>1. CASE Pairs(e, v) = {}
                BY <3>5, <4>1
            <4>2. CASE Pairs(e, v) # {}
                <5>1. Len(v) <= Len(w) - (m - 1) /\ Len(u) = Len(v) - 1
                    BY <3>4, <3>5, <4>2
                <5>2. Len(v) \in Nat /\ m \in Int
                    BY <1>4, <3>1, <3>4, ThreadedFacts
                <5>3. Len(u) <= Len(w) - m
                    BY <1>4, <5>1, <5>2
                <5> QED BY <5>3
            <4> QED BY <4>1, <4>2
        <3>8. InOrder(f, o, w) =>
                    /\ InOrder(g, o, u)
                    /\ FF!CombineAdjacentFreeNodes(RegionsIn(g, u))
                            = FF!CombineAdjacentFreeNodes(RegionsIn(f, w))
            BY <3>4, <3>5
        <3>9. Good(g, m, u)
            BY <3>5, <3>6, <3>7, <3>8
        <3> QED BY <3>3, <3>9
    <2> QED BY <2>2, <2>3
<1> DEFINE g == merged[TableLen]
<1>6. PICK v : Good(g, TableLen, v)
    BY <1>4, <1>5
<1> HIDE DEF g
<1>7. v \in Seq(Nodes) /\ Len(v) \in Nat
    BY <1>6, ThreadedFacts
<1>8. Pairs(g, v) = {}
    <2>1. CASE Len(v) <= Len(w) - TableLen
        <3>1. 2 .. Len(v) = {}
            BY <1>4, <1>7, <2>1
        <3> QED BY <3>1 DEF Pairs
    <2> QED BY <1>6, <2>1
<1>9. ASSUME InOrder(f, o, w)
      PROVE  RegionsIn(g, v) = FF!CombineAdjacentFreeNodes(RegionsIn(f, w))
    <2>1. Ordered(g, v)
        BY <1>6, <1>9 DEF InOrder
    <2>2. Separate(RegionsIn(g, v)) /\ \A r, q \in RegionsIn(g, v) : r.end # q.start
        BY <1>7, <1>8, <2>1, OrderedSeparate, NoPairs
    <2>3. FF!CombineAdjacentFreeNodes(RegionsIn(g, v)) = RegionsIn(g, v)
        BY <2>2, NothingToCombine
    <2> QED BY <1>6, <1>9, <2>3
<1>10. CombineAdjacentFreeNodes(f) = g
    BY <1>1 DEF g
<1> QED BY <1>6, <1>9, <1>10

-------------------------------------------------------------------------------
(* Sorted lists with one region more, one less, or one changed.            *)

Beside(f, i, j) ==
    f.array[i].end <= f.array[j].start \/ f.array[j].end <= f.array[i].start

LEMMA OrderedRemoved ==
    ASSUME NEW f, NEW w \in Seq(Nodes), IsInjective(w), Ordered(f, w),
           NEW k \in 1 .. Len(w), NEW g,
           \A i \in ToSet(w) \ {w[k]} : SameBounds(f, g, i)
    PROVE  /\ Ordered(g, RemovedAt(w, k))
           /\ RegionsIn(g, RemovedAt(w, k)) = RegionsIn(f, w) \ {Bounds(f, w[k])}
<1> DEFINE v == RemovedAt(w, k)
<1>1. /\ v \in Seq(Nodes) /\ Len(v) = Len(w) - 1 /\ ToSet(v) = ToSet(w) \ {w[k]}
      /\ Len(w) \in Nat
      /\ \A j \in 1 .. Len(v) : v[j] = IF j < k THEN w[j] ELSE w[j + 1]
    <2>1. v \in Seq(Nodes) /\ Len(v) = Len(w) - 1 /\ ToSet(v) = ToSet(w) \ {w[k]}
        BY Removed
    <2>2. v = [j \in 1 .. Len(w) - 1 |-> IF j < k THEN w[j] ELSE w[j + 1]]
        BY DEF RemovedAt
    <2> HIDE DEF v
    <2> QED BY <2>1, <2>2
<1> HIDE DEF v
<1>2. \A i \in ToSet(v) : SameBounds(f, g, i)
    BY <1>1
<1>3. Ordered(f, v)
    <2>1. ASSUME NEW i \in 1 .. Len(v) PROVE Bounds(f, v[i]) \in FF!Regions
        <3> DEFINE a == IF i < k THEN i ELSE i + 1
        <3>1. a \in 1 .. Len(w) /\ v[i] = w[a]
            BY <1>1
        <3> HIDE DEF a
        <3> QED BY <3>1 DEF Ordered
    <2>2. ASSUME NEW i \in 1 .. Len(v), NEW j \in 1 .. Len(v), i < j
          PROVE  f.array[v[i]].end <= f.array[v[j]].start
        <3> DEFINE a == IF i < k THEN i ELSE i + 1
                   b == IF j < k THEN j ELSE j + 1
        <3>1. a \in 1 .. Len(w) /\ b \in 1 .. Len(w) /\ a < b /\ v[i] = w[a] /\ v[j] = w[b]
            BY <1>1, <2>2
        <3> HIDE DEF a, b
        <3> QED BY <3>1 DEF Ordered
    <2> QED BY <2>1, <2>2 DEF Ordered
<1>4. Ordered(g, v) /\ RegionsIn(g, v) = RegionsIn(f, v)
    BY <1>1, <1>2, <1>3, SameRegions
<1>5. RegionsIn(f, v) = RegionsIn(f, w) \ {Bounds(f, w[k])}
    <2>1. \A i, j \in ToSet(w) : Bounds(f, i) = Bounds(f, j) => i = j
        BY OrderedSeparate
    <2>2. w[k] \in ToSet(w)
        BY DEF ToSet
    <2> QED BY <1>1, <2>1, <2>2 DEF RegionsIn
<1> QED BY <1>4, <1>5 DEF v

LEMMA OrderedInserted ==
    ASSUME NEW f, NEW w \in Seq(Nodes), IsInjective(w), Ordered(f, w),
           NEW x \in Nodes \ ToSet(w), NEW g,
           \A i \in ToSet(w) : SameBounds(f, g, i) /\ Beside(g, i, x),
           Bounds(g, x) \in FF!Regions,
           NEW k, k = InsertPosition(f, w, g.array[x].start)
    PROVE  /\ Ordered(g, InsertedAt(w, k, x))
           /\ RegionsIn(g, InsertedAt(w, k, x)) = RegionsIn(f, w) \cup {Bounds(g, x)}
<1> DEFINE v == InsertedAt(w, k, x)
<1>1. /\ k \in 1 .. Len(w) + 1
      /\ \A j \in 1 .. Len(w) : j < k => ~(f.array[w[j]].start > g.array[x].start)
      /\ k \in 1 .. Len(w) => f.array[w[k]].start > g.array[x].start
    BY InsertPositionFacts
<1>2. /\ v \in Seq(Nodes) /\ Len(v) = Len(w) + 1 /\ ToSet(v) = ToSet(w) \cup {x}
      /\ Len(w) \in Nat
      /\ \A j \in 1 .. Len(v) :
            v[j] = IF j < k THEN w[j] ELSE IF j = k THEN x ELSE w[j - 1]
    <2>1. /\ v \in Seq(Nodes) /\ Len(v) = Len(w) + 1 /\ ToSet(v) = ToSet(w) \cup {x}
        BY <1>1, Inserted
    <2>2. v = [j \in 1 .. Len(w) + 1 |->
                    IF j < k THEN w[j] ELSE IF j = k THEN x ELSE w[j - 1]]
        BY DEF InsertedAt
    <2> HIDE DEF v
    <2> QED BY <2>1, <2>2
<1> HIDE DEF v
<1>3. /\ g.array[x].start \in Nat /\ g.array[x].end \in Nat
      /\ g.array[x].start < g.array[x].end
    BY BoundsFacts
<1>4. Ordered(g, w) /\ RegionsIn(g, w) = RegionsIn(f, w)
    BY SameRegions
<1>5. /\ \A j \in 1 .. Len(w) :
            /\ w[j] \in ToSet(w)
            /\ g.array[w[j]].start \in Nat /\ g.array[w[j]].end \in Nat
            /\ g.array[w[j]].start < g.array[w[j]].end
            /\ g.array[w[j]].start = f.array[w[j]].start
      /\ \A i, j \in 1 .. Len(w) : i < j => g.array[w[i]].end <= g.array[w[j]].start
    BY <1>4, OrderedFacts DEF ToSet, SameBounds
\* The new region is after the ones before position k, and before the others.
<1>6. ASSUME NEW j \in 1 .. Len(w), j < k PROVE g.array[w[j]].end <= g.array[x].start
    <2>1. g.array[w[j]].start <= g.array[x].start
        BY <1>1, <1>3, <1>5, <1>6
    <2>2. Beside(g, w[j], x)
        BY <1>5
    <2> QED BY <1>3, <1>5, <2>1, <2>2 DEF Beside
<1>7. ASSUME NEW j \in 1 .. Len(w), k <= j PROVE g.array[x].end <= g.array[w[j]].start
    <2>1. k \in 1 .. Len(w) /\ g.array[w[k]].start > g.array[x].start
        BY <1>1, <1>5, <1>7
    <2>2. Beside(g, w[k], x)
        BY <1>5, <2>1
    <2>3. g.array[x].end <= g.array[w[k]].start
        BY <1>3, <1>5, <2>1, <2>2 DEF Beside
    <2>4. CASE j = k
        BY <2>3, <2>4
    <2>5. CASE k < j
        <3>1. g.array[w[k]].end <= g.array[w[j]].start
            BY <1>5, <2>1, <2>5
        <3> QED BY <1>3, <1>5, <2>1, <2>3, <3>1
    <2> QED BY <1>1, <1>7, <2>4, <2>5
<1>8. ASSUME NEW i \in 1 .. Len(v) PROVE Bounds(g, v[i]) \in FF!Regions
    <2>1. CASE i = k
        BY <1>2, <2>1
    <2>2. CASE i # k
        <3> DEFINE a == IF i < k THEN i ELSE i - 1
        <3>1. a \in 1 .. Len(w) /\ v[i] = w[a]
            BY <1>1, <1>2, <2>2
        <3> HIDE DEF a
        <3> QED BY <1>4, <3>1 DEF Ordered
    <2> QED BY <2>1, <2>2
<1>9. ASSUME NEW i \in 1 .. Len(v), NEW j \in 1 .. Len(v), i < j
      PROVE  g.array[v[i]].end <= g.array[v[j]].start
    <2>1. CASE i = k
        <3>1. j - 1 \in 1 .. Len(w) /\ k <= j - 1 /\ v[i] = x /\ v[j] = w[j - 1]
            BY <1>1, <1>2, <1>9, <2>1
        <3> QED BY <1>7, <3>1
    <2>2. CASE j = k
        <3>1. i \in 1 .. Len(w) /\ i < k /\ v[j] = x /\ v[i] = w[i]
            BY <1>1, <1>2, <1>9, <2>2
        <3> QED BY <1>6, <3>1
    <2>3. CASE i # k /\ j # k
        <3> DEFINE a == IF i < k THEN i ELSE i - 1
                   b == IF j < k THEN j ELSE j - 1
        <3>1. a \in 1 .. Len(w) /\ b \in 1 .. Len(w) /\ a < b /\ v[i] = w[a] /\ v[j] = w[b]
            BY <1>1, <1>2, <1>9, <2>3
        <3> HIDE DEF a, b
        <3> QED BY <1>5, <3>1
    <2> QED BY <2>1, <2>2, <2>3
<1>10. Ordered(g, v)
    BY <1>8, <1>9 DEF Ordered
<1>11. RegionsIn(g, v) = RegionsIn(f, w) \cup {Bounds(g, x)}
    <2>1. RegionsIn(g, v) = RegionsIn(g, w) \cup {Bounds(g, x)}
        BY <1>2 DEF RegionsIn
    <2> QED BY <1>4, <2>1
<1> QED BY <1>10, <1>11 DEF v

\* A region from s to e that lies before xs still lies before the region from ys to
\* ye that takes the place of the one at xs, if the new one is beside it ...
LEMMA BeforeStays ==
    ASSUME NEW s \in Nat, NEW e \in Nat, NEW xs \in Nat, NEW ys \in Nat, NEW ye \in Nat,
           s < e, e <= xs, xs < ye, e <= ys \/ ye <= s
    PROVE  e <= ys
OBVIOUS

\* ... and so does one behind xe.
LEMMA BehindStays ==
    ASSUME NEW s \in Nat, NEW e \in Nat, NEW xe \in Nat, NEW ys \in Nat, NEW ye \in Nat,
           s < e, xe <= s, ys < xe, e <= ys \/ ye <= s
    PROVE  ye <= s
OBVIOUS

\* A region may grow or shrink in its place as long as it stays beside the others.
LEMMA OrderedChanged ==
    ASSUME NEW f, NEW w \in Seq(Nodes), IsInjective(w), Ordered(f, w),
           NEW k \in 1 .. Len(w), NEW g,
           \A i \in ToSet(w) \ {w[k]} : SameBounds(f, g, i) /\ Beside(g, i, w[k]),
           Bounds(g, w[k]) \in FF!Regions,
           g.array[w[k]].start < f.array[w[k]].end,
           f.array[w[k]].start < g.array[w[k]].end
    PROVE  /\ Ordered(g, w)
           /\ RegionsIn(g, w)
                = (RegionsIn(f, w) \ {Bounds(f, w[k])}) \cup {Bounds(g, w[k])}
<1> DEFINE x == w[k]
<1>1. /\ \A j \in 1 .. Len(w) :
            /\ w[j] \in ToSet(w)
            /\ f.array[w[j]].start \in Nat /\ f.array[w[j]].end \in Nat
            /\ f.array[w[j]].start < f.array[w[j]].end
      /\ \A i, j \in 1 .. Len(w) : i < j => f.array[w[i]].end <= f.array[w[j]].start
      /\ Len(w) \in Nat
    BY OrderedFacts DEF ToSet
<1>2. \A j \in 1 .. Len(w) : j # k => w[j] # x
    BY DEF IsInjective
<1>3. /\ g.array[x].start \in Nat /\ g.array[x].end \in Nat
      /\ g.array[x].start < g.array[x].end
    BY BoundsFacts
<1>4. /\ f.array[x].start \in Nat /\ f.array[x].end \in Nat /\ x \in ToSet(w)
      /\ g.array[x].start < f.array[x].end /\ f.array[x].start < g.array[x].end
    BY <1>1
<1>5. ASSUME NEW j \in 1 .. Len(w), j # k
      PROVE  /\ g.array[w[j]].start = f.array[w[j]].start
             /\ g.array[w[j]].end = f.array[w[j]].end
             /\ Bounds(g, w[j]) \in FF!Regions
             /\ \/ f.array[w[j]].end <= g.array[x].start
                \/ g.array[x].end <= f.array[w[j]].start
    <2>1. w[j] \in ToSet(w) \ {w[k]}
        BY <1>1, <1>2, <1>5
    <2>2. SameBounds(f, g, w[j]) /\ Beside(g, w[j], w[k])
        BY <2>1
    <2>3. Bounds(f, w[j]) \in FF!Regions
        BY DEF Ordered
    <2> QED BY <2>2, <2>3 DEF SameBounds, Beside, Bounds
<1>6. ASSUME NEW j \in 1 .. Len(w), j < k PROVE g.array[w[j]].end <= g.array[x].start
    <2>1. f.array[w[j]].end <= f.array[x].start
        BY <1>1, <1>6
    <2>2. /\ g.array[w[j]].start = f.array[w[j]].start
          /\ g.array[w[j]].end = f.array[w[j]].end
          /\ \/ f.array[w[j]].end <= g.array[x].start
             \/ g.array[x].end <= f.array[w[j]].start
        BY <1>1, <1>5, <1>6
    <2>3. /\ f.array[w[j]].start \in Nat /\ f.array[w[j]].end \in Nat
          /\ f.array[w[j]].start < f.array[w[j]].end
        BY <1>1
    <2> HIDE DEF x
    <2>4. f.array[w[j]].end <= g.array[x].start
        BY <1>3, <1>4, <2>1, <2>2, <2>3, BeforeStays
    <2> QED BY <2>2, <2>4
<1>7. ASSUME NEW j \in 1 .. Len(w), k < j PROVE g.array[x].end <= g.array[w[j]].start
    <2>1. f.array[x].end <= f.array[w[j]].start
        BY <1>1, <1>7
    <2>2. /\ g.array[w[j]].start = f.array[w[j]].start
          /\ \/ f.array[w[j]].end <= g.array[x].start
             \/ g.array[x].end <= f.array[w[j]].start
        BY <1>5, <1>7
    <2>3. /\ f.array[w[j]].start \in Nat /\ f.array[w[j]].end \in Nat
          /\ f.array[w[j]].start < f.array[w[j]].end
        BY <1>1
    <2> HIDE DEF x
    <2>4. g.array[x].end <= f.array[w[j]].start
        BY <1>3, <1>4, <2>1, <2>2, <2>3, BehindStays
    <2> QED BY <2>2, <2>4
<1>8. ASSUME NEW i \in 1 .. Len(w), NEW j \in 1 .. Len(w), i < j
      PROVE  g.array[w[i]].end <= g.array[w[j]].start
    <2>1. CASE i = k
        BY <1>7, <1>8, <2>1
    <2>2. CASE j = k
        BY <1>6, <1>8, <2>2
    <2>3. CASE i # k /\ j # k
        BY <1>1, <1>5, <1>8, <2>3
    <2> QED BY <2>1, <2>2, <2>3
<1>9. \A j \in 1 .. Len(w) : Bounds(g, w[j]) \in FF!Regions
    BY <1>5
<1>10. Ordered(g, w)
    BY <1>8, <1>9 DEF Ordered
<1>11. RegionsIn(g, w) = (RegionsIn(f, w) \ {Bounds(f, x)}) \cup {Bounds(g, x)}
    <2>1. \A i, j \in ToSet(w) : Bounds(f, i) = Bounds(f, j) => i = j
        BY OrderedSeparate
    <2>2. \A i \in ToSet(w) \ {x} : Bounds(g, i) = Bounds(f, i)
        BY DEF SameBounds, Bounds
    <2> HIDE DEF x
    <2>3. RegionsIn(f, w) \ {Bounds(f, x)} = {Bounds(f, i) : i \in ToSet(w) \ {x}}
        BY <1>4, <2>1 DEF RegionsIn
    <2>4. RegionsIn(g, w) = {Bounds(g, i) : i \in ToSet(w) \ {x}} \cup {Bounds(g, x)}
        BY <1>4 DEF RegionsIn
    <2>5. {Bounds(g, i) : i \in ToSet(w) \ {x}} = {Bounds(f, i) : i \in ToSet(w) \ {x}}
        BY <2>2
    <2> QED BY <2>3, <2>4, <2>5
<1> QED BY <1>10, <1>11

-------------------------------------------------------------------------------
(* What the walks find, in terms of the regions of FirstFit.               *)

\* The first node of a sorted list that passes a test has the lowest region that
\* does.
LEMMA FirstIsLowest ==
    ASSUME NEW f, NEW w \in Seq(Nodes), Ordered(f, w), NEW S \in SUBSET RegionsIn(f, w),
           NEW k \in 1 .. Len(w), Bounds(f, w[k]) \in S,
           \A j \in 1 .. Len(w) : j < k => Bounds(f, w[j]) \notin S
    PROVE  FF!Lowest(S) = Bounds(f, w[k])
<1>0. /\ \A j \in 1 .. Len(w) :
            /\ f.array[w[j]].start \in Nat /\ f.array[w[j]].end \in Nat
            /\ f.array[w[j]].start < f.array[w[j]].end
      /\ \A i, j \in 1 .. Len(w) : i < j => f.array[w[i]].end <= f.array[w[j]].start
      /\ \A i \in ToSet(w) : \E j \in 1 .. Len(w) : i = w[j]
    BY OrderedFacts
<1> DEFINE r == Bounds(f, w[k])
<1>1. ASSUME NEW q \in S, q # r PROVE r.start < q.start /\ q.start \in Nat
    <2>1. PICK j \in 1 .. Len(w) : q = Bounds(f, w[j])
        BY <1>0 DEF RegionsIn
    <2>2. k < j
        BY <1>1, <2>1
    <2>3. /\ f.array[w[k]].end <= f.array[w[j]].start
          /\ f.array[w[k]].start < f.array[w[k]].end
          /\ f.array[w[k]].start \in Nat /\ f.array[w[k]].end \in Nat
          /\ f.array[w[j]].start \in Nat
        BY <1>0, <2>2
    <2>4. q.start = f.array[w[j]].start /\ r.start = f.array[w[k]].start
        BY <2>1 DEF Bounds
    <2> HIDE DEF r
    <2> QED BY <2>3, <2>4
<1>2. r.start \in Nat /\ r \in S
    BY <1>0 DEF Bounds
<1> HIDE DEF r
<1>3. \A q \in S : q = r \/ (r.start < q.start /\ q.start \in Nat)
    BY <1>1
<1>4. \A q \in S : r.start <= q.start
    BY <1>2, <1>3
<1>5. \A q \in S : (\A p \in S : q.start <= p.start) => q = r
    BY <1>2, <1>3
<1> QED BY <1>2, <1>4, <1>5 DEF FF!Lowest, r

\* The number of regions of a list is the number of its nodes.
LEMMA ListCardinality ==
    ASSUME NEW f, NEW w \in Seq(Nodes), Ordered(f, w)
    PROVE  /\ IsFiniteSet(ToSet(w)) /\ IsFiniteSet(RegionsIn(f, w))
           /\ Cardinality(RegionsIn(f, w)) = Cardinality(ToSet(w))
<1>1. IsFiniteSet(Nodes) /\ ToSet(w) \subseteq Nodes
    <2>1. 0 \in Int /\ TableLen - 1 \in Int
        BY TableLenAssumption
    <2>2. IsFiniteSet(0 .. TableLen - 1)
        BY <2>1, FS_Interval
    <2>3. ToSet(w) \subseteq Nodes
        BY DEF ToSet
    <2> QED BY <2>2, <2>3 DEF Nodes
<1>2. IsFiniteSet(ToSet(w))
    BY <1>1, FS_Subset
<1> DEFINE b == [i \in ToSet(w) |-> Bounds(f, i)]
<1>3. b \in Bijection(ToSet(w), RegionsIn(f, w))
    <2>1. \A i, j \in ToSet(w) : Bounds(f, i) = Bounds(f, j) => i = j
        BY OrderedSeparate
    <2>2. b \in [ToSet(w) -> RegionsIn(f, w)]
        BY DEF RegionsIn
    <2>3. \A r \in RegionsIn(f, w) : \E i \in ToSet(w) : b[i] = r
        BY DEF RegionsIn
    <2>4. b \in Surjection(ToSet(w), RegionsIn(f, w))
        BY <2>2, <2>3 DEF Surjection
    <2>5. b \in Injection(ToSet(w), RegionsIn(f, w))
        BY <2>1, <2>2 DEF Injection, IsInjective
    <2> QED BY <2>4, <2>5 DEF Bijection
<1> HIDE DEF b
<1>4. ExistsBijection(ToSet(w), RegionsIn(f, w))
    BY <1>3 DEF ExistsBijection
<1> QED BY <1>2, <1>4, FS_Bijection

LEMMA SameCardinality == \A S : FF!Cardinality(S) = Cardinality(S)
BY DEF FF!Cardinality, Cardinality

\* FindFreeNode finds a node just if the lists have fewer regions than the table
\* has nodes.
LEMMA NodeLeftIff ==
    ASSUME NEW f, NEW o, NEW w, Threaded(f, o, w), Ordered(f, o), Ordered(f, w)
    PROVE  FF!NodeLeft(RegionsIn(f, w), RegionsIn(f, o)) <=> FindFreeNode(f) # NIL
<1>1. /\ o \in Seq(Nodes) /\ w \in Seq(Nodes)
      /\ ToSet(o) \cap ToSet(w) = {} /\ ToSet(o) \cup ToSet(w) = UsedNodes(f)
    BY ThreadedFacts DEF Threaded
<1>2. /\ IsFiniteSet(ToSet(o)) /\ IsFiniteSet(ToSet(w))
      /\ Cardinality(RegionsIn(f, w)) = Cardinality(ToSet(w))
      /\ Cardinality(RegionsIn(f, o)) = Cardinality(ToSet(o))
    BY <1>1, ListCardinality
<1>3. /\ IsFiniteSet(UsedNodes(f))
      /\ Cardinality(UsedNodes(f)) = Cardinality(ToSet(o)) + Cardinality(ToSet(w))
    <2>1. /\ IsFiniteSet(ToSet(o) \cup ToSet(w))
          /\ Cardinality(ToSet(o) \cup ToSet(w)) =
                Cardinality(ToSet(o)) + Cardinality(ToSet(w))
                    - Cardinality(ToSet(o) \cap ToSet(w))
        BY <1>2, FS_Union
    <2>2. /\ Cardinality(ToSet(o) \cap ToSet(w)) = 0
          /\ Cardinality(ToSet(o)) \in Nat /\ Cardinality(ToSet(w)) \in Nat
        BY <1>1, <1>2, FS_EmptySet, FS_CardinalityType
    <2>3. UsedNodes(f) = ToSet(o) \cup ToSet(w)
        BY <1>1
    <2> HIDE DEF UsedNodes
    <2> QED BY <2>1, <2>2, <2>3
<1>4. IsFiniteSet(Nodes) /\ Cardinality(Nodes) = TableLen /\ TableLen \in Nat
    BY TableLenAssumption, FS_Interval DEF Nodes
<1>5. UsedNodes(f) \subseteq Nodes
    BY DEF UsedNodes
<1>8. FF!NodeLeft(RegionsIn(f, w), RegionsIn(f, o))
            <=> Cardinality(UsedNodes(f)) < TableLen
    <2>1. Cardinality(ToSet(o)) \in Nat /\ Cardinality(ToSet(w)) \in Nat
        BY <1>2, FS_CardinalityType
    <2>2. FF!NodeLeft(RegionsIn(f, w), RegionsIn(f, o))
            <=> Cardinality(ToSet(w)) + Cardinality(ToSet(o)) < TableLen
        BY <1>2, SameCardinality DEF FF!NodeLeft
    <2> QED BY <1>3, <1>4, <2>1, <2>2
<1>6. CASE FindFreeNode(f) = NIL
    <2>1. UsedNodes(f) = Nodes
        BY <1>6, UnusedNode DEF NIL, Nodes
    <2> QED BY <1>6, <1>8, <2>1, <1>4
<1>7. CASE FindFreeNode(f) # NIL
    <2>1. UsedNodes(f) # Nodes
        BY <1>7, UnusedNode
    <2>2. Cardinality(UsedNodes(f)) < TableLen
        <3>1. /\ Cardinality(UsedNodes(f)) <= Cardinality(Nodes)
              /\ Cardinality(UsedNodes(f)) = Cardinality(Nodes) => UsedNodes(f) = Nodes
            BY <1>4, <1>5, FS_Subset
        <3>2. Cardinality(UsedNodes(f)) \in Nat
            BY <1>3, FS_CardinalityType
        <3> QED BY <1>4, <2>1, <3>1, <3>2
    <2> QED BY <1>7, <1>8, <2>2
<1> QED BY <1>6, <1>7

-------------------------------------------------------------------------------
(* Allocate.                                                               *)

LEMMA OrderedBeside ==
    ASSUME NEW f, NEW w \in Seq(Nodes), Ordered(f, w),
           NEW i \in ToSet(w), NEW j \in ToSet(w), i # j
    PROVE  Beside(f, i, j) /\ Beside(f, j, i)
<1>1. PICK a \in 1 .. Len(w), b \in 1 .. Len(w) : i = w[a] /\ j = w[b]
    BY OrderedFacts
<1>2. a < b \/ b < a
    BY <1>1
<1>3. f.array[i].end <= f.array[j].start \/ f.array[j].end <= f.array[i].start
    BY <1>1, <1>2, OrderedFacts
<1> QED BY <1>3 DEF Beside

LEMMA ClearBeside ==
    ASSUME NEW f, NEW o, NEW w, Clear(f, o, w), NEW i \in ToSet(o), NEW j \in ToSet(w)
    PROVE  Beside(f, i, j) /\ Beside(f, j, i)
BY DEF Clear, Beside

\* The bounds of a node of a sorted list.
LEMMA NodeBounds ==
    ASSUME NEW f, NEW w \in Seq(Nodes), Ordered(f, w), NEW i \in ToSet(w)
    PROVE  /\ Bounds(f, i) \in FF!Regions
           /\ f.array[i].start \in Nat /\ f.array[i].end \in Nat
           /\ Start <= f.array[i].start /\ f.array[i].start < f.array[i].end
           /\ f.array[i].end <= End
<1>1. PICK k \in 1 .. Len(w) : i = w[k]
    BY OrderedFacts
<1>2. Bounds(f, i) \in FF!Regions
    BY <1>1 DEF Ordered
<1> QED BY <1>2, BoundsFacts

\* An exact fit changes lists.
LEMMA MovedInOrder ==
    ASSUME NEW f, NEW o, NEW w, Threaded(f, o, w), InOrder(f, o, w),
           NEW k \in 1 .. Len(w), NEW g, \A i \in Nodes : SameBounds(f, g, i)
    PROVE  LET n == w[k]
               u == InsertedAt(o, InsertPosition(f, o, f.array[n].start), n)
               v == RemovedAt(w, k)
           IN /\ InOrder(g, u, v)
              /\ RegionsIn(g, v) = RegionsIn(f, w) \ {Bounds(f, n)}
              /\ RegionsIn(g, u) = RegionsIn(f, o) \cup {Bounds(f, n)}
<1> DEFINE n == w[k]
           p == InsertPosition(f, o, f.array[n].start)
           u == InsertedAt(o, p, n)
           v == RemovedAt(w, k)
<1>0. /\ o \in Seq(Nodes) /\ w \in Seq(Nodes) /\ IsInjective(o) /\ IsInjective(w)
      /\ ToSet(o) \subseteq Nodes /\ ToSet(w) \subseteq Nodes
      /\ n \in ToSet(w) /\ n \in Nodes
    BY ThreadedFacts
<1>1. Ordered(f, o) /\ Ordered(f, w) /\ Clear(f, o, w) /\ n \notin ToSet(o)
    BY <1>0 DEF InOrder, Threaded
<1>2. \A i \in Nodes : /\ g.array[i].start = f.array[i].start
                      /\ g.array[i].end = f.array[i].end
                      /\ Bounds(g, i) = Bounds(f, i)
    BY DEF SameBounds, Bounds
<1>3. \A i, j \in Nodes : Beside(g, i, j) <=> Beside(f, i, j)
    BY <1>2 DEF Beside
<1>4. Ordered(g, v) /\ RegionsIn(g, v) = RegionsIn(f, w) \ {Bounds(f, n)}
    BY <1>0, <1>1, OrderedRemoved
<1>5. Ordered(g, u) /\ RegionsIn(g, u) = RegionsIn(f, o) \cup {Bounds(f, n)}
    <2>1. \A i \in ToSet(o) : SameBounds(f, g, i) /\ Beside(g, i, n)
        BY <1>0, <1>1, <1>3, ClearBeside
    <2>2. Bounds(g, n) \in FF!Regions
        BY <1>0, <1>1, <1>2, NodeBounds
    <2>3. p = InsertPosition(f, o, g.array[n].start)
        BY <1>0, <1>2
    <2>4. n \in Nodes \ ToSet(o)
        BY <1>0, <1>1
    <2> HIDE DEF n, p
    <2>5. /\ Ordered(g, InsertedAt(o, p, n))
          /\ RegionsIn(g, InsertedAt(o, p, n)) = RegionsIn(f, o) \cup {Bounds(g, n)}
        <3>1. o \in Seq(Nodes) /\ IsInjective(o) /\ Ordered(f, o)
            BY <1>0, <1>1
        <3> QED BY <2>1, <2>2, <2>3, <2>4, <3>1, OrderedInserted
    <2> QED BY <1>0, <1>2, <2>5
<1>6. ToSet(u) = ToSet(o) \cup {n} /\ ToSet(v) = ToSet(w) \ {n}
    <2>1. p \in 1 .. Len(o) + 1
        BY <1>0, InsertPositionFacts
    <2>2. ToSet(v) = ToSet(w) \ {n}
        BY <1>0, Removed
    <2>3. n \in Nodes \ ToSet(o)
        BY <1>0, <1>1
    <2> HIDE DEF n, p
    <2>4. ToSet(u) = ToSet(o) \cup {n}
        BY <1>0, <2>1, <2>3, Inserted
    <2> QED BY <2>2, <2>4
<1>7. Clear(g, u, v)
    <2> SUFFICES ASSUME NEW i \in ToSet(u), NEW j \in ToSet(v) PROVE Beside(g, i, j)
        BY DEF Clear, Beside
    <2>1. i \in Nodes /\ j \in ToSet(w) /\ j \in Nodes /\ j # n
        BY <1>0, <1>6
    <2>2. CASE i = n
        BY <1>0, <1>1, <1>3, <2>1, <2>2, OrderedBeside
    <2>3. CASE i \in ToSet(o)
        BY <1>1, <1>3, <2>1, <2>3, ClearBeside
    <2> QED BY <1>6, <2>2, <2>3
<1> QED BY <1>4, <1>5, <1>7 DEF InOrder

\* A larger region is split: its first bytes go to node x, the rest stays.
SplitAt(f, g, n, x, size) ==
    /\ size \in Nat /\ 0 < size /\ size < f.array[n].end - f.array[n].start
    /\ \A i \in Nodes \ {x, n} : SameBounds(f, g, i)
    /\ g.array[x].start = f.array[n].start
    /\ g.array[x].end = f.array[n].start + size
    /\ g.array[n].start = f.array[n].start + size
    /\ g.array[n].end = f.array[n].end

SplitResult(f, g, o, w, n, x, size) ==
    LET r == Bounds(f, n)
        u == InsertedAt(o, InsertPosition(f, o, f.array[n].start), x)
    IN /\ InOrder(g, u, w)
       /\ RegionsIn(g, w) = (RegionsIn(f, w) \ {r}) \cup {FF!Rest(r, size)}
       /\ RegionsIn(g, u) = RegionsIn(f, o) \cup {FF!Region(r.start, size)}

LEMMA SplitInOrder ==
    ASSUME NEW f, NEW o, NEW w, Threaded(f, o, w), InOrder(f, o, w),
           NEW k \in 1 .. Len(w), NEW g, NEW size, NEW x \in Nodes \ UsedNodes(f),
           SplitAt(f, g, w[k], x, size)
    PROVE  SplitResult(f, g, o, w, w[k], x, size)
<1> DEFINE n == w[k]
           r == Bounds(f, n)
           p == InsertPosition(f, o, f.array[n].start)
           u == InsertedAt(o, p, x)
<1>0. /\ o \in Seq(Nodes) /\ w \in Seq(Nodes) /\ IsInjective(o) /\ IsInjective(w)
      /\ ToSet(o) \subseteq Nodes /\ ToSet(w) \subseteq Nodes
      /\ n \in ToSet(w) /\ n \in Nodes
    BY ThreadedFacts
<1>1. /\ Ordered(f, o) /\ Ordered(f, w) /\ Clear(f, o, w)
      /\ n \notin ToSet(o) /\ x \notin ToSet(o) /\ x \notin ToSet(w) /\ x # n
    BY <1>0 DEF InOrder, Threaded
<1>2. /\ f.array[n].start \in Nat /\ f.array[n].end \in Nat
      /\ Start <= f.array[n].start /\ f.array[n].end <= End
    BY <1>0, <1>1, NodeBounds
<1> DEFINE a == f.array[n].start
           b == f.array[n].end
<1>12. SplitAt(f, g, n, x, size)
    OBVIOUS
<1>3. /\ a \in Nat /\ b \in Nat /\ a + size \in Nat /\ a < a + size /\ a + size < b
      /\ Start <= a /\ b <= End
      /\ g.array[x].start = a /\ g.array[x].end = a + size
      /\ g.array[n].start = a + size /\ g.array[n].end = b
    <2> HIDE DEF n
    <2> QED BY <1>2, <1>12 DEF SplitAt
<1>4. /\ Bounds(g, x) \in FF!Regions /\ Bounds(g, n) \in FF!Regions
      /\ Bounds(g, x) = FF!Region(r.start, size) /\ Bounds(g, n) = FF!Rest(r, size)
    <2>1. /\ Bounds(g, x) = [start |-> a, end |-> a + size]
          /\ Bounds(g, n) = [start |-> a + size, end |-> b]
        BY <1>3 DEF Bounds
    <2>2. r.start = a /\ r.end = b
        BY DEF Bounds
    <2>3. Start \in Nat /\ End \in Nat
        BY PoolAssumption
    <2> HIDE DEF a, b, r, n
    <2> QED BY <1>3, <2>1, <2>2, <2>3 DEF FF!Regions, FF!Region, FF!Rest
\* What is beside n stays beside both parts of it.
<1>5. ASSUME NEW i \in Nodes \ {x, n}, Beside(f, i, n),
             f.array[i].start \in Nat, f.array[i].end \in Nat
      PROVE  Beside(g, i, x) /\ Beside(g, i, n)
    <2>1. f.array[i].end <= a \/ b <= f.array[i].start
        BY <1>5 DEF Beside
    <2>2. g.array[i].start = f.array[i].start /\ g.array[i].end = f.array[i].end
        BY <1>5, <1>12 DEF SameBounds, SplitAt
    <2> HIDE DEF a, b, n
    <2> QED BY <1>3, <1>5, <2>1, <2>2 DEF Beside
<1>6. \A i \in ToSet(o) : /\ SameBounds(f, g, i) /\ i \in Nodes \ {x, n}
                         /\ Beside(g, i, x) /\ Beside(g, i, n)
    <2> SUFFICES ASSUME NEW i \in ToSet(o)
                 PROVE  /\ SameBounds(f, g, i) /\ i \in Nodes \ {x, n}
                        /\ Beside(g, i, x) /\ Beside(g, i, n)
        OBVIOUS
    <2>1. i \in Nodes \ {x, n}
        BY <1>0, <1>1
    <2>2. Beside(f, i, n)
        BY <1>0, <1>1, ClearBeside
    <2>3. f.array[i].start \in Nat /\ f.array[i].end \in Nat
        BY <1>0, <1>1, NodeBounds
    <2> QED BY <1>5, <1>12, <2>1, <2>2, <2>3 DEF SplitAt
<1>7. \A i \in ToSet(w) \ {n} : /\ SameBounds(f, g, i) /\ i \in Nodes \ {x, n}
                               /\ Beside(g, i, x) /\ Beside(g, i, n)
    <2> SUFFICES ASSUME NEW i \in ToSet(w) \ {n}
                 PROVE  /\ SameBounds(f, g, i) /\ i \in Nodes \ {x, n}
                        /\ Beside(g, i, x) /\ Beside(g, i, n)
        OBVIOUS
    <2>1. i \in Nodes \ {x, n}
        BY <1>0, <1>1
    <2>2. Beside(f, i, n)
        BY <1>0, <1>1, OrderedBeside
    <2>3. f.array[i].start \in Nat /\ f.array[i].end \in Nat
        BY <1>0, <1>1, NodeBounds
    <2> QED BY <1>5, <1>12, <2>1, <2>2, <2>3 DEF SplitAt
<1>8. Ordered(g, w) /\ RegionsIn(g, w) = (RegionsIn(f, w) \ {r}) \cup {Bounds(g, n)}
    <2>1. g.array[n].start < f.array[n].end /\ f.array[n].start < g.array[n].end
        BY <1>3
    <2>2. /\ Ordered(g, w)
          /\ RegionsIn(g, w) = (RegionsIn(f, w) \ {Bounds(f, n)}) \cup {Bounds(g, n)}
        BY <1>0, <1>1, <1>4, <1>7, <2>1, OrderedChanged
    <2> QED BY <1>4, <2>2
<1>9. Ordered(g, u) /\ RegionsIn(g, u) = RegionsIn(f, o) \cup {Bounds(g, x)}
    <2>1. p = InsertPosition(f, o, g.array[x].start)
        BY <1>3
    <2>2. x \in Nodes \ ToSet(o)
        BY <1>1
    <2>3. Bounds(g, x) \in FF!Regions /\ Bounds(g, x) = FF!Region(r.start, size)
        BY <1>4
    <2> HIDE DEF p, n, r
    <2>4. /\ Ordered(g, InsertedAt(o, p, x))
          /\ RegionsIn(g, InsertedAt(o, p, x)) = RegionsIn(f, o) \cup {Bounds(g, x)}
        <3>1. o \in Seq(Nodes) /\ IsInjective(o) /\ Ordered(f, o)
            BY <1>0, <1>1
        <3>2. \A i \in ToSet(o) : SameBounds(f, g, i) /\ Beside(g, i, x)
            BY <1>6
        <3> QED BY <2>1, <2>2, <2>3, <3>1, <3>2, OrderedInserted
    <2> QED BY <2>3, <2>4
<1>10. ToSet(u) = ToSet(o) \cup {x}
    <2>1. p \in 1 .. Len(o) + 1
        BY <1>0, InsertPositionFacts
    <2> HIDE DEF p
    <2> QED BY <1>0, <1>1, <2>1, Inserted
<1>11. Clear(g, u, w)
    <2> SUFFICES ASSUME NEW i \in ToSet(u), NEW j \in ToSet(w)
                 PROVE  Beside(g, i, j)
        BY DEF Clear, Beside
    <2>1. CASE i \in ToSet(o) /\ j = n
        BY <1>6, <2>1
    <2>2. CASE i \in ToSet(o) /\ j # n
        <3>1. Beside(f, i, j)
            BY <1>1, <2>2, ClearBeside
        <3>2. SameBounds(f, g, i) /\ SameBounds(f, g, j)
            BY <1>6, <1>7, <2>2
        <3> QED BY <3>1, <3>2 DEF Beside, SameBounds
    <2>3. CASE i = x /\ j = n
        <3>1. g.array[x].end <= g.array[n].start
            BY <1>3
        <3> QED BY <2>3, <3>1 DEF Beside
    <2>4. CASE i = x /\ j # n
        <3>1. Beside(g, j, x)
            BY <1>7, <2>4
        <3> QED BY <2>4, <3>1 DEF Beside
    <2> QED BY <1>10, <2>1, <2>2, <2>3, <2>4
<1> QED BY <1>4, <1>8, <1>9, <1>11 DEF InOrder, SplitResult

\* What Allocate(n) of FirstFit makes of free regions F and occupied regions O when
\* it returns p.
AllocatedFrom(F, O, n, p, F2, O2) ==
    LET Fit == {r \in F : FF!Size(r) >= n}
        r == FF!Lowest(Fit)
    IN \/ /\ n = 0 \/ Fit = {} \/ (Fit # {} /\ FF!Size(r) # n /\ ~FF!NodeLeft(F, O))
          /\ p = NULL /\ F2 = F /\ O2 = O
       \/ /\ n > 0 /\ Fit # {} /\ FF!Size(r) = n
          /\ p = r.start /\ F2 = F \ {r} /\ O2 = O \cup {r}
       \/ /\ n > 0 /\ Fit # {} /\ FF!Size(r) # n /\ FF!NodeLeft(F, O)
          /\ p = r.start /\ F2 = (F \ {r}) \cup {FF!Rest(r, n)}
          /\ O2 = O \cup {FF!Region(r.start, n)}

\* The first node that is large enough has the lowest region that is.
FitPosition(f, w, size) ==
    LET Fits(i) == NodeSize(f, i) >= size
    IN IF size = 0 THEN 0 ELSE FirstWhere(w, Fits)

LEMMA FirstThatFits ==
    ASSUME NEW f, NEW w \in Seq(Nodes), NEW size \in Nat
    PROVE  LET Fit == {r \in RegionsIn(f, w) : FF!Size(r) >= size}
               k == FitPosition(f, w, size)
           IN \/ k = 0 /\ (Ordered(f, w) => size = 0 \/ Fit = {})
              \/ /\ size > 0 /\ k \in 1 .. Len(w) /\ NodeSize(f, w[k]) >= size
                 /\ Ordered(f, w) => Fit # {} /\ FF!Lowest(Fit) = Bounds(f, w[k])
<1> DEFINE Fit == {r \in RegionsIn(f, w) : FF!Size(r) >= size}
           I == {j \in 1 .. Len(w) : NodeSize(f, w[j]) >= size}
           k == FitPosition(f, w, size)
<1>1. Len(w) \in Nat /\ DOMAIN w = 1 .. Len(w)
    OBVIOUS
<1>2. CASE size = 0
    BY <1>2 DEF FitPosition
<1>3. CASE size # 0
    <2>1. k = IF I # {} THEN Min(I) ELSE 0
        BY <1>3 DEF FitPosition, FirstWhere, SelectInSeq
    <2> HIDE DEF k
    <2>2. I \in SUBSET (1 .. Len(w))
        OBVIOUS
    <2>3. \/ k = 0 /\ I = {}
          \/ k \in I /\ \A j \in 1 .. Len(w) : j < k => j \notin I
        <3> HIDE DEF I
        <3> QED BY <1>1, <2>1, <2>2, FirstIndex
    <2>4. \A j \in 1 .. Len(w) : /\ Bounds(f, w[j]) \in RegionsIn(f, w)
                                /\ FF!Size(Bounds(f, w[j])) = NodeSize(f, w[j])
        BY <1>1 DEF RegionsIn, ToSet, FF!Size, Bounds, NodeSize
    <2>5. \A j \in 1 .. Len(w) : Bounds(f, w[j]) \in Fit <=> j \in I
        BY <2>4
    <2>6. CASE k = 0 /\ I = {}
        <3>1. \A r \in RegionsIn(f, w) : \E j \in 1 .. Len(w) : r = Bounds(f, w[j])
            BY <1>1 DEF RegionsIn, ToSet
        <3>2. Fit = {}
            BY <2>5, <2>6, <3>1
        <3> QED BY <2>6, <3>2 DEF k
    <2>7. CASE k \in I /\ \A j \in 1 .. Len(w) : j < k => j \notin I
        <3>1. k \in 1 .. Len(w) /\ NodeSize(f, w[k]) >= size
            BY <2>7
        <3>2. Bounds(f, w[k]) \in Fit
            BY <2>5, <2>7
        <3>3. \A j \in 1 .. Len(w) : j < k => Bounds(f, w[j]) \notin Fit
            BY <2>5, <2>7
        <3>4. Fit \in SUBSET RegionsIn(f, w)
            OBVIOUS
        <3> HIDE DEF Fit, I
        <3>5. Ordered(f, w) => FF!Lowest(Fit) = Bounds(f, w[k])
            BY <3>1, <3>2, <3>3, <3>4, FirstIsLowest
        <3> QED BY <1>3, <3>1, <3>2, <3>5 DEF Fit, k
    <2> QED BY <2>3, <2>6, <2>7
<1> QED BY <1>2, <1>3

LEMMA AllocateStep ==
    ASSUME NEW f, NEW o, NEW w, Threaded(f, o, w), NEW size \in Nat
    PROVE  LET done == AllocateCall(f, size)
           IN \E u, v : /\ Threaded(done.ffa, u, v)
                        /\ InOrder(f, o, w) =>
                              /\ InOrder(done.ffa, u, v)
                              /\ AllocatedFrom(RegionsIn(f, w), RegionsIn(f, o), size, done.ret,
                                               RegionsIn(done.ffa, v), RegionsIn(done.ffa, u))
<1> DEFINE k == FitPosition(f, w, size)
           n == w[k]
           exact == MoveNodeFromFeeListToOccupied(f, n, At(w, k - 1))
           split == AllocateMemoryRegionNode(f, NIL, f.array[n].start, size)
           done == AllocateCall(f, size)
           F == RegionsIn(f, w)
           O == RegionsIn(f, o)
           Fit == {r \in F : FF!Size(r) >= size}
           Good(u, v) == /\ Threaded(done.ffa, u, v)
                         /\ InOrder(f, o, w) =>
                               /\ InOrder(done.ffa, u, v)
                               /\ AllocatedFrom(F, O, size, done.ret, RegionsIn(done.ffa, v),
                                                RegionsIn(done.ffa, u))
<1> SUFFICES \E u, v : Good(u, v)
    OBVIOUS
<1>1. done = IF k = 0 THEN [ffa |-> f, ret |-> NULL]
             ELSE IF NodeSize(f, n) = size
                  THEN [ffa |-> exact.ffa, ret |-> f.array[n].start]
             ELSE IF split.node = NIL THEN [ffa |-> f, ret |-> NULL]
             ELSE [ffa |-> [split.ffa EXCEPT !.array[n].start = @ + size],
                   ret |-> f.array[n].start]
    <2>1. FreeList(f) = w
        BY Walks
    <2> QED BY <2>1 DEF AllocateCall, FitPosition
<1>2. \/ k = 0 /\ (Ordered(f, w) => size = 0 \/ Fit = {})
      \/ /\ size > 0 /\ k \in 1 .. Len(w) /\ NodeSize(f, n) >= size
         /\ Ordered(f, w) => Fit # {} /\ FF!Lowest(Fit) = Bounds(f, n)
    <2>1. w \in Seq(Nodes)
        BY ThreadedFacts
    <2> QED BY <2>1, FirstThatFits
<1> HIDE DEF k, exact, split, done, F, O, Fit
<1>3. CASE k = 0
    <2>1. done.ffa = f /\ done.ret = NULL
        BY <1>1, <1>3
    <2>2. InOrder(f, o, w) => size = 0 \/ Fit = {}
        BY <1>2, <1>3 DEF InOrder
    <2>3. InOrder(f, o, w) => AllocatedFrom(F, O, size, NULL, F, O)
        BY <2>2 DEF AllocatedFrom, Fit
    <2>4. Good(o, w)
        BY <2>1, <2>3 DEF F, O
    <2> QED BY <2>4
<1>4. CASE k # 0
    <2>1. /\ size > 0 /\ k \in 1 .. Len(w) /\ NodeSize(f, n) >= size
          /\ Ordered(f, w) => Fit # {} /\ FF!Lowest(Fit) = Bounds(f, n)
        BY <1>2, <1>4
    <2>2. /\ f \in FFAs /\ n \in Nodes /\ n \in ToSet(w) /\ n \in UsedNodes(f)
          /\ f.array[n].start \in Nat \ {0} /\ f.array[n].end \in Nat
        BY <2>1, ThreadedFacts DEF Threaded, UsedNodes, NULL
    <2> DEFINE r == Bounds(f, n)
    <2>3. /\ r.start = f.array[n].start /\ r.end = f.array[n].end
          /\ FF!Size(r) = NodeSize(f, n)
        BY DEF Bounds, FF!Size, NodeSize
    <2>4. CASE NodeSize(f, n) = size
        <3> DEFINE g == exact.ffa
                   u == InsertedAt(o, InsertPosition(f, o, f.array[n].start), n)
                   v == RemovedAt(w, k)
        <3>1. done = [ffa |-> g, ret |-> r.start]
            BY <1>1, <1>4, <2>3, <2>4
        <3>2. Threaded(g, u, v) /\ \A i \in Nodes : SameBounds(f, g, i)
            BY <2>1, MoveNode DEF exact
        <3> HIDE DEF g
        <3>3. ASSUME InOrder(f, o, w)
              PROVE  /\ InOrder(g, u, v)
                     /\ RegionsIn(g, v) = F \ {r} /\ RegionsIn(g, u) = O \cup {r}
            BY <2>1, <3>2, <3>3, MovedInOrder DEF F, O
        <3> HIDE DEF u, v, r
        <3>4. ASSUME InOrder(f, o, w)
              PROVE  AllocatedFrom(F, O, size, r.start, F \ {r}, O \cup {r})
            <4>1. Fit # {} /\ FF!Lowest(Fit) = r /\ FF!Size(r) = size
                BY <2>1, <2>3, <2>4, <3>4 DEF InOrder, r
            <4> QED BY <2>1, <4>1 DEF AllocatedFrom, Fit
        <3>5. Good(u, v)
            BY <3>1, <3>2, <3>3, <3>4
        <3> QED BY <3>5
    <2>5. CASE NodeSize(f, n) # size
        <3> DEFINE lo == f.array[n].start
                   hi == f.array[n].end
        <3>0. lo \in Nat /\ hi \in Nat /\ size <= hi - lo /\ size # hi - lo
            BY <2>1, <2>2, <2>5 DEF NodeSize
        <3>1. size < hi - lo
            <4> HIDE DEF lo, hi
            <4> QED BY <3>0
        <3>2. CASE FindFreeNode(f) = NIL
            <4>1. split.node = NIL
                BY <3>2 DEF split, AllocateMemoryRegionNode
            <4>2. done.ffa = f /\ done.ret = NULL
                BY <1>1, <1>4, <2>5, <4>1
            <4>3. ASSUME InOrder(f, o, w) PROVE AllocatedFrom(F, O, size, NULL, F, O)
                <5>1. Fit # {} /\ FF!Lowest(Fit) = r /\ FF!Size(r) # size
                    BY <2>1, <2>3, <2>5, <4>3 DEF InOrder
                <5>2. ~FF!NodeLeft(F, O)
                    BY <3>2, <4>3, NodeLeftIff DEF InOrder, F, O
                <5> HIDE DEF r
                <5> QED BY <5>1, <5>2 DEF AllocatedFrom, Fit
            <4>4. Good(o, w)
                BY <4>2, <4>3 DEF F, O
            <4> QED BY <4>4
        <3>3. CASE FindFreeNode(f) # NIL
            <4> DEFINE x == FindFreeNode(f)
                       u == InsertedAt(o, InsertPosition(f, o, f.array[n].start), x)
                       h == split.ffa
                       g == [h EXCEPT !.array[n].start = @ + size]
            <4>1. /\ split.node = x /\ x \in Nodes \ UsedNodes(f) /\ Threaded(h, u, w)
                  /\ h.array[x].start = f.array[n].start
                  /\ h.array[x].end = f.array[n].start + size
                  /\ \A i \in Nodes \ {x} : SameBounds(f, h, i)
                <5> DEFINE a == f.array[n].start
                           c == AllocateMemoryRegionNode(f, NIL, a, size)
                <5>1. a \in Nat \ {0}
                    BY <2>2
                <5> HIDE DEF a, n
                <5>2. /\ c.node = x /\ x \in Nodes \ UsedNodes(f)
                      /\ Threaded(c.ffa, InsertedAt(o, InsertPosition(f, o, a), x), w)
                      /\ c.ffa.array[x].start = a /\ c.ffa.array[x].end = a + size
                      /\ \A i \in Nodes \ {x} : SameBounds(f, c.ffa, i)
                    BY <3>3, <5>1, AllocateUnused
                <5> HIDE DEF c, x
                <5>3. split = c
                    BY DEF split, c, a
                <5> QED BY <5>2, <5>3 DEF a
            <4>2. x # NIL /\ n # x
                BY <2>2, <3>3, <4>1
            <4>3. done = [ffa |-> g, ret |-> r.start]
                BY <1>1, <1>4, <2>3, <2>5, <4>1, <4>2
            <4> HIDE DEF x, u, h
            <4>4. h \in FFAs /\ h.array[n].start = f.array[n].start
                               /\ h.array[n].end = f.array[n].end
                BY <2>2, <4>1, <4>2 DEF Threaded, SameBounds
            <4> HIDE DEF n
            <4>5. /\ g \in FFAs
                  /\ g.occupied_head = h.occupied_head /\ g.free_head = h.free_head
                  /\ g.array[n].start = f.array[n].start + size
                  /\ g.array[n].end = f.array[n].end
                  /\ g.array[n].next = h.array[n].next
                  /\ \A i \in Nodes \ {n} : g.array[i] = h.array[i]
                <5> DEFINE arr == [h.array EXCEPT ![n].start = @ + size]
                <5>1. g = [h EXCEPT !.array = arr]
                    OBVIOUS
                <5>2. /\ arr \in Arrays
                      /\ arr[n].start = f.array[n].start + size
                      /\ arr[n].end = f.array[n].end /\ arr[n].next = h.array[n].next
                      /\ \A i \in Nodes \ {n} : arr[i] = h.array[i]
                    BY <2>2, <4>4 DEF FFAs, Arrays
                <5> HIDE DEF arr, g
                <5> QED BY <4>4, <5>1, <5>2 DEF FFAs
            <4> HIDE DEF g
            <4>6. UsedNodes(g) = UsedNodes(h)
                BY <2>2, <4>4, <4>5 DEF UsedNodes, NULL
            <4>7. Threaded(g, u, w)
                BY <2>2, <4>1, <4>5, <4>6, SameLinks
            <4>8. /\ \A i \in Nodes \ {x, n} : SameBounds(f, g, i)
                  /\ g.array[x].start = f.array[n].start
                  /\ g.array[x].end = f.array[n].start + size
                BY <4>1, <4>2, <4>5 DEF SameBounds
            <4>9. ASSUME InOrder(f, o, w)
                  PROVE  /\ InOrder(g, u, w)
                         /\ RegionsIn(g, w) = (F \ {r}) \cup {FF!Rest(r, size)}
                         /\ RegionsIn(g, u) = O \cup {FF!Region(r.start, size)}
                <5>1. k \in 1 .. Len(w)
                    BY <2>1
                <5>2. SplitAt(f, g, n, x, size)
                    BY <2>1, <3>1, <4>5, <4>8 DEF SplitAt
                <5>3. x \in Nodes \ UsedNodes(f)
                    BY <4>1
                <5>4. SplitResult(f, g, o, w, n, x, size)
                    BY <4>9, <5>1, <5>2, <5>3, SplitInOrder DEF n
                <5> QED BY <5>4 DEF SplitResult, u, F, O, r
            <4>10. ASSUME InOrder(f, o, w)
                   PROVE  AllocatedFrom(F, O, size, r.start, (F \ {r}) \cup {FF!Rest(r, size)},
                                        O \cup {FF!Region(r.start, size)})
                <5>1. Fit # {} /\ FF!Lowest(Fit) = r /\ FF!Size(r) # size
                    BY <2>1, <2>3, <2>5, <4>10 DEF InOrder
                <5>2. FF!NodeLeft(F, O)
                    BY <3>3, <4>10, NodeLeftIff DEF InOrder, F, O
                <5> HIDE DEF r
                <5> QED BY <2>1, <5>1, <5>2 DEF AllocatedFrom, Fit
            <4> HIDE DEF r
            <4>11. Good(u, w)
                BY <4>3, <4>7, <4>9, <4>10
            <4> QED BY <4>11
        <3> QED BY <3>2, <3>3
    <2> QED BY <2>4, <2>5
<1> QED BY <1>3, <1>4

-------------------------------------------------------------------------------
(* Free.                                                                   *)

\* FindOccupiedMemoryRegionNode finds the region that holds an address.
LEMMA NodeThatHolds ==
    ASSUME NEW f, NEW o, NEW w, Threaded(f, o, w), NEW a
    PROVE  LET n == FindOccupiedMemoryRegionNode(f, a)
           IN \/ /\ n = NIL
                 /\ Ordered(f, o) => \A r \in RegionsIn(f, o) : ~(r.start <= a /\ a < r.end)
              \/ /\ n \in ToSet(o) /\ n # NIL /\ \E q \in 1 .. Len(o) : n = o[q]
                 /\ Ordered(f, o) => f.array[n].start <= a /\ a < f.array[n].end
<1> DEFINE n == FindOccupiedMemoryRegionNode(f, a)
           Holds(i) == \/ a = f.array[i].start
                       \/ f.array[i].start <= a /\ a < f.array[i].end
           I == {j \in 1 .. Len(o) : Holds(o[j])}
           k == IF I # {} THEN Min(I) ELSE 0
<1>0. /\ o \in Seq(Nodes) /\ Len(o) \in Nat /\ DOMAIN o = 1 .. Len(o)
      /\ \A j \in 1 .. Len(o) : o[j] \in Nodes /\ o[j] \in ToSet(o)
    BY ThreadedFacts
<1>1. n = At(o, k)
    <2>1. OccupiedList(f) = o
        BY Walks
    <2> QED BY <2>1 DEF FindOccupiedMemoryRegionNode, FirstWhere, SelectInSeq
<1>2. \/ k = 0 /\ I = {}
      \/ k \in I
    <2>1. I \in SUBSET (1 .. Len(o))
        OBVIOUS
    <2> HIDE DEF I
    <2> QED BY <1>0, <2>1, FirstIndex
<1> HIDE DEF n, k
<1>3. CASE k = 0 /\ I = {}
    <2>1. n = NIL
        BY <1>0, <1>1, <1>3 DEF At
    <2>2. ASSUME NEW r \in RegionsIn(f, o) PROVE ~(r.start <= a /\ a < r.end)
        <3>1. PICK j \in 1 .. Len(o) : r = Bounds(f, o[j])
            BY <1>0 DEF RegionsIn, ToSet
        <3>2. ~Holds(o[j])
            BY <1>3
        <3> QED BY <3>1, <3>2 DEF Bounds
    <2> QED BY <2>1, <2>2 DEF n
<1>4. CASE k \in I
    <2>1. k \in 1 .. Len(o) /\ n = o[k] /\ Holds(n)
        BY <1>0, <1>1, <1>4 DEF At
    <2>2. n \in ToSet(o) /\ n # NIL
        BY <1>0, <2>1 DEF NIL, Nodes
    <2>3. ASSUME Ordered(f, o) PROVE f.array[n].start <= a /\ a < f.array[n].end
        <3>1. f.array[n].start \in Nat /\ f.array[n].start < f.array[n].end
            BY <1>0, <2>2, <2>3, NodeBounds
        <3> QED BY <2>1, <3>1
    <2> QED BY <2>1, <2>2, <2>3 DEF n
<1> QED BY <1>2, <1>3, <1>4

\* Free first takes size bytes from the start of the occupied node n.
Released(f, n, size) ==
    IF NodeSize(f, n) = size THEN FreeOccupiedRegionNode(f, n)
                             ELSE [f EXCEPT !.array[n].start = @ + size]

\* The bytes from a to a + size lie beside every listed region.
Unlisted(f, o, w, a, size) ==
    \A i \in ToSet(o) \cup ToSet(w) :
        f.array[i].end <= a \/ a + size <= f.array[i].start

ReleaseResult(f, g, o, u, w, n, size) ==
    LET r == Bounds(f, n)
    IN /\ InOrder(g, u, w)
       /\ RegionsIn(g, w) = RegionsIn(f, w)
       /\ RegionsIn(g, u) = (RegionsIn(f, o) \ {r})
                                \cup IF size = FF!Size(r) THEN {} ELSE {FF!Rest(r, size)}
       /\ Unlisted(g, u, w, r.start, size)

LEMMA ReleaseStep ==
    ASSUME NEW f, NEW o, NEW w, Threaded(f, o, w), NEW n \in ToSet(o), NEW size \in Nat
    PROVE  \E u : /\ Threaded(Released(f, n, size), u, w)
                  /\ InOrder(f, o, w) /\ 0 < size /\ size <= NodeSize(f, n)
                        => ReleaseResult(f, Released(f, n, size), o, u, w, n, size)
<1> DEFINE g == Released(f, n, size)
           r == Bounds(f, n)
           a == f.array[n].start
           b == f.array[n].end
<1>0. /\ o \in Seq(Nodes) /\ w \in Seq(Nodes) /\ IsInjective(o)
      /\ Len(o) \in Nat /\ DOMAIN o = 1 .. Len(o)
      /\ ToSet(o) \subseteq Nodes /\ ToSet(w) \subseteq Nodes
      /\ f \in FFAs /\ f.array \in Arrays /\ n \in Nodes /\ n \notin ToSet(w)
      /\ a \in Nat \ {0} /\ b \in Nat
    BY ThreadedFacts DEF Threaded, UsedNodes, NULL
<1>1. PICK q \in 1 .. Len(o) : n = o[q]
    BY <1>0 DEF ToSet
<1>2. NodeSize(f, n) = b - a /\ FF!Size(r) = b - a /\ r.start = a /\ r.end = b
    BY DEF NodeSize, FF!Size, Bounds
<1> HIDE DEF g, r, a, b
\* What the listed regions are beside of.
<1>3. ASSUME InOrder(f, o, w)
      PROVE  /\ \A i \in (ToSet(o) \cup ToSet(w)) \ {n} :
                    /\ f.array[i].start \in Nat /\ f.array[i].end \in Nat
                    /\ f.array[i].end <= a \/ b <= f.array[i].start
                    /\ i \in Nodes \ {n}
             /\ Ordered(f, o) /\ Ordered(f, w) /\ Clear(f, o, w)
             /\ a \in Nat /\ b \in Nat /\ Start <= a /\ b <= End /\ a < b
    <2>1. Ordered(f, o) /\ Ordered(f, w) /\ Clear(f, o, w)
        BY <1>3 DEF InOrder
    <2>2. ASSUME NEW i \in (ToSet(o) \cup ToSet(w)) \ {n} PROVE Beside(f, i, n)
        BY <1>0, <2>1, OrderedBeside, ClearBeside
    <2>3. \A i \in ToSet(o) \cup ToSet(w) : f.array[i].start \in Nat /\ f.array[i].end \in Nat
        BY <1>0, <2>1, NodeBounds
    <2>4. a \in Nat /\ b \in Nat /\ Start <= a /\ b <= End /\ a < b
        BY <1>0, <2>1, NodeBounds DEF a, b
    <2> QED BY <1>0, <2>1, <2>2, <2>3, <2>4 DEF Beside, a, b
<1>4. CASE NodeSize(f, n) = size
    <2> DEFINE u == RemovedAt(o, q)
    <2>1. Threaded(g, u, w) /\ \A i \in Nodes \ {n} : SameBounds(f, g, i)
        BY <1>1, <1>4, ReleaseNode DEF Released, g
    <2>2. ToSet(u) = ToSet(o) \ {n}
        BY <1>0, <1>1, Removed
    <2> HIDE DEF u
    <2>3. ASSUME InOrder(f, o, w)
          PROVE  ReleaseResult(f, g, o, u, w, n, size)
        <3>1. \A i \in (ToSet(o) \cup ToSet(w)) \ {n} :
                    /\ SameBounds(f, g, i)
                    /\ g.array[i].start = f.array[i].start
                    /\ g.array[i].end = f.array[i].end
            BY <1>0, <2>1 DEF SameBounds
        <3>2. Ordered(g, w) /\ RegionsIn(g, w) = RegionsIn(f, w)
            BY <1>0, <1>3, <2>3, <3>1, SameRegions
        <3>3. Ordered(g, u) /\ RegionsIn(g, u) = RegionsIn(f, o) \ {Bounds(f, n)}
            BY <1>0, <1>1, <1>3, <2>3, <3>1, OrderedRemoved DEF u
        <3>4. Clear(g, u, w)
            BY <1>0, <1>3, <2>2, <2>3, <3>1 DEF Clear
        <3>5. Unlisted(g, u, w, a, size)
            <4> SUFFICES ASSUME NEW i \in ToSet(u) \cup ToSet(w)
                         PROVE  g.array[i].end <= a \/ a + size <= g.array[i].start
                BY DEF Unlisted
            <4>1. i \in (ToSet(o) \cup ToSet(w)) \ {n}
                BY <1>0, <2>2
            <4>2. a + size = b
                BY <1>0, <1>2, <1>4
            <4> QED BY <1>3, <2>3, <3>1, <4>1, <4>2
        <3> QED BY <1>2, <1>4, <3>2, <3>3, <3>4, <3>5 DEF ReleaseResult, InOrder, r
    <2> QED BY <2>1, <2>3 DEF g
<1>5. CASE NodeSize(f, n) # size
    <2>1. /\ g \in FFAs
          /\ g.occupied_head = f.occupied_head /\ g.free_head = f.free_head
          /\ g.array[n].start = a + size /\ g.array[n].end = b
          /\ g.array[n].next = f.array[n].next
          /\ \A i \in Nodes \ {n} : g.array[i] = f.array[i]
        <3> DEFINE arr == [f.array EXCEPT ![n].start = @ + size]
        <3>1. g = [f EXCEPT !.array = arr]
            BY <1>5 DEF g, Released
        <3>2. /\ arr \in Arrays
              /\ arr[n].start = a + size /\ arr[n].end = b /\ arr[n].next = f.array[n].next
              /\ \A i \in Nodes \ {n} : arr[i] = f.array[i]
            <4>1. f.array[n].start \in Nat /\ f.array[n].start + size \in Nat
                BY <1>0 DEF a
            <4>2. /\ arr \in Arrays
                  /\ arr[n].start = f.array[n].start + size
                  /\ arr[n].end = f.array[n].end /\ arr[n].next = f.array[n].next
                  /\ \A i \in Nodes \ {n} : arr[i] = f.array[i]
                BY <1>0, <4>1 DEF Arrays
            <4> HIDE DEF arr
            <4> QED BY <4>2 DEF a, b
        <3> HIDE DEF arr
        <3> QED BY <1>0, <3>1, <3>2 DEF FFAs
    <2>2. UsedNodes(g) = UsedNodes(f)
        <3>1. g.array[n].start # NULL /\ f.array[n].start # NULL
            BY <1>0, <2>1 DEF UsedNodes, NULL, a
        <3>2. \A i \in Nodes : (g.array[i].start # NULL) = (f.array[i].start # NULL)
            BY <2>1, <3>1
        <3> QED BY <3>2 DEF UsedNodes
    <2>3. Threaded(g, o, w)
        BY <1>0, <2>1, <2>2, SameLinks
    <2>4. ASSUME InOrder(f, o, w), 0 < size, size <= NodeSize(f, n)
          PROVE  ReleaseResult(f, g, o, o, w, n, size)
        <3>1. \A i \in (ToSet(o) \cup ToSet(w)) \ {n} :
                    /\ SameBounds(f, g, i)
                    /\ g.array[i].start = f.array[i].start
                    /\ g.array[i].end = f.array[i].end
            BY <1>0, <2>1 DEF SameBounds
        <3>2. Ordered(g, w) /\ RegionsIn(g, w) = RegionsIn(f, w)
            BY <1>0, <1>3, <2>4, <3>1, SameRegions
        <3>3. /\ a < a + size /\ a + size < b /\ a + size \in Nat
              /\ Start <= a /\ b <= End
            BY <1>0, <1>2, <1>3, <1>5, <2>4
        <3>4. ASSUME NEW i \in (ToSet(o) \cup ToSet(w)) \ {n} PROVE Beside(g, i, n)
            <4>1. /\ f.array[i].end <= a \/ b <= f.array[i].start
                  /\ f.array[i].start \in Nat /\ f.array[i].end \in Nat
                BY <1>3, <2>4
            <4>2. a \in Nat /\ b \in Nat
                BY <1>3, <2>4
            <4>3. f.array[i].end <= a + size \/ b <= f.array[i].start
                <5> HIDE DEF a, b
                <5> QED BY <3>3, <4>1, <4>2
            <4> QED BY <2>1, <3>1, <4>3 DEF Beside
        <3>5. Bounds(g, n) = FF!Rest(r, size) /\ Bounds(g, n) \in FF!Regions
            <4>1. Bounds(g, n) = [start |-> a + size, end |-> b]
                BY <2>1 DEF Bounds
            <4>2. Start \in Nat
                BY PoolAssumption
            <4> QED BY <1>0, <1>2, <3>3, <4>1, <4>2 DEF FF!Rest, FF!Regions
        <3>6. /\ Ordered(g, o)
              /\ RegionsIn(g, o) = (RegionsIn(f, o) \ {Bounds(f, n)}) \cup {Bounds(g, n)}
            <4>1. \A i \in ToSet(o) \ {o[q]} : SameBounds(f, g, i) /\ Beside(g, i, o[q])
                BY <1>1, <3>1, <3>4
            <4>2. g.array[o[q]].start < f.array[o[q]].end
                BY <1>1, <2>1, <3>3 DEF b
            <4>3. f.array[o[q]].start < g.array[o[q]].end
                BY <1>0, <1>1, <2>1, <3>3 DEF a
            <4>4. Bounds(g, o[q]) \in FF!Regions /\ Ordered(f, o)
                BY <1>1, <1>3, <2>4, <3>5
            <4>5. /\ Ordered(g, o)
                  /\ RegionsIn(g, o) = (RegionsIn(f, o) \ {Bounds(f, o[q])})
                                            \cup {Bounds(g, o[q])}
                BY <1>0, <4>1, <4>2, <4>3, <4>4, OrderedChanged
            <4> QED BY <1>1, <4>5
        <3>7. Clear(g, o, w)
            <4> SUFFICES ASSUME NEW i \in ToSet(o), NEW j \in ToSet(w)
                         PROVE  Beside(g, i, j)
                BY DEF Clear, Beside
            <4>1. CASE i = n
                BY <1>0, <3>4, <4>1 DEF Beside
            <4>2. CASE i # n
                BY <1>0, <1>3, <2>4, <3>1, <4>2 DEF Clear, Beside
            <4> QED BY <4>1, <4>2
        <3>8. Unlisted(g, o, w, a, size)
            <4> SUFFICES ASSUME NEW i \in ToSet(o) \cup ToSet(w)
                         PROVE  g.array[i].end <= a \/ a + size <= g.array[i].start
                BY DEF Unlisted
            <4>1. CASE i = n
                BY <2>1, <3>3, <4>1
            <4>2. CASE i # n
                <5>1. i \in (ToSet(o) \cup ToSet(w)) \ {n}
                    BY <4>2
                <5>2. /\ f.array[i].start \in Nat
                      /\ f.array[i].end <= a \/ b <= f.array[i].start
                    BY <1>3, <2>4, <5>1
                <5> QED BY <1>0, <3>1, <3>3, <5>1, <5>2
            <4> QED BY <4>1, <4>2
        <3>9. size # FF!Size(r)
            BY <1>2, <1>5
        <3> QED BY <1>2, <3>2, <3>5, <3>6, <3>7, <3>8, <3>9 DEF ReleaseResult, InOrder, r
    <2> QED BY <2>3, <2>4 DEF g
<1> QED BY <1>4, <1>5

\* The regions of F that touch r.
TouchingIn(F, r) == {q \in F : r.end = q.start \/ q.end = r.start}

\* What AddFreedRegionToFreeList of FirstFit makes of free regions F, with occupied
\* regions O, when region r is freed and ret is returned.
AddedTo(F, O, r, ret, F2) ==
    LET T == TouchingIn(F, r)
    IN \/ T # {} /\ ret = 0 /\ F2 = (F \ {FF!Lowest(T)}) \cup {FF!Absorb(FF!Lowest(T), r)}
       \/ /\ T = {} /\ FF!NodeLeft(F, O)
          /\ ret = 0 /\ F2 = FF!CombineAdjacentFreeNodes(F \cup {r})
       \/ T = {} /\ ~FF!NodeLeft(F, O) /\ ret = -1 /\ F2 = F

\* The first free node that touches a range, 0 if none does.
TouchPosition(f, w, start, size) ==
    LET Touches(i) == start + size = f.array[i].start \/ f.array[i].end = start
    IN FirstWhere(w, Touches)

LEMMA FirstThatTouches ==
    ASSUME NEW f, NEW w \in Seq(Nodes), NEW start, NEW size
    PROVE  LET k == TouchPosition(f, w, start, size)
               T == TouchingIn(RegionsIn(f, w), FF!Region(start, size))
           IN \/ k = 0 /\ T = {}
              \/ /\ k \in 1 .. Len(w)
                 /\ start + size = f.array[w[k]].start \/ f.array[w[k]].end = start
                 /\ Ordered(f, w) => T # {} /\ FF!Lowest(T) = Bounds(f, w[k])
<1> DEFINE k == TouchPosition(f, w, start, size)
           r == FF!Region(start, size)
           T == TouchingIn(RegionsIn(f, w), r)
           I == {j \in 1 .. Len(w) : \/ start + size = f.array[w[j]].start
                                     \/ f.array[w[j]].end = start}
<1>1. Len(w) \in Nat /\ DOMAIN w = 1 .. Len(w)
    OBVIOUS
<1>2. k = IF I # {} THEN Min(I) ELSE 0
    BY DEF TouchPosition, FirstWhere, SelectInSeq
<1> HIDE DEF k
<1>3. \/ k = 0 /\ I = {}
      \/ k \in I /\ \A j \in 1 .. Len(w) : j < k => j \notin I
    <2>1. I \in SUBSET (1 .. Len(w))
        OBVIOUS
    <2> HIDE DEF I
    <2> QED BY <1>1, <1>2, <2>1, FirstIndex
<1>4. \A j \in 1 .. Len(w) : Bounds(f, w[j]) \in T <=> j \in I
    BY <1>1 DEF TouchingIn, RegionsIn, ToSet, Bounds, FF!Region
<1>5. CASE k = 0 /\ I = {}
    <2>1. \A q \in RegionsIn(f, w) : \E j \in 1 .. Len(w) : q = Bounds(f, w[j])
        BY <1>1 DEF RegionsIn, ToSet
    <2>2. T = {}
        BY <1>4, <1>5, <2>1 DEF TouchingIn
    <2> QED BY <1>5, <2>2 DEF k
<1>6. CASE k \in I /\ \A j \in 1 .. Len(w) : j < k => j \notin I
    <2>1. k \in 1 .. Len(w) /\ (start + size = f.array[w[k]].start \/ f.array[w[k]].end = start)
        BY <1>6
    <2>2. Bounds(f, w[k]) \in T
        BY <1>4, <1>6
    <2>3. \A j \in 1 .. Len(w) : j < k => Bounds(f, w[j]) \notin T
        BY <1>4, <1>6
    <2>4. T \in SUBSET RegionsIn(f, w)
        BY DEF TouchingIn
    <2> HIDE DEF T, I
    <2>5. Ordered(f, w) => FF!Lowest(T) = Bounds(f, w[k])
        BY <2>1, <2>2, <2>3, <2>4, FirstIsLowest
    <2> QED BY <2>1, <2>2, <2>5 DEF T, k
<1> QED BY <1>3, <1>5, <1>6

\* The first free region that touches the freed range absorbs it.
LEMMA AbsorbInOrder ==
    ASSUME NEW f, NEW o, NEW w, Threaded(f, o, w), InOrder(f, o, w),
           NEW start \in Nat, NEW size \in Nat, 0 < size,
           FF!Region(start, size) \in FF!Regions, Unlisted(f, o, w, start, size),
           NEW k \in 1 .. Len(w), NEW g, \A i \in Nodes \ {w[k]} : SameBounds(f, g, i),
           Bounds(g, w[k]) = FF!Absorb(Bounds(f, w[k]), FF!Region(start, size)),
           start + size = f.array[w[k]].start \/ f.array[w[k]].end = start
    PROVE  /\ InOrder(g, o, w)
           /\ RegionsIn(g, o) = RegionsIn(f, o)
           /\ RegionsIn(g, w) = (RegionsIn(f, w) \ {Bounds(f, w[k])}) \cup {Bounds(g, w[k])}
<1> DEFINE n == w[k]
           a == f.array[n].start
           b == f.array[n].end
           c == g.array[n].start
           d == g.array[n].end
<1>0. /\ o \in Seq(Nodes) /\ w \in Seq(Nodes) /\ IsInjective(w)
      /\ ToSet(o) \subseteq Nodes /\ ToSet(w) \subseteq Nodes
      /\ n \in ToSet(w) /\ n \in Nodes /\ n \notin ToSet(o)
      /\ Ordered(f, o) /\ Ordered(f, w) /\ Clear(f, o, w)
    BY ThreadedFacts DEF Threaded, InOrder
<1>1. a \in Nat /\ b \in Nat /\ a < b /\ Start <= a /\ b <= End
    BY <1>0, NodeBounds
<1>2. Start <= start /\ start + size <= End /\ Start \in Nat /\ End \in Nat
    BY PoolAssumption DEF FF!Region, FF!Regions
<1>3. \/ start + size = a /\ c = start /\ d = b
      \/ start + size # a /\ b = start /\ c = a /\ d = start + size
    <2>1. Bounds(g, n) = FF!Absorb(Bounds(f, n), FF!Region(start, size))
        OBVIOUS
    <2>2. start + size = a \/ b = start
        OBVIOUS
    <2> HIDE DEF n
    <2> QED BY <2>1, <2>2 DEF FF!Absorb, FF!Region, Bounds
<1>4. Bounds(g, n) \in FF!Regions
    <2>1. Bounds(g, n) = [start |-> c, end |-> d]
        BY DEF Bounds
    <2>2. c \in Nat /\ d \in Nat /\ Start <= c /\ c < d /\ d <= End
        <3> HIDE DEF a, b, c, d
        <3> QED BY <1>1, <1>2, <1>3
    <2> HIDE DEF c, d
    <2> QED BY <2>1, <2>2 DEF FF!Regions
<1>5. c < b /\ a < d
    <2> HIDE DEF a, b, c, d
    <2> QED BY <1>1, <1>3
<1>6. ASSUME NEW i \in (ToSet(o) \cup ToSet(w)) \ {n}
      PROVE  SameBounds(f, g, i) /\ Beside(g, i, n)
    <2>1. SameBounds(f, g, i)
        BY <1>0
    <2>2. f.array[i].end <= a \/ b <= f.array[i].start
        <3>1. Beside(f, i, n)
            BY <1>0, OrderedBeside, ClearBeside
        <3> QED BY <3>1 DEF Beside
    <2>3. f.array[i].end <= start \/ start + size <= f.array[i].start
        BY DEF Unlisted
    <2>4. /\ f.array[i].start \in Nat /\ f.array[i].end \in Nat
          /\ f.array[i].start < f.array[i].end
        BY <1>0, NodeBounds
    <2>5. f.array[i].end <= c \/ d <= f.array[i].start
        <3>1. f.array[i].start \in Int /\ f.array[i].end \in Int
            BY <2>4
        <3> DEFINE p == f.array[i].start
                   q == f.array[i].end
        <3>2. (q <= a \/ b <= p) /\ (q <= start \/ start + size <= p) /\ p < q
            BY <2>2, <2>3, <2>4
        <3> HIDE DEF a, b, c, d, p, q
        <3> QED BY <1>1, <1>3, <3>1, <3>2 DEF p, q
    <2> QED BY <2>1, <2>5 DEF Beside, SameBounds
<1>7. Ordered(g, o) /\ RegionsIn(g, o) = RegionsIn(f, o)
    BY <1>0, <1>6, SameRegions
<1>8. /\ Ordered(g, w)
      /\ RegionsIn(g, w) = (RegionsIn(f, w) \ {Bounds(f, w[k])}) \cup {Bounds(g, w[k])}
    BY <1>0, <1>4, <1>5, <1>6, OrderedChanged
<1>9. Clear(g, o, w)
    <2> SUFFICES ASSUME NEW i \in ToSet(o), NEW j \in ToSet(w) PROVE Beside(g, i, j)
        BY DEF Clear, Beside
    <2>1. CASE j = n
        BY <1>0, <1>6, <2>1
    <2>2. CASE j # n
        <3>1. SameBounds(f, g, i) /\ SameBounds(f, g, j) /\ Beside(f, i, j)
            BY <1>0, <1>6, <2>2, ClearBeside
        <3> QED BY <3>1 DEF SameBounds, Beside
    <2> QED BY <2>1, <2>2
<1> QED BY <1>7, <1>8, <1>9 DEF InOrder

\* A freed range that touches nothing becomes a region of its own.
LEMMA ListedInOrder ==
    ASSUME NEW f, NEW o, NEW w, Threaded(f, o, w), InOrder(f, o, w),
           NEW start \in Nat, NEW size \in Nat, 0 < size,
           FF!Region(start, size) \in FF!Regions, Unlisted(f, o, w, start, size),
           NEW x \in Nodes \ UsedNodes(f), NEW g, \A i \in Nodes \ {x} : SameBounds(f, g, i),
           g.array[x].start = start, g.array[x].end = start + size
    PROVE  LET v == InsertedAt(w, InsertPosition(f, w, start), x)
           IN /\ InOrder(g, o, v)
              /\ RegionsIn(g, o) = RegionsIn(f, o)
              /\ RegionsIn(g, v) = RegionsIn(f, w) \cup {Bounds(g, x)}
<1> DEFINE v == InsertedAt(w, InsertPosition(f, w, start), x)
<1>0. /\ o \in Seq(Nodes) /\ w \in Seq(Nodes) /\ IsInjective(w)
      /\ ToSet(o) \subseteq Nodes /\ ToSet(w) \subseteq Nodes
      /\ x \notin ToSet(w) /\ x \notin ToSet(o)
      /\ Ordered(f, o) /\ Ordered(f, w) /\ Clear(f, o, w)
    BY ThreadedFacts DEF Threaded, InOrder
<1>1. Bounds(g, x) \in FF!Regions
    BY DEF Bounds, FF!Region
<1>2. ASSUME NEW i \in ToSet(o) \cup ToSet(w)
      PROVE  SameBounds(f, g, i) /\ Beside(g, i, x)
    <2>1. SameBounds(f, g, i)
        BY <1>0
    <2>2. f.array[i].end <= start \/ start + size <= f.array[i].start
        BY DEF Unlisted
    <2> QED BY <2>1, <2>2 DEF Beside, SameBounds
<1>3. Ordered(g, o) /\ RegionsIn(g, o) = RegionsIn(f, o)
    BY <1>0, <1>2, SameRegions
<1>4. Ordered(g, v) /\ RegionsIn(g, v) = RegionsIn(f, w) \cup {Bounds(g, x)}
    <2>2. x \in Nodes \ ToSet(w)
        BY <1>0
    <2>3. \A i \in ToSet(w) : SameBounds(f, g, i) /\ Beside(g, i, x)
        BY <1>2
    <2> DEFINE p == InsertPosition(f, w, start)
    <2>4. p = InsertPosition(f, w, g.array[x].start)
        OBVIOUS
    <2> HIDE DEF p
    <2>5. Ordered(g, InsertedAt(w, p, x))
          /\ RegionsIn(g, InsertedAt(w, p, x)) = RegionsIn(f, w) \cup {Bounds(g, x)}
        BY <1>0, <1>1, <2>2, <2>3, <2>4, OrderedInserted
    <2> QED BY <2>5 DEF p
<1>5. ToSet(v) = ToSet(w) \cup {x}
    BY <1>0, Inserted, InsertPositionFacts
<1>6. Clear(g, o, v)
    <2> SUFFICES ASSUME NEW i \in ToSet(o), NEW j \in ToSet(v) PROVE Beside(g, i, j)
        BY DEF Clear, Beside
    <2>1. CASE j = x
        BY <1>2, <2>1
    <2>2. CASE j \in ToSet(w)
        <3>1. SameBounds(f, g, i) /\ SameBounds(f, g, j) /\ Beside(f, i, j)
            BY <1>0, <1>2, <2>2, ClearBeside
        <3> QED BY <3>1 DEF SameBounds, Beside
    <2> QED BY <1>5, <2>1, <2>2
<1> QED BY <1>3, <1>4, <1>6 DEF InOrder

AddFreedResult(f, o, w, start, size, done, v) ==
    /\ InOrder(done.ffa, o, v)
    /\ RegionsIn(done.ffa, o) = RegionsIn(f, o)
    /\ AddedTo(RegionsIn(f, w), RegionsIn(f, o), FF!Region(start, size), done.ret,
               RegionsIn(done.ffa, v))

LEMMA AddFreedStep ==
    ASSUME NEW f, NEW o, NEW w, Threaded(f, o, w), NEW start \in Nat \ {0}, NEW size \in Nat
    PROVE  LET done == AddFreedRegionToFreeList(f, start, size)
           IN \E v : /\ Threaded(done.ffa, o, v)
                     /\ InOrder(f, o, w) /\ 0 < size /\ Unlisted(f, o, w, start, size)
                            /\ FF!Region(start, size) \in FF!Regions
                        => AddFreedResult(f, o, w, start, size, done, v)
<1> DEFINE k == TouchPosition(f, w, start, size)
           n == w[k]
           x == FindFreeNode(f)
           r == FF!Region(start, size)
           T == TouchingIn(RegionsIn(f, w), r)
           grown == IF start + size = f.array[n].start
                    THEN [f EXCEPT !.array[n].start = start]
                    ELSE [f EXCEPT !.array[n].end = start + size]
           h == ListFreed(f, w, start, size)
           done == AddFreedRegionToFreeList(f, start, size)
           Fine == /\ InOrder(f, o, w) /\ 0 < size /\ Unlisted(f, o, w, start, size)
                   /\ r \in FF!Regions
           Good(v) == /\ Threaded(done.ffa, o, v)
                      /\ Fine => AddFreedResult(f, o, w, start, size, done, v)
<1> SUFFICES \E v : Good(v)
    OBVIOUS
<1>1. done = IF k > 0 THEN [ret |-> 0, ffa |-> grown]
             ELSE IF x = NIL THEN [ret |-> -1, ffa |-> f]
             ELSE [ret |-> 0, ffa |-> CombineAdjacentFreeNodes(h)]
    <2>1. FreeList(f) = w
        BY Walks
    <2> QED BY <2>1 DEF AddFreedRegionToFreeList, TouchPosition, ListFreed
<1>2. \/ k = 0 /\ T = {}
      \/ /\ k \in 1 .. Len(w)
         /\ start + size = f.array[n].start \/ f.array[n].end = start
         /\ Ordered(f, w) => T # {} /\ FF!Lowest(T) = Bounds(f, n)
    <2>1. w \in Seq(Nodes)
        BY ThreadedFacts
    <2> QED BY <2>1, FirstThatTouches DEF r
<1> HIDE DEF k, x, grown, h, done, T, r
<1>3. CASE k = 0 /\ T = {}
    <2>1. CASE x = NIL
        <3>1. done.ffa = f /\ done.ret = -1
            BY <1>1, <1>3, <2>1
        <3>2. ASSUME Fine PROVE AddedTo(RegionsIn(f, w), RegionsIn(f, o), r, -1, RegionsIn(f, w))
            <4>1. ~FF!NodeLeft(RegionsIn(f, w), RegionsIn(f, o))
                BY <2>1, <3>2, NodeLeftIff DEF InOrder, x
            <4> QED BY <1>3, <4>1 DEF AddedTo, T
        <3>3. Good(w)
            BY <3>1, <3>2 DEF AddFreedResult, r
        <3> QED BY <3>3
    <2>2. CASE x # NIL
        <3> DEFINE u == InsertedAt(w, InsertPosition(f, w, start), x)
        <3>1. done = [ret |-> 0, ffa |-> CombineAdjacentFreeNodes(h)]
            BY <1>1, <1>3, <2>2
        <3>2. /\ x \in Nodes \ UsedNodes(f) /\ Threaded(h, o, u)
              /\ h.array[x].start = start /\ h.array[x].end = start + size
              /\ \A i \in Nodes \ {x} : SameBounds(f, h, i)
            BY <2>2, InsertFreed DEF x, h
        <3>3. ASSUME Fine
              PROVE  /\ InOrder(h, o, u) /\ RegionsIn(h, o) = RegionsIn(f, o)
                     /\ RegionsIn(h, u) = RegionsIn(f, w) \cup {r}
            <4>1. /\ InOrder(h, o, u) /\ RegionsIn(h, o) = RegionsIn(f, o)
                  /\ RegionsIn(h, u) = RegionsIn(f, w) \cup {Bounds(h, x)}
                BY <3>2, <3>3, ListedInOrder DEF r
            <4>2. Bounds(h, x) = r
                BY <3>2 DEF Bounds, r, FF!Region
            <4> QED BY <4>1, <4>2
        <3> HIDE DEF u
        <3> DEFINE g == CombineAdjacentFreeNodes(h)
        <3>4. PICK v : /\ Threaded(g, o, v)
                       /\ \A i \in ToSet(o) : SameBounds(h, g, i)
                       /\ InOrder(h, o, u) =>
                             /\ InOrder(g, o, v)
                             /\ RegionsIn(g, v) = FF!CombineAdjacentFreeNodes(RegionsIn(h, u))
            BY <3>2, CombineAll
        <3> HIDE DEF g
        <3>5. RegionsIn(g, o) = RegionsIn(h, o)
            BY <3>4, SameRegions, ThreadedFacts
        <3>6. ASSUME Fine
              PROVE  AddedTo(RegionsIn(f, w), RegionsIn(f, o), r, 0, RegionsIn(g, v))
            <4>1. FF!NodeLeft(RegionsIn(f, w), RegionsIn(f, o))
                BY <2>2, <3>6, NodeLeftIff DEF InOrder, x
            <4>2. RegionsIn(g, v) = FF!CombineAdjacentFreeNodes(RegionsIn(f, w) \cup {r})
                BY <3>3, <3>4, <3>6
            <4> QED BY <1>3, <4>1, <4>2 DEF AddedTo, T
        <3>7. done.ffa = g /\ done.ret = 0
            BY <3>1 DEF g
        <3>8. Good(v)
            BY <3>3, <3>4, <3>5, <3>6, <3>7 DEF AddFreedResult, r
        <3> QED BY <3>8
    <2> QED BY <2>1, <2>2
<1>4. CASE k # 0
    <2>1. /\ k \in 1 .. Len(w)
          /\ start + size = f.array[n].start \/ f.array[n].end = start
          /\ Ordered(f, w) => T # {} /\ FF!Lowest(T) = Bounds(f, n)
        BY <1>2, <1>4
    <2>2. /\ f \in FFAs /\ f.array \in Arrays /\ n \in Nodes /\ n \in ToSet(w)
          /\ f.array[n].start \in Nat \ {0} /\ f.array[n].end \in Nat
        BY <2>1, ThreadedFacts DEF Threaded, UsedNodes, NULL
    <2>3. done.ffa = grown /\ done.ret = 0
        <3>1. k > 0
            BY <2>1
        <3> QED BY <1>1, <3>1
    <2> HIDE DEF n
    <2>4. /\ grown \in FFAs
          /\ grown.occupied_head = f.occupied_head /\ grown.free_head = f.free_head
          /\ grown.array[n].next = f.array[n].next
          /\ \A i \in Nodes \ {n} : grown.array[i] = f.array[i]
          /\ \/ /\ start + size = f.array[n].start
                /\ grown.array[n].start = start /\ grown.array[n].end = f.array[n].end
             \/ /\ start + size # f.array[n].start
                /\ grown.array[n].start = f.array[n].start
                /\ grown.array[n].end = start + size
        <3>1. CASE start + size = f.array[n].start
            <4> DEFINE arr == [f.array EXCEPT ![n].start = start]
            <4>1. grown = [f EXCEPT !.array = arr]
                BY <3>1 DEF grown
            <4>2. /\ arr \in Arrays /\ arr[n].start = start
                  /\ arr[n].end = f.array[n].end /\ arr[n].next = f.array[n].next
                  /\ \A i \in Nodes \ {n} : arr[i] = f.array[i]
                BY <2>2 DEF Arrays
            <4> HIDE DEF arr
            <4> QED BY <2>2, <3>1, <4>1, <4>2 DEF FFAs
        <3>2. CASE start + size # f.array[n].start
            <4> DEFINE arr == [f.array EXCEPT ![n].end = start + size]
            <4>1. grown = [f EXCEPT !.array = arr]
                BY <3>2 DEF grown
            <4>2. /\ arr \in Arrays /\ arr[n].end = start + size
                  /\ arr[n].start = f.array[n].start /\ arr[n].next = f.array[n].next
                  /\ \A i \in Nodes \ {n} : arr[i] = f.array[i]
                BY <2>2 DEF Arrays
            <4> HIDE DEF arr
            <4> QED BY <2>2, <3>2, <4>1, <4>2 DEF FFAs
        <3> QED BY <3>1, <3>2
    <2> HIDE DEF grown
    <2>5. UsedNodes(grown) = UsedNodes(f)
        BY <2>2, <2>4 DEF UsedNodes, NULL
    <2>6. Threaded(grown, o, w)
        BY <2>2, <2>4, <2>5, SameLinks
    <2>7. ASSUME Fine
          PROVE  /\ InOrder(grown, o, w) /\ RegionsIn(grown, o) = RegionsIn(f, o)
                 /\ AddedTo(RegionsIn(f, w), RegionsIn(f, o), r, 0, RegionsIn(grown, w))
        <3>1. T # {} /\ FF!Lowest(T) = Bounds(f, n)
            BY <2>1, <2>7 DEF InOrder
        <3>2. Bounds(grown, n) = FF!Absorb(Bounds(f, n), r)
            BY <2>2, <2>4 DEF Bounds, FF!Absorb, r, FF!Region
        <3>3. \A i \in Nodes \ {n} : SameBounds(f, grown, i)
            BY <2>4 DEF SameBounds
        <3>4. /\ InOrder(grown, o, w) /\ RegionsIn(grown, o) = RegionsIn(f, o)
              /\ RegionsIn(grown, w) = (RegionsIn(f, w) \ {Bounds(f, n)}) \cup {Bounds(grown, n)}
            BY <2>1, <2>7, <3>2, <3>3, AbsorbInOrder DEF n, r
        <3> QED BY <3>1, <3>2, <3>4 DEF AddedTo, T
    <2>8. Good(w)
        BY <2>3, <2>6, <2>7 DEF AddFreedResult, r
    <2> QED BY <2>8
<1> QED BY <1>2, <1>3, <1>4

\* What Free(a, n) of FirstFit makes of free regions F and occupied regions O when it
\* returns ret; r is the region that holds a, if there is one.
FreedFrom(F, O, r, a, n, ret, F2, O2) ==
    LET Holding == {q \in O : q.start <= a /\ a < q.end}
    IN \/ Holding = {} /\ ret = -1 /\ F2 = F /\ O2 = O
       \/ (\E q \in Holding : FF!Size(q) < n) /\ ret = -2 /\ F2 = F /\ O2 = O
       \/ /\ r \in O /\ r.start = a /\ 0 < n /\ n <= FF!Size(r)
          /\ O2 = (O \ {r}) \cup IF n = FF!Size(r) THEN {} ELSE {FF!Rest(r, n)}
          /\ AddedTo(F, O2, FF!Region(a, n), ret, F2)

LEMMA FreeStep ==
    ASSUME NEW f, NEW o, NEW w, Threaded(f, o, w), NEW a \in Nat \ {0}, NEW size \in Nat
    PROVE  LET done == FreeCall(f, a, size)
               n == FindOccupiedMemoryRegionNode(f, a)
           IN \E u, v : /\ Threaded(done.ffa, u, v)
                        /\ InOrder(f, o, w)
                             /\ (n # NIL /\ NodeSize(f, n) >= size
                                    => a = f.array[n].start /\ 0 < size)
                           => /\ InOrder(done.ffa, u, v)
                              /\ FreedFrom(RegionsIn(f, w), RegionsIn(f, o), Bounds(f, n), a,
                                           size, done.ret, RegionsIn(done.ffa, v),
                                           RegionsIn(done.ffa, u))
<1> DEFINE n == FindOccupiedMemoryRegionNode(f, a)
           g == Released(f, n, size)
           done == FreeCall(f, a, size)
           F == RegionsIn(f, w)
           O == RegionsIn(f, o)
           r == Bounds(f, n)
           Fine == /\ InOrder(f, o, w)
                   /\ (n # NIL /\ NodeSize(f, n) >= size => a = f.array[n].start /\ 0 < size)
           Good(u, v) == /\ Threaded(done.ffa, u, v)
                         /\ Fine => /\ InOrder(done.ffa, u, v)
                                    /\ FreedFrom(F, O, r, a, size, done.ret,
                                                 RegionsIn(done.ffa, v), RegionsIn(done.ffa, u))
<1> SUFFICES \E u, v : Good(u, v)
    OBVIOUS
<1>1. done = IF n = NIL THEN [ffa |-> f, ret |-> -1]
             ELSE IF NodeSize(f, n) < size THEN [ffa |-> f, ret |-> -2]
             ELSE AddFreedRegionToFreeList(g, a, size)
    BY DEF FreeCall, Released
<1>2. \/ /\ n = NIL
         /\ Ordered(f, o) => \A q \in RegionsIn(f, o) : ~(q.start <= a /\ a < q.end)
      \/ /\ n \in ToSet(o) /\ n # NIL
         /\ Ordered(f, o) => f.array[n].start <= a /\ a < f.array[n].end
    BY NodeThatHolds
<1> HIDE DEF n, g, done, F, O
<1>3. CASE n = NIL
    <2>1. done.ffa = f /\ done.ret = -1
        BY <1>1, <1>3
    <2>2. Ordered(f, o) => \A q \in O : ~(q.start <= a /\ a < q.end)
        BY <1>2, <1>3 DEF O
    <2>3. ASSUME Fine PROVE FreedFrom(F, O, r, a, size, -1, F, O)
        BY <2>2, <2>3 DEF FreedFrom, InOrder
    <2>4. Good(o, w)
        BY <2>1, <2>3 DEF F, O
    <2> QED BY <2>4
<1>4. CASE n # NIL
    <2>1. /\ n \in ToSet(o) /\ n \in Nodes
          /\ Ordered(f, o) => f.array[n].start <= a /\ a < f.array[n].end
        BY <1>2, <1>4, ThreadedFacts
    <2>2. /\ r \in O /\ r.start = f.array[n].start /\ r.end = f.array[n].end
          /\ FF!Size(r) = NodeSize(f, n)
        BY <2>1 DEF O, RegionsIn, Bounds, FF!Size, NodeSize
    <2>3. f.array[n].start \in Nat /\ f.array[n].end \in Nat /\ NodeSize(f, n) \in Int
        BY <2>1, ThreadedFacts DEF NodeSize
    <2>4. CASE NodeSize(f, n) < size
        <3>1. done.ffa = f /\ done.ret = -2
            BY <1>1, <1>4, <2>4
        <3>2. ASSUME Fine PROVE FreedFrom(F, O, r, a, size, -2, F, O)
            <4>1. r.start <= a /\ a < r.end /\ FF!Size(r) < size
                BY <2>1, <2>2, <2>4, <3>2 DEF InOrder
            <4> HIDE DEF r
            <4> QED BY <2>2, <4>1 DEF FreedFrom
        <3>3. Good(o, w)
            BY <3>1, <3>2 DEF F, O
        <3> QED BY <3>3
    <2>5. CASE ~(NodeSize(f, n) < size)
        <3>1. done = AddFreedRegionToFreeList(g, a, size)
            BY <1>1, <1>4, <2>5
        <3>2. PICK u : /\ Threaded(g, u, w)
                       /\ InOrder(f, o, w) /\ 0 < size /\ size <= NodeSize(f, n)
                            => ReleaseResult(f, g, o, u, w, n, size)
            BY <2>1, ReleaseStep DEF g
        <3>3. PICK v : /\ Threaded(done.ffa, u, v)
                       /\ InOrder(g, u, w) /\ 0 < size /\ Unlisted(g, u, w, a, size)
                              /\ FF!Region(a, size) \in FF!Regions
                          => AddFreedResult(g, u, w, a, size, done, v)
            BY <3>1, <3>2, AddFreedStep
        <3>4. ASSUME Fine
              PROVE  /\ InOrder(done.ffa, u, v)
                     /\ FreedFrom(F, O, r, a, size, done.ret, RegionsIn(done.ffa, v),
                                  RegionsIn(done.ffa, u))
            <4>1. size <= NodeSize(f, n) /\ NodeSize(f, n) >= size
                BY <2>3, <2>5
            <4>2. InOrder(f, o, w) /\ 0 < size /\ a = f.array[n].start
                BY <1>4, <3>4, <4>1
            <4>3. /\ InOrder(g, u, w) /\ RegionsIn(g, w) = F
                  /\ RegionsIn(g, u) = (O \ {r}) \cup IF size = FF!Size(r) THEN {}
                                                      ELSE {FF!Rest(r, size)}
                  /\ Unlisted(g, u, w, a, size)
                BY <2>2, <3>2, <4>1, <4>2 DEF ReleaseResult, F, O
            <4>4. FF!Region(a, size) \in FF!Regions
                <5>1. Start <= f.array[n].start /\ f.array[n].end <= End
                    BY <2>1, <4>2, NodeBounds, ThreadedFacts DEF InOrder
                <5>2. Start <= a /\ a < a + size /\ a + size <= End
                    BY <2>3, <4>1, <4>2, <5>1, PoolAssumption DEF NodeSize
                <5> QED BY <5>2, PoolAssumption DEF FF!Region, FF!Regions
            <4>5. AddFreedResult(g, u, w, a, size, done, v)
                BY <3>3, <4>2, <4>3, <4>4
            <4>6. /\ InOrder(done.ffa, u, v) /\ RegionsIn(done.ffa, u) = RegionsIn(g, u)
                  /\ AddedTo(F, RegionsIn(g, u), FF!Region(a, size), done.ret,
                             RegionsIn(done.ffa, v))
                BY <4>3, <4>5 DEF AddFreedResult
            <4> HIDE DEF r
            <4> QED BY <2>2, <4>1, <4>2, <4>3, <4>6 DEF FreedFrom
        <3>5. Good(u, v)
            BY <3>3, <3>4
        <3> QED BY <3>5
    <2> QED BY <2>4, <2>5
<1> QED BY <1>3, <1>4

-------------------------------------------------------------------------------
(* The inductive invariant.                                                *)

\* The lists thread the used nodes, and as long as callers free from the start of a
\* region they are sorted and share no address.
Linked == Threaded(ffa, OccupiedList(ffa), FreeList(ffa))
Sorted == client # "any" => InOrder(ffa, OccupiedList(ffa), FreeList(ffa))
LinkInv == client \in Clients /\ Linked /\ Sorted

\* One free node and no other in use.
LEMMA InitThreaded ==
    ASSUME Init PROVE Threaded(ffa, << >>, <<0>>)
<1> DEFINE w == <<0>>
<1>1. /\ ffa.occupied_head = NIL /\ ffa.free_head = 0
      /\ ffa.array = [i \in Nodes |->
                        IF i = 0 THEN [start |-> Start, end |-> End, next |-> NIL]
                                 ELSE EmptyNode]
      /\ ffa = [array |-> ffa.array, occupied_head |-> NIL, free_head |-> 0]
      /\ client \in Clients
    BY DEF Init
<1>2. 0 \in Nodes /\ Start \in Nat \ {0} /\ End \in Nat /\ Start < End
    BY TableLenAssumption, PoolAssumption DEF Nodes
<1>3. ffa.array \in Arrays /\ ffa.array[0] = [start |-> Start, end |-> End, next |-> NIL]
      /\ \A i \in Nodes \ {0} : ffa.array[i] = EmptyNode
    BY <1>1, <1>2 DEF Arrays, EmptyNode, NULL, NIL, Links
<1>4. ffa \in FFAs
    BY <1>1, <1>2, <1>3 DEF FFAs, Links
<1>5. w \in Seq(Nodes) /\ Len(w) = 1 /\ w[1] = 0 /\ DOMAIN w = {1} /\ ToSet(w) = {0}
    BY <1>2 DEF ToSet
<1>6. /\ << >> \in Seq(Nodes) /\ Len(<< >>) = 0 /\ DOMAIN << >> = {} /\ ToSet(<< >>) = {}
    BY DEF ToSet
<1>7. Chain(ffa.array, ffa.occupied_head, << >>)
    BY <1>1, <1>6 DEF Chain, At, IsInjective
<1> HIDE DEF w
<1>8. Chain(ffa.array, ffa.free_head, w)
    BY <1>1, <1>3, <1>5 DEF Chain, At, IsInjective
<1>9. UsedNodes(ffa) = {0}
    BY <1>2, <1>3 DEF UsedNodes, EmptyNode, NULL
<1>10. Threaded(ffa, << >>, w)
    BY <1>4, <1>5, <1>6, <1>7, <1>8, <1>9 DEF Threaded
<1> QED BY <1>10 DEF w

LEMMA InitLinks == Init => LinkInv
<1> SUFFICES ASSUME Init PROVE LinkInv
    OBVIOUS
<1> DEFINE w == <<0>>
<1>1. Threaded(ffa, << >>, w)
    BY InitThreaded
<1>2. OccupiedList(ffa) = << >> /\ FreeList(ffa) = w
    BY <1>1, Walks
<1>3. Len(<< >>) = 0 /\ ToSet(<< >>) = {} /\ Len(w) = 1 /\ w[1] = 0
    BY DEF ToSet
<1> HIDE DEF w
<1>4. /\ 0 \in Nodes /\ ffa.array[0].start = Start /\ ffa.array[0].end = End
      /\ Start \in Nat /\ End \in Nat /\ Start < End
    BY TableLenAssumption, PoolAssumption DEF Nodes, Init
<1>5. Ordered(ffa, << >>)
    BY <1>3 DEF Ordered
<1>6. Ordered(ffa, w)
    BY <1>3, <1>4 DEF Ordered, Bounds, FF!Regions
<1>7. Clear(ffa, << >>, w)
    BY <1>3 DEF Clear
<1>8. client \in Clients
    BY DEF Init
<1> QED BY <1>1, <1>2, <1>5, <1>6, <1>7, <1>8 DEF LinkInv, Linked, Sorted, InOrder

\* The regions of the two lists are the variables of FirstFit.
FreeRegions == RegionsIn(ffa, FreeList(ffa))
OccRegions == RegionsIn(ffa, OccupiedList(ffa))

LEMMA RegionsAre ==
    /\ RegionsOf(FreeList(ffa)) = FreeRegions
    /\ RegionsOf(OccupiedList(ffa)) = OccRegions
    /\ RegionsOf(FreeList(ffa))' = FreeRegions'
    /\ RegionsOf(OccupiedList(ffa))' = OccRegions'
BY DEF RegionsOf, FreeRegions, OccRegions, RegionsIn, Bounds

\* What a step leads to is what the walks of the next state find.
LEMMA NextLinks ==
    ASSUME NEW u, NEW v, Threaded(ffa', u, v), LinkInv, UNCHANGED client,
           client # "any" => InOrder(ffa', u, v)
    PROVE  /\ LinkInv'
           /\ FreeRegions' = RegionsIn(ffa', v) /\ OccRegions' = RegionsIn(ffa', u)
<1>1. OccupiedList(ffa') = u /\ FreeList(ffa') = v
    BY Walks
<1>2. OccupiedList(ffa)' = u /\ FreeList(ffa)' = v
    BY <1>1 DEF OccupiedList, FreeList
<1>3. FreeRegions' = RegionsIn(ffa', v) /\ OccRegions' = RegionsIn(ffa', u)
    BY <1>2 DEF FreeRegions, OccRegions, RegionsIn, Bounds
<1>4. Linked' /\ Sorted' /\ (client \in Clients)'
    BY <1>2 DEF Linked, Sorted, LinkInv
<1> QED BY <1>3, <1>4 DEF LinkInv

LEMMA AllocateLinks ==
    ASSUME LinkInv, NEW size \in Sizes, Allocate(size)
    PROVE  /\ LinkInv'
           /\ client # "any" =>
                 AllocatedFrom(FreeRegions, OccRegions, size, call'.ret, FreeRegions', OccRegions')
<1> DEFINE o == OccupiedList(ffa)
           w == FreeList(ffa)
           done == AllocateCall(ffa, size)
<1>1. Threaded(ffa, o, w) /\ (client # "any" => InOrder(ffa, o, w)) /\ size \in Nat
    BY SizesAssumption DEF LinkInv, Linked, Sorted
<1>2. /\ ffa' = done.ffa /\ call' = Allocated(size, done.ret) /\ UNCHANGED client
      /\ call'.ret = done.ret
    BY DEF Allocate, Allocated
<1> HIDE DEF o, w
<1>3. PICK u, v : /\ Threaded(done.ffa, u, v)
                  /\ InOrder(ffa, o, w) =>
                        /\ InOrder(done.ffa, u, v)
                        /\ AllocatedFrom(RegionsIn(ffa, w), RegionsIn(ffa, o), size, done.ret,
                                         RegionsIn(done.ffa, v), RegionsIn(done.ffa, u))
    BY <1>1, AllocateStep
<1> HIDE DEF done
<1>4. Threaded(ffa', u, v) /\ (client # "any" => InOrder(ffa', u, v))
    BY <1>1, <1>2, <1>3
<1>5. LinkInv' /\ FreeRegions' = RegionsIn(ffa', v) /\ OccRegions' = RegionsIn(ffa', u)
    BY <1>2, <1>4, NextLinks
<1>6. FreeRegions = RegionsIn(ffa, w) /\ OccRegions = RegionsIn(ffa, o)
    BY DEF FreeRegions, OccRegions, w, o
<1> QED BY <1>1, <1>2, <1>3, <1>5, <1>6

\* Callers of FirstFit free from the start of a region, and more than nothing.
LEMMA MayFreeStart ==
    ASSUME LinkInv, client # "any", NEW a, NEW size, MayFree(a, size),
           NEW n, n = FindOccupiedMemoryRegionNode(ffa, a),
           n # NIL, NodeSize(ffa, n) >= size
    PROVE  /\ a = ffa.array[n].start /\ 0 < size
           /\ client = "whole" => size = NodeSize(ffa, n)
<1> DEFINE o == OccupiedList(ffa)
           w == FreeList(ffa)
<1>1. Threaded(ffa, o, w) /\ InOrder(ffa, o, w)
    BY DEF LinkInv, Linked, Sorted
<1>2. \/ client = "prefix" /\ a = ffa.array[n].start /\ size > 0
      \/ a = ffa.array[n].start /\ size = NodeSize(ffa, n)
    BY DEF MayFree
<1> HIDE DEF o, w
<1>3. n \in ToSet(o)
    BY <1>1, NodeThatHolds
<1>4. ffa.array[n].start \in Nat /\ ffa.array[n].end \in Nat
      /\ ffa.array[n].start < ffa.array[n].end
    BY <1>1, <1>3, NodeBounds, ThreadedFacts DEF InOrder
<1> QED BY <1>2, <1>4 DEF NodeSize

LEMMA FreeLinks ==
    ASSUME LinkInv, NEW a \in Pool, NEW size \in Sizes, Free(a, size)
    PROVE  /\ LinkInv'
           /\ client # "any" =>
                 \E r : /\ FreedFrom(FreeRegions, OccRegions, r, a, size, call'.ret,
                                     FreeRegions', OccRegions')
                        /\ (client = "whole" /\ r \in OccRegions /\ r.start = a
                               /\ 0 < size /\ size <= FF!Size(r)) => size = FF!Size(r)
<1> DEFINE o == OccupiedList(ffa)
           w == FreeList(ffa)
           n == FindOccupiedMemoryRegionNode(ffa, a)
           r == Bounds(ffa, n)
           done == FreeCall(ffa, a, size)
<1>1. /\ Threaded(ffa, o, w) /\ (client # "any" => InOrder(ffa, o, w))
      /\ size \in Nat /\ a \in Nat \ {0}
    BY SizesAssumption, PoolAssumption DEF LinkInv, Linked, Sorted, Pool
<1>2. /\ ffa' = done.ffa /\ call' = Freed(a, size, done.ret) /\ UNCHANGED client
      /\ call'.ret = done.ret
    BY DEF Free, Freed
<1>3. ASSUME client # "any", n # NIL, NodeSize(ffa, n) >= size
      PROVE  /\ a = ffa.array[n].start /\ 0 < size
             /\ client = "whole" => size = NodeSize(ffa, n)
    BY <1>3, MayFreeStart DEF Free
<1> HIDE DEF o, w
<1>4. PICK u, v : /\ Threaded(done.ffa, u, v)
                  /\ InOrder(ffa, o, w)
                       /\ (n # NIL /\ NodeSize(ffa, n) >= size
                              => a = ffa.array[n].start /\ 0 < size)
                     => /\ InOrder(done.ffa, u, v)
                        /\ FreedFrom(RegionsIn(ffa, w), RegionsIn(ffa, o), r, a,
                                     size, done.ret, RegionsIn(done.ffa, v),
                                     RegionsIn(done.ffa, u))
    BY <1>1, FreeStep
<1> HIDE DEF done
<1>5. Threaded(ffa', u, v) /\ (client # "any" => InOrder(ffa', u, v))
    BY <1>1, <1>2, <1>3, <1>4
<1>6. LinkInv' /\ FreeRegions' = RegionsIn(ffa', v) /\ OccRegions' = RegionsIn(ffa', u)
    BY <1>2, <1>5, NextLinks
<1>7. FreeRegions = RegionsIn(ffa, w) /\ OccRegions = RegionsIn(ffa, o)
    BY DEF FreeRegions, OccRegions, w, o
<1>8. ASSUME client # "any"
      PROVE  FreedFrom(FreeRegions, OccRegions, r, a, size, call'.ret, FreeRegions', OccRegions')
    BY <1>1, <1>2, <1>3, <1>4, <1>6, <1>7, <1>8
<1>9. ASSUME client = "whole", r \in OccRegions, r.start = a, 0 < size, size <= FF!Size(r)
      PROVE  size = FF!Size(r)
    <2>1. InOrder(ffa, o, w) /\ client # "any"
        BY <1>1, <1>9
    <2>2. r.start \in Nat /\ r.end \in Nat
        BY <1>7, <1>9, <2>1, <1>1, ThreadedFacts, OrderedSeparate, SeparateFacts DEF InOrder
    <2>3. FF!Size(r) = r.end - r.start /\ a < r.end
        BY <1>1, <1>9, <2>2 DEF FF!Size
    <2>4. n # NIL
        <3>1. \/ n = NIL /\ \A q \in RegionsIn(ffa, o) : ~(q.start <= a /\ a < q.end)
              \/ n # NIL
            BY <1>1, <2>1, NodeThatHolds DEF InOrder
        <3>2. r.start <= a
            BY <1>9, <2>2
        <3> QED BY <1>7, <1>9, <2>3, <3>1, <3>2
    <2>5. NodeSize(ffa, n) = FF!Size(r)
        BY <2>3 DEF NodeSize, Bounds
    <2>6. NodeSize(ffa, n) >= size
        BY <1>1, <1>9, <2>2, <2>3, <2>5
    <2> QED BY <1>3, <1>9, <2>1, <2>4, <2>5, <2>6
<1> HIDE DEF r, n
<1>10. (client = "whole" /\ r \in OccRegions /\ r.start = a
           /\ 0 < size /\ size <= FF!Size(r)) => size = FF!Size(r)
    BY <1>9
<1>11. ASSUME client # "any"
       PROVE  \E q : /\ FreedFrom(FreeRegions, OccRegions, q, a, size, call'.ret,
                                  FreeRegions', OccRegions')
                     /\ (client = "whole" /\ q \in OccRegions /\ q.start = a
                            /\ 0 < size /\ size <= FF!Size(q)) => size = FF!Size(q)
    BY <1>8, <1>10, <1>11
<1> QED BY <1>6, <1>11

LEMMA StepLinks == LinkInv /\ [Next]_vars => LinkInv'
<1> SUFFICES ASSUME LinkInv, [Next]_vars PROVE LinkInv'
    OBVIOUS
<1>1. ASSUME NEW size \in Sizes, Allocate(size) PROVE LinkInv'
    BY <1>1, AllocateLinks
<1>2. ASSUME NEW start \in Pool, NEW size \in Sizes, Free(start, size) PROVE LinkInv'
    BY <1>2, FreeLinks
<1>3. CASE UNCHANGED vars
    BY <1>3 DEF vars, LinkInv, Linked, Sorted, OccupiedList, FreeList
<1> QED BY <1>1, <1>2, <1>3 DEF Next

\* The links of the two lists are threaded right in every state.
THEOREM LinksHold == Spec => []LinkInv
<1> QED BY InitLinks, StepLinks, PTL DEF Spec

-------------------------------------------------------------------------------
(* The properties the runs check.                                          *)

\* The fields of the table hold what MemoryChunk declares (FirstFitAllocator.h),
\* whatever the callers free.
THEOREM FirstFitAllocatorTypes == Spec => []TypeOK
<1>1. LinkInv => TypeOK
    BY DEF LinkInv, Linked, Threaded, FFAs, Arrays, Links, TypeOK
<1> QED BY <1>1, LinksHold, PTL

\* No call leaks a node of the table, puts one on both lists or makes a list a loop,
\* whatever the callers free (the check commented out at FirstFitAllocator.cc:540-554).
THEOREM ListsHoldEveryUsedNode == Spec => []ListsPartitionTable
<1>1. LinkInv => ListsPartitionTable
    BY DEF LinkInv, Linked, Threaded, Chain, UsedNodes, ListsPartitionTable
<1> QED BY <1>1, LinksHold, PTL

\* For callers that free from the start of a region both lists stay sorted by address,
\* on which first fit, the insertions and CombineAdjacentFreeNodes rely.
THEOREM ListsStaySorted == Spec => []ListsSorted
<1>1. LinkInv => ListsSorted
    <2> SUFFICES ASSUME LinkInv, client # "any",
                        NEW w \in {OccupiedList(ffa), FreeList(ffa)}, NEW k \in 2 .. Len(w)
                 PROVE  ffa.array[w[k - 1]].end <= ffa.array[w[k]].start
        BY DEF ListsSorted
    <2>1. Ordered(ffa, w)
        BY DEF LinkInv, Sorted, InOrder
    <2>2. Len(w) \in Nat
        <3>1. Len(OccupiedList(ffa)) \in Nat /\ Len(FreeList(ffa)) \in Nat
            BY ThreadedFacts DEF LinkInv, Linked
        <3> QED BY <3>1
    <2>3. k - 1 \in 1 .. Len(w) /\ k \in 1 .. Len(w) /\ k - 1 < k
        BY <2>2
    <2> QED BY <2>1, <2>3 DEF Ordered
<1> QED BY <1>1, LinksHold, PTL

-------------------------------------------------------------------------------
(* The table of nodes implements the sets of regions of FirstFit.          *)

\* Initialize: the whole pool is one free region.
LEMMA InitRefines == Init /\ client # "any" => FF!Init
<1> SUFFICES ASSUME Init, client # "any" PROVE FF!Init
    OBVIOUS
<1> DEFINE w == <<0>>
<1>1. Threaded(ffa, << >>, w)
    BY InitThreaded
<1>2. OccupiedList(ffa) = << >> /\ FreeList(ffa) = w
    BY <1>1, Walks
<1>3. ToSet(<< >>) = {} /\ ToSet(w) = {0}
    BY DEF ToSet
<1> HIDE DEF w
<1>4. /\ 0 \in Nodes /\ ffa.array[0].start = Start /\ ffa.array[0].end = End
      /\ Start + (End - Start) = End
    BY TableLenAssumption, PoolAssumption DEF Nodes, Init
<1>5. RegionsOf(FreeList(ffa)) = {FF!Region(Start, End - Start)}
    BY <1>2, <1>3, <1>4 DEF RegionsOf, FF!Region
<1>6. RegionsOf(OccupiedList(ffa)) = {}
    BY <1>2, <1>3 DEF RegionsOf
<1>7. call = FF!Allocated(0, FF!NULL) /\ client \in Clients \ {"any"}
    BY DEF Init, Allocated, NULL, FF!Allocated, FF!NULL
<1> QED BY <1>5, <1>6, <1>7 DEF FF!Init

\* The cases of AllocatedFrom are the disjuncts of FirstFit's Allocate.
LEMMA AllocateRefines ==
    ASSUME NEW size \in Nat, call' = Allocated(size, call'.ret), UNCHANGED client,
           AllocatedFrom(FreeRegions, OccRegions, size, call'.ret, FreeRegions', OccRegions')
    PROVE  FF!Allocate(size)
<1> DEFINE Fit == {r \in FreeRegions : FF!Size(r) >= size}
           r == FF!Lowest(Fit)
<1>1. FF!Fits(size) = Fit
    BY RegionsAre DEF FF!Fits
<1>2. \A p : FF!Allocated(size, p) = Allocated(size, p)
    BY DEF Allocated, NULL, FF!Allocated, FF!NULL
<1>3. \/ /\ size = 0 \/ Fit = {}
               \/ (Fit # {} /\ FF!Size(r) # size /\ ~FF!NodeLeft(FreeRegions, OccRegions))
         /\ call'.ret = NULL /\ FreeRegions' = FreeRegions /\ OccRegions' = OccRegions
      \/ /\ size > 0 /\ Fit # {} /\ FF!Size(r) = size
         /\ call'.ret = r.start /\ FreeRegions' = FreeRegions \ {r}
         /\ OccRegions' = OccRegions \cup {r}
      \/ /\ size > 0 /\ Fit # {} /\ FF!Size(r) # size /\ FF!NodeLeft(FreeRegions, OccRegions)
         /\ call'.ret = r.start
         /\ FreeRegions' = (FreeRegions \ {r}) \cup {FF!Rest(r, size)}
         /\ OccRegions' = OccRegions \cup {FF!Region(r.start, size)}
    BY DEF AllocatedFrom
<1> HIDE DEF Fit, r
<1>4. /\ FF!Lowest(FF!Fits(size)) = r
      /\ \A p : call'.ret = p => call' = FF!Allocated(size, p)
    BY <1>1, <1>2 DEF r
<1>5. CASE /\ size = 0 \/ Fit = {}
                 \/ (Fit # {} /\ FF!Size(r) # size /\ ~FF!NodeLeft(FreeRegions, OccRegions))
           /\ call'.ret = NULL /\ FreeRegions' = FreeRegions /\ OccRegions' = OccRegions
    <2>1. FF!AllocateNull(size)
        BY <1>1, <1>4, <1>5, RegionsAre DEF FF!AllocateNull, NULL, FF!NULL
    <2> QED BY <2>1 DEF FF!Allocate
<1>6. CASE /\ size > 0 /\ Fit # {} /\ FF!Size(r) = size
           /\ call'.ret = r.start /\ FreeRegions' = FreeRegions \ {r}
           /\ OccRegions' = OccRegions \cup {r}
    <2>1. FF!AllocateExact(size)
        BY <1>1, <1>4, <1>6, RegionsAre DEF FF!AllocateExact
    <2> QED BY <2>1 DEF FF!Allocate
<1>7. CASE /\ size > 0 /\ Fit # {} /\ FF!Size(r) # size
           /\ FF!NodeLeft(FreeRegions, OccRegions) /\ call'.ret = r.start
           /\ FreeRegions' = (FreeRegions \ {r}) \cup {FF!Rest(r, size)}
           /\ OccRegions' = OccRegions \cup {FF!Region(r.start, size)}
    <2>1. FF!AllocateSplit(size)
        BY <1>1, <1>4, <1>7, RegionsAre DEF FF!AllocateSplit
    <2> QED BY <2>1 DEF FF!Allocate
<1> QED BY <1>3, <1>5, <1>6, <1>7

\* AddedTo is FirstFit's AddFreedRegionToFreeList.
LEMMA AddedIsAdded ==
    ASSUME NEW r, NEW O, NEW ret, NEW F2, AddedTo(FreeRegions, O, r, ret, F2)
    PROVE  FF!AddFreedRegionToFreeList(r, O) = [ret |-> ret, free |-> F2]
<1>1. FF!Touching(r) = TouchingIn(FreeRegions, r)
    BY RegionsAre DEF FF!Touching, TouchingIn
<1> QED BY <1>1, RegionsAre DEF AddedTo, FF!AddFreedRegionToFreeList

\* The cases of FreedFrom are the disjuncts of FirstFit's Next that free.
LEMMA FreeRefines ==
    ASSUME NEW a \in Pool, NEW size \in Sizes, NEW r,
           call' = Freed(a, size, call'.ret), UNCHANGED client,
           FreedFrom(FreeRegions, OccRegions, r, a, size, call'.ret, FreeRegions', OccRegions'),
           (client = "whole" /\ r \in OccRegions /\ r.start = a
                /\ 0 < size /\ size <= FF!Size(r)) => size = FF!Size(r)
    PROVE  FF!Next
<1> DEFINE Holding == {q \in OccRegions : q.start <= a /\ a < q.end}
           O == (OccRegions \ {r}) \cup IF size = FF!Size(r) THEN {} ELSE {FF!Rest(r, size)}
<1>1. FF!Holding(a) = Holding
    BY RegionsAre DEF FF!Holding
<1>2. \A ret : call'.ret = ret => call' = FF!Freed(a, size, ret)
    BY DEF Freed, FF!Freed
<1>3. a \in FF!Pool
    BY DEF Pool, FF!Pool
<1>4. \/ Holding = {} /\ call'.ret = -1 /\ FreeRegions' = FreeRegions
            /\ OccRegions' = OccRegions
      \/ (\E q \in Holding : FF!Size(q) < size) /\ call'.ret = -2
            /\ FreeRegions' = FreeRegions /\ OccRegions' = OccRegions
      \/ /\ r \in OccRegions /\ r.start = a /\ 0 < size /\ size <= FF!Size(r)
         /\ OccRegions' = O
         /\ AddedTo(FreeRegions, OccRegions', FF!Region(a, size), call'.ret, FreeRegions')
    BY DEF FreedFrom
<1> HIDE DEF Holding, O
<1>5. CASE Holding = {} /\ call'.ret = -1 /\ FreeRegions' = FreeRegions
              /\ OccRegions' = OccRegions
    <2>1. FF!FreeRefused(a, size)
        BY <1>1, <1>2, <1>5, RegionsAre DEF FF!FreeRefused
    <2> QED BY <1>3, <2>1 DEF FF!Next
<1>6. CASE (\E q \in Holding : FF!Size(q) < size) /\ call'.ret = -2
              /\ FreeRegions' = FreeRegions /\ OccRegions' = OccRegions
    <2>1. FF!FreeRefused(a, size)
        BY <1>1, <1>2, <1>6, RegionsAre DEF FF!FreeRefused
    <2> QED BY <1>3, <2>1 DEF FF!Next
<1>7. CASE /\ r \in OccRegions /\ r.start = a /\ 0 < size /\ size <= FF!Size(r)
           /\ OccRegions' = O
           /\ AddedTo(FreeRegions, OccRegions', FF!Region(a, size), call'.ret, FreeRegions')
    <2>1. FF!AddFreedRegionToFreeList(FF!Region(a, size), O)
              = [ret |-> call'.ret, free |-> FreeRegions']
        BY <1>7, AddedIsAdded
    <2>2. client = "whole" => size = FF!Size(r)
        BY <1>7
    <2>3. call' = FF!Freed(r.start, size, call'.ret)
        BY <1>2, <1>7
    <2>4. FF!FreeRegion(r, size)
        BY <1>7, <2>1, <2>2, <2>3, RegionsAre DEF FF!FreeRegion, O
    <2>5. r \in RegionsOf(OccupiedList(ffa))
        BY <1>7, RegionsAre
    <2> QED BY <2>4, <2>5 DEF FF!Next
<1> QED BY <1>4, <1>5, <1>6, <1>7

LEMMA StepRefines == LinkInv /\ [Next]_vars => [client # "any" => FF!Next]_vars
<1> SUFFICES ASSUME LinkInv, Next, client # "any" PROVE FF!Next
    OBVIOUS
<1>1. ASSUME NEW size \in Sizes, Allocate(size) PROVE FF!Next
    <2>1. call' = Allocated(size, call'.ret) /\ UNCHANGED client /\ size \in Nat
        BY <1>1, SizesAssumption DEF Allocate, Allocated
    <2>2. AllocatedFrom(FreeRegions, OccRegions, size, call'.ret, FreeRegions', OccRegions')
        BY <1>1, AllocateLinks
    <2>3. FF!Allocate(size)
        BY <2>1, <2>2, AllocateRefines
    <2> QED BY <2>3 DEF FF!Next
<1>2. ASSUME NEW a \in Pool, NEW size \in Sizes, Free(a, size) PROVE FF!Next
    <2>1. call' = Freed(a, size, call'.ret) /\ UNCHANGED client
        BY <1>2 DEF Free, Freed
    <2>2. PICK r : /\ FreedFrom(FreeRegions, OccRegions, r, a, size, call'.ret,
                                FreeRegions', OccRegions')
                   /\ (client = "whole" /\ r \in OccRegions /\ r.start = a
                          /\ 0 < size /\ size <= FF!Size(r)) => size = FF!Size(r)
        BY <1>2, FreeLinks
    <2> QED BY <2>1, <2>2, FreeRefines
<1> QED BY <1>1, <1>2 DEF Next

\* For callers that free from the start of a region the linked lists do what FirstFit
\* does with sets of regions, call by call and answer by answer.
THEOREM TableImplementsSets == Spec => ImplementsFirstFit
<1>1. Init => (client # "any" => FF!Init)
    BY InitRefines
<1> QED BY <1>1, StepRefines, LinksHold, PTL DEF Spec, ImplementsFirstFit

-------------------------------------------------------------------------------
(* What is proved of FirstFit holds of the table of nodes.                 *)

\* FirstFit again, with what is proved of it.
FFP == INSTANCE FirstFitProofs WITH free <- RegionsOf(FreeList(ffa)),
                                    occ <- RegionsOf(OccupiedList(ffa)),
                                    Clients <- Clients \ {"any"}

\* The assumptions of FirstFit hold of the constants it is given here.
LEMMA ConstantsFit ==
    /\ Start \in Nat \ {0} /\ End \in Nat /\ Start < End /\ TableLen \in Nat \ {0}
    /\ Sizes \subseteq Nat /\ Clients \ {"any"} \subseteq FFP!ClientKinds
BY PoolAssumption, TableLenAssumption, SizesAssumption, ClientsAssumption DEF FFP!ClientKinds

LEMMA SameInit == FF!Init => FFP!Init
BY DEF FF!Init, FFP!Init, FF!Region, FFP!Region, FF!Allocated, FFP!Allocated,
       FF!NULL, FFP!NULL

LEMMA SameNext == FF!Next => FFP!Next
BY DEF FF!Next, FFP!Next, FF!Cardinality, FFP!Cardinality, FF!NULL, FFP!NULL,
       FF!Pool, FFP!Pool, FF!Region, FFP!Region, FF!Rest, FFP!Rest, FF!Size, FFP!Size,
       FF!Allocated, FFP!Allocated, FF!Freed, FFP!Freed, FF!Lowest, FFP!Lowest,
       FF!NodeLeft, FFP!NodeLeft, FF!Fits, FFP!Fits, FF!AllocateNull, FFP!AllocateNull,
       FF!AllocateExact, FFP!AllocateExact, FF!AllocateSplit, FFP!AllocateSplit,
       FF!Allocate, FFP!Allocate, FF!Heads, FFP!Heads, FF!Tails, FFP!Tails,
       FF!Unbroken, FFP!Unbroken, FF!CombineAdjacentFreeNodes, FFP!CombineAdjacentFreeNodes,
       FF!Touching, FFP!Touching, FF!Absorb, FFP!Absorb,
       FF!AddFreedRegionToFreeList, FFP!AddFreedRegionToFreeList,
       FF!Holding, FFP!Holding, FF!FreeRefused, FFP!FreeRefused,
       FF!FreeRegion, FFP!FreeRegion

\* The inductive invariant, with that of FirstFit for its callers.
TableLinkInv == LinkInv /\ (client # "any" => FFP!TableInv)

LEMMA InitTableLinks == Init => TableLinkInv
<1>1. FFP!Init => FFP!TableInv
    BY ConstantsFit, FFP!InitTable
<1> QED BY <1>1, InitLinks, InitRefines, SameInit DEF TableLinkInv

LEMMA StepTableLinks == TableLinkInv /\ [Next]_vars => TableLinkInv'
<1> SUFFICES ASSUME TableLinkInv, [Next]_vars PROVE TableLinkInv'
    OBVIOUS
<1>1. LinkInv' /\ client' = client
    BY StepLinks DEF TableLinkInv, Next, Allocate, Free, vars
<1>2. ASSUME client # "any" PROVE FFP!TableInv'
    <2>1. FFP!TableInv
        BY <1>2 DEF TableLinkInv
    <2>2. [FFP!Next]_(FFP!vars)
        <3>1. FF!Next \/ UNCHANGED vars
            BY <1>2, StepRefines DEF TableLinkInv
        <3>2. CASE FF!Next
            BY <3>2, SameNext
        <3>3. CASE UNCHANGED vars
            BY <3>3 DEF vars, FFP!vars, RegionsOf, FreeList, OccupiedList
        <3> QED BY <3>1, <3>2, <3>3
    <2> QED BY <2>1, <2>2, ConstantsFit, FFP!StepTable
<1> QED BY <1>1, <1>2 DEF TableLinkInv

LEMMA TableLinksHold == Spec => []TableLinkInv
<1> QED BY InitTableLinks, StepTableLinks, PTL DEF Spec

-------------------------------------------------------------------------------
(* The sizes of listed regions add up to what the regions cover.           *)

\* The recursion by which MapThenSumSet adds F over the subsets of a set T.
Pick(s) == CHOOSE x \in s : TRUE
Adds(T, F, g) ==
    g = [s \in SUBSET T |-> IF s = {} THEN 0 ELSE F[Pick(s)] + g[s \ {Pick(s)}]]

\* It has one solution over a finite set: two would differ on a smallest subset.
LEMMA OneSum ==
    ASSUME NEW T, IsFiniteSet(T), NEW F, NEW g, Adds(T, F, g), NEW h, Adds(T, F, h)
    PROVE  g = h
<1> DEFINE D == {n \in Nat : \E s \in SUBSET T : Cardinality(s) = n /\ g[s] # h[s]}
<1>1. \A s \in SUBSET T : IsFiniteSet(s) /\ Cardinality(s) \in Nat
    BY FS_Subset, FS_CardinalityType
<1>2. /\ \A s \in SUBSET T :
            g[s] = IF s = {} THEN 0 ELSE F[Pick(s)] + g[s \ {Pick(s)}]
      /\ \A s \in SUBSET T :
            h[s] = IF s = {} THEN 0 ELSE F[Pick(s)] + h[s \ {Pick(s)}]
    BY DEF Adds
<1>3. ASSUME D # {} PROVE FALSE
    <2>1. PICK m \in D : \A n \in D : m <= n
        <3>1. D \in SUBSET Nat
            OBVIOUS
        <3> HIDE DEF D
        <3> QED BY <1>3, <3>1, LeastNatural
    <2>2. PICK s \in SUBSET T : Cardinality(s) = m /\ g[s] # h[s]
        OBVIOUS
    <2>3. s # {}
        BY <1>2, <2>2
    <2> DEFINE x == Pick(s)
               r == s \ {x}
    <2>4. x \in s
        BY <2>3 DEF Pick
    <2> HIDE DEF x
    <2>5. r \in SUBSET T /\ Cardinality(r) = Cardinality(s) - 1 /\ Cardinality(r) \in Nat
        BY <1>1, <2>4, FS_RemoveElement
    <2>6. Cardinality(r) \notin D
        <3>1. m \in Nat /\ ~(m <= Cardinality(r))
            BY <1>1, <2>2, <2>5
        <3> HIDE DEF D, r
        <3> QED BY <2>1, <3>1
    <2>7. g[r] = h[r]
        BY <2>5, <2>6
    <2> QED BY <1>2, <2>2, <2>3, <2>7 DEF x
<1>4. \A s \in SUBSET T : g[s] = h[s]
    BY <1>1, <1>3
<1>5. g = [s \in SUBSET T |-> g[s]] /\ h = [s \in SUBSET T |-> h[s]]
    BY DEF Adds
<1> QED BY <1>4, <1>5

\* The addresses of the regions of the nodes s.
Addresses(f, s) == {x \in Nat : \E i \in s : f.array[i].start <= x /\ x < f.array[i].end}

LEMMA RegionSize ==
    ASSUME NEW f, NEW i, f.array[i].start \in Nat, f.array[i].end \in Nat,
           f.array[i].start <= f.array[i].end
    PROVE  /\ IsFiniteSet(Addresses(f, {i}))
           /\ Cardinality(Addresses(f, {i})) = NodeSize(f, i)
<1> DEFINE a == f.array[i].start
           b == f.array[i].end - 1
<1>1. Addresses(f, {i}) = a .. b
    BY DEF Addresses
<1>2. a \in Int /\ b \in Int
    OBVIOUS
<1>3. /\ IsFiniteSet(a .. b)
      /\ Cardinality(a .. b) = IF a > b THEN 0 ELSE b - a + 1
    <2> HIDE DEF a, b
    <2> QED BY <1>2, FS_Interval
<1>4. (IF a > b THEN 0 ELSE b - a + 1) = f.array[i].end - f.array[i].start
    OBVIOUS
<1> HIDE DEF a, b
<1> QED BY <1>1, <1>3, <1>4 DEF NodeSize

\* If the regions of the nodes T do not overlap, their sizes add up to the number of
\* addresses in them.
LEMMA SumOfSizes ==
    ASSUME NEW f, NEW T, IsFiniteSet(T),
           NEW b \in Nat,
           \A i \in T : /\ f.array[i].start \in Nat /\ f.array[i].end \in Nat
                        /\ f.array[i].start <= f.array[i].end /\ f.array[i].end <= b,
           \A i, j \in T : i # j => \/ f.array[i].end <= f.array[j].start
                                    \/ f.array[j].end <= f.array[i].start
    PROVE  MapThenSumSet(LAMBDA i : NodeSize(f, i), T) = Cardinality(Addresses(f, T))
<1> DEFINE F == [i \in T |-> NodeSize(f, i)]
           iter[s \in SUBSET T] ==
               IF s = {} THEN 0
               ELSE LET x == CHOOSE x \in s : TRUE IN NodeSize(f, x) + iter[s \ {x}]
           g == [s \in SUBSET T |-> Cardinality(Addresses(f, s))]
<1>1. MapThenSumSet(LAMBDA i : NodeSize(f, i), T) = iter[T]
    BY DEF MapThenSumSet, MapThenFoldSet
<1>2. \A s \in SUBSET T : s # {} => Pick(s) \in s /\ Pick(s) \in T
    BY DEF Pick
<1>3. \A s \in SUBSET T : IsFiniteSet(Addresses(f, s))
    <2> SUFFICES ASSUME NEW s \in SUBSET T PROVE IsFiniteSet(Addresses(f, s))
        OBVIOUS
    <2>1. Addresses(f, s) \subseteq 0 .. b
        BY DEF Addresses
    <2>2. IsFiniteSet(0 .. b)
        BY FS_Interval
    <2> QED BY <2>1, <2>2, FS_Subset
<1>4. Adds(T, F, g)
    <2> SUFFICES ASSUME NEW s \in SUBSET T
                 PROVE  g[s] = IF s = {} THEN 0 ELSE F[Pick(s)] + g[s \ {Pick(s)}]
        BY DEF Adds
    <2>1. CASE s = {}
        <3>1. Addresses(f, s) = {}
            BY <2>1 DEF Addresses
        <3> QED BY <2>1, <3>1, FS_EmptySet
    <2>2. CASE s # {}
        <3> DEFINE x == Pick(s)
                   r == s \ {x}
        <3>1. x \in s /\ x \in T /\ r \in SUBSET T
            BY <1>2, <2>2
        <3> HIDE DEF x
        <3>2. Addresses(f, s) = Addresses(f, {x}) \cup Addresses(f, r)
            BY <3>1 DEF Addresses
        <3>3. Addresses(f, {x}) \cap Addresses(f, r) = {}
            <4> SUFFICES ASSUME NEW y \in Nat, NEW i \in r,
                                f.array[x].start <= y, y < f.array[x].end,
                                f.array[i].start <= y, y < f.array[i].end
                         PROVE  FALSE
                BY DEF Addresses
            <4>1. i \in T /\ i # x
                BY <3>1
            <4>2. /\ f.array[i].start \in Nat /\ f.array[i].end \in Nat
                  /\ f.array[x].start \in Nat /\ f.array[x].end \in Nat
                  /\ \/ f.array[i].end <= f.array[x].start
                     \/ f.array[x].end <= f.array[i].start
                BY <3>1, <4>1
            <4> QED BY <4>2
        <3>4. /\ IsFiniteSet(Addresses(f, {x}))
              /\ Cardinality(Addresses(f, {x})) = NodeSize(f, x)
            BY <3>1, RegionSize
        <3>5. IsFiniteSet(Addresses(f, r)) /\ Cardinality(Addresses(f, r)) \in Nat
            BY <1>3, <3>1, FS_CardinalityType
        <3>6. Cardinality(Addresses(f, s))
                  = Cardinality(Addresses(f, {x})) + Cardinality(Addresses(f, r))
            <4>1. Cardinality(Addresses(f, {x}) \cup Addresses(f, r))
                      = Cardinality(Addresses(f, {x})) + Cardinality(Addresses(f, r))
                          - Cardinality(Addresses(f, {x}) \cap Addresses(f, r))
                BY <3>4, <3>5, FS_Union
            <4>2. Cardinality(Addresses(f, {x}) \cap Addresses(f, r)) = 0
                BY <3>3, FS_EmptySet
            <4>3. Cardinality(Addresses(f, {x})) \in Nat
                BY <3>4, FS_CardinalityType
            <4> QED BY <3>2, <3>5, <4>1, <4>2, <4>3
        <3>7. g[s] = Cardinality(Addresses(f, s)) /\ g[r] = Cardinality(Addresses(f, r))
            BY <3>1
        <3>8. F[x] = NodeSize(f, x)
            BY <3>1
        <3> QED BY <2>2, <3>4, <3>6, <3>7, <3>8 DEF x
    <2> QED BY <2>1, <2>2
<1>5. Adds(T, F, iter)
    <2> DEFINE G == [s \in SUBSET T |->
                        IF s = {} THEN 0
                        ELSE LET x == CHOOSE x \in s : TRUE IN NodeSize(f, x) + g[s \ {x}]]
    <2>1. \A s \in SUBSET T : s # {} => F[Pick(s)] = NodeSize(f, Pick(s))
        BY <1>2
    <2>2. g = G
        <3> SUFFICES ASSUME NEW s \in SUBSET T PROVE g[s] = G[s]
            OBVIOUS
        <3> HIDE DEF F, g
        <3>1. g[s] = IF s = {} THEN 0 ELSE F[Pick(s)] + g[s \ {Pick(s)}]
            BY <1>4 DEF Adds
        <3>2. G[s] = IF s = {} THEN 0 ELSE NodeSize(f, Pick(s)) + g[s \ {Pick(s)}]
            BY DEF Pick
        <3> HIDE DEF G
        <3> QED BY <2>1, <3>1, <3>2
    <2> HIDE DEF F, g
    <2>3. iter = [s \in SUBSET T |->
                     IF s = {} THEN 0
                     ELSE LET x == CHOOSE x \in s : TRUE IN NodeSize(f, x) + iter[s \ {x}]]
        BY <2>2
    <2> HIDE DEF iter
    <2> QED BY <2>1, <2>3 DEF Adds, Pick
<1>6. iter = g
    <2> HIDE DEF iter, F, g
    <2> QED BY <1>4, <1>5, OneSum
<1> HIDE DEF iter
<1> QED BY <1>1, <1>6

-------------------------------------------------------------------------------
(* IsValidDataStructure.                                                   *)

\* The listed nodes of callers that free regions whole cover the pool.
LEMMA ListedCoverPool ==
    ASSUME TableLinkInv, client = "whole"
    PROVE  LET T == ToSet(OccupiedList(ffa)) \cup ToSet(FreeList(ffa))
           IN Addresses(ffa, T) = Pool
<1> DEFINE o == OccupiedList(ffa)
           w == FreeList(ffa)
           T == ToSet(o) \cup ToSet(w)
<1>1. Threaded(ffa, o, w) /\ InOrder(ffa, o, w) /\ FFP!TableInv
    BY DEF TableLinkInv, LinkInv, Linked, Sorted
<1>2. FFP!NothingLost
    BY <1>1 DEF FFP!TableInv
<1>3. \A x \in FFP!Pool : \E r \in RegionsOf(w) \cup RegionsOf(o) : r.start <= x /\ x < r.end
    BY <1>2 DEF FFP!NothingLost, FFP!Cover
<1>4. FFP!Pool = Pool
    BY DEF FFP!Pool, Pool
<1> HIDE DEF o, w
<1>5. ASSUME NEW x \in Pool PROVE x \in Addresses(ffa, T)
    <2>1. x \in Nat
        BY PoolAssumption DEF Pool
    <2>2. PICK r \in RegionsOf(w) \cup RegionsOf(o) : r.start <= x /\ x < r.end
        BY <1>3, <1>4
    <2>3. PICK i \in T : r = [start |-> ffa.array[i].start, end |-> ffa.array[i].end]
        BY DEF RegionsOf
    <2> QED BY <2>1, <2>2, <2>3 DEF Addresses
<1>6. ASSUME NEW x \in Addresses(ffa, T) PROVE x \in Pool
    <2>1. PICK i \in T : ffa.array[i].start <= x /\ x < ffa.array[i].end /\ x \in Nat
        BY DEF Addresses
    <2>2. /\ ffa.array[i].start \in Nat /\ ffa.array[i].end \in Nat
          /\ Start <= ffa.array[i].start /\ ffa.array[i].end <= End
        BY <1>1, ThreadedFacts, NodeBounds DEF InOrder
    <2> QED BY <2>1, <2>2, PoolAssumption DEF Pool
<1> HIDE DEF T
<1>7. Addresses(ffa, T) = Pool
    BY <1>5, <1>6
<1> QED BY <1>7 DEF T, o, w

LEMMA ListedApart ==
    ASSUME NEW f, NEW o, NEW w, Threaded(f, o, w), InOrder(f, o, w),
           NEW i \in ToSet(o) \cup ToSet(w), NEW j \in ToSet(o) \cup ToSet(w), i # j
    PROVE  f.array[i].end <= f.array[j].start \/ f.array[j].end <= f.array[i].start
<1>1. o \in Seq(Nodes) /\ w \in Seq(Nodes) /\ IsInjective(o) /\ IsInjective(w)
    BY ThreadedFacts
<1>2. CASE i \in ToSet(o) /\ j \in ToSet(o)
    BY <1>1, <1>2, OrderedBeside DEF InOrder, Beside
<1>3. CASE i \in ToSet(w) /\ j \in ToSet(w)
    BY <1>1, <1>3, OrderedBeside DEF InOrder, Beside
<1>4. CASE i \in ToSet(o) /\ j \in ToSet(w)
    BY <1>4 DEF InOrder, Clear
<1>5. CASE i \in ToSet(w) /\ j \in ToSet(o)
    BY <1>5 DEF InOrder, Clear
<1> QED BY <1>2, <1>3, <1>4, <1>5

\* The validation that every call can run, which asserts that no two regions overlap
\* and that the sizes of all add up to the pool, never fails for callers that free
\* regions whole (FirstFitAllocator.cc:465-556).
THEOREM ValidationNeverFails == Spec => []ValidForWholeFrees
<1>1. TableLinkInv => ValidForWholeFrees
    <2> SUFFICES ASSUME TableLinkInv, client = "whole" PROVE IsValidDataStructure(ffa)
        BY DEF ValidForWholeFrees
    <2> DEFINE o == OccupiedList(ffa)
               w == FreeList(ffa)
               T == ToSet(o) \cup ToSet(w)
    <2>1. Threaded(ffa, o, w) /\ InOrder(ffa, o, w)
        BY DEF TableLinkInv, LinkInv, Linked, Sorted
    <2>2. Addresses(ffa, T) = Pool
        BY ListedCoverPool
    <2> HIDE DEF o, w
    <2>3. IsFiniteSet(T)
        <3>1. T \subseteq 0 .. TableLen - 1
            BY <2>1, ThreadedFacts DEF Nodes
        <3>2. IsFiniteSet(0 .. TableLen - 1)
            BY TableLenAssumption, FS_Interval
        <3> QED BY <3>1, <3>2, FS_Subset
    <2>4. \A i \in T : /\ ffa.array[i].start \in Nat /\ ffa.array[i].end \in Nat
                       /\ ffa.array[i].start <= ffa.array[i].end /\ ffa.array[i].end <= End
        <3> SUFFICES ASSUME NEW i \in T
                     PROVE  /\ ffa.array[i].start \in Nat /\ ffa.array[i].end \in Nat
                            /\ ffa.array[i].start <= ffa.array[i].end
                            /\ ffa.array[i].end <= End
            OBVIOUS
        <3>1. /\ ffa.array[i].start \in Nat /\ ffa.array[i].end \in Nat
              /\ ffa.array[i].start < ffa.array[i].end /\ ffa.array[i].end <= End
            BY <2>1, ThreadedFacts, NodeBounds DEF InOrder
        <3> QED BY <3>1
    <2>5. \A i, j \in T : i # j => \/ ffa.array[i].end <= ffa.array[j].start
                                   \/ ffa.array[j].end <= ffa.array[i].start
        BY <2>1, ListedApart
    <2>6. ASSUME NEW i \in T, NEW j \in T, i # j PROVE ~Overlap(ffa, i, j)
        <3>1. /\ ffa.array[i].start < ffa.array[i].end
              /\ ffa.array[j].start < ffa.array[j].end
            BY <2>1, ThreadedFacts, NodeBounds DEF InOrder
        <3> QED BY <2>4, <2>5, <2>6, <3>1 DEF Overlap
    <2> HIDE DEF T
    <2>7. MapThenSumSet(LAMBDA i : NodeSize(ffa, i), T) = Cardinality(Addresses(ffa, T))
        BY <2>3, <2>4, <2>5, PoolAssumption, SumOfSizes
    <2>8. Cardinality(Pool) = End - Start
        <3>1. Start \in Int /\ End - 1 \in Int
            BY PoolAssumption
        <3>2. Cardinality(Start .. End - 1) =
                IF Start > End - 1 THEN 0 ELSE (End - 1) - Start + 1
            BY <3>1, FS_Interval
        <3> QED BY <3>2, PoolAssumption DEF Pool
    <2> QED BY <2>2, <2>6, <2>7, <2>8 DEF IsValidDataStructure, T, o, w
<1> QED BY <1>1, TableLinksHold, PTL

================================================================================
