------------------------ MODULE DeferAllocatorProofs ------------------------
(* Proofs about the deferred allocator, for any sizes and numbers of requests *)
(* and barriers, in any order.                                               *)
EXTENDS MCDeferAllocator, FiniteSetTheorems, SequenceTheorems, TLAPS

-----------------------------------------------------------------------------
(* The inductive invariant.                                                 *)

Elems(q) == {q[i] : i \in 1..Len(q)}
Once(q) == \A i, j \in 1..Len(q) : q[i] = q[j] => i = j
Sorted(q, size) == \A i, j \in 1..Len(q) : i < j => size[q[i]] <= size[q[j]]

Heaps == [chunks : 0..MaxAllocs, list : Seq(Nodes), free : Seq(Nodes),
          size : [Nodes -> Nat], usage : [Nodes -> BOOLEAN],
          offset : [Nodes -> Nat], parent : [Nodes -> Nodes \cup {0}]]

\* A node is in the list, or was fused to another, or is not created yet.
Rooted(h) ==
    /\ \A n \in Elems(h.list) : n <= h.chunks
    /\ \A n \in Nodes : h.parent[n] = 0 <=> n \in Elems(h.list) \/ n > h.chunks
    /\ h.chunks > 0 => h.list # <<>>

\* Addresses of all nodes for given ones of those in the list.
Solves(h, z, f) == f = [n \in Nodes |-> IF h.parent[n] = 0 THEN z[n] ELSE h.offset[n] + f[h.parent[n]]]

\* Following parents ends: there is exactly one solution.
Solvable(h) == \A z \in [Nodes -> Nat] : \E at \in [Nodes -> Nat] :
                  Solves(h, z, at) /\ \A f : Solves(h, z, f) => f = at

\* A list of nodes whose free ones are listed in h.free, except those of X.
ListOf(h, X) ==
    /\ h \in Heaps /\ Once(h.list) /\ Once(h.free)
    /\ Elems(h.free) = {n \in Elems(h.list) : ~h.usage[n] /\ n \notin X}
    /\ Sorted(h.free, h.size) /\ Rooted(h) /\ Solvable(h)

\* Of two neighbours one is used.
Fused(h) == \A i \in 1..Len(h.list) - 1 : h.usage[h.list[i]] \/ h.usage[h.list[i + 1]]

HeapOK(h) == ListOf(h, {}) /\ Fused(h)

\* Memory up to E in which the nodes lie at the addresses of base, those of the
\* list in its order and the others inside of what they were fused to.
Fits(h, base, E) ==
    /\ base \in [Nodes -> Nat] /\ E \in Nat
    /\ \A n \in Nodes : h.parent[n] # 0 => base[n] = base[h.parent[n]] + h.offset[n]
    /\ \A i, j \in 1..Len(h.list) : i < j => base[h.list[i]] + h.size[h.list[i]] <= base[h.list[j]]
    /\ \A i \in 1..Len(h.list) : base[h.list[i]] + h.size[h.list[i]] <= E

-----------------------------------------------------------------------------
(* Sequences without repetition.                                            *)

\* What is before and behind the element that was inserted.
LEMMA Inserted ==
  ASSUME NEW S, NEW q \in Seq(S), NEW x \in S, NEW k \in 1..Len(q) + 1
  PROVE  /\ InsertAt(q, k, x) \in Seq(S) /\ Len(InsertAt(q, k, x)) = Len(q) + 1
         /\ \A i \in 1..Len(q) + 1 :
               InsertAt(q, k, x)[i] = IF i < k THEN q[i] ELSE IF i = k THEN x ELSE q[i - 1]
<1> DEFINE a == SubSeq(q, 1, k - 1)
           b == SubSeq(q, k, Len(q))
           c == a \o <<x>>
<1>1. a \in Seq(S) /\ Len(a) = k - 1 /\ \A i \in 1..k - 1 : a[i] = q[i]
  BY SubSeqProperties
<1>2. b \in Seq(S) /\ Len(b) = Len(q) - k + 1 /\ \A i \in 1..Len(q) - k + 1 : b[i] = q[k + i - 1]
  BY SubSeqProperties
<1>3. <<x>> \in Seq(S) /\ Len(<<x>>) = 1 /\ <<x>>[1] = x
  OBVIOUS
<1>4. InsertAt(q, k, x) = c \o b
  BY DEF InsertAt
<1> HIDE DEF a, b
<1>5. /\ c \in Seq(S) /\ Len(c) = k
      /\ \A i \in 1..k : c[i] = IF i < k THEN q[i] ELSE x
  <2>1. /\ c \in Seq(S) /\ Len(c) = Len(a) + 1
        /\ \A i \in 1..Len(a) + 1 : c[i] = IF i <= Len(a) THEN a[i] ELSE <<x>>[i - Len(a)]
    BY <1>1, <1>3, ConcatProperties
  <2> HIDE DEF c
  <2> QED BY <1>1, <1>3, <2>1
<1> HIDE DEF c
<1>6. /\ c \o b \in Seq(S) /\ Len(c \o b) = Len(c) + Len(b)
      /\ \A i \in 1..Len(c) + Len(b) : (c \o b)[i] = IF i <= Len(c) THEN c[i] ELSE b[i - Len(c)]
  BY <1>2, <1>5, ConcatProperties
<1>7. k \in Nat /\ Len(q) \in Nat /\ Len(c) + Len(b) = Len(q) + 1
  BY <1>2, <1>5
<1>8. ASSUME NEW i \in 1..Len(q) + 1
      PROVE  (c \o b)[i] = IF i < k THEN q[i] ELSE IF i = k THEN x ELSE q[i - 1]
  <2>1. CASE i <= k
    BY <1>5, <1>6, <1>7, <2>1
  <2>2. CASE i > k
    <3>1. i - k \in 1..Len(q) - k + 1 /\ k + (i - k) - 1 = i - 1
      BY <1>7, <2>2
    <3>2. (c \o b)[i] = b[i - k]
      BY <1>5, <1>6, <1>7, <2>2
    <3> QED BY <1>2, <1>7, <2>2, <3>1, <3>2
  <2> QED BY <1>7, <2>1, <2>2
<1> QED BY <1>4, <1>6, <1>7, <1>8

\* What remains when an element is removed.
LEMMA Removed ==
  ASSUME NEW S, NEW q \in Seq(S), NEW k \in 1..Len(q)
  PROVE  /\ RemoveAt(q, k) \in Seq(S) /\ Len(RemoveAt(q, k)) = Len(q) - 1
         /\ \A i \in 1..Len(q) - 1 : RemoveAt(q, k)[i] = IF i < k THEN q[i] ELSE q[i + 1]
<1> DEFINE a == SubSeq(q, 1, k - 1)
           b == SubSeq(q, k + 1, Len(q))
<1>1. a \in Seq(S) /\ Len(a) = k - 1 /\ \A i \in 1..k - 1 : a[i] = q[i]
  BY SubSeqProperties
<1>2. b \in Seq(S) /\ Len(b) = Len(q) - k /\ \A i \in 1..Len(q) - k : b[i] = q[k + i]
  BY SubSeqProperties
<1>3. RemoveAt(q, k) = a \o b
  BY DEF RemoveAt
<1> HIDE DEF a, b
<1>4. /\ a \o b \in Seq(S) /\ Len(a \o b) = Len(a) + Len(b)
      /\ \A i \in 1..Len(a) + Len(b) : (a \o b)[i] = IF i <= Len(a) THEN a[i] ELSE b[i - Len(a)]
  BY <1>1, <1>2, ConcatProperties
<1>5. k \in Nat /\ Len(q) \in Nat /\ Len(a) + Len(b) = Len(q) - 1
  BY <1>1, <1>2
<1>6. ASSUME NEW i \in 1..Len(q) - 1 PROVE (a \o b)[i] = IF i < k THEN q[i] ELSE q[i + 1]
  <2>1. CASE i < k
    BY <1>1, <1>4, <1>5, <2>1
  <2>2. CASE ~(i < k)
    <3>1. i - (k - 1) \in 1..Len(q) - k /\ k + (i - (k - 1)) = i + 1
      BY <1>5, <2>2
    <3>2. (a \o b)[i] = b[i - (k - 1)]
      BY <1>1, <1>4, <1>5, <2>2
    <3> QED BY <1>2, <2>2, <3>1, <3>2
  <2> QED BY <2>1, <2>2
<1> QED BY <1>3, <1>4, <1>5, <1>6

\* p is q with m in place k, and q without its place k.
With(p, q, k, m) ==
    /\ Len(p) = Len(q) + 1
    /\ \A i \in 1..Len(q) + 1 : p[i] = IF i < k THEN q[i] ELSE IF i = k THEN m ELSE q[i - 1]

Without(p, q, k) ==
    /\ p \in Seq(Nodes) /\ Len(p) = Len(q) - 1
    /\ \A i \in 1..Len(q) - 1 : p[i] = IF i < k THEN q[i] ELSE q[i + 1]

\* Inserting into a sequence of nodes, to be cited as a whole.
LEMMA InsertedWith ==
  ASSUME NEW q \in Seq(Nodes), NEW k \in 1..Len(q) + 1, NEW m \in Nodes
  PROVE  With(InsertAt(q, k, m), q, k, m)
BY Inserted DEF With

\* The same for removing.
LEMMA RemovedWithout ==
  ASSUME NEW q \in Seq(Nodes), NEW k \in 1..Len(q)
  PROVE  Without(RemoveAt(q, k), q, k)
BY Removed DEF Without

\* The position of an element is the one it has.
LEMMA PosIs ==
  ASSUME NEW S, NEW q \in Seq(S), Once(q), NEW k \in 1..Len(q)
  PROVE  Pos(q, q[k]) = k
<1>1. DOMAIN q = 1..Len(q)
  BY LenProperties
<1>2. \A i \in DOMAIN q : q[i] = q[k] => i = k
  BY <1>1 DEF Once
<1> QED BY <1>1, <1>2 DEF Pos

\* A sequence with one element more, and with one less.
LEMMA OneMore ==
  ASSUME NEW S, NEW q \in Seq(S), Once(q), NEW x \in S, x \notin Elems(q), NEW k \in 1..Len(q) + 1
  PROVE  Once(InsertAt(q, k, x)) /\ Elems(InsertAt(q, k, x)) = Elems(q) \cup {x}
<1> DEFINE r == InsertAt(q, k, x)
<1>1. /\ Len(r) = Len(q) + 1 /\ Len(q) \in Nat /\ k \in Nat
      /\ \A i \in 1..Len(q) + 1 : r[i] = IF i < k THEN q[i] ELSE IF i = k THEN x ELSE q[i - 1]
  BY Inserted
<1> HIDE DEF r
<1>2. ASSUME NEW i \in 1..Len(r) PROVE i = k \/ (i < k /\ i \in 1..Len(q)) \/ (i > k /\ i - 1 \in 1..Len(q))
  BY <1>1
<1>3. Once(r)
  <2> SUFFICES ASSUME NEW i \in 1..Len(r), NEW j \in 1..Len(r), r[i] = r[j], i < j PROVE FALSE
    BY <1>1 DEF Once
  <2>1. i = k \/ (i < k /\ i \in 1..Len(q)) \/ (i > k /\ i - 1 \in 1..Len(q))
    BY <1>2
  <2>2. j = k \/ (j < k /\ j \in 1..Len(q)) \/ (j > k /\ j - 1 \in 1..Len(q))
    BY <1>2
  <2>3. \A u \in 1..Len(q) : q[u] # x
    BY DEF Elems
  <2>4. \A u, v \in 1..Len(q) : q[u] = q[v] => u = v
    BY DEF Once
  <2>5. CASE i = k
    BY <1>1, <2>2, <2>3, <2>5
  <2>6. CASE j = k
    BY <1>1, <2>1, <2>3, <2>6
  <2>7. CASE i # k /\ j # k
    <3> DEFINE a == IF i < k THEN i ELSE i - 1
               b == IF j < k THEN j ELSE j - 1
    <3>1. a \in 1..Len(q) /\ r[i] = q[a]
      BY <1>1, <2>1, <2>7
    <3>2. b \in 1..Len(q) /\ r[j] = q[b]
      BY <1>1, <2>2, <2>7
    <3>3. a # b
      BY <1>1, <2>7
    <3> HIDE DEF a, b
    <3> QED BY <2>4, <3>1, <3>2, <3>3
  <2> QED BY <2>5, <2>6, <2>7
<1>4. Elems(r) = Elems(q) \cup {x}
  <2>1. ASSUME NEW i \in 1..Len(r) PROVE r[i] \in Elems(q) \cup {x}
    <3>1. i = k \/ (i < k /\ i \in 1..Len(q)) \/ (i > k /\ i - 1 \in 1..Len(q))
      BY <1>2
    <3>2. CASE i = k
      BY <1>1, <3>2
    <3>3. CASE i < k /\ i \in 1..Len(q)
      BY <1>1, <3>3 DEF Elems
    <3>4. CASE i > k /\ i - 1 \in 1..Len(q)
      <4>1. r[i] = q[i - 1]
        BY <1>1, <3>4
      <4> QED BY <3>4, <4>1 DEF Elems
    <3> QED BY <3>1, <3>2, <3>3, <3>4
  <2>2. ASSUME NEW i \in 1..Len(q) PROVE q[i] \in Elems(r)
    <3>1. CASE i < k
      <4>1. i \in 1..Len(r) /\ r[i] = q[i]
        BY <1>1, <3>1
      <4> QED BY <4>1 DEF Elems
    <3>2. CASE i >= k
      <4>1. i + 1 \in 1..Len(r) /\ r[i + 1] = q[i]
        BY <1>1, <3>2
      <4> QED BY <4>1 DEF Elems
    <3> QED BY <1>1, <3>1, <3>2
  <2>3. x \in Elems(r)
    <3>1. k \in 1..Len(r) /\ r[k] = x
      BY <1>1
    <3> QED BY <3>1 DEF Elems
  <2> QED BY <2>1, <2>2, <2>3 DEF Elems
<1> QED BY <1>3, <1>4 DEF r

LEMMA OneLess ==
  ASSUME NEW S, NEW q \in Seq(S), Once(q), NEW k \in 1..Len(q)
  PROVE  Once(RemoveAt(q, k)) /\ Elems(RemoveAt(q, k)) = Elems(q) \ {q[k]}
<1> DEFINE r == RemoveAt(q, k)
<1>1. /\ Len(r) = Len(q) - 1 /\ Len(q) \in Nat /\ k \in Nat
      /\ \A i \in 1..Len(q) - 1 : r[i] = IF i < k THEN q[i] ELSE q[i + 1]
  BY Removed
<1> HIDE DEF r
<1>2. ASSUME NEW i \in 1..Len(r) PROVE (i < k /\ i \in 1..Len(q)) \/ (i >= k /\ i + 1 \in 1..Len(q))
  BY <1>1
<1>3. \A u, v \in 1..Len(q) : q[u] = q[v] => u = v
  BY DEF Once
<1>4. Once(r)
  <2> SUFFICES ASSUME NEW i \in 1..Len(r), NEW j \in 1..Len(r), r[i] = r[j], i < j PROVE FALSE
    BY <1>1 DEF Once
  <2>1. (i < k /\ i \in 1..Len(q)) \/ (i >= k /\ i + 1 \in 1..Len(q))
    BY <1>2
  <2>2. (j < k /\ j \in 1..Len(q)) \/ (j >= k /\ j + 1 \in 1..Len(q))
    BY <1>2
  <2> QED BY <1>1, <1>3, <2>1, <2>2
<1>5. Elems(r) = Elems(q) \ {q[k]}
  <2>1. ASSUME NEW i \in 1..Len(r) PROVE r[i] \in Elems(q) \ {q[k]}
    <3>1. (i < k /\ i \in 1..Len(q)) \/ (i >= k /\ i + 1 \in 1..Len(q))
      BY <1>2
    <3> QED BY <1>1, <1>3, <3>1 DEF Elems
  <2>2. ASSUME NEW i \in 1..Len(q), q[i] # q[k] PROVE q[i] \in Elems(r)
    <3>1. CASE i < k
      <4>1. i \in 1..Len(r) /\ r[i] = q[i]
        BY <1>1, <3>1
      <4> QED BY <4>1 DEF Elems
    <3>2. CASE i > k
      <4>1. i - 1 \in 1..Len(r) /\ r[i - 1] = q[i]
        BY <1>1, <3>2
      <4> QED BY <4>1 DEF Elems
    <3> QED BY <1>1, <2>2, <3>1, <3>2
  <2> QED BY <2>1, <2>2 DEF Elems
<1> QED BY <1>4, <1>5 DEF r

\* A set of natural numbers has a smallest one: what a recursive definition
\* computes is proved by excluding a smallest counterexample.
LEMMA LeastNat ==
  ASSUME NEW T \in SUBSET Nat, T # {}
  PROVE  \E x \in T : \A y \in T : x <= y
<1>1. PICK m \in T : TRUE
  OBVIOUS
<1> DEFINE B == {0..n : n \in {x \in T : x <= m}}
<1>2. B \subseteq FiniteSubsetsOf(Nat) /\ B # {}
  <2>1. \A n \in Nat : 0..n \in FiniteSubsetsOf(Nat)
    BY FS_Interval DEF FiniteSubsetsOf
  <2>2. 0..m \in B
    BY <1>1
  <2> QED BY <2>1, <2>2
<1>3. PICK b \in B : \A c \in B : ~(<<c, b>> \in StrictSubsetOrdering(Nat))
  <2> HIDE DEF B
  <2> QED BY <1>2, FS_StrictSubsetOrderingWellFounded, WFMin
<1>4. PICK x \in T : x <= m /\ b = 0..x
  BY <1>3
<1>5. ASSUME NEW y \in T, y < x PROVE FALSE
  <2>1. 0..y \in B
    BY <1>4, <1>5
  <2>2. <<0..y, b>> \in StrictSubsetOrdering(Nat)
    BY <1>4, <1>5 DEF StrictSubsetOrdering
  <2> QED BY <1>3, <2>1, <2>2
<1> QED BY <1>4, <1>5

\* A sorted sequence stays sorted if an element is inserted between those that
\* are not larger and those that are not smaller.
LEMMA InsertedBetween ==
  ASSUME NEW q \in Seq(Nodes), NEW size \in [Nodes -> Nat], Sorted(q, size), NEW n \in Nodes,
         NEW k \in 1..Len(q) + 1,
         \A i \in 1..Len(q) : IF i < k THEN size[q[i]] <= size[n] ELSE size[n] <= size[q[i]]
  PROVE  Sorted(InsertAt(q, k, n), size)
<1>1. DOMAIN q = 1..Len(q) /\ Len(q) \in Nat
  BY LenProperties
<1>2. \A i \in 1..Len(q) : q[i] \in Nodes /\ size[q[i]] \in Nat
  BY ElementOfSeq
<1>3. size[n] \in Nat
  OBVIOUS
<1>4. \A i \in 1..Len(q) : IF i < k THEN size[q[i]] <= size[n] ELSE size[n] <= size[q[i]]
  OBVIOUS
<1> DEFINE r == InsertAt(q, k, n)
<1>5. /\ Len(r) = Len(q) + 1
      /\ \A i \in 1..Len(q) + 1 : r[i] = IF i < k THEN q[i] ELSE IF i = k THEN n ELSE q[i - 1]
  BY Inserted
<1> HIDE DEF r
<1>6. ASSUME NEW i \in 1..Len(r), NEW j \in 1..Len(r), i < j PROVE size[r[i]] <= size[r[j]]
  <2>0. /\ \A u, v \in 1..Len(q) : u < v => size[q[u]] <= size[q[v]]
        /\ k \in Nat /\ i \in 1..Len(q) + 1 /\ j \in 1..Len(q) + 1
    BY <1>1, <1>5 DEF Sorted
  <2>1. CASE j < k
    <3>1. i \in 1..Len(q) /\ j \in 1..Len(q) /\ r[i] = q[i] /\ r[j] = q[j]
      BY <1>1, <1>5, <1>6, <2>0, <2>1
    <3> QED BY <1>6, <2>0, <3>1
  <2>2. CASE j = k
    <3>1. i \in 1..Len(q) /\ i < k /\ r[i] = q[i] /\ r[j] = n
      BY <1>1, <1>5, <1>6, <2>0, <2>2
    <3> QED BY <1>4, <3>1
  <2>3. CASE j > k /\ i < k
    <3>1. i \in 1..Len(q) /\ j - 1 \in 1..Len(q) /\ ~(j - 1 < k) /\ r[i] = q[i] /\ r[j] = q[j - 1]
      BY <1>1, <1>5, <1>6, <2>0, <2>3
    <3>2. size[q[i]] <= size[n] /\ size[n] <= size[q[j - 1]]
      BY <1>4, <2>3, <3>1
    <3> QED BY <1>2, <1>3, <3>1, <3>2
  <2>4. CASE j > k /\ i = k
    <3>1. j - 1 \in 1..Len(q) /\ ~(j - 1 < k) /\ r[i] = n /\ r[j] = q[j - 1]
      BY <1>1, <1>5, <1>6, <2>0, <2>4
    <3> QED BY <1>4, <3>1
  <2>5. CASE i > k
    <3>1. i - 1 \in 1..Len(q) /\ j - 1 \in 1..Len(q) /\ i - 1 < j - 1 /\ r[i] = q[i - 1] /\ r[j] = q[j - 1]
      BY <1>1, <1>5, <1>6, <2>0, <2>5
    <3> QED BY <2>0, <3>1
  <2> QED BY <1>6, <2>0, <2>1, <2>2, <2>3, <2>4, <2>5
<1> QED BY <1>6 DEF r, Sorted

\* An element is inserted behind those that are not larger (insertFree).
LEMMA InsertedSorted ==
  ASSUME NEW q \in Seq(Nodes), NEW size \in [Nodes -> Nat], Sorted(q, size), NEW n \in Nodes,
         NEW k, k = Cardinality({i \in DOMAIN q : size[q[i]] <= size[n]}) + 1
  PROVE  k \in 1..Len(q) + 1 /\ Sorted(InsertAt(q, k, n), size)
<1> DEFINE Small == {i \in 1..Len(q) : size[q[i]] <= size[n]}
           Large == {i \in 1..Len(q) : ~(size[q[i]] <= size[n])}
<1>1. DOMAIN q = 1..Len(q) /\ Len(q) \in Nat
  BY LenProperties
<1>2. \A i \in 1..Len(q) : q[i] \in Nodes /\ size[q[i]] \in Nat
  BY ElementOfSeq
<1>3. size[n] \in Nat
  OBVIOUS
<1>4. PICK m \in 0..Len(q) : Small = 1..m
  <2>1. CASE Large = {}
    <3>1. Small = 1..Len(q)
      BY <2>1
    <3> QED BY <1>1, <3>1
  <2>2. CASE Large # {}
    <3>1. PICK x \in Large : \A y \in Large : x <= y
      <4>1. Large \in SUBSET Nat
        OBVIOUS
      <4> HIDE DEF Large
      <4> QED BY <2>2, <4>1, LeastNat
    <3>2. \A i \in 1..Len(q) : i >= x => i \in Large
      <4> TAKE i \in 1..Len(q)
      <4>1. i > x => size[q[x]] <= size[q[i]]
        BY DEF Sorted
      <4>2. size[q[x]] \in Nat /\ size[q[i]] \in Nat
        BY <1>2
      <4> QED BY <1>3, <4>1, <4>2
    <3>3. Small = 1..x - 1
      <4>1. \A i \in 1..Len(q) : i \in Small <=> i \notin Large
        OBVIOUS
      <4>2. Small \subseteq 1..Len(q) /\ Large \subseteq 1..Len(q)
        OBVIOUS
      <4> HIDE DEF Small, Large
      <4>0. x \in 1..Len(q)
        BY <3>1, <4>2
      <4>3. \A i \in 1..Len(q) : i \in Small <=> i < x
        <5> TAKE i \in 1..Len(q)
        <5>1. i \in Large => x <= i
          BY <3>1
        <5>2. i >= x => i \in Large
          BY <3>2
        <5> QED BY <1>1, <4>0, <4>1, <5>1, <5>2
      <4>4. \A i : i \in 1..x - 1 <=> i \in 1..Len(q) /\ i < x
        BY <1>1, <4>0
      <4> QED BY <4>2, <4>3, <4>4
    <3>4. x - 1 \in 0..Len(q)
      <4>1. x \in 1..Len(q)
        BY <3>1
      <4> QED BY <1>1, <4>1
    <3> HIDE DEF Small, Large
    <3> QED BY <3>3, <3>4
  <2> QED BY <2>1, <2>2
<1>5. k = m + 1
  <2>1. Cardinality(1..m) = m
    BY <1>4, FS_Interval
  <2>2. k = Cardinality(Small) + 1
    BY <1>1
  <2> HIDE DEF Small
  <2> QED BY <1>4, <2>1, <2>2
<1>6. k \in 1..Len(q) + 1
  BY <1>1, <1>4, <1>5
<1>7. \A i \in 1..Len(q) : IF i < k THEN size[q[i]] <= size[n] ELSE size[n] <= size[q[i]]
  <2> TAKE i \in 1..Len(q)
  <2>1. i < k <=> i \in 1..m
    BY <1>1, <1>4, <1>5
  <2>2. i \in 1..m <=> size[q[i]] <= size[n]
    BY <1>4
  <2> QED BY <1>2, <1>3, <2>1, <2>2
<1> HIDE DEF Small, Large
<1> QED BY <1>6, <1>7, InsertedBetween

-----------------------------------------------------------------------------
(* The steps that alloc and free are made of.                               *)

\* g is h up to the free list, which is complete but for X.
Relisted(h, g, X) ==
    /\ ListOf(g, X) /\ g.chunks = h.chunks /\ g.list = h.list /\ g.size = h.size
    /\ g.usage = h.usage /\ g.offset = h.offset /\ g.parent = h.parent

\* A free node is put into the free list (insertFree).
LEMMA FreeInserted ==
  ASSUME NEW h, NEW m \in Nodes, ListOf(h, {m}), m \in Elems(h.list), ~h.usage[m]
  PROVE  Relisted(h, InsertFree(h, m), {})
<1> DEFINE k == Cardinality({i \in DOMAIN h.free : h.size[h.free[i]] <= h.size[m]}) + 1
           g == InsertFree(h, m)
           q == InsertAt(h.free, k, m)
<1>1. h \in Heaps /\ h.free \in Seq(Nodes) /\ h.size \in [Nodes -> Nat] /\ Sorted(h.free, h.size) /\ Once(h.free)
  BY DEF ListOf, Heaps
<1>2. g = [h EXCEPT !.free = q]
  BY DEF InsertFree
<1>3. k \in 1..Len(h.free) + 1 /\ Sorted(q, h.size)
  BY <1>1, InsertedSorted
<1> HIDE DEF k
<1>4. q \in Seq(Nodes)
  BY <1>1, <1>3, Inserted
<1>5. m \notin Elems(h.free)
  BY DEF ListOf
<1>6. Once(q) /\ Elems(q) = Elems(h.free) \cup {m}
  BY <1>1, <1>3, <1>5, OneMore
<1> HIDE DEF q, g
<1>7. /\ g \in Heaps /\ g.chunks = h.chunks /\ g.list = h.list /\ g.size = h.size /\ g.usage = h.usage
      /\ g.offset = h.offset /\ g.parent = h.parent /\ g.free = q
  BY <1>1, <1>2, <1>4 DEF Heaps
<1>8. Elems(q) = {n \in Elems(g.list) : ~g.usage[n] /\ n \notin {}}
  BY <1>6, <1>7 DEF ListOf
<1>9. Rooted(g)
  BY <1>7 DEF ListOf, Rooted
<1>10. Solvable(g)
  <2>1. \A z, f : Solves(g, z, f) <=> Solves(h, z, f)
    BY <1>7 DEF Solves
  <2> QED BY <2>1 DEF ListOf, Solvable
<1>11. Once(g.list) /\ Once(g.free) /\ Sorted(g.free, g.size)
  BY <1>3, <1>6, <1>7 DEF ListOf
<1>12. ListOf(g, {})
  BY <1>6, <1>7, <1>8, <1>9, <1>10, <1>11 DEF ListOf
<1> QED BY <1>7, <1>12 DEF Relisted, g

\* A free node is taken out of the free list (eraseFree).
LEMMA FreeErased ==
  ASSUME NEW h, NEW X, ListOf(h, X), NEW i \in 1..Len(h.free)
  PROVE  Relisted(h, [h EXCEPT !.free = RemoveAt(h.free, i)], X \cup {h.free[i]})
<1> DEFINE q == RemoveAt(h.free, i)
           g == [h EXCEPT !.free = q]
<1>1. h \in Heaps /\ h.free \in Seq(Nodes) /\ h.size \in [Nodes -> Nat] /\ Sorted(h.free, h.size) /\ Once(h.free)
  BY DEF ListOf, Heaps
<1>2. Once(q) /\ Elems(q) = Elems(h.free) \ {h.free[i]}
  BY <1>1, OneLess
<1>3. /\ q \in Seq(Nodes) /\ Len(q) = Len(h.free) - 1
      /\ \A j \in 1..Len(h.free) - 1 : q[j] = IF j < i THEN h.free[j] ELSE h.free[j + 1]
  BY <1>1, Removed
<1>4. Sorted(q, h.size)
  <2> SUFFICES ASSUME NEW u \in 1..Len(q), NEW v \in 1..Len(q), u < v PROVE h.size[q[u]] <= h.size[q[v]]
    BY DEF Sorted
  <2> DEFINE a == IF u < i THEN u ELSE u + 1
             b == IF v < i THEN v ELSE v + 1
  <2>1. Len(h.free) \in Nat
    BY <1>1, LenProperties
  <2>2. a \in 1..Len(h.free) /\ b \in 1..Len(h.free) /\ a < b
    BY <1>3, <2>1
  <2>3. q[u] = h.free[a] /\ q[v] = h.free[b]
    BY <1>3
  <2> HIDE DEF a, b, q
  <2> QED BY <1>1, <2>2, <2>3 DEF Sorted
<1> HIDE DEF q
<1>7. /\ g \in Heaps /\ g.chunks = h.chunks /\ g.list = h.list /\ g.size = h.size /\ g.usage = h.usage
      /\ g.offset = h.offset /\ g.parent = h.parent /\ g.free = q
  BY <1>1, <1>3 DEF Heaps
<1> HIDE DEF g
<1>8. Elems(q) = {n \in Elems(g.list) : ~g.usage[n] /\ n \notin X \cup {h.free[i]}}
  BY <1>2, <1>7 DEF ListOf
<1>9. Rooted(g)
  BY <1>7 DEF ListOf, Rooted
<1>10. Solvable(g)
  <2>1. \A z, f : Solves(g, z, f) <=> Solves(h, z, f)
    BY <1>7 DEF Solves
  <2> QED BY <2>1 DEF ListOf, Solvable
<1>11. Once(g.list) /\ Once(g.free) /\ Sorted(g.free, g.size)
  BY <1>2, <1>4, <1>7 DEF ListOf
<1>12. ListOf(g, X \cup {h.free[i]})
  BY <1>7, <1>8, <1>9, <1>10, <1>11 DEF ListOf
<1> QED BY <1>7, <1>12 DEF Relisted, g, q

\* g is h after the node behind position j was fused to the one at j.
Merged(h, g, X, j) ==
    /\ ListOf(g, X) /\ g.chunks = h.chunks /\ g.list = RemoveAt(h.list, j + 1) /\ g.usage = h.usage
    /\ \A n \in Nodes : n # h.list[j] => g.size[n] = h.size[n]
    /\ \A base, E : Fits(g, base, E) => Fits(h, base, E)

\* The node behind another is fused to it (fuse_to_left): the list stays one of
\* the same memory, in which the fused node keeps its distance to the other.
LEMMA FusedTo ==
  ASSUME NEW h, NEW X, ListOf(h, X), NEW j \in 1..Len(h.list) - 1,
         NEW l, l = h.list[j], NEW r, r = h.list[j + 1], l \notin Elems(h.free), r \notin Elems(h.free)
  PROVE  Merged(h, FuseToLeft(h, l, r), X \ {r}, j)
<1> DEFINE g == FuseToLeft(h, l, r)
           q == RemoveAt(h.list, j + 1)
<1>1. /\ h \in Heaps /\ h.list \in Seq(Nodes) /\ h.free \in Seq(Nodes) /\ h.size \in [Nodes -> Nat]
      /\ h.offset \in [Nodes -> Nat] /\ h.parent \in [Nodes -> Nodes \cup {0}]
      /\ h.usage \in [Nodes -> BOOLEAN] /\ h.chunks \in 0..MaxAllocs
      /\ Once(h.list) /\ Once(h.free) /\ Sorted(h.free, h.size) /\ Rooted(h) /\ Solvable(h)
      /\ Elems(h.free) = {n \in Elems(h.list) : ~h.usage[n] /\ n \notin X}
  BY DEF ListOf, Heaps
<1>2. Len(h.list) \in Nat /\ j \in 1..Len(h.list) /\ j + 1 \in 1..Len(h.list) /\ j \in Nat
  BY <1>1, LenProperties
<1>3. \A i \in 1..Len(h.list) : h.list[i] \in Nodes /\ h.list[i] # 0
  <2>1. \A n \in Nodes : n # 0
    BY HeapAssumption DEF Nodes
  <2>2. \A i \in 1..Len(h.list) : h.list[i] \in Nodes
    BY <1>1, ElementOfSeq
  <2> QED BY <2>1, <2>2
<1>4. l \in Nodes /\ r \in Nodes /\ l # r /\ l # 0 /\ r # 0
  BY <1>1, <1>2, <1>3 DEF Once
<1>5. Pos(h.list, r) = j + 1
  BY <1>1, <1>2, PosIs
<1>6. /\ q \in Seq(Nodes) /\ Len(q) = Len(h.list) - 1
      /\ \A i \in 1..Len(h.list) - 1 : q[i] = IF i < j + 1 THEN h.list[i] ELSE h.list[i + 1]
  <2> DEFINE k == j + 1
  <2>1. k \in 1..Len(h.list)
    BY <1>2
  <2> HIDE DEF k
  <2>2. Without(RemoveAt(h.list, k), h.list, k)
    BY <1>1, <2>1, RemovedWithout
  <2> QED BY <2>2 DEF Without, k
<1>7. Once(q) /\ Elems(q) = Elems(h.list) \ {r}
  BY <1>1, <1>2, OneLess
<1> HIDE DEF q
<1>8. g = [h EXCEPT !.offset = [h.offset EXCEPT ![r] = h.size[l]],
                    !.size = [h.size EXCEPT ![l] = h.size[l] + h.size[r]],
                    !.parent = [h.parent EXCEPT ![r] = l], !.list = q]
  BY <1>5 DEF FuseToLeft, q
<1> HIDE DEF g
<1>9. h.size[l] \in Nat /\ h.size[r] \in Nat /\ h.size[l] + h.size[r] \in Nat
  <2>1. h.size \in [Nodes -> Nat]
    BY <1>1
  <2>2. h.size[l] \in Nat /\ h.size[r] \in Nat
    BY <1>4, <2>1
  <2> QED BY <2>2
<1>10. /\ g.chunks = h.chunks /\ g.list = q /\ g.free = h.free /\ g.usage = h.usage
       /\ g.size = [h.size EXCEPT ![l] = h.size[l] + h.size[r]]
       /\ g.offset = [h.offset EXCEPT ![r] = h.size[l]] /\ g.parent = [h.parent EXCEPT ![r] = l]
  BY <1>1, <1>8 DEF Heaps
<1>11. g \in Heaps
  <2>1. g.size \in [Nodes -> Nat] /\ g.offset \in [Nodes -> Nat] /\ g.parent \in [Nodes -> Nodes \cup {0}]
    <3>1. g.size \in [Nodes -> Nat] /\ g.offset \in [Nodes -> Nat]
      BY <1>1, <1>9, <1>10
    <3>2. g.parent \in [Nodes -> Nodes \cup {0}]
      BY <1>1, <1>4, <1>10
    <3> QED BY <3>1, <3>2
  <2>2. g = [chunks |-> g.chunks, list |-> g.list, free |-> g.free, size |-> g.size,
             usage |-> g.usage, offset |-> g.offset, parent |-> g.parent]
    BY <1>1, <1>8 DEF Heaps
  <2> QED BY <1>1, <1>6, <1>10, <2>1, <2>2 DEF Heaps
<1>12. \A n \in Nodes \ {l} : g.size[n] = h.size[n]
  BY <1>1, <1>10
<1>13. g.size[l] = h.size[l] + h.size[r]
  BY <1>1, <1>4, <1>10
<1>14. /\ \A n \in Nodes \ {r} : g.parent[n] = h.parent[n] /\ g.offset[n] = h.offset[n]
       /\ g.parent[r] = l /\ g.offset[r] = h.size[l]
  BY <1>1, <1>4, <1>10
<1>15. l \in Elems(h.list) /\ r \in Elems(h.list)
  BY <1>2 DEF Elems
<1>16. h.parent[r] = 0 /\ h.parent[l] = 0
  BY <1>1, <1>4, <1>15 DEF Rooted
<1>17. l \notin Elems(h.free) /\ r \notin Elems(h.free)
  OBVIOUS
<1>18. Elems(g.free) = {n \in Elems(g.list) : ~g.usage[n] /\ n \notin X \ {r}}
  BY <1>1, <1>7, <1>10, <1>17
<1>19. Sorted(g.free, g.size)
  <2>1. \A i \in 1..Len(h.free) : g.size[h.free[i]] = h.size[h.free[i]]
    <3> TAKE i \in 1..Len(h.free)
    <3>1. h.free[i] \in Nodes
      BY <1>1, ElementOfSeq
    <3>2. h.free[i] # l
      BY <1>17 DEF Elems
    <3> QED BY <1>12, <3>1, <3>2
  <2> QED BY <1>1, <1>10, <2>1 DEF Sorted
<1>20. Rooted(g)
  <2>1. r <= h.chunks
    BY <1>1, <1>15 DEF Rooted
  <2>2. \A n \in Nodes : g.parent[n] = 0 <=> n \in Elems(g.list) \/ n > g.chunks
    <3> TAKE n \in Nodes
    <3>1. CASE n = r
      <4>1. ~(n > g.chunks)
        BY <1>1, <1>4, <1>10, <2>1, <3>1 DEF Nodes
      <4> QED BY <1>4, <1>7, <1>10, <1>14, <3>1, <4>1
    <3>2. CASE n # r
      <4>1. h.parent[n] = 0 <=> n \in Elems(h.list) \/ n > h.chunks
        BY <1>1 DEF Rooted
      <4>2. g.parent[n] = h.parent[n] /\ g.chunks = h.chunks /\ g.list = q
        BY <1>10, <1>14, <3>2
      <4>3. n \in Elems(q) <=> n \in Elems(h.list)
        BY <1>7, <3>2
      <4> QED BY <4>1, <4>2, <4>3
    <3> QED BY <3>1, <3>2
  <2>3. g.list # <<>>
    BY <1>2, <1>6, <1>10
  <2>4. \A n \in Elems(g.list) : n <= g.chunks
    BY <1>1, <1>7, <1>10 DEF Rooted
  <2> QED BY <2>2, <2>3, <2>4 DEF Rooted
<1>21. Solvable(g)
  <2> SUFFICES ASSUME NEW z \in [Nodes -> Nat]
               PROVE  \E at \in [Nodes -> Nat] : Solves(g, z, at) /\ \A f : Solves(g, z, f) => f = at
    BY DEF Solvable
  <2> DEFINE y == [z EXCEPT ![r] = h.size[l] + z[l]]
  <2>1. y \in [Nodes -> Nat] /\ y[r] = h.size[l] + z[l] /\ \A n \in Nodes \ {r} : y[n] = z[n]
    BY <1>4, <1>9
  <2> HIDE DEF y
  <2>2. ASSUME NEW f PROVE Solves(g, z, f) <=> Solves(h, y, f)
    <3> DEFINE G(n) == IF g.parent[n] = 0 THEN z[n] ELSE g.offset[n] + f[g.parent[n]]
               H(n) == IF h.parent[n] = 0 THEN y[n] ELSE h.offset[n] + f[h.parent[n]]
    <3>1. \A n \in Nodes \ {r} : G(n) = H(n)
      BY <1>14, <2>1
    <3>2. G(r) = h.size[l] + f[l] /\ H(r) = h.size[l] + z[l] /\ H(l) = z[l] /\ G(l) = z[l]
      BY <1>4, <1>14, <1>16, <2>1
    <3>3. Solves(g, z, f) <=> f = [n \in Nodes |-> G(n)]
      BY DEF Solves
    <3>4. Solves(h, y, f) <=> f = [n \in Nodes |-> H(n)]
      BY DEF Solves
    <3> HIDE DEF G, H
    <3>5. f[l] = z[l] => \A n \in Nodes : G(n) = H(n)
      BY <3>1, <3>2
    <3>6. f = [n \in Nodes |-> G(n)] => f[l] = z[l]
      BY <1>4, <3>2
    <3>7. f = [n \in Nodes |-> H(n)] => f[l] = z[l]
      BY <1>4, <3>2
    <3>8. f[l] = z[l] => [n \in Nodes |-> G(n)] = [n \in Nodes |-> H(n)]
      BY <3>5
    <3> QED BY <3>3, <3>4, <3>6, <3>7, <3>8
  <2> QED BY <1>1, <2>1, <2>2 DEF Solvable
<1>22. ListOf(g, X \ {r})
  BY <1>1, <1>7, <1>10, <1>11, <1>18, <1>19, <1>20, <1>21 DEF ListOf
<1>23. ASSUME NEW base, NEW E, Fits(g, base, E) PROVE Fits(h, base, E)
  <2>1. /\ base \in [Nodes -> Nat] /\ E \in Nat
        /\ \A n \in Nodes : g.parent[n] # 0 => base[n] = base[g.parent[n]] + g.offset[n]
        /\ \A i, k \in 1..Len(q) : i < k => base[q[i]] + g.size[q[i]] <= base[q[k]]
        /\ \A i \in 1..Len(q) : base[q[i]] + g.size[q[i]] <= E
    BY <1>10, <1>23 DEF Fits
  <2>2. base[r] = base[l] + h.size[l]
    BY <1>4, <1>14, <2>1
  <2>3. \A n \in Nodes : h.parent[n] # 0 => base[n] = base[h.parent[n]] + h.offset[n]
    BY <1>14, <1>16, <2>1
  <2> DEFINE end(n) == base[n] + h.size[n]
             new(i) == IF i <= j THEN i ELSE i - 1
  <2>4. \A n \in Nodes : base[n] \in Nat /\ h.size[n] \in Nat /\ g.size[n] \in Nat /\ h.size[n] <= g.size[n]
    <3> TAKE n \in Nodes
    <3>1. base[n] \in Nat /\ h.size[n] \in Nat
      BY <1>1, <2>1
    <3>2. g.size[n] \in Nat /\ h.size[n] <= g.size[n]
      <4>1. CASE n = l
        BY <1>9, <1>13, <4>1
      <4>2. CASE n # l
        BY <1>12, <3>1, <4>2
      <4> QED BY <4>1, <4>2
    <3> QED BY <3>1, <3>2
  <2>5. \A i \in 1..Len(h.list) : i # j + 1 => new(i) \in 1..Len(q) /\ q[new(i)] = h.list[i]
    <3> TAKE i \in 1..Len(h.list)
    <3>1. CASE i <= j
      BY <1>2, <1>6, <3>1
    <3>2. CASE i > j + 1
      <4>1. i - 1 \in 1..Len(h.list) - 1 /\ ~(i - 1 < j + 1) /\ (i - 1) + 1 = i /\ new(i) = i - 1
        BY <1>2, <3>2
      <4>2. q[i - 1] = h.list[(i - 1) + 1]
        BY <1>6, <4>1
      <4> QED BY <1>6, <4>1, <4>2
    <3> QED BY <1>2, <3>1, <3>2
  <2>6. h.list[j] = l /\ h.list[j + 1] = r
    OBVIOUS
  <2>7. j \in 1..Len(q) /\ q[j] = l
    BY <1>2, <1>6, <2>6
  <2>8. end(r) = base[l] + g.size[l] /\ end(l) = base[r]
    BY <1>4, <1>13, <2>2, <2>4
  <2>9. ASSUME NEW i \in 1..Len(h.list), NEW k \in 1..Len(h.list), i < k
        PROVE  end(h.list[i]) <= base[h.list[k]]
    <3>1. h.list[i] \in Nodes /\ h.list[k] \in Nodes
      BY <1>3
    <3>2. CASE i # j + 1 /\ k # j + 1
      <4>1. new(i) \in 1..Len(q) /\ new(k) \in 1..Len(q) /\ q[new(i)] = h.list[i] /\ q[new(k)] = h.list[k]
        BY <2>5, <3>2
      <4>2. new(i) < new(k)
        BY <1>2, <2>9, <3>2
      <4> HIDE DEF new
      <4>3. base[h.list[i]] + g.size[h.list[i]] <= base[h.list[k]]
        BY <2>1, <4>1, <4>2
      <4> HIDE DEF end
      <4>4. \A a, b, c, d \in Nat : c <= d /\ a + d <= b => a + c <= b
        OBVIOUS
      <4> QED BY <2>4, <3>1, <4>3, <4>4 DEF end
    <3>3. CASE i = j + 1
      <4>1. new(k) \in 1..Len(q) /\ q[new(k)] = h.list[k] /\ j < new(k)
        BY <1>2, <2>5, <2>9, <3>3
      <4> HIDE DEF new
      <4>2. base[l] + g.size[l] <= base[h.list[k]]
        BY <2>1, <2>7, <4>1
      <4> QED BY <2>6, <2>8, <3>3, <4>2
    <3>4. CASE k = j + 1 /\ i = j
      BY <1>4, <2>4, <2>6, <2>8, <3>4
    <3>5. CASE k = j + 1 /\ i # j
      <4>1. new(i) \in 1..Len(q) /\ q[new(i)] = h.list[i] /\ new(i) < j
        BY <1>2, <2>5, <2>9, <3>5
      <4> HIDE DEF new
      <4>2. base[h.list[i]] + g.size[h.list[i]] <= base[l]
        BY <2>1, <2>7, <4>1
      <4>4. \A a, b, c, d, e \in Nat : c <= d /\ a + d <= b => a + c <= b + e
        OBVIOUS
      <4>5. h.list[i] \in Nodes /\ l \in Nodes
        BY <1>4, <3>1
      <4> HIDE DEF end
      <4>6. base[h.list[i]] + h.size[h.list[i]] <= base[l] + h.size[l]
        BY <2>4, <4>2, <4>4, <4>5
      <4> QED BY <2>2, <2>6, <3>5, <4>6 DEF end
    <3> QED BY <3>2, <3>3, <3>4, <3>5
  <2>10. ASSUME NEW i \in 1..Len(h.list) PROVE end(h.list[i]) <= E
    <3>1. CASE i = j + 1
      BY <2>1, <2>6, <2>7, <2>8, <3>1
    <3>2. CASE i # j + 1
      <4>1. new(i) \in 1..Len(q) /\ q[new(i)] = h.list[i] /\ h.list[i] \in Nodes
        BY <1>3, <2>5, <3>2
      <4> HIDE DEF new
      <4>2. base[h.list[i]] + g.size[h.list[i]] <= E
        BY <2>1, <4>1
      <4>4. \A a, b, c, d \in Nat : c <= d /\ a + d <= b => a + c <= b
        OBVIOUS
      <4> QED BY <2>1, <2>4, <4>1, <4>2, <4>4
    <3> QED BY <3>1, <3>2
  <2> QED BY <2>1, <2>3, <2>9, <2>10 DEF Fits
<1> QED BY <1>10, <1>12, <1>22, <1>23 DEF Merged, g, q

\* A free node x is taken out of the free list and fused with a neighbour.
LEMMA Joined ==
  ASSUME NEW h, NEW X, ListOf(h, X), NEW j \in 1..Len(h.list) - 1,
         NEW l, l = h.list[j], NEW r, r = h.list[j + 1],
         NEW x \in {l, r}, ~h.usage[x], x \notin X, \A y \in {l, r} : y # x => y \notin Elems(h.free)
  PROVE  Merged(h, FuseToLeft(EraseFree(h, x), l, r), (X \cup {x}) \ {r}, j)
<1> DEFINE e == EraseFree(h, x)
           g == FuseToLeft(e, l, r)
           Y == X \cup {x}
<1>1. h.list \in Seq(Nodes) /\ h.free \in Seq(Nodes) /\ Once(h.free)
  BY DEF ListOf, Heaps
<1>2. Len(h.list) \in Nat /\ j \in 1..Len(h.list) /\ j + 1 \in 1..Len(h.list)
  BY <1>1, LenProperties
<1>3. x \in Elems(h.list)
  BY <1>2 DEF Elems
<1>4. x \in Elems(h.free)
  BY <1>3 DEF ListOf
<1>5. PICK i \in 1..Len(h.free) : h.free[i] = x
  BY <1>4 DEF Elems
<1>6. e = [h EXCEPT !.free = RemoveAt(h.free, i)]
  <2>1. Pos(h.free, x) = i
    BY <1>1, <1>5, PosIs
  <2> QED BY <2>1 DEF EraseFree
<1>7. /\ ListOf(e, Y) /\ e.chunks = h.chunks /\ e.list = h.list /\ e.size = h.size
      /\ e.usage = h.usage /\ e.offset = h.offset /\ e.parent = h.parent
  BY <1>5, <1>6, FreeErased DEF Relisted
<1>8. Elems(e.free) = Elems(h.free) \ {x}
  BY <1>7 DEF ListOf
<1>9. l \notin Elems(e.free) /\ r \notin Elems(e.free)
  BY <1>8
<1> HIDE DEF e, Y
<1>10. Merged(e, g, Y \ {r}, j)
  <2>1. j \in 1..Len(e.list) - 1 /\ l = e.list[j] /\ r = e.list[j + 1] /\ ListOf(e, Y)
    BY <1>7
  <2> QED BY <1>9, <2>1, FusedTo
<1>11. \A base, E : Fits(e, base, E) => Fits(h, base, E)
  BY <1>7 DEF Fits
<1> HIDE DEF g
<1>12. Merged(h, g, Y \ {r}, j)
  BY <1>7, <1>10, <1>11 DEF Merged
<1> QED BY <1>12 DEF Y, e, g

\* The nodes of a list that are in use.
Used(h) == {n \in Elems(h.list) : h.usage[n]}

\* g is what becomes of h when the nodes of D are given back.
Gave(h, g, D) ==
    /\ HeapOK(g) /\ g.chunks = h.chunks /\ Used(g) = Used(h) \ D
    /\ \A n \in Used(g) : g.size[n] = h.size[n]
    /\ \A base, E : Fits(g, base, E) => Fits(h, base, E)

\* While node n is given back: m at position p of the list is n, or the left
\* neighbour it was fused to, and is not in the free list.
Freeing(h, n, g, m, p, X) ==
    /\ ListOf(g, X) /\ X \subseteq {m} /\ p \in 1..Len(g.list) /\ g.list[p] = m
    /\ m \notin Elems(g.free) /\ g.chunks = h.chunks
    /\ Used(g) \ {m} = Used(h) \ {n}
    /\ \A u \in Nodes \ {m} : g.size[u] = h.size[u]
    /\ \A base, E : Fits(g, base, E) => Fits(h, base, E)
    /\ p > 1 => g.usage[g.list[p - 1]]
    /\ \A i \in 1..Len(g.list) - 1 : i # p /\ i # p - 1 => g.usage[g.list[i]] \/ g.usage[g.list[i + 1]]

\* The first half of free: fuse with the left neighbour if it is free.
LEMMA FreedLeft ==
  ASSUME NEW h, HeapOK(h), NEW n \in Used(h)
  PROVE  LET l == Left(h, n)
             m == IF IsFree(h, l) THEN l ELSE n
             a == IF IsFree(h, l) THEN FuseToLeft(EraseFree(h, l), l, n) ELSE h
         IN  /\ \E p, X : p \in Nat /\ Freeing(h, n, a, m, p, X)
             /\ Right(h, n) = Right(a, m) /\ a.usage = h.usage
<1> DEFINE l == Left(h, n)
<1>1. ListOf(h, {}) /\ h.list \in Seq(Nodes) /\ Once(h.list) /\ h.usage \in [Nodes -> BOOLEAN]
  BY DEF HeapOK, ListOf, Heaps
<1>2. PICK k \in 1..Len(h.list) : h.list[k] = n
  BY DEF Used, Elems
<1>3. Len(h.list) \in Nat /\ k \in Nat
  BY <1>1, LenProperties
<1>4. \A i \in 1..Len(h.list) : h.list[i] \in Nodes /\ h.list[i] # 0
  <2>1. \A u \in Nodes : u # 0
    BY HeapAssumption DEF Nodes
  <2>2. \A i \in 1..Len(h.list) : h.list[i] \in Nodes
    BY <1>1, ElementOfSeq
  <2> QED BY <2>1, <2>2
<1>5. Pos(h.list, n) = k
  BY <1>1, <1>2, PosIs
<1>6. h.usage[n]
  BY DEF Used
<1>7. \A i \in 1..Len(h.list) - 1 : h.usage[h.list[i]] \/ h.usage[h.list[i + 1]]
  BY DEF HeapOK, Fused
<1>8. n \notin Elems(h.free)
  BY <1>1, <1>6 DEF ListOf
<1>9. CASE ~IsFree(h, l)
  <2>1. k > 1 => h.usage[h.list[k - 1]]
    <3> SUFFICES ASSUME k > 1 PROVE h.usage[h.list[k - 1]]
      OBVIOUS
    <3>1. l = h.list[k - 1] /\ k - 1 \in 1..Len(h.list)
      BY <1>3, <1>5 DEF Left
    <3>2. l # 0
      BY <1>4, <3>1
    <3> QED BY <1>9, <3>1, <3>2 DEF IsFree
  <2>2. Freeing(h, n, h, n, k, {})
    BY <1>1, <1>2, <1>7, <1>8, <2>1 DEF Freeing
  <2> QED BY <1>3, <1>9, <2>2
<1>10. CASE IsFree(h, l)
  <2>1. k > 1
    BY <1>3, <1>5, <1>10 DEF IsFree, Left
  <2> DEFINE j == k - 1
             a == FuseToLeft(EraseFree(h, l), l, n)
  <2>2. l = h.list[j] /\ j \in 1..Len(h.list) - 1 /\ h.list[j + 1] = n /\ j + 1 = k /\ j \in 1..Len(h.list)
    BY <1>2, <1>3, <1>5, <2>1 DEF Left
  <2>3. ~h.usage[l] /\ l # 0 /\ l # n /\ l \in Nodes
    BY <1>4, <1>6, <1>10, <2>2 DEF IsFree
  <2> HIDE DEF j, l
  <2>4. Merged(h, a, ({} \cup {l}) \ {n}, j)
    <3>1. l \in {l, n} /\ l \notin {} /\ \A y \in {l, n} : y # l => y \notin Elems(h.free)
      BY <1>8
    <3>2. l = h.list[j] /\ n = h.list[j + 1]
      BY <2>2
    <3> QED BY <1>1, <2>2, <2>3, <3>1, <3>2, Joined
  <2>5. ListOf(a, {l})
    <3>1. ({} \cup {l}) \ {n} = {l}
      BY <2>3
    <3> QED BY <2>4, <3>1 DEF Merged
  <2> HIDE DEF a
  <2>6. /\ Len(a.list) = Len(h.list) - 1
        /\ \A i \in 1..Len(h.list) - 1 : a.list[i] = IF i < k THEN h.list[i] ELSE h.list[i + 1]
    <3>1. k \in 1..Len(h.list) /\ a.list = RemoveAt(h.list, k)
      BY <2>2, <2>4 DEF Merged
    <3>2. /\ Len(RemoveAt(h.list, k)) = Len(h.list) - 1
          /\ \A i \in 1..Len(h.list) - 1 : RemoveAt(h.list, k)[i] = IF i < k THEN h.list[i] ELSE h.list[i + 1]
      BY <1>1, Removed
    <3> QED BY <3>1, <3>2
  <2>7. Once(a.list) /\ Elems(a.list) = Elems(h.list) \ {n}
    BY <1>1, <1>2, <2>2, <2>4, OneLess DEF Merged
  <2>8. j \in Nat /\ j \in 1..Len(a.list) /\ a.list[j] = l
    BY <1>3, <2>2, <2>6
  <2>9. l \notin Elems(a.free)
    BY <2>5 DEF ListOf
  <2>10. Used(a) \ {l} = Used(h) \ {n}
    BY <2>3, <2>4, <2>7 DEF Merged, Used
  <2>11. j > 1 => a.usage[a.list[j - 1]]
    <3> SUFFICES ASSUME j > 1 PROVE a.usage[a.list[j - 1]]
      OBVIOUS
    <3>1. j - 1 \in 1..Len(h.list) - 1 /\ (j - 1) + 1 = j /\ j - 1 < k
      BY <1>3, <2>2
    <3>2. a.list[j - 1] = h.list[j - 1]
      BY <2>6, <3>1
    <3>3. h.usage[h.list[j - 1]] \/ h.usage[h.list[(j - 1) + 1]]
      BY <1>7, <3>1
    <3> QED BY <2>2, <2>3, <2>4, <3>1, <3>2, <3>3 DEF Merged
  <2>12. \A i \in 1..Len(a.list) - 1 : i # j /\ i # j - 1 => a.usage[a.list[i]] \/ a.usage[a.list[i + 1]]
    <3> TAKE i \in 1..Len(a.list) - 1
    <3>1. CASE i < j
      <4>1. i \in 1..Len(h.list) - 1 /\ i + 1 \in 1..Len(h.list) - 1 /\ i < k /\ i + 1 < k
        BY <1>3, <2>2, <2>6, <3>1
      <4>2. a.list[i] = h.list[i] /\ a.list[i + 1] = h.list[i + 1]
        BY <2>6, <4>1
      <4> QED BY <1>7, <2>4, <4>1, <4>2 DEF Merged
    <3>2. CASE i > j
      <4>1. /\ i \in 1..Len(h.list) - 1 /\ i + 1 \in 1..Len(h.list) - 1
            /\ ~(i < k) /\ ~(i + 1 < k)
        BY <1>3, <2>2, <2>6, <3>2
      <4>2. a.list[i] = h.list[i + 1] /\ a.list[i + 1] = h.list[i + 1 + 1]
        BY <2>6, <4>1
      <4> QED BY <1>7, <2>4, <4>1, <4>2 DEF Merged
    <3> QED BY <2>8, <3>1, <3>2
  <2>13. Freeing(h, n, a, l, j, {l})
    <3>1. \A u \in Nodes \ {l} : a.size[u] = h.size[u]
      BY <2>2, <2>4 DEF Merged
    <3> QED BY <2>4, <2>5, <2>8, <2>9, <2>10, <2>11, <2>12, <3>1 DEF Freeing, Merged
  <2>14. Right(h, n) = Right(a, l)
    <3>1. Pos(a.list, l) = j
      <4>1. a.list \in Seq(Nodes)
        BY <2>5 DEF ListOf, Heaps
      <4> QED BY <2>7, <2>8, <4>1, PosIs
    <3>2. CASE k = Len(h.list)
      <4>1. j = Len(a.list)
        BY <1>3, <2>2, <2>6, <3>2
      <4> QED BY <1>5, <3>1, <3>2, <4>1 DEF Right
    <3>3. CASE k # Len(h.list)
      <4>1. j # Len(a.list) /\ k \in 1..Len(h.list) - 1 /\ ~(k < k)
        BY <1>3, <2>2, <2>6, <3>3
      <4>2. a.list[j + 1] = h.list[k + 1]
        BY <2>2, <2>6, <4>1
      <4> QED BY <1>5, <3>1, <3>3, <4>1, <4>2 DEF Right
    <3> QED BY <3>2, <3>3
  <2> QED BY <1>10, <2>4, <2>8, <2>13, <2>14 DEF Merged, a, l
<1> QED BY <1>9, <1>10

\* The second half: fuse with the right neighbour if it is free.
LEMMA FreedRight ==
  ASSUME NEW h, NEW n, NEW a, NEW m, NEW p \in Nat, NEW X, Freeing(h, n, a, m, p, X),
         NEW r, r = Right(a, m)
  PROVE  LET b == IF IsFree(a, r) THEN FuseToLeft(EraseFree(a, r), m, r) ELSE a
         IN  \E Y : /\ Freeing(h, n, b, m, p, Y) /\ b.usage = a.usage
                    /\ p < Len(b.list) => b.usage[b.list[p + 1]]
<1>1. /\ ListOf(a, X) /\ a.list \in Seq(Nodes) /\ Once(a.list) /\ a.usage \in [Nodes -> BOOLEAN]
      /\ p \in 1..Len(a.list) /\ a.list[p] = m /\ X \subseteq {m} /\ m \notin Elems(a.free)
  BY DEF Freeing, ListOf, Heaps
<1>2. Len(a.list) \in Nat
  BY <1>1, LenProperties
<1>3. \A i \in 1..Len(a.list) : a.list[i] \in Nodes /\ a.list[i] # 0
  <2>1. \A u \in Nodes : u # 0
    BY HeapAssumption DEF Nodes
  <2>2. \A i \in 1..Len(a.list) : a.list[i] \in Nodes
    BY <1>1, ElementOfSeq
  <2> QED BY <2>1, <2>2
<1>4. r = IF p = Len(a.list) THEN 0 ELSE a.list[p + 1]
  <2>1. Pos(a.list, m) = p
    BY <1>1, PosIs
  <2> QED BY <2>1 DEF Right
<1>5. CASE ~IsFree(a, r)
  <2>1. p < Len(a.list) => a.usage[a.list[p + 1]]
    <3> SUFFICES ASSUME p < Len(a.list) PROVE a.usage[a.list[p + 1]]
      OBVIOUS
    <3>1. p + 1 \in 1..Len(a.list) /\ p # Len(a.list)
      BY <1>2
    <3> QED BY <1>3, <1>4, <1>5, <3>1 DEF IsFree
  <2> QED BY <1>5, <2>1
<1>6. CASE IsFree(a, r)
  <2>1. p # Len(a.list) /\ r = a.list[p + 1] /\ r # 0 /\ ~a.usage[r]
    BY <1>4, <1>6 DEF IsFree
  <2>2. p \in 1..Len(a.list) - 1 /\ p + 1 \in 1..Len(a.list)
    BY <1>1, <1>2, <2>1
  <2>3. r \in Nodes /\ r # m
    <3>1. p + 1 # p
      OBVIOUS
    <3> QED BY <1>1, <1>3, <2>1, <2>2, <3>1 DEF Once
  <2> DEFINE b == FuseToLeft(EraseFree(a, r), m, r)
  <2>4. Merged(a, b, (X \cup {r}) \ {r}, p)
    <3>1. r \in {m, r} /\ r \notin X /\ \A y \in {m, r} : y # r => y \notin Elems(a.free)
      BY <1>1, <2>3
    <3> QED BY <1>1, <2>1, <2>2, <3>1, Joined
  <2>5. ListOf(b, X)
    <3>1. (X \cup {r}) \ {r} = X
      BY <1>1, <2>3
    <3> QED BY <2>4, <3>1 DEF Merged
  <2> HIDE DEF b
  <2>6. /\ Len(b.list) = Len(a.list) - 1
        /\ \A i \in 1..Len(a.list) - 1 : b.list[i] = IF i < p + 1 THEN a.list[i] ELSE a.list[i + 1]
    <3>1. b.list = RemoveAt(a.list, p + 1)
      BY <2>4 DEF Merged
    <3> DEFINE k == p + 1
    <3>2. k \in 1..Len(a.list)
      BY <2>2
    <3> HIDE DEF k
    <3>3. /\ Len(RemoveAt(a.list, k)) = Len(a.list) - 1
          /\ \A i \in 1..Len(a.list) - 1 :
                RemoveAt(a.list, k)[i] = IF i < k THEN a.list[i] ELSE a.list[i + 1]
      BY <1>1, <3>2, Removed
    <3> QED BY <3>1, <3>3 DEF k
  <2>7. Elems(b.list) = Elems(a.list) \ {r}
    BY <1>1, <2>1, <2>2, <2>4, OneLess DEF Merged
  <2>8. b.usage = a.usage /\ b.chunks = a.chunks /\ \A base, E : Fits(b, base, E) => Fits(a, base, E)
    BY <2>4 DEF Merged
  <2>9. p \in 1..Len(b.list) /\ b.list[p] = m
    BY <1>1, <2>2, <2>6
  <2>10. m \notin Elems(b.free)
    <3>1. m \in X \/ a.usage[m]
      <4>1. m \in Elems(a.list)
        BY <1>1 DEF Elems
      <4> QED BY <1>1, <4>1 DEF ListOf
    <3> QED BY <2>5, <2>8, <3>1 DEF ListOf
  <2>11. Used(b) = Used(a)
    BY <2>1, <2>7, <2>8 DEF Used
  <2>12. \A u \in Nodes \ {m} : b.size[u] = a.size[u]
    BY <1>1, <2>4 DEF Merged
  <2>13. p > 1 => b.usage[b.list[p - 1]]
    <3> SUFFICES ASSUME p > 1 PROVE b.usage[b.list[p - 1]]
      OBVIOUS
    <3>1. p - 1 \in 1..Len(a.list) - 1 /\ p - 1 < p + 1
      BY <1>2, <2>2
    <3>2. b.list[p - 1] = a.list[p - 1]
      BY <2>6, <3>1
    <3>3. a.usage[a.list[p - 1]]
      BY DEF Freeing
    <3> QED BY <2>8, <3>2, <3>3
  <2>14. \A i \in 1..Len(a.list) - 1 : i # p /\ i # p - 1 => a.usage[a.list[i]] \/ a.usage[a.list[i + 1]]
    BY DEF Freeing
  <2>15. \A i \in 1..Len(b.list) - 1 : i # p /\ i # p - 1 => b.usage[b.list[i]] \/ b.usage[b.list[i + 1]]
    <3> SUFFICES ASSUME NEW i \in 1..Len(b.list) - 1, i # p, i # p - 1
                 PROVE  b.usage[b.list[i]] \/ b.usage[b.list[i + 1]]
      OBVIOUS
    <3>1. CASE i < p
      <4>1. i \in 1..Len(a.list) - 1 /\ i + 1 \in 1..Len(a.list) - 1 /\ i < p + 1 /\ i + 1 < p + 1
        BY <1>2, <2>2, <2>6, <3>1
      <4>2. b.list[i] = a.list[i] /\ b.list[i + 1] = a.list[i + 1]
        BY <2>6, <4>1
      <4> QED BY <2>8, <2>14, <4>1, <4>2
    <3>2. CASE i > p
      <4>1. /\ i \in 1..Len(a.list) - 1 /\ i + 1 \in 1..Len(a.list) - 1
            /\ ~(i < p + 1) /\ ~(i + 1 < p + 1) /\ i + 1 # p /\ i + 1 # p - 1
        BY <1>2, <2>2, <2>6, <3>2
      <4>2. b.list[i] = a.list[i + 1] /\ b.list[i + 1] = a.list[i + 1 + 1]
        BY <2>6, <4>1
      <4> QED BY <2>8, <2>14, <4>1, <4>2
    <3> QED BY <2>9, <3>1, <3>2
  <2>16. p < Len(b.list) => b.usage[b.list[p + 1]]
    <3> SUFFICES ASSUME p < Len(b.list) PROVE b.usage[b.list[p + 1]]
      OBVIOUS
    <3>1. p + 1 \in 1..Len(a.list) - 1 /\ ~(p + 1 < p + 1) /\ p + 1 # p /\ p + 1 # p - 1
      BY <1>2, <2>2, <2>6
    <3>2. b.list[p + 1] = a.list[p + 1 + 1]
      BY <2>6, <3>1
    <3>3. a.usage[a.list[p + 1]] \/ a.usage[a.list[p + 1 + 1]]
      BY <2>14, <3>1
    <3> QED BY <2>1, <2>8, <3>2, <3>3
  <2>17. Freeing(h, n, b, m, p, X)
    <3>1. /\ Used(b) \ {m} = Used(h) \ {n} /\ b.chunks = h.chunks
          /\ \A u \in Nodes \ {m} : b.size[u] = h.size[u]
          /\ \A base, E : Fits(b, base, E) => Fits(h, base, E)
      BY <2>8, <2>11, <2>12 DEF Freeing
    <3> QED BY <1>1, <2>5, <2>9, <2>10, <2>13, <2>15, <3>1 DEF Freeing
  <2> QED BY <1>6, <2>8, <2>16, <2>17 DEF b
<1> QED BY <1>5, <1>6

\* free gives the node back, and nothing else changes for those in use.
LEMMA Freed ==
  ASSUME NEW h, HeapOK(h), NEW n \in Used(h)
  PROVE  Gave(h, FreeNode(h, n), {n})
<1> DEFINE l == Left(h, n)
           r == Right(h, n)
           m == IF IsFree(h, l) THEN l ELSE n
           a == IF IsFree(h, l) THEN FuseToLeft(EraseFree(h, l), l, n) ELSE h
           b == IF IsFree(h, r) THEN FuseToLeft(EraseFree(a, r), m, r) ELSE a
           c == [b EXCEPT !.usage = [b.usage EXCEPT ![m] = FALSE]]
           g == InsertFree(c, m)
<1>1. /\ \E p, X : p \in Nat /\ Freeing(h, n, a, m, p, X)
      /\ r = Right(a, m) /\ a.usage = h.usage
  BY FreedLeft
<1> HIDE DEF a, m
<1>2. PICK p, X : p \in Nat /\ Freeing(h, n, a, m, p, X)
  BY <1>1
<1>3. b = IF IsFree(a, r) THEN FuseToLeft(EraseFree(a, r), m, r) ELSE a
  BY <1>1 DEF IsFree
<1> HIDE DEF b, r
<1>4. PICK Y : /\ Freeing(h, n, b, m, p, Y) /\ b.usage = a.usage
               /\ p < Len(b.list) => b.usage[b.list[p + 1]]
  BY <1>1, <1>2, <1>3, FreedRight
<1>5. /\ ListOf(b, Y) /\ b \in Heaps /\ b.list \in Seq(Nodes) /\ b.usage \in [Nodes -> BOOLEAN]
      /\ p \in 1..Len(b.list) /\ b.list[p] = m /\ Y \subseteq {m} /\ m \notin Elems(b.free) /\ Once(b.list)
  BY <1>4 DEF Freeing, ListOf, Heaps
<1>6. m \in Nodes /\ m \in Elems(b.list)
  <2>1. m \in Nodes
    BY <1>5, ElementOfSeq
  <2> QED BY <1>5, <2>1 DEF Elems
<1>7. /\ c \in Heaps /\ c.chunks = b.chunks /\ c.list = b.list /\ c.free = b.free /\ c.size = b.size
      /\ c.offset = b.offset /\ c.parent = b.parent /\ c.usage = [b.usage EXCEPT ![m] = FALSE]
  <2>1. [b.usage EXCEPT ![m] = FALSE] \in [Nodes -> BOOLEAN]
    BY <1>5
  <2> HIDE <1>5
  <2>2. b \in Heaps
    BY <1>5
  <2> QED BY <2>1, <2>2 DEF Heaps
<1>8. ~c.usage[m] /\ \A u \in Nodes \ {m} : c.usage[u] = b.usage[u]
  BY <1>5, <1>6, <1>7
<1> HIDE DEF c
<1>9. ListOf(c, {m})
  <2>1. Elems(c.free) = {u \in Elems(c.list) : ~c.usage[u] /\ u \notin {m}}
    <3>1. \A u \in Elems(b.list) : u \in Nodes
      BY <1>5, ElementOfSeq DEF Elems
    <3>2. Elems(b.free) = {u \in Elems(b.list) : ~b.usage[u] /\ u \notin Y}
      BY <1>5 DEF ListOf
    <3> QED BY <1>5, <1>7, <1>8, <3>1, <3>2
  <2>2. Rooted(c)
    BY <1>5, <1>7 DEF ListOf, Rooted
  <2>3. Solvable(c)
    <3>1. \A z, f : Solves(c, z, f) <=> Solves(b, z, f)
      BY <1>7 DEF Solves
    <3> QED BY <1>5, <3>1 DEF ListOf, Solvable
  <2>4. Once(c.list) /\ Once(c.free) /\ Sorted(c.free, c.size)
    BY <1>5, <1>7 DEF ListOf
  <2> QED BY <1>7, <2>1, <2>2, <2>3, <2>4 DEF ListOf
<1>10. /\ ListOf(g, {}) /\ g.chunks = c.chunks /\ g.list = c.list /\ g.size = c.size
       /\ g.usage = c.usage /\ g.offset = c.offset /\ g.parent = c.parent
  <2>1. Relisted(c, g, {})
    BY <1>6, <1>7, <1>8, <1>9, FreeInserted
  <2> QED BY <2>1 DEF Relisted
<1> HIDE DEF g
<1>11. Fused(g)
  <2> SUFFICES ASSUME NEW i \in 1..Len(b.list) - 1
               PROVE  g.usage[b.list[i]] \/ g.usage[b.list[i + 1]]
    BY <1>7, <1>10 DEF Fused
  <2>0. /\ Len(b.list) \in Nat /\ i \in Nat /\ i \in 1..Len(b.list) /\ i + 1 \in 1..Len(b.list)
        /\ p \in Nat /\ i # i + 1
    BY <1>5, LenProperties
  <2>1. b.list[i] \in Nodes /\ b.list[i + 1] \in Nodes
    BY <1>5, <2>0, ElementOfSeq
  <2>2. \A j \in 1..Len(b.list) : b.list[j] = m => j = p
    BY <1>5 DEF Once
  <2>3. CASE i = p
    <3>1. b.usage[b.list[i + 1]]
      BY <1>4, <2>0, <2>3
    <3>2. b.list[i + 1] # m
      BY <2>0, <2>2, <2>3
    <3> QED BY <1>8, <1>10, <2>1, <3>1, <3>2
  <2>4. CASE i + 1 = p
    <3>1. p > 1 /\ i = p - 1
      BY <2>0, <2>4
    <3>2. b.usage[b.list[i]]
      BY <1>4, <3>1 DEF Freeing
    <3>3. b.list[i] # m
      BY <2>0, <2>2, <2>4
    <3> QED BY <1>8, <1>10, <2>1, <3>2, <3>3
  <2>5. CASE i # p /\ i + 1 # p
    <3>1. i # p - 1
      BY <2>0, <2>5
    <3>2. b.usage[b.list[i]] \/ b.usage[b.list[i + 1]]
      BY <1>4, <2>5, <3>1 DEF Freeing
    <3>3. b.list[i] # m /\ b.list[i + 1] # m
      BY <2>0, <2>2, <2>5
    <3> QED BY <1>8, <1>10, <2>1, <3>2, <3>3
  <2> QED BY <2>3, <2>4, <2>5
<1>12. Used(g) = Used(h) \ {n}
  <2>1. Used(b) \ {m} = Used(h) \ {n}
    BY <1>4 DEF Freeing
  <2>2. \A u \in Elems(b.list) : u \in Nodes
    BY <1>5, ElementOfSeq DEF Elems
  <2>3. Used(g) = Used(b) \ {m}
    BY <1>7, <1>8, <1>10, <2>2 DEF Used
  <2> QED BY <2>1, <2>3
<1>13. \A u \in Used(g) : g.size[u] = h.size[u]
  <2>1. \A u \in Used(g) : u \in Nodes /\ u # m
    <3>1. \A u \in Elems(b.list) : u \in Nodes
      BY <1>5, ElementOfSeq DEF Elems
    <3> QED BY <1>7, <1>8, <1>10, <3>1 DEF Used
  <2>2. \A u \in Nodes \ {m} : b.size[u] = h.size[u]
    BY <1>4 DEF Freeing
  <2> QED BY <1>7, <1>10, <2>1, <2>2
<1>14. \A base, E : Fits(g, base, E) => Fits(h, base, E)
  <2>1. \A base, E : Fits(g, base, E) => Fits(b, base, E)
    BY <1>7, <1>10 DEF Fits
  <2>2. \A base, E : Fits(b, base, E) => Fits(h, base, E)
    BY <1>4 DEF Freeing
  <2> QED BY <2>1, <2>2
<1>15. g.chunks = h.chunks
  BY <1>4, <1>7, <1>10 DEF Freeing
<1>16. Gave(h, g, {n})
  BY <1>10, <1>11, <1>12, <1>13, <1>14, <1>15 DEF Gave, HeapOK
<1>17. FreeNode(h, n) = g
  BY DEF FreeNode, g, c, b, a, m, r
<1> QED BY <1>16, <1>17

\* g comes from h by creating node n in place k of the list.
Adds(h, g, k, n, s, u) ==
    /\ h.chunks < MaxAllocs /\ k \in 1..Len(h.list) + 1 /\ s \in Nat /\ u \in BOOLEAN /\ n = h.chunks + 1
    /\ g = [h EXCEPT !.chunks = n, !.size[n] = s, !.usage[n] = u, !.list = InsertAt(h.list, k, n)]

\* What is known then.
Grown(h, g, X, k, n, s, u) ==
    /\ ListOf(g, IF u THEN X ELSE X \cup {n}) /\ n \in Nodes /\ n \notin Elems(h.list)
    /\ g.chunks = n /\ g.list = InsertAt(h.list, k, n) /\ g.free = h.free
    /\ g.size = [h.size EXCEPT ![n] = s] /\ g.usage = [h.usage EXCEPT ![n] = u]
    /\ g.parent = h.parent /\ g.offset = h.offset

\* A node that is created is put into the list (createMemNode, insert_after).
LEMMA NodeAdded ==
  ASSUME NEW h, NEW X, ListOf(h, X), NEW g, NEW k, NEW n, NEW s, NEW u, Adds(h, g, k, n, s, u)
  PROVE  Grown(h, g, X, k, n, s, u)
<1> h.chunks < MaxAllocs /\ k \in 1..Len(h.list) + 1 /\ s \in Nat /\ u \in BOOLEAN
  BY DEF Adds
<1>0. n = h.chunks + 1
  BY DEF Adds
<1> g = [h EXCEPT !.chunks = n, !.size[n] = s, !.usage[n] = u, !.list = InsertAt(h.list, k, n)]
  BY DEF Adds
<1> DEFINE q == InsertAt(h.list, k, n)
           Y == IF u THEN X ELSE X \cup {n}
<1>1. /\ h \in Heaps /\ h.list \in Seq(Nodes) /\ h.free \in Seq(Nodes) /\ h.size \in [Nodes -> Nat]
      /\ h.offset \in [Nodes -> Nat] /\ h.parent \in [Nodes -> Nodes \cup {0}]
      /\ h.usage \in [Nodes -> BOOLEAN] /\ h.chunks \in 0..MaxAllocs
      /\ Once(h.list) /\ Once(h.free) /\ Sorted(h.free, h.size) /\ Rooted(h) /\ Solvable(h)
      /\ Elems(h.free) = {x \in Elems(h.list) : ~h.usage[x] /\ x \notin X}
  BY DEF ListOf, Heaps
<1>2. n \in Nodes /\ n \in 0..MaxAllocs /\ h.chunks < n /\ n > 0 /\ h.chunks \in Nat /\ n \in Nat
  BY <1>0, <1>1, HeapAssumption DEF Nodes
<1>3. \A x \in Elems(h.list) : x \in Nodes /\ x \in Nat /\ x <= h.chunks
  <2>1. \A x \in Elems(h.list) : x \in Nodes
    BY <1>1, ElementOfSeq DEF Elems
  <2>2. \A x \in Nodes : x \in Nat
    BY HeapAssumption DEF Nodes
  <2> QED BY <1>1, <2>1, <2>2 DEF Rooted
<1>4. n \notin Elems(h.list)
  BY <1>2, <1>3
<1>5. q \in Seq(Nodes) /\ Len(q) = Len(h.list) + 1
  <2>1. h.list \in Seq(Nodes) /\ n \in Nodes
    BY <1>1, <1>2
  <2> QED BY <2>1, Inserted
<1>6. Once(q) /\ Elems(q) = Elems(h.list) \cup {n}
  <2>1. h.list \in Seq(Nodes) /\ Once(h.list) /\ n \in Nodes
    BY <1>1, <1>2
  <2> QED BY <1>4, <2>1, OneMore
<1> HIDE DEF q
<1>7. /\ g.chunks = n /\ g.list = q /\ g.free = h.free
      /\ g.size = [h.size EXCEPT ![n] = s] /\ g.usage = [h.usage EXCEPT ![n] = u]
      /\ g.parent = h.parent /\ g.offset = h.offset
      /\ g = [chunks |-> g.chunks, list |-> g.list, free |-> g.free, size |-> g.size,
              usage |-> g.usage, offset |-> g.offset, parent |-> g.parent]
  BY <1>1 DEF Heaps, q
<1>8. g.size \in [Nodes -> Nat] /\ g.usage \in [Nodes -> BOOLEAN]
  <2>1. [h.size EXCEPT ![n] = s] \in [Nodes -> Nat]
    BY <1>1
  <2>2. [h.usage EXCEPT ![n] = u] \in [Nodes -> BOOLEAN]
    BY <1>1
  <2> QED BY <1>7, <2>1, <2>2
<1>9. g \in Heaps
  BY <1>1, <1>2, <1>5, <1>7, <1>8 DEF Heaps
<1>10. g.size[n] = s /\ g.usage[n] = u /\ \A x \in Nodes \ {n} : g.size[x] = h.size[x] /\ g.usage[x] = h.usage[x]
  BY <1>1, <1>2, <1>7
<1>11. Elems(g.free) = {x \in Elems(g.list) : ~g.usage[x] /\ x \notin Y}
  <2>1. \A x \in Elems(h.list) : g.usage[x] = h.usage[x] /\ (x \in Y <=> x \in X)
    BY <1>3, <1>4, <1>10
  <2>2. ~(~g.usage[n] /\ n \notin Y)
    BY <1>10
  <2> QED BY <1>1, <1>6, <1>7, <2>1, <2>2
<1>12. Sorted(g.free, g.size)
  <2>1. \A i \in 1..Len(h.free) : g.size[h.free[i]] = h.size[h.free[i]]
    <3> TAKE i \in 1..Len(h.free)
    <3>1. h.free[i] \in Elems(h.list)
      <4>1. h.free[i] \in Elems(h.free)
        BY DEF Elems
      <4> QED BY <1>1, <4>1
    <3> QED BY <1>3, <1>4, <1>10, <3>1
  <2>2. g.free = h.free /\ Sorted(h.free, h.size)
    BY <1>1, <1>7
  <2> QED BY <2>1, <2>2 DEF Sorted
<1>13. Rooted(g)
  <2>1. \A x \in Elems(g.list) : x <= g.chunks
    BY <1>2, <1>3, <1>6, <1>7
  <2>2. \A x \in Nodes : x > n <=> x > h.chunks /\ x # n
    BY <1>0, <1>2, HeapAssumption DEF Nodes
  <2>3. \A x \in Nodes : g.parent[x] = 0 <=> x \in Elems(g.list) \/ x > g.chunks
    BY <1>1, <1>2, <1>6, <1>7, <2>2 DEF Rooted
  <2>4. g.list # <<>>
    <3>1. Len(h.list) \in Nat
      BY <1>1, LenProperties
    <3> QED BY <1>5, <1>7, <3>1
  <2> QED BY <2>1, <2>3, <2>4 DEF Rooted
<1>14. Solvable(g)
  <2>1. \A z, f : Solves(g, z, f) <=> Solves(h, z, f)
    BY <1>7 DEF Solves
  <2> QED BY <1>1, <2>1 DEF Solvable
<1>15. ListOf(g, Y)
  BY <1>1, <1>6, <1>7, <1>9, <1>11, <1>12, <1>13, <1>14 DEF ListOf
<1> QED BY <1>0, <1>2, <1>4, <1>7, <1>15 DEF Grown, q

\* g is h but for the size of node n.
Sized(h, g, X, n, s) ==
    /\ ListOf(g, X) /\ g.chunks = h.chunks /\ g.list = h.list /\ g.free = h.free
    /\ g.size = [h.size EXCEPT ![n] = s] /\ g.usage = h.usage
    /\ g.parent = h.parent /\ g.offset = h.offset

\* A node in use may change its size.
LEMMA Resized ==
  ASSUME NEW h, NEW X, ListOf(h, X), NEW n \in Nodes, n \notin Elems(h.free), NEW s \in Nat,
         NEW g, g = [h EXCEPT !.size[n] = s]
  PROVE  Sized(h, g, X, n, s)
<1>1. /\ h \in Heaps /\ h.free \in Seq(Nodes) /\ h.size \in [Nodes -> Nat] /\ Sorted(h.free, h.size)
  BY DEF ListOf, Heaps
<1>2. /\ g.chunks = h.chunks /\ g.list = h.list /\ g.free = h.free
      /\ g.size = [h.size EXCEPT ![n] = s] /\ g.usage = h.usage
      /\ g.parent = h.parent /\ g.offset = h.offset /\ g \in Heaps
  BY <1>1 DEF Heaps
<1>3. Sorted(g.free, g.size)
  <2>1. \A i \in 1..Len(h.free) : g.size[h.free[i]] = h.size[h.free[i]]
    <3> TAKE i \in 1..Len(h.free)
    <3>1. h.free[i] \in Nodes
      BY <1>1, ElementOfSeq
    <3>2. h.free[i] # n
      BY DEF Elems
    <3> QED BY <1>1, <1>2, <3>1, <3>2
  <2> QED BY <1>1, <1>2, <2>1 DEF Sorted
<1>4. Solvable(g)
  <2>1. \A z, f : Solves(g, z, f) <=> Solves(h, z, f)
    BY <1>2 DEF Solves
  <2> QED BY <2>1 DEF ListOf, Solvable
<1>5. Rooted(g)
  BY <1>2 DEF ListOf, Rooted
<1>6. Once(g.list) /\ Once(g.free) /\ Elems(g.free) = {x \in Elems(g.list) : ~g.usage[x] /\ x \notin X}
  BY <1>2 DEF ListOf
<1> QED BY <1>2, <1>3, <1>4, <1>5, <1>6 DEF ListOf, Sized

\* A layout of a list in which nodes became larger is one of the list before.
LEMMA LargerFits ==
  ASSUME NEW h, NEW g, h.list \in Seq(Nodes), h.size \in [Nodes -> Nat], g.size \in [Nodes -> Nat],
         g.list = h.list, g.parent = h.parent, g.offset = h.offset,
         \A n \in Nodes : h.size[n] <= g.size[n],
         NEW base, NEW E, Fits(g, base, E)
  PROVE  Fits(h, base, E)
<1>1. base \in [Nodes -> Nat] /\ E \in Nat
  BY DEF Fits
<1>2. \A i \in 1..Len(h.list) : h.list[i] \in Nodes
  BY ElementOfSeq
<1>3. \A n \in Nodes : base[n] \in Nat /\ h.size[n] \in Nat /\ g.size[n] \in Nat /\ h.size[n] <= g.size[n]
  BY <1>1
<1>4. \A a, b, c, d \in Nat : c <= d /\ a + d <= b => a + c <= b
  OBVIOUS
<1>5. \A i, j \in 1..Len(h.list) : i < j => base[h.list[i]] + h.size[h.list[i]] <= base[h.list[j]]
  <2> SUFFICES ASSUME NEW i \in 1..Len(h.list), NEW j \in 1..Len(h.list), i < j
               PROVE  base[h.list[i]] + h.size[h.list[i]] <= base[h.list[j]]
    OBVIOUS
  <2>1. base[h.list[i]] + g.size[h.list[i]] <= base[h.list[j]]
    BY DEF Fits
  <2> QED BY <1>2, <1>3, <1>4, <2>1
<1>6. \A i \in 1..Len(h.list) : base[h.list[i]] + h.size[h.list[i]] <= E
  <2> TAKE i \in 1..Len(h.list)
  <2>1. base[h.list[i]] + g.size[h.list[i]] <= E
    BY DEF Fits
  <2> QED BY <1>1, <1>2, <1>3, <1>4, <2>1
<1> QED BY <1>1, <1>5, <1>6 DEF Fits

\* g is h with node n at place j split: n keeps s, the new node m behind it has
\* the rest.
Split(h, g, j, n, m, s) ==
    /\ h.list \in Seq(Nodes) /\ h.size \in [Nodes -> Nat] /\ j \in 1..Len(h.list) /\ Once(h.list)
    /\ n = h.list[j] /\ m \in Nodes /\ m \notin Elems(h.list) /\ s \in Nat /\ s <= h.size[n]
    /\ g.list = InsertAt(h.list, j + 1, m) /\ g.parent = h.parent /\ g.offset = h.offset
    /\ g.size[n] = s /\ g.size[m] = h.size[n] - s /\ \A x \in Nodes : x # n /\ x # m => g.size[x] = h.size[x]

\* A layout of a list in which a node was split is one of the list before.
LEMMA SplitFits ==
  ASSUME NEW h, NEW g, NEW j, NEW n, NEW m, NEW s, Split(h, g, j, n, m, s), NEW base, NEW E, Fits(g, base, E)
  PROVE  Fits(h, base, E)
<1> h.list \in Seq(Nodes) /\ h.size \in [Nodes -> Nat] /\ j \in 1..Len(h.list) /\ Once(h.list)
  BY DEF Split
<1> n = h.list[j] /\ m \in Nodes /\ m \notin Elems(h.list) /\ s \in Nat /\ s <= h.size[n]
  BY DEF Split
<1> g.list = InsertAt(h.list, j + 1, m) /\ g.parent = h.parent /\ g.offset = h.offset
  BY DEF Split
<1> g.size[n] = s /\ g.size[m] = h.size[n] - s /\ \A x \in Nodes : x # n /\ x # m => g.size[x] = h.size[x]
  BY DEF Split
<1> DEFINE q == InsertAt(h.list, j + 1, m)
           end(x) == base[x] + h.size[x]
           new(i) == IF i <= j THEN i ELSE i + 1
<1>1. /\ base \in [Nodes -> Nat] /\ E \in Nat
      /\ \A x \in Nodes : h.parent[x] # 0 => base[x] = base[h.parent[x]] + h.offset[x]
      /\ \A i, k \in 1..Len(q) : i < k => base[q[i]] + g.size[q[i]] <= base[q[k]]
      /\ \A i \in 1..Len(q) : base[q[i]] + g.size[q[i]] <= E
  BY DEF Fits
<1>2. Len(h.list) \in Nat /\ j \in Nat /\ j + 1 \in 1..Len(h.list) + 1
  BY LenProperties
<1>3. /\ Len(q) = Len(h.list) + 1
      /\ \A i \in 1..Len(h.list) + 1 :
            q[i] = IF i < j + 1 THEN h.list[i] ELSE IF i = j + 1 THEN m ELSE h.list[i - 1]
  <2>1. With(q, h.list, j + 1, m)
    BY <1>2, InsertedWith
  <2> QED BY <2>1 DEF With
<1> HIDE DEF q
<1>4. \A i \in 1..Len(h.list) : h.list[i] \in Nodes /\ h.list[i] # m
  <2>1. \A i \in 1..Len(h.list) : h.list[i] \in Nodes
    BY ElementOfSeq
  <2> QED BY <2>1 DEF Elems
<1>5. n \in Nodes /\ n # m
  BY <1>4
<1>6. \A x \in Nodes : base[x] \in Nat /\ h.size[x] \in Nat
  BY <1>1
<1>7. \A i \in 1..Len(h.list) : new(i) \in 1..Len(q) /\ q[new(i)] = h.list[i] /\ new(i) # j + 1
  <2> TAKE i \in 1..Len(h.list)
  <2>1. CASE i <= j
    BY <1>2, <1>3, <2>1
  <2>2. CASE i > j
    <3>1. new(i) = i + 1 /\ i + 1 \in 1..Len(h.list) + 1 /\ ~(i + 1 < j + 1) /\ i + 1 # j + 1 /\ (i + 1) - 1 = i
      BY <1>2, <2>2
    <3> QED BY <1>3, <3>1
  <2> QED BY <1>2, <2>1, <2>2
<1>8. j \in 1..Len(q) /\ j + 1 \in 1..Len(q) /\ q[j] = n /\ q[j + 1] = m
  BY <1>2, <1>3
<1>9. base[n] + s <= base[m] /\ s <= h.size[n]
  <2>1. j < j + 1
    BY <1>2
  <2>2. base[q[j]] + g.size[q[j]] <= base[q[j + 1]]
    BY <1>1, <1>8, <2>1
  <2> QED BY <1>8, <2>2
<1>10. ASSUME NEW b \in Nat, base[m] + (h.size[n] - s) <= b PROVE end(n) <= b
  <2>1. \A x, y, z \in Nat : x + s <= y /\ y + (z - s) <= b => x + z <= b
    OBVIOUS
  <2> QED BY <1>5, <1>6, <1>9, <1>10, <2>1
<1>11. ASSUME NEW i \in 1..Len(h.list), NEW k \in 1..Len(h.list), i < k
       PROVE  end(h.list[i]) <= base[h.list[k]]
  <2>1. /\ new(i) \in 1..Len(q) /\ q[new(i)] = h.list[i] /\ h.list[i] \in Nodes
        /\ new(k) \in 1..Len(q) /\ q[new(k)] = h.list[k] /\ h.list[k] \in Nodes
    BY <1>4, <1>7
  <2>2. CASE h.list[i] # n
    <3>1. new(i) < new(k)
      BY <1>2, <1>11
    <3> HIDE DEF new
    <3>2. base[h.list[i]] + g.size[h.list[i]] <= base[h.list[k]]
      BY <1>1, <2>1, <3>1
    <3>3. g.size[h.list[i]] = h.size[h.list[i]]
      BY <1>4, <2>2
    <3> QED BY <3>2, <3>3
  <2>3. CASE i = j
    <3>1. j + 1 < new(k)
      BY <1>2, <1>11, <2>3
    <3> HIDE DEF new
    <3>2. base[m] + g.size[m] <= base[h.list[k]]
      BY <1>1, <1>8, <2>1, <3>1
    <3>3. base[h.list[k]] \in Nat
      BY <1>6, <2>1
    <3> QED BY <1>10, <2>3, <3>2, <3>3
  <2>4. CASE h.list[i] = n /\ i # j
    BY <2>4 DEF Once
  <2> QED BY <2>2, <2>3, <2>4
<1>12. ASSUME NEW i \in 1..Len(h.list) PROVE end(h.list[i]) <= E
  <2>1. new(i) \in 1..Len(q) /\ q[new(i)] = h.list[i] /\ h.list[i] \in Nodes
    BY <1>4, <1>7
  <2>2. CASE h.list[i] # n
    <3> HIDE DEF new
    <3>2. base[h.list[i]] + g.size[h.list[i]] <= E
      BY <1>1, <2>1
    <3>3. g.size[h.list[i]] = h.size[h.list[i]]
      BY <1>4, <2>2
    <3> QED BY <3>2, <3>3
  <2>3. CASE h.list[i] = n
    <3>2. base[m] + g.size[m] <= E
      BY <1>1, <1>8
    <3> QED BY <1>1, <1>10, <2>3, <3>2
  <2> QED BY <2>2, <2>3
<1> QED BY <1>1, <1>11, <1>12 DEF Fits

\* g is what becomes of h when node n is handed out with size s.
Took(h, g, n, s) ==
    /\ HeapOK(g) /\ n \in Nodes /\ n \notin Used(h) /\ Used(g) = Used(h) \cup {n}
    /\ g.size[n] = s /\ \A x \in Used(h) : g.size[x] = h.size[x]
    /\ g.chunks \in {h.chunks, h.chunks + 1} /\ g.chunks > 0
    /\ \A base, E : Fits(g, base, E) => Fits(h, base, E)

\* A new node at the tail.
LEMMA TookTail ==
  ASSUME NEW h, HeapOK(h), h.chunks < MaxAllocs, NEW s \in Nat
  PROVE  Took(h, NewNode(h, s, TRUE, 0), h.chunks + 1, s)
<1> DEFINE n == h.chunks + 1
           k == Len(h.list) + 1
           q == InsertAt(h.list, k, n)
           g == NewNode(h, s, TRUE, 0)
<1>1. /\ ListOf(h, {}) /\ h \in Heaps /\ h.list \in Seq(Nodes) /\ h.size \in [Nodes -> Nat]
      /\ h.usage \in [Nodes -> BOOLEAN] /\ h.chunks \in 0..MaxAllocs
  BY DEF HeapOK, ListOf, Heaps
<1>2. Len(h.list) \in Nat /\ k \in 1..Len(h.list) + 1
  BY <1>1, LenProperties
<1>3. g = [h EXCEPT !.chunks = n, !.size[n] = s, !.usage[n] = TRUE, !.list = InsertAt(h.list, k, n)]
  BY DEF NewNode
<1> HIDE DEF n, g, k
<1>4. n = h.chunks + 1
  BY DEF n
<1>5. /\ ListOf(g, {}) /\ n \in Nodes /\ n \notin Elems(h.list)
      /\ g.chunks = n /\ g.list = q /\ g.free = h.free
      /\ g.size = [h.size EXCEPT ![n] = s] /\ g.usage = [h.usage EXCEPT ![n] = TRUE]
      /\ g.parent = h.parent /\ g.offset = h.offset
  <2>1. Grown(h, g, {}, k, n, s, TRUE)
    <3>1. Adds(h, g, k, n, s, TRUE)
      BY <1>2, <1>3, <1>4 DEF Adds
    <3> QED BY <1>1, <3>1, NodeAdded
  <2> QED BY <2>1 DEF Grown
<1>6. With(q, h.list, k, n)
  BY <1>1, <1>2, <1>5, InsertedWith
<1>7. Elems(q) = Elems(h.list) \cup {n}
  BY <1>1, <1>2, <1>5, OneMore DEF ListOf
<1> HIDE DEF q
<1>8. Len(q) = k /\ q[k] = n /\ \A i \in 1..Len(h.list) : q[i] = h.list[i] /\ i \in 1..Len(q) /\ i # k
  <2>1. Len(q) = Len(h.list) + 1 /\ q[k] = n
    BY <1>2, <1>6 DEF With
  <2>2. k = Len(h.list) + 1
    BY DEF k
  <2>3. ASSUME NEW i \in 1..Len(h.list) PROVE q[i] = h.list[i] /\ i \in 1..Len(q) /\ i # k
    <3>1. i < k /\ i \in 1..Len(h.list) + 1
      BY <1>2, <2>2
    <3> QED BY <1>6, <2>1, <3>1 DEF With
  <2> QED BY <2>1, <2>2, <2>3
<1>9. \A i \in 1..Len(h.list) : h.list[i] \in Nodes /\ h.list[i] # n
  <2>1. \A i \in 1..Len(h.list) : h.list[i] \in Nodes
    BY <1>1, ElementOfSeq
  <2> QED BY <1>5, <2>1 DEF Elems
<1>10. \A x \in Nodes \ {n} : g.size[x] = h.size[x] /\ g.usage[x] = h.usage[x]
  BY <1>1, <1>5
<1>11. g.size[n] = s /\ g.usage[n]
  BY <1>1, <1>5
<1>12. Fused(g)
  <2> SUFFICES ASSUME NEW i \in 1..Len(q) - 1 PROVE g.usage[q[i]] \/ g.usage[q[i + 1]]
    BY <1>5 DEF Fused
  <2>1. CASE i + 1 = k
    BY <1>8, <1>11, <2>1
  <2>2. CASE i + 1 # k
    <3>1. i \in 1..Len(h.list) - 1 /\ i \in 1..Len(h.list) /\ i + 1 \in 1..Len(h.list)
      BY <1>2, <1>8, <2>2 DEF k
    <3>2. h.usage[h.list[i]] \/ h.usage[h.list[i + 1]]
      BY <3>1 DEF HeapOK, Fused
    <3> QED BY <1>8, <1>9, <1>10, <3>1, <3>2
  <2> QED BY <2>1, <2>2
<1>13. Used(g) = Used(h) \cup {n} /\ n \notin Used(h)
  <2>1. \A x \in Elems(h.list) : x \in Nodes \ {n}
    BY <1>9 DEF Elems
  <2> QED BY <1>5, <1>7, <1>10, <1>11, <2>1 DEF Used
<1>14. \A x \in Used(h) : g.size[x] = h.size[x]
  <2>1. \A x \in Elems(h.list) : x \in Nodes \ {n}
    BY <1>9 DEF Elems
  <2> QED BY <1>10, <2>1 DEF Used
<1>15. ASSUME NEW base, NEW E, Fits(g, base, E) PROVE Fits(h, base, E)
  <2>1. \A i \in 1..Len(h.list) : q[i] = h.list[i] /\ i \in 1..Len(q) /\ g.size[h.list[i]] = h.size[h.list[i]]
    BY <1>8, <1>9, <1>10
  <2>2. \A i, j \in 1..Len(h.list) : i < j => base[h.list[i]] + h.size[h.list[i]] <= base[h.list[j]]
    <3> TAKE i, j \in 1..Len(h.list)
    <3>1. i < j => base[q[i]] + g.size[q[i]] <= base[q[j]]
      BY <1>5, <1>15, <2>1 DEF Fits
    <3> QED BY <2>1, <3>1
  <2>3. \A i \in 1..Len(h.list) : base[h.list[i]] + h.size[h.list[i]] <= E
    <3> TAKE i \in 1..Len(h.list)
    <3>1. base[q[i]] + g.size[q[i]] <= E
      BY <1>5, <1>15, <2>1 DEF Fits
    <3> QED BY <2>1, <3>1
  <2> QED BY <1>5, <1>15, <2>2, <2>3 DEF Fits
<1>16. g.chunks = h.chunks + 1 /\ g.chunks > 0
  BY <1>1, <1>4, <1>5, HeapAssumption
<1>17. HeapOK(g)
  BY <1>5, <1>12 DEF HeapOK
<1> QED BY <1>4, <1>5, <1>11, <1>13, <1>14, <1>15, <1>16, <1>17 DEF Took, g, n

\* A free node, which gives its rest back or is expanded (alloc).
LEMMA TookFree ==
  ASSUME NEW h, HeapOK(h), h.chunks < MaxAllocs, NEW s \in Nat, h.free # <<>>
  PROVE  Took(h, TakeFree(h, s).heap, TakeFree(h, s).node, s)
<1> DEFINE fit == {j \in DOMAIN h.free : h.size[h.free[j]] >= s}
           i == IF fit = {} THEN Len(h.free) ELSE CHOOSE j \in fit : \A x \in fit : j <= x
           n == h.free[i]
           e == [h EXCEPT !.free = RemoveAt(h.free, i)]
           a == [h EXCEPT !.free = RemoveAt(@, i), !.usage[n] = TRUE]
           rest == h.size[n] - s
           m == h.chunks + 1
           c == NewNode(a, rest, FALSE, n)
           b == IF h.size[n] > s THEN InsertFree(c, m) ELSE a
           g == [b EXCEPT !.size[n] = s]
<1>1. /\ ListOf(h, {}) /\ h \in Heaps /\ h.list \in Seq(Nodes) /\ h.free \in Seq(Nodes) /\ Once(h.list)
      /\ h.size \in [Nodes -> Nat] /\ h.usage \in [Nodes -> BOOLEAN] /\ h.chunks \in 0..MaxAllocs
      /\ Rooted(h) /\ Once(h.free)
  BY DEF HeapOK, ListOf, Heaps
<1>2. i \in 1..Len(h.free)
  <2>1. DOMAIN h.free = 1..Len(h.free) /\ Len(h.free) \in Nat
    BY <1>1, LenProperties
  <2>2. Len(h.free) # 0
    BY <1>1, EmptySeq
  <2>3. CASE fit = {}
    BY <2>1, <2>2, <2>3
  <2>4. CASE fit # {}
    <3>1. fit \in SUBSET Nat /\ fit \subseteq 1..Len(h.free)
      BY <2>1
    <3>2. \E j \in fit : \A x \in fit : j <= x
      <4> HIDE DEF fit
      <4> QED BY <2>4, <3>1, LeastNat
    <3> HIDE DEF fit
    <3>3. i \in fit
      BY <2>4, <3>2
    <3> QED BY <3>1, <3>3
  <2> QED BY <2>3, <2>4
<1> HIDE DEF i, fit
<1>3. n \in Nodes /\ n \in Elems(h.free) /\ n \in Elems(h.list) /\ ~h.usage[n]
  <2>1. n \in Elems(h.free) /\ n \in Nodes
    BY <1>1, <1>2, ElementOfSeq DEF Elems
  <2> QED BY <1>1, <2>1 DEF ListOf
<1>4. PICK j \in 1..Len(h.list) : h.list[j] = n
  BY <1>3 DEF Elems
<1>5. Len(h.list) \in Nat /\ j \in Nat /\ Pos(h.list, n) = j
  BY <1>1, <1>4, LenProperties, PosIs
<1>6. /\ ListOf(e, {} \cup {n}) /\ e.chunks = h.chunks /\ e.list = h.list /\ e.size = h.size
      /\ e.usage = h.usage /\ e.offset = h.offset /\ e.parent = h.parent
  BY <1>1, <1>2, FreeErased DEF Relisted
<1>7. a = [e EXCEPT !.usage = [h.usage EXCEPT ![n] = TRUE]]
  BY <1>1 DEF Heaps
<1> HIDE DEF n, e, a
<1>8. /\ ListOf(a, {}) /\ a.chunks = h.chunks /\ a.list = h.list /\ a.size = h.size
      /\ a.usage = [h.usage EXCEPT ![n] = TRUE] /\ a.offset = h.offset /\ a.parent = h.parent
  <2>1. [h.usage EXCEPT ![n] = TRUE] \in [Nodes -> BOOLEAN]
    BY <1>1
  <2>2. e \in Heaps
    BY <1>6 DEF ListOf
  <2>3. /\ a \in Heaps /\ a.chunks = e.chunks /\ a.list = e.list /\ a.size = e.size /\ a.free = e.free
        /\ a.usage = [h.usage EXCEPT ![n] = TRUE] /\ a.offset = e.offset /\ a.parent = e.parent
    BY <1>7, <2>1, <2>2 DEF Heaps
  <2>4. Elems(a.free) = {x \in Elems(a.list) : ~a.usage[x] /\ x \notin {}}
    <3>1. \A x \in Elems(h.list) : x \in Nodes
      BY <1>1, ElementOfSeq DEF Elems
    <3>2. Elems(e.free) = {x \in Elems(e.list) : ~e.usage[x] /\ x \notin {} \cup {n}}
      BY <1>6 DEF ListOf
    <3>3. a.usage[n] /\ \A x \in Nodes \ {n} : a.usage[x] = e.usage[x]
      BY <1>1, <1>3, <1>6, <2>3
    <3> QED BY <1>6, <2>3, <3>1, <3>2, <3>3
  <2>5. Rooted(a)
    BY <1>6, <2>3 DEF ListOf, Rooted
  <2>6. Solvable(a)
    <3>1. \A z, f : Solves(a, z, f) <=> Solves(e, z, f)
      BY <2>3 DEF Solves
    <3> QED BY <1>6, <3>1 DEF ListOf, Solvable
  <2>7. Once(a.list) /\ Once(a.free) /\ Sorted(a.free, a.size)
    BY <1>6, <2>3 DEF ListOf
  <2>8. ListOf(a, {})
    BY <2>3, <2>4, <2>5, <2>6, <2>7 DEF ListOf
  <2> QED BY <1>6, <2>3, <2>8
<1>9. h.size[n] \in Nat
  BY <1>1, <1>3
<1>10. h.chunks > 0 /\ h.chunks \in Nat
  <2>1. n <= h.chunks /\ n > 0 /\ n \in Nat
    BY <1>1, <1>3, HeapAssumption DEF Rooted, Nodes
  <2> QED BY <1>1, <2>1, HeapAssumption
<1>11. \A x \in Elems(h.list) : x \in Nodes
  BY <1>1, ElementOfSeq DEF Elems
<1>12. n \notin Used(h) /\ \A x \in Used(h) : x \in Nodes /\ x # n
  BY <1>3, <1>11 DEF Used
<1>13. TakeFree(h, s) = [heap |-> g, node |-> n]
  BY DEF TakeFree, Splits, SplitPos, g, b, c, a, n, i, fit
<1>14. CASE ~(h.size[n] > s)
  <2>1. b = a
    BY <1>14
  <2>2. n \notin Elems(a.free)
    <3>1. a.usage[n]
      BY <1>1, <1>3, <1>8
    <3> QED BY <1>8, <3>1 DEF ListOf
  <2> HIDE DEF g
  <2>3. g = [a EXCEPT !.size[n] = s]
    BY <2>1 DEF g
  <2>4. /\ ListOf(g, {}) /\ g.chunks = a.chunks /\ g.list = a.list /\ g.free = a.free
        /\ g.size = [a.size EXCEPT ![n] = s] /\ g.usage = a.usage
        /\ g.parent = a.parent /\ g.offset = a.offset
    <3>1. Sized(a, g, {}, n, s)
      BY <1>3, <1>8, <2>2, <2>3, Resized
    <3> QED BY <3>1 DEF Sized
  <2>5. /\ g.size[n] = s /\ g.usage[n]
        /\ \A x \in Nodes \ {n} : g.size[x] = h.size[x] /\ g.usage[x] = h.usage[x]
    BY <1>1, <1>3, <1>8, <2>4
  <2>6. Fused(g)
    <3> SUFFICES ASSUME NEW k \in 1..Len(h.list) - 1 PROVE g.usage[h.list[k]] \/ g.usage[h.list[k + 1]]
      BY <1>8, <2>4 DEF Fused
    <3>1. h.usage[h.list[k]] \/ h.usage[h.list[k + 1]]
      BY DEF HeapOK, Fused
    <3>2. k \in 1..Len(h.list) /\ k + 1 \in 1..Len(h.list)
      BY <1>5
    <3>3. h.list[k] \in Nodes /\ h.list[k + 1] \in Nodes
      BY <1>1, <3>2, ElementOfSeq
    <3> QED BY <2>5, <3>1, <3>3
  <2>7. Used(g) = Used(h) \cup {n}
    BY <1>3, <1>8, <1>11, <2>4, <2>5 DEF Used
  <2>8. ASSUME NEW base, NEW E, Fits(g, base, E) PROVE Fits(h, base, E)
    <3>1. g.size \in [Nodes -> Nat]
      BY <2>4 DEF ListOf, Heaps
    <3>2. \A x \in Nodes : h.size[x] <= g.size[x]
      <4> TAKE x \in Nodes
      <4>1. h.size[x] \in Nat
        BY <1>1
      <4> QED BY <1>14, <2>5, <4>1
    <3> QED BY <1>1, <1>8, <2>4, <2>8, <3>1, <3>2, LargerFits
  <2>9. Took(h, g, n, s)
    BY <1>3, <1>8, <1>10, <1>12, <2>4, <2>5, <2>6, <2>7, <2>8 DEF Took, HeapOK
  <2> QED BY <1>13, <2>9
<1>15. CASE h.size[n] > s
  <2>1. rest \in Nat /\ s <= h.size[n]
    BY <1>9, <1>15
  <2>2. c = [a EXCEPT !.chunks = m, !.size[m] = rest, !.usage[m] = FALSE, !.list = InsertAt(a.list, j + 1, m)]
    <3>1. n # 0
      BY <1>3, HeapAssumption DEF Nodes
    <3> QED BY <1>5, <1>8, <3>1 DEF NewNode
  <2>3. j + 1 \in 1..Len(a.list) + 1 /\ m = a.chunks + 1 /\ a.chunks < MaxAllocs
    BY <1>5, <1>8
  <2> HIDE DEF m, c, rest
  <2>4. /\ ListOf(c, {m}) /\ m \in Nodes /\ m \notin Elems(a.list)
        /\ c.chunks = m /\ c.list = InsertAt(a.list, j + 1, m) /\ c.free = a.free
        /\ c.size = [a.size EXCEPT ![m] = rest] /\ c.usage = [a.usage EXCEPT ![m] = FALSE]
        /\ c.parent = a.parent /\ c.offset = a.offset
    <3>1. Grown(a, c, {}, j + 1, m, rest, FALSE)
      <4> DEFINE k == j + 1
      <4>1. c = [a EXCEPT !.chunks = m, !.size[m] = rest, !.usage[m] = FALSE, !.list = InsertAt(a.list, k, m)]
        BY <2>2
      <4>2. k \in 1..Len(a.list) + 1
        BY <2>3
      <4> HIDE DEF k
      <4>3. Grown(a, c, {}, k, m, rest, FALSE)
        <5>1. Adds(a, c, k, m, rest, FALSE)
          BY <2>1, <2>3, <4>1, <4>2 DEF Adds
        <5> QED BY <1>8, <5>1, NodeAdded
      <4> QED BY <4>3 DEF k
    <3>2. {} \cup {m} = {m}
      OBVIOUS
    <3> QED BY <3>1, <3>2 DEF Grown
  <2>5. With(c.list, h.list, j + 1, m)
    BY <1>1, <1>8, <2>3, <2>4, InsertedWith
  <2>6. Elems(c.list) = Elems(h.list) \cup {m}
    BY <1>1, <1>8, <2>3, <2>4, OneMore
  <2>7. ListOf(c, {m})
    BY <2>4
  <2>8. m # n /\ m \notin Elems(h.list)
    BY <1>3, <1>8, <2>4
  <2>9. ~c.usage[m] /\ m \in Elems(c.list)
    BY <1>1, <1>8, <2>4, <2>6
  <2>10. /\ ListOf(b, {}) /\ b.chunks = c.chunks /\ b.list = c.list /\ b.size = c.size
         /\ b.usage = c.usage /\ b.offset = c.offset /\ b.parent = c.parent
    <3>1. b = InsertFree(c, m)
      BY <1>15
    <3> HIDE DEF b
    <3>2. m \in Elems(c.list) /\ m \in Nodes
      BY <2>4, <2>9
    <3>3. Relisted(c, InsertFree(c, m), {})
      BY <2>7, <2>9, <3>2, FreeInserted
    <3> QED BY <3>1, <3>3 DEF Relisted
  <2> HIDE DEF b, g
  <2>11. g = [b EXCEPT !.size[n] = s]
    BY DEF g
  <2>12. b.usage[n]
    BY <1>1, <1>3, <1>8, <2>4, <2>8, <2>10
  <2>13. n \notin Elems(b.free)
    BY <2>10, <2>12 DEF ListOf
  <2>14. /\ ListOf(g, {}) /\ g.chunks = b.chunks /\ g.list = b.list /\ g.free = b.free
         /\ g.size = [b.size EXCEPT ![n] = s] /\ g.usage = b.usage
         /\ g.parent = b.parent /\ g.offset = b.offset
    <3>1. Sized(b, g, {}, n, s)
      BY <1>3, <2>10, <2>11, <2>13, Resized
    <3> QED BY <3>1 DEF Sized
  <2>15. /\ g.list = c.list /\ g.chunks = m /\ g.usage = c.usage /\ g.parent = h.parent /\ g.offset = h.offset
         /\ g.size = [c.size EXCEPT ![n] = s]
    BY <1>8, <2>4, <2>10, <2>14
  <2>16. g.size[n] = s /\ g.size[m] = rest /\ \A x \in Nodes : x # n /\ x # m => g.size[x] = h.size[x]
    <3>1. c.size \in [Nodes -> Nat]
      BY <2>7 DEF ListOf, Heaps
    <3>2. c.size[m] = rest /\ \A x \in Nodes : x # m => c.size[x] = h.size[x]
      BY <1>1, <1>8, <2>4
    <3> QED BY <1>3, <2>4, <2>8, <2>15, <3>1, <3>2
  <2>17. g.usage[n] /\ ~g.usage[m] /\ \A x \in Nodes : x # n /\ x # m => g.usage[x] = h.usage[x]
    BY <1>1, <1>3, <1>8, <2>4, <2>8, <2>15
  <2>18. Used(g) = Used(h) \cup {n}
    BY <1>3, <1>11, <2>6, <2>8, <2>15, <2>17 DEF Used
  <2>19. \A x \in Used(h) : g.size[x] = h.size[x]
    BY <1>12, <2>8, <2>16 DEF Used
  <2>20. ASSUME NEW base, NEW E, Fits(g, base, E) PROVE Fits(h, base, E)
    <3>1. g.list = InsertAt(h.list, j + 1, m)
      BY <1>8, <2>4, <2>15
    <3>2. g.size[m] = h.size[n] - s
      BY <2>16 DEF rest
    <3>3. n = h.list[j]
      BY <1>4
    <3>4. Split(h, g, j, n, m, s)
      BY <1>1, <2>1, <2>4, <2>8, <2>15, <2>16, <3>1, <3>2, <3>3 DEF Split
    <3> QED BY <2>20, <3>4, SplitFits
  <2>21. Fused(g)
    <3> SUFFICES ASSUME NEW k \in 1..Len(c.list) - 1 PROVE g.usage[c.list[k]] \/ g.usage[c.list[k + 1]]
      BY <2>15 DEF Fused
    <3>1. /\ Len(c.list) = Len(h.list) + 1 /\ k \in 1..Len(h.list)
          /\ \A u \in 1..Len(h.list) + 1 : c.list[u] = IF u < j + 1 THEN h.list[u] ELSE IF u = j + 1 THEN m ELSE h.list[u - 1]
      BY <1>5, <2>5 DEF With
    <3>2. \A u \in 1..Len(h.list) : h.list[u] \in Nodes /\ h.list[u] # m
      <4>1. \A u \in 1..Len(h.list) : h.list[u] \in Nodes
        BY <1>1, ElementOfSeq
      <4> QED BY <2>8, <4>1 DEF Elems
    <3>3. \A u \in 1..Len(h.list) : h.usage[h.list[u]] => g.usage[h.list[u]]
      BY <2>17, <3>2
    <3>4. \A u \in 1..Len(h.list) - 1 : h.usage[h.list[u]] \/ h.usage[h.list[u + 1]]
      BY DEF HeapOK, Fused
    <3>5. CASE k < j
      <4>0. /\ k \in 1..Len(h.list) - 1 /\ k + 1 \in 1..Len(h.list) /\ k < j + 1 /\ k + 1 < j + 1
            /\ k \in 1..Len(h.list) + 1 /\ k + 1 \in 1..Len(h.list) + 1
        BY <1>5, <3>1, <3>5
      <4>1. c.list[k] = h.list[k] /\ c.list[k + 1] = h.list[k + 1] /\ k \in 1..Len(h.list) - 1 /\ k + 1 \in 1..Len(h.list)
        BY <3>1, <4>0
      <4> QED BY <3>1, <3>3, <3>4, <4>1
    <3>6. CASE k = j
      <4>1. c.list[k] = h.list[k]
        BY <1>5, <3>1, <3>6
      <4> QED BY <1>4, <2>17, <3>6, <4>1
    <3>7. CASE k > j
      <4>1. k \in Nat /\ k + 1 \in 1..Len(h.list) + 1 /\ ~(k + 1 < j + 1) /\ k + 1 # j + 1 /\ (k + 1) - 1 = k
        BY <1>5, <3>1, <3>7
      <4>2. c.list[k + 1] = h.list[k]
        BY <3>1, <4>1
      <4>3. CASE k = j + 1
        <5>1. h.usage[h.list[j]] \/ h.usage[h.list[j + 1]]
          <6>1. j \in 1..Len(h.list) - 1
            BY <1>5, <3>1, <4>3
          <6> QED BY <3>4, <6>1
        <5>2. h.usage[h.list[k]]
          BY <1>3, <1>4, <4>3, <5>1
        <5> QED BY <3>1, <3>3, <4>2, <5>2
      <4>4. CASE k # j + 1
        <5>1. k - 1 \in 1..Len(h.list) - 1 /\ (k - 1) + 1 = k /\ ~(k < j + 1) /\ k \in 1..Len(h.list) + 1 /\ k - 1 \in 1..Len(h.list)
          BY <1>5, <3>1, <3>7, <4>4
        <5>2. c.list[k] = h.list[k - 1]
          BY <3>1, <4>4, <5>1
        <5>3. h.usage[h.list[k - 1]] \/ h.usage[h.list[(k - 1) + 1]]
          BY <3>4, <5>1
        <5> QED BY <3>1, <3>3, <4>2, <5>1, <5>2, <5>3
      <4> QED BY <4>3, <4>4
    <3> QED BY <1>5, <3>1, <3>5, <3>6, <3>7
  <2>22. g.chunks = h.chunks + 1 /\ g.chunks > 0
    BY <1>8, <1>10, <2>3, <2>15
  <2>23. HeapOK(g)
    BY <2>14, <2>21 DEF HeapOK
  <2>24. Took(h, g, n, s)
    BY <1>3, <1>12, <2>16, <2>18, <2>19, <2>20, <2>22, <2>23 DEF Took
  <2> QED BY <1>13, <2>24
<1> QED BY <1>9, <1>14, <1>15

\* alloc hands out a node that nobody uses, and nothing else changes for those
\* in use.
LEMMA Allocated ==
  ASSUME NEW h, HeapOK(h), h.chunks < MaxAllocs, NEW s \in Nat, NEW separate
  PROVE  Took(h, AllocNode(h, s, separate).heap, AllocNode(h, s, separate).node, s)
<1>1. CASE h.free = <<>> \/ separate
  <2>1. AllocNode(h, s, separate) = [heap |-> NewNode(h, s, TRUE, 0), node |-> h.chunks + 1]
    BY <1>1 DEF AllocNode
  <2>2. Took(h, NewNode(h, s, TRUE, 0), h.chunks + 1, s)
    BY TookTail
  <2>3. /\ AllocNode(h, s, separate).heap = NewNode(h, s, TRUE, 0)
        /\ AllocNode(h, s, separate).node = h.chunks + 1
    BY <2>1
  <2> QED BY <2>2, <2>3
<1>2. CASE ~(h.free = <<>> \/ separate)
  <2>1. AllocNode(h, s, separate) = TakeFree(h, s)
    BY <1>2 DEF AllocNode
  <2>2. Took(h, TakeFree(h, s).heap, TakeFree(h, s).node, s)
    BY <1>2, TookFree
  <2> QED BY <2>1, <2>2
<1> QED BY <1>1, <1>2

\* What the recursive definition of FreeAll computes.
LEMMA FreeAllSteps ==
  ASSUME NEW h, NEW q \in Seq(Nodes)
  PROVE  \E A : /\ A[0] = h /\ FreeAll(h, q) = A[Len(q)]
               /\ \A i \in 1..Len(q) : A[i] = FreeNode(A[i - 1], q[i])
<1> DEFINE F(f, k) == [i \in 0..k |-> IF i = 0 THEN h ELSE FreeNode(f[i - 1], q[i])]
<1>1. \A k \in Nat : \E f : f = F(f, k)
  <2> DEFINE T == {k \in Nat : ~\E f : f = F(f, k)}
  <2> SUFFICES ASSUME T # {} PROVE FALSE
    OBVIOUS
  <2>1. PICK k \in T : \A y \in T : k <= y
    <3>1. T \in SUBSET Nat
      OBVIOUS
    <3> HIDE DEF T
    <3> QED BY <3>1, LeastNat
  <2>2. k \in Nat /\ ~\E f : f = F(f, k)
    BY <2>1
  <2>3. CASE k = 0
    <3> DEFINE f == [i \in 0..k |-> h]
    <3>1. \A i \in 0..k : i = 0
      BY <2>3
    <3>2. f = F(f, k)
      BY <3>1
    <3> QED BY <2>2, <3>2
  <2>4. CASE k # 0
    <3>1. k - 1 \in Nat /\ ~(k <= k - 1)
      BY <2>2, <2>4
    <3>2. PICK f : f = F(f, k - 1)
      BY <2>1, <3>1
    <3> DEFINE g == [i \in 0..k |-> IF i < k THEN f[i] ELSE FreeNode(f[k - 1], q[k])]
    <3>3. ASSUME NEW i \in 0..k PROVE g[i] = IF i = 0 THEN h ELSE FreeNode(g[i - 1], q[i])
      <4>1. CASE i = k
        <5>1. g[i] = FreeNode(f[k - 1], q[k])
          BY <2>2, <4>1
        <5>2. g[i - 1] = f[k - 1]
          BY <2>2, <2>4, <4>1
        <5> QED BY <2>4, <4>1, <5>1, <5>2
      <4>2. CASE i < k
        <5>1. i \in 0..k - 1
          BY <2>2, <4>2
        <5>2. f[i] = IF i = 0 THEN h ELSE FreeNode(f[i - 1], q[i])
          BY <3>2, <5>1
        <5>3. g[i] = f[i]
          BY <4>2
        <5>4. i # 0 => g[i - 1] = f[i - 1]
          BY <2>2, <4>2
        <5> QED BY <5>2, <5>3, <5>4
      <4> QED BY <2>2, <4>1, <4>2
    <3>4. g = F(g, k)
      <4>1. g = [i \in 0..k |-> g[i]]
        OBVIOUS
      <4> HIDE DEF g
      <4> QED BY <3>3, <4>1
    <3> QED BY <2>2, <3>4
  <2> QED BY <2>3, <2>4
<1> DEFINE A == CHOOSE f : f = F(f, Len(q))
<1>2. Len(q) \in Nat
  BY LenProperties
<1>3. A = F(A, Len(q))
  BY <1>1, <1>2
<1>4. FreeAll(h, q) = A[Len(q)]
  BY DEF FreeAll
<1> HIDE DEF A
<1>5. A[0] = h
  <2>1. 0 \in 0..Len(q)
    BY <1>2
  <2> QED BY <1>3, <2>1
<1>6. \A i \in 1..Len(q) : A[i] = FreeNode(A[i - 1], q[i])
  <2> TAKE i \in 1..Len(q)
  <2>1. i \in 0..Len(q) /\ i # 0
    BY <1>2
  <2> QED BY <1>3, <2>1
<1> QED BY <1>4, <1>5, <1>6

\* Giving back nodes one after the other gives them all back.
LEMMA FreedAll ==
  ASSUME NEW h, HeapOK(h), NEW q \in Seq(Nodes), Once(q), Elems(q) \subseteq Used(h)
  PROVE  Gave(h, FreeAll(h, q), Elems(q))
<1>1. PICK A : /\ A[0] = h /\ FreeAll(h, q) = A[Len(q)]
               /\ \A i \in 1..Len(q) : A[i] = FreeNode(A[i - 1], q[i])
  BY FreeAllSteps
<1>2. Len(q) \in Nat
  BY LenProperties
<1> DEFINE D(i) == {q[j] : j \in 1..i}
           T == {i \in 0..Len(q) : ~Gave(h, A[i], D(i))}
<1>3. T = {}
  <2> SUFFICES ASSUME T # {} PROVE FALSE
    OBVIOUS
  <2>1. PICK i \in T : \A y \in T : i <= y
    <3>1. T \in SUBSET Nat
      BY <1>2
    <3> HIDE DEF T
    <3> QED BY <3>1, LeastNat
  <2>2. i \in 0..Len(q) /\ ~Gave(h, A[i], D(i))
    BY <2>1
  <2>3. CASE i = 0
    <3>1. D(0) = {}
      OBVIOUS
    <3>2. Gave(h, h, {})
      BY DEF Gave
    <3> QED BY <1>1, <2>2, <2>3, <3>1, <3>2
  <2>4. CASE i # 0
    <3>1. i - 1 \in 0..Len(q) /\ ~(i <= i - 1) /\ i \in 1..Len(q) /\ i \in Nat
      BY <1>2, <2>2, <2>4
    <3>2. Gave(h, A[i - 1], D(i - 1))
      BY <2>1, <3>1
    <3> DEFINE g == A[i - 1]
               n == q[i]
    <3>3. D(i) = D(i - 1) \cup {n}
      <4>1. \A j : j \in 1..i <=> j \in 1..i - 1 \/ j = i
        BY <3>1
      <4> QED BY <4>1
    <3>4. n \notin D(i - 1)
      <4>1. \A j \in 1..i - 1 : j \in 1..Len(q) /\ j # i
        BY <1>2, <3>1
      <4> QED BY <3>1, <4>1 DEF Once
    <3>5. n \in Used(h)
      BY <3>1 DEF Elems
    <3> HIDE DEF D, g, n
    <3>6. /\ HeapOK(g) /\ g.chunks = h.chunks /\ Used(g) = Used(h) \ D(i - 1)
          /\ \A x \in Used(g) : g.size[x] = h.size[x]
          /\ \A base, E : Fits(g, base, E) => Fits(h, base, E)
      BY <3>2 DEF Gave, g
    <3>7. n \in Used(g)
      BY <3>4, <3>5, <3>6
    <3>8. Gave(g, FreeNode(g, n), {n})
      BY <3>6, <3>7, Freed
    <3>9. Gave(h, FreeNode(g, n), D(i))
      BY <3>3, <3>6, <3>8 DEF Gave
    <3>10. A[i] = FreeNode(g, n)
      BY <1>1, <3>1 DEF g, n
    <3> QED BY <2>2, <3>9, <3>10
  <2> QED BY <2>3, <2>4
<1>4. Gave(h, A[Len(q)], D(Len(q)))
  <2>1. Len(q) \in 0..Len(q)
    BY <1>2
  <2> QED BY <1>3, <2>1
<1> QED BY <1>1, <1>4 DEF Elems

-----------------------------------------------------------------------------
(* The invariant of a planning round.                                       *)

Types ==
    /\ total \in Nat /\ code \in {"NO_ERROR", "INVALID_VALUE"}
    /\ barrier \in BOOLEAN /\ barriers \in 0..Barriers
    /\ tensors \in Seq([node : Nodes, size : Requests]) /\ Len(tensors) <= MaxAllocs
    /\ freed \subseteq 1..Len(tensors) /\ live \subseteq 1..Len(tensors)
    /\ met \subseteq SUBSET (1..Len(tensors))

\* The nodes in use are those of the live tensors, one for each.
Owned ==
    /\ \A t \in live : tensors[t].node \in Used(heap) /\ heap.size[tensors[t].node] = tensors[t].size
    /\ \A t, u \in live : tensors[t].node = tensors[u].node => t = u
    /\ \A n \in Used(heap) : \E t \in live : tensors[t].node = n

\* Every alloc adds at most one node.
Counted == heap.chunks <= Len(tensors) /\ (tensors # <<>> => heap.chunks > 0)

\* Who has not given its node back is live, and who has but is live waits for
\* the end of the barrier.
Waiting ==
    /\ deferred \in Seq(Nodes) /\ Once(deferred)
    /\ Elems(deferred) = {tensors[t].node : t \in live \cap freed}
    /\ 1..Len(tensors) \ freed \subseteq live
    /\ ~barrier => deferred = <<>>

\* In memory in which the nodes fit the tensors fit, and do not overlap when
\* they were live together.
Fitting(base, E) ==
    /\ \A t \in 1..Len(tensors) : base[tensors[t].node] + tensors[t].size <= E
    /\ \A p \in met : \A t, u \in p : t # u =>
          \/ base[tensors[t].node] + tensors[t].size <= base[tensors[u].node]
          \/ base[tensors[u].node] + tensors[u].size <= base[tensors[t].node]

Placed == \A base, E : Fits(heap, base, E) => Fitting(base, E)

Computed == total > 0 => IsFused(heap) /\ total = heap.size[heap.list[1]]

Inv == HeapOK(heap) /\ Types /\ Owned /\ Counted /\ Waiting /\ Placed /\ Computed

-----------------------------------------------------------------------------
(* Every operation keeps it.                                                *)

\* A heap without nodes.
LEMMA NoNodes == HeapOK(EmptyHeap) /\ Used(EmptyHeap) = {}
<1> DEFINE h == EmptyHeap
<1>1. /\ h.chunks = 0 /\ h.list = <<>> /\ h.free = <<>> /\ h.size = [n \in Nodes |-> 0]
      /\ h.usage = [n \in Nodes |-> FALSE] /\ h.offset = [n \in Nodes |-> 0]
      /\ h.parent = [n \in Nodes |-> 0]
  BY DEF EmptyHeap
<1>2. h \in Heaps
  BY HeapAssumption DEF EmptyHeap, Heaps
<1> HIDE DEF h
<1>3. Elems(<<>>) = {} /\ Once(<<>>) /\ Len(<<>>) = 0
  BY DEF Elems, Once
<1>4. Rooted(h)
  BY <1>1, HeapAssumption DEF Rooted, Nodes, Elems
<1>5. Solvable(h)
  <2> SUFFICES ASSUME NEW z \in [Nodes -> Nat]
               PROVE  \E at \in [Nodes -> Nat] : Solves(h, z, at) /\ \A f : Solves(h, z, f) => f = at
    BY DEF Solvable
  <2>1. \A f : Solves(h, z, f) <=> f = [n \in Nodes |-> z[n]]
    <3> TAKE f
    <3>1. \A n \in Nodes : h.parent[n] = 0
      BY <1>1
    <3> QED BY <3>1 DEF Solves
  <2> QED BY <2>1
<1>6. HeapOK(h)
  BY <1>1, <1>2, <1>3, <1>4, <1>5 DEF HeapOK, ListOf, Fused, Sorted
<1>7. Used(h) = {}
  BY <1>1, <1>3 DEF Used
<1> QED BY <1>6, <1>7 DEF h

\* A round starts with no nodes.
LEMMA Started ==
  ASSUME heap = EmptyHeap, total = 0, code = "NO_ERROR", barrier = FALSE, deferred = <<>>,
         barriers = 0, tensors = <<>>, freed = {}, live = {}, met = {}
  PROVE  Inv
<1>1. HeapOK(heap) /\ Used(heap) = {}
  BY NoNodes
<1>2. heap.chunks = 0
  BY DEF EmptyHeap
<1>3. Elems(<<>>) = {} /\ Once(<<>>) /\ Len(<<>>) = 0
  BY DEF Elems, Once
<1>4. Types
  <2>1. tensors \in Seq([node : Nodes, size : Requests])
    BY EmptySeq
  <2>2. Len(tensors) <= MaxAllocs /\ 0 \in 0..Barriers
    BY <1>3, HeapAssumption, AllocAssumption
  <2>3. freed \subseteq 1..Len(tensors) /\ live \subseteq 1..Len(tensors) /\ met \subseteq SUBSET (1..Len(tensors))
    OBVIOUS
  <2> QED BY <2>1, <2>2, <2>3 DEF Types
<1>5. Owned
  BY <1>1 DEF Owned
<1>6. Counted /\ Waiting /\ Placed /\ Computed
  BY <1>2, <1>3, EmptySeq DEF Counted, Waiting, Placed, Fitting, Computed
<1> QED BY <1>1, <1>4, <1>5, <1>6 DEF Inv

LEMMA AllocKeeps ==
  ASSUME Inv, Alloc
  PROVE  Inv'
<1>1. PICK s \in Requests, separate \in BOOLEAN :
        LET r == AllocNode(heap, s, separate)
            t == Len(tensors) + 1
        IN  /\ heap' = r.heap
            /\ tensors' = Append(tensors, [node |-> r.node, size |-> s])
            /\ live' = live \cup {t}
            /\ met' = met \cup {{t, u} : u \in live}
  BY DEF Alloc
<1> DEFINE n == AllocNode(heap, s, separate).node
           t == Len(tensors) + 1
           h == heap
           g == AllocNode(heap, s, separate).heap
<1>2. /\ HeapOK(h) /\ Types /\ Owned /\ Counted /\ Waiting /\ Placed /\ Computed
      /\ Planning /\ Len(tensors) < MaxAllocs /\ Len(tensors) \in Nat
      /\ UNCHANGED <<total, code, barrier, deferred, barriers, freed>>
  BY LenProperties DEF Inv, Alloc, Types
<1>3. s \in Nat /\ s \in Requests
  BY AllocAssumption
<1>4. h.chunks < MaxAllocs /\ h.chunks \in Nat
  BY <1>2, HeapAssumption DEF Counted, HeapOK, ListOf, Heaps
<1>5. Took(h, g, n, s)
  BY <1>2, <1>3, <1>4, Allocated
<1>6. heap' = g /\ live' = live \cup {t} /\ met' = met \cup {{t, u} : u \in live} /\ tensors' = Append(tensors, [node |-> n, size |-> s])
  BY <1>1
<1> HIDE DEF g, n
<1>7. n \in Nodes
  BY <1>5 DEF Took
<1>8. /\ tensors' \in Seq([node : Nodes, size : Requests]) /\ Len(tensors') = t
      /\ \A u \in 1..Len(tensors) : tensors'[u] = tensors[u]
      /\ tensors'[t].node = n /\ tensors'[t].size = s /\ tensors' # <<>>
  <2>1. tensors \in Seq([node : Nodes, size : Requests])
    BY <1>2 DEF Types
  <2>2. [node |-> n, size |-> s] \in [node : Nodes, size : Requests]
    BY <1>3, <1>7
  <2> DEFINE e == [node |-> n, size |-> s]
  <2>3. e.node = n /\ e.size = s
    OBVIOUS
  <2> HIDE DEF e
  <2>4. /\ Append(tensors, e) \in Seq([node : Nodes, size : Requests]) /\ Len(Append(tensors, e)) = Len(tensors) + 1
        /\ \A u \in 1..Len(tensors) : Append(tensors, e)[u] = tensors[u]
        /\ Append(tensors, e)[Len(tensors) + 1] = e
    BY <2>1, <2>2, AppendProperties DEF e
  <2>5. Append(tensors, e) # <<>>
    BY <1>2, <2>4
  <2> QED BY <1>6, <2>3, <2>4, <2>5 DEF e
<1>9. 1..Len(tensors') = 1..Len(tensors) \cup {t} /\ t \notin 1..Len(tensors) /\ t <= MaxAllocs
  BY <1>2, <1>8, HeapAssumption
<1>10. live \subseteq 1..Len(tensors) /\ freed \subseteq 1..Len(tensors) /\ met \subseteq SUBSET (1..Len(tensors))
  BY <1>2 DEF Types
<1> HIDE DEF t
<1>11. Types'
  <2>1. met' \subseteq SUBSET (1..Len(tensors'))
    <3> SUFFICES ASSUME NEW p \in met', NEW x \in p PROVE x \in 1..Len(tensors')
      OBVIOUS
    <3>1. p \in met \/ \E u \in live : p = {t, u}
      BY <1>6
    <3>2. CASE p \in met
      BY <1>9, <1>10, <3>2
    <3>3. CASE \E u \in live : p = {t, u}
      BY <1>9, <1>10, <3>3
    <3> QED BY <3>1, <3>2, <3>3
  <2>2. live' \subseteq 1..Len(tensors') /\ freed' \subseteq 1..Len(tensors')
    BY <1>2, <1>6, <1>9, <1>10
  <2>3. Len(tensors') <= MaxAllocs
    BY <1>8, <1>9
  <2> QED BY <1>2, <1>8, <2>1, <2>2, <2>3 DEF Types
<1>12. \A u \in live : tensors'[u] = tensors[u] /\ u # t
  BY <1>8, <1>9, <1>10
<1>13. Owned'
  <2>1. \A u \in live' : tensors'[u].node \in Used(heap') /\ heap'.size[tensors'[u].node] = tensors'[u].size
    <3> TAKE u \in live'
    <3>1. CASE u = t
      BY <1>5, <1>6, <1>8, <3>1 DEF Took
    <3>2. CASE u # t
      <4>1. u \in live
        BY <1>6, <3>2
      <4>2. tensors[u].node \in Used(h) /\ h.size[tensors[u].node] = tensors[u].size
        BY <1>2, <4>1 DEF Owned
      <4> QED BY <1>5, <1>6, <1>12, <4>1, <4>2 DEF Took
    <3> QED BY <3>1, <3>2
  <2>2. \A u, v \in live' : tensors'[u].node = tensors'[v].node => u = v
    <3>1. \A u \in live : tensors'[u].node \in Used(h)
      BY <1>2, <1>12 DEF Owned
    <3>2. n \notin Used(h)
      BY <1>5 DEF Took
    <3>3. \A u, v \in live : tensors'[u].node = tensors'[v].node => u = v
      BY <1>2, <1>12 DEF Owned
    <3>4. \A u \in live : tensors'[u].node # tensors'[t].node
      BY <1>8, <3>1, <3>2
    <3>5. \A u \in live' : u = t \/ u \in live
      BY <1>6
    <3> HIDE <1>6
    <3> TAKE u, v \in live'
    <3>6. (u = t \/ u \in live) /\ (v = t \/ v \in live)
      BY <3>5
    <3> QED BY <3>3, <3>4, <3>6
  <2>3. \A x \in Used(heap') : \E u \in live' : tensors'[u].node = x
    <3> TAKE x \in Used(heap')
    <3>1. CASE x = n
      BY <1>6, <1>8, <3>1
    <3>2. CASE x # n
      <4>1. x \in Used(h)
        BY <1>5, <1>6, <3>2 DEF Took
      <4>2. PICK u \in live : tensors[u].node = x
        BY <1>2, <4>1 DEF Owned
      <4> QED BY <1>6, <1>12, <4>2
    <3> QED BY <3>1, <3>2
  <2> QED BY <2>1, <2>2, <2>3 DEF Owned
<1>14. Counted'
  <2>1. heap'.chunks \in {h.chunks, h.chunks + 1} /\ heap'.chunks > 0
    BY <1>5, <1>6 DEF Took
  <2> QED BY <1>2, <1>4, <1>8, <2>1 DEF Counted, t
<1>15. Waiting'
  <2>1. live' \cap freed' = live \cap freed
    BY <1>2, <1>6, <1>9, <1>10
  <2>2. {tensors'[u].node : u \in live' \cap freed'} = {tensors[u].node : u \in live \cap freed}
    BY <1>12, <2>1
  <2>3. 1..Len(tensors') \ freed' \subseteq live'
    BY <1>2, <1>6, <1>9 DEF Waiting
  <2> QED BY <1>2, <2>2, <2>3 DEF Waiting
<1>16. Placed'
  <2> SUFFICES ASSUME NEW base, NEW E, Fits(g, base, E) PROVE Fitting(base, E)'
    BY <1>6 DEF Placed
  <2>1. Fits(h, base, E)
    BY <1>5 DEF Took
  <2>2. Fitting(base, E)
    BY <1>2, <2>1 DEF Placed
  <2>3. \A x \in Used(g) : \E i \in 1..Len(g.list) : g.list[i] = x
    BY DEF Used, Elems
  <2>4. n \in Used(g) /\ g.size[n] = s
    BY <1>5 DEF Took
  <2>5. \A u \in 1..Len(tensors') : base[tensors'[u].node] + tensors'[u].size <= E
    <3> TAKE u \in 1..Len(tensors')
    <3>1. CASE u = t
      BY <1>8, <2>3, <2>4, <3>1 DEF Fits
    <3>2. CASE u # t
      BY <1>8, <1>9, <2>2, <3>2 DEF Fitting
    <3> QED BY <3>1, <3>2
  <2>6. ASSUME NEW u \in live
        PROVE  \/ base[n] + s <= base[tensors[u].node]
               \/ base[tensors[u].node] + tensors[u].size <= base[n]
    <3>1. tensors[u].node \in Used(h) /\ h.size[tensors[u].node] = tensors[u].size
      BY <1>2 DEF Owned
    <3>2. tensors[u].node \in Used(g) /\ tensors[u].node # n /\ g.size[tensors[u].node] = tensors[u].size
      BY <1>5, <3>1 DEF Took
    <3>3. PICK i \in 1..Len(g.list) : g.list[i] = n
      BY <2>3, <2>4
    <3>4. PICK j \in 1..Len(g.list) : g.list[j] = tensors[u].node
      BY <2>3, <3>2
    <3>5. i < j \/ j < i
      <4>1. i # j
        BY <3>2, <3>3, <3>4
      <4> QED BY <4>1
    <3>6. i < j => base[n] + s <= base[tensors[u].node]
      BY <2>4, <3>3, <3>4 DEF Fits
    <3>7. j < i => base[tensors[u].node] + tensors[u].size <= base[n]
      BY <3>2, <3>3, <3>4 DEF Fits
    <3> QED BY <3>5, <3>6, <3>7
  <2>7. ASSUME NEW p \in met', NEW u \in p, NEW v \in p, u # v
        PROVE  \/ base[tensors'[u].node] + tensors'[u].size <= base[tensors'[v].node]
               \/ base[tensors'[v].node] + tensors'[v].size <= base[tensors'[u].node]
    <3>1. CASE p \in met
      <4>1. u \in 1..Len(tensors) /\ v \in 1..Len(tensors)
        BY <1>10, <3>1
      <4>2. tensors'[u] = tensors[u] /\ tensors'[v] = tensors[v]
        BY <1>8, <4>1
      <4> QED BY <2>2, <2>7, <3>1, <4>2 DEF Fitting
    <3>2. CASE p \notin met
      <4>1. PICK x \in live : p = {t, x}
        BY <1>6, <3>2
      <4>2. tensors'[x] = tensors[x]
        BY <1>12
      <4>3. \/ base[tensors'[t].node] + tensors'[t].size <= base[tensors'[x].node]
            \/ base[tensors'[x].node] + tensors'[x].size <= base[tensors'[t].node]
        BY <1>8, <2>6, <4>2
      <4>4. (u = t /\ v = x) \/ (u = x /\ v = t)
        BY <2>7, <4>1
      <4> QED BY <4>3, <4>4
    <3> QED BY <3>1, <3>2
  <2> QED BY <2>5, <2>7 DEF Fitting
<1>17. Computed'
  BY <1>2 DEF Computed, Planning
<1>18. HeapOK(heap')
  BY <1>5, <1>6 DEF Took
<1> QED BY <1>11, <1>13, <1>14, <1>15, <1>16, <1>17, <1>18 DEF Inv

\* Nodes are given back that a set of live tensors used.
LEMMA GivenBack ==
  ASSUME Inv, NEW back \in SUBSET live, Gave(heap, heap', {tensors[t].node : t \in back}),
         live' = live \ back, UNCHANGED <<tensors, met>>
  PROVE  HeapOK(heap') /\ Owned' /\ Counted' /\ Placed'
<1> DEFINE D == {tensors[t].node : t \in back}
<1>1. HeapOK(heap) /\ Types /\ Owned /\ Counted /\ Placed
  BY DEF Inv
<1>2. Owned'
  <2>1. \A t \in live' : tensors[t].node \notin D
    <3> SUFFICES ASSUME NEW t \in live', NEW u \in back, tensors[t].node = tensors[u].node PROVE FALSE
      OBVIOUS
    <3>1. t \in live /\ u \in live /\ t # u
      OBVIOUS
    <3> QED BY <1>1, <3>1 DEF Owned
  <2>2. Used(heap') = Used(heap) \ D /\ \A n \in Used(heap') : heap'.size[n] = heap.size[n]
    BY DEF Gave
  <2>3. \A t \in live' : tensors'[t].node \in Used(heap') /\ heap'.size[tensors'[t].node] = tensors'[t].size
    BY <1>1, <2>1, <2>2 DEF Owned
  <2>4. \A n \in Used(heap') : \E t \in live' : tensors'[t].node = n
    <3> TAKE n \in Used(heap')
    <3>1. n \in Used(heap) /\ n \notin D
      BY <2>2
    <3>2. PICK t \in live : tensors[t].node = n
      BY <1>1, <3>1 DEF Owned
    <3>3. t \notin back
      BY <3>1, <3>2
    <3> QED BY <3>2, <3>3
  <2>5. \A t, u \in live' : tensors'[t].node = tensors'[u].node => t = u
    BY <1>1 DEF Owned
  <2> QED BY <2>3, <2>4, <2>5 DEF Owned
<1>3. Counted'
  BY <1>1 DEF Gave, Counted
<1>4. Placed'
  BY <1>1 DEF Gave, Placed, Fitting
<1> QED BY <1>2, <1>3, <1>4 DEF Gave

LEMMA ReleaseKeeps ==
  ASSUME Inv, Release
  PROVE  Inv'
<1>1. PICK t \in DOMAIN tensors \ freed :
        /\ Free(t) /\ freed' = freed \cup {t} /\ live' = IF barrier THEN live ELSE live \ {t}
  BY DEF Release
<1>2. /\ HeapOK(heap) /\ Types /\ Owned /\ Counted /\ Waiting /\ Placed /\ Computed
      /\ Planning /\ UNCHANGED <<total, code, barrier, barriers, tensors, met>>
  BY DEF Inv, Release
<1>3. t \in 1..Len(tensors) /\ t \notin freed /\ t \in live
  <2>1. DOMAIN tensors = 1..Len(tensors)
    BY <1>2, LenProperties DEF Types
  <2> QED BY <1>2, <2>1 DEF Waiting
<1>4. tensors[t].node \in Used(heap) /\ tensors[t].node \in Nodes
  <2>1. tensors[t] \in [node : Nodes, size : Requests]
    BY <1>2, <1>3, ElementOfSeq DEF Types
  <2> QED BY <1>2, <1>3, <2>1 DEF Owned
<1>5. Types' /\ Computed'
  <2>1. freed' \subseteq 1..Len(tensors) /\ live' \subseteq 1..Len(tensors)
    BY <1>1, <1>2, <1>3 DEF Types
  <2> QED BY <1>2, <2>1 DEF Types, Computed, Planning
<1>6. 1..Len(tensors') \ freed' \subseteq live'
  BY <1>1, <1>2 DEF Waiting
<1>7. CASE barrier
  <2>1. heap' = heap /\ deferred' = Append(deferred, tensors[t].node) /\ live' = live
    BY <1>1, <1>7 DEF Free
  <2>2. deferred \in Seq(Nodes) /\ Once(deferred) /\ Elems(deferred) = {tensors[u].node : u \in live \cap freed}
    BY <1>2 DEF Waiting
  <2>3. tensors[t].node \notin Elems(deferred)
    <3> SUFFICES ASSUME NEW u \in live \cap freed, tensors[u].node = tensors[t].node PROVE FALSE
      BY <2>2
    <3> QED BY <1>2, <1>3 DEF Owned
  <2> DEFINE n == tensors[t].node
             q == Append(deferred, n)
  <2>4. /\ q \in Seq(Nodes) /\ Len(q) = Len(deferred) + 1 /\ Len(deferred) \in Nat
        /\ q[Len(deferred) + 1] = n /\ \A i \in 1..Len(deferred) : q[i] = deferred[i]
    BY <1>4, <2>2, AppendProperties, LenProperties
  <2> HIDE DEF q, n
  <2>5. \A i \in 1..Len(q) : i = Len(deferred) + 1 \/ i \in 1..Len(deferred)
    BY <2>4
  <2>6. \A i \in 1..Len(deferred) : deferred[i] # n
    BY <2>3 DEF Elems, n
  <2>7. Once(q)
    BY <2>2, <2>4, <2>5, <2>6 DEF Once
  <2>8. Elems(q) = Elems(deferred) \cup {n}
    <3>1. \A i \in 1..Len(deferred) : i \in 1..Len(q)
      BY <2>4
    <3>2. Len(deferred) + 1 \in 1..Len(q)
      BY <2>4
    <3> QED BY <2>4, <2>5, <3>1, <3>2 DEF Elems
  <2>9. Elems(q) = {tensors'[u].node : u \in live' \cap freed'}
    <3>1. live' \cap freed' = (live \cap freed) \cup {t}
      BY <1>1, <1>3, <2>1
    <3> QED BY <1>2, <2>2, <2>8, <3>1 DEF n
  <2>10. deferred' = q
    BY <2>1 DEF q, n
  <2>11. Waiting'
    BY <1>2, <1>6, <1>7, <2>4, <2>7, <2>9, <2>10 DEF Waiting
  <2>12. Owned' /\ Counted' /\ Placed'
    BY <1>2, <2>1 DEF Owned, Counted, Placed, Fitting
  <2> QED BY <1>2, <1>5, <2>1, <2>11, <2>12 DEF Inv
<1>8. CASE ~barrier
  <2>1. heap' = FreeNode(heap, tensors[t].node) /\ deferred' = deferred /\ live' = live \ {t}
    BY <1>1, <1>8 DEF Free
  <2>2. Gave(heap, heap', {tensors[t].node})
    BY <1>2, <1>4, <2>1, Freed
  <2>3. {tensors[u].node : u \in {t}} = {tensors[t].node} /\ {t} \in SUBSET live
    BY <1>3
  <2>4. HeapOK(heap') /\ Owned' /\ Counted' /\ Placed'
    BY <1>2, <2>1, <2>2, <2>3, GivenBack
  <2>5. Waiting'
    <3>1. deferred = <<>> /\ Elems(deferred) = {tensors[u].node : u \in live \cap freed}
      BY <1>2, <1>8 DEF Waiting
    <3>2. Elems(<<>>) = {} /\ Once(<<>>)
      BY DEF Elems, Once
    <3>3. live \cap freed = {}
      BY <3>1, <3>2
    <3>4. live' \cap freed' = {}
      BY <1>1, <2>1, <3>3
    <3>5. Elems(deferred') = {tensors'[u].node : u \in live' \cap freed'}
      BY <2>1, <3>1, <3>2, <3>4
    <3> QED BY <1>2, <1>6, <2>1, <3>1, <3>2, <3>5, EmptySeq DEF Waiting
  <2> QED BY <1>5, <2>4, <2>5 DEF Inv
<1> QED BY <1>7, <1>8

LEMMA BarrierEndKeeps ==
  ASSUME Inv, BarrierEnd
  PROVE  Inv'
<1>1. /\ HeapOK(heap) /\ Types /\ Owned /\ Counted /\ Waiting /\ Placed /\ Computed /\ Planning
      /\ barrier' = FALSE /\ heap' = FreeAll(heap, deferred) /\ deferred' = <<>> /\ live' = live \ freed
      /\ UNCHANGED <<total, code, barriers, tensors, freed, met>>
  BY DEF Inv, BarrierEnd
<1> DEFINE back == live \cap freed
<1>2. /\ deferred \in Seq(Nodes) /\ Once(deferred)
      /\ Elems(deferred) = {tensors[u].node : u \in back} /\ back \in SUBSET live /\ live' = live \ back
  BY <1>1 DEF Waiting
<1>3. Elems(deferred) \subseteq Used(heap)
  BY <1>1, <1>2 DEF Owned
<1>4. Gave(heap, heap', Elems(deferred))
  BY <1>1, <1>2, <1>3, FreedAll
<1> HIDE DEF back
<1>5. HeapOK(heap') /\ Owned' /\ Counted' /\ Placed'
  BY <1>1, <1>2, <1>4, GivenBack
<1>6. Types' /\ Computed'
  <2>1. live' \subseteq 1..Len(tensors)
    BY <1>1 DEF Types
  <2>2. Types'
    BY <1>1, <2>1 DEF Types
  <2>3. Computed'
    BY <1>1 DEF Computed, Planning
  <2> QED BY <2>2, <2>3
<1>7. Waiting'
  <2>1. Elems(<<>>) = {} /\ Once(<<>>)
    BY DEF Elems, Once
  <2>2. live' \cap freed' = {} /\ 1..Len(tensors') \ freed' \subseteq live'
    BY <1>1 DEF Waiting
  <2>3. Elems(deferred') = {tensors'[u].node : u \in live' \cap freed'}
    BY <1>1, <2>1, <2>2
  <2> QED BY <1>1, <2>1, <2>2, <2>3, EmptySeq DEF Waiting
<1> QED BY <1>5, <1>6, <1>7 DEF Inv

LEMMA ComputeKeeps ==
  ASSUME Inv, Compute
  PROVE  Inv'
<1>1. /\ HeapOK(heap) /\ Types /\ Owned /\ Counted /\ Waiting /\ Placed /\ Computed
      /\ UNCHANGED <<heap, barrier, deferred, barriers, tensors, freed, live, met>>
      /\ IF heap.free = <<>> THEN UNCHANGED <<total, code>>
         ELSE IF IsFused(heap)
         THEN total' = heap.size[heap.list[1]] /\ UNCHANGED code
         ELSE code' = "INVALID_VALUE" /\ UNCHANGED total
  BY DEF Inv, Compute
<1>2. CASE heap.free # <<>> /\ IsFused(heap)
  <2>1. total' = heap.size[heap.list[1]] /\ code' = code
    BY <1>1, <1>2
  <2>2. 1 \in 1..Len(heap.list) /\ heap.list \in Seq(Nodes) /\ heap.size \in [Nodes -> Nat]
    BY <1>1, <1>2 DEF IsFused, HeapOK, ListOf, Heaps
  <2>3. heap.list[1] \in Nodes
    BY <2>2, ElementOfSeq
  <2>4. Types' /\ Computed'
    BY <1>1, <1>2, <2>1, <2>2, <2>3 DEF Types, Computed
  <2> QED BY <1>1, <2>4 DEF Inv, Owned, Counted, Waiting, Placed, Fitting
<1>3. CASE ~(heap.free # <<>> /\ IsFused(heap))
  <2>1. total' = total /\ code' \in {code, "INVALID_VALUE"}
    BY <1>1, <1>3
  <2>2. Types' /\ Computed'
    BY <1>1, <2>1 DEF Types, Computed
  <2> QED BY <1>1, <2>2 DEF Inv, Owned, Counted, Waiting, Placed, Fitting
<1> QED BY <1>2, <1>3

\* The invariant is inductive.
LEMMA InvHolds == Spec => []Inv
<1>1. Init => Inv
  BY Started DEF Init
<1>2. Init' => Inv'
  BY <1>1, PTL
<1>3. Inv /\ [Next]_vars => Inv'
  <2> SUFFICES ASSUME Inv, [Next]_vars PROVE Inv'
    OBVIOUS
  <2>1. CASE Alloc
    BY <2>1, AllocKeeps
  <2>2. CASE Release
    BY <2>2, ReleaseKeeps
  <2>3. CASE BarrierBegin
    <3>1. /\ UNCHANGED <<heap, total, code, deferred, tensors, freed, live, met>>
          /\ barrier' = TRUE /\ barriers' = barriers + 1 /\ barriers < Barriers
      BY <2>3 DEF BarrierBegin
    <3>2. Types'
      <4>1. barriers \in 0..Barriers /\ Barriers \in Nat
        BY AllocAssumption DEF Inv, Types
      <4>2. barriers' \in 0..Barriers
        BY <3>1, <4>1
      <4> QED BY <3>1, <4>2 DEF Inv, Types
    <3> QED BY <3>1, <3>2 DEF Inv, Owned, Counted, Waiting, Placed, Fitting, Computed
  <2>4. CASE BarrierEnd
    BY <2>4, BarrierEndKeeps
  <2>5. CASE Compute
    BY <2>5, ComputeKeeps
  <2>6. CASE Reset
    <3>1. Init'
      BY <2>6 DEF Reset, Init
    <3> QED BY <1>2, <3>1
  <2>7. CASE UNCHANGED vars
    BY <2>7 DEF vars, Inv, Types, Owned, Counted, Waiting, Placed, Fitting, Computed
  <2> QED BY <2>1, <2>2, <2>3, <2>4, <2>5, <2>6, <2>7 DEF Next
<1> QED BY <1>1, <1>3, PTL DEF Spec

-----------------------------------------------------------------------------
(* What follows from the invariant.                                         *)

\* Every reachable state has a free list that lists exactly the unused nodes, by
\* size and with no two of them side by side, and gives every live tensor a node
\* of its size of its own (BufferAllocator.cpp:465-528, 637-700).
THEOREM FreeListIsConsistent == Spec => []FreeListConsistent
<1>1. Inv => FreeListConsistent
  <2> SUFFICES ASSUME Inv PROVE FreeListConsistent
    OBVIOUS
  <2>1. /\ heap \in Heaps /\ Once(heap.list) /\ Once(heap.free) /\ Sorted(heap.free, heap.size) /\ Rooted(heap)
        /\ Elems(heap.free) = {n \in Elems(heap.list) : ~heap.usage[n] /\ n \notin {}}
        /\ heap.list \in Seq(Nodes) /\ heap.free \in Seq(Nodes) /\ heap.chunks \in 0..MaxAllocs
        /\ heap.size \in [Nodes -> Nat] /\ heap.usage \in [Nodes -> BOOLEAN]
        /\ heap.offset \in [Nodes -> Nat] /\ heap.parent \in [Nodes -> Nodes \cup {0}]
        /\ Fused(heap)
    BY DEF Inv, HeapOK, ListOf, Heaps
  <2>2. /\ DOMAIN heap.list = 1..Len(heap.list) /\ DOMAIN heap.free = 1..Len(heap.free)
        /\ Len(heap.list) \in Nat /\ Len(heap.free) \in Nat
    BY <2>1, LenProperties
  <2>3. Range(heap.list) = Elems(heap.list) /\ Range(heap.free) = Elems(heap.free)
    BY <2>2 DEF Range, Elems
  <2>4. \A n \in Elems(heap.list) : n \in 1..heap.chunks
    <3>1. \A n \in Elems(heap.list) : n \in Nodes
      BY <2>1, ElementOfSeq DEF Elems
    <3> QED BY <2>1, <3>1, HeapAssumption DEF Rooted, Nodes
  <2>5. ASSUME NEW q \in Seq(Nodes), Elems(q) \subseteq 1..heap.chunks PROVE q \in Seq(1..heap.chunks)
    <3>1. \A i \in 1..Len(q) : q[i] \in 1..heap.chunks
      BY <2>5 DEF Elems
    <3>2. q \in [1..Len(q) -> Nodes] /\ Len(q) \in Nat
      BY LenProperties
    <3>3. q \in [1..Len(q) -> 1..heap.chunks]
      BY <3>1, <3>2
    <3>4. \E n \in Nat : q \in [1..n -> 1..heap.chunks]
      BY <3>2, <3>3
    <3>5. Seq(1..heap.chunks) = UNION {[1..n -> 1..heap.chunks] : n \in Nat}
      BY SeqDef
    <3> QED BY <3>4, <3>5
  <2>6. heap.list \in Seq(1..heap.chunks) /\ heap.free \in Seq(1..heap.chunks)
    <3>1. Elems(heap.list) \subseteq 1..heap.chunks /\ Elems(heap.free) \subseteq 1..heap.chunks
      BY <2>1, <2>4
    <3> QED BY <2>1, <2>5, <3>1
  <2>7. DOMAIN tensors = 1..Len(tensors)
    BY LenProperties DEF Inv, Types
  <2>8. TypeOK
    BY <2>1, <2>6, <2>7 DEF TypeOK, Inv, Types, Waiting
  <2>9. LiveNodes
    <3> SUFFICES ASSUME NEW t \in live
                 PROVE  /\ tensors[t].node \in Range(heap.list) /\ heap.usage[tensors[t].node]
                        /\ heap.size[tensors[t].node] = tensors[t].size
                        /\ \A u \in live : tensors[u].node = tensors[t].node => u = t
      BY DEF LiveNodes
    <3> QED BY <2>3 DEF Inv, Owned, Used
  <2>10. IsInjective(heap.free)
    BY <2>1, <2>2 DEF IsInjective, Once
  <2>11. Range(heap.free) = {n \in Range(heap.list) : ~heap.usage[n]}
    BY <2>1, <2>3
  <2>12. \A i \in 1..Len(heap.free) - 1 : heap.size[heap.free[i]] <= heap.size[heap.free[i + 1]]
    <3> TAKE i \in 1..Len(heap.free) - 1
    <3>1. i \in 1..Len(heap.free) /\ i + 1 \in 1..Len(heap.free) /\ i < i + 1
      BY <2>2
    <3> QED BY <2>1, <3>1 DEF Sorted
  <2>13. \A i \in 1..Len(heap.list) - 1 : heap.usage[heap.list[i]] \/ heap.usage[heap.list[i + 1]]
    BY <2>1 DEF Fused
  <2> QED BY <2>8, <2>9, <2>10, <2>11, <2>12, <2>13 DEF FreeListConsistent
<1> QED BY <1>1, InvHolds, PTL

\* Once all tensors are given back a single free node is left, so compute
\* succeeds (BufferAllocator.cpp:575-579).
THEOREM EverythingFuses == Spec => []FusesToOne
<1>1. Inv => FusesToOne
  <2> SUFFICES ASSUME Inv, tensors # <<>>, live = {} PROVE Len(heap.list) = 1 /\ heap.free = heap.list
    BY DEF FusesToOne
  <2>1. /\ heap.list \in Seq(Nodes) /\ heap.free \in Seq(Nodes) /\ heap.chunks \in 0..MaxAllocs
        /\ Fused(heap) /\ Rooted(heap) /\ Once(heap.free)
        /\ Elems(heap.free) = {n \in Elems(heap.list) : ~heap.usage[n] /\ n \notin {}}
    BY DEF Inv, HeapOK, ListOf, Heaps
  <2>2. Len(heap.list) \in Nat /\ Len(heap.free) \in Nat
    BY <2>1, LenProperties
  <2>3. \A n \in Elems(heap.list) : ~heap.usage[n]
    BY DEF Inv, Owned, Used
  <2>4. heap.list # <<>>
    BY <2>1 DEF Inv, Counted, Rooted
  <2>5. Len(heap.list) # 0
    BY <2>1, <2>4, EmptySeq
  <2>6. Len(heap.list) = 1
    <3>1. ASSUME Len(heap.list) > 1 PROVE FALSE
      <4>1. 1 \in 1..Len(heap.list) - 1 /\ 1 \in 1..Len(heap.list) /\ 1 + 1 \in 1..Len(heap.list)
        BY <2>2, <3>1
      <4>2. heap.usage[heap.list[1]] \/ heap.usage[heap.list[1 + 1]]
        BY <2>1, <4>1 DEF Fused
      <4> QED BY <2>3, <4>1, <4>2 DEF Elems
    <3>2. \A n \in Nat : n # 0 /\ ~(n > 1) => n = 1
      OBVIOUS
    <3> QED BY <2>2, <2>5, <3>1, <3>2
  <2>7. Elems(heap.free) = Elems(heap.list) /\ Elems(heap.list) = {heap.list[1]}
    <3>1. Elems(heap.free) = Elems(heap.list)
      BY <2>1, <2>3
    <3>2. 1..1 = {1}
      OBVIOUS
    <3>3. Elems(heap.list) = {heap.list[i] : i \in {1}}
      BY <2>6, <3>2 DEF Elems
    <3> QED BY <3>1, <3>3
  <2>8. Len(heap.free) = 1 /\ heap.free[1] = heap.list[1]
    <3>1. \A i \in 1..Len(heap.free) : heap.free[i] = heap.list[1]
      BY <2>7 DEF Elems
    <3>2. Len(heap.free) # 0
      <4>1. PICK i \in 1..Len(heap.free) : heap.free[i] = heap.list[1]
        BY <2>7 DEF Elems
      <4> QED BY <2>2, <4>1
    <3>3. ~(Len(heap.free) > 1)
      <4> SUFFICES ASSUME Len(heap.free) > 1 PROVE FALSE
        OBVIOUS
      <4>1. 1 \in 1..Len(heap.free) /\ 2 \in 1..Len(heap.free)
        BY <2>2
      <4>2. 1 = 2
        BY <2>1, <3>1, <4>1 DEF Once
      <4> QED BY <4>2
    <3>4. \A n \in Nat : n # 0 /\ ~(n > 1) => n = 1
      OBVIOUS
    <3>5. Len(heap.free) = 1
      BY <2>2, <3>2, <3>3, <3>4
    <3>6. 1 \in 1..1
      OBVIOUS
    <3> QED BY <3>1, <3>5, <3>6
  <2>9. heap.free = heap.list
    <3>1. heap.free \in [1..Len(heap.free) -> Nodes] /\ heap.list \in [1..Len(heap.list) -> Nodes]
      BY <2>1, LenProperties
    <3>2. \A i \in 1..1 : heap.free[i] = heap.list[i]
      BY <2>8
    <3> QED BY <2>6, <2>8, <3>1, <3>2
  <2> QED BY <2>6, <2>9
<1> QED BY <1>1, InvHolds, PTL

\* When the addresses are computed, tensors that were ever live together have
\* disjoint bytes inside the buffer (BufferAllocator.cpp:465-528, 567-633).
THEOREM LifetimesAreDisjoint == Spec => []DisjointLifetimes
<1>1. Inv => DisjointLifetimes
  <2> SUFFICES ASSUME Inv, total > 0
               PROVE  /\ InsideBuffer
                      /\ \A p \in met : \A t, u \in p : t # u => Bytes(t) \cap Bytes(u) = {}
    BY DEF DisjointLifetimes
  <2>1. /\ heap.list \in Seq(Nodes) /\ heap.parent \in [Nodes -> Nodes \cup {0}]
        /\ heap.offset \in [Nodes -> Nat] /\ heap.size \in [Nodes -> Nat] /\ Rooted(heap) /\ Solvable(heap)
    BY DEF Inv, HeapOK, ListOf, Heaps
  <2>2. Len(heap.list) = 1 /\ total = heap.size[heap.list[1]] /\ total \in Nat
    BY DEF Inv, Computed, IsFused, Types
  <2>3. heap.list[1] \in Nodes /\ heap.list[1] \in Elems(heap.list)
    BY <2>1, <2>2, ElementOfSeq DEF Elems
  <2> DEFINE zero == [n \in Nodes |-> 0]
             at == Address(heap)
  <2>4. PICK f \in [Nodes -> Nat] : Solves(heap, zero, f) /\ \A g : Solves(heap, zero, g) => g = f
    <3>1. zero \in [Nodes -> Nat]
      OBVIOUS
    <3> HIDE DEF zero
    <3> QED BY <2>1, <3>1 DEF Solvable
  <2>5. at = f
    <3>1. at = CHOOSE g : g = [n \in Nodes |-> IF heap.parent[n] = 0 THEN 0
                                               ELSE heap.offset[n] + g[heap.parent[n]]]
      BY DEF Address
    <3>2. \A g : Solves(heap, zero, g) <=>
             g = [n \in Nodes |-> IF heap.parent[n] = 0 THEN 0 ELSE heap.offset[n] + g[heap.parent[n]]]
      <4> TAKE g
      <4>1. [n \in Nodes |-> IF heap.parent[n] = 0 THEN zero[n] ELSE heap.offset[n] + g[heap.parent[n]]]
            = [n \in Nodes |-> IF heap.parent[n] = 0 THEN 0 ELSE heap.offset[n] + g[heap.parent[n]]]
        OBVIOUS
      <4> HIDE DEF zero
      <4> QED BY <4>1 DEF Solves
    <3> HIDE DEF at, zero
    <3> QED BY <2>4, <3>1, <3>2
  <2>6. \A n \in Nodes : at[n] \in Nat /\ at[n] = IF heap.parent[n] = 0 THEN 0 ELSE heap.offset[n] + at[heap.parent[n]]
    <3>1. f = [n \in Nodes |-> IF heap.parent[n] = 0 THEN 0 ELSE heap.offset[n] + f[heap.parent[n]]]
      BY <2>4 DEF Solves
    <3> HIDE DEF at
    <3> QED BY <2>4, <2>5, <3>1
  <2>7. at \in [Nodes -> Nat]
    BY <2>4, <2>5
  <2> HIDE DEF at, zero
  <2>8. Fits(heap, at, total)
    <3>1. at[heap.list[1]] = 0
      BY <2>1, <2>3, <2>6 DEF Rooted
    <3>2. \A i \in 1..Len(heap.list) : i = 1
      BY <2>2
    <3>3. at[heap.list[1]] + heap.size[heap.list[1]] <= total
      BY <2>2, <3>1
    <3>4. \A n \in Nodes : heap.parent[n] # 0 => at[n] = at[heap.parent[n]] + heap.offset[n]
      <4> SUFFICES ASSUME NEW n \in Nodes, heap.parent[n] # 0 PROVE at[n] = at[heap.parent[n]] + heap.offset[n]
        OBVIOUS
      <4>1. heap.parent[n] \in Nodes /\ heap.offset[n] \in Nat
        BY <2>1
      <4>2. at[n] = heap.offset[n] + at[heap.parent[n]] /\ at[heap.parent[n]] \in Nat
        BY <2>6, <4>1
      <4> QED BY <4>1, <4>2
    <3>5. \A i, j \in 1..Len(heap.list) : ~(i < j)
      BY <3>2
    <3>6. \A i \in 1..Len(heap.list) : at[heap.list[i]] + heap.size[heap.list[i]] <= total
      BY <3>2, <3>3
    <3> QED BY <2>2, <2>7, <3>4, <3>5, <3>6 DEF Fits
  <2>9. Fitting(at, total)
    BY <2>8 DEF Inv, Placed
  <2>10. ASSUME NEW t \in 1..Len(tensors)
         PROVE  /\ tensors[t].node \in Nodes /\ tensors[t].size \in Nat /\ at[tensors[t].node] \in Nat
                /\ Bytes(t) = at[tensors[t].node]..at[tensors[t].node] + tensors[t].size - 1
    <3>1. tensors[t] \in [node : Nodes, size : Requests]
      BY ElementOfSeq DEF Inv, Types
    <3>2. tensors[t].node \in Nodes /\ tensors[t].size \in Nat
      BY <3>1, AllocAssumption
    <3> QED BY <2>7, <3>2 DEF Bytes, at
  <2>11. InsideBuffer
    <3>1. DOMAIN tensors = 1..Len(tensors)
      BY LenProperties DEF Inv, Types
    <3>2. ASSUME NEW t \in 1..Len(tensors) PROVE Bytes(t) \subseteq 0..total - 1
      <4>1. at[tensors[t].node] + tensors[t].size <= total
        BY <2>9 DEF Fitting
      <4>2. \A a, b \in Nat : a + b <= total => a..a + b - 1 \subseteq 0..total - 1
        BY <2>2
      <4> QED BY <2>10, <4>1, <4>2
    <3> QED BY <3>1, <3>2 DEF InsideBuffer
  <2>12. ASSUME NEW p \in met, NEW t \in p, NEW u \in p, t # u PROVE Bytes(t) \cap Bytes(u) = {}
    <3>1. t \in 1..Len(tensors) /\ u \in 1..Len(tensors)
      BY DEF Inv, Types
    <3>2. \/ at[tensors[t].node] + tensors[t].size <= at[tensors[u].node]
          \/ at[tensors[u].node] + tensors[u].size <= at[tensors[t].node]
      BY <2>9, <2>12 DEF Fitting
    <3>3. \A a, b, c, d \in Nat : a + b <= c \/ c + d <= a => (a..a + b - 1) \cap (c..c + d - 1) = {}
      OBVIOUS
    <3> DEFINE a == at[tensors[t].node]
               b == tensors[t].size
               c == at[tensors[u].node]
               d == tensors[u].size
    <3>4. Bytes(t) = a..a + b - 1 /\ Bytes(u) = c..c + d - 1
      BY <2>10, <3>1
    <3>5. a \in Nat /\ b \in Nat /\ c \in Nat /\ d \in Nat /\ (a + b <= c \/ c + d <= a)
      BY <2>10, <3>1, <3>2
    <3> HIDE DEF a, b, c, d
    <3> QED BY <3>3, <3>4, <3>5
  <2> QED BY <2>11, <2>12
<1> QED BY <1>1, InvHolds, PTL
=============================================================================
