------------------------ MODULE PipelineMemoryProofs ------------------------
(* Proofs about the life times of a pipeline's tensors, for any network, any *)
(* sizes and any order of resizes, failures and fixes.  The heaps are those  *)
(* of DeferAllocatorProofs.                                                  *)
EXTENDS MCPipelineMemory, DeferAllocatorProofs

-----------------------------------------------------------------------------
(* A plan: users of memory and their nodes.                                 *)

Apart(base, at, need, u, v) == \/ base[at[u]] + need[u] <= base[at[v]]
                               \/ base[at[v]] + need[v] <= base[at[u]]

\* Where the nodes of h fit, the users D fit into E, and those of K do not overlap.
Kept(h, at, need, D, K) ==
    \A base, E : Fits(h, base, E) =>
        /\ \A u \in D : base[at[u]] + need[u] <= E
        /\ \A u, v \in D : <<u, v>> \in K => Apart(base, at, need, u, v)

\* The users D were given the nodes at, of which those of H still hold theirs;
\* K says who must not overlap.
Roomy(h, at, need, D, H, K) ==
    /\ HeapOK(h) /\ H \subseteq D
    /\ \A u \in D : at[u] \in Nodes /\ need[u] \in Nat
    /\ \A u \in H : h.size[at[u]] = need[u]
    /\ \A u, v \in H : at[u] = at[v] => u = v
    /\ Used(h) = {at[u] : u \in H}
    /\ Kept(h, at, need, D, K)

\* What fits a heap with a new node at its tail has the old one in front of it.
LEMMA TailFits ==
  ASSUME NEW h, HeapOK(h), h.chunks < MaxAllocs, NEW s \in Nat,
         NEW base, NEW E, Fits(NewNode(h, s, TRUE, 0), base, E)
  PROVE  Fits(h, base, base[h.chunks + 1])
<1> DEFINE n == h.chunks + 1
           k == Len(h.list) + 1
           q == InsertAt(h.list, k, n)
           g == NewNode(h, s, TRUE, 0)
<1>1. /\ ListOf(h, {}) /\ h \in Heaps /\ h.list \in Seq(Nodes) /\ h.size \in [Nodes -> Nat]
      /\ h.usage \in [Nodes -> BOOLEAN] /\ h.chunks \in 0..MaxAllocs
  BY DEF HeapOK, ListOf, Heaps
<1>2. Len(h.list) \in Nat /\ k \in 1..Len(h.list) + 1
  BY <1>1, LenProperties
<1>3. g = [h EXCEPT !.chunks = n, !.size[n] = s, !.usage[n] = TRUE, !.list = InsertAt(h.list, k, n)]
  BY DEF NewNode
<1>4. Fits(g, base, E)
  OBVIOUS
<1> HIDE DEF n, g, k
<1>5. n = h.chunks + 1
  BY DEF n
<1>6. /\ n \in Nodes /\ n \notin Elems(h.list) /\ g.list = q
      /\ g.size = [h.size EXCEPT ![n] = s] /\ g.parent = h.parent /\ g.offset = h.offset
  <2>1. Grown(h, g, {}, k, n, s, TRUE)
    <3>1. Adds(h, g, k, n, s, TRUE)
      BY <1>2, <1>3, <1>5 DEF Adds
    <3> QED BY <1>1, <3>1, NodeAdded
  <2> QED BY <2>1 DEF Grown
<1>7. With(q, h.list, k, n)
  BY <1>1, <1>2, <1>6, InsertedWith
<1> HIDE DEF q
<1>8. Len(q) = k /\ q[k] = n /\ k \in 1..Len(q) /\ \A i \in 1..Len(h.list) : q[i] = h.list[i] /\ i \in 1..Len(q) /\ i < k
  <2>1. Len(q) = Len(h.list) + 1 /\ q[k] = n
    BY <1>2, <1>7 DEF With
  <2>2. k = Len(h.list) + 1
    BY DEF k
  <2>3. ASSUME NEW i \in 1..Len(h.list) PROVE q[i] = h.list[i] /\ i \in 1..Len(q) /\ i < k
    <3>1. i < k /\ i \in 1..Len(h.list) + 1
      BY <1>2, <2>2
    <3> QED BY <1>7, <2>1, <3>1 DEF With
  <2> QED BY <1>2, <2>1, <2>2, <2>3
<1>9. \A i \in 1..Len(h.list) : h.list[i] \in Nodes /\ g.size[h.list[i]] = h.size[h.list[i]]
  <2>1. \A i \in 1..Len(h.list) : h.list[i] \in Nodes
    BY <1>1, ElementOfSeq
  <2> QED BY <1>1, <1>6, <2>1 DEF Elems
<1>10. ASSUME NEW i \in 1..Len(h.list), NEW j \in 1..Len(h.list), i < j
       PROVE  base[h.list[i]] + h.size[h.list[i]] <= base[h.list[j]]
  <2>1. base[q[i]] + g.size[q[i]] <= base[q[j]]
    BY <1>4, <1>6, <1>8, <1>10 DEF Fits
  <2> QED BY <1>8, <1>9, <2>1
<1>11. ASSUME NEW i \in 1..Len(h.list) PROVE base[h.list[i]] + h.size[h.list[i]] <= base[n]
  <2>1. base[q[i]] + g.size[q[i]] <= base[q[k]]
    BY <1>4, <1>6, <1>8 DEF Fits
  <2> QED BY <1>8, <1>9, <2>1
<1>12. base \in [Nodes -> Nat] /\ base[n] \in Nat
  BY <1>4, <1>6 DEF Fits
<1> QED BY <1>4, <1>5, <1>6, <1>10, <1>11, <1>12 DEF Fits

\* The user u asks for memory, which makes its node, and those of D, to: what it
\* must not overlap either still holds its node, or u asks for memory that nobody
\* had before.
Asks(h, at, need, D, H, K, u, sep, to) ==
    /\ Roomy(h, at, need, D, H, K) /\ h.chunks < MaxAllocs
    /\ u \notin D /\ need[u] \in Nat /\ sep \in BOOLEAN /\ <<u, u>> \notin K
    /\ \A v \in D : <<u, v>> \in K \/ <<v, u>> \in K => v \in H \/ sep = TRUE
    /\ to[u] = AllocNode(h, need[u], sep).node /\ \A v \in D : to[v] = at[v]

LEMMA UserAdded ==
  ASSUME NEW h, NEW at, NEW need, NEW D, NEW H, NEW K, NEW u, NEW sep, NEW to,
         Asks(h, at, need, D, H, K, u, sep, to)
  PROVE  LET r == AllocNode(h, need[u], sep)
         IN  /\ Roomy(r.heap, to, need, D \cup {u}, H \cup {u}, K)
             /\ r.node \in Nodes /\ r.heap.chunks \in {h.chunks, h.chunks + 1} /\ r.heap.chunks \in Nat
<1> Roomy(h, at, need, D, H, K) /\ h.chunks < MaxAllocs
  BY DEF Asks
<1> u \notin D /\ need[u] \in Nat /\ sep \in BOOLEAN /\ <<u, u>> \notin K
  BY DEF Asks
<1> \A v \in D : <<u, v>> \in K \/ <<v, u>> \in K => v \in H \/ sep = TRUE
  BY DEF Asks
<1> to[u] = AllocNode(h, need[u], sep).node /\ \A v \in D : to[v] = at[v]
  BY DEF Asks
<1> DEFINE n == AllocNode(h, need[u], sep).node
           g == AllocNode(h, need[u], sep).heap
           s == need[u]
<1>1. /\ HeapOK(h) /\ H \subseteq D /\ \A v \in D : at[v] \in Nodes /\ need[v] \in Nat
      /\ \A v \in H : h.size[at[v]] = need[v]
      /\ \A v, w \in H : at[v] = at[w] => v = w
      /\ Used(h) = {at[v] : v \in H} /\ Kept(h, at, need, D, K)
  BY DEF Roomy
<1>2. Took(h, g, n, s)
  BY <1>1, Allocated
<1>3. sep => \A base, E : Fits(g, base, E) => Fits(h, base, base[n])
  <2> SUFFICES ASSUME sep, NEW base, NEW E, Fits(g, base, E) PROVE Fits(h, base, base[n])
    OBVIOUS
  <2>1. g = NewNode(h, s, TRUE, 0) /\ n = h.chunks + 1
    BY DEF AllocNode
  <2>2. Fits(NewNode(h, s, TRUE, 0), base, E)
    BY <2>1
  <2>3. Fits(h, base, base[h.chunks + 1])
    <3> HIDE DEF g, n
    <3> QED BY <1>1, <2>2, TailFits
  <2> QED BY <2>1, <2>3
<1>4. to[u] = n /\ \A v \in D : to[v] = at[v] /\ v # u
  OBVIOUS
<1> HIDE DEF n, g
<1>5. /\ HeapOK(g) /\ n \in Nodes /\ n \notin Used(h) /\ Used(g) = Used(h) \cup {n}
      /\ g.size[n] = s /\ \A x \in Used(h) : g.size[x] = h.size[x]
      /\ g.chunks \in {h.chunks, h.chunks + 1}
      /\ \A base, E : Fits(g, base, E) => Fits(h, base, E)
  BY <1>2 DEF Took
<1>6. \A v \in H : at[v] \in Used(h) /\ to[v] = at[v] /\ v # u
  BY <1>1, <1>4
<1>7. /\ HeapOK(g) /\ H \cup {u} \subseteq D \cup {u}
      /\ \A v \in D \cup {u} : to[v] \in Nodes /\ need[v] \in Nat
      /\ \A v \in H \cup {u} : g.size[to[v]] = need[v]
      /\ \A v, w \in H \cup {u} : to[v] = to[w] => v = w
      /\ Used(g) = {to[v] : v \in H \cup {u}}
  BY <1>1, <1>4, <1>5, <1>6
<1>8. Kept(g, to, need, D \cup {u}, K)
  <2> SUFFICES ASSUME NEW base, NEW E, Fits(g, base, E)
               PROVE  /\ \A v \in D \cup {u} : base[to[v]] + need[v] <= E
                      /\ \A v, w \in D \cup {u} : <<v, w>> \in K => Apart(base, to, need, v, w)
    BY DEF Kept
  <2>1. /\ \A v \in D : base[at[v]] + need[v] <= E
        /\ \A v, w \in D : <<v, w>> \in K => Apart(base, at, need, v, w)
    BY <1>1, <1>5 DEF Kept
  <2>2. \A x \in Used(g) : \E i \in 1..Len(g.list) : g.list[i] = x
    BY DEF Used, Elems
  <2>3. base[n] + s <= E
    BY <1>5, <2>2 DEF Fits
  <2>4. ASSUME NEW v \in D, v \in H \/ sep = TRUE PROVE Apart(base, to, need, u, v) /\ Apart(base, to, need, v, u)
    <3>1. CASE sep
      <4>1. Fits(h, base, base[n])
        BY <1>3, <3>1
      <4>2. base[at[v]] + need[v] <= base[n]
        BY <1>1, <4>1 DEF Kept
      <4> QED BY <1>4, <4>2 DEF Apart
    <3>2. CASE v \in H
      <4>1. at[v] \in Used(g) /\ at[v] # n /\ g.size[at[v]] = need[v]
        BY <1>1, <1>5, <1>6, <3>2
      <4>2. PICK i \in 1..Len(g.list) : g.list[i] = n
        BY <1>5, <2>2
      <4>3. PICK j \in 1..Len(g.list) : g.list[j] = at[v]
        BY <2>2, <4>1
      <4>4. i < j \/ j < i
        <5>1. i # j
          BY <4>1, <4>2, <4>3
        <5> QED BY <5>1
      <4>5. i < j => base[n] + s <= base[at[v]]
        BY <1>5, <4>2, <4>3 DEF Fits
      <4>6. j < i => base[at[v]] + need[v] <= base[n]
        BY <4>1, <4>2, <4>3 DEF Fits
      <4> QED BY <1>4, <4>4, <4>5, <4>6 DEF Apart
    <3>3. v \in H \/ sep
      BY <2>4
    <3> QED BY <3>1, <3>2, <3>3
  <2>5. \A v \in D \cup {u} : base[to[v]] + need[v] <= E
    BY <1>4, <2>1, <2>3
  <2>6. ASSUME NEW v \in D \cup {u}, NEW w \in D \cup {u}, <<v, w>> \in K PROVE Apart(base, to, need, v, w)
    <3>1. CASE v \in D /\ w \in D
      BY <1>4, <2>1, <2>6, <3>1 DEF Apart
    <3>2. CASE v = u /\ w \in D
      BY <2>4, <2>6, <3>2
    <3>3. CASE v \in D /\ w = u
      BY <2>4, <2>6, <3>3
    <3>4. CASE v = u /\ w = u
      BY <2>6, <3>4
    <3> QED BY <3>1, <3>2, <3>3, <3>4
  <2> QED BY <2>5, <2>6
<1>9. g.chunks \in Nat
  BY <1>5, HeapAssumption DEF HeapOK, ListOf, Heaps
<1> QED BY <1>5, <1>7, <1>8, <1>9 DEF Roomy, g, n

\* A user gives its memory back.
LEMMA UserGone ==
  ASSUME NEW h, NEW at, NEW need, NEW D, NEW H, NEW K, Roomy(h, at, need, D, H, K), NEW u \in H
  PROVE  LET g == FreeNode(h, at[u]) IN Roomy(g, at, need, D, H \ {u}, K) /\ g.chunks = h.chunks
<1> DEFINE g == FreeNode(h, at[u])
<1>1. /\ HeapOK(h) /\ H \subseteq D /\ \A v \in D : at[v] \in Nodes /\ need[v] \in Nat
      /\ \A v \in H : h.size[at[v]] = need[v]
      /\ \A v, w \in H : at[v] = at[w] => v = w
      /\ Used(h) = {at[v] : v \in H} /\ Kept(h, at, need, D, K)
  BY DEF Roomy
<1>2. Gave(h, g, {at[u]})
  BY <1>1, Freed
<1> HIDE DEF g
<1>3. /\ HeapOK(g) /\ g.chunks = h.chunks /\ Used(g) = Used(h) \ {at[u]}
      /\ \A n \in Used(g) : g.size[n] = h.size[n]
      /\ \A base, E : Fits(g, base, E) => Fits(h, base, E)
  BY <1>2 DEF Gave
<1>4. Used(g) = {at[v] : v \in H \ {u}}
  BY <1>1, <1>3
<1>5. Kept(g, at, need, D, K)
  BY <1>1, <1>3 DEF Kept
<1> QED BY <1>1, <1>3, <1>4, <1>5 DEF Roomy, g

\* Once everybody gave its memory back there is at most one node left.
LEMMA NoneHeld ==
  ASSUME NEW h, HeapOK(h), Used(h) = {}
  PROVE  Len(h.list) \in {0, 1} /\ (h.free = <<>> \/ IsFused(h))
<1>1. /\ h.list \in Seq(Nodes) /\ h.free \in Seq(Nodes) /\ Fused(h) /\ Once(h.free)
      /\ Elems(h.free) = {n \in Elems(h.list) : ~h.usage[n] /\ n \notin {}}
  BY DEF HeapOK, ListOf, Heaps
<1>2. Len(h.list) \in Nat /\ Len(h.free) \in Nat
  BY <1>1, LenProperties
<1>3. \A n \in Elems(h.list) : ~h.usage[n]
  BY DEF Used
<1>4. ~(Len(h.list) > 1)
  <2> SUFFICES ASSUME Len(h.list) > 1 PROVE FALSE
    OBVIOUS
  <2>1. 1 \in 1..Len(h.list) - 1 /\ 1 \in 1..Len(h.list) /\ 1 + 1 \in 1..Len(h.list)
    BY <1>2
  <2>2. h.usage[h.list[1]] \/ h.usage[h.list[1 + 1]]
    BY <1>1, <2>1 DEF Fused
  <2> QED BY <1>3, <2>1, <2>2 DEF Elems
<1>5. \A i \in 1..Len(h.free) : Len(h.list) = 1 /\ h.free[i] = h.list[1]
  <2> TAKE i \in 1..Len(h.free)
  <2>1. h.free[i] \in Elems(h.list)
    BY <1>1 DEF Elems
  <2>2. PICK j \in 1..Len(h.list) : h.free[i] = h.list[j]
    BY <2>1 DEF Elems
  <2>3. j \in Nat /\ 1 <= j /\ j <= Len(h.list) /\ Len(h.list) <= 1
    BY <1>2, <1>4
  <2>4. \A n \in Nat : 1 <= j /\ j <= n /\ n <= 1 => n = 1 /\ j = 1
    BY <2>3
  <2>5. Len(h.list) = 1 /\ j = 1
    BY <1>2, <2>3, <2>4
  <2> QED BY <2>2, <2>5
<1>6. ~(Len(h.free) > 1)
  <2> SUFFICES ASSUME Len(h.free) > 1 PROVE FALSE
    OBVIOUS
  <2>1. 1 \in 1..Len(h.free) /\ 2 \in 1..Len(h.free)
    BY <1>2
  <2>2. 1 = 2
    BY <1>1, <1>5, <2>1 DEF Once
  <2> QED BY <2>2
<1>7. \A n \in Nat : ~(n > 1) => n \in {0, 1}
  OBVIOUS
<1>8. Len(h.list) \in {0, 1} /\ Len(h.free) \in {0, 1}
  BY <1>2, <1>4, <1>6, <1>7
<1>9. CASE Len(h.free) = 0
  <2>1. h.free = <<>>
    BY <1>1, <1>9, EmptySeq
  <2> QED BY <1>8, <2>1
<1>10. CASE Len(h.free) # 0
  <2>1. Len(h.free) = 1 /\ 1 \in 1..Len(h.free)
    BY <1>10, <1>8
  <2> QED BY <1>5, <2>1 DEF IsFused
<1> QED BY <1>9, <1>10

\* The addresses of a heap with at most one node in the list are where its nodes fit.
LEMMA AddressFits ==
  ASSUME NEW h, HeapOK(h), Len(h.list) \in {0, 1}
  PROVE  \E E : Fits(h, Address(h), E)
<1>1. /\ h.list \in Seq(Nodes) /\ h.parent \in [Nodes -> Nodes \cup {0}]
      /\ h.offset \in [Nodes -> Nat] /\ h.size \in [Nodes -> Nat] /\ Rooted(h) /\ Solvable(h)
  BY DEF HeapOK, ListOf, Heaps
<1> DEFINE zero == [n \in Nodes |-> 0]
           at == Address(h)
<1>2. PICK f \in [Nodes -> Nat] : Solves(h, zero, f) /\ \A g : Solves(h, zero, g) => g = f
  <2>1. zero \in [Nodes -> Nat]
    OBVIOUS
  <2> HIDE DEF zero
  <2> QED BY <1>1, <2>1 DEF Solvable
<1>3. at = f
  <2>1. at = CHOOSE g : g = [n \in Nodes |-> IF h.parent[n] = 0 THEN 0 ELSE h.offset[n] + g[h.parent[n]]]
    BY DEF Address
  <2>2. \A g : Solves(h, zero, g) <=>
           g = [n \in Nodes |-> IF h.parent[n] = 0 THEN 0 ELSE h.offset[n] + g[h.parent[n]]]
    <3> TAKE g
    <3>1. [n \in Nodes |-> IF h.parent[n] = 0 THEN zero[n] ELSE h.offset[n] + g[h.parent[n]]]
          = [n \in Nodes |-> IF h.parent[n] = 0 THEN 0 ELSE h.offset[n] + g[h.parent[n]]]
      OBVIOUS
    <3> HIDE DEF zero
    <3> QED BY <3>1 DEF Solves
  <2> HIDE DEF at, zero
  <2> QED BY <1>2, <2>1, <2>2
<1>4. \A n \in Nodes : at[n] \in Nat /\ at[n] = IF h.parent[n] = 0 THEN 0 ELSE h.offset[n] + at[h.parent[n]]
  <2>1. f = [n \in Nodes |-> IF h.parent[n] = 0 THEN 0 ELSE h.offset[n] + f[h.parent[n]]]
    BY <1>2 DEF Solves
  <2> HIDE DEF at
  <2> QED BY <1>2, <1>3, <2>1
<1>5. at \in [Nodes -> Nat]
  BY <1>2, <1>3
<1> HIDE DEF at, zero
<1>6. \A n \in Nodes : h.parent[n] # 0 => at[n] = at[h.parent[n]] + h.offset[n]
  <2> SUFFICES ASSUME NEW n \in Nodes, h.parent[n] # 0 PROVE at[n] = at[h.parent[n]] + h.offset[n]
    OBVIOUS
  <2>1. h.parent[n] \in Nodes /\ h.offset[n] \in Nat
    BY <1>1
  <2>2. at[n] = h.offset[n] + at[h.parent[n]] /\ at[h.parent[n]] \in Nat
    BY <1>4, <2>1
  <2> QED BY <2>1, <2>2
<1>7. \A i \in 1..Len(h.list) : i = 1 /\ at[h.list[i]] \in Nat /\ h.size[h.list[i]] \in Nat
  <2>1. \A i \in 1..Len(h.list) : h.list[i] \in Nodes
    BY <1>1, ElementOfSeq
  <2>2. \A i \in 1..Len(h.list) : i = 1
    <3>1. \A k \in {0, 1} : \A i \in 1..k : i = 1
      OBVIOUS
    <3> QED BY <3>1
  <2> QED BY <1>1, <1>4, <2>1, <2>2
<1> DEFINE E == IF Len(h.list) = 1 THEN at[h.list[1]] + h.size[h.list[1]] ELSE 0
<1>8. E \in Nat
  <2>1. CASE Len(h.list) = 1
    BY <1>7, <2>1
  <2>2. CASE Len(h.list) # 1
    BY <2>2
  <2> QED BY <2>1, <2>2
<1>9. \A i \in 1..Len(h.list) : at[h.list[i]] + h.size[h.list[i]] <= E
  BY <1>7
<1>10. \A i, j \in 1..Len(h.list) : ~(i < j)
  BY <1>7
<1> HIDE DEF E
<1>11. Fits(h, at, E)
  BY <1>5, <1>6, <1>8, <1>9, <1>10 DEF Fits
<1> QED BY <1>11 DEF at

-----------------------------------------------------------------------------
(* The network.                                                             *)

NetOK ==
    /\ net.ins \in [Commands -> Seq(Tensors)]
    /\ \A c \in Commands : /\ Len(net.ins[c]) \in {1, 2}
                           /\ \A i \in 1..Len(net.ins[c]) : net.ins[c][i] < Out(c)
    /\ net.outputs \subseteq {Out(c) : c \in Commands}
    /\ net.weight \in [Tensors -> Nat \ {0}] /\ net.scratch \in [Commands -> Nat]
    /\ net.inside \in BOOLEAN /\ net.varies \subseteq Tensors
    /\ \A c \in Fixable : Out(c) \notin net.varies

\* Commands and tensors are numbers.
LEMMA Numbers ==
  /\ NumInputs \in Nat \ {0} /\ NumCommands \in Nat \ {0} /\ Inputs \subseteq Tensors
  /\ \A c \in Commands : /\ c \in Nat /\ c >= 1 /\ c <= NumCommands /\ Out(c) \in Tensors
                         /\ Out(c) \notin Inputs /\ Out(c) \in Nat /\ Born(Out(c)) = c
  /\ \A t \in Tensors : t \in Nat /\ t > 0 /\ (t \in Inputs \/ \E c \in Commands : t = Out(c))
  /\ \A t \in Inputs : Born(t) = 0
  /\ \A t \in Tensors : Born(t) \in Nat
  /\ \A c, d \in Commands : Out(c) = Out(d) => c = d
<1>1. NumInputs \in Nat \ {0} /\ NumCommands \in Nat \ {0}
  BY PipelineAssumption
<1>2. Inputs \subseteq Tensors /\ \A t \in Inputs : Born(t) = 0
  BY <1>1 DEF Inputs, Tensors, Born
<1>3. ASSUME NEW c \in Commands
      PROVE  /\ c \in Nat /\ c >= 1 /\ c <= NumCommands /\ Out(c) \in Tensors
             /\ Out(c) \notin Inputs /\ Out(c) \in Nat /\ Born(Out(c)) = c
  BY <1>1 DEF Commands, Out, Tensors, Inputs, Born
<1>4. ASSUME NEW t \in Tensors
      PROVE  t \in Nat /\ t > 0 /\ (t \in Inputs \/ \E c \in Commands : t = Out(c))
  <2>1. t \in Nat /\ t >= 1 /\ t <= NumInputs + NumCommands
    BY <1>1 DEF Tensors
  <2>2. CASE t <= NumInputs
    BY <1>1, <2>1, <2>2 DEF Inputs
  <2>3. CASE ~(t <= NumInputs)
    <3>1. t - NumInputs \in Commands /\ t = Out(t - NumInputs)
      BY <1>1, <2>1, <2>3 DEF Commands, Out
    <3> QED BY <2>1, <3>1
  <2> QED BY <2>2, <2>3
<1>5. \A t \in Tensors : Born(t) \in Nat
  BY <1>2, <1>3, <1>4
<1>6. \A c, d \in Commands : Out(c) = Out(d) => c = d
  BY <1>1, <1>3 DEF Out
<1> QED BY <1>1, <1>2, <1>3, <1>4, <1>5, <1>6

\* What a command reads.
LEMMA InputsOf ==
  ASSUME NetOK, NEW c \in Commands
  PROVE  /\ DOMAIN net.ins[c] = 1..Len(net.ins[c])
         /\ net.ins[c][1] \in Tensors /\ net.ins[c][1] < Out(c) /\ 1 \in DOMAIN net.ins[c]
         /\ Len(net.ins[c]) # 1 => /\ Len(net.ins[c]) = 2 /\ 2 \in DOMAIN net.ins[c]
                                   /\ net.ins[c][2] \in Tensors /\ net.ins[c][2] < Out(c)
         /\ \A t : Reads(c, t) <=> \E i \in DOMAIN net.ins[c] : net.ins[c][i] = t
         /\ \A t : Reads(c, t) => t \in Tensors /\ t < Out(c)
<1>1. /\ net.ins[c] \in Seq(Tensors) /\ Len(net.ins[c]) \in {1, 2}
      /\ \A i \in 1..Len(net.ins[c]) : net.ins[c][i] < Out(c)
  BY DEF NetOK
<1>2. DOMAIN net.ins[c] = 1..Len(net.ins[c])
  BY <1>1, LenProperties
<1>3. \A i \in 1..Len(net.ins[c]) : net.ins[c][i] \in Tensors
  BY <1>1, ElementOfSeq
<1>4. 1 \in 1..Len(net.ins[c]) /\ (Len(net.ins[c]) # 1 => Len(net.ins[c]) = 2 /\ 2 \in 1..Len(net.ins[c]))
  <2>1. \A k \in {1, 2} : 1 \in 1..k /\ (k # 1 => k = 2 /\ 2 \in 1..k)
    OBVIOUS
  <2> QED BY <1>1, <2>1
<1>5. \A t : Reads(c, t) <=> \E i \in DOMAIN net.ins[c] : net.ins[c][i] = t
  BY DEF Reads, ToSet
<1> QED BY <1>1, <1>2, <1>3, <1>4, <1>5

\* The largest of bounded numbers.
LEMMA MaxIs ==
  ASSUME NEW T \in SUBSET Nat, T # {}, NEW b \in Nat, \A x \in T : x <= b
  PROVE  Max(T) \in T /\ \A x \in T : x <= Max(T)
<1> DEFINE U == {n \in Nat : \A x \in T : x <= n}
<1>1. PICK k \in U : \A n \in U : k <= n
  <2>1. b \in U /\ U \in SUBSET Nat
    OBVIOUS
  <2> HIDE DEF U
  <2> QED BY <2>1, LeastNat
<1>2. k \in Nat /\ \A x \in T : x <= k
  BY <1>1
<1>3. k \in T
  <2> SUFFICES ASSUME k \notin T PROVE FALSE
    OBVIOUS
  <2>1. \A x \in T : x \in Nat /\ x <= k - 1
    BY <1>2
  <2>2. k - 1 \in Nat
    <3>1. PICK x \in T : TRUE
      OBVIOUS
    <3> QED BY <1>2, <2>1, <3>1
  <2>3. k - 1 \in U
    BY <2>1, <2>2
  <2> QED BY <1>1, <1>2, <2>3
<1>4. \A x \in T : k >= x
  BY <1>2
<1>5. Max(T) \in T /\ \A x \in T : Max(T) >= x
  BY <1>3, <1>4 DEF Max
<1> QED BY <1>5

\* The end of a tensor's life.
LEMMA DiesIs ==
  ASSUME NetOK, NEW t \in Tensors
  PROVE  /\ Dies(t) \in Nat
         /\ t \in net.outputs => Dies(t) = NumCommands + 1
         /\ Born(t) <= Dies(t)
         /\ \A c \in Commands : Reads(c, t) => c <= Dies(t)
         /\ t \notin net.outputs => \A n \in Nat : Born(t) <= n /\ (\A c \in Commands : Reads(c, t) => c <= n)
                                                   => Dies(t) <= n
<1> DEFINE T == {Born(t)} \cup {c \in Commands : Reads(c, t)}
<1>1. Born(t) \in Nat /\ Born(t) <= NumCommands /\ NumCommands \in Nat
  BY Numbers
<1>2. \A c \in Commands : c \in Nat /\ c <= NumCommands
  BY Numbers
<1>3. CASE t \in net.outputs
  BY <1>1, <1>2, <1>3 DEF Dies
<1>4. CASE t \notin net.outputs
  <2>1. T \in SUBSET Nat /\ Born(t) \in T /\ \A x \in T : x <= NumCommands
    BY <1>1, <1>2
  <2>2. Dies(t) = Max(T)
    BY <1>4 DEF Dies
  <2>3. \A c \in Commands : Reads(c, t) => c \in T
    OBVIOUS
  <2>4. ASSUME NEW x \in T PROVE x = Born(t) \/ (x \in Commands /\ Reads(x, t))
    <3>1. CASE x \in {Born(t)}
      BY <3>1
    <3>2. CASE x \in {c \in Commands : Reads(c, t)}
      BY <3>2
    <3> QED BY <3>1, <3>2
  <2> HIDE DEF T
  <2>5. Dies(t) \in T /\ \A x \in T : x <= Dies(t)
    BY <1>1, <2>1, <2>2, MaxIs
  <2> QED BY <1>4, <2>1, <2>3, <2>4, <2>5
<1> QED BY <1>3, <1>4

\* What the recursive definition of Varies computes.
LEMMA VariesIs ==
  ASSUME NEW ins \in [Commands -> Seq(Tensors)], NEW still,
         \A c \in Commands : \A u \in ToSet(ins[c]) : u \in Tensors /\ u < Out(c)
  PROVE  /\ Varies(ins, still) \subseteq Tensors
         /\ \A c \in Commands : Out(c) \in Varies(ins, still) => ToSet(ins[c]) \cap Varies(ins, still) # {}
<1> DEFINE V(f, t) == IF t \in Inputs THEN t = NumInputs
                      ELSE /\ t - NumInputs \notin still
                           /\ \E u \in ToSet(ins[t - NumInputs]) : f[u]
           F(f, k) == [t \in 1..k |-> V(f, t)]
           last == NumInputs + NumCommands
<1>0. last \in Nat /\ Tensors = 1..last /\ NumInputs \in Nat /\ NumCommands \in Nat
  BY PipelineAssumption DEF Tensors
<1>1. ASSUME NEW f, NEW g, NEW t \in Tensors, \A u \in Tensors : u < t => f[u] = g[u]
      PROVE  V(f, t) = V(g, t)
  <2>1. CASE t \in Inputs
    BY <2>1
  <2>2. CASE t \notin Inputs
    <3>1. PICK c \in Commands : t = Out(c)
      BY <2>2, Numbers
    <3>2. t - NumInputs = c
      BY <1>0, <3>1, Numbers DEF Out
    <3>3. \A u \in ToSet(ins[c]) : f[u] = g[u]
      BY <1>1, <3>1
    <3> QED BY <2>2, <3>2, <3>3
  <2> QED BY <2>1, <2>2
<1> HIDE DEF V
<1>2. \A k \in 0..last : \E f : f = F(f, k)
  <2> DEFINE T == {k \in 0..last : ~\E f : f = F(f, k)}
  <2> SUFFICES ASSUME T # {} PROVE FALSE
    OBVIOUS
  <2>1. PICK k \in T : \A y \in T : k <= y
    <3>1. T \in SUBSET Nat
      BY <1>0
    <3> HIDE DEF T
    <3> QED BY <3>1, LeastNat
  <2>2. k \in 0..last /\ ~\E f : f = F(f, k)
    BY <2>1
  <2>3. CASE k = 0
    <3> DEFINE f == [t \in 1..0 |-> TRUE]
    <3>1. \A t \in 1..0 : FALSE
      OBVIOUS
    <3>2. f = F(f, 0)
      BY <3>1
    <3> QED BY <2>2, <2>3, <3>2
  <2>4. CASE k # 0
    <3>1. k - 1 \in 0..last /\ ~(k <= k - 1) /\ k \in Tensors /\ k \in Nat
      BY <1>0, <2>2, <2>4
    <3>2. PICK f : f = F(f, k - 1)
      BY <2>1, <3>1
    <3> DEFINE g == [t \in 1..k |-> IF t < k THEN f[t] ELSE V(f, k)]
    <3>3. ASSUME NEW t \in 1..k PROVE g[t] = V(g, t)
      <4>1. t \in Tensors /\ t <= k /\ t \in Nat
        BY <1>0, <2>2
      <4>2. \A u \in Tensors : u < t => u \in 1..k /\ u < k
        BY <1>0, <3>1, <4>1
      <4>3. \A u \in Tensors : u < t => f[u] = g[u]
        BY <4>2
      <4>4. V(f, t) = V(g, t)
        <5> HIDE DEF g
        <5> QED BY <1>1, <4>1, <4>3
      <4>5. CASE t = k
        <5>1. g[k] = V(f, k)
          BY <3>1
        <5> HIDE DEF g
        <5> QED BY <4>4, <4>5, <5>1
      <4>6. CASE t # k
        <5>1. t < k /\ t \in 1..k - 1
          BY <3>1, <4>1, <4>6
        <5>2. f[t] = V(f, t)
          BY <3>2, <5>1
        <5> QED BY <4>4, <5>1, <5>2
      <4> QED BY <4>5, <4>6
    <3>4. g = F(g, k)
      <4>1. g = [t \in 1..k |-> g[t]]
        OBVIOUS
      <4> HIDE DEF g
      <4> QED BY <3>3, <4>1
    <3> QED BY <2>2, <3>4
  <2> QED BY <2>3, <2>4
<1> DEFINE A == CHOOSE f : f = F(f, last)
<1>3. A = F(A, last)
  <2>1. last \in 0..last
    BY <1>0
  <2> QED BY <1>2, <2>1
<1>4. Varies(ins, still) = {t \in Tensors : A[t]}
  <2>1. A = CHOOSE f : f = [t \in Tensors |-> V(f, t)]
    BY <1>0
  <2> HIDE DEF A
  <2> QED BY <2>1 DEF Varies, V
<1> HIDE DEF A
<1>5. ASSUME NEW c \in Commands, Out(c) \in Varies(ins, still)
      PROVE  ToSet(ins[c]) \cap Varies(ins, still) # {}
  <2>1. Out(c) \in Tensors /\ Out(c) \notin Inputs /\ Out(c) - NumInputs = c
    BY <1>0, Numbers DEF Out
  <2>2. A[Out(c)] /\ A[Out(c)] = V(A, Out(c))
    BY <1>0, <1>3, <1>4, <1>5, <2>1
  <2>3. \E u \in ToSet(ins[c]) : A[u]
    BY <2>1, <2>2 DEF V
  <2> QED BY <1>4, <2>3
<1> QED BY <1>4, <1>5

-----------------------------------------------------------------------------
(* Planning one group of commands.                                          *)

\* Users of the plan's memory: tensors, and the commands' own use.
Users == 1 .. NumInputs + 2 * NumCommands
Own(c) == NumInputs + NumCommands + c

\* When a user starts to write; who must not write while a tensor is alive.
StartsAt(u) == IF u \in Tensors THEN Born(u) ELSE u - (NumInputs + NumCommands)
Clash == {x \in Users \X Users : x[1] # x[2] /\ x[1] \in Tensors /\ AliveAt(x[1], StartsAt(x[2]))}

NodeOf(q) == [u \in Users |-> IF u \in Tensors THEN q.place[u]
                              ELSE q.scratchAt[u - (NumInputs + NumCommands)]]
Need(q) == [u \in Users |-> IF u \in Tensors THEN Size(q, u)
                            ELSE net.scratch[u - (NumInputs + NumCommands)]]

\* Who has got memory in buffer g, and who still has it.
Given(q, g) == {t \in Tensors : q.group[t] = g /\ q.place[t] # 0}
               \cup {Own(c) : c \in {d \in Commands : Group(q, d) = g /\ q.scratchAt[d] # 0}}
Holding(q, g) == {t \in Tensors : q.group[t] = g /\ q.mem[t] > 0}

\* All reads, and those of one tensor among some.
AllReads == {r \in Commands \X (1..2) : r[2] \in DOMAIN net.ins[r[1]]}
OfTensor(L, t) == {r \in L : net.ins[r[1]][r[2]] = t}

PStates == [heap : [0..1 -> Heaps], mem : [Tensors -> Nodes \cup {None, Static, Gone}],
            use : [Tensors -> 0..2 * NumCommands], group : [Tensors -> -1..1],
            fixed : SUBSET Commands, shape : Shapes, place : [Tensors -> 0..MaxAllocs],
            scratchAt : [Commands -> 0..MaxAllocs],
            code : {"NOT_PLANNED", "NO_ERROR", "OP_FAILED", "COMPUTE_SIZE_ERROR", "INVALID_VALUE"},
            unknown : BOOLEAN]

\* No object refers to a heap that is gone, and none ever did.
Clean(q) == ~q.unknown /\ \A t \in Tensors : q.mem[t] # Gone

\* What planning group g leaves as it was in b.
Framed(b, q, g) ==
    /\ q.group = b.group /\ q.fixed = b.fixed /\ q.shape = b.shape
    /\ \A h \in 0..1 : h # g => q.heap[h] = b.heap[h]
    /\ \A t \in Tensors : b.group[t] # g => q.place[t] = b.place[t]
    /\ \A c \in Commands : Group(b, c) # g => q.scratchAt[c] = b.scratchAt[c]
    /\ Clean(b) => Clean(q)

\* A tensor whose memory is a node holds its place; only an input can be left
\* without one, when it still refers to memory of an earlier plan.
TensorOK(q, g, A, t) ==
    /\ q.mem[t] = Static => StorageType(t) = "STATIC"
    /\ q.mem[t] = Gone => t \in Inputs
    /\ q.group[t] # g => q.mem[t] \in {None, Static}
    /\ q.group[t] = g =>
         /\ q.mem[t] > 0 => q.mem[t] = q.place[t]
         /\ t \in Inputs => q.mem[t] = None \/ q.use[t] > 0
         /\ t \notin A \/ StorageType(t) = "STATIC" => q.place[t] = 0
         /\ t \in A /\ StorageType(t) # "STATIC" =>
              q.place[t] # 0 \/ (t \in Inputs /\ (q.mem[t] = Gone \/ (q.unknown /\ q.use[t] = 0)))

\* The memory of buffer g, while its group is planned from b on.
Booked(b, q, g) ==
    /\ q \in PStates /\ Framed(b, q, g)
    /\ Roomy(q.heap[g], NodeOf(q), Need(q), Given(q, g), Holding(q, g), Clash)
    /\ q.heap[g].chunks <= Cardinality(Given(q, g))

\* Group g is planned from b on: the tensors A have been looked at, the commands
\* S have got their own memory, and the reads L are still to come.
Underway(b, q, g, A, S, L) ==
    /\ Booked(b, q, g)
    /\ \A t \in Tensors : q.use[t] = Cardinality(OfTensor(L, t))
    /\ \A c \in Commands : Group(q, c) = g => (q.scratchAt[c] # 0 <=> c \in S /\ net.scratch[c] > 0)
    /\ \A t \in Tensors : TensorOK(q, g, A, t)

\* What gave its memory back is not needed after command m.
Timely(q, g, m) ==
    \A t \in Tensors : q.group[t] = g /\ q.place[t] # 0 /\ ~(q.mem[t] > 0) =>
        q.use[t] = 0 /\ t \notin net.outputs /\ Dies(t) <= m

\* Users are tensors and commands.
LEMMA UsersAre ==
  /\ \A t \in Tensors : t \in Users /\ StartsAt(t) = Born(t)
  /\ \A c \in Commands : Own(c) \in Users /\ Own(c) \notin Tensors /\ StartsAt(Own(c)) = c
                         /\ Own(c) - (NumInputs + NumCommands) = c
  /\ \A c, d \in Commands : Own(c) = Own(d) => c = d
  /\ \A u \in Users : u \in Tensors \/ \E c \in Commands : u = Own(c)
  /\ IsFiniteSet(Users) /\ Cardinality(Users) = NumInputs + 2 * NumCommands
  /\ NumInputs + 2 * NumCommands \in Nat /\ NumInputs + 2 * NumCommands <= MaxAllocs /\ MaxAllocs \in Nat
<1>1. NumInputs \in Nat \ {0} /\ NumCommands \in Nat \ {0} /\ MaxAllocs \in Nat /\ MaxAllocs >= NumInputs + 2 * NumCommands
  BY PipelineAssumption, HeapAssumption
<1>2. \A t \in Tensors : t \in Users
  BY <1>1 DEF Tensors, Users
<1>3. \A c \in Commands : Own(c) \in Users /\ Own(c) \notin Tensors /\ Own(c) - (NumInputs + NumCommands) = c
  BY <1>1 DEF Commands, Users, Tensors, Own
<1>4. \A c, d \in Commands : Own(c) = Own(d) => c = d
  BY <1>1 DEF Commands, Own
<1>5. ASSUME NEW u \in Users, u \notin Tensors PROVE \E c \in Commands : u = Own(c)
  <2>1. u - (NumInputs + NumCommands) \in Commands /\ u = Own(u - (NumInputs + NumCommands))
    BY <1>1, <1>5 DEF Users, Tensors, Commands, Own
  <2> QED BY <2>1
<1>6. IsFiniteSet(Users) /\ Cardinality(Users) = NumInputs + 2 * NumCommands
  <2> DEFINE n == NumInputs + 2 * NumCommands
  <2>1. n \in Nat /\ n >= 1 /\ Users = 1..n
    BY <1>1 DEF Users
  <2> HIDE DEF n
  <2>2. 1 \in Int /\ n \in Int /\ ~(1 > n) /\ n - 1 + 1 = n
    BY <2>1
  <2>3. IsFiniteSet(1..n) /\ Cardinality(1..n) = n
    BY <2>2, FS_Interval
  <2> QED BY <2>1, <2>3 DEF n
<1>7. \A c \in Commands : StartsAt(Own(c)) = c
  BY <1>3 DEF StartsAt
<1> QED BY <1>1, <1>2, <1>3, <1>4, <1>5, <1>6, <1>7 DEF StartsAt

\* The node and the need of a user.
LEMMA UserIs ==
  ASSUME NEW q
  PROVE  /\ \A t \in Tensors : NodeOf(q)[t] = q.place[t] /\ Need(q)[t] = Size(q, t)
         /\ \A c \in Commands : NodeOf(q)[Own(c)] = q.scratchAt[c] /\ Need(q)[Own(c)] = net.scratch[c]
BY UsersAre DEF NodeOf, Need

\* Who was given memory is a user, and which one.
LEMMA GivenIs ==
  ASSUME NEW q, NEW g
  PROVE  /\ Given(q, g) \subseteq Users
         /\ \A t \in Tensors : t \in Given(q, g) <=> q.group[t] = g /\ q.place[t] # 0
         /\ \A c \in Commands : Own(c) \in Given(q, g) <=> Group(q, c) = g /\ q.scratchAt[c] # 0
         /\ \A u \in Given(q, g) : (u \in Tensors /\ q.group[u] = g /\ q.place[u] # 0)
              \/ \E c \in Commands : u = Own(c) /\ Group(q, c) = g /\ q.scratchAt[c] # 0
BY UsersAre DEF Given

\* What a user needs is a number.
LEMMA NeedIs ==
  ASSUME NetOK, NEW q, q.shape \in Shapes
  PROVE  /\ \A t \in Tensors : Size(q, t) \in Nat
         /\ \A u \in Users : Need(q)[u] \in Nat
<1>1. \A x, y \in Nat : x * y \in Nat
  OBVIOUS
<1>2. q.shape \in Nat /\ 1 \in Nat
  BY PipelineAssumption
<1>3. ASSUME NEW t \in Tensors PROVE Size(q, t) \in Nat
  <2>1. net.weight[t] \in Nat
    BY DEF NetOK
  <2>2. (IF t \in net.varies THEN q.shape ELSE 1) \in Nat
    BY <1>2
  <2> QED BY <1>1, <2>1, <2>2 DEF Size
<1>4. ASSUME NEW u \in Users PROVE Need(q)[u] \in Nat
  <2>1. CASE u \in Tensors
    BY <1>3, <2>1, UserIs
  <2>2. CASE u \notin Tensors
    <3>1. PICK c \in Commands : u = Own(c)
      BY <2>2, UsersAre
    <3>2. Need(q)[Own(c)] = net.scratch[c]
      BY UserIs
    <3>3. net.scratch[c] \in Nat
      BY DEF NetOK
    <3> QED BY <3>1, <3>2, <3>3
  <2> QED BY <2>1, <2>2
<1> QED BY <1>3, <1>4

\* There is a node left for everybody.
LEMMA RoomLeft ==
  ASSUME NEW q, NEW g, NEW u \in Users, u \notin Given(q, g)
  PROVE  /\ IsFiniteSet(Given(q, g)) /\ Cardinality(Given(q, g)) \in Nat
         /\ Cardinality(Given(q, g)) < MaxAllocs
         /\ Cardinality(Given(q, g) \cup {u}) = Cardinality(Given(q, g)) + 1
<1>1. Given(q, g) \subseteq Users
  BY GivenIs
<1>2. IsFiniteSet(Users) /\ Cardinality(Users) <= MaxAllocs /\ MaxAllocs \in Nat /\ Cardinality(Users) \in Nat
  BY UsersAre
<1>3. IsFiniteSet(Given(q, g)) /\ Cardinality(Given(q, g)) \in Nat
  BY <1>1, <1>2, FS_Subset, FS_CardinalityType
<1>4. Cardinality(Given(q, g) \cup {u}) = Cardinality(Given(q, g)) + 1 /\ IsFiniteSet(Given(q, g) \cup {u})
  BY <1>3, FS_AddElement
<1>5. Cardinality(Given(q, g) \cup {u}) <= Cardinality(Users)
  <2>1. Given(q, g) \cup {u} \subseteq Users
    BY <1>1
  <2> QED BY <1>2, <2>1, FS_Subset
<1> QED BY <1>2, <1>3, <1>4, <1>5

\* Reads are counted.
LEMMA ReadsAre ==
  ASSUME NetOK
  PROVE  /\ IsFiniteSet(AllReads)
         /\ \A r \in AllReads : r[1] \in Commands /\ r[2] \in DOMAIN net.ins[r[1]] /\ r = <<r[1], r[2]>>
                                /\ net.ins[r[1]][r[2]] \in Tensors
         /\ \A c \in Commands : \A i \in DOMAIN net.ins[c] : <<c, i>> \in AllReads
         /\ \A L \in SUBSET AllReads, t \in Tensors :
              IsFiniteSet(OfTensor(L, t)) /\ Cardinality(OfTensor(L, t)) \in 0..2 * NumCommands
<1>1. IsFiniteSet(Commands) /\ Cardinality(Commands) = NumCommands /\ NumCommands \in Nat
  <2>1. NumCommands \in Nat /\ NumCommands >= 1
    BY PipelineAssumption
  <2>2. 1 \in Int /\ NumCommands \in Int /\ ~(1 > NumCommands) /\ NumCommands - 1 + 1 = NumCommands
    BY <2>1
  <2> QED BY <2>1, <2>2, FS_Interval DEF Commands
<1>2. IsFiniteSet(1..2) /\ Cardinality(1..2) = 2
  <2>1. 1 \in Int /\ 2 \in Int /\ ~(1 > 2) /\ 2 - 1 + 1 = 2
    OBVIOUS
  <2> QED BY <2>1, FS_Interval
<1>3. IsFiniteSet(Commands \X (1..2)) /\ Cardinality(Commands \X (1..2)) = NumCommands * 2
  BY <1>1, <1>2, FS_Product
<1>4. \A r \in AllReads : r \in Commands \X (1..2) /\ r[2] \in DOMAIN net.ins[r[1]]
  BY DEF AllReads
<1>5. ASSUME NEW c \in Commands, NEW i \in DOMAIN net.ins[c] PROVE <<c, i>> \in AllReads /\ net.ins[c][i] \in Tensors
  <2>1. i \in 1..2
    <3>1. Len(net.ins[c]) \in {1, 2} /\ DOMAIN net.ins[c] = 1..Len(net.ins[c])
      BY InputsOf DEF NetOK
    <3>2. \A k \in {1, 2} : \A j \in 1..k : j \in 1..2
      OBVIOUS
    <3> QED BY <3>1, <3>2
  <2>2. net.ins[c][i] \in Tensors
    BY InputsOf
  <2> QED BY <2>1, <2>2 DEF AllReads
<1>6. ASSUME NEW L \in SUBSET AllReads, NEW t \in Tensors
      PROVE  IsFiniteSet(OfTensor(L, t)) /\ Cardinality(OfTensor(L, t)) \in 0..2 * NumCommands
  <2>1. OfTensor(L, t) \subseteq Commands \X (1..2)
    BY <1>4 DEF OfTensor
  <2>2. IsFiniteSet(OfTensor(L, t)) /\ Cardinality(OfTensor(L, t)) <= NumCommands * 2
    BY <1>3, <2>1, FS_Subset
  <2>3. Cardinality(OfTensor(L, t)) \in Nat
    BY <2>2, FS_CardinalityType
  <2> QED BY <1>1, <2>2, <2>3
<1>7. IsFiniteSet(AllReads)
  <2>1. AllReads \subseteq Commands \X (1..2)
    BY <1>4
  <2> QED BY <1>3, <2>1, FS_Subset
<1>8. \A r \in AllReads : r[1] \in Commands /\ r[2] \in DOMAIN net.ins[r[1]] /\ r = <<r[1], r[2]>>
  BY <1>4
<1> QED BY <1>5, <1>6, <1>7, <1>8

\* Who is read again has a read left; after that there is one less.
LEMMA ReadOff ==
  ASSUME NetOK, NEW L \in SUBSET AllReads, NEW r \in L
  PROVE  LET t == net.ins[r[1]][r[2]]
         IN  /\ t \in Tensors /\ Cardinality(OfTensor(L, t)) > 0
             /\ Cardinality(OfTensor(L \ {r}, t)) = Cardinality(OfTensor(L, t)) - 1
             /\ \A u \in Tensors : u # t => OfTensor(L \ {r}, u) = OfTensor(L, u)
<1> DEFINE t == net.ins[r[1]][r[2]]
<1>1. t \in Tensors
  BY ReadsAre
<1>2. IsFiniteSet(OfTensor(L, t)) /\ Cardinality(OfTensor(L, t)) \in Nat
  BY <1>1, ReadsAre, FS_CardinalityType
<1>3. r \in OfTensor(L, t) /\ OfTensor(L \ {r}, t) = OfTensor(L, t) \ {r}
  BY DEF OfTensor
<1>4. Cardinality(OfTensor(L, t)) # 0
  BY <1>2, <1>3, FS_EmptySet
<1>5. Cardinality(OfTensor(L, t) \ {r}) = Cardinality(OfTensor(L, t)) - 1
  BY <1>2, <1>3, FS_RemoveElement
<1>6. \A u \in Tensors : u # t => OfTensor(L \ {r}, u) = OfTensor(L, u)
  BY DEF OfTensor
<1>7. Cardinality(OfTensor(L, t)) > 0
  BY <1>2, <1>4
<1>8. Cardinality(OfTensor(L \ {r}, t)) = Cardinality(OfTensor(L, t)) - 1
  BY <1>3, <1>5
<1> QED BY <1>1, <1>6, <1>7, <1>8

\* A tensor without a use has no read among those that are left.
LEMMA NoReads ==
  ASSUME NetOK, NEW L \in SUBSET AllReads, NEW t \in Tensors, Cardinality(OfTensor(L, t)) = 0,
         NEW r \in L
  PROVE  net.ins[r[1]][r[2]] # t
<1>1. IsFiniteSet(OfTensor(L, t))
  BY ReadsAre
<1>2. OfTensor(L, t) = {}
  BY <1>1, FS_EmptySet
<1> QED BY <1>2 DEF OfTensor

-----------------------------------------------------------------------------
(* The steps of a plan.                                                     *)

\* What a tensor is for decides about its memory.
LEMMA StorageIs ==
  ASSUME NetOK, NEW t \in Tensors
  PROVE  /\ t \in Inputs => Usage(t) = "INPUT" /\ StorageType(t) = "DYNAMIC_SEPERATE" /\ t \notin net.outputs
         /\ t \notin Inputs => StorageType(t) \in {"STATIC", "DYNAMIC"}
         /\ Usage(t) # "OUTPUT" <=> t \notin net.outputs
         /\ Usage(t) = "OUTPUT" \/ Usage(t) = "NORMAL" \/ Usage(t) = "INPUT"
         /\ StorageType(t) = "STATIC" => t \notin Inputs
<1>1. t \in Inputs => t \notin net.outputs
  BY Numbers DEF NetOK
<1>2. /\ t \in Inputs => Usage(t) = "INPUT"
      /\ t \notin Inputs => Usage(t) = IF t \in net.outputs THEN "OUTPUT" ELSE "NORMAL"
  BY DEF Usage
<1> QED BY <1>1, <1>2 DEF StorageType

\* The same places are the same plan.
LEMMA SamePlan ==
  ASSUME NEW q, NEW r, r.place = q.place, r.scratchAt = q.scratchAt, r.group = q.group, r.fixed = q.fixed,
         r.shape = q.shape, NEW g
  PROVE  NodeOf(r) = NodeOf(q) /\ Need(r) = Need(q) /\ Given(r, g) = Given(q, g)
BY DEF NodeOf, Need, Given, Size, Group

\* Nothing but memory objects and counts has changed.
LEMMA BookedSame ==
  ASSUME NEW b, NEW q, NEW g \in 0..1, Booked(b, q, g), NEW r \in PStates, r.heap = q.heap, r.place = q.place,
         r.scratchAt = q.scratchAt, r.group = q.group, r.fixed = q.fixed, r.shape = q.shape,
         Holding(r, g) = Holding(q, g), Clean(q) => Clean(r)
  PROVE  Booked(b, r, g)
<1>1. NodeOf(r) = NodeOf(q) /\ Need(r) = Need(q) /\ Given(r, g) = Given(q, g)
  BY SamePlan
<1>2. Framed(b, r, g)
  BY DEF Booked, Framed
<1> QED BY <1>1, <1>2 DEF Booked

\* A tensor gives its node back.
LEMMA BookedLess ==
  ASSUME NEW b, NEW q, NEW g \in 0..1, Booked(b, q, g), NEW t \in Holding(q, g), q.mem[t] = q.place[t]
  PROVE  Booked(b, [q EXCEPT !.mem[t] = None, !.heap[g] = FreeNode(q.heap[g], q.mem[t])], g)
<1> DEFINE r == [q EXCEPT !.mem[t] = None, !.heap[g] = FreeNode(q.heap[g], q.mem[t])]
<1>1. q \in PStates /\ Framed(b, q, g) /\ t \in Tensors
  BY DEF Booked, Holding
<1>2. r.mem = [q.mem EXCEPT ![t] = None] /\ r.heap = [q.heap EXCEPT ![g] = FreeNode(q.heap[g], q.mem[t])]
      /\ r.use = q.use /\ r.group = q.group /\ r.fixed = q.fixed /\ r.shape = q.shape /\ r.place = q.place
      /\ r.scratchAt = q.scratchAt /\ r.code = q.code /\ r.unknown = q.unknown
  BY <1>1 DEF PStates
<1>14. r = [q EXCEPT !.mem = r.mem, !.heap = r.heap]
  BY <1>1 DEF PStates
<1> HIDE DEF r
<1>3. NodeOf(r) = NodeOf(q) /\ Need(r) = Need(q) /\ Given(r, g) = Given(q, g)
  BY <1>2, SamePlan
<1>4. q.mem \in [Tensors -> Nodes \cup {None, Static, Gone}] /\ q.heap \in [0..1 -> Heaps]
  BY <1>1 DEF PStates
<1>5. Holding(r, g) = Holding(q, g) \ {t}
  BY <1>1, <1>2, <1>4 DEF Holding, None
<1>6. NodeOf(q)[t] = q.mem[t]
  BY <1>1, UserIs
<1>7. LET f == FreeNode(q.heap[g], NodeOf(q)[t])
      IN  Roomy(f, NodeOf(q), Need(q), Given(q, g), Holding(q, g) \ {t}, Clash) /\ f.chunks = q.heap[g].chunks
  BY UserGone DEF Booked
<1> DEFINE f == FreeNode(q.heap[g], q.mem[t])
<1>8. Roomy(f, NodeOf(q), Need(q), Given(q, g), Holding(q, g) \ {t}, Clash) /\ f.chunks = q.heap[g].chunks
  BY <1>6, <1>7
<1>9. f \in Heaps
  BY <1>8 DEF Roomy, HeapOK, ListOf
<1>10. r.heap[g] = f /\ r.heap \in [0..1 -> Heaps] /\ \A h \in 0..1 : h # g => r.heap[h] = q.heap[h]
  <2>1. r.heap = [q.heap EXCEPT ![g] = f]
    BY <1>2
  <2> HIDE DEF f
  <2> QED BY <1>4, <1>9, <2>1
<1> HIDE DEF f
<1>11. r \in PStates
  <2>1. r.mem \in [Tensors -> Nodes \cup {None, Static, Gone}]
    BY <1>2, <1>4
  <2> QED BY <1>1, <1>14, <1>10, <2>1 DEF PStates
<1>12. Framed(b, r, g)
  <2>1. Clean(q) => Clean(r)
    BY <1>1, <1>2, <1>4 DEF Clean, None, Gone
  <2> QED BY <1>1, <1>2, <1>10, <2>1 DEF Framed
<1>13. Booked(b, r, g)
  BY <1>3, <1>5, <1>8, <1>10, <1>11, <1>12 DEF Booked
<1> QED BY <1>13 DEF r

\* What u must not overlap still has its memory, or u asks for new one.
Undisturbed(q, g, u) ==
    \A v \in Given(q, g) : <<u, v>> \in Clash \/ <<v, u>> \in Clash =>
        v \in Holding(q, g) \/ (u \in Tensors /\ StorageType(u) = "DYNAMIC_SEPERATE")

\* A tensor gets a node.
LEMMA BookedTensor ==
  ASSUME NetOK, NEW b, NEW q, NEW g \in 0..1, Booked(b, q, g), NEW t \in Tensors, q.group[t] = g,
         q.mem[t] = None, q.place[t] = 0, StorageType(t) # "STATIC",
         Undisturbed(q, g, t)
  PROVE  \E n \in Nodes : LET r == AllocTensor(q, t, g)
         IN  /\ Booked(b, r, g) /\ r.mem[t] = n /\ r.place[t] = n
             /\ \A u \in Tensors : u # t => r.mem[u] = q.mem[u] /\ r.place[u] = q.place[u]
             /\ r.use = q.use /\ r.group = q.group /\ r.fixed = q.fixed /\ r.code = q.code
             /\ r.scratchAt = q.scratchAt /\ r.unknown = q.unknown
<1> DEFINE sep == StorageType(t) = "DYNAMIC_SEPERATE"
           a == AllocNode(q.heap[g], Size(q, t), sep)
           h == a.heap
           n == a.node
           r == [q EXCEPT !.heap[g] = h, !.mem[t] = n, !.place[t] = n]
           D == Given(q, g)
           H == Holding(q, g)
<1>1. q \in PStates /\ Framed(b, q, g) /\ q.heap[g].chunks <= Cardinality(D) /\ q.shape \in Shapes
      /\ Roomy(q.heap[g], NodeOf(q), Need(q), D, H, Clash)
  BY DEF Booked, PStates
<1>2. r.mem = [q.mem EXCEPT ![t] = n] /\ r.heap = [q.heap EXCEPT ![g] = h]
      /\ r.use = q.use /\ r.group = q.group /\ r.fixed = q.fixed /\ r.shape = q.shape
      /\ r.place = [q.place EXCEPT ![t] = n]
      /\ r.scratchAt = q.scratchAt /\ r.code = q.code /\ r.unknown = q.unknown
  BY <1>1 DEF PStates
<1>3. r = [q EXCEPT !.mem = r.mem, !.heap = r.heap, !.place = r.place]
  BY <1>1 DEF PStates
<1> HIDE DEF r
<1>4. /\ q.mem \in [Tensors -> Nodes \cup {None, Static, Gone}] /\ q.heap \in [0..1 -> Heaps]
      /\ q.place \in [Tensors -> 0..MaxAllocs]
  BY <1>1 DEF PStates
<1>5. t \in Users /\ t \notin D /\ Need(q)[t] = Size(q, t) /\ Size(q, t) \in Nat /\ <<t, t>> \notin Clash
  <2>1. t \in Users /\ Need(q)[t] = Size(q, t)
    BY UsersAre, UserIs
  <2>2. t \notin D
    BY GivenIs
  <2>3. Size(q, t) \in Nat
    BY <1>1, NeedIs
  <2> QED BY <2>1, <2>2, <2>3 DEF Clash
<1>6. /\ IsFiniteSet(D) /\ Cardinality(D) \in Nat /\ Cardinality(D) < MaxAllocs
      /\ Cardinality(D \cup {t}) = Cardinality(D) + 1
  BY <1>5, RoomLeft
<1>7. q.heap[g].chunks \in Nat /\ q.heap[g].chunks < MaxAllocs
  <2>1. q.heap[g].chunks \in Nat
    BY <1>4, HeapAssumption DEF Heaps
  <2> QED BY <1>1, <1>6, <2>1, HeapAssumption
<1>8. \A v \in D : NodeOf(r)[v] = NodeOf(q)[v]
  <2> SUFFICES ASSUME NEW v \in D PROVE NodeOf(r)[v] = NodeOf(q)[v]
    OBVIOUS
  <2>1. CASE v \in Tensors
    <3>1. NodeOf(r)[v] = r.place[v] /\ NodeOf(q)[v] = q.place[v] /\ v # t
      BY <1>5, <2>1, UserIs
    <3> QED BY <1>2, <1>4, <2>1, <3>1
  <2>2. CASE v \notin Tensors
    <3>1. PICK d \in Commands : v = Own(d)
      BY <2>2, GivenIs
    <3>2. NodeOf(r)[Own(d)] = r.scratchAt[d] /\ NodeOf(q)[Own(d)] = q.scratchAt[d]
      BY UserIs
    <3> QED BY <1>2, <3>1, <3>2
  <2> QED BY <2>1, <2>2
<1>9. NodeOf(r)[t] = n
  <2>1. NodeOf(r)[t] = r.place[t]
    BY UserIs
  <2> QED BY <1>2, <1>4, <2>1
<1>10. /\ Roomy(h, NodeOf(r), Need(q), D \cup {t}, H \cup {t}, Clash)
       /\ n \in Nodes /\ h.chunks \in {q.heap[g].chunks, q.heap[g].chunks + 1} /\ h.chunks \in Nat
  <2> DEFINE at == NodeOf(q)
             need == Need(q)
             to == NodeOf(r)
             K == Clash
             old == q.heap[g]
  <2>1. Roomy(old, at, need, D, H, K) /\ old.chunks < MaxAllocs
    BY <1>1, <1>7
  <2>2. t \notin D /\ need[t] \in Nat /\ <<t, t>> \notin K
    BY <1>5
  <2>3. \A v \in D : <<t, v>> \in K \/ <<v, t>> \in K => v \in H \/ sep = TRUE
    BY DEF Undisturbed
  <2>8. sep \in BOOLEAN
    OBVIOUS
  <2>4. to[t] = AllocNode(old, need[t], sep).node /\ \A v \in D : to[v] = at[v]
    BY <1>5, <1>8, <1>9
  <2>5. h = AllocNode(old, need[t], sep).heap /\ n = AllocNode(old, need[t], sep).node
    BY <1>5
  <2> HIDE DEF at, need, to, K, old, D, H, h, n, a, sep
  <2>6. LET x == AllocNode(old, need[t], sep)
        IN  /\ Roomy(x.heap, to, need, D \cup {t}, H \cup {t}, K)
            /\ x.node \in Nodes /\ x.heap.chunks \in {old.chunks, old.chunks + 1} /\ x.heap.chunks \in Nat
    <3>1. Asks(old, at, need, D, H, K, t, sep, to)
      BY <2>1, <2>2, <2>3, <2>4, <2>8 DEF Asks
    <3> QED BY <3>1, UserAdded
  <2>7. /\ Roomy(h, to, need, D \cup {t}, H \cup {t}, K)
        /\ n \in Nodes /\ h.chunks \in {old.chunks, old.chunks + 1} /\ h.chunks \in Nat
    BY <2>5, <2>6
  <2> QED BY <2>7 DEF at, need, to, K, old
<1> HIDE DEF h, n, a
<1> HIDE DEF sep
<1>11. n \in Nat /\ n > 0 /\ n \in 0..MaxAllocs
  BY <1>10, HeapAssumption DEF Nodes
<1>12. h \in Heaps
  BY <1>10 DEF Roomy, HeapOK, ListOf
<1>13. Need(r) = Need(q)
  BY <1>2 DEF Need, Size
<1>14. Holding(r, g) = H \cup {t}
  <2>1. \A u \in Tensors : u # t => r.mem[u] = q.mem[u]
    BY <1>2, <1>4
  <2>2. r.mem[t] = n
    BY <1>2, <1>4
  <2> QED BY <1>2, <1>11, <2>1, <2>2 DEF Holding
<1>15. Given(r, g) = D \cup {t}
  <2>1. \A u \in Tensors : u # t => r.place[u] = q.place[u]
    BY <1>2, <1>4
  <2>2. r.place[t] = n
    BY <1>2, <1>4
  <2>3. \A c \in Commands : Group(r, c) = Group(q, c) /\ r.scratchAt[c] = q.scratchAt[c]
    BY <1>2 DEF Group
  <2> QED BY <1>2, <1>11, <2>1, <2>2, <2>3 DEF Given
<1>16. r.heap[g] = h /\ r.heap \in [0..1 -> Heaps] /\ \A x \in 0..1 : x # g => r.heap[x] = q.heap[x]
  BY <1>2, <1>4, <1>12
<1>17. r \in PStates
  <2>1. r.mem \in [Tensors -> Nodes \cup {None, Static, Gone}] /\ r.place \in [Tensors -> 0..MaxAllocs]
    BY <1>2, <1>4, <1>10, <1>11
  <2> QED BY <1>1, <1>3, <1>16, <2>1 DEF PStates
<1>18. Framed(b, r, g)
  <2>1. Clean(q) => Clean(r)
    BY <1>2, <1>4, <1>11 DEF Clean, Gone
  <2>2. \A u \in Tensors : b.group[u] # g => r.place[u] = q.place[u]
    BY <1>1, <1>2, <1>4 DEF Framed
  <2> QED BY <1>1, <1>2, <1>16, <2>1, <2>2 DEF Framed
<1>19. h.chunks <= Cardinality(D \cup {t})
  BY <1>1, <1>6, <1>7, <1>10
<1>20. Booked(b, r, g)
  BY <1>10, <1>13, <1>14, <1>15, <1>16, <1>17, <1>18, <1>19 DEF Booked
<1>21. AllocTensor(q, t, g) = r
  BY DEF AllocTensor, r, h, n, a, sep
<1>22. /\ r.mem[t] = n /\ r.place[t] = n
       /\ \A u \in Tensors : u # t => r.mem[u] = q.mem[u] /\ r.place[u] = q.place[u]
  BY <1>2, <1>4
<1> QED BY <1>2, <1>10, <1>20, <1>21, <1>22

\* A command gets memory for itself and gives it back.
LEMMA BookedOwn ==
  ASSUME NetOK, NEW b, NEW q, NEW g \in 0..1, Booked(b, q, g), NEW c \in Commands, Group(q, c) = g,
         q.scratchAt[c] = 0, net.scratch[c] # 0,
         Undisturbed(q, g, Own(c))
  PROVE  \E n \in Nodes : LET r == OnResize(q, c, g)
         IN  /\ Booked(b, r, g) /\ r.scratchAt[c] = n
             /\ \A d \in Commands : d # c => r.scratchAt[d] = q.scratchAt[d]
             /\ r.mem = q.mem /\ r.use = q.use /\ r.group = q.group /\ r.fixed = q.fixed /\ r.code = q.code
             /\ r.place = q.place /\ r.unknown = q.unknown
<1> DEFINE a == AllocNode(q.heap[g], net.scratch[c], FALSE)
           n == a.node
           h == FreeNode(a.heap, n)
           r == [q EXCEPT !.heap[g] = h, !.scratchAt[c] = n]
           u == Own(c)
           D == Given(q, g)
           H == Holding(q, g)
<1>1. q \in PStates /\ Framed(b, q, g) /\ q.heap[g].chunks <= Cardinality(D) /\ q.shape \in Shapes
      /\ Roomy(q.heap[g], NodeOf(q), Need(q), D, H, Clash)
  BY DEF Booked, PStates
<1>2. r.mem = q.mem /\ r.heap = [q.heap EXCEPT ![g] = h]
      /\ r.use = q.use /\ r.group = q.group /\ r.fixed = q.fixed /\ r.shape = q.shape /\ r.place = q.place
      /\ r.scratchAt = [q.scratchAt EXCEPT ![c] = n] /\ r.code = q.code /\ r.unknown = q.unknown
  BY <1>1 DEF PStates
<1>3. r = [q EXCEPT !.heap = r.heap, !.scratchAt = r.scratchAt]
  BY <1>1 DEF PStates
<1> HIDE DEF r
<1>4. q.heap \in [0..1 -> Heaps] /\ q.scratchAt \in [Commands -> 0..MaxAllocs]
  BY <1>1 DEF PStates
<1>5. u \in Users /\ u \notin Tensors /\ u \notin D /\ Need(q)[u] = net.scratch[c] /\ Need(q)[u] \in Nat /\ <<u, u>> \notin Clash
  <2>1. u \in Users /\ u \notin Tensors /\ Need(q)[u] = net.scratch[c]
    BY UsersAre, UserIs
  <2>2. u \notin D
    BY GivenIs
  <2>3. Need(q)[u] \in Nat
    BY <2>1 DEF NetOK
  <2> QED BY <2>1, <2>2, <2>3 DEF Clash
<1>6. /\ IsFiniteSet(D) /\ Cardinality(D) \in Nat /\ Cardinality(D) < MaxAllocs
      /\ Cardinality(D \cup {u}) = Cardinality(D) + 1
  BY <1>5, RoomLeft
<1>7. q.heap[g].chunks \in Nat /\ q.heap[g].chunks < MaxAllocs
  <2>1. q.heap[g].chunks \in Nat
    BY <1>4, HeapAssumption DEF Heaps
  <2> QED BY <1>1, <1>6, <2>1, HeapAssumption
<1>8. \A v \in D : NodeOf(r)[v] = NodeOf(q)[v]
  <2> SUFFICES ASSUME NEW v \in D PROVE NodeOf(r)[v] = NodeOf(q)[v]
    OBVIOUS
  <2>1. CASE v \in Tensors
    <3>1. NodeOf(r)[v] = r.place[v] /\ NodeOf(q)[v] = q.place[v]
      BY <2>1, UserIs
    <3> QED BY <1>2, <3>1
  <2>2. CASE v \notin Tensors
    <3>1. PICK d \in Commands : v = Own(d) /\ q.scratchAt[d] # 0
      BY <2>2, GivenIs
    <3>2. d # c
      BY <3>1
    <3>3. NodeOf(r)[Own(d)] = r.scratchAt[d] /\ NodeOf(q)[Own(d)] = q.scratchAt[d]
      BY UserIs
    <3>4. r.scratchAt[d] = q.scratchAt[d]
      BY <1>2, <1>4, <3>2
    <3> QED BY <3>1, <3>3, <3>4
  <2> QED BY <2>1, <2>2
<1>9. NodeOf(r)[u] = n
  <2>1. NodeOf(r)[u] = r.scratchAt[c]
    BY UserIs
  <2> QED BY <1>2, <1>4, <2>1
<1>10. /\ Roomy(h, NodeOf(r), Need(q), D \cup {u}, H, Clash)
       /\ n \in Nodes /\ h.chunks \in {q.heap[g].chunks, q.heap[g].chunks + 1} /\ h.chunks \in Nat
  <2> DEFINE at == NodeOf(q)
             need == Need(q)
             to == NodeOf(r)
             K == Clash
             old == q.heap[g]
             x == AllocNode(old, need[u], FALSE)
  <2>1. Roomy(old, at, need, D, H, K) /\ old.chunks < MaxAllocs
    BY <1>1, <1>7
  <2>2. u \notin D /\ need[u] \in Nat /\ <<u, u>> \notin K /\ H \subseteq Tensors /\ u \notin Tensors
    BY <1>5 DEF Holding
  <2>3. \A v \in D : <<u, v>> \in K \/ <<v, u>> \in K => v \in H
    BY <1>5 DEF Undisturbed
  <2>4. to[u] = AllocNode(old, need[u], FALSE).node /\ \A v \in D : to[v] = at[v]
    BY <1>5, <1>8, <1>9
  <2>5. n = x.node /\ h = FreeNode(x.heap, to[u])
    BY <1>5, <1>9
  <2> HIDE DEF at, need, to, K, old, D, H, h, n, a, u
  <2>6. /\ Roomy(x.heap, to, need, D \cup {u}, H \cup {u}, K)
        /\ x.node \in Nodes /\ x.heap.chunks \in {old.chunks, old.chunks + 1} /\ x.heap.chunks \in Nat
    <3>1. Asks(old, at, need, D, H, K, u, FALSE, to)
      BY <2>1, <2>2, <2>3, <2>4 DEF Asks
    <3> QED BY <3>1, UserAdded
  <2> HIDE DEF x
  <2>7. Roomy(FreeNode(x.heap, to[u]), to, need, D \cup {u}, (H \cup {u}) \ {u}, K)
        /\ FreeNode(x.heap, to[u]).chunks = x.heap.chunks
    <3> DEFINE E == D \cup {u}
               G == H \cup {u}
               y == x.heap
    <3>1. u \in G /\ Roomy(y, to, need, E, G, K)
      BY <2>6
    <3> HIDE DEF E, G, y
    <3>2. Roomy(FreeNode(y, to[u]), to, need, E, G \ {u}, K) /\ FreeNode(y, to[u]).chunks = y.chunks
      BY <3>1, UserGone
    <3> QED BY <3>2 DEF E, G, y
  <2>8. (H \cup {u}) \ {u} = H
    BY <2>2
  <2>9. /\ Roomy(h, to, need, D \cup {u}, H, K)
        /\ n \in Nodes /\ h.chunks \in {old.chunks, old.chunks + 1} /\ h.chunks \in Nat
    BY <2>5, <2>6, <2>7, <2>8
  <2> QED BY <2>9 DEF at, need, to, K, old
<1> HIDE DEF h, n, a
<1>11. n \in Nat /\ n > 0 /\ n \in 0..MaxAllocs
  BY <1>10, HeapAssumption DEF Nodes
<1>12. h \in Heaps
  BY <1>10 DEF Roomy, HeapOK, ListOf
<1>13. Need(r) = Need(q)
  BY <1>2 DEF Need, Size
<1>14. Holding(r, g) = H
  BY <1>2 DEF Holding
<1>15. Given(r, g) = D \cup {u}
  <2>1. \A d \in Commands : Group(r, d) = Group(q, d) /\ (d # c => r.scratchAt[d] = q.scratchAt[d])
    BY <1>2, <1>4 DEF Group
  <2>2. r.scratchAt[c] = n
    BY <1>2, <1>4
  <2>3. {d \in Commands : Group(r, d) = g /\ r.scratchAt[d] # 0}
        = {d \in Commands : Group(q, d) = g /\ q.scratchAt[d] # 0} \cup {c}
    BY <1>11, <2>1, <2>2
  <2> QED BY <1>2, <2>3 DEF Given
<1>16. r.heap[g] = h /\ r.heap \in [0..1 -> Heaps] /\ \A x \in 0..1 : x # g => r.heap[x] = q.heap[x]
  BY <1>2, <1>4, <1>12
<1>17. r \in PStates
  <2>1. r.scratchAt \in [Commands -> 0..MaxAllocs]
    BY <1>2, <1>4, <1>11
  <2> QED BY <1>1, <1>3, <1>16, <2>1 DEF PStates
<1>18. Framed(b, r, g)
  <2>1. Clean(q) => Clean(r)
    BY <1>2 DEF Clean
  <2>2. \A d \in Commands : Group(b, d) # g => r.scratchAt[d] = q.scratchAt[d]
    <3>1. Group(b, c) = g
      BY <1>1 DEF Framed, Group
    <3> QED BY <1>2, <1>4, <3>1
  <2> QED BY <1>1, <1>2, <1>16, <2>1, <2>2 DEF Framed
<1>19. h.chunks <= Cardinality(D \cup {u})
  BY <1>1, <1>6, <1>7, <1>10
<1>20. Booked(b, r, g)
  BY <1>10, <1>13, <1>14, <1>15, <1>16, <1>17, <1>18, <1>19 DEF Booked
<1>21. OnResize(q, c, g) = r
  BY DEF OnResize, r, h, n, a
<1>22. r.scratchAt[c] = n /\ \A d \in Commands : d # c => r.scratchAt[d] = q.scratchAt[d]
  BY <1>2, <1>4
<1> QED BY <1>2, <1>10, <1>20, <1>21, <1>22

\* A tensor that is seen for the first time gets its memory, at a point where
\* nothing has memory yet that is born with it or later.
MayAlloc(b, q, g, A, S, L, m, t) ==
    /\ Underway(b, q, g, A, S, L) /\ Timely(q, g, m) /\ m \in Nat /\ t \in Tensors
    /\ t \in A \/ t \in Inputs => q.use[t] > 0
    /\ t \notin A /\ t \notin Inputs =>
         m < Born(t) /\ (\A v \in A : Born(v) < Born(t)) /\ (\A d \in S : d < Born(t))

HasMemory(b, q, g, A, S, L, m, t) ==
    LET r == AllocTensor(q, t, g)
    IN  Underway(b, r, g, A \cup {t}, S, L) /\ Timely(r, g, m) /\ r.code = q.code

LEMMA AllocOK ==
  ASSUME NetOK, NEW b, NEW q, NEW g \in 0..1, NEW A, NEW S, NEW L, NEW m, NEW t,
         MayAlloc(b, q, g, A, S, L, m, t)
  PROVE  HasMemory(b, q, g, A, S, L, m, t)
<1> SUFFICES LET r == AllocTensor(q, t, g)
             IN  Underway(b, r, g, A \cup {t}, S, L) /\ Timely(r, g, m) /\ r.code = q.code
  BY DEF HasMemory
<1> Underway(b, q, g, A, S, L) /\ Timely(q, g, m) /\ m \in Nat /\ t \in Tensors
  BY DEF MayAlloc
<1> /\ t \in A \/ t \in Inputs => q.use[t] > 0
    /\ t \notin A /\ t \notin Inputs =>
         m < Born(t) /\ (\A v \in A : Born(v) < Born(t)) /\ (\A d \in S : d < Born(t))
  BY DEF MayAlloc
<1> DEFINE r == AllocTensor(q, t, g)
<1>1. /\ Booked(b, q, g) /\ q \in PStates
      /\ \A u \in Tensors : q.use[u] = Cardinality(OfTensor(L, u))
      /\ \A c \in Commands : Group(q, c) = g => (q.scratchAt[c] # 0 <=> c \in S /\ net.scratch[c] > 0)
      /\ \A u \in Tensors : TensorOK(q, g, A, u)
  BY DEF Underway, Booked
<1>2. /\ q.mem \in [Tensors -> Nodes \cup {None, Static, Gone}]
      /\ q.place \in [Tensors -> 0..MaxAllocs] /\ q.heap \in [0..1 -> Heaps]
  BY <1>1 DEF PStates
<1>3. \A u \in Nodes : u > 0 /\ u \in Nat
  BY HeapAssumption DEF Nodes
<1>4. CASE q.group[t] # g \/ q.mem[t] # None
  <2>1. r = q
    BY <1>4 DEF AllocTensor
  <2>2. ASSUME NEW u \in Tensors PROVE TensorOK(q, g, A \cup {t}, u)
    <3>1. TensorOK(q, g, A, u)
      BY <1>1
    <3>2. CASE u # t
      BY <3>1, <3>2 DEF TensorOK
    <3>3. CASE u = t /\ (q.group[t] # g \/ t \in A)
      BY <3>1, <3>3 DEF TensorOK
    <3>4. CASE u = t /\ q.group[t] = g /\ t \notin A
      <4>1. q.place[t] = 0 /\ q.mem[t] # None
        BY <1>4, <3>1, <3>4 DEF TensorOK
      <4>2. ~(q.mem[t] > 0)
        BY <3>1, <3>4, <4>1 DEF TensorOK
      <4>3. q.mem[t] \in {Static, Gone}
        BY <1>2, <1>3, <4>1, <4>2
      <4> QED BY <3>1, <3>4, <4>1, <4>3 DEF TensorOK
    <3> QED BY <3>2, <3>3, <3>4
  <2>3. Underway(b, q, g, A \cup {t}, S, L)
    BY <1>1, <2>2 DEF Underway
  <2> HIDE DEF r
  <2>4. Underway(b, r, g, A \cup {t}, S, L) /\ Timely(r, g, m) /\ r.code = q.code
    BY <2>1, <2>3
  <2> QED BY <2>4 DEF r
<1>5. CASE q.group[t] = g /\ q.mem[t] = None /\ StorageType(t) = "STATIC"
  <2>1. r = [q EXCEPT !.mem[t] = Static]
    BY <1>5 DEF AllocTensor
  <2>2. r.mem = [q.mem EXCEPT ![t] = Static]
        /\ r.use = q.use /\ r.group = q.group /\ r.fixed = q.fixed /\ r.shape = q.shape /\ r.place = q.place
        /\ r.scratchAt = q.scratchAt /\ r.code = q.code /\ r.unknown = q.unknown /\ r.heap = q.heap
    BY <1>1, <2>1 DEF PStates
  <2>3. r = [q EXCEPT !.mem = r.mem]
    BY <1>1, <2>1 DEF PStates
  <2> HIDE DEF r
  <2>4. r.mem[t] = Static /\ \A u \in Tensors : u # t => r.mem[u] = q.mem[u]
    BY <1>2, <2>2
  <2>5. r \in PStates
    <3>1. r.mem \in [Tensors -> Nodes \cup {None, Static, Gone}]
      BY <1>2, <2>2
    <3> QED BY <1>1, <2>3, <3>1 DEF PStates
  <2>6. Holding(r, g) = Holding(q, g)
    BY <1>5, <2>2, <2>4 DEF Holding, None, Static
  <2>7. Clean(q) => Clean(r)
    BY <2>2, <2>4 DEF Clean, Static, Gone
  <2>8. Booked(b, r, g)
    BY <1>1, <2>2, <2>5, <2>6, <2>7, BookedSame
  <2>9. q.place[t] = 0 /\ t \notin Inputs
    <3>1. TensorOK(q, g, A, t)
      BY <1>1
    <3> QED BY <1>5, <3>1, StorageIs DEF TensorOK
  <2>10. ASSUME NEW u \in Tensors PROVE TensorOK(r, g, A \cup {t}, u)
    <3>1. TensorOK(q, g, A, u)
      BY <1>1
    <3>2. CASE u # t
      <4>1. r.mem[u] = q.mem[u]
        BY <2>4, <3>2
      <4> QED BY <2>2, <3>1, <3>2, <4>1 DEF TensorOK
    <3>3. CASE u = t
      BY <1>5, <2>2, <2>4, <2>9, <3>3 DEF TensorOK, Static, Gone, None
    <3> QED BY <3>2, <3>3
  <2>11. Underway(b, r, g, A \cup {t}, S, L)
    BY <1>1, <2>2, <2>8, <2>10 DEF Underway, Group
  <2>12. Timely(r, g, m)
    <3> SUFFICES ASSUME NEW u \in Tensors, r.group[u] = g, r.place[u] # 0, ~(r.mem[u] > 0)
                 PROVE  r.use[u] = 0 /\ u \notin net.outputs /\ Dies(u) <= m
      BY DEF Timely
    <3>1. u # t
      BY <2>2, <2>9
    <3> QED BY <2>2, <2>4, <3>1 DEF Timely
  <2>13. Underway(b, r, g, A \cup {t}, S, L) /\ Timely(r, g, m) /\ r.code = q.code
    BY <2>2, <2>11, <2>12
  <2> QED BY <2>13 DEF r
<1>6. CASE q.group[t] = g /\ q.mem[t] = None /\ StorageType(t) # "STATIC"
  <2>2. TensorOK(q, g, A, t)
    BY <1>1
  <2>3. t \notin A
    <3> SUFFICES ASSUME t \in A PROVE FALSE
      OBVIOUS
    <3>1. q.use[t] > 0
      OBVIOUS
    <3>2. q.place[t] # 0
      BY <1>6, <2>2, <3>1 DEF TensorOK, None, Gone
    <3>3. q.use[t] = 0
      BY <1>6, <3>2 DEF Timely, None
    <3> QED BY <3>1, <3>3
  <2>4. q.place[t] = 0
    BY <1>6, <2>2, <2>3 DEF TensorOK
  <2>5. Undisturbed(q, g, t)
    <3>1. CASE t \in Inputs
      BY <3>1, StorageIs DEF Undisturbed
    <3>2. CASE t \notin Inputs
      <4> SUFFICES ASSUME NEW v \in Given(q, g), <<t, v>> \in Clash \/ <<v, t>> \in Clash,
                          v \notin Holding(q, g)
                   PROVE  FALSE
        BY DEF Undisturbed
      <4>1. m < Born(t) /\ (\A x \in A : Born(x) < Born(t)) /\ (\A d \in S : d < Born(t)) /\ Born(t) \in Nat
        BY <2>3, <3>2, Numbers
      <4>2. CASE v \in Tensors
        <5>1. q.group[v] = g /\ q.place[v] # 0
          BY <4>2, GivenIs
        <5>2. TensorOK(q, g, A, v)
          BY <1>1, <4>2
        <5>3. v \in A
          BY <5>1, <5>2 DEF TensorOK
        <5>4. ~(q.mem[v] > 0)
          BY <4>2, <5>1 DEF Holding
        <5>5. Dies(v) <= m
          BY <4>2, <5>1, <5>4 DEF Timely
        <5>6. Born(v) < Born(t) /\ Born(v) \in Nat /\ Dies(v) \in Nat
          BY <4>1, <4>2, <5>3, Numbers, DiesIs
        <5>7. StartsAt(t) = Born(t) /\ StartsAt(v) = Born(v)
          BY <4>2, UsersAre
        <5>8. AliveAt(t, Born(v)) \/ AliveAt(v, Born(t))
          BY <5>7 DEF Clash
        <5> QED BY <4>1, <5>5, <5>6, <5>8 DEF AliveAt
      <4>3. CASE v \notin Tensors
        <5>1. PICK d \in Commands : v = Own(d) /\ Group(q, d) = g /\ q.scratchAt[d] # 0
          BY <4>3, GivenIs
        <5>2. d \in S
          BY <1>1, <5>1
        <5>3. d < Born(t) /\ d \in Nat /\ StartsAt(v) = d
          BY <4>1, <5>1, <5>2, Numbers, UsersAre
        <5>4. AliveAt(t, d)
          BY <4>3, <5>3 DEF Clash
        <5> QED BY <4>1, <5>3, <5>4 DEF AliveAt
      <4> QED BY <4>2, <4>3
    <3> QED BY <3>1, <3>2
  <2>7. PICK n \in Nodes :
          /\ Booked(b, r, g) /\ r.mem[t] = n /\ r.place[t] = n
          /\ \A u \in Tensors : u # t => r.mem[u] = q.mem[u] /\ r.place[u] = q.place[u]
          /\ r.use = q.use /\ r.group = q.group /\ r.fixed = q.fixed /\ r.code = q.code
          /\ r.scratchAt = q.scratchAt /\ r.unknown = q.unknown
    <3>1. /\ Booked(b, q, g) /\ q.group[t] = g /\ q.mem[t] = None /\ q.place[t] = 0
          /\ StorageType(t) # "STATIC" /\ Undisturbed(q, g, t)
      BY <1>1, <1>6, <2>4, <2>5
    <3> QED BY <3>1, BookedTensor
  <2> HIDE DEF r
  <2>10. /\ n \in Nat /\ n > 0 /\ r.mem[t] = n /\ r.place[t] = n
         /\ \A u \in Tensors : u # t => r.mem[u] = q.mem[u] /\ r.place[u] = q.place[u]
    BY <1>2, <1>3, <2>7
  <2>11. ASSUME NEW u \in Tensors PROVE TensorOK(r, g, A \cup {t}, u)
    <3>1. TensorOK(q, g, A, u)
      BY <1>1
    <3>2. CASE u # t
      <4>1. r.mem[u] = q.mem[u] /\ r.place[u] = q.place[u]
        BY <2>10, <3>2
      <4> QED BY <2>7, <3>1, <3>2, <4>1 DEF TensorOK
    <3>3. CASE u = t
      BY <1>6, <2>7, <2>10, <3>3 DEF TensorOK, Static, Gone
    <3> QED BY <3>2, <3>3
  <2>12. Underway(b, r, g, A \cup {t}, S, L)
    BY <1>1, <2>7, <2>11 DEF Underway, Group
  <2>13. Timely(r, g, m)
    <3> SUFFICES ASSUME NEW u \in Tensors, r.group[u] = g, r.place[u] # 0, ~(r.mem[u] > 0)
                 PROVE  r.use[u] = 0 /\ u \notin net.outputs /\ Dies(u) <= m
      BY DEF Timely
    <3>1. u # t
      BY <2>10
    <3> QED BY <2>7, <2>10, <3>1 DEF Timely
  <2>14. Underway(b, r, g, A \cup {t}, S, L) /\ Timely(r, g, m) /\ r.code = q.code
    BY <2>7, <2>12, <2>13
  <2> QED BY <2>14 DEF r
<1> QED BY <1>4, <1>5, <1>6

\* A command takes memory for itself while all that it works on holds its own.
MayResize(b, q, g, A, S, L, m, c) ==
    /\ Underway(b, q, g, A, S, L) /\ Timely(q, g, m) /\ m \in Nat
    /\ c \in Commands /\ c \notin S /\ m < c

LEMMA OnResizeOK ==
  ASSUME NetOK, NEW b, NEW q, NEW g \in 0..1, NEW A, NEW S, NEW L, NEW m, NEW c,
         MayResize(b, q, g, A, S, L, m, c)
  PROVE  LET r == OnResize(q, c, g)
         IN  Underway(b, r, g, A, S \cup {c}, L) /\ Timely(r, g, m) /\ r.code = q.code
<1> Underway(b, q, g, A, S, L) /\ Timely(q, g, m) /\ m \in Nat /\ c \in Commands /\ c \notin S /\ m < c
  BY DEF MayResize
<1> DEFINE r == OnResize(q, c, g)
<1>1. /\ Booked(b, q, g) /\ q \in PStates
      /\ \A u \in Tensors : q.use[u] = Cardinality(OfTensor(L, u))
      /\ \A d \in Commands : Group(q, d) = g => (q.scratchAt[d] # 0 <=> d \in S /\ net.scratch[d] > 0)
      /\ \A u \in Tensors : TensorOK(q, g, A, u)
  BY DEF Underway, Booked
<1>2. q.scratchAt \in [Commands -> 0..MaxAllocs] /\ net.scratch[c] \in Nat
  BY <1>1 DEF PStates, NetOK
<1>3. CASE Group(q, c) # g \/ net.scratch[c] = 0
  <2>1. r = q
    BY <1>3 DEF OnResize
  <2>2. Underway(b, q, g, A, S \cup {c}, L)
    BY <1>1, <1>3 DEF Underway
  <2> QED BY <2>1, <2>2
<1>4. CASE Group(q, c) = g /\ net.scratch[c] # 0
  <2>2. q.scratchAt[c] = 0
    BY <1>1, <1>4
  <2>3. Undisturbed(q, g, Own(c))
    <3> SUFFICES ASSUME NEW v \in Given(q, g), <<Own(c), v>> \in Clash \/ <<v, Own(c)>> \in Clash,
                        v \notin Holding(q, g)
                 PROVE  FALSE
      BY DEF Undisturbed
    <3>1. Own(c) \notin Tensors /\ StartsAt(Own(c)) = c
      BY UsersAre
    <3>2. v \in Tensors /\ AliveAt(v, c)
      BY <3>1 DEF Clash
    <3>3. q.group[v] = g /\ q.place[v] # 0
      BY <3>2, GivenIs
    <3>4. ~(q.mem[v] > 0)
      BY <3>2, <3>3 DEF Holding
    <3>5. Dies(v) <= m /\ Dies(v) \in Nat /\ c \in Nat
      BY <3>2, <3>3, <3>4, DiesIs, Numbers DEF Timely
    <3> QED BY <3>2, <3>5 DEF AliveAt
  <2>5. PICK n \in Nodes :
          /\ Booked(b, r, g) /\ r.scratchAt[c] = n
          /\ \A d \in Commands : d # c => r.scratchAt[d] = q.scratchAt[d]
          /\ r.mem = q.mem /\ r.use = q.use /\ r.group = q.group /\ r.fixed = q.fixed /\ r.code = q.code
          /\ r.place = q.place /\ r.unknown = q.unknown
    BY <1>1, <1>4, <2>2, <2>3, BookedOwn
  <2> HIDE DEF r
  <2>7. n # 0 /\ r.scratchAt[c] = n /\ \A d \in Commands : d # c => r.scratchAt[d] = q.scratchAt[d]
    BY <1>2, <2>5, HeapAssumption DEF Nodes
  <2>8. \A u \in Tensors : TensorOK(r, g, A, u)
    BY <1>1, <2>5 DEF TensorOK
  <2>9. \A d \in Commands : Group(r, d) = g => (r.scratchAt[d] # 0 <=> d \in S \cup {c} /\ net.scratch[d] > 0)
    BY <1>1, <1>2, <1>4, <2>5, <2>7 DEF Group
  <2>10. Underway(b, r, g, A, S \cup {c}, L)
    BY <1>1, <2>5, <2>8, <2>9 DEF Underway
  <2>11. Timely(r, g, m)
    BY <2>5 DEF Timely
  <2>12. Underway(b, r, g, A, S \cup {c}, L) /\ Timely(r, g, m) /\ r.code = q.code
    BY <2>5, <2>10, <2>11
  <2> QED BY <2>12 DEF r
<1> QED BY <1>3, <1>4

\* A tensor drops its memory object.
LEMMA Dropped ==
  ASSUME NEW b, NEW q, NEW g \in 0..1, Booked(b, q, g), NEW t \in Tensors,
         q.mem[t] > 0 => q.group[t] = g /\ q.mem[t] = q.place[t]
  PROVE  LET r == DropMem(q, t)
         IN  /\ Booked(b, r, g) /\ r.mem[t] = None
             /\ \A u \in Tensors : u # t => r.mem[u] = q.mem[u]
             /\ r.use = q.use /\ r.group = q.group /\ r.fixed = q.fixed /\ r.code = q.code
             /\ r.place = q.place /\ r.scratchAt = q.scratchAt /\ r.shape = q.shape
             /\ r.unknown = (q.unknown \/ q.mem[t] = Gone)
<1> DEFINE r == DropMem(q, t)
<1>1. q \in PStates /\ q.mem \in [Tensors -> Nodes \cup {None, Static, Gone}] /\ q.unknown \in BOOLEAN
  BY DEF Booked, PStates
<1>2. \A n \in Nodes : n > 0 /\ n \in Nat
  BY HeapAssumption DEF Nodes
<1>3. CASE q.mem[t] = Gone
  <2>1. r = [q EXCEPT !.mem[t] = None, !.unknown = TRUE]
    BY <1>3 DEF DropMem, Gone
  <2>2. r.mem = [q.mem EXCEPT ![t] = None] /\ r.use = q.use /\ r.group = q.group /\ r.fixed = q.fixed
        /\ r.shape = q.shape /\ r.place = q.place /\ r.heap = q.heap
        /\ r.scratchAt = q.scratchAt /\ r.code = q.code /\ r.unknown = TRUE
    BY <1>1, <2>1 DEF PStates
  <2>3. r = [q EXCEPT !.mem = r.mem, !.unknown = TRUE]
    BY <1>1, <2>1 DEF PStates
  <2> HIDE DEF r
  <2>4. r.mem[t] = None /\ \A u \in Tensors : u # t => r.mem[u] = q.mem[u]
    BY <1>1, <2>2
  <2>5. r \in PStates
    <3>1. r.mem \in [Tensors -> Nodes \cup {None, Static, Gone}]
      BY <1>1, <2>2
    <3> QED BY <1>1, <2>3, <3>1 DEF PStates
  <2>6. Holding(r, g) = Holding(q, g)
    BY <1>3, <2>2, <2>4 DEF Holding, None, Gone
  <2>7. Clean(q) => Clean(r)
    BY <1>3 DEF Clean
  <2>8. Booked(b, r, g)
    BY <2>2, <2>5, <2>6, <2>7, BookedSame
  <2>9. r.unknown = (q.unknown \/ q.mem[t] = Gone)
    BY <1>3, <2>2
  <2> QED BY <2>2, <2>4, <2>8, <2>9 DEF r
<1>4. CASE q.mem[t] # Gone /\ q.mem[t] > 0
  <2>1. r = [q EXCEPT !.mem[t] = None, !.heap[g] = FreeNode(q.heap[g], q.mem[t])]
    BY <1>4 DEF DropMem
  <2>2. t \in Holding(q, g)
    BY <1>4 DEF Holding
  <2>3. Booked(b, r, g)
    <3>1. Booked(b, [q EXCEPT !.mem[t] = None, !.heap[g] = FreeNode(q.heap[g], q.mem[t])], g)
      BY <1>4, <2>2, BookedLess
    <3> HIDE DEF r
    <3> QED BY <2>1, <3>1
  <2>4. r.mem = [q.mem EXCEPT ![t] = None] /\ r.use = q.use /\ r.group = q.group /\ r.fixed = q.fixed
        /\ r.shape = q.shape /\ r.place = q.place
        /\ r.scratchAt = q.scratchAt /\ r.code = q.code /\ r.unknown = q.unknown
    <3> DEFINE f == FreeNode(q.heap[g], q.mem[t])
    <3>1. r = [q EXCEPT !.mem[t] = None, !.heap[g] = f]
      BY <2>1
    <3> HIDE DEF f, r
    <3> QED BY <1>1, <3>1 DEF PStates
  <2> HIDE DEF r
  <2>5. r.mem[t] = None /\ \A u \in Tensors : u # t => r.mem[u] = q.mem[u]
    BY <1>1, <2>4
  <2>6. r.unknown = (q.unknown \/ q.mem[t] = Gone)
    BY <1>1, <1>4, <2>4
  <2> QED BY <2>3, <2>4, <2>5, <2>6 DEF r
<1>5. CASE q.mem[t] # Gone /\ ~(q.mem[t] > 0)
  <2>1. r = [q EXCEPT !.mem[t] = None]
    BY <1>5 DEF DropMem
  <2>2. r.mem = [q.mem EXCEPT ![t] = None] /\ r.use = q.use /\ r.group = q.group /\ r.fixed = q.fixed
        /\ r.shape = q.shape /\ r.place = q.place /\ r.heap = q.heap
        /\ r.scratchAt = q.scratchAt /\ r.code = q.code /\ r.unknown = q.unknown
    BY <1>1, <2>1 DEF PStates
  <2>3. r = [q EXCEPT !.mem = r.mem]
    BY <1>1, <2>1 DEF PStates
  <2> HIDE DEF r
  <2>4. r.mem[t] = None /\ \A u \in Tensors : u # t => r.mem[u] = q.mem[u]
    BY <1>1, <2>2
  <2>5. r \in PStates
    <3>1. r.mem \in [Tensors -> Nodes \cup {None, Static, Gone}]
      BY <1>1, <2>2
    <3> QED BY <1>1, <2>3, <3>1 DEF PStates
  <2>6. Holding(r, g) = Holding(q, g)
    BY <1>5, <2>2, <2>4 DEF Holding, None
  <2>7. Clean(q) => Clean(r)
    BY <2>2, <2>4 DEF Clean, None, Gone
  <2>8. Booked(b, r, g)
    BY <2>2, <2>5, <2>6, <2>7, BookedSame
  <2>9. r.unknown = (q.unknown \/ q.mem[t] = Gone)
    BY <1>1, <1>5, <2>2
  <2> QED BY <2>2, <2>4, <2>8, <2>9 DEF r
<1> QED BY <1>3, <1>4, <1>5

\* A tensor that was read for the last time gives its memory back.
MayRelease(b, q, g, A, S, L, c, x, t, ai) ==
    /\ Underway(b, q, g, A, S, L) /\ Timely(q, g, c) /\ L \in SUBSET AllReads /\ c \in Commands
    /\ x \in L /\ x[1] = c /\ \A y \in AllReads : y[1] > c => y \in L
    /\ t = net.ins[c][x[2]] /\ t \in A
    /\ \A u \in Inputs : q.group[u] = g => ai = TRUE

LEMMA ReleaseOK ==
  ASSUME NetOK, NEW b, NEW q, NEW g \in 0..1, NEW A, NEW S, NEW L, NEW c, NEW x, NEW t, NEW ai,
         MayRelease(b, q, g, A, S, L, c, x, t, ai)
  PROVE  LET r == ReleaseTensor(q, t, g, ai)
         IN  Underway(b, r, g, A, S, L \ {x}) /\ Timely(r, g, c) /\ r.code = q.code /\ r.group = q.group
<1> Underway(b, q, g, A, S, L) /\ Timely(q, g, c) /\ L \in SUBSET AllReads /\ c \in Commands
  BY DEF MayRelease
<1> /\ x \in L /\ x[1] = c /\ \A y \in AllReads : y[1] > c => y \in L
    /\ t = net.ins[c][x[2]] /\ t \in A /\ \A u \in Inputs : q.group[u] = g => ai = TRUE
  BY DEF MayRelease
<1> DEFINE r1 == [q EXCEPT !.use[t] = q.use[t] - 1]
           r == ReleaseTensor(q, t, g, ai)
           M == L \ {x}
<1>1. /\ Booked(b, q, g) /\ q \in PStates
      /\ \A u \in Tensors : q.use[u] = Cardinality(OfTensor(L, u))
      /\ \A d \in Commands : Group(q, d) = g => (q.scratchAt[d] # 0 <=> d \in S /\ net.scratch[d] > 0)
      /\ \A u \in Tensors : TensorOK(q, g, A, u)
  BY DEF Underway, Booked
<1>2. /\ q.mem \in [Tensors -> Nodes \cup {None, Static, Gone}]
      /\ q.use \in [Tensors -> 0..2 * NumCommands] /\ NumCommands \in Nat
  BY <1>1, Numbers DEF PStates
<1>3. /\ t \in Tensors /\ q.use[t] > 0 /\ Cardinality(OfTensor(M, t)) = q.use[t] - 1
      /\ \A u \in Tensors : u # t => Cardinality(OfTensor(M, u)) = q.use[u]
  BY <1>1, ReadOff
<1>4. r = IF r1.group[t] = g /\ NeedRelease(r1, t, ai) THEN DropMem(r1, t) ELSE r1
  BY DEF ReleaseTensor
<1>5. r1.use = [q.use EXCEPT ![t] = q.use[t] - 1] /\ r1.mem = q.mem /\ r1.group = q.group /\ r1.fixed = q.fixed
      /\ r1.shape = q.shape /\ r1.place = q.place /\ r1.heap = q.heap
      /\ r1.scratchAt = q.scratchAt /\ r1.code = q.code /\ r1.unknown = q.unknown
  BY <1>1 DEF PStates
<1>6. r1 = [q EXCEPT !.use = r1.use]
  BY <1>1 DEF PStates
<1> HIDE DEF r1
<1>7. r1.use[t] = q.use[t] - 1 /\ \A u \in Tensors : u # t => r1.use[u] = q.use[u]
  BY <1>2, <1>3, <1>5
<1>8. r1 \in PStates
  <2>1. q.use[t] - 1 \in 0..2 * NumCommands
    BY <1>2, <1>3
  <2>2. r1.use \in [Tensors -> 0..2 * NumCommands]
    BY <1>2, <1>5, <2>1
  <2> QED BY <1>1, <1>6, <2>2 DEF PStates
<1>9. Booked(b, r1, g)
  <2>1. Holding(r1, g) = Holding(q, g) /\ (Clean(q) => Clean(r1))
    BY <1>5 DEF Holding, Clean
  <2> QED BY <1>1, <1>5, <1>8, <2>1, BookedSame
<1>10. \A u \in Tensors : r1.use[u] = Cardinality(OfTensor(M, u))
  BY <1>3, <1>7
<1>11. TensorOK(q, g, A, t)
  BY <1>1, <1>3
<1>12. ASSUME r1.use[t] = 0 PROVE t \notin net.outputs => Dies(t) <= c
  <2>1. M \in SUBSET AllReads
    OBVIOUS
  <2>2. Cardinality(OfTensor(M, t)) = 0
    BY <1>3, <1>10, <1>12
  <2>3. ASSUME NEW d \in Commands, Reads(d, t) PROVE d <= c
    <3> SUFFICES ASSUME d > c PROVE FALSE
      BY Numbers
    <3>1. PICK i \in DOMAIN net.ins[d] : net.ins[d][i] = t
      BY <2>3, InputsOf
    <3>2. <<d, i>> \in AllReads /\ <<d, i>>[1] = d /\ <<d, i>>[2] = i
      BY ReadsAre
    <3>3. <<d, i>> \in M
      BY <3>2, Numbers
    <3> HIDE DEF M
    <3> QED BY <1>3, <2>1, <2>2, <3>1, <3>2, <3>3, NoReads
  <2>4. Born(t) <= c
    <3>1. t < Out(c)
      BY ReadsAre, InputsOf
    <3>2. CASE t \in Inputs
      BY <3>2, Numbers
    <3>3. CASE t \notin Inputs
      BY <1>3, <3>1, <3>3, Numbers DEF Born, Out
    <3> QED BY <3>2, <3>3
  <2> QED BY <1>3, <2>3, <2>4, DiesIs, Numbers
<1>13. CASE r1.group[t] = g /\ NeedRelease(r1, t, ai)
  <2>1. r = DropMem(r1, t)
    BY <1>4, <1>13
  <2>2. r1.use[t] = 0 /\ Usage(t) # "OUTPUT"
    BY <1>13 DEF NeedRelease
  <2>3. r1.mem[t] > 0 => r1.group[t] = g /\ r1.mem[t] = r1.place[t]
    BY <1>5, <1>11, <1>13 DEF TensorOK
  <2>4. /\ Booked(b, DropMem(r1, t), g) /\ DropMem(r1, t).mem[t] = None
        /\ \A u \in Tensors : u # t => DropMem(r1, t).mem[u] = r1.mem[u]
        /\ DropMem(r1, t).use = r1.use /\ DropMem(r1, t).group = r1.group /\ DropMem(r1, t).fixed = r1.fixed
        /\ DropMem(r1, t).code = r1.code /\ DropMem(r1, t).place = r1.place
        /\ DropMem(r1, t).scratchAt = r1.scratchAt
        /\ DropMem(r1, t).unknown = (r1.unknown \/ r1.mem[t] = Gone)
    BY <1>3, <1>9, <2>3, Dropped
  <2> HIDE DEF r
  <2>5. /\ Booked(b, r, g) /\ r.mem[t] = None /\ \A u \in Tensors : u # t => r.mem[u] = q.mem[u]
        /\ r.use = r1.use /\ r.group = q.group /\ r.fixed = q.fixed /\ r.code = q.code /\ r.place = q.place
        /\ r.scratchAt = q.scratchAt /\ r.unknown = (q.unknown \/ q.mem[t] = Gone)
    <3>1. /\ Booked(b, r, g) /\ r.mem[t] = None /\ \A u \in Tensors : u # t => r.mem[u] = r1.mem[u]
          /\ r.use = r1.use /\ r.group = r1.group /\ r.fixed = r1.fixed /\ r.code = r1.code
          /\ r.place = r1.place /\ r.scratchAt = r1.scratchAt
          /\ r.unknown = (r1.unknown \/ r1.mem[t] = Gone)
      BY <2>1, <2>4
    <3> QED BY <1>5, <3>1
  <2>6. ASSUME NEW u \in Tensors PROVE TensorOK(r, g, A, u)
    <3>1. TensorOK(q, g, A, u)
      BY <1>1
    <3>2. CASE u # t
      <4>1. r.mem[u] = q.mem[u] /\ r.use[u] = q.use[u] /\ (q.unknown => r.unknown)
        BY <1>1, <1>7, <2>5, <3>2
      <4> QED BY <2>5, <3>1, <4>1 DEF TensorOK
    <3>3. CASE u = t
      <4>1. q.mem[t] = Gone => r.unknown = TRUE
        BY <2>5
      <4>2. /\ q.group[t] = g /\ r.group[t] = g /\ r.mem[t] = None /\ r.place[t] = q.place[t]
            /\ r.use[t] = 0 /\ q.use[t] # 0
        <5>1. r1.group[t] = g /\ r1.group = q.group
          BY <1>5, <1>13
        <5>2. q.use[t] # 0
          BY <1>3
        <5> QED BY <2>2, <2>5, <5>1, <5>2
      <4> QED BY <1>11, <3>3, <4>1, <4>2 DEF TensorOK, None, Static, Gone
    <3> QED BY <3>2, <3>3
  <2>7. Underway(b, r, g, A, S, M)
    BY <1>1, <1>10, <2>5, <2>6 DEF Underway, Group
  <2>8. Timely(r, g, c)
    <3> SUFFICES ASSUME NEW u \in Tensors, r.group[u] = g, r.place[u] # 0, ~(r.mem[u] > 0)
                 PROVE  r.use[u] = 0 /\ u \notin net.outputs /\ Dies(u) <= c
      BY DEF Timely
    <3>1. CASE u = t
      BY <1>3, <1>12, <2>2, <2>5, <3>1, StorageIs
    <3>2. CASE u # t
      BY <1>7, <2>5, <3>2 DEF Timely
    <3> QED BY <3>1, <3>2
  <2>9. Underway(b, r, g, A, S, M) /\ Timely(r, g, c) /\ r.code = q.code /\ r.group = q.group
    BY <2>5, <2>7, <2>8
  <2> QED BY <2>9 DEF r
<1>14. CASE ~(r1.group[t] = g /\ NeedRelease(r1, t, ai))
  <2>1. r = r1
    BY <1>4, <1>14
  <2>2. ASSUME t \in Inputs, q.group[t] = g PROVE r1.use[t] > 0
    <3> SUFFICES ASSUME r1.use[t] = 0 PROVE FALSE
      BY <1>2, <1>3, <1>7
    <3>1. ai = TRUE /\ Usage(t) = "INPUT"
      BY <1>3, <2>2, StorageIs
    <3>2. NeedRelease(r1, t, ai)
      BY <3>1 DEF NeedRelease
    <3> QED BY <1>5, <1>14, <2>2, <3>2
  <2>3. ASSUME NEW u \in Tensors PROVE TensorOK(r1, g, A, u)
    <3>1. TensorOK(q, g, A, u)
      BY <1>1
    <3>2. CASE u # t
      <4>1. r1.use[u] = q.use[u]
        BY <1>7, <3>2
      <4> QED BY <1>5, <3>1, <4>1 DEF TensorOK
    <3>3. CASE u = t /\ q.group[t] = g
      <4>1. /\ r1.mem[t] = q.mem[t] /\ r1.group[t] = q.group[t] /\ r1.place[t] = q.place[t]
            /\ r1.unknown = q.unknown /\ q.use[t] # 0
        BY <1>3, <1>5
      <4> QED BY <1>11, <2>2, <3>3, <4>1 DEF TensorOK
    <3>4. CASE u = t /\ q.group[t] # g
      BY <1>5, <3>1, <3>4 DEF TensorOK
    <3> QED BY <3>2, <3>3, <3>4
  <2>4. Underway(b, r1, g, A, S, M)
    BY <1>1, <1>5, <1>9, <1>10, <2>3 DEF Underway, Group
  <2>5. Timely(r1, g, c)
    <3> SUFFICES ASSUME NEW u \in Tensors, r1.group[u] = g, r1.place[u] # 0, ~(r1.mem[u] > 0)
                 PROVE  r1.use[u] = 0 /\ u \notin net.outputs /\ Dies(u) <= c
      BY DEF Timely
    <3>1. q.use[u] = 0 /\ u \notin net.outputs /\ Dies(u) <= c
      BY <1>5 DEF Timely
    <3>2. u # t
      BY <1>3, <3>1
    <3> QED BY <1>7, <3>1, <3>2
  <2>6. Underway(b, r1, g, A, S, M) /\ Timely(r1, g, c) /\ r1.code = q.code /\ r1.group = q.group
    BY <1>5, <2>4, <2>5
  <2> HIDE DEF r
  <2>7. Underway(b, r, g, A, S, M) /\ Timely(r, g, c) /\ r.code = q.code /\ r.group = q.group
    BY <2>1, <2>6
  <2> QED BY <2>7 DEF r
<1> QED BY <1>13, <1>14

\* When everything was read the rest is given back.
Drops(b, q, r, g, A, S, L, t) ==
    /\ Underway(b, r, g, A, S, L) /\ r.code = q.code /\ r.place = q.place /\ r.scratchAt = q.scratchAt
    /\ \A u \in Tensors : r.mem[u] = q.mem[u] \/ r.mem[u] = None
    /\ StorageType(t) = "DYNAMIC" => r.mem[t] = None

LEMMA DropDynamicOK ==
  ASSUME NetOK, NEW b, NEW q, NEW g \in 0..1, NEW A, NEW S, NEW L, Underway(b, q, g, A, S, L),
         NEW t \in Tensors
  PROVE  Drops(b, q, DropDynamic(q, t), g, A, S, L, t)
<1> SUFFICES LET r == DropDynamic(q, t)
         IN  /\ Underway(b, r, g, A, S, L) /\ r.code = q.code /\ r.place = q.place /\ r.scratchAt = q.scratchAt
             /\ \A u \in Tensors : r.mem[u] = q.mem[u] \/ r.mem[u] = None
             /\ StorageType(t) = "DYNAMIC" => r.mem[t] = None
  BY DEF Drops
<1> DEFINE r == DropDynamic(q, t)
<1>1. /\ Booked(b, q, g) /\ q \in PStates
      /\ \A u \in Tensors : q.use[u] = Cardinality(OfTensor(L, u))
      /\ \A d \in Commands : Group(q, d) = g => (q.scratchAt[d] # 0 <=> d \in S /\ net.scratch[d] > 0)
      /\ \A u \in Tensors : TensorOK(q, g, A, u)
  BY DEF Underway, Booked
<1>2. q.unknown \in BOOLEAN
  BY <1>1 DEF PStates
<1>3. CASE StorageType(t) # "DYNAMIC"
  <2>1. r = q
    BY <1>3 DEF DropDynamic
  <2> HIDE DEF r
  <2>2. /\ Underway(b, r, g, A, S, L) /\ r.code = q.code /\ r.place = q.place /\ r.scratchAt = q.scratchAt
        /\ \A u \in Tensors : r.mem[u] = q.mem[u] \/ r.mem[u] = None
        /\ StorageType(t) = "DYNAMIC" => r.mem[t] = None
    BY <1>3, <2>1
  <2> QED BY <2>2 DEF r
<1>4. CASE StorageType(t) = "DYNAMIC"
  <2>1. r = DropMem(q, t)
    BY <1>4 DEF DropDynamic
  <2>2. TensorOK(q, g, A, t) /\ t \notin Inputs
    BY <1>1, <1>4, StorageIs
  <2>3. q.mem[t] > 0 => q.group[t] = g /\ q.mem[t] = q.place[t]
    BY <2>2 DEF TensorOK, None, Static
  <2>4. q.mem[t] # Gone
    BY <2>2 DEF TensorOK
  <2>5. /\ Booked(b, DropMem(q, t), g) /\ DropMem(q, t).mem[t] = None
        /\ \A u \in Tensors : u # t => DropMem(q, t).mem[u] = q.mem[u]
        /\ DropMem(q, t).use = q.use /\ DropMem(q, t).group = q.group /\ DropMem(q, t).fixed = q.fixed
        /\ DropMem(q, t).code = q.code /\ DropMem(q, t).place = q.place
        /\ DropMem(q, t).scratchAt = q.scratchAt
        /\ DropMem(q, t).unknown = (q.unknown \/ q.mem[t] = Gone)
    BY <1>1, <2>3, Dropped
  <2> HIDE DEF r
  <2>6. /\ Booked(b, r, g) /\ r.mem[t] = None /\ \A u \in Tensors : u # t => r.mem[u] = q.mem[u]
        /\ r.use = q.use /\ r.group = q.group /\ r.fixed = q.fixed /\ r.code = q.code /\ r.place = q.place
        /\ r.scratchAt = q.scratchAt /\ r.unknown = q.unknown
    BY <1>2, <2>1, <2>4, <2>5
  <2>7. ASSUME NEW u \in Tensors PROVE TensorOK(r, g, A, u)
    <3>1. TensorOK(q, g, A, u)
      BY <1>1
    <3>2. CASE u # t
      BY <2>6, <3>1, <3>2 DEF TensorOK
    <3>3. CASE u = t
      BY <2>2, <2>4, <2>6, <3>3 DEF TensorOK, None, Static, Gone
    <3> QED BY <3>2, <3>3
  <2>8. Underway(b, r, g, A, S, L)
    BY <1>1, <2>6, <2>7 DEF Underway, Group
  <2>9. \A u \in Tensors : r.mem[u] = q.mem[u] \/ r.mem[u] = None
    BY <2>6
  <2> QED BY <2>6, <2>8, <2>9 DEF r
<1> QED BY <1>3, <1>4

-----------------------------------------------------------------------------
(* One command.                                                             *)

\* The tensors that the commands up to c work on, and the reads from c on.
SeenBy(c) == {t \in Tensors : \E d \in Commands : d <= c /\ (t = Out(d) \/ Reads(d, t))}
ReadsFrom(c) == {r \in AllReads : r[1] >= c}

\* Where the plan of b for group g stands after command c.
Stage(b, q, g, c) == /\ Underway(b, q, g, SeenBy(c), 1..c, ReadsFrom(c + 1)) /\ Timely(q, g, c)
                     /\ q.code = "NO_ERROR"

\* What a command adds to the tensors that were seen, and what it reads off.
LEMMA StageIs ==
  ASSUME NetOK, NEW c \in Commands
  PROVE  /\ SeenBy(c) = SeenBy(c - 1) \cup {t \in Tensors : Reads(c, t)} \cup {Out(c)}
         /\ \A v \in SeenBy(c - 1) : v \in Tensors /\ Born(v) < c /\ v # Out(c)
         /\ \A t : Reads(c, t) => /\ t \in Tensors /\ Born(t) < c /\ t # Out(c)
                                  /\ (t \in Inputs \/ t \in SeenBy(c - 1))
         /\ ReadsFrom(c) \subseteq AllReads /\ c - 1 \in Nat /\ c - 1 + 1 = c
         /\ \A y \in AllReads : y[1] > c => y \in ReadsFrom(c)
         /\ <<c, 1>> \in ReadsFrom(c)
         /\ Len(net.ins[c]) = 1 => ReadsFrom(c + 1) = ReadsFrom(c) \ {<<c, 1>>}
         /\ Len(net.ins[c]) # 1 => /\ <<c, 2>> \in ReadsFrom(c) \ {<<c, 1>>}
                                   /\ ReadsFrom(c + 1) = (ReadsFrom(c) \ {<<c, 1>>}) \ {<<c, 2>>}
<1>1. c \in Nat /\ c >= 1 /\ \A d \in Commands : d \in Nat
  BY Numbers
<1>2. ASSUME NEW d \in Commands, NEW t, Reads(d, t), d <= c
      PROVE  t \in Tensors /\ Born(t) < d /\ t # Out(c) /\ (t \in Inputs \/ \E e \in Commands : e < d /\ t = Out(e))
  <2>1. t \in Tensors /\ t < Out(d) /\ t \in Nat
    BY <1>2, InputsOf, Numbers
  <2>2. CASE t \in Inputs
    BY <1>1, <2>1, <2>2, Numbers
  <2>3. CASE t \notin Inputs
    <3>1. PICK e \in Commands : t = Out(e)
      BY <2>1, <2>3, Numbers
    <3>2. e < d /\ e # c
      BY <1>1, <1>2, <2>1, <3>1, PipelineAssumption DEF Out
    <3>3. Born(t) = e /\ t # Out(c)
      BY <3>1, <3>2, Numbers
    <3> QED BY <2>1, <3>1, <3>2, <3>3
  <2> QED BY <2>2, <2>3
<1>3. ASSUME NEW v \in SeenBy(c - 1) PROVE v \in Tensors /\ Born(v) < c /\ v # Out(c)
  <2>1. PICK d \in Commands : d <= c - 1 /\ (v = Out(d) \/ Reads(d, v))
    BY <1>3 DEF SeenBy
  <2>2. d < c /\ d <= c /\ d # c
    BY <1>1, <2>1
  <2>3. CASE v = Out(d)
    BY <1>3, <2>2, <2>3, Numbers DEF SeenBy
  <2>4. CASE Reads(d, v)
    <3>1. v \in Tensors /\ Born(v) < d /\ v # Out(c) /\ Born(v) \in Nat
      BY <1>2, <2>2, <2>4, Numbers
    <3> QED BY <1>1, <2>2, <3>1
  <2> QED BY <2>1, <2>3, <2>4
<1>4. ASSUME NEW t, Reads(c, t)
      PROVE  t \in Tensors /\ Born(t) < c /\ t # Out(c) /\ (t \in Inputs \/ t \in SeenBy(c - 1))
  <2>1. t \in Tensors /\ Born(t) < c /\ t # Out(c) /\ (t \in Inputs \/ \E e \in Commands : e < c /\ t = Out(e))
    BY <1>1, <1>2, <1>4
  <2>2. \A e \in Commands : e < c => e <= c - 1
    BY <1>1
  <2> QED BY <2>1, <2>2 DEF SeenBy
<1>5. SeenBy(c) = SeenBy(c - 1) \cup {t \in Tensors : Reads(c, t)} \cup {Out(c)}
  <2>1. \A d \in Commands : d <= c <=> d <= c - 1 \/ d = c
    BY <1>1
  <2>2. Out(c) \in Tensors
    BY Numbers
  <2> QED BY <2>1, <2>2 DEF SeenBy
<1>6. /\ ReadsFrom(c) \subseteq AllReads /\ c - 1 \in Nat /\ c - 1 + 1 = c
      /\ \A y \in AllReads : y[1] > c => y \in ReadsFrom(c)
  BY <1>1, ReadsAre DEF ReadsFrom
<1>7. \A y \in AllReads : y[1] \in Commands /\ y = <<y[1], y[2]>> /\ y[2] \in DOMAIN net.ins[y[1]]
  BY ReadsAre
<1>8. <<c, 1>> \in ReadsFrom(c)
  <2>1. <<c, 1>> \in AllReads
    BY InputsOf, ReadsAre
  <2> QED BY <1>1, <2>1 DEF ReadsFrom
<1>9. ASSUME NEW y PROVE y \in ReadsFrom(c + 1) <=> y \in ReadsFrom(c) /\ y[1] # c
  <2>1. ASSUME y \in AllReads PROVE y[1] >= c + 1 <=> y[1] >= c /\ y[1] # c
    <3>1. y[1] \in Nat
      BY <1>1, <1>7, <2>1
    <3> QED BY <1>1, <3>1
  <2> QED BY <2>1 DEF ReadsFrom
<1>10. DOMAIN net.ins[c] = 1..Len(net.ins[c])
  BY InputsOf
<1>11. CASE Len(net.ins[c]) = 1
  <2>1. \A i \in DOMAIN net.ins[c] : i = 1
    BY <1>10, <1>11
  <2>2. ASSUME NEW y \in ReadsFrom(c) PROVE y[1] = c <=> y = <<c, 1>>
    <3>1. y \in AllReads
      BY <1>6
    <3>2. y[1] \in Commands /\ y = <<y[1], y[2]>> /\ y[2] \in DOMAIN net.ins[y[1]]
      BY <1>7, <3>1
    <3> QED BY <2>1, <3>2
  <2>3. ReadsFrom(c + 1) = ReadsFrom(c) \ {<<c, 1>>}
    BY <1>9, <2>2
  <2> QED BY <1>3, <1>4, <1>5, <1>6, <1>8, <1>11, <2>3
<1>12. CASE Len(net.ins[c]) # 1
  <2>1. Len(net.ins[c]) = 2 /\ 2 \in DOMAIN net.ins[c]
    BY <1>12, InputsOf
  <2>2. \A i \in DOMAIN net.ins[c] : i = 1 \/ i = 2
    BY <1>10, <2>1
  <2>3. ASSUME NEW y \in ReadsFrom(c) PROVE y[1] = c <=> y = <<c, 1>> \/ y = <<c, 2>>
    <3>1. y \in AllReads
      BY <1>6
    <3>2. y[1] \in Commands /\ y = <<y[1], y[2]>> /\ y[2] \in DOMAIN net.ins[y[1]]
      BY <1>7, <3>1
    <3> QED BY <2>2, <3>2
  <2>4. ReadsFrom(c + 1) = (ReadsFrom(c) \ {<<c, 1>>}) \ {<<c, 2>>}
    BY <1>9, <2>3
  <2>5. <<c, 2>> \in ReadsFrom(c) \ {<<c, 1>>}
    <3>1. <<c, 2>> \in AllReads
      BY <2>1, ReadsAre
    <3> QED BY <1>1, <3>1 DEF ReadsFrom
  <2> QED BY <1>3, <1>4, <1>5, <1>6, <1>8, <1>12, <2>4, <2>5
<1> QED BY <1>11, <1>12

\* Tensors of other groups do not count.
LEMMA SeenMore ==
  ASSUME NEW b, NEW q, NEW g, NEW A, NEW S, NEW L, Underway(b, q, g, A, S, L), NEW B,
         \A t \in B : t \in A \/ q.group[t] # g
  PROVE  Underway(b, q, g, A \cup B, S, L)
<1>1. ASSUME NEW t \in Tensors, TensorOK(q, g, A, t) PROVE TensorOK(q, g, A \cup B, t)
  <2>1. CASE q.group[t] = g
    <3>1. t \in A \cup B <=> t \in A
      BY <2>1
    <3> QED BY <1>1, <3>1 DEF TensorOK
  <2>2. CASE q.group[t] # g
    BY <1>1, <2>2 DEF TensorOK
  <2> QED BY <2>1, <2>2
<1> QED BY <1>1 DEF Underway

\* An input of command c is allocated.
MayRead(b, q, g, A, S, L, m, t) ==
    /\ Underway(b, q, g, A, S, L) /\ Timely(q, g, m) /\ m \in Nat /\ SeenBy(m) \subseteq A
    /\ \E c \in Commands : m = c - 1 /\ L = ReadsFrom(c) /\ \E i \in DOMAIN net.ins[c] : t = net.ins[c][i]

LEMMA InputOK ==
  ASSUME NetOK, NEW b, NEW q, NEW g \in 0..1, NEW A, NEW S, NEW L, NEW m, NEW t,
         MayRead(b, q, g, A, S, L, m, t)
  PROVE  MayAlloc(b, q, g, A, S, L, m, t)
<1>7. /\ Underway(b, q, g, A, S, L) /\ Timely(q, g, m) /\ m \in Nat /\ SeenBy(m) \subseteq A
  BY DEF MayRead
<1> PICK c \in Commands : m = c - 1 /\ L = ReadsFrom(c) /\ \E i \in DOMAIN net.ins[c] : t = net.ins[c][i]
  BY DEF MayRead
<1> PICK i \in DOMAIN net.ins[c] : t = net.ins[c][i]
  OBVIOUS
<1>1. Reads(c, t)
  BY InputsOf
<1>2. t \in Tensors /\ (t \in Inputs \/ t \in SeenBy(c - 1)) /\ c - 1 \in Nat /\ ReadsFrom(c) \in SUBSET AllReads
  BY <1>1, StageIs
<1>3. <<c, i>> \in ReadsFrom(c) /\ <<c, i>>[1] = c /\ <<c, i>>[2] = i
  BY ReadsAre, Numbers DEF ReadsFrom
<1>4. q.use[t] > 0
  <2>1. Cardinality(OfTensor(ReadsFrom(c), t)) > 0
    BY <1>2, <1>3, ReadOff
  <2> QED BY <1>2, <1>7, <2>1 DEF Underway
<1>5. t \in A \/ t \in Inputs
  BY <1>2, <1>7
<1> QED BY <1>2, <1>4, <1>5, <1>7 DEF MayAlloc

\* All tensors of command c have their memory.
LEMMA AcquireOK ==
  ASSUME NetOK, NEW b, NEW q, NEW g \in 0..1, NEW c \in Commands, Stage(b, q, g, c - 1), NEW ai,
         \A u \in Inputs : b.group[u] = g => ai = TRUE
  PROVE  LET one == AllocTensor(q, net.ins[c][1], g)
             two == IF Len(net.ins[c]) = 1 THEN one ELSE AllocTensor(one, net.ins[c][2], g)
             r == AllocTensor(IF ai THEN two ELSE q, Out(c), g)
         IN  Underway(b, r, g, SeenBy(c), 1..c - 1, ReadsFrom(c)) /\ Timely(r, g, c - 1) /\ r.code = "NO_ERROR"
<1> DEFINE one == AllocTensor(q, net.ins[c][1], g)
           two == IF Len(net.ins[c]) = 1 THEN one ELSE AllocTensor(one, net.ins[c][2], g)
           all == IF ai THEN two ELSE q
           r == AllocTensor(all, Out(c), g)
           A == SeenBy(c - 1)
           B == A \cup {t \in Tensors : Reads(c, t)}
           S == 1..c - 1
           L == ReadsFrom(c)
<1>1. Underway(b, q, g, A, S, L) /\ Timely(q, g, c - 1) /\ q.code = "NO_ERROR" /\ c - 1 \in Nat
  <2>1. c - 1 + 1 = c /\ c - 1 \in Nat
    BY StageIs
  <2> QED BY <2>1 DEF Stage
<1>2. Underway(b, all, g, B, S, L) /\ Timely(all, g, c - 1) /\ all.code = "NO_ERROR"
  <2>1. CASE ai
    <3>1. 1 \in DOMAIN net.ins[c] /\ net.ins[c][1] \in Tensors /\ Reads(c, net.ins[c][1])
      BY InputsOf
    <3>2. /\ Underway(b, one, g, A \cup {net.ins[c][1]}, S, L) /\ Timely(one, g, c - 1) /\ one.code = "NO_ERROR"
      <4> DEFINE t == net.ins[c][1]
                 m == c - 1
      <4>1. MayRead(b, q, g, A, S, L, m, t)
        BY <1>1, <3>1 DEF MayRead
      <4> HIDE DEF A, S, L, t, m, one
      <4>2. MayAlloc(b, q, g, A, S, L, m, t)
        BY <4>1, InputOK
      <4>3. HasMemory(b, q, g, A, S, L, m, t)
        BY <4>2, AllocOK
      <4> QED BY <1>1, <4>3 DEF t, m, one, HasMemory
    <3> HIDE DEF one
    <3>3. CASE Len(net.ins[c]) = 1
      <4>1. A \cup {net.ins[c][1]} = B
        <5>1. \A t : Reads(c, t) => t = net.ins[c][1]
          <6>1. DOMAIN net.ins[c] = 1..1 /\ \A i \in 1..1 : i = 1
            BY <3>3, InputsOf
          <6> QED BY <6>1, InputsOf
        <5> QED BY <3>1, <5>1
      <4>2. all = one
        BY <2>1, <3>3
      <4> QED BY <3>2, <4>1, <4>2
    <3>4. CASE Len(net.ins[c]) # 1
      <4>1. 2 \in DOMAIN net.ins[c] /\ net.ins[c][2] \in Tensors /\ Reads(c, net.ins[c][2]) /\ Len(net.ins[c]) = 2
        BY <3>4, InputsOf
      <4> DEFINE x == AllocTensor(one, net.ins[c][2], g)
                 A1 == A \cup {net.ins[c][1]}
      <4>2. A \subseteq A1 /\ Underway(b, one, g, A1, S, L)
        BY <3>2
      <4>3. Underway(b, x, g, A1 \cup {net.ins[c][2]}, S, L) /\ Timely(x, g, c - 1) /\ x.code = one.code
        <5> DEFINE t == net.ins[c][2]
                   m == c - 1
        <5>1. MayRead(b, one, g, A1, S, L, m, t)
          BY <1>1, <3>2, <4>1, <4>2 DEF MayRead
        <5> HIDE DEF A1, S, A, L, t, m, x
        <5>2. MayAlloc(b, one, g, A1, S, L, m, t)
          BY <5>1, InputOK
        <5>3. HasMemory(b, one, g, A1, S, L, m, t)
          BY <5>2, AllocOK
        <5> QED BY <5>3 DEF t, m, x, HasMemory
      <4> HIDE DEF x
      <4>4. A1 \cup {net.ins[c][2]} = B
        <5>1. \A t : Reads(c, t) => t = net.ins[c][1] \/ t = net.ins[c][2]
          <6>1. DOMAIN net.ins[c] = 1..2 /\ \A i \in 1..2 : i = 1 \/ i = 2
            BY <4>1, InputsOf
          <6> QED BY <6>1, InputsOf
        <5> QED BY <3>1, <4>1, <5>1
      <4>5. all = x
        BY <2>1, <3>4 DEF x
      <4> QED BY <3>2, <4>3, <4>4, <4>5
    <3> QED BY <3>3, <3>4
  <2>2. CASE ~ai
    <3>1. q.group = b.group
      BY <1>1 DEF Underway, Booked, Framed
    <3>2. \A t \in {u \in Tensors : Reads(c, u)} : t \in A \/ q.group[t] # g
      <4> SUFFICES ASSUME NEW t \in Tensors, Reads(c, t), t \notin A PROVE q.group[t] # g
        OBVIOUS
      <4>1. t \in Inputs
        BY StageIs
      <4> QED BY <2>2, <3>1, <4>1
    <3>3. Underway(b, q, g, B, S, L)
      <4> HIDE DEF A, S, L
      <4> QED BY <1>1, <3>2, SeenMore
    <3>4. all = q
      BY <2>2
    <3> HIDE DEF all
    <3> QED BY <1>1, <3>3, <3>4
  <2> QED BY <2>1, <2>2
<1> HIDE DEF all, one, two
<1>3. Underway(b, r, g, B \cup {Out(c)}, S, L) /\ Timely(r, g, c - 1) /\ r.code = all.code
  <2>1. /\ Out(c) \in Tensors /\ Out(c) \notin Inputs /\ Born(Out(c)) = c /\ c \in Nat
    BY Numbers
  <2>2. Out(c) \notin B /\ \A v \in B : Born(v) < c
    BY StageIs
  <2>3. c - 1 < c /\ \A d \in S : d < c
    BY <2>1
  <2> DEFINE m == c - 1
             t == Out(c)
  <2>4. MayAlloc(b, all, g, B, S, L, m, t)
    BY <1>1, <1>2, <2>1, <2>2, <2>3 DEF MayAlloc
  <2> HIDE DEF A, B, S, L, m, t, r
  <2>5. HasMemory(b, all, g, B, S, L, m, t)
    BY <2>4, AllocOK
  <2> QED BY <2>5 DEF m, t, r, HasMemory
<1>4. B \cup {Out(c)} = SeenBy(c)
  BY StageIs
<1> QED BY <1>2, <1>3, <1>4 DEF all, one, two

\* Command c is planned.
LEMMA CommandOK ==
  ASSUME NetOK, NEW b, NEW q, NEW g \in 0..1, NEW c \in Commands, Stage(b, q, g, c - 1), NEW ai,
         \A u \in Inputs : b.group[u] = g => ai = TRUE, NEW failing
  PROVE  LET r == PlanCommand(q, c, g, ai, failing)
         IN  IF c = failing /\ Group(b, c) = g
             THEN r.code = "OP_FAILED" /\ \E A, S, L : L \subseteq AllReads /\ Underway(b, r, g, A, S, L)
             ELSE Stage(b, r, g, c)
<1> DEFINE one == AllocTensor(q, net.ins[c][1], g)
           two == IF Len(net.ins[c]) = 1 THEN one ELSE AllocTensor(one, net.ins[c][2], g)
           a == AllocTensor(IF ai THEN two ELSE q, Out(c), g)
           o == OnResize(a, c, g)
           rone == ReleaseTensor(o, net.ins[c][1], g, ai)
           rtwo == ReleaseTensor(rone, net.ins[c][2], g, ai)
           z == IF Len(net.ins[c]) = 1 THEN rone ELSE rtwo
           r == PlanCommand(q, c, g, ai, failing)
           L == ReadsFrom(c)
           L1 == L \ {<<c, 1>>}
<1>1. q.code = "NO_ERROR" /\ q.fixed = b.fixed /\ q.group = b.group
  BY DEF Stage, Underway, Booked, Framed
<1>2. r = IF c = failing /\ Group(q, c) = g THEN [a EXCEPT !.code = "OP_FAILED"] ELSE z
  BY <1>1 DEF PlanCommand, EachInput
<1>3. Group(q, c) = Group(b, c)
  BY <1>1 DEF Group
<1>4. Underway(b, a, g, SeenBy(c), 1..c - 1, L) /\ Timely(a, g, c - 1) /\ a.code = "NO_ERROR"
  BY AcquireOK
<1>5. L \in SUBSET AllReads /\ c - 1 \in Nat /\ c \in Nat
  BY StageIs, Numbers
<1> HIDE DEF a, r, z, L
<1>6. CASE c = failing /\ Group(b, c) = g
  <2> DEFINE e == [a EXCEPT !.code = "OP_FAILED"]
  <2>1. r = e
    BY <1>2, <1>3, <1>6
  <2>2. a \in PStates /\ Booked(b, a, g)
    BY <1>4 DEF Underway, Booked
  <2>3. /\ e.mem = a.mem /\ e.use = a.use /\ e.group = a.group /\ e.fixed = a.fixed /\ e.shape = a.shape
        /\ e.place = a.place /\ e.heap = a.heap /\ e.scratchAt = a.scratchAt /\ e.code = "OP_FAILED"
        /\ e.unknown = a.unknown /\ e \in PStates
    BY <2>2 DEF PStates
  <2> HIDE DEF e
  <2>4. Holding(e, g) = Holding(a, g) /\ (Clean(a) => Clean(e))
    BY <2>3 DEF Holding, Clean
  <2>5. Booked(b, e, g)
    BY <2>2, <2>3, <2>4, BookedSame
  <2>6. \A t \in Tensors : TensorOK(a, g, SeenBy(c), t) => TensorOK(e, g, SeenBy(c), t)
    BY <2>3 DEF TensorOK
  <2>7. Underway(b, e, g, SeenBy(c), 1..c - 1, L)
    BY <1>4, <2>3, <2>5, <2>6 DEF Underway, Group
  <2>8. r.code = "OP_FAILED" /\ Underway(b, r, g, SeenBy(c), 1..c - 1, L)
    BY <2>1, <2>3, <2>7
  <2>9. r.code = "OP_FAILED" /\ \E A, S, M : M \subseteq AllReads /\ Underway(b, r, g, A, S, M)
    BY <1>5, <2>8
  <2> QED BY <1>6, <2>9 DEF r
<1>7. CASE ~(c = failing /\ Group(b, c) = g)
  <2>1. r = z
    BY <1>2, <1>3, <1>7
  <2>2. /\ Underway(b, o, g, SeenBy(c), 1..c, L) /\ Timely(o, g, c) /\ o.code = "NO_ERROR" /\ o.group = b.group
    <3>1. c \notin 1..c - 1 /\ c - 1 < c /\ (1..c - 1) \cup {c} = 1..c
      BY <1>5, Numbers
    <3>2. Underway(b, o, g, SeenBy(c), (1..c - 1) \cup {c}, L) /\ Timely(o, g, c - 1) /\ o.code = a.code
      <4> DEFINE S == 1..c - 1
                 m == c - 1
      <4>1. Underway(b, a, g, SeenBy(c), S, L) /\ Timely(a, g, m) /\ m \in Nat /\ c \notin S /\ m < c
        BY <1>4, <1>5, <3>1
      <4>3. MayResize(b, a, g, SeenBy(c), S, L, m, c)
        BY <4>1 DEF MayResize
      <4> HIDE DEF S, m, o
      <4>4. LET w == OnResize(a, c, g)
            IN  Underway(b, w, g, SeenBy(c), S \cup {c}, L) /\ Timely(w, g, m) /\ w.code = a.code
        BY <4>3, OnResizeOK
      <4>2. Underway(b, o, g, SeenBy(c), S \cup {c}, L) /\ Timely(o, g, m) /\ o.code = a.code
        BY <4>4 DEF o
      <4> QED BY <4>2 DEF S, m
    <3> HIDE DEF o
    <3>3. Timely(o, g, c)
      <4>1. \A t \in Tensors : Dies(t) <= c - 1 => Dies(t) <= c
        BY <1>5, DiesIs
      <4> QED BY <3>2, <4>1 DEF Timely
    <3>4. Underway(b, o, g, SeenBy(c), 1..c, L)
      BY <3>1, <3>2
    <3>5. o.group = b.group
      BY <3>4 DEF Underway, Booked, Framed
    <3> QED BY <1>4, <3>2, <3>3, <3>4, <3>5
  <2>3. \A y \in AllReads : y[1] > c => y \in L
    BY StageIs DEF L
  <2>4. <<c, 1>> \in L /\ <<c, 1>>[1] = c /\ <<c, 1>>[2] = 1
    BY StageIs DEF L
  <2>5. net.ins[c][1] \in SeenBy(c) /\ (Len(net.ins[c]) # 1 => net.ins[c][2] \in SeenBy(c))
    <3>1. Reads(c, net.ins[c][1]) /\ (Len(net.ins[c]) # 1 => Reads(c, net.ins[c][2]))
      BY InputsOf
    <3>2. \A u : Reads(c, u) => u \in Tensors /\ u \in SeenBy(c)
      BY StageIs
    <3> QED BY <3>1, <3>2
  <2> HIDE DEF o
  <2>6. /\ Underway(b, rone, g, SeenBy(c), 1..c, L1) /\ Timely(rone, g, c) /\ rone.code = "NO_ERROR"
        /\ rone.group = b.group
    <3> DEFINE x == <<c, 1>>
               t == net.ins[c][1]
               A == SeenBy(c)
               S == 1..c
    <3>1. x \in L /\ x[1] = c /\ t = net.ins[c][x[2]] /\ t \in A
      BY <2>4, <2>5
    <3>2. Underway(b, o, g, A, S, L) /\ Timely(o, g, c)
      BY <2>2
    <3>3. \A u \in Inputs : o.group[u] = g => ai = TRUE
      BY <2>2
    <3> HIDE DEF x, t, A, S
    <3>4. LET w == ReleaseTensor(o, t, g, ai)
          IN  Underway(b, w, g, A, S, L \ {x}) /\ Timely(w, g, c) /\ w.code = o.code /\ w.group = o.group
      <4>1. MayRelease(b, o, g, A, S, L, c, x, t, ai)
        BY <1>5, <2>3, <3>1, <3>2, <3>3 DEF MayRelease
      <4> QED BY <4>1, ReleaseOK
    <3> QED BY <2>2, <3>4 DEF x, t, A, S
  <2>7. CASE Len(net.ins[c]) = 1
    <3>1. z = rone /\ ReadsFrom(c + 1) = L1
      BY <2>7, StageIs DEF z, L
    <3> HIDE DEF rone, L1
    <3>2. Stage(b, z, g, c)
      BY <2>6, <3>1 DEF Stage
    <3> QED BY <1>7, <2>1, <3>2 DEF r
  <2>8. CASE Len(net.ins[c]) # 1
    <3>1. z = rtwo /\ ReadsFrom(c + 1) = L1 \ {<<c, 2>>} /\ <<c, 2>> \in L1 /\ <<c, 2>>[1] = c /\ <<c, 2>>[2] = 2
      BY <2>8, StageIs DEF z, L
    <3>2. L1 \in SUBSET AllReads /\ \A y \in AllReads : y[1] > c => y \in L1
      BY <1>5, <2>3, <2>4
    <3> DEFINE x == <<c, 2>>
               t == net.ins[c][2]
               A == SeenBy(c)
               S == 1..c
    <3>3. x \in L1 /\ x[1] = c /\ t = net.ins[c][x[2]] /\ t \in A
      BY <2>5, <2>8, <3>1
    <3>4. Underway(b, rone, g, A, S, L1) /\ Timely(rone, g, c)
      BY <2>6
    <3>5. \A u \in Inputs : rone.group[u] = g => ai = TRUE
      BY <2>6
    <3> HIDE DEF x, t, A, S, rone, L1
    <3>6. LET w == ReleaseTensor(rone, t, g, ai)
          IN  Underway(b, w, g, A, S, L1 \ {x}) /\ Timely(w, g, c) /\ w.code = rone.code /\ w.group = rone.group
      <4>1. MayRelease(b, rone, g, A, S, L1, c, x, t, ai)
        BY <3>2, <3>3, <3>4, <3>5 DEF MayRelease
      <4> QED BY <4>1, ReleaseOK
    <3>7. Stage(b, z, g, c)
      <4>1. z = ReleaseTensor(rone, t, g, ai)
        BY <3>1 DEF t
      <4> QED BY <2>6, <3>1, <3>6, <4>1 DEF Stage, x, A, S
    <3> QED BY <1>7, <2>1, <3>7 DEF r
  <2> QED BY <2>7, <2>8
<1> QED BY <1>6, <1>7

-----------------------------------------------------------------------------
(* One command after the other.                                             *)

\* What is done for command c, and the states before and after every command.
Do(k, q, c, g, ai, failing) == IF k = "plan" THEN PlanCommand(q, c, g, ai, failing)
                               ELSE IF k = "recycle" THEN RecycleIn(q, c, g) ELSE DropOutput(q, c)
Course(f, k, q, n, g, ai, failing) ==
    [c \in 0..n |-> IF c = 0 THEN q ELSE Do(k, f[c - 1], c, g, ai, failing)]
HasCourse(k, q, n, g, ai, failing) == \E f : f = Course(f, k, q, n, g, ai, failing)

LEMMA CourseExists ==
  ASSUME NEW k, NEW q, NEW n \in Nat, NEW g, NEW ai, NEW x
  PROVE  HasCourse(k, q, n, g, ai, x)
<1> DEFINE F(f, m) == Course(f, k, q, m, g, ai, x)
           D(r, c) == Do(k, r, c, g, ai, x)
           T == {m \in Nat : ~\E f : f = F(f, m)}
<1> SUFFICES ASSUME T # {} PROVE FALSE
  BY DEF HasCourse
<1>0. ASSUME NEW f, NEW m PROVE F(f, m) = [c \in 0..m |-> IF c = 0 THEN q ELSE D(f[c - 1], c)]
  BY DEF Course
<1>1. PICK m \in T : \A y \in T : m <= y
  <2>1. T \in SUBSET Nat
    OBVIOUS
  <2> HIDE DEF T
  <2> QED BY <2>1, LeastNat
<1>2. m \in Nat /\ ~\E f : f = F(f, m)
  BY <1>1
<1> HIDE DEF F, D
<1>3. CASE m = 0
  <2> DEFINE f == [i \in 0..m |-> q]
  <2>1. \A i \in 0..m : i = 0
    BY <1>3
  <2>2. f = [c \in 0..m |-> IF c = 0 THEN q ELSE D(f[c - 1], c)]
    BY <2>1
  <2>3. f = F(f, m)
    <3> HIDE DEF f
    <3> QED BY <1>0, <2>2
  <2> QED BY <1>2, <2>3
<1>4. CASE m # 0
  <2>1. m - 1 \in Nat /\ ~(m <= m - 1)
    BY <1>2, <1>4
  <2>2. PICK f : f = F(f, m - 1)
    BY <1>1, <2>1
  <2>3. f = [c \in 0..m - 1 |-> IF c = 0 THEN q ELSE D(f[c - 1], c)]
    BY <1>0, <2>2
  <2> DEFINE h == [i \in 0..m |-> IF i < m THEN f[i] ELSE D(f[m - 1], m)]
  <2>4. ASSUME NEW i \in 0..m PROVE h[i] = IF i = 0 THEN q ELSE D(h[i - 1], i)
    <3>1. CASE i = m
      <4>1. h[i] = D(f[m - 1], m)
        BY <1>2, <3>1
      <4>2. h[i - 1] = f[m - 1]
        BY <1>2, <1>4, <3>1
      <4> QED BY <1>4, <3>1, <4>1, <4>2
    <3>2. CASE i < m
      <4>1. i \in 0..m - 1
        BY <1>2, <3>2
      <4>2. f[i] = IF i = 0 THEN q ELSE D(f[i - 1], i)
        BY <2>3, <4>1
      <4>3. h[i] = f[i]
        BY <3>2
      <4>4. i # 0 => h[i - 1] = f[i - 1]
        BY <1>2, <3>2
      <4> QED BY <4>2, <4>3, <4>4
    <3> QED BY <1>2, <3>1, <3>2
  <2>5. h = [c \in 0..m |-> IF c = 0 THEN q ELSE D(h[c - 1], c)]
    <3>1. h = [i \in 0..m |-> h[i]]
      OBVIOUS
    <3> HIDE DEF h
    <3> QED BY <2>4, <3>1
  <2>6. h = F(h, m)
    <3> HIDE DEF h
    <3> QED BY <1>0, <2>5
  <2> QED BY <1>2, <2>6
<1> QED BY <1>3, <1>4

LEMMA PlanAllSteps ==
  ASSUME NEW q, NEW g, NEW ai, NEW x
  PROVE  \E f : /\ f[0] = q /\ PlanAll(q, g, ai, x) = f[NumCommands]
                /\ \A c \in Commands : f[c] = PlanCommand(f[c - 1], c, g, ai, x)
<1> DEFINE P(r, c) == PlanCommand(r, c, g, ai, x)
           f == CHOOSE h : h = [c \in 0..NumCommands |-> IF c = 0 THEN q ELSE P(h[c - 1], c)]
<1>1. NumCommands \in Nat /\ \A c \in Commands : c \in 0..NumCommands /\ c # 0
  BY PipelineAssumption DEF Commands
<1>2. PlanAll(q, g, ai, x) = f[NumCommands]
  BY DEF PlanAll
<1>3. ASSUME NEW r, NEW c PROVE Do("plan", r, c, g, ai, x) = P(r, c)
  BY DEF Do
<1> HIDE DEF P
<1>8. HasCourse("plan", q, NumCommands, g, ai, x)
  BY <1>1, CourseExists
<1>4. PICK h : h = Course(h, "plan", q, NumCommands, g, ai, x)
  BY <1>8 DEF HasCourse
<1>5. h = [c \in 0..NumCommands |-> IF c = 0 THEN q ELSE P(h[c - 1], c)]
  BY <1>3, <1>4 DEF Course
<1>6. f = [c \in 0..NumCommands |-> IF c = 0 THEN q ELSE P(f[c - 1], c)]
  BY <1>5
<1> HIDE DEF f
<1>7. f[0] = q /\ \A c \in Commands : f[c] = P(f[c - 1], c)
  BY <1>1, <1>6
<1> QED BY <1>2, <1>7 DEF P

LEMMA RecycleAllSteps ==
  ASSUME NEW q, NEW g
  PROVE  \E f : /\ f[0] = q /\ RecycleAll(q, g) = f[NumCommands]
                /\ \A c \in Commands : f[c] = RecycleIn(f[c - 1], c, g)
<1> DEFINE P(r, c) == RecycleIn(r, c, g)
           f == CHOOSE h : h = [c \in 0..NumCommands |-> IF c = 0 THEN q ELSE P(h[c - 1], c)]
<1>1. NumCommands \in Nat /\ \A c \in Commands : c \in 0..NumCommands /\ c # 0
  BY PipelineAssumption DEF Commands
<1>2. RecycleAll(q, g) = f[NumCommands]
  BY DEF RecycleAll
<1>3. ASSUME NEW r, NEW c PROVE Do("recycle", r, c, g, TRUE, 0) = P(r, c)
  BY DEF Do
<1> HIDE DEF P
<1>8. HasCourse("recycle", q, NumCommands, g, TRUE, 0)
  BY <1>1, CourseExists
<1>4. PICK h : h = Course(h, "recycle", q, NumCommands, g, TRUE, 0)
  BY <1>8 DEF HasCourse
<1>5. h = [c \in 0..NumCommands |-> IF c = 0 THEN q ELSE P(h[c - 1], c)]
  BY <1>3, <1>4 DEF Course
<1>6. f = [c \in 0..NumCommands |-> IF c = 0 THEN q ELSE P(f[c - 1], c)]
  BY <1>5
<1> HIDE DEF f
<1>7. f[0] = q /\ \A c \in Commands : f[c] = P(f[c - 1], c)
  BY <1>1, <1>6
<1> QED BY <1>2, <1>7 DEF P

LEMMA EncodeSteps ==
  ASSUME NEW q, NEW c \in Commands
  PROVE  \E f : /\ f[0] = ResetHeap(q, 0) /\ Encode(q, c) = f[c]
                /\ \A d \in 1..c : f[d] = DropOutput(f[d - 1], d)
<1> DEFINE P(r, d) == DropOutput(r, d)
           s == ResetHeap(q, 0)
           f == CHOOSE h : h = [d \in 0..c |-> IF d = 0 THEN s ELSE P(h[d - 1], d)]
<1>1. c \in Nat /\ \A d \in 1..c : d \in 0..c /\ d # 0
  BY Numbers
<1>2. Encode(q, c) = f[c]
  BY DEF Encode
<1>3. ASSUME NEW r, NEW d PROVE Do("drop", r, d, 0, TRUE, 0) = P(r, d)
  BY DEF Do
<1> HIDE DEF P, s
<1>8. HasCourse("drop", s, c, 0, TRUE, 0)
  BY <1>1, CourseExists
<1>4. PICK h : h = Course(h, "drop", s, c, 0, TRUE, 0)
  BY <1>8 DEF HasCourse
<1>5. h = [d \in 0..c |-> IF d = 0 THEN s ELSE P(h[d - 1], d)]
  BY <1>3, <1>4 DEF Course
<1>6. f = [d \in 0..c |-> IF d = 0 THEN s ELSE P(f[d - 1], d)]
  BY <1>5
<1> HIDE DEF f
<1>7. f[0] = s /\ \A d \in 1..c : f[d] = P(f[d - 1], d)
  BY <1>1, <1>6
<1> QED BY <1>2, <1>7 DEF P, s

-----------------------------------------------------------------------------
(* _allocForTensor.                                                         *)

IsRead(t) == \E c \in Commands : Reads(c, t)

\* Group g can be planned: what has a memory object left is static, or an input
\* that is read, whose node is gone as soon as the heap is reset.
MayPlan(q, g, ai) ==
    /\ q \in PStates
    /\ \A t \in Tensors :
         /\ q.mem[t] = Static => StorageType(t) = "STATIC"
         /\ q.mem[t] \notin {None, Static} => t \in Inputs /\ q.group[t] = g
         /\ t \in Inputs /\ q.mem[t] # None => IsRead(t)
    /\ \A u \in Inputs : q.group[u] = g => ai = TRUE

Begin(q, g) == [ResetHeap(q, g) EXCEPT !.use = UseCounts, !.code = "NO_ERROR"]

\* What resetting the heap of group g leaves.
LEMMA ResetHeapIs ==
  ASSUME NEW q \in PStates, NEW g \in 0..1
  PROVE  LET r == ResetHeap(q, g)
         IN  /\ r \in PStates
             /\ r.group = q.group /\ r.fixed = q.fixed /\ r.shape = q.shape /\ r.use = q.use
             /\ r.code = q.code /\ r.unknown = q.unknown
             /\ r.heap[g] = EmptyHeap /\ \A h \in 0..1 : h # g => r.heap[h] = q.heap[h]
             /\ \A t \in Tensors :
                  /\ r.mem[t] = IF q.group[t] = g /\ q.mem[t] > 0 THEN Gone ELSE q.mem[t]
                  /\ r.place[t] = IF q.group[t] = g THEN 0 ELSE q.place[t]
             /\ \A c \in Commands : r.scratchAt[c] = IF Group(q, c) = g THEN 0 ELSE q.scratchAt[c]
<1> DEFINE m == [t \in Tensors |-> IF q.group[t] = g /\ q.mem[t] > 0 THEN Gone ELSE q.mem[t]]
           l == [t \in Tensors |-> IF q.group[t] = g THEN 0 ELSE q.place[t]]
           s == [c \in Commands |-> IF Group(q, c) = g THEN 0 ELSE q.scratchAt[c]]
           h == [q.heap EXCEPT ![g] = EmptyHeap]
           r == [q EXCEPT !.heap = h, !.mem = m, !.place = l, !.scratchAt = s]
<1>1. /\ q.heap \in [0..1 -> Heaps] /\ q.mem \in [Tensors -> Nodes \cup {None, Static, Gone}]
      /\ q.place \in [Tensors -> 0..MaxAllocs] /\ q.scratchAt \in [Commands -> 0..MaxAllocs]
  BY DEF PStates
<1>2. EmptyHeap \in Heaps /\ 0 \in 0..MaxAllocs
  BY NoNodes, HeapAssumption DEF HeapOK, ListOf
<1>3. ResetHeap(q, g) = r
  BY DEF ResetHeap, PStates
<1>4. /\ h \in [0..1 -> Heaps] /\ h[g] = EmptyHeap /\ \A k \in 0..1 : k # g => h[k] = q.heap[k]
  BY <1>1, <1>2
<1>5. m \in [Tensors -> Nodes \cup {None, Static, Gone}]
  BY <1>1
<1>6. l \in [Tensors -> 0..MaxAllocs] /\ s \in [Commands -> 0..MaxAllocs]
  BY <1>1, <1>2
<1>7. /\ \A t \in Tensors :
           /\ m[t] = IF q.group[t] = g /\ q.mem[t] > 0 THEN Gone ELSE q.mem[t]
           /\ l[t] = IF q.group[t] = g THEN 0 ELSE q.place[t]
      /\ \A c \in Commands : s[c] = IF Group(q, c) = g THEN 0 ELSE q.scratchAt[c]
  OBVIOUS
<1> HIDE DEF m, l, s, h
<1>8. /\ r.heap = h /\ r.mem = m /\ r.place = l /\ r.scratchAt = s
      /\ r.group = q.group /\ r.fixed = q.fixed /\ r.shape = q.shape /\ r.use = q.use
      /\ r.code = q.code /\ r.unknown = q.unknown
  BY DEF PStates
<1>9. r \in PStates
  BY <1>4, <1>5, <1>6 DEF PStates
<1> HIDE DEF r
<1> QED BY <1>3, <1>4, <1>7, <1>8, <1>9

\* Tensors are counted as often as they are read.
LEMMA CountsAre ==
  ASSUME NetOK
  PROVE  /\ UseCounts \in [Tensors -> 0..2 * NumCommands]
         /\ \A t \in Tensors : UseCounts[t] = Cardinality(OfTensor(AllReads, t))
         /\ \A t \in Tensors : IsRead(t) => UseCounts[t] > 0
         /\ \A L \in SUBSET AllReads, t \in Tensors : Cardinality(OfTensor(L, t)) > 0 => IsRead(t)
         /\ \A t \in Tensors : Cardinality(OfTensor({}, t)) = 0
         /\ ReadsFrom(1) = AllReads /\ ReadsFrom(NumCommands + 1) = {} /\ SeenBy(0) = {} /\ 1..0 = {}
<1>1. \A t \in Tensors : UseCounts[t] = Cardinality(OfTensor(AllReads, t))
  <2> TAKE t \in Tensors
  <2>1. {r \in Commands \X (1..2) : r[2] \in DOMAIN net.ins[r[1]] /\ net.ins[r[1]][r[2]] = t}
        = OfTensor(AllReads, t)
    BY DEF AllReads, OfTensor
  <2> QED BY <2>1 DEF UseCounts
<1>2. \A t \in Tensors : UseCounts[t] \in 0..2 * NumCommands
  BY <1>1, ReadsAre
<1>3. UseCounts \in [Tensors -> 0..2 * NumCommands]
  <2>1. UseCounts = [t \in Tensors |-> UseCounts[t]]
    BY DEF UseCounts
  <2> QED BY <1>2, <2>1
<1>4. ASSUME NEW t \in Tensors, IsRead(t) PROVE UseCounts[t] > 0
  <2>1. PICK c \in Commands : Reads(c, t)
    BY <1>4 DEF IsRead
  <2>2. PICK i \in DOMAIN net.ins[c] : net.ins[c][i] = t
    BY <2>1, InputsOf
  <2>3. <<c, i>> \in AllReads /\ <<c, i>>[1] = c /\ <<c, i>>[2] = i
    BY ReadsAre
  <2>4. Cardinality(OfTensor(AllReads, t)) > 0
    BY <2>2, <2>3, ReadOff
  <2> QED BY <1>1, <2>4
<1>5. ASSUME NEW L \in SUBSET AllReads, NEW t \in Tensors, Cardinality(OfTensor(L, t)) > 0 PROVE IsRead(t)
  <2>1. OfTensor(L, t) # {}
    BY <1>5, FS_EmptySet
  <2>2. PICK r \in L : net.ins[r[1]][r[2]] = t
    BY <2>1 DEF OfTensor
  <2>3. r[1] \in Commands /\ r[2] \in DOMAIN net.ins[r[1]]
    BY ReadsAre
  <2> QED BY <2>2, <2>3, InputsOf DEF IsRead
<1>6. \A t \in Tensors : Cardinality(OfTensor({}, t)) = 0
  <2>1. \A t \in Tensors : OfTensor({}, t) = {}
    BY DEF OfTensor
  <2> QED BY <2>1, FS_EmptySet
<1>7. \A r \in AllReads : r[1] \in Nat /\ r[1] >= 1 /\ r[1] <= NumCommands
  BY ReadsAre, Numbers
<1>8. ReadsFrom(1) = AllReads
  BY <1>7 DEF ReadsFrom
<1>9. ReadsFrom(NumCommands + 1) = {}
  BY <1>7, Numbers DEF ReadsFrom
<1>10. SeenBy(0) = {}
  BY Numbers DEF SeenBy
<1>11. 1..0 = {}
  OBVIOUS
<1> QED BY <1>1, <1>3, <1>4, <1>5, <1>6, <1>8, <1>9, <1>10, <1>11

\* Nothing is planned yet.
LEMMA BeginOK ==
  ASSUME NetOK, NEW q, NEW g \in 0..1, NEW ai, MayPlan(q, g, ai)
  PROVE  LET b == Begin(q, g) IN Stage(b, b, g, 0) /\ b.unknown = q.unknown
<1> DEFINE z == ResetHeap(q, g)
           b == Begin(q, g)
<1>1. /\ q \in PStates
      /\ \A t \in Tensors :
           /\ q.mem[t] = Static => StorageType(t) = "STATIC"
           /\ q.mem[t] \notin {None, Static} => t \in Inputs /\ q.group[t] = g
           /\ t \in Inputs /\ q.mem[t] # None => IsRead(t)
  BY DEF MayPlan
<1>2. /\ z \in PStates
      /\ z.group = q.group /\ z.fixed = q.fixed /\ z.unknown = q.unknown
      /\ z.heap[g] = EmptyHeap
      /\ \A t \in Tensors :
           /\ z.mem[t] = IF q.group[t] = g /\ q.mem[t] > 0 THEN Gone ELSE q.mem[t]
           /\ z.place[t] = IF q.group[t] = g THEN 0 ELSE q.place[t]
      /\ \A c \in Commands : z.scratchAt[c] = IF Group(q, c) = g THEN 0 ELSE q.scratchAt[c]
  BY <1>1, ResetHeapIs
<1>3. b = [z EXCEPT !.use = UseCounts, !.code = "NO_ERROR"]
  BY DEF Begin
<1> HIDE DEF z
<1>4. /\ b.heap = z.heap /\ b.mem = z.mem /\ b.group = z.group /\ b.fixed = z.fixed /\ b.shape = z.shape
      /\ b.place = z.place /\ b.scratchAt = z.scratchAt /\ b.unknown = z.unknown
      /\ b.use = UseCounts /\ b.code = "NO_ERROR"
  BY <1>2, <1>3 DEF PStates
<1>5. b \in PStates
  BY <1>2, <1>3, CountsAre DEF PStates
<1> HIDE DEF b
<1>6. b.mem \in [Tensors -> Nodes \cup {None, Static, Gone}] /\ q.mem \in [Tensors -> Nodes \cup {None, Static, Gone}]
      /\ \A n \in Nodes : n > 0 /\ n \in Nat
  BY <1>1, <1>5, HeapAssumption DEF PStates, Nodes
<1>7. \A t \in Tensors : b.group[t] = g => ~(b.mem[t] > 0) /\ b.place[t] = 0
  <2> SUFFICES ASSUME NEW t \in Tensors, b.group[t] = g PROVE ~(b.mem[t] > 0) /\ b.place[t] = 0
    OBVIOUS
  <2>1. q.group[t] = g
    BY <1>2, <1>4
  <2>2. CASE q.mem[t] > 0
    BY <1>2, <1>4, <2>1, <2>2 DEF Gone
  <2>3. CASE ~(q.mem[t] > 0)
    BY <1>2, <1>4, <2>1, <2>3
  <2> QED BY <2>2, <2>3
<1>8. \A c \in Commands : Group(b, c) = g => b.scratchAt[c] = 0
  <2>1. \A c \in Commands : Group(b, c) = Group(q, c)
    BY <1>2, <1>4 DEF Group
  <2> QED BY <1>2, <1>4, <2>1
<1>9. Given(b, g) = {} /\ Holding(b, g) = {}
  <2>1. \A u \in Given(b, g) : FALSE
    BY <1>7, <1>8, GivenIs
  <2> QED BY <1>7, <2>1 DEF Holding
<1>10. Booked(b, b, g)
  <2>1. Framed(b, b, g)
    BY DEF Framed
  <2>2. b.heap[g] = EmptyHeap
    BY <1>2, <1>4
  <2>3. Roomy(EmptyHeap, NodeOf(b), Need(b), {}, {}, Clash)
    BY NoNodes DEF Roomy, Kept
  <2>4. EmptyHeap.chunks = 0 /\ Cardinality({}) = 0
    BY FS_EmptySet DEF EmptyHeap
  <2> QED BY <1>5, <1>9, <2>1, <2>2, <2>3, <2>4 DEF Booked
<1>11. ASSUME NEW t \in Tensors PROVE TensorOK(b, g, {}, t)
  <2>1. /\ q.mem[t] = Static => StorageType(t) = "STATIC"
        /\ q.mem[t] \notin {None, Static} => t \in Inputs /\ q.group[t] = g
        /\ t \in Inputs /\ q.mem[t] # None => IsRead(t)
    BY <1>1
  <2>2. b.mem[t] = IF q.group[t] = g /\ q.mem[t] > 0 THEN Gone ELSE q.mem[t]
    BY <1>2, <1>4
  <2>3. b.group[t] = q.group[t]
    BY <1>2, <1>4
  <2>4. CASE q.group[t] = g /\ q.mem[t] > 0
    <3>1. b.mem[t] = Gone /\ q.mem[t] \in Nodes
      BY <1>6, <2>2, <2>4 DEF None, Static, Gone
    <3>2. q.mem[t] \notin {None, Static}
      BY <1>6, <3>1 DEF None, Static
    <3>3. t \in Inputs /\ b.use[t] > 0
      BY <1>4, <2>1, <3>2, CountsAre
    <3> QED BY <1>7, <2>3, <2>4, <3>1, <3>3 DEF TensorOK, Static, Gone
  <2>5. CASE ~(q.group[t] = g /\ q.mem[t] > 0)
    <3>1. b.mem[t] = q.mem[t]
      BY <2>2, <2>5
    <3>2. t \in Inputs => b.mem[t] = None \/ b.use[t] > 0
      BY <1>4, <2>1, <3>1, CountsAre
    <3>3. q.mem[t] = Gone => t \in Inputs
      BY <2>1 DEF Gone, None, Static
    <3>4. q.group[t] # g => q.mem[t] \in {None, Static}
      BY <2>1
    <3> QED BY <1>7, <2>1, <2>3, <3>1, <3>2, <3>3, <3>4 DEF TensorOK
  <2> QED BY <2>4, <2>5
<1>12. Underway(b, b, g, {}, {}, AllReads)
  <2>1. \A c \in Commands : Group(b, c) = g => (b.scratchAt[c] # 0 <=> c \in {} /\ net.scratch[c] > 0)
    BY <1>8
  <2> QED BY <1>4, <1>10, <1>11, <2>1, CountsAre DEF Underway
<1>13. Timely(b, g, 0)
  BY <1>7 DEF Timely
<1>14. SeenBy(0) = {} /\ 1..0 = {} /\ ReadsFrom(0 + 1) = AllReads
  BY CountsAre
<1>15. Stage(b, b, g, 0)
  <2>1. Underway(b, b, g, SeenBy(0), 1..0, ReadsFrom(0 + 1))
    BY <1>12, <1>14
  <2> QED BY <1>4, <1>13, <2>1 DEF Stage
<1> QED BY <1>2, <1>4, <1>15 DEF b

\* The planning of group g was given up, at an operator without memory.
Stopped(b, q, g, failing) ==
    /\ q.code = "OP_FAILED" /\ failing \in Commands
    /\ \E A, S, L : L \subseteq AllReads /\ Underway(b, q, g, A, S, L)

\* All commands are planned, or one of them could not be.
LEMMA PlannedOK ==
  ASSUME NetOK, NEW b, NEW g \in 0..1, NEW ai, NEW x, Stage(b, b, g, 0),
         \A u \in Inputs : b.group[u] = g => ai = TRUE
  PROVE  LET r == PlanAll(b, g, ai, x) IN Stage(b, r, g, NumCommands) \/ Stopped(b, r, g, x)
<1>1. PICK f : /\ f[0] = b /\ PlanAll(b, g, ai, x) = f[NumCommands]
               /\ \A c \in Commands : f[c] = PlanCommand(f[c - 1], c, g, ai, x)
  BY PlanAllSteps
<1> DEFINE Good(c) == Stage(b, f[c], g, c) \/ Stopped(b, f[c], g, x)
           T == {c \in 0..NumCommands : ~Good(c)}
<1>2. NumCommands \in Nat /\ NumCommands \in 0..NumCommands /\ T \in SUBSET Nat
  BY Numbers
<1>3. T = {}
  <2> SUFFICES ASSUME T # {} PROVE FALSE
    OBVIOUS
  <2>1. PICK c \in T : \A y \in T : c <= y
    <3> HIDE DEF T
    <3> QED BY <1>2, LeastNat
  <2>2. c \in 0..NumCommands /\ ~Good(c)
    BY <2>1
  <2>3. c # 0
    BY <1>1, <2>2
  <2>4. c \in Commands /\ c - 1 \in 0..NumCommands /\ ~(c <= c - 1)
    BY <1>2, <2>2, <2>3 DEF Commands
  <2>5. Good(c - 1)
    BY <2>1, <2>4
  <2>6. f[c] = PlanCommand(f[c - 1], c, g, ai, x)
    BY <1>1, <2>4
  <2> DEFINE q == f[c - 1]
             r == PlanCommand(q, c, g, ai, x)
  <2>7. CASE Stage(b, q, g, c - 1)
    <3>1. IF c = x /\ Group(b, c) = g
          THEN r.code = "OP_FAILED" /\ \E A, S, L : L \subseteq AllReads /\ Underway(b, r, g, A, S, L)
          ELSE Stage(b, r, g, c)
      <4> HIDE DEF q
      <4> QED BY <2>4, <2>7, CommandOK
    <3> HIDE DEF r
    <3>2. Stage(b, r, g, c) \/ Stopped(b, r, g, x)
      BY <2>4, <3>1 DEF Stopped
    <3> QED BY <2>2, <2>6, <3>2 DEF r, q
  <2>8. CASE Stopped(b, q, g, x)
    <3>1. q.code # "NO_ERROR"
      BY <2>8 DEF Stopped
    <3>2. r = q
      <4> HIDE DEF q
      <4> QED BY <3>1 DEF PlanCommand
    <3> QED BY <2>2, <2>6, <2>8, <3>2
  <2> QED BY <2>5, <2>7, <2>8
<1> HIDE DEF Good
<1>4. Good(NumCommands)
  BY <1>2, <1>3
<1> QED BY <1>1, <1>4 DEF Good

-----------------------------------------------------------------------------
(* _recycleDynamicMemory.                                                   *)

\* r is q without some memory objects.
Less(q, r) == /\ r.code = q.code /\ r.fixed = q.fixed
              /\ \A t \in Tensors : r.mem[t] = q.mem[t] \/ r.mem[t] = None

\* A tensor's memory is given back, whoever had it.
DropsIn(b, q, r, g, t) ==
    /\ Underway(b, r, g, SeenBy(NumCommands), 1..NumCommands, {}) /\ Less(q, r)
    /\ StorageType(t) = "DYNAMIC" => r.mem[t] = None

LEMMA DropsInOK ==
  ASSUME NetOK, NEW b, NEW q, NEW g \in 0..1, NEW t \in Tensors,
         Underway(b, q, g, SeenBy(NumCommands), 1..NumCommands, {})
  PROVE  DropsIn(b, q, DropDynamic(q, t), g, t)
<1> DEFINE A == SeenBy(NumCommands)
           S == 1..NumCommands
           L == {}
           r == DropDynamic(q, t)
<1>1. Underway(b, q, g, A, S, L)
  OBVIOUS
<1>4. Drops(b, q, r, g, A, S, L, t)
  <2> HIDE DEF A, S, L
  <2> QED BY <1>1, DropDynamicOK
<1>2. /\ Underway(b, r, g, A, S, L) /\ r.code = q.code
      /\ \A u \in Tensors : r.mem[u] = q.mem[u] \/ r.mem[u] = None
      /\ StorageType(t) = "DYNAMIC" => r.mem[t] = None
  <2> HIDE DEF r
  <2> QED BY <1>4 DEF Drops
<1> HIDE DEF r
<1>3. r.fixed = b.fixed /\ q.fixed = b.fixed
  BY <1>1, <1>2 DEF Underway, Booked, Framed
<1> QED BY <1>2, <1>3 DEF DropsIn, Less, r

\* Command c gives everything back.
LEMMA RecycleInOK ==
  ASSUME NetOK, NEW b, NEW q, NEW g \in 0..1, NEW c \in Commands,
         Underway(b, q, g, SeenBy(NumCommands), 1..NumCommands, {})
  PROVE  LET r == RecycleIn(q, c, g)
         IN  /\ Underway(b, r, g, SeenBy(NumCommands), 1..NumCommands, {}) /\ Less(q, r)
             /\ Group(b, c) = g => \A t \in Tensors : t = Out(c) \/ Reads(c, t) =>
                                     (StorageType(t) = "DYNAMIC" => r.mem[t] = None)
<1> DEFINE U(z) == Underway(b, z, g, SeenBy(NumCommands), 1..NumCommands, {})
           o == DropDynamic(q, Out(c))
           i == net.ins[c][1]
           j == net.ins[c][2]
           one == DropDynamic(o, i)
           two == DropDynamic(one, j)
           r == RecycleIn(q, c, g)
<1>1. q.fixed = b.fixed
  BY DEF Underway, Booked, Framed
<1>2. Group(q, c) = Group(b, c)
  BY <1>1 DEF Group
<1>3. CASE Group(b, c) # g
  <2>1. r = q
    BY <1>2, <1>3 DEF RecycleIn
  <2>2. Less(q, q)
    BY DEF Less
  <2> HIDE DEF r
  <2>3. U(r) /\ Less(q, r)
    BY <2>1, <2>2
  <2> QED BY <1>3, <2>3 DEF r
<1>4. CASE Group(b, c) = g
  <2>1. r = IF Len(net.ins[c]) = 1 THEN one ELSE two
    BY <1>2, <1>4 DEF RecycleIn, Recycle, EachInput
  <2>2. Out(c) \in Tensors /\ i \in Tensors
    BY Numbers, InputsOf
  <2>3. U(q)
    OBVIOUS
  <2>4. DropsIn(b, q, o, g, Out(c))
    BY <2>2, <2>3, DropsInOK
  <2>5. U(o) /\ Less(q, o) /\ (StorageType(Out(c)) = "DYNAMIC" => o.mem[Out(c)] = None)
    BY <2>4 DEF DropsIn
  <2> HIDE DEF o, r
  <2>6. DropsIn(b, o, one, g, i)
    <3> HIDE DEF i
    <3> QED BY <2>2, <2>5, DropsInOK
  <2>7. U(one) /\ Less(o, one) /\ (StorageType(i) = "DYNAMIC" => one.mem[i] = None)
    BY <2>6 DEF DropsIn
  <2> HIDE DEF one, U
  <2>8. Less(q, one) /\ (StorageType(Out(c)) = "DYNAMIC" => one.mem[Out(c)] = None)
    BY <2>2, <2>5, <2>7 DEF Less
  <2>9. CASE Len(net.ins[c]) = 1
    <3>1. \A t : Reads(c, t) => t = i
      <4>1. DOMAIN net.ins[c] = 1..1 /\ \A k \in 1..1 : k = 1
        BY <2>9, InputsOf
      <4> QED BY <4>1, InputsOf
    <3>2. r = one
      BY <2>1, <2>9
    <3> QED BY <2>7, <2>8, <3>1, <3>2 DEF U, r
  <2>10. CASE Len(net.ins[c]) # 1
    <3>1. j \in Tensors /\ Len(net.ins[c]) = 2
      BY <2>10, InputsOf
    <3>2. \A t : Reads(c, t) => t = i \/ t = j
      <4>1. DOMAIN net.ins[c] = 1..2 /\ \A k \in 1..2 : k = 1 \/ k = 2
        BY <3>1, InputsOf
      <4> QED BY <4>1, InputsOf
    <3>3. r = two
      BY <2>1, <2>10
    <3>4. DropsIn(b, one, two, g, j)
      <4> HIDE DEF j
      <4> QED BY <2>7, <3>1, DropsInOK DEF U
    <3>5. U(two) /\ Less(one, two) /\ (StorageType(j) = "DYNAMIC" => two.mem[j] = None)
      BY <3>4 DEF DropsIn, U
    <3> HIDE DEF two, i, j
    <3>6. Less(q, two)
      BY <2>8, <3>5 DEF Less
    <3>7. \A t \in Tensors : t = Out(c) \/ t = i \/ t = j => (StorageType(t) = "DYNAMIC" => two.mem[t] = None)
      BY <2>7, <2>8, <3>5 DEF Less
    <3> QED BY <3>2, <3>3, <3>5, <3>6, <3>7 DEF U, r
  <2> QED BY <2>9, <2>10
<1> QED BY <1>3, <1>4

\* Everything is given back.
LEMMA RecycledOK ==
  ASSUME NetOK, NEW b, NEW q, NEW g \in 0..1, Stage(b, q, g, NumCommands)
  PROVE  LET r == RecycleAll(q, g)
         IN  /\ Underway(b, r, g, SeenBy(NumCommands), 1..NumCommands, {})
             /\ \A c \in Commands : Group(b, c) = g => \A t \in Tensors : t = Out(c) \/ Reads(c, t) =>
                                     (StorageType(t) = "DYNAMIC" => r.mem[t] = None)
<1>1. PICK f : /\ f[0] = q /\ RecycleAll(q, g) = f[NumCommands]
               /\ \A c \in Commands : f[c] = RecycleIn(f[c - 1], c, g)
  BY RecycleAllSteps
<1> DEFINE U(z) == Underway(b, z, g, SeenBy(NumCommands), 1..NumCommands, {})
           Back(z, c) == Group(b, c) = g => \A t \in Tensors : t = Out(c) \/ Reads(c, t) =>
                                     (StorageType(t) = "DYNAMIC" => z.mem[t] = None)
           Good(c) == U(f[c]) /\ \A d \in Commands : d <= c => Back(f[c], d)
           T == {c \in 0..NumCommands : ~Good(c)}
<1>2. NumCommands \in Nat /\ NumCommands \in 0..NumCommands /\ T \in SUBSET Nat
      /\ \A d \in Commands : d \in Nat /\ d >= 1 /\ d <= NumCommands
  BY Numbers
<1>3. T = {}
  <2> SUFFICES ASSUME T # {} PROVE FALSE
    OBVIOUS
  <2>1. PICK c \in T : \A y \in T : c <= y
    <3> HIDE DEF T
    <3> QED BY <1>2, LeastNat
  <2>2. c \in 0..NumCommands /\ ~Good(c)
    BY <2>1
  <2>3. c # 0
    <3>1. U(q)
      BY CountsAre DEF Stage
    <3>2. \A d \in Commands : ~(d <= 0)
      BY <1>2
    <3> HIDE DEF U, Back
    <3> QED BY <1>1, <2>2, <3>1, <3>2
  <2>4. c \in Commands /\ c - 1 \in 0..NumCommands /\ ~(c <= c - 1)
    BY <1>2, <2>2, <2>3 DEF Commands
  <2>5. Good(c - 1)
    BY <2>1, <2>4
  <2>6. f[c] = RecycleIn(f[c - 1], c, g)
    BY <1>1, <2>4
  <2> DEFINE z == f[c - 1]
             r == RecycleIn(z, c, g)
  <2>7. U(r) /\ Less(z, r) /\ Back(r, c)
    <3>1. U(z)
      BY <2>5
    <3> HIDE DEF z
    <3> QED BY <2>4, <3>1, RecycleInOK
  <2>8. \A d \in Commands : d <= c => Back(r, d)
    <3> SUFFICES ASSUME NEW d \in Commands, d <= c PROVE Back(r, d)
      OBVIOUS
    <3> HIDE DEF r
    <3>1. CASE d = c
      BY <2>7, <3>1
    <3>2. CASE d # c
      <4>1. d <= c - 1
        BY <1>2, <2>4, <3>2
      <4>2. Back(z, d)
        BY <2>5, <4>1
      <4> HIDE DEF z
      <4> QED BY <2>7, <4>2 DEF Less
    <3> QED BY <3>1, <3>2
  <2> HIDE DEF U, Back
  <2> QED BY <2>2, <2>6, <2>7, <2>8
<1> HIDE DEF Good
<1>4. Good(NumCommands)
  BY <1>2, <1>3
<1> QED BY <1>1, <1>2, <1>4 DEF Good

-----------------------------------------------------------------------------
(* What planning a group promises.                                          *)

\* Every tensor of group g that needs memory has got it, and so has every
\* command that takes some for itself.
Complete(q, g) ==
    /\ \A t \in Tensors : /\ q.group[t] = g /\ StorageType(t) # "STATIC"
                          /\ t \in Inputs => IsRead(t)
                          => q.place[t] # 0
    /\ \A c \in Commands : Group(q, c) = g /\ net.scratch[c] > 0 => q.scratchAt[c] # 0

\* The plan of buffer g: all memory was given back, and whoever clashes is apart.
PlanOK(q, g) ==
    Roomy(q.heap[g], NodeOf(q), Need(q), Given(q, g), {}, Clash) /\ Complete(q, g)

AllReturned(q) == \A t \in Tensors : q.mem[t] \in {None, Static}

\* Memory objects between two calls.
MemOK(q) == \A t \in Tensors : /\ q.mem[t] = Static => StorageType(t) = "STATIC"
                               /\ q.group[t] # 0 => q.mem[t] \in {None, Static}
                               /\ t \in Inputs /\ q.mem[t] # None => IsRead(t)

\* Only commands of group g work on the tensors of group g.
Cover(q, g) == \A t \in Tensors : t \notin Inputs /\ q.group[t] = g =>
                  \E c \in Commands : Group(q, c) = g /\ (t = Out(c) \/ Reads(c, t))

\* The end of a plan.
LEMMA EndOK ==
  ASSUME NetOK, NEW b, NEW r, NEW g \in 0..1, Cover(b, g),
         Underway(b, r, g, SeenBy(NumCommands), 1..NumCommands, {}),
         \A c \in Commands : Group(b, c) = g => \A t \in Tensors : t = Out(c) \/ Reads(c, t) =>
                                     (StorageType(t) = "DYNAMIC" => r.mem[t] = None)
  PROVE  ResizeEnd(r.heap[g]) = "NO_ERROR" /\ AllReturned(r) /\ (~r.unknown => PlanOK(r, g))
<1>1. /\ Booked(b, r, g) /\ r \in PStates
      /\ \A t \in Tensors : r.use[t] = Cardinality(OfTensor({}, t))
      /\ \A c \in Commands : Group(r, c) = g => (r.scratchAt[c] # 0 <=> c \in 1..NumCommands /\ net.scratch[c] > 0)
      /\ \A t \in Tensors : TensorOK(r, g, SeenBy(NumCommands), t)
  BY DEF Underway, Booked
<1>2. /\ r.group = b.group /\ r.fixed = b.fixed
      /\ Roomy(r.heap[g], NodeOf(r), Need(r), Given(r, g), Holding(r, g), Clash)
  BY <1>1 DEF Booked, Framed
<1>3. r.mem \in [Tensors -> Nodes \cup {None, Static, Gone}] /\ \A n \in Nodes : n > 0
  BY <1>1, HeapAssumption DEF PStates, Nodes
<1>4. \A t \in Tensors : r.use[t] = 0
  BY <1>1, CountsAre
<1>5. ASSUME NEW t \in Tensors PROVE r.mem[t] \in {None, Static}
  <2>1. TensorOK(r, g, SeenBy(NumCommands), t)
    BY <1>1
  <2>2. CASE r.group[t] # g
    BY <2>1, <2>2 DEF TensorOK
  <2>3. CASE t \in Inputs /\ r.group[t] = g
    <3>1. ~(r.use[t] > 0)
      BY <1>4
    <3> QED BY <2>1, <2>3, <3>1 DEF TensorOK
  <2>4. CASE t \notin Inputs /\ r.group[t] = g
    <3>1. r.mem[t] # Gone
      BY <2>1, <2>4 DEF TensorOK
    <3>2. StorageType(t) = "STATIC" \/ StorageType(t) = "DYNAMIC"
      BY <2>4, StorageIs
    <3>3. CASE StorageType(t) = "STATIC"
      <4>1. r.place[t] = 0 /\ (r.mem[t] > 0 => r.mem[t] = r.place[t])
        BY <2>1, <2>4, <3>3 DEF TensorOK
      <4>2. ~(r.mem[t] > 0)
        BY <4>1
      <4> QED BY <1>3, <3>1, <4>2
    <3>4. CASE StorageType(t) = "DYNAMIC"
      <4>1. b.group[t] = g
        BY <1>2, <2>4
      <4>2. PICK c \in Commands : Group(b, c) = g /\ (t = Out(c) \/ Reads(c, t))
        BY <2>4, <4>1 DEF Cover
      <4> QED BY <3>4, <4>2
    <3> QED BY <3>2, <3>3, <3>4
  <2> QED BY <2>2, <2>3, <2>4
<1>6. Holding(r, g) = {}
  <2>1. \A t \in Tensors : ~(r.mem[t] > 0)
    BY <1>5 DEF None, Static
  <2> QED BY <2>1 DEF Holding
<1>7. Roomy(r.heap[g], NodeOf(r), Need(r), Given(r, g), {}, Clash)
  BY <1>2, <1>6
<1>8. HeapOK(r.heap[g]) /\ Used(r.heap[g]) = {}
  BY <1>7 DEF Roomy
<1>9. ResizeEnd(r.heap[g]) = "NO_ERROR"
  BY <1>8, NoneHeld DEF ResizeEnd
<1>10. ASSUME ~r.unknown PROVE Complete(r, g)
  <2>1. ASSUME NEW t \in Tensors, r.group[t] = g, StorageType(t) # "STATIC", t \in Inputs => IsRead(t)
        PROVE  r.place[t] # 0
    <3>1. t \in SeenBy(NumCommands)
      <4>1. \A c \in Commands : c <= NumCommands
        BY Numbers
      <4>2. \E c \in Commands : t = Out(c) \/ Reads(c, t)
        BY <2>1, Numbers DEF IsRead
      <4> QED BY <4>1, <4>2 DEF SeenBy
    <3>2. TensorOK(r, g, SeenBy(NumCommands), t)
      BY <1>1
    <3>3. r.mem[t] # Gone
      BY <1>5 DEF None, Static, Gone
    <3> QED BY <1>10, <2>1, <3>1, <3>2, <3>3 DEF TensorOK
  <2>2. \A c \in Commands : Group(r, c) = g /\ net.scratch[c] > 0 => r.scratchAt[c] # 0
    BY <1>1 DEF Commands
  <2> QED BY <2>1, <2>2 DEF Complete
<1> QED BY <1>5, <1>7, <1>9, <1>10 DEF AllReturned, PlanOK

\* What is left of the memory objects while group g is planned.
LEMMA MemUnderway ==
  ASSUME NetOK, NEW b, NEW q, NEW g \in 0..1, NEW A, NEW S, NEW L \in SUBSET AllReads,
         Underway(b, q, g, A, S, L), NEW t \in Tensors
  PROVE  /\ q.mem[t] = Static => StorageType(t) = "STATIC"
         /\ q.group[t] # g => q.mem[t] \in {None, Static}
         /\ t \in Inputs /\ q.mem[t] # None => IsRead(t)
<1>1. TensorOK(q, g, A, t) /\ q.use[t] = Cardinality(OfTensor(L, t))
  BY DEF Underway
<1>2. ASSUME t \in Inputs, q.mem[t] # None PROVE IsRead(t)
  <2>1. CASE q.group[t] = g
    <3>1. q.use[t] > 0
      BY <1>1, <1>2, <2>1 DEF TensorOK
    <3> QED BY <1>1, <3>1, CountsAre
  <2>2. CASE q.group[t] # g
    <3>1. q.mem[t] = Static
      BY <1>1, <1>2, <2>2 DEF TensorOK
    <3>2. StorageType(t) = "STATIC"
      BY <1>1, <3>1 DEF TensorOK
    <3> QED BY <1>2, <3>2, StorageIs
  <2> QED BY <2>1, <2>2
<1> QED BY <1>1, <1>2 DEF TensorOK

\* The outcome r of planning group g of q.
Outcome(q, r, g, failing) ==
    /\ r \in PStates /\ Framed(Begin(q, g), r, g)
    /\ \A t \in Tensors : /\ r.mem[t] = Static => StorageType(t) = "STATIC"
                          /\ r.group[t] # g => r.mem[t] \in {None, Static}
                          /\ t \in Inputs /\ r.mem[t] # None => IsRead(t)
    /\ \/ r.code = "NO_ERROR" /\ AllReturned(r) /\ (~r.unknown => PlanOK(r, g))
       \/ r.code = "OP_FAILED" /\ failing \in Commands

LEMMA AllocForTensorOK ==
  ASSUME NetOK, NEW q, NEW g \in 0..1, NEW ai, NEW x, MayPlan(q, g, ai), Cover(q, g)
  PROVE  Outcome(q, AllocForTensor(q, g, ai, x), g, x)
<1> DEFINE b == Begin(q, g)
           m == PlanAll(b, g, ai, x)
           z == RecycleAll(m, g)
           e == [z EXCEPT !.code = ResizeEnd(z.heap[g])]
           r == AllocForTensor(q, g, ai, x)
<1>1. q \in PStates /\ \A u \in Inputs : q.group[u] = g => ai = TRUE
  BY DEF MayPlan
<1>2. Stage(b, b, g, 0)
  BY BeginOK
<1>3. b.group = q.group /\ b.fixed = q.fixed
  <2> DEFINE h == ResetHeap(q, g)
  <2>1. h \in PStates /\ h.group = q.group /\ h.fixed = q.fixed
    BY <1>1, ResetHeapIs
  <2>2. b = [h EXCEPT !.use = UseCounts, !.code = "NO_ERROR"]
    BY DEF Begin
  <2> HIDE DEF h, b
  <2> QED BY <2>1, <2>2 DEF PStates
<1>4. r = IF m.code # "NO_ERROR" THEN m ELSE e
  BY DEF AllocForTensor, Begin
<1> HIDE DEF b
<1>5. Cover(b, g)
  BY <1>3 DEF Cover, Group
<1>6. Stage(b, m, g, NumCommands) \/ Stopped(b, m, g, x)
  <2>1. \A u \in Inputs : b.group[u] = g => ai = TRUE
    BY <1>1, <1>3
  <2> QED BY <1>2, <2>1, PlannedOK
<1> HIDE DEF m
<1>7. CASE Stopped(b, m, g, x)
  <2>1. m.code = "OP_FAILED" /\ x \in Commands
    BY <1>7 DEF Stopped
  <2>2. PICK A, S, L : L \subseteq AllReads /\ Underway(b, m, g, A, S, L)
    BY <1>7 DEF Stopped
  <2>3. m \in PStates /\ Framed(b, m, g)
    BY <2>2 DEF Underway, Booked
  <2>4. \A t \in Tensors : /\ m.mem[t] = Static => StorageType(t) = "STATIC"
                           /\ m.group[t] # g => m.mem[t] \in {None, Static}
                           /\ t \in Inputs /\ m.mem[t] # None => IsRead(t)
    BY <2>2, MemUnderway
  <2>5. Outcome(q, m, g, x)
    BY <2>1, <2>3, <2>4 DEF Outcome, b
  <2>6. r = m
    BY <1>4, <2>1
  <2> QED BY <2>5, <2>6
<1>8. CASE Stage(b, m, g, NumCommands)
  <2> DEFINE A == SeenBy(NumCommands)
             S == 1..NumCommands
  <2>1. m.code = "NO_ERROR"
    BY <1>8 DEF Stage
  <2>2. r = e
    BY <1>4, <2>1
  <2>3. /\ Underway(b, z, g, A, S, {})
        /\ \A c \in Commands : Group(b, c) = g => \A t \in Tensors : t = Out(c) \/ Reads(c, t) =>
                                     (StorageType(t) = "DYNAMIC" => z.mem[t] = None)
    BY <1>8, RecycledOK
  <2> HIDE DEF r, z
  <2>4. ResizeEnd(z.heap[g]) = "NO_ERROR" /\ AllReturned(z) /\ (~z.unknown => PlanOK(z, g))
    BY <1>5, <2>3, EndOK
  <2> HIDE DEF A, S
  <2>5. z \in PStates /\ Framed(b, z, g)
    BY <2>3 DEF Underway, Booked
  <2>6. \A t \in Tensors : /\ z.mem[t] = Static => StorageType(t) = "STATIC"
                           /\ z.group[t] # g => z.mem[t] \in {None, Static}
                           /\ t \in Inputs /\ z.mem[t] # None => IsRead(t)
    <3>1. {} \in SUBSET AllReads
      OBVIOUS
    <3> QED BY <2>3, <3>1, MemUnderway
  <2>7. /\ e.heap = z.heap /\ e.mem = z.mem /\ e.group = z.group /\ e.fixed = z.fixed /\ e.shape = z.shape
        /\ e.place = z.place /\ e.scratchAt = z.scratchAt /\ e.unknown = z.unknown
        /\ e.code = "NO_ERROR" /\ e \in PStates
    BY <2>4, <2>5 DEF PStates
  <2> HIDE DEF e
  <2>8. /\ NodeOf(e) = NodeOf(z) /\ Need(e) = Need(z) /\ Given(e, g) = Given(z, g)
    BY <2>7, SamePlan
  <2>9. Framed(b, e, g)
    BY <2>5, <2>7 DEF Framed, Clean
  <2>10. ~e.unknown => PlanOK(e, g)
    BY <2>4, <2>7, <2>8 DEF PlanOK, Complete, Group
  <2>11. AllReturned(e)
    BY <2>4, <2>7 DEF AllReturned
  <2>12. \A t \in Tensors : /\ e.mem[t] = Static => StorageType(t) = "STATIC"
                            /\ e.group[t] # g => e.mem[t] \in {None, Static}
                            /\ t \in Inputs /\ e.mem[t] # None => IsRead(t)
    BY <2>6, <2>7
  <2>13. Outcome(q, e, g, x)
    BY <2>7, <2>9, <2>10, <2>11, <2>12 DEF Outcome, b
  <2> QED BY <2>2, <2>13 DEF r
<1> QED BY <1>6, <1>7, <1>8

-----------------------------------------------------------------------------
(* The calls.                                                               *)

\* What planning buffer 0 leaves as it was in q: all that buffer 1 is made of.
Untouched(q, r) ==
    /\ q \in PStates /\ r \in PStates
    /\ r.group = q.group /\ r.fixed = q.fixed /\ r.heap[1] = q.heap[1]
    /\ \A t \in Tensors : q.group[t] # 0 => r.place[t] = q.place[t]
    /\ \A c \in Commands : Group(q, c) # 0 => r.scratchAt[c] = q.scratchAt[c]

LEMMA UntouchedTwice ==
  ASSUME NEW q, NEW r, NEW s, Untouched(q, r), Untouched(r, s)
  PROVE  Untouched(q, s)
BY DEF Untouched, Group

LEMMA UntouchedReset ==
  ASSUME NEW q \in PStates
  PROVE  Untouched(q, ResetHeap(q, 0))
<1> DEFINE r == ResetHeap(q, 0)
<1>1. /\ r \in PStates /\ r.group = q.group /\ r.fixed = q.fixed
      /\ \A h \in 0..1 : h # 0 => r.heap[h] = q.heap[h]
      /\ \A t \in Tensors : r.place[t] = IF q.group[t] = 0 THEN 0 ELSE q.place[t]
      /\ \A c \in Commands : r.scratchAt[c] = IF Group(q, c) = 0 THEN 0 ELSE q.scratchAt[c]
  BY ResetHeapIs
<1> HIDE DEF r
<1>2. Untouched(q, r)
  BY <1>1 DEF Untouched
<1> QED BY <1>2 DEF r

LEMMA UntouchedOutcome ==
  ASSUME NEW q \in PStates, NEW r, NEW x, Outcome(q, r, 0, x)
  PROVE  Untouched(q, r)
<1> DEFINE z == ResetHeap(q, 0)
           b == Begin(q, 0)
<1>1. Untouched(q, z)
  BY UntouchedReset
<1>2. b = [z EXCEPT !.use = UseCounts, !.code = "NO_ERROR"]
  BY DEF Begin
<1> HIDE DEF z
<1>3. b.group = z.group /\ b.fixed = z.fixed /\ b.heap = z.heap /\ b.place = z.place /\ b.scratchAt = z.scratchAt
  BY <1>1, <1>2 DEF Untouched, PStates
<1>4. r \in PStates /\ Framed(b, r, 0)
  BY DEF Outcome
<1> HIDE DEF b
<1>5. /\ r.group = z.group /\ r.fixed = z.fixed /\ r.heap[1] = z.heap[1]
      /\ \A t \in Tensors : z.group[t] # 0 => r.place[t] = z.place[t]
      /\ \A c \in Commands : Group(z, c) # 0 => r.scratchAt[c] = z.scratchAt[c]
  BY <1>3, <1>4 DEF Framed, Group
<1>6. Untouched(z, r)
  BY <1>1, <1>4, <1>5 DEF Untouched
<1> QED BY <1>1, <1>6, UntouchedTwice

\* A memory object without a node is dropped.
LEMMA DropNothing ==
  ASSUME NEW q \in PStates, NEW t \in Tensors, ~(q.mem[t] > 0)
  PROVE  LET r == DropMem(q, t)
         IN  /\ r \in PStates /\ r.heap = q.heap /\ r.place = q.place /\ r.scratchAt = q.scratchAt
             /\ r.group = q.group /\ r.fixed = q.fixed /\ r.shape = q.shape
             /\ r.mem[t] = None /\ \A u \in Tensors : u # t => r.mem[u] = q.mem[u]
<1> DEFINE r == DropMem(q, t)
           m == [q.mem EXCEPT ![t] = None]
<1>1. m \in [Tensors -> Nodes \cup {None, Static, Gone}] /\ m[t] = None
      /\ \A u \in Tensors : u # t => m[u] = q.mem[u]
  BY DEF PStates
<1>2. r = [q EXCEPT !.mem[t] = None, !.unknown = TRUE] \/ r = [q EXCEPT !.mem[t] = None]
  BY DEF DropMem
<1>3. r = [q EXCEPT !.mem = m, !.unknown = TRUE] \/ r = [q EXCEPT !.mem = m]
  BY <1>2 DEF PStates
<1> HIDE DEF r, m
<1>4. r \in PStates /\ r.heap = q.heap /\ r.place = q.place /\ r.scratchAt = q.scratchAt
      /\ r.group = q.group /\ r.fixed = q.fixed /\ r.shape = q.shape /\ r.mem = m
  <2>1. CASE r = [q EXCEPT !.mem = m]
    BY <1>1, <2>1 DEF PStates
  <2>2. CASE r = [q EXCEPT !.mem = m, !.unknown = TRUE]
    BY <1>1, <2>2 DEF PStates
  <2> QED BY <1>3, <2>1, <2>2
<1> QED BY <1>1, <1>4 DEF r

\* encode, up to command c: no output of buffer 0 has a memory object any more.
Encoded(q, r, c) ==
    /\ Untouched(q, r) /\ r.shape = q.shape
    /\ \A t \in Tensors : r.mem[t] = None \/ r.mem[t] = IF q.group[t] = 0 /\ q.mem[t] > 0 THEN Gone ELSE q.mem[t]
    /\ \A d \in Commands : d <= c /\ q.group[Out(d)] = 0 => r.mem[Out(d)] = None

LEMMA EncodeOK ==
  ASSUME NEW q \in PStates, NEW c \in Commands
  PROVE  Encoded(q, Encode(q, c), c)
<1> DEFINE z == ResetHeap(q, 0)
<1>1. PICK f : /\ f[0] = z /\ Encode(q, c) = f[c] /\ \A d \in 1..c : f[d] = DropOutput(f[d - 1], d)
  BY EncodeSteps
<1>2. Untouched(q, z) /\ z.shape = q.shape /\ z.group = q.group
      /\ \A t \in Tensors : z.mem[t] = IF q.group[t] = 0 /\ q.mem[t] > 0 THEN Gone ELSE q.mem[t]
  BY UntouchedReset, ResetHeapIs
<1> HIDE DEF z
<1>3. c \in Nat /\ c \in 0..c /\ c <= NumCommands /\ NumCommands \in Nat
      /\ \A d \in Commands : d \in Nat /\ d >= 1
  BY Numbers
<1> DEFINE Good(d) == Encoded(q, f[d], d)
           T == {d \in 0..c : ~Good(d)}
<1>4. T = {}
  <2> SUFFICES ASSUME T # {} PROVE FALSE
    OBVIOUS
  <2>1. PICK d \in T : \A y \in T : d <= y
    <3>1. T \in SUBSET Nat
      OBVIOUS
    <3> HIDE DEF T
    <3> QED BY <3>1, LeastNat
  <2>2. d \in 0..c /\ ~Good(d)
    BY <2>1
  <2>3. d # 0
    <3>1. Encoded(q, z, 0)
      <4>1. \A e \in Commands : ~(e <= 0)
        BY <1>3
      <4> QED BY <1>2, <4>1 DEF Encoded
    <3> QED BY <1>1, <2>2, <3>1
  <2>4. d \in Commands /\ d \in 1..c /\ d - 1 \in 0..c /\ ~(d <= d - 1)
    BY <1>3, <2>2, <2>3 DEF Commands
  <2> DEFINE x == f[d - 1]
             r == DropOutput(x, d)
  <2>5. Encoded(q, x, d - 1)
    BY <2>1, <2>4
  <2>6. f[d] = r
    BY <1>1, <2>4
  <2> HIDE DEF x
  <2>7. /\ x \in PStates /\ x.group = q.group /\ Untouched(q, x) /\ x.shape = q.shape
        /\ \A t \in Tensors : x.mem[t] = None
              \/ x.mem[t] = IF q.group[t] = 0 /\ q.mem[t] > 0 THEN Gone ELSE q.mem[t]
        /\ \A e \in Commands : e <= d - 1 /\ q.group[Out(e)] = 0 => x.mem[Out(e)] = None
    BY <2>5 DEF Encoded, Untouched
  <2>8. Out(d) \in Tensors
    BY <2>4, Numbers
  <2>9. \A e \in Commands : e <= d => e <= d - 1 \/ e = d
    BY <1>3, <2>4
  <2>10. CASE q.group[Out(d)] # 0
    <3>1. r = x
      BY <2>7, <2>10 DEF DropOutput
    <3>2. \A e \in Commands : e <= d /\ q.group[Out(e)] = 0 => x.mem[Out(e)] = None
      BY <2>7, <2>9, <2>10
    <3>3. Encoded(q, x, d)
      BY <2>7, <3>2 DEF Encoded
    <3> QED BY <2>2, <2>6, <3>1, <3>3
  <2>11. CASE q.group[Out(d)] = 0
    <3> DEFINE t == Out(d)
    <3>1. r = DropMem(x, t)
      BY <2>7, <2>11 DEF DropOutput
    <3>2. ~(x.mem[t] > 0)
      <4>1. CASE q.mem[t] > 0
        BY <2>7, <2>8, <2>11, <4>1 DEF Gone, None
      <4>2. CASE ~(q.mem[t] > 0)
        BY <2>7, <2>8, <4>2 DEF None
      <4> QED BY <4>1, <4>2
    <3>3. /\ r \in PStates /\ r.heap = x.heap /\ r.place = x.place /\ r.scratchAt = x.scratchAt
          /\ r.group = x.group /\ r.fixed = x.fixed /\ r.shape = x.shape
          /\ r.mem[t] = None /\ \A u \in Tensors : u # t => r.mem[u] = x.mem[u]
      <4> HIDE DEF t
      <4> QED BY <2>7, <2>8, <3>1, <3>2, DropNothing DEF t
    <3> HIDE DEF r
    <3>4. Untouched(x, r)
      BY <2>7, <3>3 DEF Untouched
    <3>5. Untouched(q, r)
      BY <2>7, <3>4, UntouchedTwice
    <3>6. \A u \in Tensors : r.mem[u] = None
              \/ r.mem[u] = IF q.group[u] = 0 /\ q.mem[u] > 0 THEN Gone ELSE q.mem[u]
      BY <2>7, <3>3
    <3>7. \A e \in Commands : e <= d /\ q.group[Out(e)] = 0 => r.mem[Out(e)] = None
      <4> SUFFICES ASSUME NEW e \in Commands, e <= d, q.group[Out(e)] = 0 PROVE r.mem[Out(e)] = None
        OBVIOUS
      <4>1. Out(e) \in Tensors
        BY Numbers
      <4>2. CASE Out(e) = t
        BY <3>3, <4>2
      <4>3. CASE Out(e) # t
        <5>1. e <= d - 1
          BY <2>9, <4>3
        <5> HIDE DEF t
        <5> QED BY <2>7, <3>3, <4>1, <4>3, <5>1
      <4> QED BY <4>2, <4>3
    <3>8. Encoded(q, r, d)
      BY <2>7, <3>3, <3>5, <3>6, <3>7 DEF Encoded
    <3> QED BY <2>2, <2>6, <3>8 DEF r
  <2> QED BY <2>10, <2>11
<1> HIDE DEF Good
<1>5. Good(c)
  BY <1>3, <1>4
<1> QED BY <1>1, <1>5 DEF Good

-----------------------------------------------------------------------------
(* Which command belongs to which group.                                    *)

\* The groups of tensors when the commands F are fixed.
Groups(F) == [t \in Tensors |-> IF t \in Inputs /\ ~net.inside THEN -1
                                ELSE IF \E c \in F : t = Out(c) \/ Reads(c, t) THEN 1 ELSE 0]

GroupsOK(q) == q.fixed \in {{}, Fixable} /\ q.group = Groups(q.fixed)

LEMMA GroupsAre ==
  ASSUME NetOK, NEW q \in PStates, GroupsOK(q)
  PROVE  /\ Cover(q, 0) /\ Cover(q, 1)
         /\ \A t \in Tensors : q.group[t] = 1 => t \notin net.varies /\ q.fixed # {}
         /\ \A t \in Inputs : q.group[t] # -1 => net.inside
         /\ \A t \in Tensors : q.group[t] = -1 => t \in Inputs
         /\ \A c \in Commands : Group(q, c) = 1 => q.fixed # {}
<1>1. /\ q.fixed \subseteq Commands /\ q.fixed \subseteq Fixable /\ q.group = Groups(q.fixed)
      /\ q.group \in [Tensors -> -1..1]
  BY DEF GroupsOK, PStates
<1>2. \A t \in Tensors : q.group[t] = IF t \in Inputs /\ ~net.inside THEN -1
                                      ELSE IF \E c \in q.fixed : t = Out(c) \/ Reads(c, t) THEN 1 ELSE 0
  BY <1>1 DEF Groups
<1>3. Cover(q, 0)
  <2> SUFFICES ASSUME NEW t \in Tensors, t \notin Inputs, q.group[t] = 0
               PROVE  \E c \in Commands : Group(q, c) = 0 /\ (t = Out(c) \/ Reads(c, t))
    BY DEF Cover
  <2>1. PICK c \in Commands : t = Out(c)
    BY Numbers
  <2>2. c \notin q.fixed
    BY <1>2, <2>1
  <2> QED BY <2>1, <2>2 DEF Group
<1>4. Cover(q, 1)
  <2> SUFFICES ASSUME NEW t \in Tensors, t \notin Inputs, q.group[t] = 1
               PROVE  \E c \in Commands : Group(q, c) = 1 /\ (t = Out(c) \/ Reads(c, t))
    BY DEF Cover
  <2>1. PICK c \in q.fixed : t = Out(c) \/ Reads(c, t)
    BY <1>2
  <2> QED BY <1>1, <2>1 DEF Group
<1>5. ASSUME NEW t \in Tensors, q.group[t] = 1 PROVE t \notin net.varies /\ q.fixed # {}
  <2>1. PICK c \in q.fixed : t = Out(c) \/ Reads(c, t)
    BY <1>2, <1>5
  <2>2. c \in Commands /\ c \in Fixable
    BY <1>1
  <2>3. Out(c) \notin net.varies /\ ToSet(net.ins[c]) \cap net.varies = {}
    BY <2>2 DEF NetOK, Fixable
  <2> QED BY <2>1, <2>3 DEF Reads
<1>6. \A t \in Inputs : q.group[t] # -1 => net.inside
  BY <1>2, Numbers
<1>7. \A t \in Tensors : q.group[t] = -1 => t \in Inputs
  BY <1>2
<1>8. \A c \in Commands : Group(q, c) = 1 => q.fixed # {}
  BY DEF Group
<1> QED BY <1>3, <1>4, <1>5, <1>6, <1>7, <1>8

\* The plan of buffer 1 outlives whatever leaves buffer 1 alone, for every shape.
LEMMA PlanStays ==
  ASSUME NetOK, NEW q, NEW r, Untouched(q, r), GroupsOK(q), PlanOK(q, 1)
  PROVE  PlanOK(r, 1)
<1>1. /\ q \in PStates /\ r \in PStates
      /\ r.group = q.group /\ r.fixed = q.fixed /\ r.heap[1] = q.heap[1]
      /\ \A t \in Tensors : q.group[t] = 1 => r.place[t] = q.place[t]
      /\ \A c \in Commands : Group(q, c) = 1 => r.scratchAt[c] = q.scratchAt[c]
      /\ \A c \in Commands : Group(r, c) = Group(q, c)
  BY DEF Untouched, Group
<1> DEFINE D == Given(q, 1)
           h == q.heap[1]
<1>2. Given(r, 1) = D
  <2>1. \A t \in Tensors : r.group[t] = 1 /\ r.place[t] # 0 <=> q.group[t] = 1 /\ q.place[t] # 0
    BY <1>1
  <2>2. \A d \in Commands : Group(r, d) = 1 /\ r.scratchAt[d] # 0 <=> Group(q, d) = 1 /\ q.scratchAt[d] # 0
    BY <1>1
  <2> QED BY <2>1, <2>2 DEF Given
<1>3. Roomy(h, NodeOf(q), Need(q), D, {}, Clash) /\ Complete(q, 1)
  BY DEF PlanOK
<1>9. /\ \A t \in Tensors : NodeOf(q)[t] = q.place[t] /\ Need(q)[t] = Size(q, t)
      /\ \A c \in Commands : NodeOf(q)[Own(c)] = q.scratchAt[c] /\ Need(q)[Own(c)] = net.scratch[c]
  BY UserIs
<1>10. /\ \A t \in Tensors : NodeOf(r)[t] = r.place[t] /\ Need(r)[t] = Size(r, t)
       /\ \A c \in Commands : NodeOf(r)[Own(c)] = r.scratchAt[c] /\ Need(r)[Own(c)] = net.scratch[c]
  BY UserIs
<1>4. \A u \in D : NodeOf(r)[u] = NodeOf(q)[u] /\ Need(r)[u] = Need(q)[u]
  <2> SUFFICES ASSUME NEW u \in D PROVE NodeOf(r)[u] = NodeOf(q)[u] /\ Need(r)[u] = Need(q)[u]
    OBVIOUS
  <2>1. CASE u \in Tensors /\ q.group[u] = 1
    <3>1. Size(r, u) = Size(q, u)
      BY <1>1, <2>1, GroupsAre DEF Size
    <3> QED BY <1>1, <1>9, <1>10, <2>1, <3>1
  <2>2. CASE \E c \in Commands : u = Own(c) /\ Group(q, c) = 1
    BY <1>1, <1>9, <1>10, <2>2
  <2> QED BY <2>1, <2>2, GivenIs
<1> HIDE DEF D, h
<1> DEFINE at == NodeOf(r)
           need == Need(r)
           bt == NodeOf(q)
           beed == Need(q)
<1>5. Roomy(h, bt, beed, D, {}, Clash) /\ \A u \in D : at[u] = bt[u] /\ need[u] = beed[u]
  BY <1>3, <1>4
<1> HIDE DEF at, need, bt, beed
<1>6. Kept(h, at, need, D, Clash)
  <2> SUFFICES ASSUME NEW base, NEW E, Fits(h, base, E)
               PROVE  /\ \A u \in D : base[at[u]] + need[u] <= E
                      /\ \A u, v \in D : <<u, v>> \in Clash => Apart(base, at, need, u, v)
    BY DEF Kept
  <2>1. /\ \A u \in D : base[bt[u]] + beed[u] <= E
        /\ \A u, v \in D : <<u, v>> \in Clash => Apart(base, bt, beed, u, v)
    BY <1>5 DEF Roomy, Kept
  <2> QED BY <1>5, <2>1 DEF Apart
<1>7. Roomy(h, at, need, D, {}, Clash)
  BY <1>5, <1>6 DEF Roomy
<1>8. Complete(r, 1)
  BY <1>1, <1>3 DEF Complete
<1> QED BY <1>1, <1>2, <1>7, <1>8 DEF PlanOK, at, need, D, h

\* What holds between two calls.
BetweenCalls(q) ==
    /\ q \in PStates /\ MemOK(q) /\ GroupsOK(q)
    /\ q.fixed # {} => PlanOK(q, 1)
    /\ q.code # "INVALID_VALUE"
    /\ q.code = "NO_ERROR" => AllReturned(q) /\ (~q.unknown => PlanOK(q, 0))

LEMMA InitOK ==
  ASSUME PipelineInit
  PROVE  NetOK /\ BetweenCalls(p)
<1>1. PICK ins \in [Commands -> InsOf(NumCommands)],
           outputs \in SUBSET {Out(c) : c \in Commands},
           weight \in Weights, scratch \in Scratches,
           still \in Stills, inside \in BOOLEAN :
             /\ \A c \in Commands : ins[c] \in InsOf(c)
             /\ net = [ins |-> ins, outputs |-> outputs, weight |-> weight,
                       scratch |-> scratch, varies |-> Varies(ins, still), inside |-> inside]
  BY DEF PipelineInit
<1>2. p = NewPipeline
  BY DEF PipelineInit
<1>3. /\ net.ins = ins /\ net.outputs = outputs /\ net.weight = weight /\ net.scratch = scratch
      /\ net.varies = Varies(ins, still) /\ net.inside = inside
  BY <1>1
<1>4. ASSUME NEW c \in Commands
      PROVE  /\ ins[c] \in Seq(Tensors) /\ Len(ins[c]) \in {1, 2}
             /\ \A i \in 1..Len(ins[c]) : ins[c][i] < Out(c)
             /\ \A u \in ToSet(ins[c]) : u \in Tensors /\ u < Out(c)
  <2> DEFINE ts == 1..Out(c) - 1
  <2>1. \A t \in ts : t \in Tensors /\ t < Out(c)
    <3>1. c \in Nat /\ c <= NumCommands /\ NumCommands \in Nat /\ NumInputs \in Nat
      BY Numbers
    <3> QED BY <3>1 DEF Tensors, Out
  <2>2. ins[c] \in {<<t>> : t \in ts} \cup {s \in ts \X ts : s[1] <= s[2]}
    BY <1>1 DEF InsOf
  <2> HIDE DEF ts
  <2>3. CASE ins[c] \in {<<t>> : t \in ts}
    <3>1. PICK t \in ts : ins[c] = <<t>>
      BY <2>3
    <3>2. ins[c] \in Seq(Tensors) /\ Len(ins[c]) = 1 /\ ins[c][1] = t
      BY <2>1, <3>1
    <3>3. \A i \in 1..1 : i = 1
      OBVIOUS
    <3>4. DOMAIN ins[c] = 1..1
      BY <3>2
    <3> QED BY <2>1, <3>2, <3>3, <3>4 DEF ToSet
  <2>4. CASE ins[c] \in {s \in ts \X ts : s[1] <= s[2]}
    <3>1. PICK t \in ts, u \in ts : ins[c] = <<t, u>>
      BY <2>4
    <3>2. ins[c] \in Seq(Tensors) /\ Len(ins[c]) = 2 /\ ins[c][1] = t /\ ins[c][2] = u
      BY <2>1, <3>1
    <3>3. \A i \in 1..2 : i = 1 \/ i = 2
      OBVIOUS
    <3>4. DOMAIN ins[c] = 1..2
      BY <3>2
    <3> QED BY <2>1, <3>2, <3>3, <3>4 DEF ToSet
  <2> QED BY <2>2, <2>3, <2>4
<1>5. ins \in [Commands -> Seq(Tensors)]
  BY <1>4
<1>6. Varies(ins, still) \subseteq Tensors
      /\ \A c \in Commands : Out(c) \in Varies(ins, still) => ToSet(ins[c]) \cap Varies(ins, still) # {}
  BY <1>4, <1>5, VariesIs
<1>7. NetOK
  <2>1. \A c \in Fixable : Out(c) \notin net.varies
    BY <1>3, <1>6 DEF Fixable
  <2>2. weight \in [Tensors -> Nat \ {0}] /\ scratch \in [Commands -> Nat]
    BY SizeAssumption
  <2> QED BY <1>3, <1>4, <1>5, <1>6, <2>1, <2>2 DEF NetOK
<1>8. EmptyHeap \in Heaps /\ 0 \in 0..MaxAllocs
  BY NoNodes, HeapAssumption DEF HeapOK, ListOf
<1>9. /\ p.heap = [g \in 0..1 |-> EmptyHeap] /\ p.mem = [t \in Tensors |-> None]
      /\ p.use = [t \in Tensors |-> 0]
      /\ p.group = [t \in Tensors |-> IF t \in Inputs /\ ~net.inside THEN -1 ELSE 0]
      /\ p.fixed = {} /\ p.shape = 1 /\ p.code = "NOT_PLANNED"
  BY <1>2 DEF NewPipeline
<1>10. p \in PStates
  <2>1. 1 \in Shapes /\ 0 \in 0..2 * NumCommands
    BY PipelineAssumption
  <2> QED BY <1>2, <1>8, <2>1 DEF NewPipeline, PStates
<1>11. GroupsOK(p)
  BY <1>9 DEF GroupsOK, Groups
<1>12. MemOK(p)
  BY <1>9 DEF MemOK, None, Static
<1> QED BY <1>7, <1>9, <1>10, <1>11, <1>12 DEF BetweenCalls

-----------------------------------------------------------------------------
(* Every call.                                                              *)

\* A new shape changes nothing else.
LEMMA ShapeOnly ==
  ASSUME NEW q, BetweenCalls(q), NEW s \in Shapes
  PROVE  LET r == [q EXCEPT !.shape = s]
         IN  Untouched(q, r) /\ r.mem = q.mem /\ r.group = q.group /\ r.fixed = q.fixed
<1> DEFINE r == [q EXCEPT !.shape = s]
<1>1. q \in PStates
  BY DEF BetweenCalls
<1>2. /\ r \in PStates /\ r.mem = q.mem /\ r.group = q.group /\ r.fixed = q.fixed /\ r.heap = q.heap
      /\ r.place = q.place /\ r.scratchAt = q.scratchAt
  BY <1>1 DEF PStates
<1> HIDE DEF r
<1>3. Untouched(q, r)
  BY <1>1, <1>2 DEF Untouched
<1> QED BY <1>2, <1>3 DEF r

\* After encode the memory objects are as they may be, and only those of inputs
\* still refer to a node of buffer 0 that is gone.
LEMMA EncodedMem ==
  ASSUME NetOK, NEW q \in PStates, MemOK(q), GroupsOK(q), NEW r, NEW c \in Commands, Encoded(q, r, c)
  PROVE  /\ MemOK(r) /\ GroupsOK(r) /\ r \in PStates /\ r.group = q.group
         /\ c = NumCommands => \A t \in Tensors : r.mem[t] \notin {None, Static} => t \in Inputs /\ q.group[t] = 0
<1>1. /\ r \in PStates /\ r.group = q.group /\ r.fixed = q.fixed
      /\ \A t \in Tensors : r.mem[t] = None \/ r.mem[t] = IF q.group[t] = 0 /\ q.mem[t] > 0 THEN Gone ELSE q.mem[t]
      /\ \A d \in Commands : d <= c /\ q.group[Out(d)] = 0 => r.mem[Out(d)] = None
  BY DEF Encoded, Untouched
<1>2. \A t \in Tensors : /\ q.mem[t] = Static => StorageType(t) = "STATIC"
                         /\ q.group[t] # 0 => q.mem[t] \in {None, Static}
                         /\ t \in Inputs /\ q.mem[t] # None => IsRead(t)
  BY DEF MemOK
<1>3. ASSUME NEW t \in Tensors
      PROVE  /\ r.mem[t] = Static => q.mem[t] = Static
             /\ r.mem[t] # None => q.mem[t] # None
             /\ q.group[t] # 0 => r.mem[t] \in {None, Static}
  <2>1. CASE r.mem[t] = None
    BY <2>1 DEF None, Static
  <2>2. CASE r.mem[t] # None /\ q.group[t] = 0 /\ q.mem[t] > 0
    BY <1>1, <2>2 DEF None, Static, Gone
  <2>3. CASE r.mem[t] # None /\ ~(q.group[t] = 0 /\ q.mem[t] > 0)
    BY <1>1, <1>2, <2>3
  <2> QED BY <2>1, <2>2, <2>3
<1>4. MemOK(r)
  BY <1>1, <1>2, <1>3 DEF MemOK
<1>5. GroupsOK(r)
  BY <1>1 DEF GroupsOK
<1>6. ASSUME c = NumCommands, NEW t \in Tensors, r.mem[t] \notin {None, Static}
      PROVE  t \in Inputs /\ q.group[t] = 0
  <2>1. q.group[t] = 0
    BY <1>3, <1>6
  <2>2. t \in Inputs
    <3> SUFFICES ASSUME t \notin Inputs PROVE FALSE
      OBVIOUS
    <3>1. PICK d \in Commands : t = Out(d)
      BY Numbers
    <3>2. d <= c
      BY <1>6, Numbers
    <3> QED BY <1>1, <1>6, <2>1, <3>1, <3>2
  <2> QED BY <2>1, <2>2
<1> QED BY <1>1, <1>4, <1>5, <1>6

\* A resize that fails while it encodes.
LEMMA ResizeFailsEarlyOK ==
  ASSUME NetOK, NEW q, BetweenCalls(q), NEW s \in Shapes, NEW c \in Commands
  PROVE  LET r == [Encode([q EXCEPT !.shape = s], c) EXCEPT !.code = "COMPUTE_SIZE_ERROR"]
         IN  BetweenCalls(r) /\ Untouched(q, r)
<1> DEFINE x == [q EXCEPT !.shape = s]
           y == Encode(x, c)
           r == [y EXCEPT !.code = "COMPUTE_SIZE_ERROR"]
<1>1. q \in PStates /\ MemOK(q) /\ GroupsOK(q) /\ (q.fixed # {} => PlanOK(q, 1))
  BY DEF BetweenCalls
<1>2. Untouched(q, x) /\ x.mem = q.mem /\ x.group = q.group /\ x.fixed = q.fixed
  BY ShapeOnly
<1> HIDE DEF x
<1>3. x \in PStates /\ MemOK(x) /\ GroupsOK(x)
  BY <1>1, <1>2 DEF Untouched, MemOK, GroupsOK
<1>4. Encoded(x, y, c)
  BY <1>3, EncodeOK
<1> HIDE DEF y
<1>5. MemOK(y) /\ GroupsOK(y) /\ y \in PStates /\ Untouched(x, y)
  BY <1>3, <1>4, EncodedMem DEF Encoded
<1>6. /\ r \in PStates /\ r.mem = y.mem /\ r.group = y.group /\ r.fixed = y.fixed /\ r.heap = y.heap
      /\ r.place = y.place /\ r.scratchAt = y.scratchAt /\ r.code = "COMPUTE_SIZE_ERROR"
  BY <1>5 DEF PStates
<1> HIDE DEF r
<1>7. Untouched(q, r)
  <2>1. Untouched(y, r)
    BY <1>5, <1>6 DEF Untouched
  <2>2. Untouched(q, y)
    BY <1>2, <1>5, UntouchedTwice
  <2> QED BY <2>1, <2>2, UntouchedTwice
<1>8. r.fixed # {} => PlanOK(r, 1)
  <2>1. r.fixed = q.fixed
    BY <1>7 DEF Untouched
  <2> QED BY <1>1, <1>7, <2>1, PlanStays
<1>9. MemOK(r) /\ GroupsOK(r)
  BY <1>5, <1>6 DEF MemOK, GroupsOK
<1>10. BetweenCalls(r)
  BY <1>6, <1>8, <1>9 DEF BetweenCalls
<1> QED BY <1>7, <1>10 DEF r, y, x

\* A resize, for whatever shape and whether or not an operator fails.
LEMMA ResizeOK ==
  ASSUME NetOK, NEW q, BetweenCalls(q), NEW s \in Shapes, NEW failing
  PROVE  LET r == AllocForTensor(ResetHeap(Encode([q EXCEPT !.shape = s], NumCommands), 0),
                                 0, net.inside, failing)
         IN  BetweenCalls(r) /\ Untouched(q, r)
<1> DEFINE x == [q EXCEPT !.shape = s]
           y == Encode(x, NumCommands)
           z == ResetHeap(y, 0)
           r == AllocForTensor(z, 0, net.inside, failing)
<1>1. q \in PStates /\ MemOK(q) /\ GroupsOK(q) /\ (q.fixed # {} => PlanOK(q, 1))
  BY DEF BetweenCalls
<1>2. Untouched(q, x) /\ x.mem = q.mem /\ x.group = q.group /\ x.fixed = q.fixed
  BY ShapeOnly
<1> HIDE DEF x
<1>3. x \in PStates /\ MemOK(x) /\ GroupsOK(x)
  BY <1>1, <1>2 DEF Untouched, MemOK, GroupsOK
<1>4. NumCommands \in Commands /\ Encoded(x, y, NumCommands)
  <2>1. NumCommands \in Commands
    BY PipelineAssumption DEF Commands
  <2> QED BY <1>3, <2>1, EncodeOK
<1> HIDE DEF y
<1>5. /\ MemOK(y) /\ GroupsOK(y) /\ y \in PStates /\ Untouched(x, y) /\ y.group = x.group
      /\ \A t \in Tensors : y.mem[t] \notin {None, Static} => t \in Inputs /\ x.group[t] = 0
  BY <1>3, <1>4, EncodedMem DEF Encoded
<1>6. /\ z \in PStates /\ z.group = y.group /\ z.fixed = y.fixed
      /\ \A t \in Tensors : z.mem[t] = IF y.group[t] = 0 /\ y.mem[t] > 0 THEN Gone ELSE y.mem[t]
  BY <1>5, ResetHeapIs
<1>7. Untouched(y, z)
  BY <1>5, UntouchedReset
<1> HIDE DEF z
<1>8. GroupsOK(z)
  BY <1>5, <1>6 DEF GroupsOK
<1>9. Cover(z, 0) /\ \A u \in Inputs : z.group[u] = 0 => net.inside = TRUE
  <2>1. net.inside \in BOOLEAN
    BY DEF NetOK
  <2> QED BY <1>6, <1>8, <2>1, GroupsAre
<1>10. ASSUME NEW t \in Tensors
       PROVE  /\ z.mem[t] = Static => StorageType(t) = "STATIC"
              /\ z.mem[t] \notin {None, Static} => t \in Inputs /\ z.group[t] = 0
              /\ t \in Inputs /\ z.mem[t] # None => IsRead(t)
  <2>1. /\ y.mem[t] = Static => StorageType(t) = "STATIC"
        /\ t \in Inputs /\ y.mem[t] # None => IsRead(t)
    BY <1>5 DEF MemOK
  <2>2. /\ z.mem[t] = Static => y.mem[t] = Static
        /\ z.mem[t] # None => y.mem[t] # None
        /\ z.mem[t] \notin {None, Static} => y.mem[t] \notin {None, Static}
    <3>1. CASE y.group[t] = 0 /\ y.mem[t] > 0
      BY <1>6, <3>1 DEF None, Static, Gone
    <3>2. CASE ~(y.group[t] = 0 /\ y.mem[t] > 0)
      BY <1>6, <3>2
    <3> QED BY <3>1, <3>2
  <2> QED BY <1>5, <1>6, <2>1, <2>2
<1>11. MayPlan(z, 0, net.inside)
  BY <1>6, <1>9, <1>10 DEF MayPlan
<1>12. Outcome(z, r, 0, failing)
  <2> DEFINE ai == net.inside
  <2>1. MayPlan(z, 0, ai)
    BY <1>11
  <2> HIDE DEF ai
  <2>2. Outcome(z, AllocForTensor(z, 0, ai, failing), 0, failing)
    BY <1>9, <2>1, AllocForTensorOK
  <2> QED BY <2>2 DEF ai
<1> HIDE DEF r
<1>13. Untouched(q, r)
  <2>1. Untouched(z, r)
    BY <1>6, <1>12, UntouchedOutcome
  <2>2. Untouched(q, y)
    BY <1>2, <1>5, UntouchedTwice
  <2>3. Untouched(q, z)
    BY <1>7, <2>2, UntouchedTwice
  <2> QED BY <2>1, <2>3, UntouchedTwice
<1>14. r.fixed # {} => PlanOK(r, 1)
  <2>1. r.fixed = q.fixed
    BY <1>13 DEF Untouched
  <2> QED BY <1>1, <1>13, <2>1, PlanStays
<1>15. r \in PStates /\ MemOK(r) /\ GroupsOK(r)
  <2>1. GroupsOK(r)
    BY <1>1, <1>13 DEF Untouched, GroupsOK
  <2> QED BY <1>12, <2>1 DEF Outcome, MemOK
<1>16. r.code # "INVALID_VALUE" /\ (r.code = "NO_ERROR" => AllReturned(r) /\ (~r.unknown => PlanOK(r, 0)))
  BY <1>12 DEF Outcome
<1>17. BetweenCalls(r)
  BY <1>14, <1>15, <1>16 DEF BetweenCalls
<1> QED BY <1>13, <1>17 DEF r, z, y, x

\* Where the fix of q starts to plan buffer 1.
Masked(q) == LET masked == [ResetHeap(q, 0) EXCEPT !.fixed = Fixable]
             IN  [masked EXCEPT !.group = Grouped(masked)]

LEMMA MaskedOK ==
  ASSUME NetOK, NEW q, BetweenCalls(q), q.code = "NO_ERROR"
  PROVE  LET z == Masked(q)
         IN  /\ z \in PStates /\ z.fixed = Fixable /\ z.group = Groups(Fixable)
             /\ z.mem = q.mem /\ z.unknown = q.unknown
             /\ MayPlan(z, 1, TRUE) /\ Cover(z, 1) /\ GroupsOK(z)
<1> DEFINE y == ResetHeap(q, 0)
           m == [y EXCEPT !.fixed = Fixable]
           z == [m EXCEPT !.group = Grouped(m)]
<1>1. q \in PStates /\ GroupsOK(q) /\ MemOK(q) /\ AllReturned(q)
  BY DEF BetweenCalls
<1>2. /\ y \in PStates /\ y.group = q.group /\ y.unknown = q.unknown
      /\ \A t \in Tensors : y.mem[t] = IF q.group[t] = 0 /\ q.mem[t] > 0 THEN Gone ELSE q.mem[t]
  BY <1>1, ResetHeapIs
<1>3. y.mem = q.mem
  <2>1. \A t \in Tensors : y.mem[t] = q.mem[t]
    BY <1>1, <1>2 DEF AllReturned, None, Static
  <2> QED BY <1>1, <1>2, <2>1 DEF PStates
<1>4. Masked(q) = z
  BY DEF Masked
<1> HIDE DEF y
<1>5. Fixable \subseteq Commands
  BY DEF Fixable
<1>6. m \in PStates /\ m.group = q.group /\ m.mem = q.mem /\ m.fixed = Fixable /\ m.unknown = q.unknown
  BY <1>2, <1>3, <1>5 DEF PStates
<1> HIDE DEF m
<1>7. q.fixed \in {{}, Fixable} /\ q.group = Groups(q.fixed)
  BY <1>1 DEF GroupsOK
<1>8. ASSUME NEW t \in Tensors PROVE Grouped(m)[t] = Groups(Fixable)[t]
  <2>1. Grouped(m)[t] = IF \/ \E c \in Fixable : t = Out(c)
                           \/ q.group[t] = 0 /\ \E c \in Fixable : Reads(c, t)
                        THEN 1 ELSE q.group[t]
    BY <1>6 DEF Grouped
  <2>2. q.group[t] = IF t \in Inputs /\ ~net.inside THEN -1
                     ELSE IF \E c \in q.fixed : t = Out(c) \/ Reads(c, t) THEN 1 ELSE 0
    BY <1>7 DEF Groups
  <2>3. Groups(Fixable)[t] = IF t \in Inputs /\ ~net.inside THEN -1
                             ELSE IF \E c \in Fixable : t = Out(c) \/ Reads(c, t) THEN 1 ELSE 0
    BY DEF Groups
  <2>4. t \in Inputs => ~\E c \in Fixable : t = Out(c)
    BY <1>5, Numbers
  <2> QED BY <1>7, <2>1, <2>2, <2>3, <2>4
<1>9. Grouped(m) = Groups(Fixable)
  BY <1>8 DEF Grouped, Groups
<1>10. Groups(Fixable) \in [Tensors -> -1..1]
  BY DEF Groups
<1>11. z \in PStates /\ z.fixed = Fixable /\ z.group = Groups(Fixable) /\ z.mem = q.mem /\ z.unknown = q.unknown
  BY <1>6, <1>9, <1>10 DEF PStates
<1> HIDE DEF z
<1>12. GroupsOK(z)
  BY <1>11 DEF GroupsOK
<1>13. Cover(z, 1)
  BY <1>11, <1>12, GroupsAre
<1>14. MayPlan(z, 1, TRUE)
  BY <1>1, <1>11 DEF MayPlan, MemOK, AllReturned
<1> QED BY <1>4, <1>11, <1>12, <1>13, <1>14

\* A fix.
Refixed(q) == LET r == AllocForTensor(Masked(q), 1, TRUE, 0)
              IN  [r EXCEPT !.code = IF @ = "NO_ERROR" THEN "NOT_PLANNED" ELSE @]

LEMMA FixOK ==
  ASSUME NetOK, NEW q, BetweenCalls(q), q.code = "NO_ERROR", ~q.unknown
  PROVE  /\ BetweenCalls(Refixed(q)) /\ Refixed(q).fixed = Fixable
         /\ AllocForTensor(Masked(q), 1, TRUE, 0).code = "NO_ERROR"
<1> DEFINE z == Masked(q)
           b == Begin(z, 1)
           x == AllocForTensor(z, 1, TRUE, 0)
           r == Refixed(q)
<1>1. /\ z \in PStates /\ z.fixed = Fixable /\ z.group = Groups(Fixable)
      /\ z.mem = q.mem /\ z.unknown = q.unknown
      /\ MayPlan(z, 1, TRUE) /\ Cover(z, 1) /\ GroupsOK(z)
  BY MaskedOK
<1>2. r = [x EXCEPT !.code = IF x.code = "NO_ERROR" THEN "NOT_PLANNED" ELSE x.code]
  BY DEF Refixed
<1> HIDE DEF z, r
<1>3. Outcome(z, x, 1, 0)
  <2>1. ASSUME NEW ai, MayPlan(z, 1, ai) PROVE Outcome(z, AllocForTensor(z, 1, ai, 0), 1, 0)
    <3>1. Cover(z, 1) /\ 1 \in 0..1
      BY <1>1
    <3> QED BY <2>1, <3>1, AllocForTensorOK
  <2>2. MayPlan(z, 1, TRUE)
    BY <1>1
  <2>3. Outcome(z, AllocForTensor(z, 1, TRUE, 0), 1, 0)
    BY <2>1, <2>2, Zenon
  <2> QED BY <2>3
<1> HIDE DEF x
<1>4. b.fixed = Fixable /\ b.group = Groups(Fixable) /\ Clean(b)
  <2> DEFINE y == ResetHeap(z, 1)
  <2>1. /\ y \in PStates /\ y.group = z.group /\ y.fixed = z.fixed /\ y.unknown = z.unknown
        /\ \A t \in Tensors : y.mem[t] = IF z.group[t] = 1 /\ z.mem[t] > 0 THEN Gone ELSE z.mem[t]
    BY <1>1, ResetHeapIs
  <2>2. b = [y EXCEPT !.use = UseCounts, !.code = "NO_ERROR"]
    BY DEF Begin
  <2> HIDE DEF y
  <2>3. b.group = y.group /\ b.fixed = y.fixed /\ b.unknown = y.unknown /\ b.mem = y.mem
    BY <2>1, <2>2 DEF PStates
  <2> HIDE DEF b
  <2>4. \A t \in Tensors : q.mem[t] \in {None, Static}
    BY DEF BetweenCalls, AllReturned
  <2>5. \A t \in Tensors : b.mem[t] # Gone
    BY <1>1, <2>1, <2>3, <2>4 DEF None, Static, Gone
  <2> QED BY <1>1, <2>1, <2>3, <2>5 DEF Clean
<1>5. x \in PStates /\ Framed(b, x, 1)
  BY <1>3 DEF Outcome
<1> HIDE DEF b
<1>6. x.fixed = Fixable /\ x.group = Groups(Fixable) /\ ~x.unknown
  BY <1>4, <1>5 DEF Framed, Clean
<1>7. x.code = "NO_ERROR" /\ AllReturned(x) /\ PlanOK(x, 1)
  <2>1. 0 \notin Commands
    BY Numbers
  <2> QED BY <1>3, <1>6, <2>1 DEF Outcome
<1>8. \A t \in Tensors : /\ x.mem[t] = Static => StorageType(t) = "STATIC"
                         /\ t \in Inputs /\ x.mem[t] # None => IsRead(t)
  BY <1>3 DEF Outcome
<1>9. /\ r.heap = x.heap /\ r.mem = x.mem /\ r.group = x.group /\ r.fixed = x.fixed /\ r.shape = x.shape
      /\ r.place = x.place /\ r.scratchAt = x.scratchAt /\ r.code = "NOT_PLANNED" /\ r \in PStates
  BY <1>2, <1>5, <1>7 DEF PStates
<1>10. NodeOf(r) = NodeOf(x) /\ Need(r) = Need(x) /\ Given(r, 1) = Given(x, 1)
  BY <1>9, SamePlan
<1>11. PlanOK(r, 1)
  BY <1>7, <1>9, <1>10 DEF PlanOK, Complete, Group
<1>12. MemOK(r)
  BY <1>7, <1>8, <1>9 DEF MemOK, AllReturned
<1>13. GroupsOK(r)
  BY <1>6, <1>9 DEF GroupsOK
<1>14. BetweenCalls(r)
  BY <1>9, <1>11, <1>12, <1>13 DEF BetweenCalls
<1>15. r.fixed = Fixable
  BY <1>6, <1>9
<1> QED BY <1>7, <1>14, <1>15 DEF r, x, z

\* What p may become.
LEMMA NextIs ==
  ASSUME NetOK, BetweenCalls(p), PipelineNext
  PROVE  \E r : p' = r /\ BetweenCalls(r)
<1>1. CASE ResizeFailsEarly
  <2>1. PICK s \in Shapes, c \in Commands :
          p' = [Encode([p EXCEPT !.shape = s], c) EXCEPT !.code = "COMPUTE_SIZE_ERROR"]
    BY <1>1 DEF ResizeFailsEarly
  <2>2. BetweenCalls([Encode([p EXCEPT !.shape = s], c) EXCEPT !.code = "COMPUTE_SIZE_ERROR"])
    BY ResizeFailsEarlyOK
  <2> QED BY <2>1, <2>2
<1>2. CASE Resize
  <2>1. PICK s \in Shapes, f \in {0} \cup (Commands \ p.fixed) :
          p' = AllocForTensor(ResetHeap(Encode([p EXCEPT !.shape = s], NumCommands), 0), 0, net.inside, f)
    BY <1>2 DEF Resize
  <2>2. BetweenCalls(AllocForTensor(ResetHeap(Encode([p EXCEPT !.shape = s], NumCommands), 0), 0, net.inside, f))
    BY ResizeOK
  <2> QED BY <2>1, <2>2
<1>3. CASE Fix
  <2>1. p' = Refixed(p) /\ p.code = "NO_ERROR" /\ ~p.unknown
    BY <1>3 DEF Fix, Refixed, Masked
  <2>2. BetweenCalls(Refixed(p))
    BY <2>1, FixOK
  <2> QED BY <2>1, <2>2
<1>4. CASE Undefined
  <2>1. p' = p
    BY <1>4 DEF Undefined, pipelineVars
  <2> QED BY <2>1
<1> QED BY <1>1, <1>2, <1>3, <1>4 DEF PipelineNext

\* What is said of a pipeline p depends on the network, which no call changes.
LEMMA NetStays ==
  ASSUME net' = net, NEW r, p' = r, NetOK, BetweenCalls(r)
  PROVE  NetOK' /\ BetweenCalls(p)'
<1>1. \A c, t : Reads(c, t)' <=> Reads(c, t)
  BY DEF Reads
<1>2. Fixable' = Fixable
  BY DEF Fixable
<1>3. NetOK'
  BY <1>2 DEF NetOK
<1>4. \A t : StorageType(t)' = StorageType(t)
  BY DEF StorageType, Usage
<1>5. \A t : IsRead(t)' <=> IsRead(t)
  BY <1>1 DEF IsRead
<1>6. MemOK(p)'
  <2>1. MemOK(r)
    BY DEF BetweenCalls
  <2> QED BY <1>4, <1>5, <2>1 DEF MemOK
<1>7. GroupsOK(p)'
  <2>1. GroupsOK(r)
    BY DEF BetweenCalls
  <2> QED BY <1>1, <1>2, <2>1 DEF GroupsOK, Groups
<1>8. Clash' = Clash
  <2>1. \A t : Dies(t)' = Dies(t)
    <3> TAKE t
    <3>1. {c \in Commands : Reads(c, t)}' = {c \in Commands : Reads(c, t)}
      BY <1>1
    <3> QED BY <3>1 DEF Dies, Born
  <2>2. \A t, c : AliveAt(t, c)' <=> AliveAt(t, c)
    BY <2>1 DEF AliveAt
  <2> QED BY <2>2 DEF Clash
<1>9. ASSUME NEW g \in 0..1, PlanOK(r, g) PROVE PlanOK(p, g)'
  <2>1. NodeOf(p)' = NodeOf(r) /\ Need(p)' = Need(r) /\ Given(p, g)' = Given(r, g)
    BY DEF NodeOf, Need, Given, Size, Group
  <2>2. Roomy(r.heap[g], NodeOf(r), Need(r), Given(r, g), {}, Clash) /\ Complete(r, g)
    BY <1>9 DEF PlanOK
  <2>3. Complete(p, g)'
    BY <1>4, <1>5, <2>2 DEF Complete, Group
  <2>4. Roomy(p'.heap[g], NodeOf(p)', Need(p)', Given(p, g)', {}, Clash')
    BY <1>8, <2>1, <2>2
  <2> QED BY <2>3, <2>4 DEF PlanOK
<1> QED BY <1>3, <1>6, <1>7, <1>9 DEF BetweenCalls, AllReturned, PStates

LEMMA PipelineInvariant == PipelineSpec => [](NetOK /\ BetweenCalls(p))
<1>1. PipelineInit => NetOK /\ BetweenCalls(p)
  BY InitOK
<1>2. NetOK /\ BetweenCalls(p) /\ [PipelineNext]_pipelineVars => (NetOK /\ BetweenCalls(p))'
  <2> SUFFICES ASSUME NetOK, BetweenCalls(p), [PipelineNext]_pipelineVars
               PROVE  NetOK' /\ BetweenCalls(p)'
    OBVIOUS
  <2>1. net' = net
    BY DEF PipelineNext, pipelineVars, ResizeFailsEarly, Resize, Fix, Undefined
  <2>2. PICK r : p' = r /\ BetweenCalls(r)
    <3>1. CASE PipelineNext
      BY <3>1, NextIs
    <3>2. CASE UNCHANGED pipelineVars
      BY <3>2 DEF pipelineVars
    <3> QED BY <3>1, <3>2
  <2> QED BY <2>1, <2>2, NetStays
<1> QED BY <1>1, <1>2, PTL DEF PipelineSpec

-----------------------------------------------------------------------------
(* The properties.                                                          *)

\* The bytes of two users that are apart have nothing in common.
LEMMA BytesApart ==
  ASSUME NEW g, NEW h, NEW a \in Nat, NEW b \in Nat, NEW m \in Nat, NEW n \in Nat,
         g = h => a + m <= b \/ b + n <= a
  PROVE  {<<g, x>> : x \in a .. a + m - 1} \cap {<<h, x>> : x \in b .. b + n - 1} = {}
<1>1. CASE g = h
  <2>1. \A x \in a .. a + m - 1 : x \notin b .. b + n - 1
    BY <1>1
  <2> QED BY <1>1, <2>1
<1>2. CASE g # h
  BY <1>2
<1> QED BY <1>1, <1>2

\* Users of one buffer that clash have memory of their own.
LEMMA ClashApart ==
  ASSUME NetOK, NEW q \in PStates, NEW g \in 0..1, PlanOK(q, g)
  PROVE  LET base == Address(q.heap[g])
         IN  /\ \A u \in Given(q, g) : base[NodeOf(q)[u]] \in Nat
             /\ \A u, v \in Given(q, g) : <<u, v>> \in Clash => Apart(base, NodeOf(q), Need(q), u, v)
<1> DEFINE base == Address(q.heap[g])
           h == q.heap[g]
           at == NodeOf(q)
           need == Need(q)
           D == Given(q, g)
<1>1. Roomy(h, at, need, D, {}, Clash)
  BY DEF PlanOK
<1> HIDE DEF h, at, need, D
<1>2. /\ HeapOK(h) /\ Used(h) = {} /\ Kept(h, at, need, D, Clash)
      /\ \A u \in D : at[u] \in Nodes
  BY <1>1 DEF Roomy
<1>3. Len(h.list) \in {0, 1}
  BY <1>2, NoneHeld
<1>4. PICK E : Fits(h, Address(h), E)
  BY <1>2, <1>3, AddressFits
<1>5. Address(h) \in [Nodes -> Nat]
  BY <1>4 DEF Fits
<1>6. \A u, v \in D : <<u, v>> \in Clash => Apart(Address(h), at, need, u, v)
  BY <1>2, <1>4 DEF Kept
<1>7. \A u \in D : Address(h)[at[u]] \in Nat
  BY <1>2, <1>5
<1> QED BY <1>6, <1>7 DEF h, at, need, D

LEMMA ValuesKept ==
  ASSUME NetOK, BetweenCalls(p)
  PROVE  ValuesSurvive
<1> SUFFICES ASSUME Ready PROVE ValuesSurvive
  BY DEF ValuesSurvive
<1>1. p \in PStates /\ GroupsOK(p) /\ p.code = "NO_ERROR" /\ ~p.unknown
  BY DEF BetweenCalls, Ready
<1>2. PlanOK(p, 0) /\ (p.fixed # {} => PlanOK(p, 1))
  BY <1>1 DEF BetweenCalls
<1>3. ASSUME NEW t \in InPlan
      PROVE  /\ t \in Tensors /\ t \in Users /\ p.group[t] \in 0..1 /\ p.place[t] # 0
             /\ t \in Given(p, p.group[t]) /\ PlanOK(p, p.group[t])
  <2>1. /\ t \in Tensors /\ StorageType(t) # "STATIC" /\ p.group[t] # -1
        /\ t \in Inputs => IsRead(t)
    BY DEF InPlan, IsRead
  <2>2. p.group[t] \in 0..1
    BY <1>1, <2>1 DEF PStates
  <2>3. p.group[t] = 1 => p.fixed # {}
    BY <1>1, <2>1, GroupsAre
  <2>4. PlanOK(p, p.group[t])
    <3>1. CASE p.group[t] = 0
      BY <1>2, <3>1
    <3>2. CASE p.group[t] = 1
      BY <1>2, <2>3, <3>2
    <3> QED BY <2>2, <3>1, <3>2
  <2>5. p.place[t] # 0
    BY <2>1, <2>4 DEF PlanOK, Complete
  <2> QED BY <2>1, <2>2, <2>4, <2>5, GivenIs, UsersAre
<1>4. ASSUME NEW c \in Commands, net.scratch[c] > 0
      PROVE  Group(p, c) \in 0..1 /\ Own(c) \in Given(p, Group(p, c)) /\ PlanOK(p, Group(p, c))
  <2>1. Group(p, c) \in 0..1 /\ (Group(p, c) = 1 => p.fixed # {})
    BY DEF Group
  <2>2. PlanOK(p, Group(p, c))
    <3>1. CASE Group(p, c) = 0
      BY <1>2, <3>1
    <3>2. CASE Group(p, c) = 1
      BY <1>2, <2>1, <3>2
    <3> QED BY <2>1, <3>1, <3>2
  <2>3. p.scratchAt[c] # 0
    BY <1>4, <2>2 DEF PlanOK, Complete
  <2> QED BY <2>1, <2>2, <2>3, GivenIs
<1>5. /\ \A t \in Tensors : NodeOf(p)[t] = p.place[t] /\ Need(p)[t] = Size(p, t)
      /\ \A c \in Commands : NodeOf(p)[Own(c)] = p.scratchAt[c] /\ Need(p)[Own(c)] = net.scratch[c]
  BY UserIs
<1>6. /\ \A t \in Tensors : Size(p, t) \in Nat
      /\ \A c \in Commands : net.scratch[c] \in Nat
  <2>1. p.shape \in Shapes
    BY <1>1 DEF PStates
  <2> QED BY <2>1, NeedIs DEF NetOK
<1> DEFINE base(g) == Address(p.heap[g])
<1>7. ASSUME NEW g \in 0..1, PlanOK(p, g)
      PROVE  /\ \A u \in Given(p, g) : base(g)[NodeOf(p)[u]] \in Nat
             /\ \A u, v \in Given(p, g) : <<u, v>> \in Clash => Apart(base(g), NodeOf(p), Need(p), u, v)
  BY <1>1, <1>7, ClashApart
<1> HIDE DEF base
<1>8. ASSUME NEW t \in InPlan, NEW u \in InPlan, t # u, AliveAt(t, Born(u))
      PROVE  PlanBytes(p.group[t], p.place[t], Size(p, t)) \cap PlanBytes(p.group[u], p.place[u], Size(p, u)) = {}
  <2> DEFINE g == p.group[t]
             h == p.group[u]
             a == base(g)[p.place[t]]
             b == base(h)[p.place[u]]
             m == Size(p, t)
             n == Size(p, u)
  <2>1. /\ t \in Tensors /\ g \in 0..1 /\ t \in Given(p, g) /\ PlanOK(p, g) /\ t \in Users
        /\ u \in Tensors /\ h \in 0..1 /\ u \in Given(p, h) /\ PlanOK(p, h) /\ u \in Users
    BY <1>3
  <2>2. a \in Nat /\ b \in Nat /\ m \in Nat /\ n \in Nat
    BY <1>5, <1>6, <1>7, <2>1
  <2>3. <<t, u>> \in Clash
    BY <1>8, <2>1, UsersAre DEF Clash
  <2>4. g = h => a + m <= b \/ b + n <= a
    <3> SUFFICES ASSUME g = h PROVE a + m <= b \/ b + n <= a
      OBVIOUS
    <3>1. Apart(base(g), NodeOf(p), Need(p), t, u)
      <4> HIDE DEF g, h
      <4> QED BY <1>7, <2>1, <2>3
    <3> QED BY <1>5, <2>1, <3>1 DEF Apart
  <2>5. {<<g, x>> : x \in a .. a + m - 1} \cap {<<h, x>> : x \in b .. b + n - 1} = {}
    <3> HIDE DEF g, h, a, b, m, n
    <3> QED BY <2>2, <2>4, BytesApart
  <2> QED BY <2>5 DEF PlanBytes, base
<1>9. ASSUME NEW c \in Commands, NEW t \in InPlan, net.scratch[c] > 0, AliveAt(t, c)
      PROVE  PlanBytes(Group(p, c), p.scratchAt[c], net.scratch[c])
             \cap PlanBytes(p.group[t], p.place[t], Size(p, t)) = {}
  <2> DEFINE g == Group(p, c)
             h == p.group[t]
             a == base(g)[p.scratchAt[c]]
             b == base(h)[p.place[t]]
             m == net.scratch[c]
             n == Size(p, t)
  <2>1. /\ g \in 0..1 /\ Own(c) \in Given(p, g) /\ PlanOK(p, g)
        /\ t \in Tensors /\ h \in 0..1 /\ t \in Given(p, h) /\ PlanOK(p, h) /\ t \in Users
    BY <1>3, <1>4, <1>9
  <2>2. a \in Nat /\ b \in Nat /\ m \in Nat /\ n \in Nat
    BY <1>5, <1>6, <1>7, <2>1
  <2>3. <<t, Own(c)>> \in Clash
    <3>1. Own(c) \in Users /\ Own(c) \notin Tensors /\ StartsAt(Own(c)) = c
      BY UsersAre
    <3> QED BY <1>9, <2>1, <3>1 DEF Clash
  <2>4. g = h => a + m <= b \/ b + n <= a
    <3> SUFFICES ASSUME g = h PROVE a + m <= b \/ b + n <= a
      OBVIOUS
    <3>1. Apart(base(h), NodeOf(p), Need(p), t, Own(c))
      <4>1. Own(c) \in Given(p, h)
        BY <2>1
      <4> HIDE DEF g, h
      <4> QED BY <1>7, <2>1, <2>3, <4>1
    <3> QED BY <1>5, <2>1, <3>1 DEF Apart
  <2>5. {<<g, x>> : x \in a .. a + m - 1} \cap {<<h, x>> : x \in b .. b + n - 1} = {}
    <3> HIDE DEF g, h, a, b, m, n
    <3> QED BY <2>2, <2>4, BytesApart
  <2> QED BY <2>5 DEF PlanBytes, base
<1> QED BY <1>3, <1>8, <1>9 DEF ValuesSurvive

\* A network that may run computes what it should, whatever it is and whatever
\* resizes and fixes came before: every tensor has memory, and no command writes,
\* as its output or for itself, where a value lies that is still read
\* (Pipeline.cpp:971-1089, fixResizeCache 890-970).
THEOREM ValuesAlwaysSurvive == PipelineSpec => []ValuesSurvive
<1>1. NetOK /\ BetweenCalls(p) => ValuesSurvive
  BY ValuesKept
<1> QED BY <1>1, PipelineInvariant, PTL

\* Giving back by use count and recycling the rest (Pipeline.cpp:866-880) leave
\* nothing behind, in any network: compute finds at most one free node, no count
\* is off, and no tensor of a planned network keeps a memory object of the plan.
THEOREM PlansGiveEverythingBack == PipelineSpec => []EverythingReturned
<1>1. BetweenCalls(p) => EverythingReturned
  <2> SUFFICES ASSUME BetweenCalls(p) PROVE EverythingReturned
    OBVIOUS
  <2>1. PipelineTypeOK
    BY DEF BetweenCalls, PStates, PipelineTypeOK
  <2>2. p.code # "INVALID_VALUE" /\ (Ready => \A t \in Tensors : p.mem[t] \in {None, Static})
    BY DEF BetweenCalls, Ready, AllReturned
  <2> QED BY <2>1, <2>2 DEF EverythingReturned
<1> QED BY <1>1, PipelineInvariant, PTL

-----------------------------------------------------------------------------
(* Planning buffer 1 again.                                                 *)

\* A pipeline's fields, of whatever values.
Shaped(q) ==
    /\ q \in [heap : {q.heap}, mem : {q.mem}, use : {q.use}, group : {q.group}, fixed : {q.fixed},
              shape : {q.shape}, place : {q.place}, scratchAt : {q.scratchAt}, code : {q.code},
              unknown : {q.unknown}]
    /\ q.heap = [g \in 0..1 |-> q.heap[g]] /\ q.mem = [t \in Tensors |-> q.mem[t]]
    /\ q.use = [t \in Tensors |-> q.use[t]] /\ q.place = [t \in Tensors |-> q.place[t]]

\* x is q with new values of some fields.
Update(q, x, h, m, u, l, s, k) ==
    /\ h = [g \in 0..1 |-> h[g]] /\ m = [t \in Tensors |-> m[t]]
    /\ u = [t \in Tensors |-> u[t]] /\ l = [t \in Tensors |-> l[t]]
    /\ x = [q EXCEPT !.heap = h, !.mem = m, !.use = u, !.place = l, !.scratchAt = s, !.unknown = k]

Updated(q, x, h, m, u, l) ==
    /\ Shaped(x) /\ x.heap = h /\ x.mem = m /\ x.use = u /\ x.place = l
    /\ x.group = q.group /\ x.fixed = q.fixed /\ x.shape = q.shape /\ x.code = q.code

\* x is q, but for the counts, the heap of buffer 1 and what is known of tensor t.
Becomes(q, x, use, t, h, m, n) ==
    /\ Shaped(x) /\ x.group = q.group /\ x.fixed = q.fixed /\ x.code = q.code /\ x.shape = q.shape
    /\ x.use = use /\ x.heap[1] = h /\ x.mem[t] = m /\ x.place[t] = n
    /\ \A u \in Tensors : u # t => x.mem[u] = q.mem[u] /\ x.place[u] = q.place[u]

\* q and r have the same plan of buffer 1.
Alike(q, r) ==
    /\ Shaped(q) /\ Shaped(r)
    /\ q.group = r.group /\ q.fixed = r.fixed /\ q.heap[1] = r.heap[1] /\ q.use = r.use /\ q.code = r.code
    /\ \A t \in Tensors : q.group[t] = 1 =>
         /\ t \notin net.varies /\ q.place[t] = r.place[t]
         /\ StorageType(t) # "STATIC" => q.mem[t] = r.mem[t]
         /\ StorageType(t) = "STATIC" => ~(q.mem[t] > 0) /\ ~(r.mem[t] > 0)

\* New values of some fields.
LEMMA ShapedUpdate ==
  ASSUME NEW q, Shaped(q), NEW x, NEW h, NEW m, NEW u, NEW l, NEW s, NEW k,
         Update(q, x, h, m, u, l, s, k)
  PROVE  Updated(q, x, h, m, u, l)
<1>0. /\ h = [g \in 0..1 |-> h[g]] /\ m = [t \in Tensors |-> m[t]]
      /\ u = [t \in Tensors |-> u[t]] /\ l = [t \in Tensors |-> l[t]]
      /\ x = [q EXCEPT !.heap = h, !.mem = m, !.use = u, !.place = l, !.scratchAt = s, !.unknown = k]
  BY DEF Update
<1>1. /\ x.heap = h /\ x.mem = m /\ x.use = u /\ x.place = l /\ x.scratchAt = s /\ x.unknown = k
      /\ x.group = q.group /\ x.fixed = q.fixed /\ x.shape = q.shape /\ x.code = q.code
  BY <1>0 DEF Shaped
<1>2. x \in [heap : {x.heap}, mem : {x.mem}, use : {x.use}, group : {x.group}, fixed : {x.fixed},
             shape : {x.shape}, place : {x.place}, scratchAt : {x.scratchAt}, code : {x.code},
             unknown : {x.unknown}]
  BY <1>0, <1>1 DEF Shaped
<1>3. Shaped(x)
  BY <1>0, <1>1, <1>2 DEF Shaped
<1> QED BY <1>1, <1>3 DEF Updated

LEMMA DropEffect ==
  ASSUME NEW q, Shaped(q), NEW t \in Tensors
  PROVE  Becomes(q, DropMem(q, t), q.use, t,
                 IF q.group[t] = 1 /\ q.mem[t] > 0 THEN FreeNode(q.heap[1], q.mem[t]) ELSE q.heap[1],
                 None, q.place[t])
<1> DEFINE x == DropMem(q, t)
           m == [q.mem EXCEPT ![t] = None]
           h == IF q.mem[t] > 0 THEN [q.heap EXCEPT ![q.group[t]] = FreeNode(@, q.mem[t])] ELSE q.heap
           k == IF q.mem[t] = Gone THEN TRUE ELSE q.unknown
           u == q.use
           l == q.place
           s == q.scratchAt
<1>1. /\ q.heap = [g \in 0..1 |-> q.heap[g]] /\ q.mem = [v \in Tensors |-> q.mem[v]]
      /\ u = [v \in Tensors |-> u[v]] /\ l = [v \in Tensors |-> l[v]]
  BY DEF Shaped
<1>2. x = [q EXCEPT !.heap = h, !.mem = m, !.use = u, !.place = l, !.scratchAt = s, !.unknown = k]
  <2>1. CASE q.mem[t] = Gone
    <3>1. h = q.heap /\ k = TRUE
      BY <2>1 DEF Gone
    <3>2. x = [q EXCEPT !.mem[t] = None, !.unknown = TRUE]
      BY <2>1 DEF DropMem, Gone
    <3> HIDE DEF h, k, x
    <3> QED BY <3>1, <3>2 DEF Shaped
  <2>2. CASE q.mem[t] # Gone /\ q.mem[t] > 0
    BY <2>2 DEF DropMem, Shaped
  <2>3. CASE q.mem[t] # Gone /\ ~(q.mem[t] > 0)
    BY <2>3 DEF DropMem, Shaped
  <2> QED BY <2>1, <2>2, <2>3
<1>3. m = [v \in Tensors |-> m[v]] /\ h = [g \in 0..1 |-> h[g]] /\ m[t] = None
      /\ (\A v \in Tensors : v # t => m[v] = q.mem[v])
      /\ h[1] = IF q.group[t] = 1 /\ q.mem[t] > 0 THEN FreeNode(q.heap[1], q.mem[t]) ELSE q.heap[1]
  BY <1>1
<1> HIDE DEF m, h, k, x, u, l, s
<1>4. Update(q, x, h, m, u, l, s, k)
  BY <1>1, <1>2, <1>3 DEF Update
<1>5. Updated(q, x, h, m, u, l)
  BY <1>4, ShapedUpdate
<1> QED BY <1>3, <1>5 DEF Becomes, Updated, x, u, l

LEMMA UseEffect ==
  ASSUME NEW q, Shaped(q), NEW t \in Tensors
  PROVE  Becomes(q, [q EXCEPT !.use[t] = q.use[t] - 1], [q.use EXCEPT ![t] = q.use[t] - 1], t,
                 q.heap[1], q.mem[t], q.place[t])
<1> DEFINE u == [q.use EXCEPT ![t] = q.use[t] - 1]
           x == [q EXCEPT !.use[t] = q.use[t] - 1]
           h == q.heap
           m == q.mem
           l == q.place
           s == q.scratchAt
           k == q.unknown
<1>1. /\ h = [g \in 0..1 |-> h[g]] /\ m = [v \in Tensors |-> m[v]]
      /\ q.use = [v \in Tensors |-> q.use[v]] /\ l = [v \in Tensors |-> l[v]]
  BY DEF Shaped
<1>2. x = [q EXCEPT !.heap = h, !.mem = m, !.use = u, !.place = l, !.scratchAt = s, !.unknown = k]
  BY DEF Shaped
<1>3. u = [v \in Tensors |-> u[v]]
  BY <1>1
<1> HIDE DEF u, x, h, m, l, s, k
<1>4. Update(q, x, h, m, u, l, s, k)
  BY <1>1, <1>2, <1>3 DEF Update
<1>5. Updated(q, x, h, m, u, l)
  BY <1>4, ShapedUpdate
<1> QED BY <1>5 DEF Becomes, Updated, x, u, h, m, l

LEMMA AllocEffect ==
  ASSUME NEW q, Shaped(q), NEW t \in Tensors
  PROVE  LET a == AllocNode(q.heap[1], Size(q, t), StorageType(t) = "DYNAMIC_SEPERATE")
             x == AllocTensor(q, t, 1)
         IN  IF q.group[t] # 1 \/ q.mem[t] # None
             THEN Becomes(q, x, q.use, t, q.heap[1], q.mem[t], q.place[t])
             ELSE IF StorageType(t) = "STATIC" THEN Becomes(q, x, q.use, t, q.heap[1], Static, q.place[t])
             ELSE Becomes(q, x, q.use, t, a.heap, a.node, a.node)
<1> DEFINE a == AllocNode(q.heap[1], Size(q, t), StorageType(t) = "DYNAMIC_SEPERATE")
           x == AllocTensor(q, t, 1)
           u == q.use
           s == q.scratchAt
           k == q.unknown
<1>1. /\ q.heap = [g \in 0..1 |-> q.heap[g]] /\ q.mem = [v \in Tensors |-> q.mem[v]]
      /\ u = [v \in Tensors |-> u[v]] /\ q.place = [v \in Tensors |-> q.place[v]]
  BY DEF Shaped
<1> HIDE DEF a
<1>2. CASE q.group[t] # 1 \/ q.mem[t] # None
  <2>1. x = q
    BY <1>2 DEF AllocTensor
  <2> HIDE DEF x
  <2>2. Becomes(q, x, q.use, t, q.heap[1], q.mem[t], q.place[t])
    BY <2>1 DEF Becomes
  <2> QED BY <1>2, <2>2 DEF x
<1>3. CASE q.group[t] = 1 /\ q.mem[t] = None /\ StorageType(t) = "STATIC"
  <2> DEFINE m == [q.mem EXCEPT ![t] = Static]
             h == q.heap
             l == q.place
  <2>1. x = [q EXCEPT !.mem[t] = Static]
    BY <1>3 DEF AllocTensor
  <2>2. x = [q EXCEPT !.heap = h, !.mem = m, !.use = u, !.place = l, !.scratchAt = s, !.unknown = k]
    BY <2>1 DEF Shaped
  <2>3. m = [v \in Tensors |-> m[v]] /\ m[t] = Static /\ \A v \in Tensors : v # t => m[v] = q.mem[v]
    BY <1>1
  <2> HIDE DEF m, x, h, l, u, s, k
  <2>4. Update(q, x, h, m, u, l, s, k)
    BY <1>1, <2>2, <2>3 DEF Update, h, l
  <2>5. Updated(q, x, h, m, u, l)
    BY <2>4, ShapedUpdate
  <2>6. Becomes(q, x, q.use, t, q.heap[1], Static, q.place[t])
    BY <2>3, <2>5 DEF Becomes, Updated, h, l, u
  <2> QED BY <1>3, <2>6 DEF x
<1>4. CASE q.group[t] = 1 /\ q.mem[t] = None /\ StorageType(t) # "STATIC"
  <2> DEFINE n == a.node
             f == a.heap
             m == [q.mem EXCEPT ![t] = n]
             l == [q.place EXCEPT ![t] = n]
             h == [q.heap EXCEPT ![1] = f]
  <2>1. x = [q EXCEPT !.heap[1] = f, !.mem[t] = n, !.place[t] = n]
    BY <1>4 DEF AllocTensor, a
  <2> HIDE DEF x, n, f
  <2>2. x = [q EXCEPT !.heap = h, !.mem = m, !.use = u, !.place = l, !.scratchAt = s, !.unknown = k]
    BY <2>1 DEF Shaped
  <2>3. m = [v \in Tensors |-> m[v]] /\ m[t] = n /\ \A v \in Tensors : v # t => m[v] = q.mem[v]
    BY <1>1
  <2>4. l = [v \in Tensors |-> l[v]] /\ l[t] = n /\ \A v \in Tensors : v # t => l[v] = q.place[v]
    BY <1>1
  <2>5. h = [g \in 0..1 |-> h[g]] /\ h[1] = f
    BY <1>1
  <2> HIDE DEF m, l, h, u, s, k
  <2>6. Update(q, x, h, m, u, l, s, k)
    BY <1>1, <2>2, <2>3, <2>4, <2>5 DEF Update
  <2>7. Updated(q, x, h, m, u, l)
    BY <2>6, ShapedUpdate
  <2>8. Becomes(q, x, q.use, t, f, n, n)
    BY <2>3, <2>4, <2>5, <2>7 DEF Becomes, Updated, u
  <2> QED BY <1>4, <2>8 DEF x, n, f, a
<1> QED BY <1>2, <1>3, <1>4

LEMMA OnResizeEffect ==
  ASSUME NEW q, Shaped(q), NEW c \in Commands, NEW t \in Tensors
  PROVE  LET a == AllocNode(q.heap[1], net.scratch[c], FALSE)
         IN  Becomes(q, OnResize(q, c, 1), q.use, t,
                     IF Group(q, c) # 1 \/ net.scratch[c] = 0 THEN q.heap[1] ELSE FreeNode(a.heap, a.node),
                     q.mem[t], q.place[t])
<1> DEFINE a == AllocNode(q.heap[1], net.scratch[c], FALSE)
           x == OnResize(q, c, 1)
           f == FreeNode(a.heap, a.node)
           u == q.use
           m == q.mem
           l == q.place
           k == q.unknown
<1>1. /\ q.heap = [g \in 0..1 |-> q.heap[g]] /\ m = [v \in Tensors |-> m[v]]
      /\ u = [v \in Tensors |-> u[v]] /\ l = [v \in Tensors |-> l[v]]
  BY DEF Shaped
<1>2. CASE Group(q, c) # 1 \/ net.scratch[c] = 0
  <2>1. x = q
    BY <1>2 DEF OnResize
  <2> HIDE DEF x, a
  <2>2. Becomes(q, x, q.use, t, q.heap[1], q.mem[t], q.place[t])
    BY <2>1 DEF Becomes
  <2> QED BY <1>2, <2>2 DEF x
<1>3. CASE ~(Group(q, c) # 1 \/ net.scratch[c] = 0)
  <2> DEFINE h == [q.heap EXCEPT ![1] = f]
             s == [q.scratchAt EXCEPT ![c] = a.node]
  <2>1. x = [q EXCEPT !.heap[1] = f, !.scratchAt[c] = a.node]
    BY <1>3 DEF OnResize
  <2> HIDE DEF x, f, a
  <2>2. x = [q EXCEPT !.heap = h, !.mem = m, !.use = u, !.place = l, !.scratchAt = s, !.unknown = k]
    BY <2>1 DEF Shaped
  <2>3. h = [g \in 0..1 |-> h[g]] /\ h[1] = f
    BY <1>1
  <2> HIDE DEF h, s, m, u, l, k
  <2>4. Update(q, x, h, m, u, l, s, k)
    BY <1>1, <2>2, <2>3 DEF Update
  <2>5. Updated(q, x, h, m, u, l)
    BY <2>4, ShapedUpdate
  <2>6. Becomes(q, x, q.use, t, f, q.mem[t], q.place[t])
    BY <2>3, <2>5 DEF Becomes, Updated, m, l, u
  <2> QED BY <1>3, <2>6 DEF x, f, a
<1> QED BY <1>2, <1>3

\* A step that treats two pipelines alike leaves them alike.
LEMMA AlikeAfter ==
  ASSUME NEW q, NEW r, Alike(q, r), NEW t \in Tensors, NEW x, NEW y, NEW use, NEW h,
         NEW m, NEW n, NEW m2, NEW n2,
         Becomes(q, x, use, t, h, m, n), Becomes(r, y, use, t, h, m2, n2),
         q.group[t] = 1 => /\ n = n2
                           /\ StorageType(t) # "STATIC" => m = m2
                           /\ StorageType(t) = "STATIC" => ~(m > 0) /\ ~(m2 > 0)
  PROVE  Alike(x, y) /\ x.group = q.group
<1> SUFFICES ASSUME NEW v \in Tensors, x.group[v] = 1
             PROVE  /\ v \notin net.varies /\ x.place[v] = y.place[v]
                    /\ StorageType(v) # "STATIC" => x.mem[v] = y.mem[v]
                    /\ StorageType(v) = "STATIC" => ~(x.mem[v] > 0) /\ ~(y.mem[v] > 0)
  BY DEF Alike, Becomes
<1>1. CASE v = t
  BY <1>1 DEF Alike, Becomes
<1>2. CASE v # t
  BY <1>2 DEF Alike, Becomes
<1> QED BY <1>1, <1>2

LEMMA DropAlike ==
  ASSUME NEW q, NEW r, Alike(q, r), NEW t \in Tensors
  PROVE  Alike(DropMem(q, t), DropMem(r, t)) /\ DropMem(q, t).group = q.group
<1> DEFINE x == DropMem(q, t)
           y == DropMem(r, t)
           h == IF q.group[t] = 1 /\ q.mem[t] > 0 THEN FreeNode(q.heap[1], q.mem[t]) ELSE q.heap[1]
           k == IF r.group[t] = 1 /\ r.mem[t] > 0 THEN FreeNode(r.heap[1], r.mem[t]) ELSE r.heap[1]
           n == q.place[t]
           n2 == r.place[t]
           u == q.use
<1>1. Becomes(q, x, q.use, t, h, None, n) /\ Becomes(r, y, r.use, t, k, None, n2)
  BY DropEffect DEF Alike
<1>2. h = k /\ q.use = r.use /\ (q.group[t] = 1 => n = n2)
  <2>1. CASE q.group[t] = 1 /\ StorageType(t) = "STATIC"
    BY <2>1 DEF Alike
  <2>2. CASE q.group[t] = 1 /\ StorageType(t) # "STATIC"
    BY <2>2 DEF Alike
  <2>3. CASE q.group[t] # 1
    BY <2>3 DEF Alike
  <2> QED BY <2>1, <2>2, <2>3
<1>3. ~(None > 0)
  BY DEF None
<1> DEFINE m == None
<1>4. Becomes(q, x, u, t, h, m, n) /\ Becomes(r, y, u, t, h, m, n2) /\ ~(m > 0)
  BY <1>1, <1>2, <1>3
<1> HIDE DEF x, y, h, k, n, n2, u, m
<1>5. Alike(x, y) /\ x.group = q.group
  BY <1>2, <1>4, AlikeAfter
<1> QED BY <1>5 DEF x, y

LEMMA UseAlike ==
  ASSUME NEW q, NEW r, Alike(q, r), NEW t \in Tensors
  PROVE  LET x == [q EXCEPT !.use[t] = q.use[t] - 1]
             y == [r EXCEPT !.use[t] = r.use[t] - 1]
         IN  Alike(x, y) /\ x.group = q.group
<1> DEFINE x == [q EXCEPT !.use[t] = q.use[t] - 1]
           y == [r EXCEPT !.use[t] = r.use[t] - 1]
           h == q.heap[1]
           u == [q.use EXCEPT ![t] = q.use[t] - 1]
           v == [r.use EXCEPT ![t] = r.use[t] - 1]
           m == q.mem[t]
           m2 == r.mem[t]
           n == q.place[t]
           n2 == r.place[t]
<1>1. Becomes(q, x, u, t, q.heap[1], m, n) /\ Becomes(r, y, v, t, r.heap[1], m2, n2)
  BY UseEffect DEF Alike
<1>2. u = v /\ q.heap[1] = r.heap[1]
  BY DEF Alike
<1>3. q.group[t] = 1 => /\ n = n2
                        /\ StorageType(t) # "STATIC" => m = m2
                        /\ StorageType(t) = "STATIC" => ~(m > 0) /\ ~(m2 > 0)
  BY DEF Alike
<1>4. Becomes(q, x, u, t, h, m, n) /\ Becomes(r, y, u, t, h, m2, n2)
  BY <1>1, <1>2
<1> HIDE DEF x, y, h, n, n2, u, m, m2, v
<1>5. Alike(x, y) /\ x.group = q.group
  BY <1>3, <1>4, AlikeAfter
<1> QED BY <1>5 DEF x, y

LEMMA ReleaseAlike ==
  ASSUME NEW q, NEW r, Alike(q, r), NEW t \in Tensors, NEW ai
  PROVE  LET x == ReleaseTensor(q, t, 1, ai)
         IN  Alike(x, ReleaseTensor(r, t, 1, ai)) /\ x.group = q.group
<1> DEFINE a == [q EXCEPT !.use[t] = q.use[t] - 1]
           b == [r EXCEPT !.use[t] = r.use[t] - 1]
           x == ReleaseTensor(q, t, 1, ai)
           y == ReleaseTensor(r, t, 1, ai)
<1>1. Alike(a, b) /\ a.group = q.group
  BY UseAlike
<1>2. /\ x = IF a.group[t] = 1 /\ NeedRelease(a, t, ai) THEN DropMem(a, t) ELSE a
      /\ y = IF b.group[t] = 1 /\ NeedRelease(b, t, ai) THEN DropMem(b, t) ELSE b
  BY DEF ReleaseTensor
<1> HIDE DEF a, b, x, y
<1>3. NeedRelease(a, t, ai) <=> NeedRelease(b, t, ai)
  BY <1>1 DEF NeedRelease, Alike
<1>4. a.group = b.group
  BY <1>1 DEF Alike
<1>5. Alike(DropMem(a, t), DropMem(b, t)) /\ DropMem(a, t).group = a.group
  BY <1>1, DropAlike
<1>6. Alike(x, y) /\ x.group = q.group
  <2>1. CASE a.group[t] = 1 /\ NeedRelease(a, t, ai)
    <3>1. x = DropMem(a, t) /\ y = DropMem(b, t)
      BY <1>2, <1>3, <1>4, <2>1
    <3> QED BY <1>1, <1>5, <3>1
  <2>2. CASE ~(a.group[t] = 1 /\ NeedRelease(a, t, ai))
    <3>1. x = a /\ y = b
      BY <1>2, <1>3, <1>4, <2>2
    <3> QED BY <1>1, <3>1
  <2> QED BY <2>1, <2>2
<1> QED BY <1>6 DEF x, y

LEMMA AllocAlike ==
  ASSUME NEW q, NEW r, Alike(q, r), NEW t \in Tensors
  PROVE  LET x == AllocTensor(q, t, 1)
         IN  Alike(x, AllocTensor(r, t, 1)) /\ x.group = q.group
<1> DEFINE a == AllocNode(q.heap[1], Size(q, t), StorageType(t) = "DYNAMIC_SEPERATE")
           b == AllocNode(r.heap[1], Size(r, t), StorageType(t) = "DYNAMIC_SEPERATE")
           x == AllocTensor(q, t, 1)
           y == AllocTensor(r, t, 1)
           u == q.use
           n == q.place[t]
           n2 == r.place[t]
           h == q.heap[1]
<1>1. /\ Shaped(q) /\ Shaped(r) /\ q.use = r.use /\ q.heap[1] = r.heap[1] /\ q.group = r.group
      /\ q.group[t] = 1 =>
         /\ t \notin net.varies /\ q.place[t] = r.place[t]
         /\ StorageType(t) # "STATIC" => q.mem[t] = r.mem[t]
         /\ StorageType(t) = "STATIC" => ~(q.mem[t] > 0) /\ ~(r.mem[t] > 0)
  BY DEF Alike
<1>2. /\ IF q.group[t] # 1 \/ q.mem[t] # None
         THEN Becomes(q, x, q.use, t, q.heap[1], q.mem[t], n)
         ELSE IF StorageType(t) = "STATIC" THEN Becomes(q, x, q.use, t, q.heap[1], Static, n)
         ELSE Becomes(q, x, q.use, t, a.heap, a.node, a.node)
      /\ IF r.group[t] # 1 \/ r.mem[t] # None
         THEN Becomes(r, y, r.use, t, r.heap[1], r.mem[t], n2)
         ELSE IF StorageType(t) = "STATIC" THEN Becomes(r, y, r.use, t, r.heap[1], Static, n2)
         ELSE Becomes(r, y, r.use, t, b.heap, b.node, b.node)
  BY <1>1, AllocEffect
<1>3. q.group[t] = 1 => a = b
  BY <1>1 DEF Size
<1> HIDE DEF x, y, a, b
<1>4. CASE q.group[t] # 1
  <2> DEFINE m == q.mem[t]
             m2 == r.mem[t]
  <2>1. Becomes(q, x, u, t, h, m, n) /\ Becomes(r, y, u, t, h, m2, n2)
    BY <1>1, <1>2, <1>4
  <2> HIDE DEF h, n, n2, u, m, m2
  <2>2. Alike(x, y) /\ x.group = q.group
    BY <1>4, <2>1, AlikeAfter
  <2> QED BY <2>2 DEF x, y
<1>5. CASE q.group[t] = 1 /\ StorageType(t) = "STATIC"
  <2> DEFINE m == IF q.mem[t] # None THEN q.mem[t] ELSE Static
             m2 == IF r.mem[t] # None THEN r.mem[t] ELSE Static
  <2>1. Becomes(q, x, u, t, h, m, n) /\ Becomes(r, y, u, t, h, m2, n2)
    BY <1>1, <1>2, <1>5
  <2>2. ~(m > 0) /\ ~(m2 > 0) /\ n = n2
    BY <1>1, <1>5 DEF Static
  <2> HIDE DEF h, n, n2, u, m, m2
  <2>3. Alike(x, y) /\ x.group = q.group
    BY <1>5, <2>1, <2>2, AlikeAfter
  <2> QED BY <2>3 DEF x, y
<1>6. CASE q.group[t] = 1 /\ StorageType(t) # "STATIC" /\ q.mem[t] # None
  <2> DEFINE m == q.mem[t]
             m2 == r.mem[t]
  <2>1. Becomes(q, x, u, t, h, m, n) /\ Becomes(r, y, u, t, h, m2, n2) /\ n = n2 /\ m = m2
    BY <1>1, <1>2, <1>6
  <2> HIDE DEF h, n, n2, u, m, m2
  <2>2. Alike(x, y) /\ x.group = q.group
    BY <1>6, <2>1, AlikeAfter
  <2> QED BY <2>2 DEF x, y
<1>7. CASE q.group[t] = 1 /\ StorageType(t) # "STATIC" /\ q.mem[t] = None
  <2> DEFINE m == a.node
             k == a.heap
  <2>1. Becomes(q, x, u, t, k, m, m) /\ Becomes(r, y, u, t, k, m, m)
    BY <1>1, <1>2, <1>3, <1>7
  <2> HIDE DEF k, u, m
  <2>2. Alike(x, y) /\ x.group = q.group
    BY <1>7, <2>1, AlikeAfter
  <2> QED BY <2>2 DEF x, y
<1> QED BY <1>4, <1>5, <1>6, <1>7

LEMMA OnResizeAlike ==
  ASSUME NEW q, NEW r, Alike(q, r), NEW c \in Commands
  PROVE  LET x == OnResize(q, c, 1)
         IN  Alike(x, OnResize(r, c, 1)) /\ x.group = q.group
<1> DEFINE a == AllocNode(q.heap[1], net.scratch[c], FALSE)
           b == AllocNode(r.heap[1], net.scratch[c], FALSE)
           x == OnResize(q, c, 1)
           y == OnResize(r, c, 1)
           t == Out(c)
           u == q.use
           n == q.place[t]
           n2 == r.place[t]
           m == q.mem[t]
           m2 == r.mem[t]
           h == IF Group(q, c) # 1 \/ net.scratch[c] = 0 THEN q.heap[1] ELSE FreeNode(a.heap, a.node)
           k == IF Group(r, c) # 1 \/ net.scratch[c] = 0 THEN r.heap[1] ELSE FreeNode(b.heap, b.node)
<1>1. t \in Tensors
  BY Numbers
<1>2. Becomes(q, x, q.use, t, h, m, n) /\ Becomes(r, y, r.use, t, k, m2, n2)
  <2>1. Shaped(q) /\ Shaped(r)
    BY DEF Alike
  <2> HIDE DEF t
  <2> QED BY <1>1, <2>1, OnResizeEffect
<1>3. h = k /\ q.use = r.use
  BY DEF Alike, Group
<1>4. q.group[t] = 1 => /\ n = n2
                        /\ StorageType(t) # "STATIC" => m = m2
                        /\ StorageType(t) = "STATIC" => ~(m > 0) /\ ~(m2 > 0)
  BY <1>1 DEF Alike
<1>5. Becomes(q, x, u, t, h, m, n) /\ Becomes(r, y, u, t, h, m2, n2)
  BY <1>2, <1>3
<1> HIDE DEF x, y, h, k, n, n2, u, m, m2, t, a, b
<1>6. Alike(x, y) /\ x.group = q.group
  BY <1>1, <1>4, <1>5, AlikeAfter
<1> QED BY <1>6 DEF x, y

LEMMA DynamicAlike ==
  ASSUME NEW q, NEW r, Alike(q, r), NEW t \in Tensors
  PROVE  LET x == DropDynamic(q, t)
         IN  Alike(x, DropDynamic(r, t)) /\ x.group = q.group
<1>1. Alike(DropMem(q, t), DropMem(r, t)) /\ DropMem(q, t).group = q.group
  BY DropAlike
<1> QED BY <1>1 DEF DropDynamic

\* A command.
LEMMA CommandAlike ==
  ASSUME NetOK, NEW q, NEW r, Alike(q, r), NEW c \in Commands, NEW ai
  PROVE  Alike(PlanCommand(q, c, 1, ai, 0), PlanCommand(r, c, 1, ai, 0))
<1> DEFINE t1 == net.ins[c][1]
           t2 == net.ins[c][2]
           one(s) == AllocTensor(s, t1, 1)
           two(s) == IF Len(net.ins[c]) = 1 THEN one(s) ELSE AllocTensor(one(s), t2, 1)
           all(s) == IF ai THEN two(s) ELSE s
           a(s) == AllocTensor(all(s), Out(c), 1)
           o(s) == OnResize(a(s), c, 1)
           rone(s) == ReleaseTensor(o(s), t1, 1, ai)
           z(s) == IF Len(net.ins[c]) = 1 THEN rone(s) ELSE ReleaseTensor(rone(s), t2, 1, ai)
<1>1. ASSUME NEW s
      PROVE  PlanCommand(s, c, 1, ai, 0) = IF s.code # "NO_ERROR" THEN s ELSE z(s)
  <2>1. c # 0
    BY Numbers
  <2> QED BY <2>1 DEF PlanCommand, EachInput
<1>2. /\ t1 \in Tensors /\ Out(c) \in Tensors /\ (Len(net.ins[c]) # 1 => t2 \in Tensors)
      /\ q.code = r.code
  BY InputsOf, Numbers DEF Alike
<1> HIDE DEF t1, t2
<1>3. Alike(one(q), one(r))
  BY <1>2, AllocAlike
<1> HIDE DEF one
<1>4. Alike(two(q), two(r))
  BY <1>2, <1>3, AllocAlike
<1> HIDE DEF two
<1>5. Alike(all(q), all(r))
  BY <1>4
<1> HIDE DEF all
<1>6. Alike(a(q), a(r))
  BY <1>2, <1>5, AllocAlike
<1> HIDE DEF a
<1>7. Alike(o(q), o(r))
  BY <1>6, OnResizeAlike
<1> HIDE DEF o
<1>8. Alike(rone(q), rone(r))
  BY <1>2, <1>7, ReleaseAlike
<1> HIDE DEF rone
<1>9. Alike(z(q), z(r))
  BY <1>2, <1>8, ReleaseAlike
<1> HIDE DEF z
<1> QED BY <1>1, <1>2, <1>9

LEMMA RecycleAlike ==
  ASSUME NetOK, NEW q, NEW r, Alike(q, r), NEW c \in Commands
  PROVE  Alike(RecycleIn(q, c, 1), RecycleIn(r, c, 1))
<1> DEFINE t1 == net.ins[c][1]
           t2 == net.ins[c][2]
           d(s) == DropDynamic(s, Out(c))
           one(s) == DropDynamic(d(s), t1)
           z(s) == IF Len(net.ins[c]) = 1 THEN one(s) ELSE DropDynamic(one(s), t2)
<1>1. ASSUME NEW s PROVE RecycleIn(s, c, 1) = IF Group(s, c) = 1 THEN z(s) ELSE s
  BY DEF RecycleIn, Recycle, EachInput
<1>2. /\ t1 \in Tensors /\ Out(c) \in Tensors /\ (Len(net.ins[c]) # 1 => t2 \in Tensors)
      /\ Group(q, c) = Group(r, c)
  BY InputsOf, Numbers DEF Alike, Group
<1> HIDE DEF t1, t2
<1>3. Alike(d(q), d(r))
  BY <1>2, DynamicAlike
<1> HIDE DEF d
<1>4. Alike(one(q), one(r))
  BY <1>2, <1>3, DynamicAlike
<1> HIDE DEF one
<1>5. Alike(z(q), z(r))
  BY <1>2, <1>4, DynamicAlike
<1> HIDE DEF z
<1> QED BY <1>1, <1>2, <1>5

\* What the plan of buffer 1 comes to, from q.
Planned(q) == RecycleAll(PlanAll(q, 1, TRUE, 0), 1)

LEMMA PlanRuns ==
  ASSUME NEW q
  PROVE  \E f : /\ f[0] = q /\ PlanAll(q, 1, TRUE, 0) = f[NumCommands]
                /\ \A c \in Commands : f[c] = PlanCommand(f[c - 1], c, 1, TRUE, 0)
<1>1. ASSUME NEW ai
      PROVE  \E f : /\ f[0] = q /\ PlanAll(q, 1, ai, 0) = f[NumCommands]
                    /\ \A c \in Commands : f[c] = PlanCommand(f[c - 1], c, 1, ai, 0)
  BY PlanAllSteps
<1> QED BY <1>1, Zenon

LEMMA PlannedAlike ==
  ASSUME NetOK, NEW q, NEW r, Alike(q, r)
  PROVE  Alike(Planned(q), Planned(r))
<1> DEFINE N == NumCommands
           a == PlanAll(q, 1, TRUE, 0)
           b == PlanAll(r, 1, TRUE, 0)
<1>1. N \in Nat /\ \A c \in 1..N : c \in Commands /\ c - 1 \in 0..N
  BY PipelineAssumption DEF Commands
<1>2. Alike(a, b)
  <2> DEFINE Steps(f, s, m) == /\ f[0] = s /\ m = f[N]
                               /\ \A c \in Commands : f[c] = PlanCommand(f[c - 1], c, 1, TRUE, 0)
  <2>1. (\E f : Steps(f, q, a)) /\ \E f : Steps(f, r, b)
    BY PlanRuns
  <2> HIDE DEF a, b
  <2>2. PICK f : Steps(f, q, a)
    BY <2>1
  <2>3. PICK k : Steps(k, r, b)
    BY <2>1
  <2> DEFINE T == {c \in 0..N : ~Alike(f[c], k[c])}
  <2>4. T = {}
    <3> SUFFICES ASSUME T # {} PROVE FALSE
      OBVIOUS
    <3>1. PICK m \in T : \A y \in T : m <= y
      <4>1. T \in SUBSET Nat
        OBVIOUS
      <4> HIDE DEF T
      <4> QED BY <4>1, LeastNat
    <3>2. m # 0
      BY <2>2, <2>3
    <3>3. m \in Commands /\ Alike(f[m - 1], k[m - 1])
      BY <1>1, <3>1, <3>2
    <3>4. f[m] = PlanCommand(f[m - 1], m, 1, TRUE, 0) /\ k[m] = PlanCommand(k[m - 1], m, 1, TRUE, 0)
      BY <2>2, <2>3, <3>3
    <3>5. ASSUME NEW ai
          PROVE  Alike(PlanCommand(f[m - 1], m, 1, ai, 0), PlanCommand(k[m - 1], m, 1, ai, 0))
      BY <3>3, CommandAlike
    <3>6. Alike(PlanCommand(f[m - 1], m, 1, TRUE, 0), PlanCommand(k[m - 1], m, 1, TRUE, 0))
      BY <3>5, Zenon
    <3> QED BY <3>1, <3>4, <3>6
  <2> QED BY <1>1, <2>2, <2>3, <2>4
<1> HIDE DEF a, b
<1>3. Alike(RecycleAll(a, 1), RecycleAll(b, 1))
  <2> DEFINE Steps(f, s) == /\ f[0] = s /\ RecycleAll(s, 1) = f[N]
                            /\ \A c \in Commands : f[c] = RecycleIn(f[c - 1], c, 1)
  <2>1. (\E f : Steps(f, a)) /\ \E f : Steps(f, b)
    BY RecycleAllSteps
  <2>2. PICK f : Steps(f, a)
    BY <2>1
  <2>3. PICK k : Steps(k, b)
    BY <2>1
  <2> DEFINE T == {c \in 0..N : ~Alike(f[c], k[c])}
  <2>4. T = {}
    <3> SUFFICES ASSUME T # {} PROVE FALSE
      OBVIOUS
    <3>1. PICK m \in T : \A y \in T : m <= y
      <4>1. T \in SUBSET Nat
        OBVIOUS
      <4> HIDE DEF T
      <4> QED BY <4>1, LeastNat
    <3>2. m # 0
      BY <1>2, <2>2, <2>3
    <3>3. m \in Commands /\ Alike(f[m - 1], k[m - 1])
      BY <1>1, <3>1, <3>2
    <3>4. f[m] = RecycleIn(f[m - 1], m, 1) /\ k[m] = RecycleIn(k[m - 1], m, 1)
      BY <2>2, <2>3, <3>3
    <3> QED BY <3>1, <3>3, <3>4, RecycleAlike
  <2> QED BY <1>1, <2>2, <2>3, <2>4
<1> QED BY <1>3 DEF Planned, a, b

-----------------------------------------------------------------------------
(* What is fixed stays where it is.                                         *)

\* A pipeline that is about to plan buffer 1.
Opening(z) ==
    /\ Shaped(z) /\ z.fixed = Fixable /\ z.group = Groups(Fixable) /\ z.heap[1] = EmptyHeap
    /\ z.use = UseCounts /\ z.code = "NO_ERROR"
    /\ \A t \in Tensors : z.group[t] = 1 =>
         /\ z.place[t] = 0
         /\ StorageType(t) # "STATIC" => z.mem[t] = None
         /\ StorageType(t) = "STATIC" => ~(z.mem[t] > 0)

LEMMA OpeningsAlike ==
  ASSUME NetOK, NEW y, NEW z, Opening(y), Opening(z)
  PROVE  Alike(y, z)
<1>1. \A t \in Tensors : y.group[t] = 1 => t \notin net.varies
  <2> SUFFICES ASSUME NEW t \in Tensors, y.group[t] = 1 PROVE t \notin net.varies
    OBVIOUS
  <2>1. PICK c \in Fixable : t = Out(c) \/ Reads(c, t)
    BY DEF Opening, Groups
  <2>2. Out(c) \notin net.varies /\ ToSet(net.ins[c]) \cap net.varies = {}
    BY DEF NetOK, Fixable
  <2> QED BY <2>1, <2>2 DEF Reads
<1> QED BY <1>1 DEF Alike, Opening

\* Buffer 1 of q is as in r.
Same(q, r) ==
    /\ q.group = Groups(Fixable) /\ r.group = Groups(Fixable) /\ q.heap[1] = r.heap[1]
    /\ \A t \in Tensors : Groups(Fixable)[t] = 1 => q.place[t] = r.place[t]

\* Whoever plans buffer 1 gets the plan that q has.
Canonical(q) == q.fixed # {} => \A z : Opening(z) => Same(q, Planned(z))

LEMMA MaskedOpens ==
  ASSUME NetOK, NEW q, BetweenCalls(q), q.code = "NO_ERROR"
  PROVE  Opening(Begin(Masked(q), 1))
<1> DEFINE z == Masked(q)
           y == ResetHeap(z, 1)
           b == Begin(z, 1)
<1>1. z \in PStates /\ z.fixed = Fixable /\ z.group = Groups(Fixable) /\ z.mem = q.mem
  BY MaskedOK
<1> HIDE DEF z
<1>2. /\ y \in PStates /\ y.group = z.group /\ y.fixed = z.fixed /\ y.heap[1] = EmptyHeap
      /\ \A t \in Tensors : /\ y.mem[t] = IF z.group[t] = 1 /\ z.mem[t] > 0 THEN Gone ELSE z.mem[t]
                            /\ y.place[t] = IF z.group[t] = 1 THEN 0 ELSE z.place[t]
  BY <1>1, ResetHeapIs
<1>3. b = [y EXCEPT !.use = UseCounts, !.code = "NO_ERROR"]
  BY DEF Begin
<1> HIDE DEF y
<1>4. /\ b.group = y.group /\ b.fixed = y.fixed /\ b.mem = y.mem /\ b.place = y.place /\ b.heap = y.heap
      /\ b.use = UseCounts /\ b.code = "NO_ERROR" /\ b \in PStates
  BY <1>2, <1>3, CountsAre DEF PStates
<1> HIDE DEF b
<1>5. Shaped(b)
  <2>1. b \in [heap : {b.heap}, mem : {b.mem}, use : {b.use}, group : {b.group}, fixed : {b.fixed},
               shape : {b.shape}, place : {b.place}, scratchAt : {b.scratchAt}, code : {b.code},
               unknown : {b.unknown}]
    BY <1>4 DEF PStates
  <2>2. /\ b.heap = [g \in 0..1 |-> b.heap[g]] /\ b.mem = [t \in Tensors |-> b.mem[t]]
        /\ b.use = [t \in Tensors |-> b.use[t]] /\ b.place = [t \in Tensors |-> b.place[t]]
    BY <1>4 DEF PStates
  <2> QED BY <2>1, <2>2 DEF Shaped
<1>6. ASSUME NEW t \in Tensors, b.group[t] = 1
      PROVE  /\ b.place[t] = 0
             /\ StorageType(t) # "STATIC" => b.mem[t] = None
             /\ StorageType(t) = "STATIC" => ~(b.mem[t] > 0)
  <2>1. q.mem[t] \in {None, Static} /\ (q.mem[t] = Static => StorageType(t) = "STATIC")
    BY DEF BetweenCalls, AllReturned, MemOK
  <2> QED BY <1>1, <1>2, <1>4, <1>6, <2>1 DEF None, Static
<1>7. Opening(b)
  BY <1>1, <1>2, <1>4, <1>5, <1>6 DEF Opening
<1> QED BY <1>7 DEF b, z

\* A fix leaves the plan that any would, so a second one changes nothing.
LEMMA FixKeeps ==
  ASSUME NetOK, NEW q, BetweenCalls(q), Canonical(q), q.code = "NO_ERROR", ~q.unknown
  PROVE  /\ Canonical(Refixed(q))
         /\ q.fixed # {} => Same(q, Refixed(q))
<1> DEFINE b == Begin(Masked(q), 1)
           m == PlanAll(b, 1, TRUE, 0)
           z == Planned(b)
           x == AllocForTensor(Masked(q), 1, TRUE, 0)
           r == Refixed(q)
<1>1. Opening(b) /\ BetweenCalls(r)
  BY MaskedOpens, FixOK
<1>2. x.code = "NO_ERROR"
  BY FixOK
<1>3. x = IF m.code # "NO_ERROR" THEN m ELSE [z EXCEPT !.code = ResizeEnd(z.heap[1])]
  BY DEF AllocForTensor, Begin, Planned
<1>4. r = [x EXCEPT !.code = IF x.code = "NO_ERROR" THEN "NOT_PLANNED" ELSE x.code]
  BY DEF Refixed
<1>5. Shaped(z)
  <2>1. Alike(b, b)
    <3> HIDE DEF b
    <3> QED BY <1>1, OpeningsAlike
  <2> HIDE DEF b
  <2>2. Alike(z, z)
    BY <2>1, PlannedAlike
  <2> QED BY <2>2 DEF Alike
<1> HIDE DEF x, r, z, m
<1>6. x = [z EXCEPT !.code = ResizeEnd(z.heap[1])]
  BY <1>2, <1>3
<1>7. /\ x.heap = z.heap /\ x.place = z.place /\ x.group = z.group
      /\ r.heap = z.heap /\ r.place = z.place /\ r.group = z.group
  <2>1. x.heap = z.heap /\ x.place = z.place /\ x.group = z.group
    BY <1>5, <1>6 DEF Shaped
  <2>2. r.heap = x.heap /\ r.place = x.place /\ r.group = x.group
    BY <1>4, <1>5, <1>6 DEF Shaped
  <2> QED BY <2>1, <2>2
<1>8. r.fixed = Fixable /\ r.group = Groups(Fixable)
  <2>1. r.fixed = Fixable
    BY FixOK DEF r
  <2> QED BY <1>1, <2>1 DEF BetweenCalls, GroupsOK
<1>9. Same(r, z)
  BY <1>7, <1>8 DEF Same
<1>10. ASSUME NEW y, Opening(y) PROVE Same(r, Planned(y))
  <2> DEFINE k == Planned(y)
  <2> HIDE DEF b
  <2>1. Alike(b, y)
    BY <1>1, <1>10, OpeningsAlike
  <2>2. Alike(z, k)
    BY <2>1, PlannedAlike DEF z
  <2> HIDE DEF k
  <2>3. Same(r, k)
    BY <1>9, <2>2 DEF Same, Alike
  <2> QED BY <2>3 DEF k
<1>11. ASSUME q.fixed # {} PROVE Same(q, r)
  <2>1. Same(q, z)
    <3> HIDE DEF b
    <3> QED BY <1>1, <1>11 DEF Canonical, z
  <2> QED BY <1>9, <2>1 DEF Same
<1> QED BY <1>10, <1>11 DEF Canonical, r

-----------------------------------------------------------------------------
(* The plan of buffer 1 depends on nothing but the network, which no call     *)
(* changes.                                                                 *)

LEMMA OpsStay ==
  ASSUME net' = net
  PROVE  /\ \A q, c : PlanCommand(q, c, 1, TRUE, 0)' = PlanCommand(q, c, 1, TRUE, 0)
         /\ \A q, c : RecycleIn(q, c, 1)' = RecycleIn(q, c, 1)
<1>1. ASSUME NEW t PROVE StorageType(t)' = StorageType(t) /\ Usage(t)' = Usage(t)
  BY DEF StorageType, Usage
<1>2. ASSUME NEW q, NEW t PROVE Size(q, t)' = Size(q, t)
  BY DEF Size
<1>3. ASSUME NEW q, NEW t PROVE AllocTensor(q, t, 1)' = AllocTensor(q, t, 1)
  <2> DEFINE K(s, st) == IF q.group[t] # 1 \/ q.mem[t] # None THEN q
                         ELSE IF st = "STATIC" THEN [q EXCEPT !.mem[t] = Static]
                         ELSE LET r == AllocNode(q.heap[1], s, st = "DYNAMIC_SEPERATE")
                              IN  [q EXCEPT !.heap[1] = r.heap, !.mem[t] = r.node, !.place[t] = r.node]
  <2>1. AllocTensor(q, t, 1) = K(Size(q, t), StorageType(t))
    BY DEF AllocTensor
  <2>2. AllocTensor(q, t, 1)' = K(Size(q, t)', StorageType(t)')
    BY DEF AllocTensor
  <2> HIDE DEF K
  <2> QED BY <1>1, <1>2, <2>1, <2>2
<1>4. ASSUME NEW q, NEW t PROVE NeedRelease(q, t, TRUE)' = NeedRelease(q, t, TRUE)
  BY <1>1 DEF NeedRelease
<1>5. ASSUME NEW q, NEW t PROVE ReleaseTensor(q, t, 1, TRUE)' = ReleaseTensor(q, t, 1, TRUE)
  BY <1>4 DEF ReleaseTensor
<1>6. ASSUME NEW q, NEW c PROVE OnResize(q, c, 1)' = OnResize(q, c, 1)
  BY DEF OnResize
<1>7. ASSUME NEW q, NEW t PROVE DropDynamic(q, t)' = DropDynamic(q, t)
  BY <1>1 DEF DropDynamic
<1>8. ASSUME NEW q, NEW c PROVE PlanCommand(q, c, 1, TRUE, 0)' = PlanCommand(q, c, 1, TRUE, 0)
  <2> DEFINE t1 == net.ins[c][1]
             t2 == net.ins[c][2]
             one == AllocTensor(q, t1, 1)
             two == IF Len(net.ins[c]) = 1 THEN one ELSE AllocTensor(one, t2, 1)
             a == AllocTensor(two, Out(c), 1)
             o == OnResize(a, c, 1)
             rone == ReleaseTensor(o, t1, 1, TRUE)
             z == IF Len(net.ins[c]) = 1 THEN rone ELSE ReleaseTensor(rone, t2, 1, TRUE)
             K(x, y) == IF q.code # "NO_ERROR" THEN q
                        ELSE IF c = 0 /\ Group(q, c) = 1 THEN [x EXCEPT !.code = "OP_FAILED"] ELSE y
  <2>1. PlanCommand(q, c, 1, TRUE, 0) = K(a, z)
    BY DEF PlanCommand, EachInput
  <2>2. PlanCommand(q, c, 1, TRUE, 0)' = K(a', z')
    BY DEF PlanCommand, EachInput
  <2> HIDE DEF K
  <2>3. a' = a
    <3>1. one' = one
      BY <1>3
    <3> HIDE DEF one
    <3>2. two' = two
      BY <1>3, <3>1
    <3> HIDE DEF two
    <3> QED BY <1>3, <3>2
  <2> HIDE DEF a
  <2>4. o' = o
    BY <1>6, <2>3
  <2> HIDE DEF o
  <2>5. z' = z
    <3>1. rone' = rone
      BY <1>5, <2>4
    <3> HIDE DEF rone
    <3> QED BY <1>5, <3>1
  <2> HIDE DEF z
  <2> QED BY <2>1, <2>2, <2>3, <2>5
<1>9. ASSUME NEW q, NEW c PROVE RecycleIn(q, c, 1)' = RecycleIn(q, c, 1)
  BY <1>7 DEF RecycleIn, Recycle, EachInput
<1> QED BY <1>8, <1>9
LEMMA PlannedStays ==
  ASSUME net' = net, NEW z
  PROVE  Planned(z)' = Planned(z)
<1>0. /\ \A q, c : PlanCommand(q, c, 1, TRUE, 0)' = PlanCommand(q, c, 1, TRUE, 0)
      /\ \A q, c : RecycleIn(q, c, 1)' = RecycleIn(q, c, 1)
  BY OpsStay
<1>1. ASSUME NEW q PROVE PlanAll(q, 1, TRUE, 0)' = PlanAll(q, 1, TRUE, 0)
  <2> DEFINE F(f) == [c \in 0 .. NumCommands |-> IF c = 0 THEN q ELSE PlanCommand(f[c - 1], c, 1, TRUE, 0)]
             G(f) == [c \in 0 .. NumCommands |-> IF c = 0 THEN q ELSE PlanCommand(f[c - 1], c, 1, TRUE, 0)']
  <2>1. ASSUME NEW f PROVE F(f) = G(f)
    BY <1>0
  <2>2. PlanAll(q, 1, TRUE, 0) = (CHOOSE f : f = F(f))[NumCommands]
    BY DEF PlanAll
  <2>3. PlanAll(q, 1, TRUE, 0)' = (CHOOSE f : f = G(f))[NumCommands]
    BY DEF PlanAll
  <2> HIDE DEF F, G
  <2>4. (CHOOSE f : f = F(f)) = (CHOOSE f : f = G(f))
    BY <2>1, Zenon
  <2> QED BY <2>2, <2>3, <2>4
<1>2. ASSUME NEW q PROVE RecycleAll(q, 1)' = RecycleAll(q, 1)
  <2> DEFINE F(f) == [c \in 0 .. NumCommands |-> IF c = 0 THEN q ELSE RecycleIn(f[c - 1], c, 1)]
             G(f) == [c \in 0 .. NumCommands |-> IF c = 0 THEN q ELSE RecycleIn(f[c - 1], c, 1)']
  <2>1. ASSUME NEW f PROVE F(f) = G(f)
    BY <1>0
  <2>2. RecycleAll(q, 1) = (CHOOSE f : f = F(f))[NumCommands]
    BY DEF RecycleAll
  <2>3. RecycleAll(q, 1)' = (CHOOSE f : f = G(f))[NumCommands]
    BY DEF RecycleAll
  <2> HIDE DEF F, G
  <2>4. (CHOOSE f : f = F(f)) = (CHOOSE f : f = G(f))
    BY <2>1, Zenon
  <2> QED BY <2>2, <2>3, <2>4
<1> QED BY <1>1, <1>2 DEF Planned

LEMMA CanonicalStays ==
  ASSUME net' = net, NEW r, p' = r, Canonical(r)
  PROVE  Canonical(p)'
<1>1. Groups(Fixable)' = Groups(Fixable) /\ Fixable' = Fixable
  <2>1. \A c, t : Reads(c, t)' <=> Reads(c, t)
    BY DEF Reads
  <2>2. Fixable' = Fixable
    BY DEF Fixable
  <2> QED BY <2>1, <2>2 DEF Groups
<1>2. UseCounts' = UseCounts
  <2>1. \A t : {c \in Commands \X (1..2) : c[2] \in DOMAIN net.ins[c[1]] /\ net.ins[c[1]][c[2]] = t}'
              = {c \in Commands \X (1..2) : c[2] \in DOMAIN net.ins[c[1]] /\ net.ins[c[1]][c[2]] = t}
    OBVIOUS
  <2> QED BY <2>1 DEF UseCounts
<1>3. \A t : StorageType(t)' = StorageType(t)
  BY DEF StorageType, Usage
<1>4. ASSUME NEW z PROVE Opening(z)' <=> Opening(z)
  BY <1>1, <1>2, <1>3 DEF Opening
<1>5. ASSUME NEW z PROVE Planned(z)' = Planned(z)
  BY PlannedStays
<1>6. ASSUME NEW z, Same(r, Planned(z)) PROVE Same(p, Planned(z))'
  BY <1>1, <1>5, <1>6 DEF Same
<1> QED BY <1>4, <1>6 DEF Canonical

\* What is fixed in q has not moved in r.
Stays(q, r) == \A t \in Tensors : q.group[t] = 1 =>
    r.group[t] = 1 /\ r.place[t] = q.place[t] /\ r.heap[1] = q.heap[1]

LEMMA UntouchedStays ==
  ASSUME NEW q, NEW r, Untouched(q, r), Canonical(q)
  PROVE  Canonical(r) /\ Stays(q, r)
<1>1. /\ r.group = q.group /\ r.fixed = q.fixed /\ r.heap[1] = q.heap[1]
      /\ \A t \in Tensors : q.group[t] = 1 => r.place[t] = q.place[t]
  BY DEF Untouched
<1>2. ASSUME NEW k, Same(q, k) PROVE Same(r, k)
  BY <1>1, <1>2 DEF Same
<1> QED BY <1>1, <1>2 DEF Canonical, Stays

LEMMA RefixedStays ==
  ASSUME NetOK, NEW q, BetweenCalls(q), Canonical(q), q.code = "NO_ERROR", ~q.unknown
  PROVE  Canonical(Refixed(q)) /\ Stays(q, Refixed(q))
<1> DEFINE r == Refixed(q)
<1>1. Canonical(r) /\ (q.fixed # {} => Same(q, r))
  BY FixKeeps
<1> HIDE DEF r
<1>2. CASE q.fixed = {}
  <2>1. \A t \in Tensors : q.group[t] # 1
    BY <1>2, GroupsAre DEF BetweenCalls
  <2> QED BY <1>1, <2>1 DEF Stays, r
<1>3. CASE q.fixed # {}
  BY <1>1, <1>3 DEF Same, Stays, r
<1> QED BY <1>2, <1>3

\* What p may become, with respect to what is fixed.
LEMMA NextKeeps ==
  ASSUME NetOK, BetweenCalls(p), Canonical(p), [PipelineNext]_pipelineVars
  PROVE  \E r : p' = r /\ Canonical(r) /\ Stays(p, r)
<1>0. p \in PStates /\ Untouched(p, p)
  BY DEF BetweenCalls, Untouched
<1>1. CASE ResizeFailsEarly
  <2>1. PICK s \in Shapes, c \in Commands :
          p' = [Encode([p EXCEPT !.shape = s], c) EXCEPT !.code = "COMPUTE_SIZE_ERROR"]
    BY <1>1 DEF ResizeFailsEarly
  <2> DEFINE r == [Encode([p EXCEPT !.shape = s], c) EXCEPT !.code = "COMPUTE_SIZE_ERROR"]
  <2>2. Untouched(p, r)
    BY ResizeFailsEarlyOK
  <2> HIDE DEF r
  <2>3. Canonical(r) /\ Stays(p, r)
    BY <2>2, UntouchedStays
  <2> QED BY <2>1, <2>3 DEF r
<1>2. CASE Resize
  <2>1. PICK s \in Shapes, f \in {0} \cup (Commands \ p.fixed) :
          p' = AllocForTensor(ResetHeap(Encode([p EXCEPT !.shape = s], NumCommands), 0), 0, net.inside, f)
    BY <1>2 DEF Resize
  <2> DEFINE r == AllocForTensor(ResetHeap(Encode([p EXCEPT !.shape = s], NumCommands), 0), 0, net.inside, f)
  <2>2. Untouched(p, r)
    BY ResizeOK
  <2> HIDE DEF r
  <2>3. Canonical(r) /\ Stays(p, r)
    BY <2>2, UntouchedStays
  <2> QED BY <2>1, <2>3 DEF r
<1>3. CASE Fix
  <2>1. p' = Refixed(p) /\ p.code = "NO_ERROR" /\ ~p.unknown
    BY <1>3 DEF Fix, Refixed, Masked
  <2>2. Canonical(Refixed(p)) /\ Stays(p, Refixed(p))
    BY <2>1, RefixedStays
  <2> QED BY <2>1, <2>2
<1>4. CASE p' = p
  BY <1>0, <1>4, UntouchedStays
<1> QED BY <1>1, <1>2, <1>3, <1>4 DEF PipelineNext, Undefined, pipelineVars

\* Operators of group 1 are never resized again and keep the addresses they were
\* given (Pipeline.cpp:1041), in any network: no later resize, whether it succeeds
\* or fails, and no second fix moves one of their tensors.
THEOREM FixedTensorsStay == PipelineSpec => FixedStay
<1> DEFINE Stay == \A t \in Tensors : p.group[t] = 1 =>
                     /\ p'.group[t] = 1 /\ p'.place[t] = p.place[t]
                     /\ p.place[t] # 0 => Address(p'.heap[1])[p.place[t]]
                                          = Address(p.heap[1])[p.place[t]]
<1>1. PipelineInit => Canonical(p)
  BY DEF PipelineInit, NewPipeline, Canonical
<1>2. NetOK /\ BetweenCalls(p) /\ Canonical(p) /\ [PipelineNext]_pipelineVars => Canonical(p)' /\ Stay
  <2> SUFFICES ASSUME NetOK, BetweenCalls(p), Canonical(p), [PipelineNext]_pipelineVars
               PROVE  Canonical(p)' /\ Stay
    OBVIOUS
  <2>1. net' = net
    BY DEF PipelineNext, pipelineVars, ResizeFailsEarly, Resize, Fix, Undefined
  <2>2. PICK r : p' = r /\ Canonical(r) /\ Stays(p, r)
    BY NextKeeps
  <2>3. Canonical(p)'
    BY <2>1, <2>2, CanonicalStays
  <2>4. Stay
    BY <2>2 DEF Stays
  <2> QED BY <2>3, <2>4
<1>3. PipelineSpec => [](NetOK /\ BetweenCalls(p))
  BY PipelineInvariant
<1>4. FixedStay <=> [][Stay]_pipelineVars
  BY DEF FixedStay
<1> QED BY <1>1, <1>2, <1>3, <1>4, PTL DEF PipelineSpec
=============================================================================
