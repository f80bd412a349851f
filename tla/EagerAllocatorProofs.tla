------------------------ MODULE EagerAllocatorProofs ------------------------
(* Proofs about the eager allocator, for any sizes of blocks and requests,   *)
(* any alignment and any number of blocks, chunks and groups.                *)
EXTENDS MCEagerAllocator, FiniteSetTheorems, SequenceTheorems, TLAPS

-----------------------------------------------------------------------------
(* The inductive invariant.                                                 *)

Elems(q) == {q[i] : i \in 1..Len(q)}
Once(q) == \A i, j \in 1..Len(q) : q[i] = q[j] => i = j

ExtentSet == [lo : Nat, size : Nat]
NodeSet == [block : 1..MaxBlocks, path : {s \in Seq(ExtentSet) : s # <<>>}]

Depth(n) == Len(n.path)

\* n is a or a part of a.
Under(a, n) == /\ a.block = n.block /\ Depth(a) <= Depth(n)
               /\ \A i \in 1..Depth(a) : a.path[i] = n.path[i]

Disjoint(a, b) == \/ Extent(a).lo + NodeSize(a) <= Extent(b).lo
                  \/ Extent(b).lo + NodeSize(b) <= Extent(a).lo

\* The nodes of some leaves and all that they are parts of.
Ancestry(leaves) == UNION {Lineage(n) : n \in leaves}

\* A node that is not in the free list counts in its parent.
Busy(free, n) == IF n \in free THEN 0 ELSE 1

Parts(alive, a) == {x \in alive : ~IsRoot(x) /\ Parent(x) = a}

\* What was split has two parts, one behind the other, of which those that are
\* busy are counted, and that are not both free.
Halved(alive, free, count, a) ==
    \E x, y \in alive :
        /\ x # y /\ Parts(alive, a) = {x, y}
        /\ Extent(x).lo = Extent(a).lo /\ Extent(y).lo = Extent(x).lo + NodeSize(x)
        /\ NodeSize(a) = NodeSize(x) + NodeSize(y)
        /\ count[a] = Busy(free, x) + Busy(free, y) /\ count[a] >= 1

\* The trees of all blocks, by their leaves, some of which are free: the parts of
\* a block are apart unless one is a part of the other.
Leaves(leaves) == \A a, b \in leaves : Under(a, b) => a = b
Apart(alive) == \A a, b \in alive : a.block = b.block => Under(a, b) \/ Under(b, a) \/ Disjoint(a, b)
Counted(alive, leaves, free, count) ==
    /\ \A a \in alive \ leaves : a \in DOMAIN count /\ Halved(alive, free, count, a)
    /\ \A n \in leaves : n \in DOMAIN count => count[n] = 0
    /\ \A a \in DOMAIN count : count[a] \in Nat
Based(alive, sizes) ==
    \A a \in alive : a.block \in DOMAIN sizes /\ a.path[1] = [lo |-> 0, size |-> sizes[a.block]]
Bounded(alive) == \E d \in Nat : \A a \in alive : Depth(a) <= d

Tree(leaves, free, count, sizes) ==
    /\ leaves \subseteq NodeSet /\ free \subseteq leaves
    /\ Leaves(leaves) /\ Apart(Ancestry(leaves)) /\ Bounded(Ancestry(leaves))
    /\ Counted(Ancestry(leaves), leaves, free, count) /\ Based(Ancestry(leaves), sizes)

-----------------------------------------------------------------------------
(* Nodes.                                                                   *)

\* The fields of a node.
LEMMA NodeFields ==
  ASSUME NEW n \in NodeSet
  PROVE  /\ Depth(n) \in Nat /\ Depth(n) >= 1 /\ n.path \in Seq(ExtentSet)
         /\ \A i \in 1..Depth(n) : n.path[i] \in ExtentSet
         /\ n.block \in 1..MaxBlocks
         /\ Extent(n) = n.path[Depth(n)] /\ Extent(n) \in ExtentSet
         /\ NodeSize(n) = Extent(n).size /\ NodeSize(n) \in Nat /\ Extent(n).lo \in Nat
         /\ (IsRoot(n) <=> Depth(n) = 1)
<1>1. n.path \in Seq(ExtentSet) /\ n.path # <<>> /\ n.block \in 1..MaxBlocks
  BY DEF NodeSet
<1>2. Len(n.path) \in Nat /\ Len(n.path) >= 1 /\ \A i \in 1..Len(n.path) : n.path[i] \in ExtentSet
  BY <1>1
<1>3. Extent(n) = n.path[Len(n.path)] /\ Extent(n) \in ExtentSet
  BY <1>2 DEF Extent, Last
<1>4. Extent(n).lo \in Nat /\ Extent(n).size \in Nat
  BY <1>3 DEF ExtentSet
<1> QED BY <1>1, <1>2, <1>3, <1>4 DEF Depth, NodeSize, IsRoot

\* Two nodes of the same extents.
LEMMA SameNode ==
  ASSUME NEW a \in NodeSet, NEW b \in NodeSet, Under(a, b), Depth(a) = Depth(b)
  PROVE  a = b
<1>1. a.path \in Seq(ExtentSet) /\ b.path \in Seq(ExtentSet) /\ Len(a.path) = Len(b.path)
  BY NodeFields DEF Depth
<1>2. \A i \in 1..Len(a.path) : a.path[i] = b.path[i]
  BY DEF Under, Depth
<1>3. a.path = b.path
  BY <1>1, <1>2, SeqEqual
<1> QED BY <1>3 DEF NodeSet, Under

\* Being a part is a partial order, in which the nodes that one is a part of are
\* ordered.
LEMMA UnderItself == ASSUME NEW a \in NodeSet PROVE Under(a, a)
  BY NodeFields DEF Under

LEMMA UnderTrans ==
  ASSUME NEW a \in NodeSet, NEW b \in NodeSet, NEW c \in NodeSet, Under(a, b), Under(b, c)
  PROVE  Under(a, c)
<1>1. Depth(a) \in Nat /\ Depth(b) \in Nat /\ Depth(c) \in Nat
  BY NodeFields
<1> QED BY <1>1 DEF Under

LEMMA UnderOnce ==
  ASSUME NEW a \in NodeSet, NEW b \in NodeSet, Under(a, b), Under(b, a)
  PROVE  a = b
<1>1. Depth(a) \in Nat /\ Depth(b) \in Nat
  BY NodeFields
<1>2. Depth(a) = Depth(b)
  BY <1>1 DEF Under
<1> QED BY <1>2, SameNode

LEMMA UnderLinear ==
  ASSUME NEW a \in NodeSet, NEW b \in NodeSet, NEW n \in NodeSet, Under(a, n), Under(b, n)
  PROVE  IF Depth(a) <= Depth(b) THEN Under(a, b) ELSE Under(b, a)
<1>1. Depth(a) \in Nat /\ Depth(b) \in Nat
  BY NodeFields
<1> QED BY <1>1 DEF Under

\* What is part of something deeper has a smaller depth.
LEMMA UnderDepth ==
  ASSUME NEW a \in NodeSet, NEW n \in NodeSet, Under(a, n)
  PROVE  Depth(a) <= Depth(n) /\ a.block = n.block /\ (a # n => Depth(a) < Depth(n))
<1>1. Depth(a) \in Nat /\ Depth(n) \in Nat
  BY NodeFields
<1> QED BY <1>1, SameNode DEF Under

\* The lineage of a node: what it is a part of.
LEMMA LineageIs ==
  ASSUME NEW n \in NodeSet
  PROVE  \A a : a \in Lineage(n) <=> a \in NodeSet /\ Under(a, n)
<1>0. Len(n.path) \in Nat /\ Len(n.path) >= 1 /\ n.path \in Seq(ExtentSet)
  BY NodeFields DEF Depth
<1>1. ASSUME NEW k \in 1..Len(n.path)
      PROVE  LET a == [n EXCEPT !.path = SubSeq(@, 1, k)] IN a \in NodeSet /\ Under(a, n) /\ Depth(a) = k
  <2> DEFINE s == SubSeq(n.path, 1, k)
             a == [n EXCEPT !.path = s]
  <2>1. s \in Seq(ExtentSet) /\ Len(s) = k /\ \A i \in 1..k : s[i] = n.path[i]
    BY <1>0, SubSeqProperties
  <2> HIDE DEF s
  <2>2. a = [block |-> n.block, path |-> s]
    BY DEF NodeSet
  <2>3. s # <<>>
    BY <2>1
  <2>4. a \in NodeSet
    BY <2>1, <2>2, <2>3 DEF NodeSet
  <2>5. Under(a, n) /\ Depth(a) = k
    BY <2>1, <2>2, <1>0 DEF Under, Depth
  <2> QED BY <2>4, <2>5 DEF s
<1>2. ASSUME NEW a \in NodeSet, Under(a, n) PROVE a \in Lineage(n)
  <2> DEFINE k == Depth(a)
             b == [n EXCEPT !.path = SubSeq(@, 1, k)]
  <2>1. k \in 1..Len(n.path)
    BY <1>0, <1>2, NodeFields DEF Under, Depth
  <2>2. b \in NodeSet /\ Under(b, n) /\ Depth(b) = k
    BY <1>1, <2>1
  <2>3. b \in Lineage(n)
    BY <2>1 DEF Lineage
  <2>4. Under(a, b)
    <3> HIDE DEF b
    <3> QED BY <1>2, <2>2, UnderLinear, NodeFields
  <2>5. a = b
    <3> HIDE DEF b
    <3> QED BY <2>2, <2>4, SameNode
  <2> QED BY <2>3, <2>5
<1> QED BY <1>1, <1>2 DEF Lineage

\* All nodes above some leaves.
LEMMA AncestryIs ==
  ASSUME NEW leaves \in SUBSET NodeSet
  PROVE  \A a : a \in Ancestry(leaves) <=> a \in NodeSet /\ \E n \in leaves : Under(a, n)
  BY LineageIs DEF Ancestry

\* What a lineage without the node itself is.
LEMMA AboveIs ==
  ASSUME NEW n \in NodeSet
  PROVE  \A a : a \in Lineage(n) \ {n} <=> a \in NodeSet /\ Under(a, n) /\ a # n
  BY LineageIs

\* A part of a node.
IsPart(c, n, lo, size) ==
    /\ c \in NodeSet /\ Depth(c) = Depth(n) + 1 /\ c.block = n.block /\ c.path[1] = n.path[1]
    /\ Extent(c).lo = lo /\ NodeSize(c) = size /\ Pointer(c) = <<n.block, lo>>
    /\ ~IsRoot(c) /\ Parent(c) = n /\ Under(n, c) /\ c # n
    /\ \A a \in NodeSet : Under(a, c) <=> a = c \/ Under(a, n)

LEMMA ChildIs ==
  ASSUME NEW n \in NodeSet, NEW lo \in Nat, NEW size \in Nat
  PROVE  IsPart(Child(n, lo, size), n, lo, size)
<1> DEFINE e == [lo |-> lo, size |-> size]
           s == Append(n.path, e)
           c == Child(n, lo, size)
<1>1. n.path \in Seq(ExtentSet) /\ Len(n.path) \in Nat /\ Len(n.path) >= 1 /\ e \in ExtentSet
  BY NodeFields DEF Depth, ExtentSet
<1>2. /\ s \in Seq(ExtentSet) /\ Len(s) = Len(n.path) + 1 /\ s[Len(n.path) + 1] = e
      /\ \A i \in 1..Len(n.path) : s[i] = n.path[i]
  BY <1>1, AppendProperties
<1>0. c = [n EXCEPT !.path = s]
  BY DEF Child
<1> HIDE DEF s
<1>3. c = [block |-> n.block, path |-> s]
  BY <1>0 DEF NodeSet
<1>4. s # <<>>
  BY <1>2
<1>5. c \in NodeSet /\ Depth(c) = Depth(n) + 1 /\ c.block = n.block /\ c.path = s
  BY <1>2, <1>3, <1>4 DEF NodeSet, Depth
<1> HIDE DEF c
<1>6. Extent(c).lo = lo /\ NodeSize(c) = size /\ Pointer(c) = <<n.block, lo>> /\ ~IsRoot(c)
  <2>1. Extent(c) = e
    BY <1>1, <1>2, <1>5 DEF Extent, Last
  <2> QED BY <1>1, <1>2, <1>5, <2>1 DEF NodeSize, Pointer, IsRoot
<1>7. Under(n, c) /\ c # n /\ c.path[1] = n.path[1]
  BY <1>1, <1>2, <1>5 DEF Under, Depth
<1>8. Parent(c) = n
  <2> DEFINE r == SubSeq(s, 1, Len(s) - 1)
  <2>1. r \in Seq(ExtentSet) /\ Len(r) = Len(n.path) /\ \A i \in 1..Len(n.path) : r[i] = n.path[i]
    <3>1. Len(s) - 1 <= Len(s) /\ 1 <= Len(s) - 1
      BY <1>1, <1>2
    <3> QED BY <1>1, <1>2, <3>1, SubSeqProperties
  <2>2. r = n.path
    BY <1>1, <2>1, SeqEqual
  <2>3. Parent(c) = [block |-> n.block, path |-> r]
    BY <1>3 DEF Parent, Front
  <2> QED BY <2>2, <2>3 DEF NodeSet
<1>9. ASSUME NEW a \in NodeSet PROVE Under(a, c) <=> a = c \/ Under(a, n)
  <2>1. Depth(a) \in Nat /\ Depth(n) \in Nat /\ Depth(n) >= 1
    BY NodeFields
  <2>2. ASSUME Under(a, c), a # c PROVE Under(a, n)
    <3>1. Depth(a) < Depth(c)
      BY <1>5, <2>2, UnderDepth
    <3> QED BY <1>5, <1>7, <2>1, <2>2, <3>1, UnderLinear
  <2>3. Under(a, n) => Under(a, c)
    BY <1>5, <1>7, UnderTrans
  <2> QED BY <1>5, <2>2, <2>3, UnderItself
<1> QED BY <1>5, <1>6, <1>7, <1>8, <1>9 DEF c, IsPart

\* What a node is a part of: itself, and what its parent is a part of.
LEMMA ParentIs ==
  ASSUME NEW n \in NodeSet, ~IsRoot(n)
  PROVE  /\ Parent(n) \in NodeSet /\ Depth(Parent(n)) = Depth(n) - 1 /\ Parent(n).block = n.block
         /\ Under(Parent(n), n) /\ Parent(n) # n /\ Parent(n).path[1] = n.path[1]
         /\ \A a \in NodeSet : Under(a, n) <=> a = n \/ Under(a, Parent(n))
<1> DEFINE s == SubSeq(n.path, 1, Len(n.path) - 1)
           a == Parent(n)
<1>1. /\ n.path \in Seq(ExtentSet) /\ Len(n.path) \in Nat /\ Len(n.path) >= 2
  <2>1. Depth(n) >= 2
    BY NodeFields
  <2> QED BY <2>1, NodeFields DEF Depth
<1>2. s \in Seq(ExtentSet) /\ Len(s) = Len(n.path) - 1 /\ \A i \in 1..Len(n.path) - 1 : s[i] = n.path[i]
  BY <1>1, SubSeqProperties
<1> HIDE DEF s
<1>3. a = [block |-> n.block, path |-> s]
  BY DEF Parent, Front, NodeSet, s
<1>4. s # <<>>
  BY <1>1, <1>2
<1>5. a \in NodeSet /\ Depth(a) = Depth(n) - 1 /\ a.block = n.block /\ a.path = s
  BY <1>2, <1>3, <1>4 DEF NodeSet, Depth
<1> HIDE DEF a
<1>6. Under(a, n) /\ a # n /\ a.path[1] = n.path[1]
  BY <1>1, <1>2, <1>5 DEF Under, Depth
<1>7. ASSUME NEW x \in NodeSet PROVE Under(x, n) <=> x = n \/ Under(x, a)
  <2>1. Depth(x) \in Nat /\ Depth(n) \in Nat
    BY NodeFields
  <2>2. ASSUME Under(x, n), x # n PROVE Under(x, a)
    <3>1. Depth(x) < Depth(n)
      BY <2>2, UnderDepth
    <3>2. Depth(x) <= Depth(a)
      BY <1>5, <2>1, <3>1
    <3> QED BY <1>5, <1>6, <2>2, <3>2, UnderLinear
  <2>3. Under(x, a) => Under(x, n)
    BY <1>5, <1>6, UnderTrans
  <2> QED BY <2>2, <2>3, UnderItself
<1> QED BY <1>5, <1>6, <1>7 DEF a

\* A root is a part of itself only.
LEMMA RootOnly ==
  ASSUME NEW n \in NodeSet, IsRoot(n)
  PROVE  \A a \in NodeSet : Under(a, n) <=> a = n
<1>1. ASSUME NEW a \in NodeSet, Under(a, n) PROVE a = n
  <2>1. Depth(a) = Depth(n)
    BY <1>1, NodeFields DEF Under
  <2> QED BY <1>1, <2>1, SameNode
<1> QED BY <1>1, UnderItself

\* The root of a block.
LEMMA RootIs ==
  ASSUME NEW b \in 1..MaxBlocks, NEW size \in Nat
  PROVE  LET r == Root(b, size) IN
         /\ r \in NodeSet /\ IsRoot(r) /\ Depth(r) = 1 /\ r.block = b /\ r.path[1] = [lo |-> 0, size |-> size]
         /\ Extent(r) = [lo |-> 0, size |-> size] /\ NodeSize(r) = size /\ Pointer(r) = <<b, 0>>
<1> DEFINE e == [lo |-> 0, size |-> size]
           r == Root(b, size)
<1>1. e \in ExtentSet
  BY DEF ExtentSet
<1>2. <<e>> \in Seq(ExtentSet) /\ Len(<<e>>) = 1 /\ <<e>>[1] = e /\ <<e>> # <<>>
  BY <1>1
<1>3. r \in NodeSet
  BY <1>2 DEF Root, NodeSet
<1> QED BY <1>2, <1>3 DEF Root, Depth, IsRoot, Extent, Last, NodeSize, Pointer

\* A root is the one that its block and size say.
LEMMA RootOf ==
  ASSUME NEW n \in NodeSet, IsRoot(n), NEW size \in Nat, n.path[1] = [lo |-> 0, size |-> size]
  PROVE  n = Root(n.block, size)
<1>1. Root(n.block, size) \in NodeSet /\ Depth(Root(n.block, size)) = 1
  BY RootIs, NodeFields
<1>2. Under(n, Root(n.block, size))
  BY RootIs, NodeFields DEF Under
<1> QED BY <1>1, <1>2, NodeFields, SameNode

\* Every node is a part of a root.
LEMMA HasRoot ==
  ASSUME NEW n \in NodeSet
  PROVE  \E r \in NodeSet : IsRoot(r) /\ Under(r, n) /\ r.path[1] = n.path[1]
<1> DEFINE r == [n EXCEPT !.path = SubSeq(@, 1, 1)]
<1>1. Len(n.path) \in Nat /\ Len(n.path) >= 1 /\ n.path \in Seq(ExtentSet)
  BY NodeFields DEF Depth
<1>2. r \in Lineage(n)
  <2>1. 1 \in 1..Len(n.path)
    BY <1>1
  <2> QED BY <2>1, Zenon DEF Lineage
<1>3. SubSeq(n.path, 1, 1) \in Seq(ExtentSet) /\ Len(SubSeq(n.path, 1, 1)) = 1
  BY <1>1, SubSeqProperties
<1>4. r.path = SubSeq(n.path, 1, 1)
  BY DEF NodeSet
<1> HIDE DEF r
<1>5. r \in NodeSet /\ Under(r, n) /\ IsRoot(r)
  BY <1>2, <1>3, <1>4, LineageIs DEF IsRoot
<1> QED BY <1>5, NodeFields DEF Under, IsRoot, Depth

-----------------------------------------------------------------------------
(* Trees.                                                                   *)

\* The nodes of a tree are closed upwards, and a parent is no leaf.
LEMMA Family ==
  ASSUME NEW leaves \in SUBSET NodeSet, Leaves(leaves), NEW alive, alive = Ancestry(leaves)
  PROVE  /\ alive \subseteq NodeSet /\ leaves \subseteq alive
         /\ \A a \in alive : \A x \in NodeSet : Under(x, a) => x \in alive
         /\ \A n \in leaves : \A a \in alive : Under(n, a) => a = n
         /\ \A a \in alive : ~IsRoot(a) => Parent(a) \in alive /\ Parent(a) \notin leaves
<1>1. \A a : a \in alive <=> a \in NodeSet /\ \E n \in leaves : Under(a, n)
  BY AncestryIs
<1>2. alive \subseteq NodeSet /\ leaves \subseteq alive
  BY <1>1, UnderItself
<1>3. ASSUME NEW a \in alive, NEW x \in NodeSet, Under(x, a) PROVE x \in alive
  BY <1>1, <1>3, UnderTrans
<1>4. ASSUME NEW n \in leaves, NEW a \in alive, Under(n, a) PROVE a = n
  <2>1. PICK l \in leaves : a \in NodeSet /\ Under(a, l)
    BY <1>1
  <2>2. Under(n, l)
    BY <1>4, <2>1, UnderTrans
  <2>3. n = l
    BY <2>2 DEF Leaves
  <2> QED BY <1>4, <2>1, <2>3, UnderOnce
<1>5. ASSUME NEW a \in alive, ~IsRoot(a) PROVE Parent(a) \in alive /\ Parent(a) \notin leaves
  <2>1. Parent(a) \in NodeSet /\ Under(Parent(a), a) /\ Parent(a) # a
    BY <1>2, <1>5, ParentIs
  <2> QED BY <1>3, <1>4, <2>1
<1> QED BY <1>2, <1>3, <1>4, <1>5

\* The parts of a node stay, one of them may become busy or free.
LEMMA HalvedStays ==
  ASSUME NEW alive, NEW free, NEW count, NEW a, Halved(alive, free, count, a),
         NEW alive2, NEW free2, NEW count2, NEW n,
         Parts(alive2, a) = Parts(alive, a), Parts(alive, a) \subseteq alive2,
         \A z \in Parts(alive, a) : z # n => (z \in free2 <=> z \in free),
         count[a] \in Nat,
         count2[a] = count[a] + IF n \in Parts(alive, a) THEN Busy(free2, n) - Busy(free, n) ELSE 0,
         count2[a] >= 1
  PROVE  Halved(alive2, free2, count2, a)
<1>1. PICK x \in alive, y \in alive :
        /\ x # y /\ Parts(alive, a) = {x, y}
        /\ Extent(x).lo = Extent(a).lo /\ Extent(y).lo = Extent(x).lo + NodeSize(x)
        /\ NodeSize(a) = NodeSize(x) + NodeSize(y)
        /\ count[a] = Busy(free, x) + Busy(free, y)
  BY DEF Halved
<1>2. \A z, f : Busy(f, z) \in {0, 1}
  BY DEF Busy
<1>3. \A z \in {x, y} : z # n => Busy(free2, z) = Busy(free, z)
  BY <1>1 DEF Busy
<1>4. count2[a] = Busy(free2, x) + Busy(free2, y)
  <2>1. CASE n = x
    BY <1>1, <1>2, <1>3, <2>1
  <2>2. CASE n = y
    BY <1>1, <1>2, <1>3, <2>2
  <2>3. CASE n # x /\ n # y
    BY <1>1, <1>2, <1>3, <2>3
  <2> QED BY <2>1, <2>2, <2>3
<1>5. x \in alive2 /\ y \in alive2 /\ Parts(alive2, a) = {x, y}
  BY <1>1
<1> QED BY <1>1, <1>4, <1>5 DEF Halved

\* A free node is split: its first part is used, the second one free.
LEMMA TreeSplit ==
  ASSUME NEW leaves, NEW free, NEW count, NEW sizes, Tree(leaves, free, count, sizes),
         DOMAIN count = Ancestry(leaves),
         NEW n \in free, NEW m \in Nat, m > 0, m <= NodeSize(n),
         NEW x, x = Child(n, Extent(n).lo, m),
         NEW y, y = Child(n, Extent(n).lo + m, NodeSize(n) - m),
         NEW count2, DOMAIN count2 = DOMAIN count,
         \A a \in DOMAIN count : count2[a] = count[a] + IF a = n \/ (~IsRoot(n) /\ a = Parent(n)) THEN 1 ELSE 0
  PROVE  /\ x # y /\ x \notin Ancestry(leaves) /\ y \notin Ancestry(leaves)
         /\ Tree((leaves \ {n}) \cup {x, y}, (free \ {n}) \cup {y}, count2, sizes)
<1> DEFINE A == Ancestry(leaves)
           L == (leaves \ {n}) \cup {x, y}
           F == (free \ {n}) \cup {y}
           B == Ancestry(L)
<1>1. /\ leaves \subseteq NodeSet /\ free \subseteq leaves /\ Leaves(leaves) /\ Apart(A)
      /\ Bounded(A) /\ Counted(A, leaves, free, count) /\ Based(A, sizes)
  BY DEF Tree
<1>2. n \in NodeSet /\ n \in leaves /\ n \in A
  BY <1>1, Family
<1> HIDE DEF A
<1>3. /\ A \subseteq NodeSet /\ leaves \subseteq A
      /\ \A a \in A : \A z \in NodeSet : Under(z, a) => z \in A
      /\ \A l \in leaves : \A a \in A : Under(l, a) => a = l
      /\ \A a \in A : ~IsRoot(a) => Parent(a) \in A /\ Parent(a) \notin leaves
  BY <1>1, Family DEF A
<1>4. /\ NodeSize(n) \in Nat /\ Extent(n).lo \in Nat /\ Depth(n) \in Nat
      /\ NodeSize(n) - m \in Nat /\ Extent(n).lo + m \in Nat
  BY <1>2, NodeFields
<1>5. /\ x \in NodeSet /\ Depth(x) = Depth(n) + 1 /\ x.block = n.block /\ x.path[1] = n.path[1]
      /\ Extent(x).lo = Extent(n).lo /\ NodeSize(x) = m
      /\ ~IsRoot(x) /\ Parent(x) = n /\ Under(n, x) /\ x # n
      /\ \A a \in NodeSet : Under(a, x) <=> a = x \/ Under(a, n)
  <2>1. IsPart(x, n, Extent(n).lo, m)
    BY <1>2, <1>4, ChildIs
  <2> QED BY <2>1 DEF IsPart
<1>6. /\ y \in NodeSet /\ Depth(y) = Depth(n) + 1 /\ y.block = n.block /\ y.path[1] = n.path[1]
      /\ Extent(y).lo = Extent(n).lo + m /\ NodeSize(y) = NodeSize(n) - m
      /\ ~IsRoot(y) /\ Parent(y) = n /\ Under(n, y) /\ y # n
      /\ \A a \in NodeSet : Under(a, y) <=> a = y \/ Under(a, n)
  <2>1. IsPart(y, n, Extent(n).lo + m, NodeSize(n) - m)
    BY <1>2, <1>4, ChildIs
  <2> QED BY <2>1 DEF IsPart
<1> HIDE DEF L, F
<1>7. x # y /\ x \notin A /\ y \notin A
  <2>1. x # y
    BY <1>4, <1>5, <1>6
  <2>2. x \notin A /\ y \notin A
    BY <1>2, <1>3, <1>5, <1>6
  <2> QED BY <2>1, <2>2
<1>8. L \subseteq NodeSet /\ F \subseteq L /\ L = (leaves \ {n}) \cup {x, y} /\ F = (free \ {n}) \cup {y}
  BY <1>1, <1>5, <1>6 DEF L, F
<1>9. ASSUME NEW a PROVE a \in B <=> a \in A \/ a = x \/ a = y
  <2>1. a \in B <=> a \in NodeSet /\ \E l \in L : Under(a, l)
    BY <1>8, AncestryIs
  <2>2. a \in A <=> a \in NodeSet /\ \E l \in leaves : Under(a, l)
    BY <1>1, AncestryIs DEF A
  <2> HIDE DEF B
  <2>3. ASSUME a \in A PROVE a \in B
    <3>1. PICK l \in leaves : a \in NodeSet /\ Under(a, l)
      BY <2>2, <2>3
    <3>2. CASE l = n
      BY <1>5, <1>8, <2>1, <3>1, <3>2
    <3>3. CASE l # n
      BY <1>8, <2>1, <3>1, <3>3
    <3> QED BY <3>2, <3>3
  <2>4. a = x \/ a = y => a \in B
    BY <1>5, <1>6, <1>8, <2>1, UnderItself
  <2>5. ASSUME a \in B PROVE a \in A \/ a = x \/ a = y
    <3>1. PICK l \in L : a \in NodeSet /\ Under(a, l)
      BY <2>1, <2>5
    <3>2. CASE l \in leaves
      BY <2>2, <3>1, <3>2
    <3>3. CASE l \notin leaves
      <4>1. a = x \/ a = y \/ Under(a, n)
        BY <1>5, <1>6, <1>8, <3>1, <3>3
      <4> QED BY <1>2, <2>2, <3>1, <4>1
    <3> QED BY <3>2, <3>3
  <2> QED BY <2>3, <2>4, <2>5
<1> HIDE DEF B
<1>10. Leaves(L)
  <2> SUFFICES ASSUME NEW a \in L, NEW b \in L, Under(a, b) PROVE a = b
    BY DEF Leaves
  <2>1. CASE b \in leaves
    <3>1. a \in leaves
      BY <1>2, <1>3, <1>5, <1>6, <1>7, <1>8, <2>1
    <3> QED BY <1>1, <2>1, <3>1 DEF Leaves
  <2>2. CASE b \notin leaves
    <3>1. a = b \/ Under(a, n)
      BY <1>5, <1>6, <1>8, <2>2
    <3>2. ASSUME Under(a, n) PROVE FALSE
      <4>1. a \in A
        BY <1>2, <1>3, <1>8, <3>2
      <4>2. a \in leaves /\ a # n
        BY <1>7, <1>8, <4>1
      <4> QED BY <1>1, <1>2, <3>2, <4>2 DEF Leaves
    <3> QED BY <3>1, <3>2
  <2> QED BY <2>1, <2>2
<1>11. Apart(B)
  <2>1. ASSUME NEW a \in A, NEW z \in {x, y}, a.block = z.block
        PROVE  Under(a, z) \/ (Disjoint(a, z) /\ Disjoint(z, a))
    <3>1. a.block = n.block /\ a \in NodeSet
      BY <1>3, <1>5, <1>6, <2>1
    <3>2. Under(a, n) \/ Under(n, a) \/ Disjoint(a, n)
      BY <1>1, <1>2, <3>1 DEF Apart
    <3>3. Under(n, a) => Under(a, n)
      BY <1>2, <1>3
    <3>4. Under(a, n) => Under(a, z)
      BY <1>5, <1>6, <3>1
    <3>5. Extent(a).lo \in Nat /\ NodeSize(a) \in Nat
      BY <3>1, NodeFields
    <3>6. ASSUME Disjoint(a, n) PROVE Disjoint(a, z) /\ Disjoint(z, a)
      <4>1. /\ Extent(z).lo >= Extent(n).lo /\ Extent(z).lo + NodeSize(z) <= Extent(n).lo + NodeSize(n)
            /\ Extent(z).lo \in Nat /\ NodeSize(z) \in Nat
        BY <1>4, <1>5, <1>6
      <4> QED BY <1>4, <3>5, <3>6, <4>1 DEF Disjoint
    <3> QED BY <3>2, <3>3, <3>4, <3>6
  <2>2. Disjoint(x, y) /\ Disjoint(y, x)
    BY <1>4, <1>5, <1>6 DEF Disjoint
  <2> SUFFICES ASSUME NEW a \in B, NEW b \in B, a.block = b.block
               PROVE  Under(a, b) \/ Under(b, a) \/ Disjoint(a, b)
    BY DEF Apart
  <2>3. CASE a \in A /\ b \in A
    BY <1>1, <2>3 DEF Apart
  <2>4. CASE a \in A /\ b \notin A
    BY <1>9, <2>1, <2>4
  <2>5. CASE a \notin A /\ b \in A
    BY <1>9, <2>1, <2>5
  <2>6. CASE a \notin A /\ b \notin A
    BY <1>5, <1>6, <1>9, <2>2, <2>6, UnderItself
  <2> QED BY <2>3, <2>4, <2>5, <2>6
<1>12. Bounded(B)
  <2>1. PICK d \in Nat : \A a \in A : Depth(a) <= d
    BY <1>1 DEF Bounded
  <2>2. \A a \in B : Depth(a) <= d + 1
    <3> SUFFICES ASSUME NEW a \in B PROVE Depth(a) <= d + 1
      OBVIOUS
    <3>1. CASE a \in A
      <4>1. Depth(a) \in Nat
        BY <1>3, <3>1, NodeFields
      <4> QED BY <2>1, <3>1, <4>1
    <3>2. CASE a \notin A
      BY <1>2, <1>4, <1>5, <1>6, <1>9, <2>1, <3>2
    <3> QED BY <3>1, <3>2
  <2> QED BY <2>2 DEF Bounded
<1>13. Based(B, sizes)
  BY <1>1, <1>2, <1>5, <1>6, <1>9 DEF Based
<1>14. Counted(B, L, F, count2)
  <2>0. /\ \A a \in A \ leaves : a \in DOMAIN count /\ Halved(A, free, count, a)
        /\ \A l \in leaves : l \in DOMAIN count => count[l] = 0
        /\ \A a \in DOMAIN count : count[a] \in Nat
    BY <1>1 DEF Counted
  <2>1. DOMAIN count = A
    BY DEF A
  <2>2. ASSUME NEW a \in A \ leaves PROVE Halved(B, F, count2, a)
    <3>1. Halved(A, free, count, a) /\ count[a] \in Nat
      BY <2>0, <2>1
    <3>2. a # n
      BY <1>2
    <3>3. Parts(B, a) = Parts(A, a)
      BY <1>5, <1>6, <1>9, <3>2 DEF Parts
    <3>4. Parts(A, a) \subseteq B
      BY <1>9 DEF Parts
    <3>5. \A z \in Parts(A, a) : z # n => (z \in F <=> z \in free)
      BY <1>7, <1>8 DEF Parts
    <3>6. n \in Parts(A, a) <=> ~IsRoot(n) /\ a = Parent(n)
      BY <1>2 DEF Parts
    <3>7. Busy(F, n) = 1 /\ Busy(free, n) = 0
      BY <1>5, <1>6, <1>8 DEF Busy
    <3>8. count2[a] = count[a] + IF n \in Parts(A, a) THEN Busy(F, n) - Busy(free, n) ELSE 0
      BY <2>1, <3>2, <3>6, <3>7
    <3>9. count2[a] >= 1
      <4>1. count[a] >= 1
        BY <3>1 DEF Halved
      <4> QED BY <3>1, <3>7, <3>8, <4>1
    <3> QED BY <3>1, <3>3, <3>4, <3>5, <3>8, <3>9, HalvedStays
  <2>3. Halved(B, F, count2, n)
    <3>1. Parts(B, n) = {x, y}
      <4>1. ASSUME NEW z \in A, ~IsRoot(z) PROVE Parent(z) # n
        BY <1>2, <1>3, <4>1
      <4>2. x \in Parts(B, n) /\ y \in Parts(B, n)
        BY <1>5, <1>6, <1>9 DEF Parts
      <4>3. ASSUME NEW z \in Parts(B, n) PROVE z \in {x, y}
        BY <1>9, <4>1 DEF Parts
      <4> QED BY <4>2, <4>3
    <3>2. count2[n] = 1
      BY <1>2, <2>0, <2>1
    <3>3. Busy(F, x) = 1 /\ Busy(F, y) = 0
      <4>1. x \notin F /\ y \in F
        BY <1>1, <1>3, <1>7, <1>8
      <4> QED BY <4>1 DEF Busy
    <3>4. x \in B /\ y \in B
      BY <1>9
    <3>5. /\ Extent(x).lo = Extent(n).lo /\ Extent(y).lo = Extent(x).lo + NodeSize(x)
          /\ NodeSize(n) = NodeSize(x) + NodeSize(y)
      BY <1>4, <1>5, <1>6
    <3>6. count2[n] = Busy(F, x) + Busy(F, y) /\ count2[n] >= 1
      BY <3>2, <3>3
    <3> QED BY <1>7, <3>1, <3>4, <3>5, <3>6 DEF Halved
  <2>4. \A a \in B \ L : a \in DOMAIN count2 /\ Halved(B, F, count2, a)
    <3> SUFFICES ASSUME NEW a \in B \ L PROVE a \in DOMAIN count2 /\ Halved(B, F, count2, a)
      OBVIOUS
    <3>1. a \in A /\ (a = n \/ a \notin leaves)
      BY <1>8, <1>9
    <3> QED BY <2>1, <2>2, <2>3, <3>1
  <2>5. \A l \in L : l \in DOMAIN count2 => count2[l] = 0
    <3> SUFFICES ASSUME NEW l \in L, l \in DOMAIN count2 PROVE count2[l] = 0
      OBVIOUS
    <3>1. l \in leaves /\ l # n
      BY <1>7, <1>8, <2>1
    <3>2. ~IsRoot(n) => l # Parent(n)
      BY <1>2, <1>3, <3>1
    <3> QED BY <2>0, <3>1, <3>2
  <2>6. \A a \in DOMAIN count2 : count2[a] \in Nat
    BY <2>0
  <2> QED BY <2>4, <2>5, <2>6 DEF Counted
<1> QED BY <1>7, <1>8, <1>10, <1>11, <1>12, <1>13, <1>14 DEF Tree, A, B, L, F

\* A free node is used as it is.
LEMMA TreeTake ==
  ASSUME NEW leaves, NEW free, NEW count, NEW sizes, Tree(leaves, free, count, sizes),
         NEW n \in free, NEW count2, DOMAIN count2 = DOMAIN count,
         \A a \in DOMAIN count : count2[a] = count[a] + IF ~IsRoot(n) /\ a = Parent(n) THEN 1 ELSE 0
  PROVE  Tree(leaves, free \ {n}, count2, sizes)
<1> DEFINE A == Ancestry(leaves)
<1>1. /\ leaves \subseteq NodeSet /\ free \subseteq leaves /\ Leaves(leaves) /\ Apart(A)
      /\ Bounded(A) /\ Counted(A, leaves, free, count) /\ Based(A, sizes)
  BY DEF Tree
<1> HIDE DEF A
<1>2. /\ n \in leaves /\ n \in A
      /\ \A a \in A : ~IsRoot(a) => Parent(a) \in A /\ Parent(a) \notin leaves
  BY <1>1, Family DEF A
<1>3. /\ \A a \in A \ leaves : a \in DOMAIN count /\ Halved(A, free, count, a)
      /\ \A l \in leaves : l \in DOMAIN count => count[l] = 0
      /\ \A a \in DOMAIN count : count[a] \in Nat
  BY <1>1 DEF Counted
<1>4. ASSUME NEW a \in A \ leaves PROVE Halved(A, free \ {n}, count2, a)
  <2>1. Halved(A, free, count, a) /\ count[a] \in Nat /\ a \in DOMAIN count
    BY <1>3
  <2>2. n \in Parts(A, a) <=> ~IsRoot(n) /\ a = Parent(n)
    BY <1>2 DEF Parts
  <2>3. Busy(free \ {n}, n) = 1 /\ Busy(free, n) = 0
    BY DEF Busy
  <2>4. count2[a] = count[a] + IF n \in Parts(A, a) THEN Busy(free \ {n}, n) - Busy(free, n) ELSE 0
    BY <2>1, <2>2, <2>3
  <2>5. count2[a] >= 1
    <3>1. count[a] >= 1
      BY <2>1 DEF Halved
    <3> QED BY <2>1, <2>3, <2>4, <3>1
  <2>6. Parts(A, a) \subseteq A
    BY DEF Parts
  <2> QED BY <2>1, <2>4, <2>5, <2>6, HalvedStays
<1>5. \A l \in leaves : l \in DOMAIN count2 => count2[l] = 0
  BY <1>2, <1>3
<1>6. \A a \in DOMAIN count2 : count2[a] \in Nat
  BY <1>3
<1>7. Counted(A, leaves, free \ {n}, count2)
  BY <1>3, <1>4, <1>5, <1>6 DEF Counted
<1> QED BY <1>1, <1>7 DEF Tree, A

\* A new block is a leaf.
LEMMA TreeNew ==
  ASSUME NEW leaves, NEW free, NEW count, NEW sizes, Tree(leaves, free, count, sizes),
         DOMAIN count = Ancestry(leaves),
         NEW b \in 1..MaxBlocks, b \notin DOMAIN sizes, NEW size \in Nat,
         NEW r, r = Root(b, size), NEW free2, free2 = free \/ free2 = free \cup {r}
  PROVE  /\ r \notin Ancestry(leaves) /\ Ancestry(leaves \cup {r}) = Ancestry(leaves) \cup {r}
         /\ Tree(leaves \cup {r}, free2, Put(count, r, 0), Put(sizes, b, size))
<1> DEFINE A == Ancestry(leaves)
           L == leaves \cup {r}
           B == Ancestry(L)
           c == Put(count, r, 0)
<1>1. /\ leaves \subseteq NodeSet /\ free \subseteq leaves /\ Leaves(leaves) /\ Apart(A)
      /\ Bounded(A) /\ Counted(A, leaves, free, count) /\ Based(A, sizes)
  BY DEF Tree
<1>2. /\ r \in NodeSet /\ IsRoot(r) /\ Depth(r) = 1 /\ r.block = b
      /\ r.path[1] = [lo |-> 0, size |-> size]
  BY RootIs
<1> HIDE DEF A
<1>3. /\ A \subseteq NodeSet /\ leaves \subseteq A
      /\ \A a \in A : ~IsRoot(a) => Parent(a) \in A /\ Parent(a) \notin leaves
  BY <1>1, Family DEF A
<1>4. \A a \in A : a.block # b
  BY <1>1 DEF Based
<1>5. r \notin A
  BY <1>2, <1>4
<1>6. L \subseteq NodeSet
  BY <1>1, <1>2
<1> HIDE DEF L
<1>7. B = A \cup {r}
  <2>1. \A a : a \in B <=> a \in NodeSet /\ \E l \in L : Under(a, l)
    BY <1>6, AncestryIs
  <2>2. \A a : a \in A <=> a \in NodeSet /\ \E l \in leaves : Under(a, l)
    BY <1>1, AncestryIs DEF A
  <2>3. \A a \in NodeSet : Under(a, r) <=> a = r
    BY <1>2, RootOnly
  <2> HIDE DEF B
  <2>4. ASSUME NEW a PROVE a \in B <=> a \in A \/ a = r
    BY <1>2, <2>1, <2>2, <2>3 DEF L
  <2> QED BY <2>4
<1> HIDE DEF B
<1>8. Leaves(L)
  <2> SUFFICES ASSUME NEW x \in L, NEW y \in L, Under(x, y) PROVE x = y
    BY DEF Leaves
  <2>1. x.block = y.block
    BY DEF Under
  <2> QED BY <1>1, <1>2, <1>3, <1>4, <2>1 DEF Leaves, L
<1>9. Apart(B)
  BY <1>1, <1>2, <1>4, <1>7, UnderItself DEF Apart
<1>10. Bounded(B)
  <2>1. PICK d \in Nat : \A a \in A : Depth(a) <= d
    BY <1>1 DEF Bounded
  <2>2. \A a \in B : Depth(a) <= d + 1
    <3> SUFFICES ASSUME NEW a \in B PROVE Depth(a) <= d + 1
      OBVIOUS
    <3>1. Depth(a) \in Nat
      BY <1>2, <1>3, <1>7, NodeFields
    <3> QED BY <1>2, <1>7, <2>1, <3>1
  <2> QED BY <2>2 DEF Bounded
<1>11. Based(B, Put(sizes, b, size))
  <2>1. /\ \A a \in A : a.block \in DOMAIN sizes /\ a.path[1] = [lo |-> 0, size |-> sizes[a.block]]
    BY <1>1 DEF Based
  <2>2. /\ DOMAIN Put(sizes, b, size) = DOMAIN sizes \cup {b} /\ Put(sizes, b, size)[b] = size
        /\ \A x \in DOMAIN sizes : Put(sizes, b, size)[x] = sizes[x]
    BY DEF Put
  <2> HIDE DEF Put
  <2> QED BY <1>2, <1>7, <2>1, <2>2 DEF Based
<1>12. Counted(B, L, free2, c)
  <2>1. /\ \A a \in A \ leaves : a \in DOMAIN count /\ Halved(A, free, count, a)
        /\ \A l \in leaves : l \in DOMAIN count => count[l] = 0
        /\ \A a \in DOMAIN count : count[a] \in Nat
    BY <1>1 DEF Counted
  <2>2. DOMAIN c = A \cup {r} /\ c[r] = 0 /\ \A x \in A : c[x] = count[x]
    BY <1>5 DEF Put, A
  <2> HIDE DEF c
  <2>3. ASSUME NEW a \in A \ leaves PROVE Halved(B, free2, c, a)
    <3>1. Halved(A, free, count, a) /\ count[a] \in Nat /\ c[a] = count[a] /\ count[a] >= 1
      BY <2>1, <2>2 DEF Halved
    <3>2. Parts(B, a) = Parts(A, a) /\ r \notin Parts(A, a) /\ Parts(A, a) \subseteq B
      BY <1>2, <1>5, <1>7 DEF Parts
    <3>3. \A z \in Parts(A, a) : z # r => (z \in free2 <=> z \in free)
      OBVIOUS
    <3>4. c[a] = count[a] + IF r \in Parts(A, a) THEN Busy(free2, r) - Busy(free, r) ELSE 0
      BY <3>1, <3>2
    <3> QED BY <3>1, <3>2, <3>3, <3>4, HalvedStays
  <2>4. \A a \in B \ L : a \in DOMAIN c /\ Halved(B, free2, c, a)
    BY <1>7, <2>2, <2>3 DEF L
  <2>5. \A l \in L : l \in DOMAIN c => c[l] = 0
    BY <1>3, <2>1, <2>2 DEF L, A
  <2>6. \A a \in DOMAIN c : c[a] \in Nat
    BY <2>1, <2>2 DEF A
  <2> QED BY <2>4, <2>5, <2>6 DEF Counted
<1>13. free2 \subseteq L
  BY <1>1 DEF L
<1> QED BY <1>5, <1>6, <1>7, <1>8, <1>9, <1>10, <1>11, <1>12, <1>13 DEF Tree, A, B, L

\* Free roots are dropped.
LEMMA TreeDrop ==
  ASSUME NEW leaves, NEW free, NEW count, NEW sizes, Tree(leaves, free, count, sizes),
         NEW roots \in SUBSET free, \A r \in roots : IsRoot(r)
  PROVE  /\ Ancestry(leaves \ roots) = Ancestry(leaves) \ roots
         /\ Tree(leaves \ roots, free \ roots, count, sizes)
<1> DEFINE A == Ancestry(leaves)
           L == leaves \ roots
           B == Ancestry(L)
<1>1. /\ leaves \subseteq NodeSet /\ free \subseteq leaves /\ Leaves(leaves) /\ Apart(A)
      /\ Bounded(A) /\ Counted(A, leaves, free, count) /\ Based(A, sizes)
  BY DEF Tree
<1> HIDE DEF A
<1>2. /\ A \subseteq NodeSet /\ \A l \in leaves : \A a \in A : Under(l, a) => a = l
  BY <1>1, Family DEF A
<1>3. B = A \ roots
  <2>1. \A a : a \in B <=> a \in NodeSet /\ \E l \in L : Under(a, l)
    BY <1>1, AncestryIs
  <2>2. \A a : a \in A <=> a \in NodeSet /\ \E l \in leaves : Under(a, l)
    BY <1>1, AncestryIs DEF A
  <2>3. \A r \in roots : \A a \in NodeSet : Under(a, r) <=> a = r
    BY <1>1, RootOnly
  <2> HIDE DEF B
  <2>4. ASSUME NEW a \in B PROVE a \in A /\ a \notin roots
    <3>1. PICK l \in L : a \in NodeSet /\ Under(a, l)
      BY <2>1
    <3>2. a \in A
      BY <2>2, <3>1
    <3>3. l \in A /\ l \in leaves
      BY <1>1, <2>2, <3>1, UnderItself
    <3>4. a \in roots => l = a
      BY <1>1, <1>2, <3>1, <3>3
    <3> QED BY <3>1, <3>2, <3>4
  <2>5. ASSUME NEW a \in A, a \notin roots PROVE a \in B
    <3>1. PICK l \in leaves : a \in NodeSet /\ Under(a, l)
      BY <2>2
    <3>2. l \notin roots
      BY <2>3, <2>5, <3>1
    <3> QED BY <2>1, <3>1, <3>2
  <2> QED BY <2>4, <2>5
<1> HIDE DEF B
<1>4. Leaves(L) /\ Apart(B) /\ Bounded(B) /\ Based(B, sizes) /\ free \ roots \subseteq L
  BY <1>1, <1>3 DEF Leaves, Apart, Bounded, Based
<1>5. Counted(B, L, free \ roots, count)
  <2>1. /\ \A a \in A \ leaves : a \in DOMAIN count /\ Halved(A, free, count, a)
        /\ \A l \in leaves : l \in DOMAIN count => count[l] = 0
        /\ \A a \in DOMAIN count : count[a] \in Nat
    BY <1>1 DEF Counted
  <2>2. ASSUME NEW a \in A \ leaves PROVE Halved(B, free \ roots, count, a)
    <3>1. Parts(B, a) = Parts(A, a)
      BY <1>3 DEF Parts
    <3>2. PICK x \in A, y \in A :
        /\ x # y /\ Parts(A, a) = {x, y}
        /\ Extent(x).lo = Extent(a).lo /\ Extent(y).lo = Extent(x).lo + NodeSize(x)
        /\ NodeSize(a) = NodeSize(x) + NodeSize(y)
        /\ count[a] = Busy(free, x) + Busy(free, y) /\ count[a] >= 1
      BY <2>1 DEF Halved
    <3>3. x \in B /\ y \in B /\ ~IsRoot(x) /\ ~IsRoot(y)
      BY <3>1, <3>2 DEF Parts
    <3>4. Busy(free \ roots, x) = Busy(free, x) /\ Busy(free \ roots, y) = Busy(free, y)
      BY <3>3 DEF Busy
    <3> QED BY <3>1, <3>2, <3>3, <3>4 DEF Halved
  <2>3. \A a \in B \ L : a \in A \ leaves
    BY <1>3
  <2>4. \A a \in B \ L : a \in DOMAIN count /\ Halved(B, free \ roots, count, a)
    BY <2>1, <2>2, <2>3
  <2> QED BY <2>1, <2>4 DEF Counted
<1> QED BY <1>1, <1>3, <1>4, <1>5 DEF Tree, A, B, L

\* A set of natural numbers has a smallest one: what a recursive definition
\* computes is proved by excluding a smallest counterexample.
LEMMA LeastNat ==
  ASSUME NEW T \in SUBSET Nat, T # {}
  PROVE  \E x \in T : \A y \in T : x <= y
<1>1. PICK m \in T : TRUE
  OBVIOUS
<1> DEFINE B == {0..n : n \in {x \in T : x <= m}}
<1>2. B \subseteq FiniteSubsetsOf(Nat) /\ B # {}
  <2>1. \A n \in Nat : 0..n \in FiniteSubsetsOf(Nat)
    BY FS_Interval DEF FiniteSubsetsOf
  <2>2. 0..m \in B
    BY <1>1
  <2> QED BY <2>1, <2>2
<1>3. PICK b \in B : \A c \in B : ~(<<c, b>> \in StrictSubsetOrdering(Nat))
  <2> HIDE DEF B
  <2> QED BY <1>2, FS_StrictSubsetOrderingWellFounded, WFMin
<1>4. PICK x \in T : x <= m /\ b = 0..x
  BY <1>3
<1>5. ASSUME NEW y \in T, y < x PROVE FALSE
  <2>1. 0..y \in B
    BY <1>4, <1>5
  <2>2. <<0..y, b>> \in StrictSubsetOrdering(Nat)
    BY <1>4, <1>5 DEF StrictSubsetOrdering
  <2> QED BY <1>3, <2>1, <2>2
<1> QED BY <1>4, <1>5

\* The next node on the way down from a to n.
LEMMA NextDown ==
  ASSUME NEW n \in NodeSet, NEW a \in NodeSet, Under(a, n), a # n
  PROVE  \E w \in NodeSet : Under(w, n) /\ ~IsRoot(w) /\ Parent(w) = a
<1> DEFINE k == Depth(a) + 1
           w == [n EXCEPT !.path = SubSeq(@, 1, k)]
<1>1. Depth(a) < Depth(n) /\ Depth(a) \in Nat /\ Depth(a) >= 1 /\ Depth(n) \in Nat
  BY UnderDepth, NodeFields
<1>2. k \in 1..Len(n.path) /\ k >= 2
  BY <1>1 DEF Depth
<1>3. w \in Lineage(n)
  BY <1>2, Zenon DEF Lineage
<1>4. Depth(w) = k
  <2>1. n.path \in Seq(ExtentSet)
    BY NodeFields
  <2>2. Len(SubSeq(n.path, 1, k)) = k
    BY <1>2, <2>1, SubSeqProperties
  <2>3. w.path = SubSeq(n.path, 1, k)
    BY DEF NodeSet
  <2> QED BY <2>2, <2>3 DEF Depth
<1> HIDE DEF w
<1>5. w \in NodeSet /\ Under(w, n) /\ ~IsRoot(w)
  BY <1>2, <1>3, <1>4, LineageIs, NodeFields
<1>6. Parent(w) \in NodeSet /\ Under(Parent(w), w) /\ Depth(Parent(w)) = Depth(w) - 1
  BY <1>5, ParentIs
<1>7. Under(Parent(w), n)
  BY <1>5, <1>6, UnderTrans
<1>8. Depth(Parent(w)) = Depth(a)
  BY <1>1, <1>4, <1>6
<1>9. Under(a, Parent(w))
  BY <1>1, <1>6, <1>7, <1>8, UnderLinear
<1> QED BY <1>5, <1>6, <1>8, <1>9, SameNode

\* A node is returned: the ancestors of which it is the last busy part leave the
\* tree with all that is below them, and the highest one of them is a leaf.
Merging(n, count) ==
    {a \in Lineage(n) \ {n} : \A x \in Lineage(n) \ {n} : Depth(x) >= Depth(a) => count[x] = 1}
Topmost(top, merged, n) == top \in merged \cup {n} /\ \A x \in merged \cup {n} : Depth(top) <= Depth(x)
LessBusy(merged, top) == merged \cup IF IsRoot(top) THEN {} ELSE {Parent(top)}
PartsIn(free, merged) == {x \in free : ~IsRoot(x) /\ Parent(x) \in merged}
Fewer(count, fewer) == [a \in DOMAIN count |-> IF a \in fewer THEN count[a] - 1 ELSE count[a]]

LEMMA TreeReturn ==
  ASSUME NEW leaves, NEW free, NEW count, NEW sizes, Tree(leaves, free, count, sizes),
         NEW n \in leaves, n \notin free,
         NEW merged, merged = Merging(n, count), NEW top, Topmost(top, merged, n),
         NEW fewer, fewer = LessBusy(merged, top), NEW gone, gone = PartsIn(free, merged),
         NEW count2, count2 = Fewer(count, fewer)
  PROVE  /\ top \in NodeSet /\ top.block = n.block /\ top \notin free
         /\ top \notin leaves \ {n}
         /\ Tree(((leaves \ {n}) \ gone) \cup {top}, (free \ gone) \cup {top}, count2, sizes)
<1>0. /\ merged = {a \in Lineage(n) \ {n} :
                     \A x \in Lineage(n) \ {n} : Depth(x) >= Depth(a) => count[x] = 1}
      /\ top \in merged \cup {n} /\ \A x \in merged \cup {n} : Depth(top) <= Depth(x)
      /\ fewer = merged \cup IF IsRoot(top) THEN {} ELSE {Parent(top)}
      /\ gone = {x \in free : ~IsRoot(x) /\ Parent(x) \in merged}
      /\ DOMAIN count2 = DOMAIN count
      /\ \A a \in DOMAIN count : count2[a] = IF a \in fewer THEN count[a] - 1 ELSE count[a]
  BY DEF Merging, Topmost, LessBusy, PartsIn, Fewer
<1> USE <1>0
<1> DEFINE A == Ancestry(leaves)
           L == ((leaves \ {n}) \ gone) \cup {top}
           F == (free \ gone) \cup {top}
           B == Ancestry(L)
<1>1. /\ leaves \subseteq NodeSet /\ free \subseteq leaves /\ Leaves(leaves) /\ Apart(A)
      /\ Bounded(A) /\ Counted(A, leaves, free, count) /\ Based(A, sizes)
  BY DEF Tree
<1> HIDE DEF A
<1>2. /\ A \subseteq NodeSet /\ leaves \subseteq A
      /\ \A a \in A : \A z \in NodeSet : Under(z, a) => z \in A
      /\ \A l \in leaves : \A a \in A : Under(l, a) => a = l
      /\ \A a \in A : ~IsRoot(a) => Parent(a) \in A /\ Parent(a) \notin leaves
  BY <1>1, Family DEF A
<1>3. /\ \A a \in A \ leaves : a \in DOMAIN count /\ Halved(A, free, count, a)
      /\ \A l \in leaves : l \in DOMAIN count => count[l] = 0
      /\ \A a \in DOMAIN count : count[a] \in Nat
  BY <1>1 DEF Counted
<1>4. n \in NodeSet /\ n \in A
  BY <1>2
<1>5. ASSUME NEW a \in NodeSet, Under(a, n), a # n PROVE a \in A \ leaves
  BY <1>2, <1>4, <1>5
<1>6. \A a : a \in Lineage(n) \ {n} <=> a \in NodeSet /\ Under(a, n) /\ a # n
  BY <1>4, AboveIs
<1>7. \A a : a \in merged <=> /\ a \in NodeSet /\ Under(a, n) /\ a # n
                              /\ \A x \in NodeSet : Under(x, n) /\ x # n /\ Depth(x) >= Depth(a) => count[x] = 1
  BY <1>6
<1>8. /\ \A a \in merged : a \in NodeSet /\ Under(a, n) /\ a # n /\ a \in A /\ a \notin leaves /\ count[a] = 1
      /\ top \in NodeSet /\ top \in A /\ Under(top, n) /\ top.block = n.block
  <2>1. ASSUME NEW a \in merged
        PROVE  a \in NodeSet /\ Under(a, n) /\ a # n /\ a \in A /\ a \notin leaves /\ count[a] = 1
    <3>1. a \in NodeSet /\ Under(a, n) /\ a # n
      BY <1>7, <2>1
    <3>2. Depth(a) \in Nat
      BY <3>1, NodeFields
    <3> QED BY <1>5, <1>7, <2>1, <3>1, <3>2
  <2>2. top \in NodeSet /\ top \in A /\ Under(top, n)
    BY <1>4, <2>1, UnderItself
  <2> QED BY <2>1, <2>2 DEF Under
\* the way from top down to n
<1>9. ASSUME NEW a \in NodeSet, Under(a, n), a # n, Depth(top) <= Depth(a) PROVE a \in merged
  <2>1. Depth(a) \in Nat /\ Depth(top) \in Nat /\ Depth(a) < Depth(n)
    BY <1>4, <1>8, <1>9, NodeFields, UnderDepth
  <2>2. top # n /\ top \in merged
    BY <1>9, <2>1
  <2>3. \A x \in NodeSet : Depth(x) >= Depth(a) => Depth(x) >= Depth(top)
    <3> TAKE x \in NodeSet
    <3>1. Depth(x) \in Nat
      BY NodeFields
    <3> QED BY <1>9, <2>1, <3>1
  <2> QED BY <1>7, <1>9, <2>2, <2>3
<1>10. ASSUME NEW x \in merged \cup {n} PROVE Under(top, x)
  BY <1>4, <1>8, <1>10, UnderLinear, UnderItself
<1>11. top \notin free /\ (top = n \/ top \in A \ leaves)
  BY <1>1, <1>8
\* the parts of what is merged
<1>12. ASSUME NEW a \in merged, NEW z \in Parts(A, a) PROVE z \in merged \cup {n} \/ z \in gone
  <2>1. a \in NodeSet /\ Under(a, n) /\ a # n /\ a \in A \ leaves /\ count[a] = 1
    BY <1>8
  <2>2. PICK w \in NodeSet : Under(w, n) /\ ~IsRoot(w) /\ Parent(w) = a
    BY <1>4, <2>1, NextDown
  <2>3. w \in A /\ w \in Parts(A, a)
    BY <1>2, <1>4, <2>2 DEF Parts
  <2>4. w \in merged \cup {n}
    <3>1. Depth(w) \in Nat /\ Depth(a) = Depth(w) - 1 /\ Depth(top) <= Depth(a) /\ Depth(top) \in Nat
      BY <1>8, <2>1, <2>2, ParentIs, NodeFields
    <3> QED BY <1>9, <2>2, <3>1
  <2>5. w \notin free
    BY <1>1, <1>8, <2>4
  <2>6. PICK x \in A, y \in A : /\ x # y /\ Parts(A, a) = {x, y}
                                /\ count[a] = Busy(free, x) + Busy(free, y)
    BY <1>3, <2>1 DEF Halved
  <2>7. Busy(free, w) = 1 /\ Busy(free, x) \in {0, 1} /\ Busy(free, y) \in {0, 1}
    BY <2>5 DEF Busy
  <2>8. z = w \/ Busy(free, z) = 0
    BY <2>1, <2>3, <2>6, <2>7
  <2>9. z = w \/ z \in free
    BY <2>8 DEF Busy
  <2> QED BY <2>4, <2>9 DEF Parts
\* what is below top
<1>13. ASSUME NEW x \in A, Under(top, x), x # top PROVE x \in merged \cup {n} \/ x \in gone
  <2> DEFINE Bad(z) == z \in A /\ Under(top, z) /\ z # top /\ ~(~IsRoot(z) /\ Parent(z) \in merged)
             T == {Depth(z) : z \in {v \in A : Bad(v)}}
  <2>1. ASSUME NEW z \in A, Bad(z) PROVE FALSE
    <3>1. T \in SUBSET Nat /\ T # {}
      BY <1>2, <2>1, NodeFields
    <3>2. PICK d \in T : \A e \in T : d <= e
      BY <3>1, LeastNat
    <3>3. PICK v \in A : Bad(v) /\ d = Depth(v)
      BY <3>2
    <3>4. \A u \in A : Bad(u) => Depth(v) <= Depth(u)
      BY <3>2, <3>3
    <3> HIDE DEF T
    <3>5. v \in NodeSet /\ ~IsRoot(v)
      BY <1>2, <1>8, <3>3, RootOnly
    <3> DEFINE u == Parent(v)
    <3>6. /\ u \in NodeSet /\ u \in A /\ u \notin leaves /\ Under(top, u) /\ Under(u, v) /\ u # v
          /\ Depth(u) = Depth(v) - 1 /\ Depth(v) \in Nat
      BY <1>2, <1>8, <3>3, <3>5, ParentIs, NodeFields
    <3>7. u \notin merged
      BY <3>3, <3>5
    <3> HIDE DEF u
    <3>8. CASE u = top
      BY <1>11, <3>6, <3>7, <3>8
    <3>9. CASE u # top
      <4>1. ~Bad(u)
        BY <3>4, <3>6
      <4>2. ~IsRoot(u) /\ Parent(u) \in merged
        BY <3>6, <3>9, <4>1
      <4>3. u \in Parts(A, Parent(u))
        BY <3>6, <4>2 DEF Parts
      <4>4. u \in gone \/ u = n
        BY <1>12, <3>7, <4>2, <4>3
      <4> QED BY <1>1, <3>6, <4>4
    <3> QED BY <3>8, <3>9
  <2>2. ~IsRoot(x) /\ Parent(x) \in merged
    BY <1>13, <2>1
  <2>3. x \in Parts(A, Parent(x))
    BY <2>2 DEF Parts
  <2> QED BY <1>12, <2>2, <2>3
<1>14. ASSUME NEW g \in gone PROVE g \in free /\ g \in leaves /\ g \in A /\ Under(top, g) /\ g # top /\ g # n
  <2>1. g \in free /\ g \in leaves /\ g \in NodeSet /\ ~IsRoot(g) /\ Parent(g) \in merged
    BY <1>1, <1>14
  <2>2. Under(top, Parent(g))
    BY <1>10, <2>1
  <2>3. Under(top, g)
    BY <1>8, <2>1, <2>2, ParentIs
  <2> QED BY <1>2, <1>11, <2>1, <2>3
<1>15. top \notin leaves \ {n}
  BY <1>11
<1>16. L \subseteq NodeSet /\ F \subseteq L
  BY <1>1, <1>8
<1> HIDE DEF L, F
\* the nodes that are left
<1>17. ASSUME NEW a PROVE a \in B <=> a \in A /\ (Under(top, a) => a = top)
  <2>1. a \in B <=> a \in NodeSet /\ \E l \in L : Under(a, l)
    BY <1>16, AncestryIs
  <2>2. a \in A <=> a \in NodeSet /\ \E l \in leaves : Under(a, l)
    BY <1>1, AncestryIs DEF A
  <2> HIDE DEF B
  <2>3. ASSUME a \in B PROVE a \in A /\ (Under(top, a) => a = top)
    <3>1. PICK l \in L : a \in NodeSet /\ Under(a, l)
      BY <2>1, <2>3
    <3>2. CASE l = top
      BY <1>2, <1>8, <3>1, <3>2, UnderOnce
    <3>3. CASE l # top
      <4>1. l \in leaves /\ l \in NodeSet /\ l # n /\ l \notin gone
        BY <1>1, <3>1, <3>3 DEF L
      <4>2. ASSUME Under(top, a) PROVE FALSE
        <5>1. Under(top, l) /\ l \in A
          BY <1>2, <1>8, <3>1, <4>1, <4>2, UnderTrans
        <5>2. l \in merged
          BY <1>13, <3>3, <4>1, <5>1
        <5> QED BY <1>8, <4>1, <5>2
      <4> QED BY <2>2, <3>1, <4>1, <4>2
    <3> QED BY <3>2, <3>3
  <2>4. ASSUME a \in A, Under(top, a) => a = top PROVE a \in B
    <3>1. PICK l \in leaves : a \in NodeSet /\ Under(a, l)
      BY <2>2, <2>4
    <3>2. CASE l \notin gone /\ l # n
      BY <2>1, <3>1, <3>2 DEF L
    <3>3. CASE l \in gone \/ l = n
      <4>1. Under(top, l) /\ l \in NodeSet
        BY <1>4, <1>8, <1>14, <1>1, <3>3
      <4>2. Under(a, top) \/ Under(top, a)
        BY <1>8, <3>1, <4>1, UnderLinear
      <4>3. Under(a, top)
        BY <1>8, <2>4, <4>2, UnderItself
      <4> QED BY <2>1, <3>1, <4>3 DEF L
    <3> QED BY <3>2, <3>3
  <2> QED BY <2>3, <2>4
<1> HIDE DEF B
<1>18. Leaves(L)
  <2> SUFFICES ASSUME NEW a \in L, NEW b \in L, Under(a, b), a # b PROVE FALSE
    BY DEF Leaves
  <2>1. CASE b = top
    <3>1. a \in leaves /\ a # n /\ a \in NodeSet
      BY <1>1, <2>1 DEF L
    <3>2. Under(a, n)
      BY <1>4, <1>8, <2>1, <3>1, UnderTrans
    <3> QED BY <1>1, <3>1, <3>2 DEF Leaves
  <2>2. CASE b # top
    <3>1. b \in leaves
      BY <2>2 DEF L
    <3>2. CASE a = top
      <4>1. b \in B
        BY <1>16, AncestryIs, UnderItself DEF B
      <4> QED BY <1>17, <2>2, <3>2, <4>1
    <3>3. CASE a # top
      <4>1. a \in leaves
        BY <3>3 DEF L
      <4> QED BY <1>1, <3>1, <4>1 DEF Leaves
    <3> QED BY <3>2, <3>3
  <2> QED BY <2>1, <2>2
<1>19. Apart(B) /\ Bounded(B) /\ Based(B, sizes)
  BY <1>1, <1>17 DEF Apart, Bounded, Based
<1>20. Counted(B, L, F, count2)
  <2>1. ASSUME NEW a \in B \ L
        PROVE  a \in A \ leaves /\ a \notin merged /\ Parts(B, a) = Parts(A, a)
    <3>1. a \in A /\ a # top /\ ~Under(top, a)
      BY <1>17 DEF L
    <3>2. a \notin merged /\ a # n /\ a \notin gone
      BY <1>10, <1>14, <3>1
    <3>3. a \notin leaves
      BY <3>2 DEF L
    <3>4. ASSUME NEW z \in Parts(A, a) PROVE z \in B
      <4>1. z \in A /\ z \in NodeSet /\ ~IsRoot(z) /\ Parent(z) = a
        BY <1>2 DEF Parts
      <4>2. ASSUME Under(top, z) PROVE z = top
        BY <1>8, <3>1, <4>1, <4>2, ParentIs
      <4> QED BY <1>17, <4>1, <4>2
    <3>5. Parts(B, a) = Parts(A, a)
      BY <1>17, <3>4 DEF Parts
    <3> QED BY <3>1, <3>2, <3>3, <3>5
  <2>2. ASSUME NEW a \in B \ L, ~IsRoot(top), a = Parent(top) PROVE count[a] >= 2
    <3>1. a \in A \ leaves /\ a \notin merged
      BY <2>1
    <3>2. count[a] \in Nat /\ count[a] >= 1
      BY <1>3, <3>1 DEF Halved
    <3>3. /\ a \in NodeSet /\ Under(a, top) /\ a # top /\ Depth(a) = Depth(top) - 1
          /\ Depth(top) \in Nat /\ Depth(a) \in Nat
      BY <1>8, <2>2, ParentIs, NodeFields
    <3>4. Under(a, n) /\ a # n
      BY <1>4, <1>8, <3>3, UnderTrans, UnderOnce
    <3>5. PICK x \in NodeSet : Under(x, n) /\ x # n /\ Depth(x) >= Depth(a) /\ count[x] # 1
      BY <1>7, <3>1, <3>3, <3>4
    <3>6. CASE Depth(x) = Depth(a)
      <4>1. Under(x, a)
        BY <1>4, <3>3, <3>4, <3>5, <3>6, UnderLinear
      <4>2. x = a
        BY <3>3, <3>6, <4>1, SameNode
      <4> QED BY <3>2, <3>5, <4>2
    <3>7. CASE Depth(x) # Depth(a)
      <4>1. Depth(x) \in Nat
        BY NodeFields
      <4>2. Depth(top) <= Depth(x)
        BY <3>3, <3>5, <3>7, <4>1
      <4>3. x \in merged
        BY <1>9, <3>5, <4>2
      <4> QED BY <1>8, <3>5, <4>3
    <3> QED BY <3>6, <3>7
  <2>3. ASSUME NEW a \in B \ L PROVE a \in DOMAIN count2 /\ Halved(B, F, count2, a)
    <3>1. a \in A \ leaves /\ a \notin merged /\ Parts(B, a) = Parts(A, a)
      BY <2>1
    <3>2. a \in DOMAIN count /\ Halved(A, free, count, a) /\ count[a] \in Nat /\ count[a] >= 1
      BY <1>3, <3>1 DEF Halved
    <3>3. Parts(A, a) \subseteq B
      BY <3>1 DEF Parts
    <3>4. \A z \in Parts(A, a) : z # top => (z \in F <=> z \in free)
      BY <3>1 DEF Parts, F
    <3>5. Busy(F, top) = 0 /\ Busy(free, top) = 1
      BY <1>11 DEF Busy, F
    <3>6. top \in Parts(A, a) <=> ~IsRoot(top) /\ a = Parent(top)
      BY <1>8 DEF Parts
    <3>7. a \in fewer <=> ~IsRoot(top) /\ a = Parent(top)
      BY <3>1
    <3>8. count2[a] = count[a] + IF top \in Parts(A, a) THEN Busy(F, top) - Busy(free, top) ELSE 0
      BY <3>2, <3>5, <3>6, <3>7
    <3>9. count2[a] >= 1
      BY <2>2, <3>2, <3>5, <3>6, <3>8
    <3> QED BY <3>1, <3>2, <3>3, <3>4, <3>8, <3>9, HalvedStays
  <2>4. ASSUME NEW l \in leaves PROVE l \notin fewer
    BY <1>2, <1>8
  <2>5. \A l \in L : l \in DOMAIN count2 => count2[l] = 0
    <3> SUFFICES ASSUME NEW l \in L, l \in DOMAIN count2 PROVE count2[l] = 0
      OBVIOUS
    <3>1. CASE l \in leaves
      BY <1>3, <2>4, <3>1
    <3>2. CASE l \notin leaves
      <4>1. l = top /\ top \in merged /\ top \in fewer
        BY <3>2 DEF L
      <4> QED BY <1>8, <4>1
    <3> QED BY <3>1, <3>2
  <2>6. \A a \in DOMAIN count2 : count2[a] \in Nat
    <3> SUFFICES ASSUME NEW a \in DOMAIN count2 PROVE count2[a] \in Nat
      OBVIOUS
    <3>1. count[a] \in Nat
      BY <1>3
    <3>2. a \in fewer => count[a] >= 1
      <4>1. CASE a \in merged
        BY <1>8, <4>1
      <4>2. CASE ~IsRoot(top) /\ a = Parent(top)
        <5>1. a \in A \ leaves
          BY <1>2, <1>8, <4>2
        <5> QED BY <1>3, <5>1 DEF Halved
      <4> QED BY <4>1, <4>2
    <3> QED BY <3>1, <3>2
  <2> QED BY <2>3, <2>5, <2>6 DEF Counted
<1> QED BY <1>8, <1>11, <1>15, <1>16, <1>18, <1>19, <1>20 DEF Tree, A, B, L, F

-----------------------------------------------------------------------------
(* Lists without repetition.                                                *)

\* What is before and behind the element that was inserted.
LEMMA Inserted ==
  ASSUME NEW S, NEW q \in Seq(S), NEW x \in S, NEW k \in 1..Len(q) + 1
  PROVE  /\ InsertAt(q, k, x) \in Seq(S) /\ Len(InsertAt(q, k, x)) = Len(q) + 1
         /\ \A i \in 1..Len(q) + 1 :
               InsertAt(q, k, x)[i] = IF i < k THEN q[i] ELSE IF i = k THEN x ELSE q[i - 1]
<1> DEFINE a == SubSeq(q, 1, k - 1)
           b == SubSeq(q, k, Len(q))
           c == a \o <<x>>
<1>1. a \in Seq(S) /\ Len(a) = k - 1 /\ \A i \in 1..k - 1 : a[i] = q[i]
  BY SubSeqProperties
<1>2. b \in Seq(S) /\ Len(b) = Len(q) - k + 1 /\ \A i \in 1..Len(q) - k + 1 : b[i] = q[k + i - 1]
  BY SubSeqProperties
<1>3. <<x>> \in Seq(S) /\ Len(<<x>>) = 1 /\ <<x>>[1] = x
  OBVIOUS
<1>4. InsertAt(q, k, x) = c \o b
  BY DEF InsertAt
<1> HIDE DEF a, b
<1>5. /\ c \in Seq(S) /\ Len(c) = k
      /\ \A i \in 1..k : c[i] = IF i < k THEN q[i] ELSE x
  <2>1. /\ c \in Seq(S) /\ Len(c) = Len(a) + 1
        /\ \A i \in 1..Len(a) + 1 : c[i] = IF i <= Len(a) THEN a[i] ELSE <<x>>[i - Len(a)]
    BY <1>1, <1>3, ConcatProperties
  <2> HIDE DEF c
  <2> QED BY <1>1, <1>3, <2>1
<1> HIDE DEF c
<1>6. /\ c \o b \in Seq(S) /\ Len(c \o b) = Len(c) + Len(b)
      /\ \A i \in 1..Len(c) + Len(b) : (c \o b)[i] = IF i <= Len(c) THEN c[i] ELSE b[i - Len(c)]
  BY <1>2, <1>5, ConcatProperties
<1>7. k \in Nat /\ Len(q) \in Nat /\ Len(c) + Len(b) = Len(q) + 1
  BY <1>2, <1>5
<1>8. ASSUME NEW i \in 1..Len(q) + 1
      PROVE  (c \o b)[i] = IF i < k THEN q[i] ELSE IF i = k THEN x ELSE q[i - 1]
  <2>1. CASE i <= k
    BY <1>5, <1>6, <1>7, <2>1
  <2>2. CASE i > k
    <3>1. i - k \in 1..Len(q) - k + 1 /\ k + (i - k) - 1 = i - 1
      BY <1>7, <2>2
    <3>2. (c \o b)[i] = b[i - k]
      BY <1>5, <1>6, <1>7, <2>2
    <3> QED BY <1>2, <1>7, <2>2, <3>1, <3>2
  <2> QED BY <1>7, <2>1, <2>2
<1> QED BY <1>4, <1>6, <1>7, <1>8

\* What remains when an element is removed.
LEMMA Removed ==
  ASSUME NEW S, NEW q \in Seq(S), NEW k \in 1..Len(q)
  PROVE  /\ RemoveAt(q, k) \in Seq(S) /\ Len(RemoveAt(q, k)) = Len(q) - 1
         /\ \A i \in 1..Len(q) - 1 : RemoveAt(q, k)[i] = IF i < k THEN q[i] ELSE q[i + 1]
<1> DEFINE a == SubSeq(q, 1, k - 1)
           b == SubSeq(q, k + 1, Len(q))
<1>1. a \in Seq(S) /\ Len(a) = k - 1 /\ \A i \in 1..k - 1 : a[i] = q[i]
  BY SubSeqProperties
<1>2. b \in Seq(S) /\ Len(b) = Len(q) - k /\ \A i \in 1..Len(q) - k : b[i] = q[k + i]
  BY SubSeqProperties
<1>3. RemoveAt(q, k) = a \o b
  BY DEF RemoveAt
<1> HIDE DEF a, b
<1>4. /\ a \o b \in Seq(S) /\ Len(a \o b) = Len(a) + Len(b)
      /\ \A i \in 1..Len(a) + Len(b) : (a \o b)[i] = IF i <= Len(a) THEN a[i] ELSE b[i - Len(a)]
  BY <1>1, <1>2, ConcatProperties
<1>5. k \in Nat /\ Len(q) \in Nat /\ Len(a) + Len(b) = Len(q) - 1
  BY <1>1, <1>2
<1>6. ASSUME NEW i \in 1..Len(q) - 1 PROVE (a \o b)[i] = IF i < k THEN q[i] ELSE q[i + 1]
  <2>1. CASE i < k
    BY <1>1, <1>4, <1>5, <2>1
  <2>2. CASE ~(i < k)
    <3>1. i - (k - 1) \in 1..Len(q) - k /\ k + (i - (k - 1)) = i + 1
      BY <1>5, <2>2
    <3>2. (a \o b)[i] = b[i - (k - 1)]
      BY <1>1, <1>4, <1>5, <2>2
    <3> QED BY <1>2, <2>2, <3>1, <3>2
  <2> QED BY <2>1, <2>2
<1> QED BY <1>3, <1>4, <1>5, <1>6

\* A sequence with one element more, and with one less.
LEMMA OneMore ==
  ASSUME NEW S, NEW q \in Seq(S), Once(q), NEW x \in S, x \notin Elems(q), NEW k \in 1..Len(q) + 1
  PROVE  Once(InsertAt(q, k, x)) /\ Elems(InsertAt(q, k, x)) = Elems(q) \cup {x}
<1> DEFINE r == InsertAt(q, k, x)
<1>1. /\ Len(r) = Len(q) + 1 /\ Len(q) \in Nat /\ k \in Nat
      /\ \A i \in 1..Len(q) + 1 : r[i] = IF i < k THEN q[i] ELSE IF i = k THEN x ELSE q[i - 1]
  BY Inserted
<1> HIDE DEF r
<1>2. ASSUME NEW i \in 1..Len(r) PROVE i = k \/ (i < k /\ i \in 1..Len(q)) \/ (i > k /\ i - 1 \in 1..Len(q))
  BY <1>1
<1>3. Once(r)
  <2> SUFFICES ASSUME NEW i \in 1..Len(r), NEW j \in 1..Len(r), r[i] = r[j], i < j PROVE FALSE
    BY <1>1 DEF Once
  <2>1. i = k \/ (i < k /\ i \in 1..Len(q)) \/ (i > k /\ i - 1 \in 1..Len(q))
    BY <1>2
  <2>2. j = k \/ (j < k /\ j \in 1..Len(q)) \/ (j > k /\ j - 1 \in 1..Len(q))
    BY <1>2
  <2>3. \A u \in 1..Len(q) : q[u] # x
    BY DEF Elems
  <2>4. \A u, v \in 1..Len(q) : q[u] = q[v] => u = v
    BY DEF Once
  <2>5. CASE i = k
    BY <1>1, <2>2, <2>3, <2>5
  <2>6. CASE j = k
    BY <1>1, <2>1, <2>3, <2>6
  <2>7. CASE i # k /\ j # k
    <3> DEFINE a == IF i < k THEN i ELSE i - 1
               b == IF j < k THEN j ELSE j - 1
    <3>1. a \in 1..Len(q) /\ r[i] = q[a]
      BY <1>1, <2>1, <2>7
    <3>2. b \in 1..Len(q) /\ r[j] = q[b]
      BY <1>1, <2>2, <2>7
    <3>3. a # b
      BY <1>1, <2>7
    <3> HIDE DEF a, b
    <3> QED BY <2>4, <3>1, <3>2, <3>3
  <2> QED BY <2>5, <2>6, <2>7
<1>4. Elems(r) = Elems(q) \cup {x}
  <2>1. ASSUME NEW i \in 1..Len(r) PROVE r[i] \in Elems(q) \cup {x}
    <3>1. i = k \/ (i < k /\ i \in 1..Len(q)) \/ (i > k /\ i - 1 \in 1..Len(q))
      BY <1>2
    <3>2. CASE i = k
      BY <1>1, <3>2
    <3>3. CASE i < k /\ i \in 1..Len(q)
      BY <1>1, <3>3 DEF Elems
    <3>4. CASE i > k /\ i - 1 \in 1..Len(q)
      <4>1. r[i] = q[i - 1]
        BY <1>1, <3>4
      <4> QED BY <3>4, <4>1 DEF Elems
    <3> QED BY <3>1, <3>2, <3>3, <3>4
  <2>2. ASSUME NEW i \in 1..Len(q) PROVE q[i] \in Elems(r)
    <3>1. CASE i < k
      <4>1. i \in 1..Len(r) /\ r[i] = q[i]
        BY <1>1, <3>1
      <4> QED BY <4>1 DEF Elems
    <3>2. CASE i >= k
      <4>1. i + 1 \in 1..Len(r) /\ r[i + 1] = q[i]
        BY <1>1, <3>2
      <4> QED BY <4>1 DEF Elems
    <3> QED BY <1>1, <3>1, <3>2
  <2>3. x \in Elems(r)
    <3>1. k \in 1..Len(r) /\ r[k] = x
      BY <1>1
    <3> QED BY <3>1 DEF Elems
  <2> QED BY <2>1, <2>2, <2>3 DEF Elems
<1> QED BY <1>3, <1>4 DEF r

LEMMA OneLess ==
  ASSUME NEW S, NEW q \in Seq(S), Once(q), NEW k \in 1..Len(q)
  PROVE  Once(RemoveAt(q, k)) /\ Elems(RemoveAt(q, k)) = Elems(q) \ {q[k]}
<1> DEFINE r == RemoveAt(q, k)
<1>1. /\ Len(r) = Len(q) - 1 /\ Len(q) \in Nat /\ k \in Nat
      /\ \A i \in 1..Len(q) - 1 : r[i] = IF i < k THEN q[i] ELSE q[i + 1]
  BY Removed
<1> HIDE DEF r
<1>2. ASSUME NEW i \in 1..Len(r) PROVE (i < k /\ i \in 1..Len(q)) \/ (i >= k /\ i + 1 \in 1..Len(q))
  BY <1>1
<1>3. \A u, v \in 1..Len(q) : q[u] = q[v] => u = v
  BY DEF Once
<1>4. Once(r)
  <2> SUFFICES ASSUME NEW i \in 1..Len(r), NEW j \in 1..Len(r), r[i] = r[j], i < j PROVE FALSE
    BY <1>1 DEF Once
  <2>1. (i < k /\ i \in 1..Len(q)) \/ (i >= k /\ i + 1 \in 1..Len(q))
    BY <1>2
  <2>2. (j < k /\ j \in 1..Len(q)) \/ (j >= k /\ j + 1 \in 1..Len(q))
    BY <1>2
  <2> QED BY <1>1, <1>3, <2>1, <2>2
<1>5. Elems(r) = Elems(q) \ {q[k]}
  <2>1. ASSUME NEW i \in 1..Len(r) PROVE r[i] \in Elems(q) \ {q[k]}
    <3>1. (i < k /\ i \in 1..Len(q)) \/ (i >= k /\ i + 1 \in 1..Len(q))
      BY <1>2
    <3> QED BY <1>1, <1>3, <3>1 DEF Elems
  <2>2. ASSUME NEW i \in 1..Len(q), q[i] # q[k] PROVE q[i] \in Elems(r)
    <3>1. CASE i < k
      <4>1. i \in 1..Len(r) /\ r[i] = q[i]
        BY <1>1, <3>1
      <4> QED BY <4>1 DEF Elems
    <3>2. CASE i > k
      <4>1. i - 1 \in 1..Len(r) /\ r[i - 1] = q[i]
        BY <1>1, <3>2
      <4> QED BY <4>1 DEF Elems
    <3> QED BY <1>1, <2>2, <3>1, <3>2
  <2> QED BY <2>1, <2>2 DEF Elems
<1> QED BY <1>4, <1>5 DEF r


\* What a list refers to.
LEMMA RangeIs ==
  ASSUME NEW S, NEW q \in Seq(S)
  PROVE  DOMAIN q = 1..Len(q) /\ Len(q) \in Nat /\ Range(q) = Elems(q) /\ Elems(q) \subseteq S
<1>1. DOMAIN q = 1..Len(q) /\ Len(q) \in Nat /\ \A i \in 1..Len(q) : q[i] \in S
  BY LenProperties, ElementOfSeq
<1> QED BY <1>1 DEF Range, Elems

\* The place where a node is inserted is one of the list.
LEMMA InsertIs ==
  ASSUME NEW list \in Seq(NodeSet), Once(list), NEW n \in NodeSet, n \notin Elems(list)
  PROVE  /\ Insert(list, n) \in Seq(NodeSet) /\ Once(Insert(list, n))
         /\ Elems(Insert(list, n)) = Elems(list) \cup {n}
<1> DEFINE Small == {k \in DOMAIN list : NodeSize(list[k]) <= NodeSize(n)}
           k == Cardinality(Small) + 1
<1>1. DOMAIN list = 1..Len(list) /\ Len(list) \in Nat
  BY LenProperties
<1>2. k \in 1..Len(list) + 1
  <2>1. IsFiniteSet(1..Len(list)) /\ Cardinality(1..Len(list)) = Len(list)
    BY <1>1, FS_Interval
  <2>2. Small \subseteq 1..Len(list)
    BY <1>1
  <2> HIDE DEF Small
  <2>3. IsFiniteSet(Small) /\ Cardinality(Small) <= Cardinality(1..Len(list))
    BY <2>1, <2>2, FS_Subset
  <2>4. Cardinality(Small) \in Nat
    BY <2>3, FS_CardinalityType
  <2> QED BY <1>1, <2>1, <2>3, <2>4
<1>3. Insert(list, n) = InsertAt(list, k, n)
  BY DEF Insert
<1> HIDE DEF k
<1> QED BY <1>2, <1>3, Inserted, OneMore

\* What lower_bound finds is large enough.
LEMMA LowerBoundIs ==
  ASSUME NEW list \in Seq(NodeSet), NEW size \in Nat, LowerBound(list, size) # 0
  PROVE  /\ LowerBound(list, size) \in 1..Len(list)
         /\ NodeSize(list[LowerBound(list, size)]) >= size
<1> DEFINE Large == {k \in DOMAIN list : NodeSize(list[k]) >= size}
<1>1. DOMAIN list = 1..Len(list) /\ Len(list) \in Nat
  BY LenProperties
<1>2. Large # {} /\ LowerBound(list, size) = Min(Large)
  BY DEF LowerBound
<1>3. PICK k \in Large : \A y \in Large : k <= y
  <2>1. Large \in SUBSET Nat
    BY <1>1
  <2> HIDE DEF Large
  <2> QED BY <1>2, <2>1, LeastNat
<1>4. Min(Large) \in Large
  <2> HIDE DEF Large
  <2> QED BY <1>3 DEF Min
<1> QED BY <1>1, <1>2, <1>4

-----------------------------------------------------------------------------
(* Recursive definitions.                                                   *)

\* A recursion over the first numbers, from v by steps in V, has a solution.
Stepping(step, V, N) == step \in [V \X (1..N) -> V]
Solution(g, V, v, step, N) ==
    g \in [0..N -> V] /\ g[0] = v /\ \A i \in 1..N : g[i] = step[<<g[i - 1], i>>]

LEMMA Recursion ==
  ASSUME NEW V, NEW v \in V, NEW N \in Nat, NEW step, Stepping(step, V, N)
  PROVE  \E g : Solution(g, V, v, step, N)
<1> USE DEF Stepping, Solution
<1> DEFINE Sol(g, k) == g \in [0..k -> V] /\ g[0] = v /\ \A i \in 1..k : g[i] = step[<<g[i - 1], i>>]
           T == {k \in 0..N : ~\E g : Sol(g, k)}
<1>1. ASSUME T # {} PROVE FALSE
  <2>1. PICK k \in T : \A y \in T : k <= y
    <3>1. T \in SUBSET Nat
      OBVIOUS
    <3> HIDE DEF T
    <3> QED BY <1>1, <3>1, LeastNat
  <2>2. k \in 0..N /\ ~\E g : Sol(g, k)
    BY <2>1
  <2>3. CASE k = 0
    <3>1. Sol([i \in 0..0 |-> v], 0)
      OBVIOUS
    <3> QED BY <2>2, <2>3, <3>1
  <2>4. CASE k # 0
    <3>1. k - 1 \in 0..N /\ ~(k <= k - 1) /\ k \in 1..N
      BY <2>2, <2>4
    <3>2. PICK g : Sol(g, k - 1)
      BY <2>1, <3>1
    <3>3. g[k - 1] \in V
      BY <3>1, <3>2
    <3>4. step[<<g[k - 1], k>>] \in V
      BY <3>1, <3>3
    <3> DEFINE h == [i \in 0..k |-> IF i < k THEN g[i] ELSE step[<<g[k - 1], k>>]]
    <3>5. h \in [0..k -> V]
      BY <3>1, <3>2, <3>4
    <3>6. h[0] = v
      BY <2>4, <3>1, <3>2
    <3>7. ASSUME NEW i \in 1..k PROVE h[i] = step[<<h[i - 1], i>>]
      <4>1. h[i - 1] = g[i - 1]
        BY <3>1
      <4>2. CASE i = k
        BY <3>1, <4>1, <4>2
      <4>3. CASE i # k
        <5>1. h[i] = g[i] /\ i \in 1..k - 1
          BY <3>1, <4>3
        <5> QED BY <3>2, <4>1, <5>1
      <4> QED BY <4>2, <4>3
    <3>8. Sol(h, k)
      BY <3>5, <3>6, <3>7
    <3> HIDE DEF h, Sol
    <3> QED BY <2>2, <3>8
  <2> QED BY <2>3, <2>4
<1>2. N \notin T
  BY <1>1
<1> QED BY <1>2

\* What holds of 0 and passes from each number below N to the next holds up to N.
LEMMA UpTo ==
  ASSUME NEW N \in Nat, NEW S, 0 \in S, \A i \in 1..N : i - 1 \in S => i \in S
  PROVE  0..N \subseteq S
<1> DEFINE T == (0..N) \ S
<1>1. ASSUME T # {} PROVE FALSE
  <2>1. PICK x \in T : \A y \in T : x <= y
    <3>1. T \in SUBSET Nat
      OBVIOUS
    <3> HIDE DEF T
    <3> QED BY <1>1, <3>1, LeastNat
  <2>2. x \in 1..N /\ x - 1 \in 0..N /\ x - 1 \notin T
    BY <2>1
  <2> QED BY <2>1, <2>2
<1> QED BY <1>1

\* What remains of a list.
LEMMA KeptIs ==
  ASSUME NEW list \in Seq(NodeSet), Once(list), NEW nodes
  PROVE  /\ Kept(list, nodes) \in Seq(NodeSet) /\ Once(Kept(list, nodes))
         /\ Elems(Kept(list, nodes)) = Elems(list) \cap nodes
<1> DEFINE N == Len(list)
           Rule(f) == [k \in 0..N |->
                         IF k = 0 THEN <<>>
                         ELSE IF list[k] \in nodes THEN Append(f[k - 1], list[k]) ELSE f[k - 1]]
           step == [s \in Seq(NodeSet) \X (1..N) |->
                      IF list[s[2]] \in nodes THEN Append(s[1], list[s[2]]) ELSE s[1]]
           K == CHOOSE f : f = Rule(f)
<1>1. N \in Nat /\ \A k \in 1..N : list[k] \in NodeSet
  BY LenProperties, ElementOfSeq
<1>2. step \in [Seq(NodeSet) \X (1..N) -> Seq(NodeSet)]
  BY <1>1, AppendProperties
<1>2a. <<>> \in Seq(NodeSet)
  OBVIOUS
<1>3. PICK g : Solution(g, Seq(NodeSet), <<>>, step, N)
  <2> HIDE DEF step
  <2> QED BY <1>1, <1>2, <1>2a, Recursion DEF Stepping
<1>4. \A i \in 1..N : g[i] = IF list[i] \in nodes THEN Append(g[i - 1], list[i]) ELSE g[i - 1]
  <2> TAKE i \in 1..N
  <2>1. g[i - 1] \in Seq(NodeSet)
    BY <1>1, <1>3 DEF Solution
  <2> QED BY <1>3, <2>1 DEF Solution
<1>5. g = Rule(g)
  <2>1. \A i \in 0..N : g[i] = IF i = 0 THEN <<>>
                                 ELSE IF list[i] \in nodes THEN Append(g[i - 1], list[i]) ELSE g[i - 1]
    <3> TAKE i \in 0..N
    <3>1. i = 0 \/ i \in 1..N
      BY <1>1
    <3> QED BY <1>3, <1>4, <3>1 DEF Solution
  <2>2. g = [i \in 0..N |-> g[i]]
    BY <1>3 DEF Solution
  <2> QED BY <2>1, <2>2
<1>6. K = Rule(K)
  <2> HIDE DEF Rule
  <2> QED BY <1>5
<1>7. Kept(list, nodes) = K[N]
  BY DEF Kept
<1> HIDE DEF K
<1>8. K[0] = <<>> /\ \A i \in 1..N : K[i] = IF list[i] \in nodes THEN Append(K[i - 1], list[i]) ELSE K[i - 1]
  <2>1. \A i \in 0..N : K[i] = Rule(K)[i]
    BY <1>6
  <2>2. 0 \in 0..N /\ \A i \in 1..N : i \in 0..N /\ i # 0
    BY <1>1
  <2>3. K[0] = <<>>
    BY <2>1, <2>2
  <2>4. ASSUME NEW i \in 1..N
        PROVE  K[i] = IF list[i] \in nodes THEN Append(K[i - 1], list[i]) ELSE K[i - 1]
    <3>1. i \in 0..N /\ i # 0 /\ K[i] = Rule(K)[i]
      BY <2>1, <2>2
    <3> QED BY <3>1
  <2> QED BY <2>3, <2>4
<1> DEFINE D(i) == {list[j] : j \in 1..i} \cap nodes
           Good == {i \in 0..N : K[i] \in Seq(NodeSet) /\ Once(K[i]) /\ Elems(K[i]) = D(i)}
<1>9. 0 \in Good
  <2>1. D(0) = {}
    OBVIOUS
  <2>2. <<>> \in Seq(NodeSet) /\ Once(<<>>) /\ Elems(<<>>) = {}
    BY DEF Once, Elems
  <2>3. 0 \in 0..N
    BY <1>1
  <2> HIDE DEF D
  <2> QED BY <1>8, <2>1, <2>2, <2>3
<1>10. ASSUME NEW i \in 1..N, i - 1 \in Good PROVE i \in Good
  <2> DEFINE q == K[i - 1]
             n == list[i]
  <2>1. q \in Seq(NodeSet) /\ Once(q) /\ Elems(q) = D(i - 1) /\ n \in NodeSet
    BY <1>1, <1>10
  <2>2. \A j : j \in 1..i <=> j \in 1..i - 1 \/ j = i
    BY <1>1
  <2>3. D(i) = D(i - 1) \cup ({n} \cap nodes)
    BY <2>2
  <2>4. n \notin D(i - 1)
    <3>1. \A j \in 1..i - 1 : j \in 1..N /\ j # i
      BY <1>1
    <3> QED BY <3>1 DEF Once
  <2>5. K[i] = IF n \in nodes THEN Append(q, n) ELSE q
    BY <1>8
  <2>6. i \in 0..N
    BY <1>1
  <2> HIDE DEF D, q, n
  <2>7. CASE n \in nodes
    <3>1. Len(q) \in Nat
      BY <2>1, LenProperties
    <3>2. /\ Append(q, n) \in Seq(NodeSet) /\ Len(Append(q, n)) = Len(q) + 1 /\ Append(q, n)[Len(q) + 1] = n
          /\ \A j \in 1..Len(q) : Append(q, n)[j] = q[j]
      BY <2>1, AppendProperties
    <3>3. n \notin Elems(q)
      BY <2>1, <2>4
    <3>4. Once(Append(q, n))
      BY <2>1, <3>1, <3>2, <3>3 DEF Once, Elems
    <3>5. Elems(Append(q, n)) = Elems(q) \cup {n}
      <4> DEFINE r == Append(q, n)
      <4> HIDE DEF r
      <4>1. \A j \in 1..Len(q) + 1 : r[j] \in Elems(q) \cup {n}
        BY <3>1, <3>2 DEF r, Elems
      <4>2. \A j \in 1..Len(q) : j \in 1..Len(q) + 1 /\ r[j] = q[j]
        BY <3>1, <3>2 DEF r
      <4>3. Len(q) + 1 \in 1..Len(q) + 1 /\ r[Len(q) + 1] = n /\ Len(r) = Len(q) + 1
        BY <3>1, <3>2 DEF r
      <4> QED BY <4>1, <4>2, <4>3 DEF Elems, r
    <3> QED BY <2>1, <2>3, <2>5, <2>6, <2>7, <3>2, <3>4, <3>5
  <2>8. CASE n \notin nodes
    BY <2>1, <2>3, <2>5, <2>6, <2>8
  <2> QED BY <2>7, <2>8
<1>11. N \in Good
  <2> HIDE DEF Good, D, N
  <2>1. 0..N \subseteq Good
    BY <1>1, <1>9, <1>10, UpTo
  <2> QED BY <1>1, <2>1
<1>12. D(N) = Elems(list) \cap nodes
  BY DEF Elems
<1> QED BY <1>7, <1>11, <1>12

-----------------------------------------------------------------------------
(* Sums.                                                                    *)

\* The sums of the first numbers of a sequence.
Summing(u, v, N) == /\ u \in [0..N -> Nat] /\ u[0] = 0
                    /\ \A k \in 1..N : u[k] = u[k - 1] + v[k]

LEMMA SumExists ==
  ASSUME NEW N \in Nat, NEW v, \A k \in 1..N : v[k] \in Nat
  PROVE  /\ \E u : Summing(u, v, N)
         /\ \A u : Summing(u, v, N) => u = [k \in 0..N |-> IF k = 0 THEN 0 ELSE u[k - 1] + v[k]]
         /\ \A u : u = [k \in 0..N |-> IF k = 0 THEN 0 ELSE u[k - 1] + v[k]] => Summing(u, v, N)
<1> DEFINE step == [s \in Nat \X (1..N) |-> s[1] + v[s[2]]]
<1>1. PICK g : Solution(g, Nat, 0, step, N)
  <2>1. step \in [Nat \X (1..N) -> Nat]
    OBVIOUS
  <2> HIDE DEF step
  <2> QED BY <2>1, Recursion DEF Stepping
<1>2. Summing(g, v, N)
  <2>1. g \in [0..N -> Nat] /\ g[0] = 0 /\ \A i \in 1..N : g[i] = step[<<g[i - 1], i>>]
    BY <1>1 DEF Solution
  <2>2. \A i \in 1..N : g[i] = g[i - 1] + v[i]
    <3> TAKE i \in 1..N
    <3>1. i - 1 \in 0..N
      OBVIOUS
    <3>2. g[i - 1] \in Nat
      BY <2>1, <3>1
    <3> QED BY <2>1, <3>2
  <2> QED BY <2>1, <2>2 DEF Summing
<1>3. ASSUME NEW u, Summing(u, v, N) PROVE u = [k \in 0..N |-> IF k = 0 THEN 0 ELSE u[k - 1] + v[k]]
  <2>1. \A k \in 0..N : u[k] = IF k = 0 THEN 0 ELSE u[k - 1] + v[k]
    BY <1>3 DEF Summing
  <2>2. u = [k \in 0..N |-> u[k]]
    BY <1>3 DEF Summing
  <2> QED BY <2>1, <2>2
<1>4. ASSUME NEW u, u = [k \in 0..N |-> IF k = 0 THEN 0 ELSE u[k - 1] + v[k]] PROVE Summing(u, v, N)
  <2>1. DOMAIN u = 0..N
    BY <1>4
  <2>2. u[0] = 0
    <3>1. 0 \in 0..N
      OBVIOUS
    <3> QED BY <1>4, <3>1
  <2>3. \A k \in 1..N : u[k] = u[k - 1] + v[k]
    <3> TAKE k \in 1..N
    <3>1. k \in 0..N /\ k # 0
      OBVIOUS
    <3> QED BY <1>4, <3>1
  <2> DEFINE S == {k \in 0..N : u[k] \in Nat}
  <2>4. 0 \in S
    BY <2>2
  <2>5. ASSUME NEW k \in 1..N, k - 1 \in S PROVE k \in S
    BY <2>3, <2>5
  <2>6. 0..N \subseteq S
    <3> HIDE DEF S
    <3> QED BY <2>4, <2>5, UpTo
  <2>7. u \in [0..N -> Nat]
    <3>1. u = [k \in 0..N |-> u[k]]
      BY <1>4, <2>1
    <3> QED BY <2>6, <3>1
  <2> QED BY <2>2, <2>3, <2>7 DEF Summing
<1> QED BY <1>2, <1>3, <1>4

\* The memory of the blocks.
Share(sizes) == [b \in 1..MaxBlocks |-> IF b \in DOMAIN sizes THEN sizes[b] ELSE 0]

LEMMA TotalIs ==
  ASSUME NEW sizes, \A b \in DOMAIN sizes : sizes[b] \in Nat
  PROVE  \E u : Summing(u, Share(sizes), MaxBlocks) /\ Total(sizes) = u[MaxBlocks]
<1> DEFINE v == Share(sizes)
           K == CHOOSE u : u = [b \in 0..MaxBlocks |->
                   IF b = 0 THEN 0 ELSE u[b - 1] + IF b \in DOMAIN sizes THEN sizes[b] ELSE 0]
<1>1. MaxBlocks \in Nat /\ \A b \in 1..MaxBlocks : v[b] \in Nat
  BY EagerAssumption DEF Share
<1>2. ASSUME NEW u
      PROVE  [b \in 0..MaxBlocks |-> IF b = 0 THEN 0 ELSE u[b - 1] + v[b]]
             = [b \in 0..MaxBlocks |-> IF b = 0 THEN 0 ELSE u[b - 1] + IF b \in DOMAIN sizes THEN sizes[b] ELSE 0]
  <2>1. \A b \in 0..MaxBlocks : b # 0 => v[b] = IF b \in DOMAIN sizes THEN sizes[b] ELSE 0
    BY <1>1 DEF Share
  <2> QED BY <2>1
<1> HIDE DEF v
<1>3. PICK g : Summing(g, v, MaxBlocks)
  BY <1>1, SumExists
<1>4. g = [b \in 0..MaxBlocks |-> IF b = 0 THEN 0 ELSE g[b - 1] + v[b]]
  BY <1>1, <1>3, SumExists
<1>5. K = [b \in 0..MaxBlocks |-> IF b = 0 THEN 0 ELSE K[b - 1] + v[b]]
  <2>1. g = [b \in 0..MaxBlocks |-> IF b = 0 THEN 0 ELSE g[b - 1] + IF b \in DOMAIN sizes THEN sizes[b] ELSE 0]
    BY <1>2, <1>4
  <2>2. K = [b \in 0..MaxBlocks |-> IF b = 0 THEN 0 ELSE K[b - 1] + IF b \in DOMAIN sizes THEN sizes[b] ELSE 0]
    BY <2>1
  <2> HIDE DEF K
  <2> QED BY <1>2, <2>2
<1>6. Total(sizes) = K[MaxBlocks]
  BY DEF Total
<1> HIDE DEF K
<1>7. Summing(K, v, MaxBlocks)
  BY <1>1, <1>5, SumExists
<1> QED BY <1>6, <1>7 DEF v

\* A block more.
TotalsBy(more, sizes, n, x) ==
    /\ Total(sizes) \in Nat /\ Total(more) = Total(sizes) + x
    /\ DOMAIN more = DOMAIN sizes \cup {n} /\ \A b \in DOMAIN more : more[b] \in Nat

LEMMA TotalAdd ==
  ASSUME NEW sizes, \A b \in DOMAIN sizes : sizes[b] \in Nat,
         NEW n \in 1..MaxBlocks, n \notin DOMAIN sizes, NEW x \in Nat
  PROVE  TotalsBy(Put(sizes, n, x), sizes, n, x)
<1> DEFINE more == Put(sizes, n, x)
<1>1. /\ DOMAIN more = DOMAIN sizes \cup {n} /\ more[n] = x
      /\ \A b \in DOMAIN sizes : more[b] = sizes[b]
  BY DEF Put
<1> HIDE DEF more
<1>2. \A b \in DOMAIN more : more[b] \in Nat
  BY <1>1
<1>3. PICK u : Summing(u, Share(sizes), MaxBlocks) /\ Total(sizes) = u[MaxBlocks]
  BY TotalIs
<1>4. PICK w : Summing(w, Share(more), MaxBlocks) /\ Total(more) = w[MaxBlocks]
  BY <1>2, TotalIs
<1>5. MaxBlocks \in Nat
  BY EagerAssumption
<1>6. ASSUME NEW k \in 1..MaxBlocks
      PROVE  Share(more)[k] = IF k = n THEN x ELSE Share(sizes)[k]
  BY <1>1 DEF Share
<1>7. Share(sizes)[n] = 0
  BY DEF Share
<1> DEFINE S == {k \in 0..MaxBlocks : w[k] = u[k] + IF k >= n THEN x ELSE 0}
<1>8. 0 \in S
  BY <1>3, <1>4, <1>5 DEF Summing
<1>9. ASSUME NEW k \in 1..MaxBlocks, k - 1 \in S PROVE k \in S
  <2>0. k \in 0..MaxBlocks /\ k - 1 \in 0..MaxBlocks
    BY <1>5
  <2>1. w[k] = w[k - 1] + Share(more)[k] /\ u[k] = u[k - 1] + Share(sizes)[k] /\ u[k] \in Nat /\ u[k - 1] \in Nat
    BY <1>3, <1>4, <2>0 DEF Summing
  <2>2. w[k - 1] = u[k - 1] + IF k - 1 >= n THEN x ELSE 0
    BY <1>9
  <2>3. CASE k = n
    BY <1>5, <1>6, <1>7, <2>1, <2>2, <2>3
  <2>4. CASE k # n
    <3>1. w[k] = w[k - 1] + Share(sizes)[k] /\ Share(sizes)[k] \in Nat
      BY <1>6, <2>1, <2>4 DEF Share
    <3> QED BY <1>5, <2>1, <2>2, <2>4, <3>1
  <2> QED BY <2>3, <2>4
<1>10. MaxBlocks \in S
  <2> HIDE DEF S
  <2>1. 0..MaxBlocks \subseteq S
    BY <1>5, <1>8, <1>9, UpTo
  <2> QED BY <1>5, <2>1
<1>11. u[MaxBlocks] \in Nat
  BY <1>3, <1>5 DEF Summing
<1> QED BY <1>1, <1>2, <1>3, <1>4, <1>10, <1>11 DEF more, TotalsBy

\* No block.
LEMMA TotalNone ==
  ASSUME NEW sizes, DOMAIN sizes = {} PROVE Total(sizes) = 0
<1>1. PICK u : Summing(u, Share(sizes), MaxBlocks) /\ Total(sizes) = u[MaxBlocks]
  BY TotalIs
<1>2. MaxBlocks \in Nat
  BY EagerAssumption
<1> DEFINE S == {k \in 0..MaxBlocks : u[k] = 0}
<1>3. 0 \in S
  BY <1>1, <1>2 DEF Summing
<1>4. ASSUME NEW k \in 1..MaxBlocks, k - 1 \in S PROVE k \in S
  <2>1. Share(sizes)[k] = 0
    BY DEF Share
  <2> QED BY <1>1, <1>4, <2>1 DEF Summing
<1>5. 0..MaxBlocks \subseteq S
  <2> HIDE DEF S
  <2> QED BY <1>2, <1>3, <1>4, UpTo
<1> QED BY <1>1, <1>2, <1>5

\* What release(false) subtracts is the memory of the blocks it gives back.
LEMMA TotalLess ==
  ASSUME NEW sizes, sizes = [b \in DOMAIN sizes |-> sizes[b]], DOMAIN sizes \subseteq 1..MaxBlocks,
         \A b \in DOMAIN sizes : sizes[b] \in Nat,
         NEW list \in Seq(NodeSet), Once(list),
         \A n \in Elems(list) : IsRoot(n) => n.block \in DOMAIN sizes /\ n = Root(n.block, sizes[n.block]),
         NEW S, S = {b \in DOMAIN sizes : \A n \in Elems(list) : IsRoot(n) => n.block # b}
  PROVE  /\ Total(sizes) = Total(Restrict(sizes, S)) + RootSize(list)
         /\ Total(Restrict(sizes, S)) \in Nat /\ RootSize(list) \in Nat
<1> DEFINE N == Len(list)
           v == [k \in 1..N |-> IF IsRoot(list[k]) THEN NodeSize(list[k]) ELSE 0]
           K == CHOOSE u : u = [k \in 0..N |->
                   IF k = 0 THEN 0 ELSE u[k - 1] + IF IsRoot(list[k]) THEN NodeSize(list[k]) ELSE 0]
<1>1. N \in Nat /\ \A k \in 1..N : list[k] \in NodeSet /\ list[k] \in Elems(list)
  BY LenProperties, ElementOfSeq DEF Elems
<1>2. \A k \in 1..N : v[k] \in Nat /\ v[k] = IF IsRoot(list[k]) THEN NodeSize(list[k]) ELSE 0
  BY <1>1, NodeFields
<1>3. Summing(K, v, N) /\ RootSize(list) = K[N]
  <2>1. ASSUME NEW u
        PROVE  [k \in 0..N |-> IF k = 0 THEN 0 ELSE u[k - 1] + v[k]]
               = [k \in 0..N |-> IF k = 0 THEN 0 ELSE u[k - 1] + IF IsRoot(list[k]) THEN NodeSize(list[k]) ELSE 0]
    <3>1. \A k \in 0..N : k # 0 => v[k] = IF IsRoot(list[k]) THEN NodeSize(list[k]) ELSE 0
      BY <1>1, <1>2
    <3> HIDE DEF v
    <3> QED BY <3>1
  <2>2. RootSize(list) = K[N]
    BY DEF RootSize
  <2> HIDE DEF v
  <2>3. PICK g : Summing(g, v, N)
    <3> HIDE DEF N
    <3> QED BY <1>1, <1>2, SumExists
  <2>4. g = [k \in 0..N |-> IF k = 0 THEN 0 ELSE g[k - 1] + v[k]]
    <3> HIDE DEF N
    <3> QED BY <1>1, <1>2, <2>3, SumExists
  <2>5. K = [k \in 0..N |-> IF k = 0 THEN 0 ELSE K[k - 1] + v[k]]
    <3>1. g = [k \in 0..N |-> IF k = 0 THEN 0 ELSE g[k - 1] + IF IsRoot(list[k]) THEN NodeSize(list[k]) ELSE 0]
      BY <2>1, <2>4
    <3>2. K = [k \in 0..N |-> IF k = 0 THEN 0 ELSE K[k - 1] + IF IsRoot(list[k]) THEN NodeSize(list[k]) ELSE 0]
      BY <3>1
    <3> HIDE DEF K
    <3> QED BY <2>1, <3>2
  <2> HIDE DEF K
  <2>6. Summing(K, v, N)
    <3> HIDE DEF N
    <3> QED BY <1>1, <1>2, <2>5, SumExists
  <2> QED BY <2>2, <2>6
<1> HIDE DEF K
<1>4. K[0] = 0 /\ (\A k \in 0..N : K[k] \in Nat)
      /\ \A k \in 1..N : K[k] = K[k - 1] + IF IsRoot(list[k]) THEN NodeSize(list[k]) ELSE 0
  BY <1>2, <1>3 DEF Summing
<1> HIDE DEF v
<1> DEFINE Left(k) == {b \in DOMAIN sizes : \A j \in 1..k : IsRoot(list[j]) => list[j].block # b}
           Rest(k) == Restrict(sizes, Left(k))
           Good == {k \in 0..N : Total(sizes) = Total(Rest(k)) + K[k]}
<1>5. ASSUME NEW k \in 0..N
      PROVE  /\ DOMAIN Rest(k) = Left(k) /\ (\A b \in Left(k) : Rest(k)[b] = sizes[b])
             /\ \A b \in DOMAIN Rest(k) : Rest(k)[b] \in Nat
  BY DEF Restrict
<1>6. 0 \in Good
  <2>1. Left(0) = DOMAIN sizes
    <3>1. 1..0 = {}
      OBVIOUS
    <3> QED BY <3>1
  <2>2. Rest(0) = sizes
    BY <2>1 DEF Restrict
  <2>3. Total(sizes) \in Nat
    <3>1. PICK u : Summing(u, Share(sizes), MaxBlocks) /\ Total(sizes) = u[MaxBlocks]
      BY TotalIs
    <3> QED BY <3>1, EagerAssumption DEF Summing
  <2>4. 0 \in 0..N
    BY <1>1
  <2> HIDE DEF Rest
  <2> QED BY <1>4, <2>2, <2>3, <2>4
<1>7. ASSUME NEW k \in 1..N, k - 1 \in Good PROVE k \in Good
  <2>0. /\ Total(sizes) = Total(Rest(k - 1)) + K[k - 1] /\ k \in 0..N /\ k - 1 \in 0..N
        /\ K[k - 1] \in Nat /\ K[k] \in Nat
    BY <1>1, <1>4, <1>7
  <2>1. \A j : j \in 1..k <=> j \in 1..k - 1 \/ j = k
    BY <1>1
  <2>2. CASE ~IsRoot(list[k])
    <3>1. Left(k) = Left(k - 1)
      BY <2>1, <2>2
    <3>2. K[k] = K[k - 1]
      BY <1>4, <2>0, <2>2
    <3> HIDE DEF Left
    <3> QED BY <2>0, <3>1, <3>2
  <2>3. CASE IsRoot(list[k])
    <3> DEFINE n == list[k]
               b == n.block
    <3>1. b \in DOMAIN sizes /\ n = Root(b, sizes[b]) /\ b \in 1..MaxBlocks /\ sizes[b] \in Nat
      BY <1>1, <2>3
    <3>2. NodeSize(n) = sizes[b]
      <4> HIDE DEF n, b
      <4>1. NodeSize(Root(b, sizes[b])) = sizes[b]
        BY <3>1, RootIs
      <4> QED BY <3>1, <4>1
    <3>3. K[k] = K[k - 1] + sizes[b]
      BY <1>4, <2>3, <3>2
    <3>4. b \in Left(k - 1)
      <4> SUFFICES ASSUME NEW j \in 1..k - 1, IsRoot(list[j]), list[j].block = b PROVE FALSE
        BY <3>1
      <4>1. j \in 1..N /\ j # k
        BY <1>1
      <4>2. list[j] = Root(b, sizes[b])
        BY <1>1, <4>1
      <4>3. list[j] = list[k]
        BY <3>1, <4>2
      <4> QED BY <4>1, <4>3 DEF Once
    <3>5. Left(k) = Left(k - 1) \ {b}
      BY <2>1, <2>3
    <3> HIDE DEF n, b
    <3>6. DOMAIN Rest(k) = Left(k) /\ \A x \in DOMAIN Rest(k) : Rest(k)[x] = sizes[x] /\ Rest(k)[x] \in Nat
      BY <1>5, <2>0
    <3>7. Rest(k - 1) = Put(Rest(k), b, sizes[b])
      <4>1. Left(k - 1) = Left(k) \cup {b} /\ b \notin Left(k)
        BY <3>4, <3>5
      <4> HIDE DEF Left
      <4> QED BY <4>1 DEF Put, Restrict
    <3>8. b \notin DOMAIN Rest(k)
      BY <3>5, <3>6
    <3> HIDE DEF Left
    <3> DEFINE less == Rest(k)
    <3>9. Total(less) \in Nat /\ Total(Put(less, b, sizes[b])) = Total(less) + sizes[b]
      <4> HIDE DEF less
      <4>1. \A x \in DOMAIN less : less[x] \in Nat
        BY <3>6 DEF less
      <4>2. b \notin DOMAIN less
        BY <3>8 DEF less
      <4> HIDE DEF Rest
      <4>3. b \in 1..MaxBlocks /\ sizes[b] \in Nat
        BY <3>1
      <4>4. TotalsBy(Put(less, b, sizes[b]), less, b, sizes[b])
        BY <4>1, <4>2, <4>3, TotalAdd
      <4> QED BY <4>4 DEF TotalsBy
    <3> HIDE DEF Rest
    <3> QED BY <2>0, <3>1, <3>3, <3>7, <3>9
  <2> QED BY <2>2, <2>3
<1>8. N \in Good
  <2> HIDE DEF Good, N
  <2>1. 0..N \subseteq Good
    BY <1>1, <1>6, <1>7, UpTo
  <2> QED BY <1>1, <2>1
<1>9. Left(N) = S
  BY DEF Elems
<1>10. Total(Rest(N)) \in Nat
  <2>0. N \in 0..N
    BY <1>1
  <2>1. \A b \in DOMAIN Rest(N) : Rest(N)[b] \in Nat
    <3> HIDE DEF N, Rest
    <3> QED BY <1>5, <2>0
  <2> HIDE DEF Rest
  <2>2. PICK u : Summing(u, Share(Rest(N)), MaxBlocks) /\ Total(Rest(N)) = u[MaxBlocks]
    BY <2>1, TotalIs
  <2> QED BY <2>2, EagerAssumption DEF Summing
<1>11. K[N] \in Nat
  <2>1. N \in 0..N
    BY <1>1
  <2> QED BY <1>4, <2>1
<1> QED BY <1>3, <1>8, <1>9, <1>10, <1>11

-----------------------------------------------------------------------------
(* What a pool keeps.                                                       *)

\* The fields of the record.
Fields(p) == p = [used |-> p.used, free |-> p.free, groups |-> p.groups, current |-> p.current,
                  useCount |-> p.useCount, blocks |-> p.blocks, totalSize |-> p.totalSize]

\* A used node is at its pointer, and not empty, so that no two are at the same.
UsedOK(used) == /\ used = [at \in DOMAIN used |-> used[at]]
                /\ \A at \in DOMAIN used : /\ used[at] \in NodeSet /\ Pointer(used[at]) = at
                                           /\ NodeSize(used[at]) > 0

ListOK(list) == list \in Seq(NodeSet) /\ Once(list)

\* The lists of the groups have no node in common.
GroupsOK(groups) ==
    /\ groups \in Seq(Seq(NodeSet)) /\ \A g \in 1..Len(groups) : ListOK(groups[g])
    /\ \A g, h \in 1..Len(groups) : g # h => Elems(groups[g]) \cap Elems(groups[h]) = {}

Held(groups) == UNION {Elems(groups[g]) : g \in 1..Len(groups)}

\* The leaves of the trees are what is used, free, or held by the groups.
LeavesOf(p, held) == Range(p.used) \cup Elems(p.free) \cup held

Stored(p, held) ==
    /\ Fields(p) /\ UsedOK(p.used) /\ ListOK(p.free)
    /\ Range(p.used) \cap Elems(p.free) = {} /\ held \cap (Range(p.used) \cup Elems(p.free)) = {}
    /\ DOMAIN p.blocks \subseteq 1..MaxBlocks /\ \A b \in DOMAIN p.blocks : p.blocks[b] \in Nat
    /\ p.blocks = [b \in DOMAIN p.blocks |-> p.blocks[b]]
    /\ \A b \in DOMAIN p.blocks : \E n \in LeavesOf(p, held) : n.block = b
    /\ Tree(LeavesOf(p, held), Elems(p.free), p.useCount, p.blocks)

\* The chunks are the used nodes.
ChunksOK(cs, used) ==
    /\ \A c \in cs : /\ c = [at |-> c.at, size |-> c.size, group |-> c.group]
                     /\ c.at \in DOMAIN used /\ NodeSize(used[c.at]) >= c.size
                     /\ c.size \in Requests /\ c.group \in 0..MaxGroups
    /\ \A at \in DOMAIN used : \E c \in cs : c.at = at
    /\ \A c, d \in cs : c.at = d.at => c = d

\* What was given to a group is still in its list or in use by it.
Mine(p, cs, g) == Elems(p.groups[g]) \cup {p.used[c.at] : c \in {c \in cs : c.group = g}}
SeenOK(s, p, cs) ==
    /\ s = [g \in 1..Len(p.groups) |-> s[g]]
    /\ \A g \in 1..Len(p.groups) : \A e \in s[g] :
          \E n \in Mine(p, cs, g) : e = <<Pointer(n), NodeSize(n)>>

\* The pool between two calls.
PoolOK(p) ==
    /\ Stored(p, Held(p.groups)) /\ GroupsOK(p.groups)
    /\ DOMAIN p.useCount = Ancestry(LeavesOf(p, Held(p.groups)))
    /\ p.current \in 0..Len(p.groups) /\ Len(p.groups) <= MaxGroups
    /\ p.totalSize = Total(p.blocks)

IInv ==
    /\ minAlloc \in MinAllocs /\ barrier \in BOOLEAN
    /\ PoolOK(pool) /\ ChunksOK(chunks, pool.used) /\ SeenOK(seen, pool, chunks)
    /\ barrier => minAlloc = 0
    /\ ~barrier => pool.groups = <<>>

\* A node is in its own lineage, and all of a lineage are in one block.
LEMMA LineageBlock ==
  ASSUME NEW leaves \in SUBSET NodeSet
  PROVE  {n.block : n \in Ancestry(leaves)} = {n.block : n \in leaves}
<1>1. leaves \subseteq Ancestry(leaves)
  BY AncestryIs, UnderItself
<1>2. \A a \in Ancestry(leaves) : \E n \in leaves : a.block = n.block
  BY AncestryIs DEF Under
<1> QED BY <1>1, <1>2

\* What the lists refer to.
LEMMA ListedIs ==
  ASSUME NEW p, UsedOK(p.used), ListOK(p.free), GroupsOK(p.groups)
  PROVE  Listed(p) = LeavesOf(p, Held(p.groups))
<1>1. Range(p.free) = Elems(p.free)
  BY RangeIs DEF ListOK
<1>2. /\ Len(p.groups) \in Nat /\ DOMAIN p.groups = 1..Len(p.groups)
      /\ \A g \in 1..Len(p.groups) : Range(p.groups[g]) = Elems(p.groups[g])
  <2>1. Len(p.groups) \in Nat /\ DOMAIN p.groups = 1..Len(p.groups)
    BY DEF GroupsOK
  <2> QED BY <2>1, RangeIs DEF GroupsOK, ListOK
<1>3. UNION {Range(g) : g \in Range(p.groups)} = Held(p.groups)
  <2>1. ASSUME NEW n
        PROVE  (\E g \in Range(p.groups) : n \in Range(g))
               <=> \E i \in 1..Len(p.groups) : n \in Elems(p.groups[i])
    <3>1. Range(p.groups) = {p.groups[i] : i \in 1..Len(p.groups)}
      BY <1>2 DEF Range
    <3> QED BY <1>2, <3>1
  <2> QED BY <2>1 DEF Held
<1> QED BY <1>1, <1>3 DEF Listed, LeavesOf

\* A pool whose nodes and blocks are those that are referred to.
BlocksOf(leaves) == {n.block : n \in leaves}
CountsOf(leaves, count) == [n \in Ancestry(leaves) |-> IF n \in DOMAIN count THEN count[n] ELSE 0]

SettledTo(q, p, leaves) ==
    /\ Fields(q) /\ q.used = p.used /\ q.free = p.free /\ q.groups = p.groups
    /\ q.current = p.current /\ q.totalSize = p.totalSize
    /\ q.blocks = Restrict(p.blocks, BlocksOf(leaves)) /\ q.useCount = CountsOf(leaves, p.useCount)

LEMMA SettledIs ==
  ASSUME NEW p, Fields(p), UsedOK(p.used), ListOK(p.free), GroupsOK(p.groups),
         NEW leaves \in SUBSET NodeSet, leaves = LeavesOf(p, Held(p.groups))
  PROVE  SettledTo(Settled(p), p, leaves)
<1> DEFINE q == Settled(p)
<1>0. q = Settled(p)
  OBVIOUS
<1> HIDE DEF q
<1>1. Alive(p) = Ancestry(leaves)
  BY ListedIs DEF Alive, Ancestry
<1>2. q = [p EXCEPT !.blocks = Restrict(p.blocks, {n.block : n \in Ancestry(leaves)}),
                    !.useCount = [n \in Ancestry(leaves) |->
                                    IF n \in DOMAIN p.useCount THEN p.useCount[n] ELSE 0]]
  BY <1>0, <1>1 DEF Settled
<1> DEFINE B == Restrict(p.blocks, BlocksOf(leaves))
           U == CountsOf(leaves, p.useCount)
<1>3. BlocksOf(leaves) = {n.block : n \in Ancestry(leaves)}
  BY LineageBlock DEF BlocksOf
<1>4. q = [p EXCEPT !.blocks = B, !.useCount = U]
  BY <1>2, <1>3 DEF CountsOf
<1> HIDE DEF B, U
<1>6. q = [used |-> p.used, free |-> p.free, groups |-> p.groups, current |-> p.current,
           useCount |-> U, blocks |-> B, totalSize |-> p.totalSize]
  BY <1>4 DEF Fields
<1>7. SettledTo(q, p, leaves)
  BY <1>6 DEF Fields, SettledTo, B, U
<1> QED BY <1>7 DEF q

\* What is referred to is a tree as before.
LEMMA TreeSettled ==
  ASSUME NEW leaves, NEW free, NEW count, NEW sizes, Tree(leaves, free, count, sizes)
  PROVE  Tree(leaves, free, CountsOf(leaves, count), Restrict(sizes, BlocksOf(leaves)))
<1> DEFINE A == Ancestry(leaves)
           count2 == CountsOf(leaves, count)
           sizes2 == Restrict(sizes, BlocksOf(leaves))
<1>0. /\ DOMAIN count2 = A /\ \A a \in A : count2[a] = IF a \in DOMAIN count THEN count[a] ELSE 0
      /\ DOMAIN sizes2 = BlocksOf(leaves) /\ \A b \in DOMAIN sizes2 : sizes2[b] = sizes[b]
  BY DEF CountsOf, Restrict
<1> HIDE DEF count2, sizes2
<1>1. /\ leaves \subseteq NodeSet /\ free \subseteq leaves /\ Leaves(leaves) /\ Apart(A)
      /\ Bounded(A) /\ Counted(A, leaves, free, count) /\ Based(A, sizes)
  BY DEF Tree
<1>2. {n.block : n \in A} = {n.block : n \in leaves}
  BY <1>1, LineageBlock
<1> HIDE DEF A
<1>3. Based(A, sizes2)
  <2> SUFFICES ASSUME NEW a \in A
               PROVE  a.block \in DOMAIN sizes2 /\ a.path[1] = [lo |-> 0, size |-> sizes2[a.block]]
    BY DEF Based
  <2>1. a.block \in BlocksOf(leaves)
    BY <1>2 DEF BlocksOf
  <2>2. a.block \in DOMAIN sizes /\ a.path[1] = [lo |-> 0, size |-> sizes[a.block]]
    BY <1>1 DEF Based
  <2> QED BY <1>0, <2>1, <2>2
<1>4. Counted(A, leaves, free, count2)
  <2>1. DOMAIN count2 = A /\ \A a \in A : count2[a] = IF a \in DOMAIN count THEN count[a] ELSE 0
    BY <1>0
  <2>2. ASSUME NEW a \in A \ leaves PROVE Halved(A, free, count2, a)
    <3>1. a \in DOMAIN count /\ Halved(A, free, count, a)
      BY <1>1 DEF Counted
    <3> QED BY <2>1, <3>1 DEF Halved
  <2>3. \A a \in A : count2[a] \in Nat
    BY <1>1, <2>1 DEF Counted
  <2>4. \A n \in leaves : n \in A => count2[n] = 0
    BY <1>1, <2>1 DEF Counted
  <2> QED BY <2>1, <2>2, <2>3, <2>4 DEF Counted
<1> QED BY <1>1, <1>3, <1>4 DEF Tree, A, count2, sizes2

\* A settled pool keeps what it kept.
LEMMA StoredSettled ==
  ASSUME NEW p, NEW held, held = Held(p.groups), Stored(p, held), GroupsOK(p.groups),
         NEW q, q = Settled(p)
  PROVE  /\ Stored(q, held) /\ DOMAIN q.useCount = Ancestry(LeavesOf(q, held))
         /\ q.used = p.used /\ q.free = p.free /\ q.groups = p.groups
         /\ q.current = p.current /\ q.totalSize = p.totalSize /\ q.blocks = p.blocks
<1> DEFINE leaves == LeavesOf(p, held)
<1>1. Tree(leaves, Elems(p.free), p.useCount, p.blocks)
  BY DEF Stored
<1>2. leaves \in SUBSET NodeSet
  BY <1>1 DEF Tree
<1>3. /\ Fields(q) /\ q.used = p.used /\ q.free = p.free /\ q.groups = p.groups
      /\ q.current = p.current /\ q.totalSize = p.totalSize
      /\ q.blocks = Restrict(p.blocks, BlocksOf(leaves)) /\ q.useCount = CountsOf(leaves, p.useCount)
  <2> HIDE DEF leaves
  <2>1. leaves = LeavesOf(p, Held(p.groups))
    BY DEF leaves
  <2>2. Fields(p) /\ UsedOK(p.used) /\ ListOK(p.free)
    BY DEF Stored
  <2>3. SettledTo(Settled(p), p, leaves)
    BY <1>2, <2>1, <2>2, SettledIs
  <2> QED BY <2>3 DEF SettledTo
<1>4. Tree(leaves, Elems(p.free), q.useCount, q.blocks)
  <2> HIDE DEF leaves
  <2> QED BY <1>1, <1>3, TreeSettled
<1>5. LeavesOf(q, held) = leaves
  BY <1>3 DEF LeavesOf
<1> HIDE DEF leaves
<1>6. q.blocks = p.blocks
  <2>1. p.blocks = [b \in DOMAIN p.blocks |-> p.blocks[b]]
        /\ \A b \in DOMAIN p.blocks : \E n \in leaves : n.block = b
    BY DEF Stored, leaves
  <2>2. \A n \in leaves : n.block \in DOMAIN p.blocks
    <3>1. leaves \subseteq Ancestry(leaves)
      BY <1>2, AncestryIs, UnderItself
    <3> QED BY <1>1, <3>1 DEF Tree, Based
  <2>3. BlocksOf(leaves) = DOMAIN p.blocks
    BY <2>1, <2>2 DEF BlocksOf
  <2> QED BY <1>3, <2>1, <2>3 DEF Restrict
<1>7. Stored(q, held)
  <2>1. /\ UsedOK(p.used) /\ ListOK(p.free)
        /\ Range(p.used) \cap Elems(p.free) = {} /\ held \cap (Range(p.used) \cup Elems(p.free)) = {}
        /\ DOMAIN p.blocks \subseteq 1..MaxBlocks /\ \A b \in DOMAIN p.blocks : p.blocks[b] \in Nat
        /\ p.blocks = [b \in DOMAIN p.blocks |-> p.blocks[b]]
        /\ \A b \in DOMAIN p.blocks : \E n \in leaves : n.block = b
    BY DEF Stored, leaves
  <2>2. Tree(LeavesOf(q, held), Elems(q.free), q.useCount, q.blocks)
    BY <1>3, <1>4, <1>5
  <2>3. \A b \in DOMAIN q.blocks : \E n \in LeavesOf(q, held) : n.block = b
    BY <1>5, <1>6, <2>1
  <2>4. /\ UsedOK(q.used) /\ ListOK(q.free)
        /\ Range(q.used) \cap Elems(q.free) = {} /\ held \cap (Range(q.used) \cup Elems(q.free)) = {}
    BY <1>3, <2>1
  <2>5. /\ DOMAIN q.blocks \subseteq 1..MaxBlocks /\ \A b \in DOMAIN q.blocks : q.blocks[b] \in Nat
        /\ q.blocks = [b \in DOMAIN q.blocks |-> q.blocks[b]]
    BY <1>6, <2>1
  <2> QED BY <1>3, <2>2, <2>3, <2>4, <2>5 DEF Stored
<1>8. DOMAIN q.useCount = Ancestry(leaves)
  BY <1>3 DEF CountsOf
<1> QED BY <1>3, <1>5, <1>6, <1>7, <1>8

-----------------------------------------------------------------------------
(* What the parts of an operation do to what is stored.                     *)

\* Two leaves of a block are one behind the other.
LEMMA LeavesApart ==
  ASSUME NEW leaves, NEW free, NEW count, NEW sizes, Tree(leaves, free, count, sizes),
         NEW a \in leaves, NEW b \in leaves, a # b, a.block = b.block
  PROVE  Disjoint(a, b)
<1>1. leaves \subseteq NodeSet /\ Leaves(leaves) /\ Apart(Ancestry(leaves))
  BY DEF Tree
<1>2. a \in Ancestry(leaves) /\ b \in Ancestry(leaves)
  BY <1>1, AncestryIs, UnderItself
<1> QED BY <1>1, <1>2 DEF Leaves, Apart

\* Where a leaf of some size begins, no other leaf is in use.
LEMMA NotUsedAt ==
  ASSUME NEW p, NEW held, Stored(p, held), NEW n \in LeavesOf(p, held), n \notin Range(p.used),
         NodeSize(n) > 0
  PROVE  Pointer(n) \notin DOMAIN p.used
<1> SUFFICES ASSUME Pointer(n) \in DOMAIN p.used PROVE FALSE
  OBVIOUS
<1> DEFINE m == p.used[Pointer(n)]
<1>1. /\ Tree(LeavesOf(p, held), Elems(p.free), p.useCount, p.blocks)
      /\ m \in NodeSet /\ Pointer(m) = Pointer(n) /\ NodeSize(m) > 0
  BY DEF Stored, UsedOK
<1>2. m \in Range(p.used) /\ m \in LeavesOf(p, held) /\ n \in NodeSet
  BY <1>1 DEF Range, LeavesOf, Tree
<1> HIDE DEF m
<1>3. m # n /\ m.block = n.block /\ Extent(m).lo = Extent(n).lo
  BY <1>1, <1>2 DEF Pointer
<1>4. Disjoint(m, n)
  BY <1>1, <1>2, <1>3, LeavesApart
<1> QED BY <1>1, <1>2, <1>3, <1>4, NodeFields DEF Disjoint

\* A node more is used.
UsedToo(new, used, n) ==
    /\ UsedOK(new) /\ DOMAIN new = DOMAIN used \cup {Pointer(n)} /\ new[Pointer(n)] = n
    /\ \A x \in DOMAIN used : new[x] = used[x]
    /\ Range(new) = Range(used) \cup {n}

LEMMA UsedMore ==
  ASSUME NEW used, UsedOK(used), NEW n \in NodeSet, NodeSize(n) > 0, Pointer(n) \notin DOMAIN used,
         NEW new, new = InsertNew(used, Pointer(n), n) \/ new = Put(used, Pointer(n), n)
  PROVE  UsedToo(new, used, n)
<1> DEFINE at == Pointer(n)
<1> HIDE DEF at
<1>1. new = [x \in DOMAIN used \cup {at} |-> IF x = at THEN n ELSE used[x]]
  BY DEF InsertNew, Put, at
<1>2. /\ DOMAIN new = DOMAIN used \cup {at} /\ new[at] = n
      /\ new = [x \in DOMAIN new |-> new[x]]
      /\ \A x \in DOMAIN used : new[x] = used[x]
  BY <1>1 DEF at
<1>3. Range(new) = Range(used) \cup {n}
  BY <1>2 DEF Range
<1> QED BY <1>2, <1>3 DEF UsedOK, UsedToo, at

\* A node less is used.
LEMMA UsedLess ==
  ASSUME NEW used, UsedOK(used), NEW at \in DOMAIN used,
         NEW new, new = Restrict(used, DOMAIN used \ {at})
  PROVE  /\ UsedOK(new) /\ DOMAIN new = DOMAIN used \ {at}
         /\ \A x \in DOMAIN new : new[x] = used[x]
         /\ Range(new) = Range(used) \ {used[at]} /\ used[at] \in Range(used) /\ used[at] \in NodeSet
<1>1. /\ DOMAIN new = DOMAIN used \ {at} /\ new = [x \in DOMAIN new |-> new[x]]
      /\ \A x \in DOMAIN new : new[x] = used[x]
  BY DEF Restrict
<1>2. \A x \in DOMAIN used : used[x] = used[at] => x = at
  BY DEF UsedOK
<1>3. Range(new) = Range(used) \ {used[at]} /\ used[at] \in Range(used)
  BY <1>1, <1>2 DEF Range
<1> QED BY <1>1, <1>3 DEF UsedOK

\* What the groups are does not matter to what is stored.
Regrouped(q, p, held, groups, current) ==
    /\ Stored(q, held) /\ q.used = p.used /\ q.free = p.free /\ q.groups = groups
    /\ q.current = current /\ q.useCount = p.useCount /\ q.blocks = p.blocks
    /\ q.totalSize = p.totalSize /\ LeavesOf(q, held) = LeavesOf(p, held)

LEMMA StoredRegrouped ==
  ASSUME NEW p, NEW held, Stored(p, held), NEW groups, NEW current
  PROVE  Regrouped([p EXCEPT !.groups = groups, !.current = current], p, held, groups, current)
<1> DEFINE q == [p EXCEPT !.groups = groups, !.current = current]
<1>0. q = [p EXCEPT !.groups = groups, !.current = current]
  OBVIOUS
<1> HIDE DEF q
<1>1. q = [used |-> p.used, free |-> p.free, groups |-> groups, current |-> current,
           useCount |-> p.useCount, blocks |-> p.blocks, totalSize |-> p.totalSize]
  <2>1. Fields(p)
    BY DEF Stored
  <2> QED BY <1>0, <2>1 DEF Fields
<1>2. /\ Fields(q) /\ q.used = p.used /\ q.free = p.free /\ q.groups = groups
      /\ q.current = current /\ q.useCount = p.useCount /\ q.blocks = p.blocks
      /\ q.totalSize = p.totalSize
  BY <1>1 DEF Fields
<1>3. LeavesOf(q, held) = LeavesOf(p, held)
  BY <1>2 DEF LeavesOf
<1>4. Stored(q, held)
  BY <1>2, <1>3, Zenon DEF Stored
<1>5. Regrouped(q, p, held, groups, current)
  BY <1>2, <1>3, <1>4 DEF Regrouped
<1> QED BY <1>5 DEF q

\* What a group held is used.
LEMMA StoredUse ==
  ASSUME NEW p, NEW held, Stored(p, held), NEW n \in held, NodeSize(n) > 0,
         NEW q, q = UsedAt(p, Pointer(n), n)
  PROVE  /\ Stored(q, held \ {n}) /\ Pointer(n) \notin DOMAIN p.used
         /\ DOMAIN q.used = DOMAIN p.used \cup {Pointer(n)} /\ q.used[Pointer(n)] = n
         /\ \A x \in DOMAIN p.used : q.used[x] = p.used[x]
         /\ q.free = p.free /\ q.groups = p.groups /\ q.current = p.current
         /\ q.useCount = p.useCount /\ q.blocks = p.blocks /\ q.totalSize = p.totalSize
<1> DEFINE new == InsertNew(p.used, Pointer(n), n)
<1>1. /\ Fields(p) /\ UsedOK(p.used) /\ ListOK(p.free)
      /\ Range(p.used) \cap Elems(p.free) = {} /\ held \cap (Range(p.used) \cup Elems(p.free)) = {}
      /\ DOMAIN p.blocks \subseteq 1..MaxBlocks /\ \A b \in DOMAIN p.blocks : p.blocks[b] \in Nat
      /\ p.blocks = [b \in DOMAIN p.blocks |-> p.blocks[b]]
      /\ \A b \in DOMAIN p.blocks : \E m \in LeavesOf(p, held) : m.block = b
      /\ Tree(LeavesOf(p, held), Elems(p.free), p.useCount, p.blocks)
  BY DEF Stored
<1>2. n \in LeavesOf(p, held) /\ n \notin Range(p.used) /\ n \in NodeSet
  <2>1. n \in LeavesOf(p, held) /\ n \notin Range(p.used)
    BY <1>1 DEF LeavesOf
  <2> QED BY <1>1, <2>1 DEF Tree
<1>3. Pointer(n) \notin DOMAIN p.used
  BY <1>2, NotUsedAt
<1>4. /\ UsedOK(new) /\ DOMAIN new = DOMAIN p.used \cup {Pointer(n)} /\ new[Pointer(n)] = n
      /\ \A x \in DOMAIN p.used : new[x] = p.used[x]
      /\ Range(new) = Range(p.used) \cup {n}
  BY <1>1, <1>2, <1>3, UsedMore DEF UsedToo
<1>5. q = [p EXCEPT !.used = new]
  BY DEF UsedAt
<1> HIDE DEF new
<1>6. q = [used |-> new, free |-> p.free, groups |-> p.groups, current |-> p.current,
           useCount |-> p.useCount, blocks |-> p.blocks, totalSize |-> p.totalSize]
  BY <1>1, <1>5 DEF Fields
<1>7. /\ Fields(q) /\ q.used = new /\ q.free = p.free /\ q.groups = p.groups
      /\ q.current = p.current /\ q.useCount = p.useCount /\ q.blocks = p.blocks
      /\ q.totalSize = p.totalSize
  BY <1>6 DEF Fields
<1>8. LeavesOf(q, held \ {n}) = LeavesOf(p, held)
  BY <1>4, <1>7 DEF LeavesOf
<1>9. Range(new) \cap Elems(p.free) = {} /\ (held \ {n}) \cap (Range(new) \cup Elems(p.free)) = {}
  BY <1>1, <1>4
<1>10. Stored(q, held \ {n})
  BY <1>1, <1>4, <1>7, <1>8, <1>9, Zenon DEF Stored
<1> QED BY <1>3, <1>4, <1>7, <1>10

\* What was used is in nobody's list for the moment.
Unused(q, p, held, at, n) ==
    /\ Stored(q, held \cup {n}) /\ n \in NodeSet /\ n \notin held /\ n \notin Elems(q.free)
    /\ DOMAIN q.used = DOMAIN p.used \ {at} /\ \A x \in DOMAIN q.used : q.used[x] = p.used[x]
    /\ q.free = p.free /\ q.groups = p.groups /\ q.current = p.current
    /\ q.useCount = p.useCount /\ q.blocks = p.blocks /\ q.totalSize = p.totalSize

Without(p, at) == [p EXCEPT !.used = Restrict(@, DOMAIN @ \ {at})]

LEMMA StoredUnuse ==
  ASSUME NEW p, NEW held, Stored(p, held), NEW at \in DOMAIN p.used
  PROVE  Unused(Without(p, at), p, held, at, p.used[at])
<1> DEFINE n == p.used[at]
           q == Without(p, at)
           new == Restrict(p.used, DOMAIN p.used \ {at})
<1>0. q = [p EXCEPT !.used = new]
  BY DEF Without
<1> HIDE DEF q
<1>1. /\ Fields(p) /\ UsedOK(p.used) /\ ListOK(p.free)
      /\ Range(p.used) \cap Elems(p.free) = {} /\ held \cap (Range(p.used) \cup Elems(p.free)) = {}
      /\ DOMAIN p.blocks \subseteq 1..MaxBlocks /\ \A b \in DOMAIN p.blocks : p.blocks[b] \in Nat
      /\ p.blocks = [b \in DOMAIN p.blocks |-> p.blocks[b]]
      /\ \A b \in DOMAIN p.blocks : \E m \in LeavesOf(p, held) : m.block = b
      /\ Tree(LeavesOf(p, held), Elems(p.free), p.useCount, p.blocks)
  BY DEF Stored
<1>2. /\ UsedOK(new) /\ DOMAIN new = DOMAIN p.used \ {at}
      /\ \A x \in DOMAIN new : new[x] = p.used[x]
      /\ Range(new) = Range(p.used) \ {n} /\ n \in Range(p.used) /\ n \in NodeSet
  BY <1>1, UsedLess
<1> HIDE DEF n, new
<1>3. q = [used |-> new, free |-> p.free, groups |-> p.groups, current |-> p.current,
           useCount |-> p.useCount, blocks |-> p.blocks, totalSize |-> p.totalSize]
  BY <1>0, <1>1 DEF Fields
<1>4. /\ Fields(q) /\ q.used = new /\ q.free = p.free /\ q.groups = p.groups
      /\ q.current = p.current /\ q.useCount = p.useCount /\ q.blocks = p.blocks
      /\ q.totalSize = p.totalSize
  BY <1>3 DEF Fields
<1>5. LeavesOf(q, held \cup {n}) = LeavesOf(p, held)
  BY <1>2, <1>4 DEF LeavesOf
<1>6. /\ Range(new) \cap Elems(p.free) = {} /\ (held \cup {n}) \cap (Range(new) \cup Elems(p.free)) = {}
      /\ n \notin held /\ n \notin Elems(p.free)
  BY <1>1, <1>2
<1>7. Stored(q, held \cup {n})
  <2> DEFINE more == held \cup {n}
  <2>1. LeavesOf(q, more) = LeavesOf(p, held) /\ more \cap (Range(new) \cup Elems(p.free)) = {}
    BY <1>5, <1>6
  <2> HIDE DEF more
  <2>2. Stored(q, more)
    <3>1. \A b \in DOMAIN q.blocks : \E m \in LeavesOf(q, more) : m.block = b
      BY <1>1, <1>4, <2>1
    <3>2. Tree(LeavesOf(q, more), Elems(q.free), q.useCount, q.blocks)
      BY <1>1, <1>4, <2>1
    <3>3. /\ Range(q.used) \cap Elems(q.free) = {} /\ more \cap (Range(q.used) \cup Elems(q.free)) = {}
          /\ UsedOK(q.used) /\ ListOK(q.free)
      BY <1>1, <1>2, <1>4, <1>6, <2>1
    <3>4. /\ DOMAIN q.blocks \subseteq 1..MaxBlocks /\ \A b \in DOMAIN q.blocks : q.blocks[b] \in Nat
          /\ q.blocks = [b \in DOMAIN q.blocks |-> q.blocks[b]]
      BY <1>1, <1>4
    <3> QED BY <1>4, <3>1, <3>2, <3>3, <3>4, Zenon DEF Stored
  <2> QED BY <2>2 DEF more
<1>8. Unused(q, p, held, at, n)
  BY <1>2, <1>4, <1>6, <1>7 DEF Unused
<1> QED BY <1>8 DEF q, n

\* The list of a group changes.
GroupNow(new, groups, g, list) ==
    /\ GroupsOK(new) /\ Len(new) = Len(groups) /\ new[g] = list
    /\ \A h \in 1..Len(groups) : h # g => new[h] = groups[h]
    /\ Held(new) = (Held(groups) \ Elems(groups[g])) \cup Elems(list)

LEMMA GroupSet ==
  ASSUME NEW groups, GroupsOK(groups), NEW g \in 1..Len(groups), NEW list, ListOK(list),
         \A n \in Elems(list) : n \in Held(groups) => n \in Elems(groups[g])
  PROVE  GroupNow([groups EXCEPT ![g] = list], groups, g, list)
<1> DEFINE new == [groups EXCEPT ![g] = list]
<1>1. /\ groups \in Seq(Seq(NodeSet)) /\ Len(groups) \in Nat
      /\ \A h \in 1..Len(groups) : ListOK(groups[h])
      /\ \A i, j \in 1..Len(groups) : i # j => Elems(groups[i]) \cap Elems(groups[j]) = {}
  <2>1. groups \in Seq(Seq(NodeSet))
    BY DEF GroupsOK
  <2>2. Len(groups) \in Nat
    BY <2>1
  <2> QED BY <2>1, <2>2, Zenon DEF GroupsOK
<1>2. list \in Seq(NodeSet)
  BY DEF ListOK
<1>3. /\ new \in Seq(Seq(NodeSet)) /\ Len(new) = Len(groups) /\ new[g] = list
      /\ \A h \in 1..Len(groups) : h # g => new[h] = groups[h]
  BY <1>1, <1>2
<1>4. \A h \in 1..Len(groups) : h # g => Elems(groups[h]) \cap Elems(groups[g]) = {}
                                         /\ Elems(groups[h]) \cap Elems(list) = {}
  <2> TAKE h \in 1..Len(groups)
  <2> HAVE h # g
  <2>1. Elems(groups[h]) \cap Elems(groups[g]) = {}
    BY <1>1
  <2>2. Elems(groups[h]) \subseteq Held(groups)
    BY DEF Held
  <2> HIDE DEF new
  <2> QED BY <2>1, <2>2
<1> HIDE DEF new
<1>5. \A i, j \in 1..Len(new) : i # j => Elems(new[i]) \cap Elems(new[j]) = {}
  <2> TAKE i, j \in 1..Len(new)
  <2> HAVE i # j
  <2>1. CASE i = g
    BY <1>3, <1>4, <2>1
  <2>2. CASE j = g
    BY <1>3, <1>4, <2>2
  <2>3. CASE i # g /\ j # g
    BY <1>1, <1>3, <2>3
  <2> QED BY <2>1, <2>2, <2>3
<1>6. \A h \in 1..Len(new) : ListOK(new[h])
  BY <1>1, <1>3
<1>7. GroupsOK(new)
  BY <1>3, <1>5, <1>6 DEF GroupsOK
<1>8. Held(new) = (Held(groups) \ Elems(groups[g])) \cup Elems(list)
  <2>1. ASSUME NEW n PROVE n \in Held(new) <=> \E h \in 1..Len(groups) : n \in Elems(new[h])
    BY <1>3 DEF Held
  <2>2. ASSUME NEW n PROVE n \in Held(groups) <=> \E h \in 1..Len(groups) : n \in Elems(groups[h])
    BY DEF Held
  <2>3. ASSUME NEW n PROVE n \in Held(new) <=> n \in Elems(list) \/ \E h \in 1..Len(groups) : h # g /\ n \in Elems(groups[h])
    BY <1>3, <2>1
  <2>4. ASSUME NEW n
        PROVE  n \in Held(groups) /\ n \notin Elems(groups[g])
               <=> \E h \in 1..Len(groups) : h # g /\ n \in Elems(groups[h])
    BY <1>4, <2>2
  <2> QED BY <2>3, <2>4
<1> QED BY <1>3, <1>7, <1>8 DEF GroupNow, new

\* A group gives a node away, or takes one.
LostBy(new, groups, g, n) ==
    /\ GroupsOK(new) /\ Len(new) = Len(groups) /\ Held(new) = Held(groups) \ {n}
    /\ n \in Held(groups) /\ n \in NodeSet /\ Elems(new[g]) = Elems(groups[g]) \ {n}
    /\ \A h \in 1..Len(groups) : h # g => new[h] = groups[h]

LEMMA GroupLess ==
  ASSUME NEW groups, GroupsOK(groups), NEW g \in 1..Len(groups), NEW i \in 1..Len(groups[g])
  PROVE  LostBy([groups EXCEPT ![g] = RemoveAt(groups[g], i)], groups, g, groups[g][i])
<1> DEFINE n == groups[g][i]
           new == [groups EXCEPT ![g] = RemoveAt(groups[g], i)]
<1> DEFINE list == RemoveAt(groups[g], i)
<1>1. groups[g] \in Seq(NodeSet) /\ Once(groups[g])
  BY DEF GroupsOK, ListOK
<1>2. ListOK(list) /\ Elems(list) = Elems(groups[g]) \ {n}
  BY <1>1, Removed, OneLess DEF ListOK
<1>3. n \in Elems(groups[g]) /\ n \in NodeSet
  BY <1>1, RangeIs DEF Elems
<1> HIDE DEF list
<1>4. \A x \in Elems(list) : x \in Held(groups) => x \in Elems(groups[g])
  BY <1>2
<1>5. GroupNow(new, groups, g, list)
  <2>1. GroupNow([groups EXCEPT ![g] = list], groups, g, list)
    BY <1>2, <1>4, GroupSet
  <2> QED BY <2>1 DEF list
<1>6. Elems(groups[g]) \subseteq Held(groups)
  BY DEF Held
<1>7. Held(groups) \ {n} = (Held(groups) \ Elems(groups[g])) \cup Elems(list)
  BY <1>2, <1>3, <1>6
<1> QED BY <1>2, <1>3, <1>5, <1>6, <1>7 DEF GroupNow, LostBy

GainedBy(new, groups, g, n) ==
    /\ GroupsOK(new) /\ Len(new) = Len(groups) /\ Held(new) = Held(groups) \cup {n}
    /\ Elems(new[g]) = Elems(groups[g]) \cup {n}
    /\ \A h \in 1..Len(groups) : h # g => new[h] = groups[h]

LEMMA GroupMore ==
  ASSUME NEW groups, GroupsOK(groups), NEW g \in 1..Len(groups), NEW n \in NodeSet, n \notin Held(groups)
  PROVE  GainedBy([groups EXCEPT ![g] = Insert(groups[g], n)], groups, g, n)
<1> DEFINE new == [groups EXCEPT ![g] = Insert(groups[g], n)]
<1> DEFINE list == Insert(groups[g], n)
<1>1. groups[g] \in Seq(NodeSet) /\ Once(groups[g])
  BY DEF GroupsOK, ListOK
<1>2. Elems(groups[g]) \subseteq Held(groups)
  BY DEF Held
<1>3. ListOK(list) /\ Elems(list) = Elems(groups[g]) \cup {n}
  BY <1>1, <1>2, InsertIs DEF ListOK
<1> HIDE DEF list
<1>4. \A x \in Elems(list) : x \in Held(groups) => x \in Elems(groups[g])
  BY <1>3
<1>5. GroupNow(new, groups, g, list)
  <2>1. GroupNow([groups EXCEPT ![g] = list], groups, g, list)
    BY <1>3, <1>4, GroupSet
  <2> QED BY <2>1 DEF list
<1> QED BY <1>2, <1>3, <1>5 DEF GroupNow, GainedBy

\* A node of the free list is taken out.
LEMMA FreeLess ==
  ASSUME NEW free, ListOK(free), NEW i \in 1..Len(free), NEW n, n = free[i],
         NEW new, new = RemoveAt(free, i)
  PROVE  ListOK(new) /\ Elems(new) = Elems(free) \ {n} /\ n \in Elems(free) /\ n \in NodeSet
<1>1. free \in Seq(NodeSet) /\ Once(free)
  BY DEF ListOK
<1>2. n \in Elems(free) /\ n \in NodeSet
  BY <1>1, RangeIs DEF Elems
<1>3. new \in Seq(NodeSet)
  BY <1>1, Removed
<1>4. Once(new) /\ Elems(new) = Elems(free) \ {n}
  BY <1>1, OneLess
<1> QED BY <1>2, <1>3, <1>4 DEF ListOK

\* What is left of a request: it is rounded up to the alignment, as the minimal
\* size of a block is.
LEMMA SplitSizeIs ==
  ASSUME NEW size \in Nat, size > 0
  PROVE  /\ SplitSize(size) \in Nat /\ SplitSize(size) >= size
         /\ \A m \in Nat : m % Align = 0 /\ size <= m => SplitSize(size) <= m
<1> DEFINE q == (size + Align - 1) \div Align
<1>1. Align \in Nat /\ Align > 0
  BY EagerAssumption
<1>2. q \in Nat /\ Align * q <= size + Align - 1 /\ size + Align - 1 < Align * q + Align
  BY <1>1, SMT
<1>3. SplitSize(size) = Align * q
  BY <1>1, <1>2 DEF SplitSize
<1> HIDE DEF q
<1>4. Align * q \in Nat
  BY <1>1, <1>2
<1>5. ASSUME NEW m \in Nat, m % Align = 0, size <= m PROVE Align * q <= m
  <2>1. PICK k \in Nat : m = Align * k
    BY <1>1, <1>5, SMT
  <2>2. m = Align * k
    BY <2>1
  <2>3. Align * q < Align * (k + 1)
    <3>1. Align * (k + 1) = Align * k + Align
      BY <1>1, <2>1
    <3>2. Align * k \in Nat
      BY <2>2
    <3> QED BY <1>1, <1>2, <1>4, <1>5, <2>2, <3>1, <3>2
  <2>4. q < k + 1
    <3> SUFFICES ASSUME q >= k + 1 PROVE FALSE
      BY <1>2, <2>1
    <3>1. Align * q >= Align * (k + 1)
      BY <1>1, <1>2, <2>1
    <3> QED BY <1>1, <1>4, <2>1, <2>3, <3>1
  <2>5. Align * q <= Align * k
    BY <1>1, <1>2, <2>1, <2>4
  <2> QED BY <2>2, <2>5
<1> QED BY <1>1, <1>2, <1>3, <1>4, <1>5

\* A node that nobody holds any more is returned.
LEMMA ReturnIs ==
  ASSUME NEW p, NEW held, Stored(p, held), NEW n \in held, NEW q, q = ReturnMemory(p, n)
  PROVE  /\ Stored(q, held \ {n})
         /\ q.used = p.used /\ q.groups = p.groups /\ q.current = p.current
         /\ q.blocks = p.blocks /\ q.totalSize = p.totalSize
<1> DEFINE merged == Merging(n, p.useCount)
           Highest(a) == a \in merged \cup {n} /\ \A x \in merged \cup {n} : Depth(a) <= Depth(x)
           top == CHOOSE a \in merged \cup {n} : \A x \in merged \cup {n} : Depth(a) <= Depth(x)
           fewer == LessBusy(merged, top)
           apart == {x \in Range(p.free) : IsRoot(x) \/ Parent(x) \notin merged}
           gone == PartsIn(Elems(p.free), merged)
           free2 == Insert(Kept(p.free, apart), top)
           count2 == Fewer(p.useCount, fewer)
<1>1. /\ Fields(p) /\ UsedOK(p.used) /\ ListOK(p.free)
      /\ Range(p.used) \cap Elems(p.free) = {} /\ held \cap (Range(p.used) \cup Elems(p.free)) = {}
      /\ DOMAIN p.blocks \subseteq 1..MaxBlocks /\ \A b \in DOMAIN p.blocks : p.blocks[b] \in Nat
      /\ p.blocks = [b \in DOMAIN p.blocks |-> p.blocks[b]]
      /\ \A b \in DOMAIN p.blocks : \E m \in LeavesOf(p, held) : m.block = b
      /\ Tree(LeavesOf(p, held), Elems(p.free), p.useCount, p.blocks)
  BY DEF Stored
<1> DEFINE leaves == LeavesOf(p, held)
           free == Elems(p.free)
<1>2. leaves \subseteq NodeSet /\ n \in leaves /\ n \notin free /\ n \in NodeSet
  <2>1. LeavesOf(p, held) \subseteq NodeSet
    BY <1>1 DEF Tree
  <2> QED BY <1>1, <2>1 DEF LeavesOf
<1>3. q = [p EXCEPT !.free = free2, !.useCount = count2]
  BY DEF ReturnMemory, Merges, Depth, Merging, LessBusy, Fewer
<1>4. Range(p.free) = free
  BY <1>1, RangeIs DEF ListOK
<1>5. merged \subseteq NodeSet /\ \A a \in merged : a.block = n.block
  BY <1>2, LineageIs DEF Under, Merging
<1>6. Highest(top)
  <2>1. \E a : Highest(a)
    <3> DEFINE S == merged \cup {n}
               T == {Depth(x) : x \in S}
    <3>1. T \in SUBSET Nat /\ T # {}
      BY <1>2, <1>5, NodeFields
    <3> HIDE DEF T
    <3>2. PICK d \in T : \A e \in T : d <= e
      BY <3>1, LeastNat
    <3>3. PICK a \in S : Depth(a) = d
      BY DEF T
    <3>4. \A x \in S : Depth(x) \in T
      BY DEF T
    <3> HIDE DEF merged
    <3> QED BY <3>2, <3>3, <3>4
  <2> HIDE DEF merged
  <2>2. top = CHOOSE a : Highest(a)
    OBVIOUS
  <2> HIDE DEF top
  <2> QED BY <2>1, <2>2
<1> HIDE DEF top
<1>8. /\ top \in NodeSet /\ top.block = n.block /\ top \notin free /\ top \notin leaves \ {n}
      /\ Tree(((leaves \ {n}) \ gone) \cup {top}, (free \ gone) \cup {top}, count2, p.blocks)
  <2>1. Topmost(top, merged, n)
    BY <1>6 DEF Topmost
  <2>2. Tree(leaves, free, p.useCount, p.blocks)
    BY <1>1
  <2>3. /\ merged = Merging(n, p.useCount) /\ fewer = LessBusy(merged, top)
        /\ gone = PartsIn(free, merged) /\ count2 = Fewer(p.useCount, fewer)
    OBVIOUS
  <2> HIDE DEF merged, fewer, gone, count2, leaves, free
  <2>4. n \in leaves /\ n \notin free
    BY <1>2
  <2> QED BY <2>1, <2>2, <2>3, <2>4, TreeReturn
<1>9. ListOK(free2) /\ Elems(free2) = (free \ gone) \cup {top}
  <2>1. free \cap apart = free \ gone
    BY <1>4 DEF PartsIn
  <2>2. p.free \in Seq(NodeSet) /\ Once(p.free)
    BY <1>1 DEF ListOK
  <2>3. ListOK(Kept(p.free, apart)) /\ Elems(Kept(p.free, apart)) = free \ gone
    <3> HIDE DEF apart, gone
    <3> QED BY <2>1, <2>2, KeptIs DEF ListOK
  <2> DEFINE kept == Kept(p.free, apart)
  <2> HIDE DEF kept, gone, merged, apart
  <2>4. kept \in Seq(NodeSet) /\ Once(kept) /\ top \notin Elems(kept) /\ Elems(kept) = free \ gone
    BY <1>8, <2>3 DEF ListOK, kept
  <2> QED BY <1>8, <2>4, InsertIs DEF ListOK, kept
<1>10. gone \subseteq free /\ \A x \in gone : x.block = n.block
  <2> SUFFICES ASSUME NEW x \in gone PROVE x.block = n.block
    BY DEF PartsIn
  <2>1. x \in NodeSet /\ ~IsRoot(x) /\ Parent(x) \in merged
    BY <1>1 DEF ListOK, LeavesOf, Tree, PartsIn
  <2> QED BY <1>5, <2>1, ParentIs
<1> HIDE DEF merged, fewer, apart, gone, free2, count2
<1>11. q = [used |-> p.used, free |-> free2, groups |-> p.groups, current |-> p.current,
            useCount |-> count2, blocks |-> p.blocks, totalSize |-> p.totalSize]
  BY <1>1, <1>3 DEF Fields
<1>12. /\ Fields(q) /\ q.used = p.used /\ q.free = free2 /\ q.groups = p.groups
       /\ q.current = p.current /\ q.useCount = count2 /\ q.blocks = p.blocks
       /\ q.totalSize = p.totalSize
  BY <1>11 DEF Fields
<1> DEFINE less == held \ {n}
<1>13. /\ n \notin Range(p.used) /\ n \notin free /\ Range(p.used) \cap free = {} /\ held \cap free = {}
       /\ held \cap Range(p.used) = {} /\ leaves = Range(p.used) \cup free \cup held
  BY <1>1 DEF LeavesOf
<1> HIDE DEF free, leaves
<1>14. LeavesOf(q, less) = ((leaves \ {n}) \ gone) \cup {top}
  <2>1. LeavesOf(q, less) = Range(p.used) \cup ((free \ gone) \cup {top}) \cup (held \ {n})
    BY <1>9, <1>12 DEF LeavesOf
  <2> QED BY <1>10, <1>13, <2>1
<1>15. /\ Range(q.used) \cap Elems(q.free) = {} /\ less \cap (Range(q.used) \cup Elems(q.free)) = {}
       /\ UsedOK(q.used) /\ ListOK(q.free)
  <2>1. top \notin Range(p.used) /\ top \notin less
    BY <1>8, <1>13
  <2> QED BY <1>1, <1>9, <1>12, <1>13, <2>1
<1>16. \A b \in DOMAIN q.blocks : \E m \in LeavesOf(q, less) : m.block = b
  <2> TAKE b \in DOMAIN q.blocks
  <2>1. PICK m \in leaves : m.block = b
    BY <1>1, <1>12 DEF leaves
  <2>2. CASE m = n \/ m \in gone
    BY <1>8, <1>10, <1>14, <2>1, <2>2
  <2>3. CASE m # n /\ m \notin gone
    BY <1>14, <2>1, <2>3
  <2> QED BY <2>2, <2>3
<1>17. Tree(LeavesOf(q, less), Elems(q.free), q.useCount, q.blocks)
  BY <1>8, <1>9, <1>12, <1>14
<1>18. /\ DOMAIN q.blocks \subseteq 1..MaxBlocks /\ \A b \in DOMAIN q.blocks : q.blocks[b] \in Nat
       /\ q.blocks = [b \in DOMAIN q.blocks |-> q.blocks[b]]
  BY <1>1, <1>12
<1> HIDE DEF less
<1>19. Stored(q, less)
  BY <1>12, <1>15, <1>16, <1>17, <1>18, Zenon DEF Stored
<1> QED BY <1>12, <1>19 DEF less

-----------------------------------------------------------------------------
(* alloc.                                                                   *)

\* What alloc gives: a node that is large enough, at a place of its own.
Given(p, q, at, size) ==
    /\ at \notin DOMAIN p.used /\ DOMAIN q.used = DOMAIN p.used \cup {at}
    /\ NodeSize(q.used[at]) >= size /\ \A x \in DOMAIN p.used : q.used[x] = p.used[x]

\* The parent of a node that is used again has one part more in use.
Parented(count, n) == IF IsRoot(n) THEN count ELSE [count EXCEPT ![Parent(n)] = @ + 1]

LEMMA RecountedIs ==
  ASSUME NEW p, NEW held, Stored(p, held), DOMAIN p.useCount = Ancestry(LeavesOf(p, held)),
         NEW n \in LeavesOf(p, held), NEW count, count = Parented(p.useCount, n)
  PROVE  /\ DOMAIN count = DOMAIN p.useCount /\ n \in DOMAIN count
         /\ \A a \in DOMAIN count :
               count[a] = p.useCount[a] + IF ~IsRoot(n) /\ a = Parent(n) THEN 1 ELSE 0
<1> DEFINE leaves == LeavesOf(p, held)
<1>1. Tree(leaves, Elems(p.free), p.useCount, p.blocks)
  BY DEF Stored
<1> HIDE DEF leaves
<1>2. /\ leaves \in SUBSET NodeSet /\ Leaves(leaves) /\ n \in leaves
      /\ DOMAIN p.useCount = Ancestry(leaves) /\ \A a \in DOMAIN p.useCount : p.useCount[a] \in Nat
  BY <1>1 DEF Tree, Counted, leaves
<1>3. n \in Ancestry(leaves) /\ n \in NodeSet /\ (~IsRoot(n) => Parent(n) \in Ancestry(leaves))
  BY <1>2, Family
<1>4. CASE IsRoot(n)
  BY <1>2, <1>3, <1>4 DEF Parented
<1>5. CASE ~IsRoot(n)
  BY <1>2, <1>3, <1>5 DEF Parented
<1> QED BY <1>4, <1>5

LEMMA TakenIs ==
  ASSUME NEW p, Fields(p), NEW free, NEW count
  PROVE  [p EXCEPT !.free = free, !.useCount = count]
         = [used |-> p.used, free |-> free, groups |-> p.groups, current |-> p.current,
            useCount |-> count, blocks |-> p.blocks, totalSize |-> p.totalSize]
<1> DEFINE q == [p EXCEPT !.free = free, !.useCount = count]
<1>1. q = [p EXCEPT !.free = free, !.useCount = count]
  OBVIOUS
<1> HIDE DEF q
<1>2. q = [used |-> p.used, free |-> free, groups |-> p.groups, current |-> p.current,
           useCount |-> count, blocks |-> p.blocks, totalSize |-> p.totalSize]
  BY <1>1 DEF Fields
<1> QED BY <1>2 DEF q

\* A free node is used, or a part of it.
LEMMA FromFreeIs ==
  ASSUME NEW p, NEW held, Stored(p, held), DOMAIN p.useCount = Ancestry(LeavesOf(p, held)),
         NEW size \in Nat, size > 0, LowerBound(p.free, size) # 0, NEW q, q = FromFree(p, size)
  PROVE  /\ Stored(q, held) /\ \E at : Given(p, q, at, size)
         /\ q.groups = p.groups /\ q.current = p.current /\ q.blocks = p.blocks
         /\ q.totalSize = p.totalSize
<1> DEFINE i == LowerBound(p.free, size)
           n == p.free[i]
           at == Pointer(n)
           part == SplitSize(size)
           rest == NodeSize(n) - part
           less == RemoveAt(p.free, i)
           count == Parented(p.useCount, n)
           taken == [p EXCEPT !.free = less, !.useCount = count]
           leaves == LeavesOf(p, held)
           free == Elems(p.free)
<1>1. /\ Fields(p) /\ UsedOK(p.used) /\ ListOK(p.free)
      /\ Range(p.used) \cap free = {} /\ held \cap (Range(p.used) \cup free) = {}
      /\ DOMAIN p.blocks \subseteq 1..MaxBlocks /\ \A b \in DOMAIN p.blocks : p.blocks[b] \in Nat
      /\ p.blocks = [b \in DOMAIN p.blocks |-> p.blocks[b]]
      /\ \A b \in DOMAIN p.blocks : \E m \in leaves : m.block = b
      /\ Tree(leaves, free, p.useCount, p.blocks)
  BY DEF Stored
<1>2. i \in 1..Len(p.free) /\ NodeSize(n) >= size
  BY <1>1, LowerBoundIs DEF ListOK
<1>3. ListOK(less) /\ Elems(less) = free \ {n} /\ n \in free /\ n \in NodeSet
  <2> HIDE DEF i
  <2> QED BY <1>1, <1>2, FreeLess
<1>4. taken = Recounted([p EXCEPT !.free = RemoveAt(@, i)], n)
  <2>1. CASE IsRoot(n)
    <3> HIDE DEF i
    <3>1. taken = [p EXCEPT !.free = less]
      BY <1>1, <2>1 DEF Fields, Parented
    <3> QED BY <2>1, <3>1 DEF Recounted
  <2>2. CASE ~IsRoot(n)
    <3> HIDE DEF i
    <3> QED BY <1>1, <2>2 DEF Recounted, Fields, Parented
  <2> QED BY <2>1, <2>2
<1>5. q = IF rest <= 0 THEN UsedAt(taken, at, n)
          ELSE [UsedAt(taken, at, Child(n, Extent(n).lo, part))
                  EXCEPT !.useCount[n] = @ + 1,
                         !.free = Insert(@, Child(n, Extent(n).lo + part, rest))]
  <2> HIDE DEF taken
  <2> QED BY <1>4 DEF FromFree
<1>6. n \in leaves /\ n \notin Range(p.used) /\ n \notin held
  BY <1>1, <1>3 DEF LeavesOf
<1>7. at \notin DOMAIN p.used
  <2> HIDE DEF n
  <2>1. NodeSize(n) > 0
    BY <1>2, <1>3, NodeFields
  <2> QED BY <1>6, <2>1, NotUsedAt
<1>8. /\ DOMAIN count = DOMAIN p.useCount /\ n \in DOMAIN count
      /\ \A a \in DOMAIN count :
            count[a] = p.useCount[a] + IF ~IsRoot(n) /\ a = Parent(n) THEN 1 ELSE 0
  <2> HIDE DEF n
  <2> QED BY <1>6, RecountedIs
<1>9. NodeSize(n) \in Nat /\ part \in Nat /\ part >= size /\ Extent(n).lo \in Nat /\ rest \in Int
  BY <1>3, NodeFields, SplitSizeIs
<1>10. taken = [used |-> p.used, free |-> less, groups |-> p.groups, current |-> p.current,
                useCount |-> count, blocks |-> p.blocks, totalSize |-> p.totalSize]
  <2> HIDE DEF less, count
  <2>1. Fields(p)
    BY <1>1
  <2> QED BY <2>1, TakenIs
<1> HIDE DEF i, n, at, part, less, count, taken
<1>11. CASE rest <= 0
  <2> DEFINE new == InsertNew(p.used, at, n)
  <2>1. /\ UsedOK(new) /\ DOMAIN new = DOMAIN p.used \cup {at} /\ new[at] = n
        /\ \A x \in DOMAIN p.used : new[x] = p.used[x]
        /\ Range(new) = Range(p.used) \cup {n}
    <3>1. NodeSize(n) > 0 /\ Pointer(n) \notin DOMAIN p.used /\ UsedOK(p.used)
      BY <1>1, <1>2, <1>7, <1>9 DEF at
    <3>2. new = InsertNew(p.used, Pointer(n), n)
      BY DEF at
    <3> HIDE DEF new
    <3>3. Pointer(n) = at
      BY DEF at
    <3> QED BY <1>3, <3>1, <3>2, <3>3, UsedMore DEF UsedToo
  <2>2. q = [taken EXCEPT !.used = new]
    BY <1>5, <1>10, <1>11 DEF UsedAt
  <2> HIDE DEF new
  <2>3. q = [used |-> new, free |-> less, groups |-> p.groups, current |-> p.current,
             useCount |-> count, blocks |-> p.blocks, totalSize |-> p.totalSize]
    BY <1>10, <2>2
  <2>4. /\ Fields(q) /\ q.used = new /\ q.free = less /\ q.groups = p.groups
        /\ q.current = p.current /\ q.useCount = count /\ q.blocks = p.blocks
        /\ q.totalSize = p.totalSize
    BY <2>3 DEF Fields
  <2>5. LeavesOf(q, held) = leaves
    BY <1>3, <2>1, <2>4 DEF LeavesOf
  <2>6. Tree(leaves, free \ {n}, count, p.blocks)
    <3> HIDE DEF leaves, free
    <3> QED BY <1>1, <1>3, <1>8, TreeTake
  <2>7. /\ Range(q.used) \cap Elems(q.free) = {} /\ held \cap (Range(q.used) \cup Elems(q.free)) = {}
        /\ UsedOK(q.used) /\ ListOK(q.free)
    BY <1>1, <1>3, <1>6, <2>1, <2>4
  <2>8. /\ Tree(LeavesOf(q, held), Elems(q.free), q.useCount, q.blocks)
        /\ \A b \in DOMAIN q.blocks : \E m \in LeavesOf(q, held) : m.block = b
    BY <1>1, <1>3, <2>4, <2>5, <2>6
  <2>9. Stored(q, held)
    BY <1>1, <2>4, <2>7, <2>8 DEF Stored
  <2>10. Given(p, q, at, size)
    BY <1>2, <1>7, <2>1, <2>4 DEF Given
  <2> QED BY <2>4, <2>9, <2>10
<1>12. CASE ~(rest <= 0)
  <2> DEFINE x == Child(n, Extent(n).lo, part)
             y == Child(n, Extent(n).lo + part, rest)
             new == InsertNew(p.used, at, x)
             more == Insert(less, y)
             count3 == [count EXCEPT ![n] = @ + 1]
  <2>1. rest \in Nat /\ Extent(n).lo + part \in Nat /\ rest = NodeSize(n) - part /\ part <= NodeSize(n) /\ part > 0
    BY <1>9, <1>12
  <2> HIDE DEF rest
  <2>2. /\ x \in NodeSet /\ x.block = n.block /\ Extent(x).lo = Extent(n).lo /\ NodeSize(x) = part
        /\ y \in NodeSet /\ y.block = n.block
    <3>1. IsPart(x, n, Extent(n).lo, part) /\ IsPart(y, n, Extent(n).lo + part, rest)
      BY <1>3, <1>9, <2>1, ChildIs
    <3> QED BY <3>1 DEF IsPart
  <2>3. /\ DOMAIN count3 = DOMAIN p.useCount
        /\ \A a \in DOMAIN p.useCount :
              count3[a] = p.useCount[a] + IF a = n \/ (~IsRoot(n) /\ a = Parent(n)) THEN 1 ELSE 0
    <3>1. \A a \in DOMAIN p.useCount : p.useCount[a] \in Nat
      BY <1>1 DEF Tree, Counted
    <3>2. ~IsRoot(n) => Parent(n) # n
      BY <1>3, ParentIs
    <3> QED BY <1>8, <3>1, <3>2
  <2>4. /\ x # y /\ x \notin Ancestry(leaves) /\ y \notin Ancestry(leaves)
        /\ Tree((leaves \ {n}) \cup {x, y}, (free \ {n}) \cup {y}, count3, p.blocks)
    <3>1. x = Child(n, Extent(n).lo, part) /\ y = Child(n, Extent(n).lo + part, NodeSize(n) - part)
      BY <2>1
    <3>2. DOMAIN p.useCount = Ancestry(leaves)
      OBVIOUS
    <3> HIDE DEF x, y, leaves, free, count3
    <3> QED BY <1>1, <1>3, <1>9, <2>1, <2>3, <3>1, <3>2, TreeSplit
  <2>5. Pointer(x) = at
    BY <2>2 DEF Pointer, at
  <2> HIDE DEF x
  <2>6. /\ UsedOK(new) /\ DOMAIN new = DOMAIN p.used \cup {at} /\ new[at] = x
        /\ \A z \in DOMAIN p.used : new[z] = p.used[z]
        /\ Range(new) = Range(p.used) \cup {x}
    <3>1. NodeSize(x) > 0 /\ Pointer(x) \notin DOMAIN p.used /\ UsedOK(p.used) /\ x \in NodeSet
      BY <1>1, <1>7, <2>1, <2>2, <2>5
    <3>2. new = InsertNew(p.used, Pointer(x), x)
      BY <2>5
    <3> HIDE DEF new
    <3> QED BY <2>5, <3>1, <3>2, UsedMore DEF UsedToo
  <2> HIDE DEF y
  <2>7. x \notin leaves /\ y \notin leaves
    <3>1. leaves \subseteq Ancestry(leaves)
      <4>1. leaves \in SUBSET NodeSet
        BY <1>1 DEF Tree
      <4> HIDE DEF leaves
      <4> QED BY <4>1, AncestryIs, UnderItself
    <3> QED BY <2>4, <3>1
  <2>8. ListOK(more) /\ Elems(more) = (free \ {n}) \cup {y}
    <3>1. y \notin Elems(less) /\ less \in Seq(NodeSet) /\ Once(less)
      BY <1>3, <2>7 DEF LeavesOf, ListOK
    <3> QED BY <1>3, <2>2, <3>1, InsertIs DEF ListOK
  <2>9. q = [[taken EXCEPT !.used = new] EXCEPT !.useCount[n] = @ + 1, !.free = Insert(@, y)]
    BY <1>5, <1>10, <1>12 DEF UsedAt, x, y, rest
  <2>10. q = [used |-> new, free |-> more, groups |-> p.groups, current |-> p.current,
              useCount |-> count3, blocks |-> p.blocks, totalSize |-> p.totalSize]
    <3> HIDE DEF new
    <3> QED BY <1>10, <2>9
  <2> HIDE DEF new, more, count3
  <2>11. /\ Fields(q) /\ q.used = new /\ q.free = more /\ q.groups = p.groups
         /\ q.current = p.current /\ q.useCount = count3 /\ q.blocks = p.blocks
         /\ q.totalSize = p.totalSize
    BY <2>10 DEF Fields
  <2>12. LeavesOf(q, held) = (leaves \ {n}) \cup {x, y}
    BY <1>1, <1>6, <2>6, <2>8, <2>11 DEF LeavesOf
  <2>13. /\ Range(q.used) \cap Elems(q.free) = {} /\ held \cap (Range(q.used) \cup Elems(q.free)) = {}
         /\ UsedOK(q.used) /\ ListOK(q.free)
    <3>1. x \notin free /\ x \notin held /\ y \notin Range(p.used) /\ y \notin held /\ x # y
      BY <2>4, <2>7 DEF LeavesOf
    <3> QED BY <1>1, <2>6, <2>8, <2>11, <3>1
  <2>14. \A b \in DOMAIN q.blocks : \E m \in LeavesOf(q, held) : m.block = b
    <3> TAKE b \in DOMAIN q.blocks
    <3>1. PICK m \in leaves : m.block = b
      BY <1>1, <2>11
    <3>2. CASE m = n
      BY <2>2, <2>12, <3>1, <3>2
    <3>3. CASE m # n
      BY <2>12, <3>1, <3>3
    <3> QED BY <3>2, <3>3
  <2>15. Tree(LeavesOf(q, held), Elems(q.free), q.useCount, q.blocks)
    BY <2>4, <2>8, <2>11, <2>12
  <2>16. Stored(q, held)
    BY <1>1, <2>11, <2>13, <2>14, <2>15 DEF Stored
  <2>17. Given(p, q, at, size)
    BY <1>7, <1>9, <2>2, <2>6, <2>11 DEF Given
  <2> QED BY <2>11, <2>16, <2>17
<1> QED BY <1>11, <1>12

LEMMA MaxOfTwo ==
  ASSUME NEW m \in Nat, NEW n \in Nat
  PROVE  Max({m, n}) = IF m > n THEN m ELSE n
<1> DEFINE Largest(x) == x \in {m, n} /\ \A y \in {m, n} : x >= y
<1>1. Max({m, n}) = CHOOSE x : Largest(x)
  BY DEF Max
<1>2. Largest(IF m > n THEN m ELSE n)
  OBVIOUS
<1>3. Largest(CHOOSE x : Largest(x))
  <2> HIDE DEF Largest
  <2> QED BY <1>2
<1> QED BY <1>1, <1>3

LEMMA MinOf ==
  ASSUME NEW S \in SUBSET Nat, S # {}
  PROVE  Min(S) \in S
<1> DEFINE Least(x) == x \in S /\ \A y \in S : x <= y
<1>1. Min(S) = CHOOSE x : Least(x)
  BY DEF Min
<1>2. \E x : Least(x)
  BY LeastNat
<1>3. Least(CHOOSE x : Least(x))
  <2> HIDE DEF Least
  <2> QED BY <1>2
<1> QED BY <1>1, <1>3

\* A leaf need not have a use count yet.
LEMMA TreeForget ==
  ASSUME NEW leaves, NEW free, NEW count, NEW sizes, NEW r \in leaves, r \notin DOMAIN count,
         Tree(leaves, free, Put(count, r, 0), sizes)
  PROVE  Tree(leaves, free, count, sizes)
<1> DEFINE count0 == Put(count, r, 0)
           A == Ancestry(leaves)
<1>1. DOMAIN count0 = DOMAIN count \cup {r} /\ \A a \in DOMAIN count : count0[a] = count[a]
  BY DEF Put
<1> HIDE DEF count0, A
<1>2. Counted(A, leaves, free, count0)
  BY DEF Tree, count0, A
<1>3. ASSUME NEW a \in A \ leaves PROVE a \in DOMAIN count /\ Halved(A, free, count, a)
  <2>1. a \in DOMAIN count0 /\ Halved(A, free, count0, a)
    BY <1>2 DEF Counted
  <2>2. a \in DOMAIN count /\ count[a] = count0[a]
    BY <1>1, <2>1
  <2> QED BY <2>1, <2>2 DEF Halved
<1>4. Counted(A, leaves, free, count)
  BY <1>1, <1>2, <1>3 DEF Counted
<1> QED BY <1>4 DEF Tree, A

\* Where a used node is.
LEMMA UsedBlock ==
  ASSUME NEW p, NEW held, Stored(p, held), NEW at \in DOMAIN p.used
  PROVE  at[1] = p.used[at].block /\ at[1] \in DOMAIN p.blocks
<1>1. Pointer(p.used[at]) = at /\ p.used[at] \in LeavesOf(p, held)
  BY DEF Stored, UsedOK, LeavesOf, Range
<1>2. Tree(LeavesOf(p, held), Elems(p.free), p.useCount, p.blocks)
  BY DEF Stored
<1>3. p.used[at] \in Ancestry(LeavesOf(p, held))
  BY <1>1, <1>2, AncestryIs, UnderItself DEF Tree
<1>4. p.used[at].block \in DOMAIN p.blocks
  BY <1>2, <1>3 DEF Tree, Based
<1> QED BY <1>1, <1>4 DEF Pointer

LEMMA GrownIs ==
  ASSUME NEW p, Fields(p), NEW blocks, NEW total
  PROVE  [p EXCEPT !.blocks = blocks, !.totalSize = total]
         = [used |-> p.used, free |-> p.free, groups |-> p.groups, current |-> p.current,
            useCount |-> p.useCount, blocks |-> blocks, totalSize |-> total]
<1> DEFINE q == [p EXCEPT !.blocks = blocks, !.totalSize = total]
<1>1. q = [p EXCEPT !.blocks = blocks, !.totalSize = total]
  OBVIOUS
<1> HIDE DEF q
<1>2. q = [used |-> p.used, free |-> p.free, groups |-> p.groups, current |-> p.current,
           useCount |-> p.useCount, blocks |-> blocks, totalSize |-> total]
  BY <1>1 DEF Fields
<1> QED BY <1>2 DEF q

\* The forms in which the steps of a tree are used below.
SplitInto(leaves, free, count, sizes, n, x, y) ==
    /\ x # y /\ x \notin Ancestry(leaves) /\ y \notin Ancestry(leaves)
    /\ Tree((leaves \ {n}) \cup {x, y}, (free \ {n}) \cup {y}, count, sizes)

LEMMA TreeSplits ==
  ASSUME NEW leaves, NEW free, NEW count, NEW sizes, Tree(leaves, free, count, sizes),
         DOMAIN count = Ancestry(leaves),
         NEW n \in free, NEW m \in Nat, m > 0, m <= NodeSize(n),
         NEW count2, DOMAIN count2 = DOMAIN count,
         \A a \in DOMAIN count : count2[a] = count[a] + IF a = n \/ (~IsRoot(n) /\ a = Parent(n)) THEN 1 ELSE 0
  PROVE  SplitInto(leaves, free, count2, sizes, n, Child(n, Extent(n).lo, m),
                   Child(n, Extent(n).lo + m, NodeSize(n) - m))
<1> DEFINE x == Child(n, Extent(n).lo, m)
           y == Child(n, Extent(n).lo + m, NodeSize(n) - m)
<1>1. x = Child(n, Extent(n).lo, m) /\ y = Child(n, Extent(n).lo + m, NodeSize(n) - m)
  OBVIOUS
<1> HIDE DEF x, y
<1>2. SplitInto(leaves, free, count2, sizes, n, x, y)
  BY <1>1, TreeSplit DEF SplitInto
<1> QED BY <1>1, <1>2

Joined(leaves, free, count, sizes, r, b, size) ==
    /\ r \notin Ancestry(leaves) /\ Ancestry(leaves \cup {r}) = Ancestry(leaves) \cup {r}
    /\ Tree(leaves \cup {r}, free, Put(count, r, 0), Put(sizes, b, size))
    /\ Tree(leaves \cup {r}, free \cup {r}, Put(count, r, 0), Put(sizes, b, size))

LEMMA TreeJoined ==
  ASSUME NEW leaves, NEW free, NEW count, NEW sizes, Tree(leaves, free, count, sizes),
         DOMAIN count = Ancestry(leaves),
         NEW b \in 1..MaxBlocks, b \notin DOMAIN sizes, NEW size \in Nat
  PROVE  Joined(leaves, free, count, sizes, Root(b, size), b, size)
<1> DEFINE r == Root(b, size)
           more == free \cup {r}
<1>1. r = Root(b, size) /\ more = free \cup {r}
  OBVIOUS
<1> HIDE DEF r, more
<1>2. /\ r \notin Ancestry(leaves) /\ Ancestry(leaves \cup {r}) = Ancestry(leaves) \cup {r}
      /\ Tree(leaves \cup {r}, free, Put(count, r, 0), Put(sizes, b, size))
  BY <1>1, TreeNew
<1>3. Tree(leaves \cup {r}, more, Put(count, r, 0), Put(sizes, b, size))
  BY <1>1, TreeNew
<1> QED BY <1>1, <1>2, <1>3 DEF Joined

\* A new block is used, or the first part of it.
LEMMA FromOutsideIs ==
  ASSUME NEW p, NEW held, Stored(p, held), DOMAIN p.useCount = Ancestry(LeavesOf(p, held)),
         NEW size \in Nat, size > 0, minAlloc \in MinAllocs, p.current # 0 => minAlloc = 0,
         NEW b \in 1..MaxBlocks, b \notin DOMAIN p.blocks, p.totalSize = Total(p.blocks),
         NEW q, q = FromOutside(p, b, size)
  PROVE  /\ Stored(q, held) /\ \E at : Given(p, q, at, size)
         /\ q.groups = p.groups /\ q.current = p.current /\ q.totalSize = Total(q.blocks)
<1> DEFINE allocSize == Max({minAlloc, size})
           root == Root(b, allocSize)
           at == Pointer(root)
           part == SplitSize(size)
           rest == allocSize - part
           sizes == Put(p.blocks, b, allocSize)
           total == p.totalSize + allocSize
           taken == [p EXCEPT !.blocks = sizes, !.totalSize = total]
           leaves == LeavesOf(p, held)
           free == Elems(p.free)
<1>1. /\ Fields(p) /\ UsedOK(p.used) /\ ListOK(p.free)
      /\ Range(p.used) \cap free = {} /\ held \cap (Range(p.used) \cup free) = {}
      /\ DOMAIN p.blocks \subseteq 1..MaxBlocks /\ \A c \in DOMAIN p.blocks : p.blocks[c] \in Nat
      /\ p.blocks = [c \in DOMAIN p.blocks |-> p.blocks[c]]
      /\ \A c \in DOMAIN p.blocks : \E m \in leaves : m.block = c
      /\ Tree(leaves, free, p.useCount, p.blocks)
  BY DEF Stored
<1>2. minAlloc \in Nat /\ minAlloc % Align = 0
  BY EagerAssumption
<1>3. allocSize = (IF minAlloc > size THEN minAlloc ELSE size) /\ allocSize \in Nat
  BY <1>2, MaxOfTwo
<1>4. part \in Nat /\ part >= size /\ (minAlloc > size => part <= minAlloc)
  BY <1>2, SplitSizeIs
<1> HIDE DEF allocSize, part
<1>5. /\ root \in NodeSet /\ root.block = b /\ Extent(root).lo = 0 /\ NodeSize(root) = allocSize
      /\ at = <<b, 0>>
  <2>1. /\ root \in NodeSet /\ root.block = b /\ Extent(root) = [lo |-> 0, size |-> allocSize]
        /\ NodeSize(root) = allocSize
    BY <1>3, RootIs
  <2>2. at = <<b, 0>>
    BY <1>3, RootIs
  <2> HIDE DEF root
  <2> QED BY <2>1, <2>2
<1>6. at \notin DOMAIN p.used
  BY <1>5, UsedBlock
<1>7. q = IF allocSize = size THEN [taken EXCEPT !.used = Put(@, at, root)]
          ELSE IntoCurrent([UsedAt(taken, at, Child(root, 0, part)) EXCEPT !.useCount = Put(@, root, 1)],
                           Child(root, part, rest))
  BY DEF FromOutside, allocSize, part
<1> HIDE DEF root, at
<1>8. /\ DOMAIN sizes = DOMAIN p.blocks \cup {b} /\ DOMAIN sizes \subseteq 1..MaxBlocks
      /\ \A c \in DOMAIN sizes : sizes[c] \in Nat
      /\ sizes = [c \in DOMAIN sizes |-> sizes[c]] /\ total = Total(sizes)
  <2>1. /\ Total(p.blocks) \in Nat /\ Total(sizes) = Total(p.blocks) + allocSize
        /\ DOMAIN sizes = DOMAIN p.blocks \cup {b} /\ \A c \in DOMAIN sizes : sizes[c] \in Nat
    <3>1. b \in 1..MaxBlocks /\ b \notin DOMAIN p.blocks /\ \A c \in DOMAIN p.blocks : p.blocks[c] \in Nat
      BY <1>1
    <3>2. TotalsBy(Put(p.blocks, b, allocSize), p.blocks, b, allocSize)
      BY <1>3, <3>1, TotalAdd
    <3> QED BY <3>2 DEF TotalsBy
  <2>2. sizes = [c \in DOMAIN sizes |-> sizes[c]]
    BY DEF Put
  <2> QED BY <1>1, <2>1, <2>2
<1> HIDE DEF sizes, total
<1>9. taken = [used |-> p.used, free |-> p.free, groups |-> p.groups, current |-> p.current,
               useCount |-> p.useCount, blocks |-> sizes, totalSize |-> total]
  <2>1. Fields(p)
    BY <1>1
  <2> QED BY <2>1, GrownIs
<1> HIDE DEF taken
<1>10. ASSUME NEW free2, free2 = free \/ free2 = free \cup {root}
       PROVE  /\ root \notin Ancestry(leaves) /\ Ancestry(leaves \cup {root}) = Ancestry(leaves) \cup {root}
              /\ Tree(leaves \cup {root}, free2, Put(p.useCount, root, 0), sizes)
  <2>1. DOMAIN p.useCount = Ancestry(leaves) /\ Tree(leaves, free, p.useCount, p.blocks)
    BY <1>1
  <2>2. root = Root(b, allocSize) /\ sizes = Put(p.blocks, b, allocSize)
    BY DEF root, sizes
  <2> HIDE DEF leaves, free
  <2>3. Joined(leaves, free, p.useCount, p.blocks, Root(b, allocSize), b, allocSize)
    BY <1>3, <2>1, TreeJoined
  <2> QED BY <1>10, <2>2, <2>3 DEF Joined
<1>11. root \notin leaves /\ leaves \subseteq Ancestry(leaves)
  <2>1. leaves \in SUBSET NodeSet
    BY <1>1 DEF Tree
  <2>2. root \notin Ancestry(leaves)
    BY <1>10
  <2> HIDE DEF leaves
  <2> QED BY <2>1, <2>2, AncestryIs, UnderItself
<1>12. CASE allocSize = size
  <2> DEFINE new == Put(p.used, at, root)
  <2>1. /\ UsedOK(new) /\ DOMAIN new = DOMAIN p.used \cup {at} /\ new[at] = root
        /\ \A x \in DOMAIN p.used : new[x] = p.used[x]
        /\ Range(new) = Range(p.used) \cup {root}
    <3>1. NodeSize(root) > 0 /\ Pointer(root) \notin DOMAIN p.used /\ UsedOK(p.used)
      BY <1>1, <1>5, <1>6, <1>12 DEF at
    <3>2. new = Put(p.used, Pointer(root), root) /\ Pointer(root) = at
      BY DEF at
    <3> HIDE DEF new
    <3> QED BY <1>5, <3>1, <3>2, UsedMore DEF UsedToo
  <2>2. q = [taken EXCEPT !.used = new]
    BY <1>7, <1>9, <1>12
  <2> HIDE DEF new
  <2>3. q = [used |-> new, free |-> p.free, groups |-> p.groups, current |-> p.current,
             useCount |-> p.useCount, blocks |-> sizes, totalSize |-> total]
    BY <1>9, <2>2
  <2>4. /\ Fields(q) /\ q.used = new /\ q.free = p.free /\ q.groups = p.groups
        /\ q.current = p.current /\ q.useCount = p.useCount /\ q.blocks = sizes
        /\ q.totalSize = total
    BY <2>3 DEF Fields
  <2>5. LeavesOf(q, held) = leaves \cup {root}
    BY <2>1, <2>4 DEF LeavesOf
  <2>6. Tree(leaves \cup {root}, free, p.useCount, sizes)
    <3>1. Tree(leaves \cup {root}, free, Put(p.useCount, root, 0), sizes) /\ root \notin DOMAIN p.useCount
      BY <1>10
    <3> DEFINE more == leaves \cup {root}
    <3>2. root \in more
      OBVIOUS
    <3> HIDE DEF more
    <3> QED BY <3>1, <3>2, TreeForget DEF more
  <2>7. /\ Range(q.used) \cap Elems(q.free) = {} /\ held \cap (Range(q.used) \cup Elems(q.free)) = {}
        /\ UsedOK(q.used) /\ ListOK(q.free)
    <3>1. root \notin free /\ root \notin held
      BY <1>11 DEF LeavesOf
    <3> QED BY <1>1, <2>1, <2>4, <3>1
  <2>8. /\ Tree(LeavesOf(q, held), Elems(q.free), q.useCount, q.blocks)
        /\ \A c \in DOMAIN q.blocks : \E m \in LeavesOf(q, held) : m.block = c
    BY <1>1, <1>5, <1>8, <2>4, <2>5, <2>6
  <2>9. Stored(q, held)
    BY <1>8, <2>4, <2>7, <2>8 DEF Stored
  <2>10. Given(p, q, at, size)
    BY <1>5, <1>6, <1>12, <2>1, <2>4 DEF Given
  <2> QED BY <1>8, <2>4, <2>9, <2>10
<1>13. CASE allocSize # size
  <2> DEFINE x == Child(root, 0, part)
             y == Child(root, part, rest)
             new == InsertNew(p.used, at, x)
             more == Insert(p.free, y)
             count == Put(p.useCount, root, 1)
  <2>1. rest \in Nat /\ rest = allocSize - part /\ part <= allocSize /\ part > 0 /\ p.current = 0
    BY <1>2, <1>3, <1>4, <1>13
  <2> HIDE DEF rest
  <2>2. /\ x \in NodeSet /\ x.block = b /\ Extent(x).lo = 0 /\ NodeSize(x) = part
        /\ Pointer(x) = at /\ y \in NodeSet /\ y.block = b
    <3>1. IsPart(x, root, 0, part) /\ IsPart(y, root, part, rest)
      BY <1>4, <1>5, <2>1, ChildIs
    <3> QED BY <1>5, <3>1 DEF IsPart
  <2>3. /\ x # y /\ x \notin leaves /\ y \notin leaves
        /\ Tree(leaves \cup {x, y}, free \cup {y}, count, sizes)
    <3> DEFINE all == leaves \cup {root}
               free2 == free \cup {root}
               count0 == Put(p.useCount, root, 0)
    <3>1. Tree(all, free2, count0, sizes) /\ Ancestry(all) = Ancestry(leaves) \cup {root}
      BY <1>10
    <3>2. DOMAIN count0 = Ancestry(leaves) \cup {root} /\ DOMAIN count = DOMAIN count0
      BY DEF Put
    <3>3. root \notin DOMAIN p.useCount /\ \A a \in DOMAIN p.useCount : p.useCount[a] \in Nat
      BY <1>1, <1>10 DEF Tree, Counted
    <3>4. \A a \in DOMAIN count0 :
             count[a] = count0[a] + IF a = root \/ (~IsRoot(root) /\ a = Parent(root)) THEN 1 ELSE 0
      <4>1. IsRoot(root)
        BY <1>3, RootIs DEF root
      <4> QED BY <3>2, <3>3, <4>1 DEF Put
    <3>5. x = Child(root, Extent(root).lo, part) /\ y = Child(root, Extent(root).lo + part, NodeSize(root) - part)
      <4>1. Extent(root).lo + part = part
        BY <1>4, <1>5
      <4> QED BY <1>5, <2>1, <4>1
    <3>6. root \in free2
      OBVIOUS
    <3>7. all \ {root} = leaves /\ free2 \ {root} = free
      BY <1>11 DEF LeavesOf
    <3> HIDE DEF all, free2, count0, count, x, y
    <3>8. /\ x # y /\ x \notin Ancestry(all) /\ y \notin Ancestry(all)
          /\ Tree((all \ {root}) \cup {x, y}, (free2 \ {root}) \cup {y}, count, sizes)
      <4>1. part \in Nat /\ part > 0 /\ part <= NodeSize(root) /\ DOMAIN count0 = Ancestry(all)
        BY <1>4, <1>5, <2>1, <3>1, <3>2
      <4>2. SplitInto(all, free2, count, sizes, root, Child(root, Extent(root).lo, part),
                      Child(root, Extent(root).lo + part, NodeSize(root) - part))
        BY <3>1, <3>2, <3>4, <3>6, <4>1, TreeSplits
      <4> QED BY <3>5, <4>2 DEF SplitInto
    <3> QED BY <1>11, <3>1, <3>7, <3>8
  <2> HIDE DEF x
  <2>4. /\ UsedOK(new) /\ DOMAIN new = DOMAIN p.used \cup {at} /\ new[at] = x
        /\ \A z \in DOMAIN p.used : new[z] = p.used[z]
        /\ Range(new) = Range(p.used) \cup {x}
    <3>1. NodeSize(x) > 0 /\ Pointer(x) \notin DOMAIN p.used /\ UsedOK(p.used) /\ x \in NodeSet
      BY <1>1, <1>6, <2>1, <2>2
    <3>2. new = InsertNew(p.used, Pointer(x), x)
      BY <2>2
    <3> HIDE DEF new
    <3> QED BY SMTT(30), <2>2, <3>1, <3>2, UsedMore DEF UsedToo
  <2> HIDE DEF y
  <2>5. ListOK(more) /\ Elems(more) = free \cup {y}
    <3>1. y \notin free /\ p.free \in Seq(NodeSet) /\ Once(p.free)
      BY <1>1, <2>3 DEF LeavesOf, ListOK
    <3> QED BY <2>2, <3>1, InsertIs DEF ListOK
  <2>6. q = [[[taken EXCEPT !.used = new] EXCEPT !.useCount = count] EXCEPT !.free = Insert(@, y)]
    <3>1. UsedAt(taken, at, x) = [taken EXCEPT !.used = new]
      BY <1>9 DEF UsedAt
    <3> DEFINE base == [[taken EXCEPT !.used = new] EXCEPT !.useCount = count]
    <3>2. q = IntoCurrent(base, y)
      BY <1>7, <1>9, <1>13, <3>1 DEF x, y, rest
    <3>3. base.current = 0
      <4> HIDE DEF new, count
      <4> QED BY <1>9, <2>1
    <3> HIDE DEF base
    <3>4. q = [base EXCEPT !.free = Insert(@, y)]
      BY <3>2, <3>3 DEF IntoCurrent
    <3> QED BY <3>4 DEF base
  <2> HIDE DEF new, count
  <2>7. q = [used |-> new, free |-> more, groups |-> p.groups, current |-> p.current,
             useCount |-> count, blocks |-> sizes, totalSize |-> total]
    BY <1>9, <2>6
  <2> HIDE DEF more
  <2>8. /\ Fields(q) /\ q.used = new /\ q.free = more /\ q.groups = p.groups
        /\ q.current = p.current /\ q.useCount = count /\ q.blocks = sizes
        /\ q.totalSize = total
    BY <2>7 DEF Fields
  <2>9. LeavesOf(q, held) = leaves \cup {x, y}
    BY <2>4, <2>5, <2>8 DEF LeavesOf
  <2>10. /\ Range(q.used) \cap Elems(q.free) = {} /\ held \cap (Range(q.used) \cup Elems(q.free)) = {}
         /\ UsedOK(q.used) /\ ListOK(q.free)
    <3>1. x \notin free /\ x \notin held /\ y \notin Range(p.used) /\ y \notin held /\ x # y
      BY <2>3 DEF LeavesOf
    <3> QED BY <1>1, <2>4, <2>5, <2>8, <3>1
  <2>11. /\ Tree(LeavesOf(q, held), Elems(q.free), q.useCount, q.blocks)
         /\ \A c \in DOMAIN q.blocks : \E m \in LeavesOf(q, held) : m.block = c
    BY <1>1, <1>8, <2>2, <2>3, <2>5, <2>8, <2>9
  <2>12. Stored(q, held)
    BY <1>8, <2>8, <2>10, <2>11 DEF Stored
  <2>13. Given(p, q, at, size)
    BY <1>4, <1>6, <2>2, <2>4, <2>8 DEF Given
  <2> QED BY <1>8, <2>8, <2>12, <2>13
<1> QED BY <1>12, <1>13

\* What alloc leaves behind.
Alloced(p, q, at, size) ==
    /\ Stored(q, Held(q.groups)) /\ GroupsOK(q.groups) /\ q.totalSize = Total(q.blocks)
    /\ q.current = p.current /\ Len(q.groups) = Len(p.groups) /\ Given(p, q, at, size)
    /\ \A g \in 1..Len(p.groups) :
          /\ g # p.current => q.groups[g] = p.groups[g]
          /\ Elems(p.groups[g]) \subseteq Elems(q.groups[g]) \cup {q.used[at]}

LEMMA GroupedIs ==
  ASSUME NEW p, Fields(p), NEW groups
  PROVE  [p EXCEPT !.groups = groups]
         = [used |-> p.used, free |-> p.free, groups |-> groups, current |-> p.current,
            useCount |-> p.useCount, blocks |-> p.blocks, totalSize |-> p.totalSize]
<1> DEFINE q == [p EXCEPT !.groups = groups]
<1>1. q = [p EXCEPT !.groups = groups]
  OBVIOUS
<1> HIDE DEF q
<1>2. q = [used |-> p.used, free |-> p.free, groups |-> groups, current |-> p.current,
           useCount |-> p.useCount, blocks |-> p.blocks, totalSize |-> p.totalSize]
  BY <1>1 DEF Fields
<1> QED BY <1>2 DEF q

LEMMA StoredGrouped ==
  ASSUME NEW p, NEW held, Stored(p, held), NEW groups
  PROVE  Regrouped([p EXCEPT !.groups = groups], p, held, groups, p.current)
<1> DEFINE q == [p EXCEPT !.groups = groups]
<1>1. Fields(p)
  BY DEF Stored
<1>2. q = [used |-> p.used, free |-> p.free, groups |-> groups, current |-> p.current,
           useCount |-> p.useCount, blocks |-> p.blocks, totalSize |-> p.totalSize]
  BY <1>1, GroupedIs
<1> DEFINE r == [p EXCEPT !.groups = groups, !.current = p.current]
<1>3. r = [p EXCEPT !.groups = groups, !.current = p.current]
  OBVIOUS
<1> HIDE DEF r
<1> HIDE DEF q
<1>4. q = r
  BY <1>1, <1>2, <1>3 DEF Fields
<1>5. Regrouped(r, p, held, groups, p.current)
  BY StoredRegrouped DEF r
<1> QED BY <1>4, <1>5 DEF q

\* What using a node of a group leaves.
UsedUp(q, p, held, n) ==
    /\ Stored(q, held \ {n}) /\ Pointer(n) \notin DOMAIN p.used
    /\ DOMAIN q.used = DOMAIN p.used \cup {Pointer(n)} /\ q.used[Pointer(n)] = n
    /\ \A x \in DOMAIN p.used : q.used[x] = p.used[x]
    /\ q.free = p.free /\ q.groups = p.groups /\ q.current = p.current
    /\ q.useCount = p.useCount /\ q.blocks = p.blocks /\ q.totalSize = p.totalSize

LEMMA StoredUsedUp ==
  ASSUME NEW p, NEW held, Stored(p, held), NEW n \in held, NodeSize(n) > 0
  PROVE  UsedUp(UsedAt(p, Pointer(n), n), p, held, n)
<1> DEFINE q == UsedAt(p, Pointer(n), n)
<1>1. q = UsedAt(p, Pointer(n), n)
  OBVIOUS
<1> HIDE DEF q
<1>2. UsedUp(q, p, held, n)
  BY <1>1, StoredUse DEF UsedUp
<1> QED BY <1>2 DEF q

\* A node of the group is used as it is.
LEMMA FromGroupIs ==
  ASSUME NEW p, Stored(p, Held(p.groups)), GroupsOK(p.groups), p.totalSize = Total(p.blocks),
         p.current \in 1..Len(p.groups), NEW size \in Nat, size > 0,
         LowerBound(p.groups[p.current], size) # 0, NEW q, q = FromGroup(p, size)
  PROVE  \E at : Alloced(p, q, at, size)
<1> DEFINE g == p.current
           i == LowerBound(p.groups[g], size)
           n == p.groups[g][i]
           groups == [p.groups EXCEPT ![g] = RemoveAt(p.groups[g], i)]
           r == [p EXCEPT !.groups = groups]
           held == Held(p.groups)
           at == Pointer(n)
<1>1. g \in 1..Len(p.groups) /\ i \in 1..Len(p.groups[g]) /\ NodeSize(n) >= size
  <2>1. g \in 1..Len(p.groups) /\ p.groups[g] \in Seq(NodeSet)
    BY DEF GroupsOK, ListOK
  <2> QED BY <2>1, LowerBoundIs
<1>2. q = UsedAt(r, at, n)
  <2>1. r = [p EXCEPT !.groups[p.current] = RemoveAt(@, i)]
    <3>1. Fields(p)
      BY DEF Stored
    <3> HIDE DEF i
    <3> QED BY <3>1 DEF Fields
  <2> HIDE DEF r
  <2> QED BY <2>1 DEF FromGroup
<1> HIDE DEF i
<1>3. /\ GroupsOK(groups) /\ Len(groups) = Len(p.groups) /\ Held(groups) = held \ {n}
      /\ n \in held /\ n \in NodeSet /\ Elems(groups[g]) = Elems(p.groups[g]) \ {n}
      /\ \A h \in 1..Len(p.groups) : h # g => groups[h] = p.groups[h]
  <2>1. n = p.groups[g][i] /\ groups = [p.groups EXCEPT ![g] = RemoveAt(p.groups[g], i)]
    OBVIOUS
  <2>2. LostBy(groups, p.groups, g, n)
    BY <1>1, GroupLess
  <2> HIDE DEF n, groups, g
  <2> QED BY <2>2 DEF LostBy
<1> HIDE DEF n, groups
<1>4. /\ Stored(r, held) /\ r.used = p.used /\ r.free = p.free /\ r.groups = groups
      /\ r.current = p.current /\ r.useCount = p.useCount /\ r.blocks = p.blocks
      /\ r.totalSize = p.totalSize
  BY StoredGrouped DEF Regrouped
<1>5. NodeSize(n) > 0
  BY <1>1, <1>3, NodeFields
<1> HIDE DEF r
<1>6. /\ Stored(q, held \ {n}) /\ at \notin DOMAIN r.used
      /\ DOMAIN q.used = DOMAIN r.used \cup {at} /\ q.used[at] = n
      /\ \A x \in DOMAIN r.used : q.used[x] = r.used[x]
      /\ q.free = r.free /\ q.groups = r.groups /\ q.current = r.current
      /\ q.useCount = r.useCount /\ q.blocks = r.blocks /\ q.totalSize = r.totalSize
  <2>1. Stored(r, held) /\ n \in held
    BY <1>3, <1>4
  <2> HIDE DEF held
  <2>2. UsedUp(UsedAt(r, Pointer(n), n), r, held, n)
    BY <1>5, <2>1, StoredUsedUp
  <2>3. UsedUp(q, r, held, n)
    BY <1>2, <2>2
  <2> QED BY <2>3 DEF UsedUp
<1> HIDE DEF at
<1>7. Given(p, q, at, size)
  BY <1>1, <1>4, <1>6 DEF Given
<1>8. \A h \in 1..Len(p.groups) :
          /\ h # p.current => q.groups[h] = p.groups[h]
          /\ Elems(p.groups[h]) \subseteq Elems(q.groups[h]) \cup {q.used[at]}
  BY <1>3, <1>4, <1>6
<1>9. Stored(q, Held(q.groups)) /\ GroupsOK(q.groups) /\ Len(q.groups) = Len(p.groups)
  BY <1>3, <1>4, <1>6
<1>10. q.totalSize = Total(q.blocks) /\ q.current = p.current
  BY <1>4, <1>6
<1> QED BY <1>7, <1>8, <1>9, <1>10 DEF Alloced

\* Whatever alloc decides.
LEMMA AllocsAre ==
  ASSUME NEW p, Stored(p, Held(p.groups)), GroupsOK(p.groups), p.totalSize = Total(p.blocks),
         DOMAIN p.useCount = Ancestry(LeavesOf(p, Held(p.groups))),
         p.current \in 0..Len(p.groups), p.current # 0 => minAlloc = 0, minAlloc \in MinAllocs,
         NEW size \in Requests, NEW separate, NEW q \in Allocs(p, size, separate)
  PROVE  \E at : Alloced(p, q, at, size)
<1> DEFINE held == Held(p.groups)
<1>1. size \in Nat /\ size > 0
  BY EagerAssumption
<1>2. DOMAIN p.blocks \subseteq 1..MaxBlocks
  BY DEF Stored
<1> DEFINE blocks == 1..MaxBlocks \ DOMAIN p.blocks
<1>3. \/ ServesGroup(p, size) /\ q = FromGroup(p, size)
      \/ ServesFree(p, size) /\ q = FromFree(p, size)
      \/ blocks # {} /\ q = FromOutside(p, Min(blocks), size)
  BY DEF Allocs
<1>4. ASSUME NEW at, Stored(q, held), Given(p, q, at, size), q.groups = p.groups, q.current = p.current,
             q.totalSize = Total(q.blocks)
      PROVE  Alloced(p, q, at, size)
  BY <1>4 DEF Alloced
<1>5. CASE ServesGroup(p, size) /\ q = FromGroup(p, size)
  <2>1. Len(p.groups) \in Nat
    <3>1. p.groups \in Seq(Seq(NodeSet))
      BY DEF GroupsOK
    <3> QED BY <3>1
  <2>2. p.current \in 1..Len(p.groups)
    BY <1>5, <2>1 DEF ServesGroup
  <2> QED BY <1>1, <1>5, <2>2, FromGroupIs DEF ServesGroup
<1>6. CASE ServesFree(p, size) /\ q = FromFree(p, size)
  <2> HIDE DEF held
  <2>1. Stored(p, held) /\ DOMAIN p.useCount = Ancestry(LeavesOf(p, held))
    BY DEF held
  <2>2. /\ Stored(q, held) /\ \E at : Given(p, q, at, size)
        /\ q.groups = p.groups /\ q.current = p.current /\ q.blocks = p.blocks
        /\ q.totalSize = p.totalSize
    BY <1>1, <1>6, <2>1, FromFreeIs DEF ServesFree
  <2> QED BY <1>4, <2>2
<1>7. CASE blocks # {} /\ q = FromOutside(p, Min(blocks), size)
  <2> DEFINE b == Min(blocks)
  <2>1. b \in 1..MaxBlocks /\ b \notin DOMAIN p.blocks
    <3>1. blocks \in SUBSET Nat
      BY EagerAssumption
    <3>2. b \in blocks
      <4> HIDE DEF blocks
      <4> QED BY <1>7, <3>1, MinOf
    <3> QED BY <3>2
  <2>2. q = FromOutside(p, b, size)
    BY <1>7
  <2> HIDE DEF b, held
  <2>3. Stored(p, held) /\ DOMAIN p.useCount = Ancestry(LeavesOf(p, held))
    BY DEF held
  <2>4. /\ Stored(q, held) /\ \E at : Given(p, q, at, size)
        /\ q.groups = p.groups /\ q.current = p.current /\ q.totalSize = Total(q.blocks)
    BY <1>1, <2>1, <2>2, <2>3, FromOutsideIs
  <2> QED BY <1>4, <2>4
<1> QED BY <1>3, <1>5, <1>6, <1>7

-----------------------------------------------------------------------------
(* free.                                                                    *)

\* What free leaves behind: inside a group the memory is the group's.
FreedOf(q, p, at) ==
    /\ Stored(q, Held(q.groups)) /\ GroupsOK(q.groups)
    /\ q.current = p.current /\ Len(q.groups) = Len(p.groups)
    /\ q.blocks = p.blocks /\ q.totalSize = p.totalSize
    /\ DOMAIN q.used = DOMAIN p.used \ {at} /\ \A x \in DOMAIN q.used : q.used[x] = p.used[x]
    /\ \A g \in 1..Len(p.groups) :
          /\ Elems(p.groups[g]) \subseteq Elems(q.groups[g])
          /\ g = p.current => p.used[at] \in Elems(q.groups[g])

LEMMA FreedIs ==
  ASSUME NEW p, Stored(p, Held(p.groups)), GroupsOK(p.groups), p.current \in 0..Len(p.groups),
         NEW at \in DOMAIN p.used
  PROVE  FreedOf(FreedIn(Without(p, at), p.used[at]), p, at)
<1> DEFINE n == p.used[at]
           r == Without(p, at)
           q == FreedIn(r, n)
           held == Held(p.groups)
<1>1. Unused(r, p, held, at, n)
  BY StoredUnuse
<1>2. q = FreedIn(r, n)
  OBVIOUS
<1> HIDE DEF n, r, q
<1> DEFINE more == held \cup {n}
<1>3. /\ Stored(r, more) /\ n \in NodeSet /\ n \notin held
      /\ DOMAIN r.used = DOMAIN p.used \ {at} /\ \A x \in DOMAIN r.used : r.used[x] = p.used[x]
      /\ r.groups = p.groups /\ r.current = p.current
      /\ r.blocks = p.blocks /\ r.totalSize = p.totalSize
  BY <1>1 DEF Unused
<1>4. CASE p.current = 0
  <2>1. q = ReturnMemory(r, n)
    BY <1>2, <1>3, <1>4 DEF FreedIn
  <2>2. n \in more /\ more \ {n} = held
    BY <1>3
  <2> HIDE DEF more, held
  <2>3. /\ Stored(q, more \ {n}) /\ q.used = r.used /\ q.groups = r.groups /\ q.current = r.current
        /\ q.blocks = r.blocks /\ q.totalSize = r.totalSize
    BY SMTT(30), <1>3, <2>1, <2>2, ReturnIs
  <2>4. q.groups = p.groups /\ GroupsOK(q.groups) /\ Stored(q, Held(q.groups))
    BY <1>3, <2>2, <2>3 DEF held
  <2>5. \A g \in 1..Len(p.groups) : g # p.current
    BY <1>4
  <2> QED BY <1>3, <2>3, <2>4, <2>5 DEF FreedOf, q, r, n
<1>5. CASE p.current # 0
  <2> DEFINE g == p.current
             groups == [p.groups EXCEPT ![g] = Insert(p.groups[g], n)]
  <2>1. g \in 1..Len(p.groups)
    <3>1. p.groups \in Seq(Seq(NodeSet))
      BY DEF GroupsOK
    <3>2. Len(p.groups) \in Nat
      BY <3>1
    <3> QED BY <1>5, <3>2
  <2>2. GainedBy(groups, p.groups, g, n)
    BY <1>3, <2>1, GroupMore
  <2>3. q = [r EXCEPT !.groups = groups]
    <3>1. q = [r EXCEPT !.groups[r.current] = Insert(@, n)]
      BY <1>2, <1>3, <1>5 DEF FreedIn, IntoCurrent
    <3>2. Fields(r)
      BY <1>3 DEF Stored
    <3> QED BY <1>3, <3>1, <3>2 DEF Fields
  <2> HIDE DEF groups
  <2>4. Regrouped([r EXCEPT !.groups = groups], r, more, groups, r.current)
    <3> HIDE DEF more
    <3> QED BY <1>3, StoredGrouped
  <2>5. /\ Stored(q, more) /\ q.used = r.used /\ q.groups = groups /\ q.current = r.current
        /\ q.blocks = r.blocks /\ q.totalSize = r.totalSize
    BY <2>3, <2>4 DEF Regrouped
  <2>6. /\ GroupsOK(groups) /\ Len(groups) = Len(p.groups) /\ Held(groups) = more
        /\ Elems(groups[g]) = Elems(p.groups[g]) \cup {n}
        /\ \A h \in 1..Len(p.groups) : h # g => groups[h] = p.groups[h]
    BY <2>2 DEF GainedBy
  <2>7. \A h \in 1..Len(p.groups) :
           /\ Elems(p.groups[h]) \subseteq Elems(q.groups[h])
           /\ h = p.current => n \in Elems(q.groups[h])
    BY <2>5, <2>6
  <2>8. Stored(q, Held(q.groups)) /\ GroupsOK(q.groups)
    BY <2>5, <2>6
  <2> HIDE DEF more, g
  <2> QED BY <1>3, <2>5, <2>6, <2>7, <2>8 DEF FreedOf, q, r, n
<1> QED BY <1>4, <1>5

-----------------------------------------------------------------------------
(* barrierEnd.                                                              *)

\* What returning some of the nodes that were held leaves.
ReturnedOf(q, p, held) ==
    /\ Stored(q, held) /\ q.used = p.used /\ q.groups = p.groups /\ q.current = p.current
    /\ q.blocks = p.blocks /\ q.totalSize = p.totalSize

LEMMA StoredReturn ==
  ASSUME NEW p, NEW held, Stored(p, held), NEW n \in held
  PROVE  ReturnedOf(ReturnMemory(p, n), p, held \ {n})
<1> DEFINE q == ReturnMemory(p, n)
<1>1. q = ReturnMemory(p, n)
  OBVIOUS
<1> HIDE DEF q
<1>2. ReturnedOf(q, p, held \ {n})
  BY <1>1, ReturnIs DEF ReturnedOf
<1> QED BY <1>2 DEF q

\* The definitions of ReturnGroup and ReturnGroups have solutions.
Returning(A, p, q) ==
    /\ A[0] = p /\ ReturnGroup(p, q) = A[Len(q)]
    /\ \A i \in 1..Len(q) : A[i] = ReturnMemory(A[i - 1], q[i])

LEMMA ReturnGroupSteps ==
  ASSUME NEW p, NEW q \in Seq(NodeSet)
  PROVE  \E A : Returning(A, p, q)
<1> DEFINE F(f, k) == [i \in 0..k |-> IF i = 0 THEN p ELSE ReturnMemory(f[i - 1], q[i])]
           S == {k \in Nat : \E f : f = F(f, k)}
<1>1. 0 \in S
  <2> DEFINE f == [i \in 0..0 |-> p]
  <2>1. \A i \in 0..0 : i = 0
    OBVIOUS
  <2>2. f = F(f, 0)
    BY <2>1
  <2> QED BY <2>2
<1>2. ASSUME NEW k \in 1..Len(q), k - 1 \in S PROVE k \in S
  <2>1. k \in Nat /\ k # 0
    OBVIOUS
  <2>2. PICK f : f = F(f, k - 1)
    BY <1>2
  <2> DEFINE g == [i \in 0..k |-> IF i < k THEN f[i] ELSE ReturnMemory(f[k - 1], q[k])]
  <2>3. ASSUME NEW i \in 0..k PROVE g[i] = IF i = 0 THEN p ELSE ReturnMemory(g[i - 1], q[i])
    <3>1. CASE i = k
      <4>1. g[i] = ReturnMemory(f[k - 1], q[k])
        BY <2>1, <3>1
      <4>2. g[i - 1] = f[k - 1]
        BY <2>1, <3>1
      <4> QED BY <2>1, <3>1, <4>1, <4>2
    <3>2. CASE i < k
      <4>1. i \in 0..k - 1
        BY <2>1, <3>2
      <4>2. f[i] = IF i = 0 THEN p ELSE ReturnMemory(f[i - 1], q[i])
        BY <2>2, <4>1
      <4>3. g[i] = f[i]
        BY <3>2
      <4>4. i # 0 => g[i - 1] = f[i - 1]
        BY <2>1, <3>2
      <4> QED BY <4>2, <4>3, <4>4
    <3> QED BY <2>1, <3>1, <3>2
  <2>4. g = F(g, k)
    <3>1. g = [i \in 0..k |-> g[i]]
      OBVIOUS
    <3> HIDE DEF g
    <3> QED BY <2>3, <3>1
  <2> QED BY <2>1, <2>4
<1>3. Len(q) \in Nat
  BY LenProperties
<1>4. Len(q) \in S
  <2>1. 0..Len(q) \subseteq S
    <3> HIDE DEF S
    <3> QED BY <1>1, <1>2, <1>3, UpTo
  <2> QED BY <1>3, <2>1
<1> DEFINE A == CHOOSE f : f = F(f, Len(q))
<1>5. A = F(A, Len(q))
  BY <1>4
<1>6. ReturnGroup(p, q) = A[Len(q)]
  BY DEF ReturnGroup
<1> HIDE DEF A
<1>7. A[0] = p
  <2>1. 0 \in 0..Len(q)
    BY <1>3
  <2> QED BY <1>5, <2>1
<1>8. \A i \in 1..Len(q) : A[i] = ReturnMemory(A[i - 1], q[i])
  <2> TAKE i \in 1..Len(q)
  <2>1. i \in 0..Len(q) /\ i # 0
    BY <1>3
  <2> QED BY <1>5, <2>1
<1>9. Returning(A, p, q)
  BY <1>6, <1>7, <1>8 DEF Returning
<1> QED BY <1>9

ReturningAll(A, p, q) ==
    /\ A[0] = p /\ ReturnGroups(p, q) = A[Len(q)]
    /\ \A i \in 1..Len(q) : A[i] = ReturnGroup(A[i - 1], q[i])

LEMMA ReturnGroupsSteps ==
  ASSUME NEW p, NEW q \in Seq(Seq(NodeSet))
  PROVE  \E A : ReturningAll(A, p, q)
<1> DEFINE F(f, k) == [i \in 0..k |-> IF i = 0 THEN p ELSE ReturnGroup(f[i - 1], q[i])]
           S == {k \in Nat : \E f : f = F(f, k)}
<1>1. 0 \in S
  <2> DEFINE f == [i \in 0..0 |-> p]
  <2>1. \A i \in 0..0 : i = 0
    OBVIOUS
  <2>2. f = F(f, 0)
    BY <2>1
  <2> QED BY <2>2
<1>2. ASSUME NEW k \in 1..Len(q), k - 1 \in S PROVE k \in S
  <2>1. k \in Nat /\ k # 0
    OBVIOUS
  <2>2. PICK f : f = F(f, k - 1)
    BY <1>2
  <2> DEFINE g == [i \in 0..k |-> IF i < k THEN f[i] ELSE ReturnGroup(f[k - 1], q[k])]
  <2>3. ASSUME NEW i \in 0..k PROVE g[i] = IF i = 0 THEN p ELSE ReturnGroup(g[i - 1], q[i])
    <3>1. CASE i = k
      <4>1. g[i] = ReturnGroup(f[k - 1], q[k])
        BY <2>1, <3>1
      <4>2. g[i - 1] = f[k - 1]
        BY <2>1, <3>1
      <4> QED BY <2>1, <3>1, <4>1, <4>2
    <3>2. CASE i < k
      <4>1. i \in 0..k - 1
        BY <2>1, <3>2
      <4>2. f[i] = IF i = 0 THEN p ELSE ReturnGroup(f[i - 1], q[i])
        BY <2>2, <4>1
      <4>3. g[i] = f[i]
        BY <3>2
      <4>4. i # 0 => g[i - 1] = f[i - 1]
        BY <2>1, <3>2
      <4> QED BY <4>2, <4>3, <4>4
    <3> QED BY <2>1, <3>1, <3>2
  <2>4. g = F(g, k)
    <3>1. g = [i \in 0..k |-> g[i]]
      OBVIOUS
    <3> HIDE DEF g
    <3> QED BY <2>3, <3>1
  <2> QED BY <2>1, <2>4
<1>3. Len(q) \in Nat
  BY LenProperties
<1>4. Len(q) \in S
  <2>1. 0..Len(q) \subseteq S
    <3> HIDE DEF S
    <3> QED BY <1>1, <1>2, <1>3, UpTo
  <2> QED BY <1>3, <2>1
<1> DEFINE A == CHOOSE f : f = F(f, Len(q))
<1>5. A = F(A, Len(q))
  BY <1>4
<1>6. ReturnGroups(p, q) = A[Len(q)]
  BY DEF ReturnGroups
<1> HIDE DEF A
<1>7. A[0] = p
  <2>1. 0 \in 0..Len(q)
    BY <1>3
  <2> QED BY <1>5, <2>1
<1>8. \A i \in 1..Len(q) : A[i] = ReturnGroup(A[i - 1], q[i])
  <2> TAKE i \in 1..Len(q)
  <2>1. i \in 0..Len(q) /\ i # 0
    BY <1>3
  <2> QED BY <1>5, <2>1
<1>9. ReturningAll(A, p, q)
  BY <1>6, <1>7, <1>8 DEF ReturningAll
<1> QED BY <1>9

LEMMA StoredGroup ==
  ASSUME NEW p, NEW held, Stored(p, held), NEW q, ListOK(q), Elems(q) \subseteq held
  PROVE  ReturnedOf(ReturnGroup(p, q), p, held \ Elems(q))
<1>1. q \in Seq(NodeSet) /\ Once(q) /\ Len(q) \in Nat
  BY LenProperties DEF ListOK
<1>2. PICK A : /\ A[0] = p /\ ReturnGroup(p, q) = A[Len(q)]
               /\ \A i \in 1..Len(q) : A[i] = ReturnMemory(A[i - 1], q[i])
  <2>1. \E A : Returning(A, p, q)
    BY <1>1, ReturnGroupSteps
  <2> QED BY <2>1 DEF Returning
<1> DEFINE D(k) == {q[j] : j \in 1..k}
           S == {k \in 0..Len(q) : ReturnedOf(A[k], p, held \ D(k))}
<1>3. 0 \in S
  <2>1. D(0) = {}
    <3>1. 1..0 = {}
      OBVIOUS
    <3> QED BY <3>1
  <2>2. held \ D(0) = held
    BY <2>1
  <2>3. ReturnedOf(A[0], p, held)
    BY <1>2 DEF ReturnedOf
  <2>4. ReturnedOf(A[0], p, held \ D(0))
    BY <2>2, <2>3, Zenon
  <2>5. 0 \in 0..Len(q)
    BY <1>1
  <2> HIDE DEF D
  <2> QED BY <2>4, <2>5
<1>4. ASSUME NEW k \in 1..Len(q), k - 1 \in S PROVE k \in S
  <2> DEFINE g == A[k - 1]
             n == q[k]
             left == held \ D(k - 1)
  <2>1. k \in 0..Len(q) /\ ReturnedOf(g, p, left)
    BY <1>1, <1>4
  <2>2. D(k) = D(k - 1) \cup {n}
    <3>1. \A j : j \in 1..k <=> j \in 1..k - 1 \/ j = k
      BY <1>1
    <3> QED BY <3>1
  <2>3. n \in left
    <3>1. \A j \in 1..k - 1 : j \in 1..Len(q) /\ j # k
      BY <1>1
    <3>2. n \in held
      BY DEF Elems
    <3> QED BY <1>1, <3>1, <3>2 DEF Once
  <2>4. A[k] = ReturnMemory(g, n)
    BY <1>2
  <2>5. held \ D(k) = left \ {n}
    BY <2>2
  <2> HIDE DEF D, g, n, left
  <2>6. ReturnedOf(ReturnMemory(g, n), g, left \ {n})
    BY <2>1, <2>3, StoredReturn DEF ReturnedOf
  <2>7. ReturnedOf(A[k], p, left \ {n})
    BY <2>1, <2>4, <2>6 DEF ReturnedOf
  <2> QED BY <2>1, <2>5, <2>7
<1>5. Len(q) \in S
  <2>1. 0..Len(q) \subseteq S
    <3> HIDE DEF S
    <3> QED BY <1>1, <1>3, <1>4, UpTo
  <2>2. Len(q) \in 0..Len(q)
    BY <1>1
  <2> HIDE DEF S
  <2> QED BY <2>1, <2>2
<1>6. D(Len(q)) = Elems(q)
  BY DEF Elems
<1> QED BY <1>2, <1>5, <1>6

LEMMA StoredGroupsReturned ==
  ASSUME NEW p, NEW q, GroupsOK(q), Stored(p, Held(q))
  PROVE  ReturnedOf(ReturnGroups(p, q), p, {})
<1>1. /\ q \in Seq(Seq(NodeSet)) /\ Len(q) \in Nat /\ \A g \in 1..Len(q) : ListOK(q[g])
      /\ \A g, h \in 1..Len(q) : g # h => Elems(q[g]) \cap Elems(q[h]) = {}
  <2>1. q \in Seq(Seq(NodeSet))
    BY DEF GroupsOK
  <2>2. Len(q) \in Nat
    BY <2>1
  <2> QED BY <2>1, <2>2, Zenon DEF GroupsOK
<1>2. PICK A : /\ A[0] = p /\ ReturnGroups(p, q) = A[Len(q)]
               /\ \A i \in 1..Len(q) : A[i] = ReturnGroup(A[i - 1], q[i])
  <2>1. \E A : ReturningAll(A, p, q)
    BY <1>1, ReturnGroupsSteps
  <2> QED BY <2>1 DEF ReturningAll
<1> DEFINE D(k) == UNION {Elems(q[j]) : j \in k + 1..Len(q)}
           S == {k \in 0..Len(q) : ReturnedOf(A[k], p, D(k))}
<1>3. 0 \in S
  <2>1. D(0) = Held(q)
    BY DEF Held
  <2>2. ReturnedOf(A[0], p, Held(q))
    BY <1>2 DEF ReturnedOf
  <2> HIDE DEF D
  <2> QED BY <1>1, <2>1, <2>2
<1>4. ASSUME NEW k \in 1..Len(q), k - 1 \in S PROVE k \in S
  <2> DEFINE g == A[k - 1]
             list == q[k]
             left == D(k - 1)
  <2>1. k \in 0..Len(q) /\ ReturnedOf(g, p, left) /\ ListOK(list)
    BY <1>1, <1>4
  <2>2. D(k) = left \ Elems(list) /\ Elems(list) \subseteq left
    <3>1. \A j : j \in (k - 1) + 1..Len(q) <=> j \in k + 1..Len(q) \/ j = k
      BY <1>1
    <3>2. \A j \in k + 1..Len(q) : Elems(q[j]) \cap Elems(list) = {}
      <4>1. \A j \in k + 1..Len(q) : j \in 1..Len(q) /\ j # k
        BY <1>1
      <4> QED BY <1>1, <4>1
    <3>3. \A n : n \in left <=> n \in D(k) \/ n \in Elems(list)
      BY <3>1
    <3>4. \A n \in D(k) : n \notin Elems(list)
      BY <3>2
    <3> HIDE DEF D, list, left
    <3> QED BY <3>3, <3>4
  <2>3. A[k] = ReturnGroup(g, list)
    BY <1>2
  <2> HIDE DEF D, g, list, left
  <2>4. ReturnedOf(ReturnGroup(g, list), g, left \ Elems(list))
    BY <2>1, <2>2, StoredGroup DEF ReturnedOf
  <2>5. ReturnedOf(A[k], p, left \ Elems(list))
    BY <2>1, <2>3, <2>4 DEF ReturnedOf
  <2> QED BY <2>1, <2>2, <2>5
<1>5. Len(q) \in S
  <2>1. 0..Len(q) \subseteq S
    <3> HIDE DEF S
    <3> QED BY <1>1, <1>3, <1>4, UpTo
  <2>2. Len(q) \in 0..Len(q)
    BY <1>1
  <2> HIDE DEF S
  <2> QED BY <2>1, <2>2
<1>6. D(Len(q)) = {}
  <2>1. Len(q) + 1..Len(q) = {}
    BY <1>1
  <2> QED BY <2>1
<1> HIDE DEF D
<1> QED BY <1>2, <1>5, <1>6

\* The next call finds the pool as it must be.
LEMMA PoolSettled ==
  ASSUME NEW p, Stored(p, Held(p.groups)), GroupsOK(p.groups), p.totalSize = Total(p.blocks),
         p.current \in 0..Len(p.groups), Len(p.groups) <= MaxGroups
  PROVE  /\ PoolOK(Settled(p))
         /\ Settled(p).used = p.used /\ Settled(p).groups = p.groups /\ Settled(p).current = p.current
<1> DEFINE q == Settled(p)
           held == Held(p.groups)
<1>1. q = Settled(p) /\ held = Held(p.groups)
  OBVIOUS
<1> HIDE DEF q
<1>2. /\ Stored(q, held) /\ DOMAIN q.useCount = Ancestry(LeavesOf(q, held))
      /\ q.used = p.used /\ q.free = p.free /\ q.groups = p.groups
      /\ q.current = p.current /\ q.totalSize = p.totalSize /\ q.blocks = p.blocks
  BY <1>1, StoredSettled
<1>3. PoolOK(q)
  BY <1>2 DEF PoolOK
<1> QED BY <1>2, <1>3 DEF q

-----------------------------------------------------------------------------
(* release.                                                                 *)

LEMMA DroppedIs ==
  ASSUME NEW p, Fields(p), NEW free, NEW total
  PROVE  [p EXCEPT !.free = free, !.totalSize = total]
         = [used |-> p.used, free |-> free, groups |-> p.groups, current |-> p.current,
            useCount |-> p.useCount, blocks |-> p.blocks, totalSize |-> total]
<1> DEFINE q == [p EXCEPT !.free = free, !.totalSize = total]
<1>1. q = [p EXCEPT !.free = free, !.totalSize = total]
  OBVIOUS
<1> HIDE DEF q
<1>2. q = [used |-> p.used, free |-> free, groups |-> p.groups, current |-> p.current,
           useCount |-> p.useCount, blocks |-> p.blocks, totalSize |-> total]
  BY <1>1 DEF Fields
<1> QED BY <1>2 DEF q

\* A free root is the only leaf of its block.
LEMMA FreeRoot ==
  ASSUME NEW leaves, NEW free, NEW count, NEW sizes, Tree(leaves, free, count, sizes),
         NEW r \in leaves, IsRoot(r), NEW n \in leaves, n.block = r.block
  PROVE  n = r
<1>1. leaves \subseteq NodeSet /\ Leaves(leaves) /\ Based(Ancestry(leaves), sizes)
  BY DEF Tree
<1>2. leaves \subseteq Ancestry(leaves)
  BY <1>1, AncestryIs, UnderItself
<1>3. r.path[1] = n.path[1]
  <2>1. \A a \in leaves : a.path[1] = [lo |-> 0, size |-> sizes[a.block]]
    BY <1>1, <1>2 DEF Based
  <2>2. r.path[1] = [lo |-> 0, size |-> sizes[r.block]] /\ n.path[1] = [lo |-> 0, size |-> sizes[r.block]]
    BY <2>1
  <2> QED BY <2>2
<1>4. Under(r, n)
  <2>1. Depth(r) = 1 /\ Depth(n) >= 1 /\ Depth(n) \in Nat
    BY <1>1, NodeFields
  <2> QED BY <1>3, <2>1 DEF Under
<1> QED BY <1>1, <1>4 DEF Leaves

\* Free roots are given back with their blocks.
Dropped(p) == LET parts == {n \in Range(p.free) : ~IsRoot(n)}
              IN  [p EXCEPT !.free = Kept(@, parts), !.totalSize = @ - RootSize(p.free)]

ReleasedOf(q, p) == PoolOK(q) /\ q.used = p.used /\ q.groups = p.groups /\ q.current = p.current

LEMMA ReleasedIs ==
  ASSUME NEW p, PoolOK(p)
  PROVE  ReleasedOf(Settled(Dropped(p)), p)
<1> DEFINE parts == {n \in Range(p.free) : ~IsRoot(n)}
           r == Dropped(p)
<1>0. r = [p EXCEPT !.free = Kept(p.free, parts), !.totalSize = p.totalSize - RootSize(p.free)]
  BY DEF Dropped
<1> HIDE DEF r
<1> DEFINE held == Held(p.groups)
           leaves == LeavesOf(p, held)
           free == Elems(p.free)
           roots == {n \in free : IsRoot(n)}
           kept == Kept(p.free, parts)
           total == p.totalSize - RootSize(p.free)
           left == leaves \ roots
           q == Settled(r)
<1>1. /\ Fields(p) /\ UsedOK(p.used) /\ ListOK(p.free)
      /\ Range(p.used) \cap free = {} /\ held \cap (Range(p.used) \cup free) = {}
      /\ DOMAIN p.blocks \subseteq 1..MaxBlocks /\ \A b \in DOMAIN p.blocks : p.blocks[b] \in Nat
      /\ p.blocks = [b \in DOMAIN p.blocks |-> p.blocks[b]]
      /\ \A b \in DOMAIN p.blocks : \E m \in leaves : m.block = b
      /\ Tree(leaves, free, p.useCount, p.blocks)
  BY DEF PoolOK, Stored
<1>2. /\ GroupsOK(p.groups) /\ p.current \in 0..Len(p.groups) /\ Len(p.groups) <= MaxGroups
      /\ p.totalSize = Total(p.blocks)
  BY DEF PoolOK
<1>3. Range(p.free) = free /\ p.free \in Seq(NodeSet) /\ Once(p.free)
  BY <1>1, RangeIs DEF ListOK
<1>4. ListOK(kept) /\ Elems(kept) = free \ roots
  <2>1. kept \in Seq(NodeSet) /\ Once(kept) /\ Elems(kept) = free \cap parts
    BY <1>3, KeptIs
  <2>2. free \cap parts = free \ roots
    BY <1>3
  <2> QED BY <2>1, <2>2 DEF ListOK
<1>5. Tree(left, free \ roots, p.useCount, p.blocks)
  <2>1. roots \in SUBSET free /\ \A x \in roots : IsRoot(x)
    OBVIOUS
  <2> HIDE DEF leaves, free, roots
  <2> QED BY <1>1, <2>1, TreeDrop
<1> HIDE DEF kept, total
<1>6. r = [used |-> p.used, free |-> kept, groups |-> p.groups, current |-> p.current,
           useCount |-> p.useCount, blocks |-> p.blocks, totalSize |-> total]
  <2>1. r = [p EXCEPT !.free = kept, !.totalSize = total]
    BY <1>0 DEF kept, total
  <2>2. Fields(p)
    BY <1>1
  <2> QED BY <2>1, <2>2, DroppedIs
<1>7. /\ Fields(r) /\ r.used = p.used /\ r.free = kept /\ r.groups = p.groups
      /\ r.current = p.current /\ r.useCount = p.useCount /\ r.blocks = p.blocks
      /\ r.totalSize = total
  BY <1>6 DEF Fields
<1>8. LeavesOf(r, Held(r.groups)) = left
  BY <1>1, <1>4, <1>7 DEF LeavesOf
<1>9. q = Settled(r)
  OBVIOUS
<1>10. left \in SUBSET NodeSet
  BY <1>5 DEF Tree
<1> HIDE DEF q, left
<1>11. /\ Fields(q) /\ q.used = r.used /\ q.free = r.free /\ q.groups = r.groups
       /\ q.current = r.current /\ q.totalSize = r.totalSize
       /\ q.blocks = Restrict(r.blocks, BlocksOf(left)) /\ q.useCount = CountsOf(left, r.useCount)
  <2>1. UsedOK(r.used) /\ ListOK(r.free) /\ GroupsOK(r.groups)
    BY <1>1, <1>2, <1>4, <1>7
  <2>2. Fields(r) /\ left = LeavesOf(r, Held(r.groups))
    BY <1>7, <1>8
  <2>3. SettledTo(Settled(r), r, left)
    BY <1>10, <2>1, <2>2, SettledIs
  <2> QED BY <1>9, <2>3 DEF SettledTo
<1>12. LeavesOf(q, Held(q.groups)) = left
  BY <1>8, <1>11 DEF LeavesOf
<1>13. Tree(left, Elems(q.free), q.useCount, q.blocks)
  <2>1. /\ q.blocks = Restrict(p.blocks, BlocksOf(left)) /\ Elems(q.free) = free \ roots
        /\ q.useCount = CountsOf(left, p.useCount)
    BY <1>4, <1>7, <1>11
  <2> HIDE DEF leaves, free, roots
  <2> QED BY <1>5, <2>1, TreeSettled
<1> DEFINE S == {b \in DOMAIN p.blocks : \A n \in Elems(p.free) : IsRoot(n) => n.block # b}
<1>14. leaves \in SUBSET NodeSet /\ free \subseteq leaves /\ \A n \in leaves :
          n.block \in DOMAIN p.blocks /\ n.path[1] = [lo |-> 0, size |-> p.blocks[n.block]]
  <2>1. leaves \in SUBSET NodeSet /\ Based(Ancestry(leaves), p.blocks) /\ free \subseteq leaves
    BY <1>1 DEF Tree
  <2>2. leaves \subseteq Ancestry(leaves)
    <3> HIDE DEF leaves
    <3> QED BY <2>1, AncestryIs, UnderItself
  <2> QED BY <2>1, <2>2 DEF Based
<1>15. BlocksOf(left) = S
  <2>1. ASSUME NEW n \in left PROVE n.block \in S
    <3>1. n \in leaves /\ n \notin roots
      BY DEF left
    <3>2. ASSUME NEW m \in free, IsRoot(m), m.block = n.block PROVE FALSE
      <4>1. n = m
        <5> HIDE DEF leaves, free
        <5> QED BY <1>1, <1>14, <3>1, <3>2, FreeRoot
      <4> QED BY <3>1, <3>2, <4>1
    <3> HIDE DEF leaves
    <3> QED BY <1>14, <3>1, <3>2
  <2>2. ASSUME NEW b \in S PROVE \E n \in left : n.block = b
    <3>1. PICK n \in leaves : n.block = b
      BY <1>1
    <3>2. n \notin roots
      BY <3>1
    <3> QED BY <3>1, <3>2 DEF left
  <2> HIDE DEF S
  <2> QED BY <2>1, <2>2 DEF BlocksOf
<1>16. Total(p.blocks) = Total(Restrict(p.blocks, S)) + RootSize(p.free)
       /\ Total(Restrict(p.blocks, S)) \in Nat /\ RootSize(p.free) \in Nat
  <2>1. \A n \in Elems(p.free) : IsRoot(n) =>
           n.block \in DOMAIN p.blocks /\ n = Root(n.block, p.blocks[n.block])
    <3> TAKE n \in Elems(p.free)
    <3> HAVE IsRoot(n)
    <3>1. n \in leaves /\ n \in NodeSet
      BY <1>14
    <3>2. n.block \in DOMAIN p.blocks /\ n.path[1] = [lo |-> 0, size |-> p.blocks[n.block]]
      BY <1>14, <3>1
    <3>3. p.blocks[n.block] \in Nat
      BY <1>1, <3>2
    <3> QED BY <3>1, <3>2, <3>3, RootOf
  <2> DEFINE sizes == p.blocks
             list == p.free
  <2>2. /\ sizes = [b \in DOMAIN sizes |-> sizes[b]] /\ DOMAIN sizes \subseteq 1..MaxBlocks
        /\ \A b \in DOMAIN sizes : sizes[b] \in Nat
        /\ list \in Seq(NodeSet) /\ Once(list)
        /\ \A n \in Elems(list) : IsRoot(n) => n.block \in DOMAIN sizes /\ n = Root(n.block, sizes[n.block])
        /\ S = {b \in DOMAIN sizes : \A n \in Elems(list) : IsRoot(n) => n.block # b}
    BY <1>1, <1>3, <2>1, Zenon
  <2>3. Total(sizes) = Total(Restrict(sizes, S)) + RootSize(list)
        /\ Total(Restrict(sizes, S)) \in Nat /\ RootSize(list) \in Nat
    <3> HIDE DEF sizes, list, S
    <3> QED BY <2>2, TotalLess
  <2> QED BY <2>3
<1>17. q.totalSize = Total(q.blocks)
  <2>1. q.blocks = Restrict(p.blocks, S)
    BY <1>7, <1>11, <1>15
  <2>2. q.totalSize = Total(p.blocks) - RootSize(p.free)
    BY <1>2, <1>7, <1>11 DEF total
  <2> HIDE DEF S
  <2> QED BY <1>16, <2>1, <2>2
<1>18. /\ DOMAIN q.blocks \subseteq 1..MaxBlocks /\ \A b \in DOMAIN q.blocks : q.blocks[b] \in Nat
       /\ q.blocks = [b \in DOMAIN q.blocks |-> q.blocks[b]]
       /\ DOMAIN q.blocks = BlocksOf(left)
  <2>1. q.blocks = Restrict(p.blocks, S) /\ S \subseteq DOMAIN p.blocks
    BY <1>7, <1>11, <1>15
  <2> HIDE DEF S
  <2> QED BY <1>1, <1>15, <2>1 DEF Restrict
<1>19. /\ Range(q.used) \cap Elems(q.free) = {} /\ held \cap (Range(q.used) \cup Elems(q.free)) = {}
       /\ UsedOK(q.used) /\ ListOK(q.free) /\ Held(q.groups) = held
  BY <1>1, <1>4, <1>7, <1>11
<1>20. Stored(q, held)
  <2>1. \A b \in DOMAIN q.blocks : \E m \in LeavesOf(q, held) : m.block = b
    BY <1>12, <1>18, <1>19 DEF BlocksOf
  <2>2. Tree(LeavesOf(q, held), Elems(q.free), q.useCount, q.blocks)
    BY <1>12, <1>13, <1>19
  <2> HIDE DEF held
  <2> QED BY <1>11, <1>18, <1>19, <2>1, <2>2 DEF Stored
<1>21. PoolOK(q)
  <2>1. q.groups = p.groups /\ q.current = p.current
    BY <1>7, <1>11
  <2>2. DOMAIN q.useCount = Ancestry(left)
    BY <1>11 DEF CountsOf
  <2> HIDE DEF held
  <2> QED BY <1>2, <1>12, <1>17, <1>19, <1>20, <2>1, <2>2 DEF PoolOK
<1> QED BY <1>7, <1>11, <1>21 DEF q, r, ReleasedOf

-----------------------------------------------------------------------------
(* The invariant holds, and every call keeps it.                            *)

\* Nothing is allocated.
LEMMA EmptyPoolOK ==
  ASSUME NEW p, Fields(p), p.used = <<>>, p.free = <<>>, p.groups = <<>>, p.current = 0,
         DOMAIN p.useCount = {}, DOMAIN p.blocks = {}, p.blocks = [b \in {} |-> p.blocks[b]],
         p.totalSize = 0
  PROVE  PoolOK(p)
<1>1. Held(p.groups) = {} /\ Elems(p.free) = {} /\ Range(p.used) = {}
  <2>1. \A i : i \notin 1..0
    OBVIOUS
  <2> QED BY <2>1 DEF Held, Elems, Range
<1>2. LeavesOf(p, {}) = {}
  BY <1>1 DEF LeavesOf
<1>3. Ancestry({}) = {}
  BY DEF Ancestry
<1>4. Tree({}, {}, p.useCount, p.blocks)
  <2>1. Bounded({})
    BY DEF Bounded
  <2>2. Counted({}, {}, {}, p.useCount)
    BY DEF Counted
  <2> QED BY <1>3, <2>1, <2>2 DEF Tree, Leaves, Apart, Based
<1>5. UsedOK(p.used)
  <2>1. DOMAIN p.used = {}
    OBVIOUS
  <2>2. p.used = [at \in DOMAIN p.used |-> p.used[at]]
    OBVIOUS
  <2> QED BY <2>1, <2>2 DEF UsedOK
<1>6. ListOK(p.free)
  BY DEF ListOK, Once
<1>7. GroupsOK(p.groups)
  BY DEF GroupsOK
<1>8. Stored(p, {})
  BY <1>1, <1>2, <1>4, <1>5, <1>6 DEF Stored
<1>9. p.totalSize = Total(p.blocks)
  BY TotalNone
<1>10. p.current \in 0..Len(p.groups) /\ Len(p.groups) <= MaxGroups
  BY EagerAssumption
<1> QED BY <1>1, <1>2, <1>3, <1>7, <1>8, <1>9, <1>10 DEF PoolOK

LEMMA InitIInv == Init => IInv
<1> SUFFICES ASSUME Init PROVE IInv
  OBVIOUS
<1> USE DEF Init
<1>1. PoolOK(pool)
  <2>1. /\ Fields(pool) /\ pool.used = <<>> /\ pool.free = <<>> /\ pool.groups = <<>> /\ pool.current = 0
        /\ pool.useCount = <<>> /\ pool.blocks = <<>> /\ pool.totalSize = 0
    BY DEF EmptyPool, Fields
  <2>2. DOMAIN pool.useCount = {} /\ DOMAIN pool.blocks = {} /\ pool.blocks = [b \in {} |-> pool.blocks[b]]
    BY <2>1
  <2> QED BY <2>1, <2>2, EmptyPoolOK
<1>2. ChunksOK(chunks, pool.used)
  <2>1. DOMAIN pool.used = {}
    BY DEF EmptyPool
  <2> QED BY <2>1 DEF ChunksOK
<1>3. SeenOK(seen, pool, chunks)
  <2>1. pool.groups = <<>>
    BY DEF EmptyPool
  <2>2. seen = [g \in 1..Len(pool.groups) |-> seen[g]]
    BY <2>1
  <2> QED BY <2>1, <2>2 DEF SeenOK
<1>4. pool.groups = <<>>
  BY DEF EmptyPool
<1> QED BY <1>1, <1>2, <1>3, <1>4 DEF IInv

\* The groups are those of a barrier, which has no minimal size.
LEMMA InGroup ==
  ASSUME IInv
  PROVE  /\ Len(pool.groups) \in Nat /\ (pool.current # 0 => barrier /\ minAlloc = 0)
         /\ (~barrier => Len(pool.groups) = 0 /\ pool.current = 0)
<1>1. pool.groups \in Seq(Seq(NodeSet)) /\ pool.current \in 0..Len(pool.groups)
  BY DEF IInv, PoolOK, GroupsOK
<1>2. Len(pool.groups) \in Nat
  BY <1>1
<1>3. ~barrier => Len(pool.groups) = 0
  BY DEF IInv
<1> QED BY <1>1, <1>2, <1>3 DEF IInv

\* What was given to a group stays its own if the group keeps its nodes.
LEMMA SeenStays ==
  ASSUME NEW s, NEW p, NEW cs, SeenOK(s, p, cs), NEW q, NEW ds, Len(q.groups) = Len(p.groups),
         \A g \in 1..Len(p.groups) : Mine(p, cs, g) \subseteq Mine(q, ds, g)
  PROVE  SeenOK(s, q, ds)
<1>1. \A g \in 1..Len(p.groups) : \A e \in s[g] : \E n \in Mine(p, cs, g) : e = <<Pointer(n), NodeSize(n)>>
  BY DEF SeenOK
<1>2. \A g \in 1..Len(p.groups) : \A e \in s[g] : \E n \in Mine(q, ds, g) : e = <<Pointer(n), NodeSize(n)>>
  BY <1>1
<1>3. s = [g \in 1..Len(q.groups) |-> s[g]]
  BY DEF SeenOK
<1> QED BY <1>2, <1>3 DEF SeenOK

LEMMA AllocKeeps ==
  ASSUME IInv, NEW size \in Requests, NEW separate \in BOOLEAN, Alloc(size, separate)
  PROVE  IInv'
<1>1. PICK p \in Allocs(pool, size, separate) :
         LET at == CHOOSE at \in DOMAIN p.used :
                     at \notin DOMAIN pool.used \/ DOMAIN p.used = DOMAIN pool.used
         IN  /\ pool' = Settled(p)
             /\ chunks' = chunks \cup {[at |-> at, size |-> size, group |-> pool.current]}
             /\ seen' = IF pool.current = 0 THEN seen
                        ELSE [seen EXCEPT ![pool.current] = @ \cup {<<at, NodeSize(p.used[at])>>}]
  BY DEF Alloc
<1>2. /\ PoolOK(pool) /\ ChunksOK(chunks, pool.used) /\ SeenOK(seen, pool, chunks)
      /\ minAlloc \in MinAllocs /\ minAlloc' = minAlloc /\ barrier' = barrier
  BY DEF Alloc, IInv
<1>3. PICK at : Alloced(pool, p, at, size)
  <2>1. \E at : Alloced(pool, p, at, size)
    BY <1>2, InGroup, AllocsAre DEF PoolOK
  <2> QED BY <2>1
<1>4. /\ at \notin DOMAIN pool.used /\ DOMAIN p.used = DOMAIN pool.used \cup {at}
      /\ NodeSize(p.used[at]) >= size /\ \A x \in DOMAIN pool.used : p.used[x] = pool.used[x]
      /\ Stored(p, Held(p.groups)) /\ GroupsOK(p.groups) /\ p.totalSize = Total(p.blocks)
      /\ p.current = pool.current /\ Len(p.groups) = Len(pool.groups)
  BY <1>3 DEF Alloced, Given
<1>5. at = CHOOSE x \in DOMAIN p.used : x \notin DOMAIN pool.used \/ DOMAIN p.used = DOMAIN pool.used
  <2>1. \A x \in DOMAIN p.used : (x \notin DOMAIN pool.used \/ DOMAIN p.used = DOMAIN pool.used) <=> x = at
    BY <1>4
  <2> QED BY <1>4, <2>1
<1> DEFINE c == [at |-> at, size |-> size, group |-> pool.current]
           k == pool.current
<1>6. /\ pool' = Settled(p) /\ chunks' = chunks \cup {c}
      /\ seen' = IF k = 0 THEN seen ELSE [seen EXCEPT ![k] = @ \cup {<<at, NodeSize(p.used[at])>>}]
  BY <1>1, <1>5
<1>7. k \in 0..Len(pool.groups) /\ Len(pool.groups) <= MaxGroups
  BY <1>2 DEF PoolOK
<1>8. PoolOK(pool') /\ pool'.used = p.used /\ pool'.groups = p.groups /\ pool'.current = p.current
  BY <1>4, <1>6, <1>7, PoolSettled
<1>9. ChunksOK(chunks', pool'.used)
  <2>1. \A d \in chunks : /\ d = [at |-> d.at, size |-> d.size, group |-> d.group]
                          /\ d.at \in DOMAIN pool.used /\ NodeSize(pool.used[d.at]) >= d.size
                          /\ d.size \in Requests /\ d.group \in 0..MaxGroups
    BY <1>2 DEF ChunksOK
  <2>2. (\A x \in DOMAIN pool.used : \E d \in chunks : d.at = x) /\ \A d, e \in chunks : d.at = e.at => d = e
    BY <1>2 DEF ChunksOK
  <2>3. c = [at |-> c.at, size |-> c.size, group |-> c.group] /\ c.at = at /\ c.size = size /\ c.group = k
    OBVIOUS
  <2>4. k \in 0..MaxGroups
    BY <1>7, InGroup, EagerAssumption
  <2> HIDE DEF c, k
  <2>5. \A d \in chunks' : /\ d = [at |-> d.at, size |-> d.size, group |-> d.group]
                           /\ d.at \in DOMAIN p.used /\ NodeSize(p.used[d.at]) >= d.size
                           /\ d.size \in Requests /\ d.group \in 0..MaxGroups
    <3> TAKE d \in chunks'
    <3>1. CASE d \in chunks
      BY <1>4, <2>1, <3>1
    <3>2. CASE d = c
      BY <1>4, <2>3, <2>4, <3>2
    <3> QED BY <1>6, <3>1, <3>2
  <2>6. \A x \in DOMAIN p.used : \E d \in chunks' : d.at = x
    BY <1>4, <1>6, <2>2, <2>3
  <2>7. \A d, e \in chunks' : d.at = e.at => d = e
    BY <1>4, <1>6, <2>1, <2>2, <2>3
  <2> QED BY <1>8, <2>5, <2>6, <2>7 DEF ChunksOK
<1>10. SeenOK(seen', pool', chunks')
  <2>1. \A g \in 1..Len(pool.groups) : Mine(pool, chunks, g) \subseteq Mine(pool', chunks', g)
    <3> SUFFICES ASSUME NEW g \in 1..Len(pool.groups), NEW n \in Mine(pool, chunks, g)
                 PROVE  n \in Mine(pool', chunks', g)
      OBVIOUS
    <3>1. CASE \E d \in chunks : d.group = g /\ n = pool.used[d.at]
      <4>1. PICK d \in chunks : d.group = g /\ n = pool.used[d.at]
        BY <3>1
      <4>2. d \in chunks' /\ n = pool'.used[d.at]
        BY <1>2, <1>4, <1>6, <1>8, <4>1 DEF ChunksOK
      <4> QED BY <4>1, <4>2 DEF Mine
    <3>2. CASE n \in Elems(pool.groups[g])
      <4>1. g # k => p.groups[g] = pool.groups[g]
        BY <1>3 DEF Alloced
      <4>2. n \in Elems(p.groups[g]) \/ n = p.used[at]
        BY <1>3, <3>2 DEF Alloced
      <4>3. CASE n \in Elems(p.groups[g])
        BY <1>8, <4>3 DEF Mine
      <4>4. CASE n = p.used[at] /\ g = k
        <5>1. c \in chunks' /\ c.group = g /\ n = pool'.used[c.at]
          BY <1>6, <1>8, <4>4
        <5> HIDE DEF c
        <5> QED BY <5>1 DEF Mine
      <4> QED BY <1>8, <3>2, <4>1, <4>2, <4>3, <4>4 DEF Mine
    <3> QED BY <3>1, <3>2 DEF Mine
  <2>2. SeenOK(seen, pool', chunks')
    BY <1>2, <1>4, <1>8, <2>1, SeenStays
  <2>3. CASE k = 0
    BY <1>6, <2>2, <2>3
  <2>4. CASE k # 0
    <3> DEFINE e == <<at, NodeSize(p.used[at])>>
               N == Len(pool'.groups)
    <3>1. k \in 1..N /\ N \in Nat
      BY <1>4, <1>7, <1>8, <2>4, InGroup
    <3>2. seen = [g \in 1..N |-> seen[g]] /\ seen' = [seen EXCEPT ![k] = @ \cup {e}]
      BY <1>6, <2>2, <2>4 DEF SeenOK
    <3>3. \E n \in Mine(pool', chunks', k) : e = <<Pointer(n), NodeSize(n)>>
      <4>1. c \in chunks' /\ c.group = k /\ c.at = at
        BY <1>6
      <4> HIDE DEF c
      <4>2. p.used[at] \in Mine(pool', chunks', k)
        BY <1>8, <4>1 DEF Mine
      <4>3. Pointer(p.used[at]) = at
        BY <1>4 DEF Stored, UsedOK
      <4> QED BY <4>2, <4>3
    <3> HIDE DEF e, N, k
    <3>4. seen' = [g \in 1..N |-> seen'[g]] /\ seen'[k] = seen[k] \cup {e}
          /\ \A g \in 1..N : g # k => seen'[g] = seen[g]
      BY <3>1, <3>2
    <3>5. \A g \in 1..N : \A f \in seen[g] : \E n \in Mine(pool', chunks', g) : f = <<Pointer(n), NodeSize(n)>>
      BY <2>2 DEF SeenOK, N
    <3>6. \A g \in 1..N : \A f \in seen'[g] : \E n \in Mine(pool', chunks', g) : f = <<Pointer(n), NodeSize(n)>>
      <4> TAKE g \in 1..N
      <4> TAKE f \in seen'[g]
      <4>1. CASE f \in seen[g]
        BY <3>5, <4>1
      <4>2. CASE f \notin seen[g]
        <5>1. g = k /\ f = e
          BY <3>4, <4>2
        <5> QED BY <3>3, <5>1
      <4> QED BY <4>1, <4>2
    <3> QED BY <3>4, <3>6 DEF SeenOK, N
  <2> QED BY <2>3, <2>4
<1>11. ~barrier => pool'.groups = <<>>
  <2>1. pool'.groups \in Seq(Seq(NodeSet))
    BY <1>8 DEF PoolOK, GroupsOK
  <2>2. ~barrier => Len(pool'.groups) = 0
    BY <1>4, <1>8, InGroup
  <2> QED BY <2>1, <2>2, EmptySeq
<1> QED BY <1>2, <1>8, <1>9, <1>10, <1>11 DEF IInv

LEMMA FreeKeeps ==
  ASSUME IInv, NEW c \in chunks, Free(c)
  PROVE  IInv'
<1>1. /\ PoolOK(pool) /\ ChunksOK(chunks, pool.used) /\ SeenOK(seen, pool, chunks)
      /\ minAlloc \in MinAllocs /\ minAlloc' = minAlloc /\ barrier' = barrier /\ seen' = seen
      /\ chunks' = chunks \ {c} /\ (barrier => c.group = pool.current)
  BY DEF Free, IInv
<1> DEFINE at == c.at
           p == FreedIn(Without(pool, at), pool.used[at])
<1>2. at \in DOMAIN pool.used
  BY <1>1 DEF ChunksOK
<1>3. pool' = Settled(p)
  BY DEF Free, Without
<1>4. FreedOf(p, pool, at)
  <2>1. Stored(pool, Held(pool.groups)) /\ GroupsOK(pool.groups) /\ pool.current \in 0..Len(pool.groups)
    BY <1>1 DEF PoolOK
  <2> QED BY <1>2, <2>1, FreedIs
<1> HIDE DEF p
<1>5. /\ Stored(p, Held(p.groups)) /\ GroupsOK(p.groups)
      /\ p.current = pool.current /\ Len(p.groups) = Len(pool.groups)
      /\ p.totalSize = Total(p.blocks)
      /\ DOMAIN p.used = DOMAIN pool.used \ {at} /\ \A x \in DOMAIN p.used : p.used[x] = pool.used[x]
  BY <1>1, <1>4 DEF FreedOf, PoolOK
<1>6. p.current \in 0..Len(p.groups) /\ Len(p.groups) <= MaxGroups
  BY <1>1, <1>5 DEF PoolOK
<1>7. PoolOK(pool') /\ pool'.used = p.used /\ pool'.groups = p.groups /\ pool'.current = p.current
  BY <1>3, <1>5, <1>6, PoolSettled
<1>8. ChunksOK(chunks', pool'.used)
  <2>1. \A d \in chunks : /\ d = [at |-> d.at, size |-> d.size, group |-> d.group]
                          /\ d.at \in DOMAIN pool.used /\ NodeSize(pool.used[d.at]) >= d.size
                          /\ d.size \in Requests /\ d.group \in 0..MaxGroups
    BY <1>1 DEF ChunksOK
  <2>2. (\A x \in DOMAIN pool.used : \E d \in chunks : d.at = x) /\ \A d, e \in chunks : d.at = e.at => d = e
    BY <1>1 DEF ChunksOK
  <2>3. \A d \in chunks' : d \in chunks /\ d.at # at
    BY <1>1, <2>2
  <2>4. \A d \in chunks' : /\ d = [at |-> d.at, size |-> d.size, group |-> d.group]
                           /\ d.at \in DOMAIN p.used /\ NodeSize(p.used[d.at]) >= d.size
                           /\ d.size \in Requests /\ d.group \in 0..MaxGroups
    <3> TAKE d \in chunks'
    <3>1. d \in chunks /\ d.at \in DOMAIN p.used /\ p.used[d.at] = pool.used[d.at]
      BY <1>5, <2>1, <2>3
    <3> QED BY <2>1, <3>1
  <2>5. \A x \in DOMAIN p.used : \E d \in chunks' : d.at = x
    BY <1>1, <1>5, <2>2
  <2>6. \A d, e \in chunks' : d.at = e.at => d = e
    BY <2>2, <2>3
  <2> QED BY <1>7, <2>4, <2>5, <2>6 DEF ChunksOK
<1>9. SeenOK(seen', pool', chunks')
  <2>1. ASSUME NEW g \in 1..Len(pool.groups), NEW n \in Mine(pool, chunks, g)
        PROVE  n \in Mine(pool', chunks', g)
    <3>1. CASE n \in Elems(pool.groups[g])
      <4>1. n \in Elems(pool'.groups[g])
        BY <1>4, <1>7, <3>1 DEF FreedOf
      <4> QED BY <4>1 DEF Mine
    <3>2. CASE \E d \in chunks : d.group = g /\ n = pool.used[d.at]
      <4>1. PICK d \in chunks : d.group = g /\ n = pool.used[d.at]
        BY <3>2
      <4>2. CASE d = c
        <5>1. g = pool.current
          BY <1>1, <4>1, <4>2, InGroup
        <5>2. n \in Elems(pool'.groups[g])
          BY <1>4, <1>7, <4>1, <4>2, <5>1 DEF FreedOf
        <5> QED BY <5>2 DEF Mine
      <4>3. CASE d # c
        <5>1. d \in chunks' /\ d.at \in DOMAIN pool'.used /\ n = pool'.used[d.at]
          BY <1>1, <1>5, <1>7, <4>1, <4>3 DEF ChunksOK
        <5> QED BY <4>1, <5>1 DEF Mine
      <4> QED BY <4>2, <4>3
    <3> QED BY <3>1, <3>2 DEF Mine
  <2>2. \A g \in 1..Len(pool.groups) : Mine(pool, chunks, g) \subseteq Mine(pool', chunks', g)
    BY <2>1
  <2> QED BY <1>1, <1>5, <1>7, <2>2, SeenStays
<1>10. ~barrier => pool'.groups = <<>>
  <2>1. pool'.groups \in Seq(Seq(NodeSet))
    BY <1>7 DEF PoolOK, GroupsOK
  <2>2. ~barrier => Len(pool'.groups) = 0
    BY <1>5, <1>7, InGroup
  <2> QED BY <2>1, <2>2, EmptySeq
<1>11. barrier => minAlloc = 0
  BY DEF IInv
<1> QED BY <1>1, <1>7, <1>8, <1>9, <1>10, <1>11 DEF IInv

\* A call that leaves the used nodes and the groups as they are.
LEMMA SameUse ==
  ASSUME IInv, PoolOK(pool'), pool'.used = pool.used, pool'.groups = pool.groups,
         minAlloc' = minAlloc, chunks' = chunks, seen' = seen,
         barrier' = barrier \/ (barrier' = TRUE /\ minAlloc = 0)
  PROVE  IInv'
<1>1. /\ ChunksOK(chunks, pool.used) /\ SeenOK(seen, pool, chunks)
      /\ minAlloc \in MinAllocs /\ barrier \in BOOLEAN
      /\ (barrier => minAlloc = 0) /\ (~barrier => pool.groups = <<>>)
  BY DEF IInv
<1>2. ChunksOK(chunks', pool'.used)
  BY <1>1
<1>3. SeenOK(seen', pool', chunks')
  <2>1. \A g \in 1..Len(pool.groups) : Mine(pool, chunks, g) \subseteq Mine(pool', chunks', g)
    BY DEF Mine
  <2> QED BY <1>1, <2>1, SeenStays
<1>4. barrier' \in BOOLEAN /\ (barrier' => minAlloc' = 0) /\ (~barrier' => pool'.groups = <<>>)
  <2>1. CASE barrier' = barrier
    BY <1>1, <2>1
  <2>2. CASE barrier' = TRUE /\ minAlloc = 0
    BY <2>2
  <2> QED BY <2>1, <2>2
<1>5. minAlloc' \in MinAllocs
  BY <1>1
<1> QED BY <1>2, <1>3, <1>4, <1>5 DEF IInv

LEMMA ReleaseKeeps == ASSUME IInv, Release PROVE IInv'
<1>1. pool' = Settled(Dropped(pool)) /\ minAlloc' = minAlloc /\ chunks' = chunks /\ barrier' = barrier /\ seen' = seen
  BY DEF Release, Dropped
<1>2. PoolOK(pool') /\ pool'.used = pool.used /\ pool'.groups = pool.groups
  BY <1>1, ReleasedIs DEF IInv, ReleasedOf
<1> QED BY <1>1, <1>2, SameUse

LEMMA BarrierBeginKeeps == ASSUME IInv, BarrierBegin PROVE IInv'
<1>1. pool' = pool /\ minAlloc' = minAlloc /\ chunks' = chunks /\ barrier' = TRUE /\ minAlloc = 0 /\ seen' = seen
  BY DEF BarrierBegin
<1> QED BY <1>1, SameUse DEF IInv

LEMMA EndGroupKeeps == ASSUME IInv, EndGroup PROVE IInv'
<1> DEFINE held == Held(pool.groups)
           p == [pool EXCEPT !.current = 0]
           q == [pool EXCEPT !.groups = pool.groups, !.current = 0]
<1>1. pool' = p /\ minAlloc' = minAlloc /\ chunks' = chunks /\ barrier' = barrier /\ seen' = seen
  BY DEF EndGroup
<1>2. PoolOK(pool) /\ Stored(pool, held)
  BY DEF IInv, PoolOK
<1>3. p = q
  <2>1. Fields(pool)
    BY <1>2 DEF Stored
  <2> QED BY <2>1 DEF Fields
<1>4. Regrouped(q, pool, held, pool.groups, 0)
  BY <1>2, StoredRegrouped
<1> HIDE DEF p, q
<1>5. /\ Stored(q, Held(q.groups)) /\ GroupsOK(q.groups) /\ q.used = pool.used /\ q.groups = pool.groups
      /\ DOMAIN q.useCount = Ancestry(LeavesOf(q, Held(q.groups)))
      /\ q.current = 0 /\ q.totalSize = Total(q.blocks) /\ Len(q.groups) <= MaxGroups
  BY <1>2, <1>4 DEF Regrouped, PoolOK
<1>6. 0 \in 0..Len(q.groups)
  BY <1>5, InGroup
<1>7. PoolOK(q)
  BY <1>5, <1>6 DEF PoolOK
<1> QED BY <1>1, <1>3, <1>5, <1>7, SameUse

LEMMA EmptiedIs ==
  ASSUME NEW p, Fields(p)
  PROVE  [p EXCEPT !.used = <<>>, !.free = <<>>, !.totalSize = 0]
         = [used |-> <<>>, free |-> <<>>, groups |-> p.groups, current |-> p.current,
            useCount |-> p.useCount, blocks |-> p.blocks, totalSize |-> 0]
<1> DEFINE q == [p EXCEPT !.used = <<>>, !.free = <<>>, !.totalSize = 0]
<1>1. q = [p EXCEPT !.used = <<>>, !.free = <<>>, !.totalSize = 0]
  OBVIOUS
<1> HIDE DEF q
<1>2. q = [used |-> <<>>, free |-> <<>>, groups |-> p.groups, current |-> p.current,
           useCount |-> p.useCount, blocks |-> p.blocks, totalSize |-> 0]
  BY <1>1 DEF Fields
<1> QED BY <1>2 DEF q

LEMMA ReleaseAllKeeps == ASSUME IInv, ReleaseAll PROVE IInv'
<1> DEFINE p == [pool EXCEPT !.used = <<>>, !.free = <<>>, !.totalSize = 0]
<1>1. pool' = Settled(p) /\ minAlloc' = minAlloc /\ chunks' = chunks /\ barrier' = barrier /\ seen' = seen
      /\ chunks = {} /\ ~barrier
  BY DEF ReleaseAll
<1>2. PoolOK(pool) /\ Stored(pool, Held(pool.groups)) /\ GroupsOK(pool.groups) /\ pool.groups = <<>>
      /\ ChunksOK(chunks, pool.used) /\ pool.current = 0
  BY <1>1, InGroup DEF IInv, PoolOK
<1>3. DOMAIN pool.used = {} /\ Fields(pool)
  BY <1>1, <1>2 DEF ChunksOK, Stored
<1>4. p = [used |-> <<>>, free |-> <<>>, groups |-> <<>>, current |-> 0,
           useCount |-> pool.useCount, blocks |-> pool.blocks, totalSize |-> 0]
  <2>1. p = [used |-> <<>>, free |-> <<>>, groups |-> pool.groups, current |-> pool.current,
             useCount |-> pool.useCount, blocks |-> pool.blocks, totalSize |-> 0]
    BY <1>3, EmptiedIs
  <2> QED BY <1>2, <2>1
<1>5. /\ Fields(p) /\ p.used = <<>> /\ p.free = <<>> /\ p.groups = <<>> /\ p.current = 0
      /\ p.useCount = pool.useCount /\ p.blocks = pool.blocks /\ p.totalSize = 0
  BY <1>4 DEF Fields
<1> HIDE DEF p
<1>6. UsedOK(p.used) /\ ListOK(p.free) /\ GroupsOK(p.groups)
  <2>1. UsedOK(p.used)
    <3>1. DOMAIN p.used = {}
      BY <1>5
    <3>2. p.used = [at \in DOMAIN p.used |-> p.used[at]]
      BY <1>5
    <3> QED BY <3>1, <3>2 DEF UsedOK
  <2>2. ListOK(p.free)
    BY <1>5 DEF ListOK, Once
  <2>3. GroupsOK(p.groups)
    BY <1>5 DEF GroupsOK
  <2> QED BY <2>1, <2>2, <2>3
<1>7. LeavesOf(p, Held(p.groups)) = {}
  <2>1. \A i : i \notin 1..0
    OBVIOUS
  <2>2. Held(p.groups) = {} /\ Elems(p.free) = {} /\ Range(p.used) = {}
    BY <1>5, <2>1 DEF Held, Elems, Range
  <2> QED BY <2>2 DEF LeavesOf
<1>8. SettledTo(Settled(p), p, {})
  BY <1>5, <1>6, <1>7, SettledIs
<1>9. /\ Fields(pool') /\ pool'.used = <<>> /\ pool'.free = <<>> /\ pool'.groups = <<>> /\ pool'.current = 0
      /\ pool'.totalSize = 0 /\ pool'.blocks = Restrict(p.blocks, BlocksOf({}))
      /\ pool'.useCount = CountsOf({}, p.useCount)
  BY <1>1, <1>5, <1>8 DEF SettledTo
<1>10. DOMAIN pool'.useCount = {} /\ DOMAIN pool'.blocks = {} /\ pool'.blocks = [b \in {} |-> pool'.blocks[b]]
  <2>1. DOMAIN pool'.useCount = {}
    BY <1>9 DEF CountsOf, Ancestry
  <2>2. BlocksOf({}) = {}
    BY DEF BlocksOf
  <2>3. pool'.blocks = [b \in {} |-> p.blocks[b]]
    BY <1>9, <2>2 DEF Restrict
  <2> QED BY <2>1, <2>3
<1>11. PoolOK(pool')
  BY <1>9, <1>10, EmptyPoolOK
<1>12. ChunksOK(chunks', pool'.used)
  <2>1. DOMAIN pool'.used = {}
    BY <1>9
  <2> QED BY <1>1, <2>1 DEF ChunksOK
<1>13. SeenOK(seen', pool', chunks')
  <2>1. SeenOK(seen, pool, chunks) /\ Len(pool'.groups) = Len(pool.groups)
    BY <1>2, <1>9 DEF IInv
  <2>2. \A g \in 1..Len(pool.groups) : Mine(pool, chunks, g) \subseteq Mine(pool', chunks', g)
    BY <1>2
  <2> QED BY <1>1, <2>1, <2>2, SeenStays
<1>14. minAlloc' \in MinAllocs /\ barrier' \in BOOLEAN /\ ~barrier'
  BY <1>1 DEF IInv
<1> QED BY <1>9, <1>11, <1>12, <1>13, <1>14 DEF IInv

\* A group more, without nodes.
LEMMA GroupAdded ==
  ASSUME NEW groups, GroupsOK(groups)
  PROVE  /\ GroupsOK(Append(groups, <<>>)) /\ Held(Append(groups, <<>>)) = Held(groups)
         /\ Len(Append(groups, <<>>)) = Len(groups) + 1
         /\ \A g \in 1..Len(groups) : Append(groups, <<>>)[g] = groups[g]
<1> DEFINE new == Append(groups, <<>>)
           N == Len(groups)
<1>1. groups \in Seq(Seq(NodeSet)) /\ N \in Nat
  <2>1. groups \in Seq(Seq(NodeSet))
    BY DEF GroupsOK
  <2> QED BY <2>1
<1>2. <<>> \in Seq(NodeSet)
  OBVIOUS
<1>3. new \in Seq(Seq(NodeSet)) /\ Len(new) = N + 1 /\ new[N + 1] = <<>> /\ \A g \in 1..N : new[g] = groups[g]
  BY <1>1, <1>2, AppendProperties
<1>4. Elems(<<>>) = {} /\ ListOK(<<>>)
  <2>1. \A i : i \notin 1..0
    OBVIOUS
  <2> QED BY <2>1 DEF Elems, ListOK, Once
<1>5. (\A g \in 1..N : ListOK(groups[g]))
      /\ \A g, h \in 1..N : g # h => Elems(groups[g]) \cap Elems(groups[h]) = {}
  BY DEF GroupsOK
<1> HIDE DEF new, N
<1>6. \A g : g \in 1..N + 1 <=> g \in 1..N \/ g = N + 1
  BY <1>1
<1>7. GroupsOK(new)
  <2>1. \A g \in 1..N + 1 : ListOK(new[g])
    BY <1>3, <1>4, <1>5, <1>6
  <2>2. \A g, h \in 1..N + 1 : g # h => Elems(new[g]) \cap Elems(new[h]) = {}
    BY <1>3, <1>4, <1>5, <1>6
  <2> QED BY <1>3, <2>1, <2>2 DEF GroupsOK
<1>8. Held(new) = Held(groups)
  <2>1. ASSUME NEW n PROVE (\E g \in 1..N + 1 : n \in Elems(new[g])) <=> \E g \in 1..N : n \in Elems(groups[g])
    BY <1>3, <1>4, <1>6
  <2> QED BY <1>3, <2>1 DEF Held, N
<1> QED BY <1>3, <1>7, <1>8 DEF new, N

LEMMA BeginGroupKeeps == ASSUME IInv, BeginGroup PROVE IInv'
<1> DEFINE N == Len(pool.groups)
           new == Append(pool.groups, <<>>)
           p == [pool EXCEPT !.groups = new, !.current = N + 1]
<1>1. /\ pool' = p /\ minAlloc' = minAlloc /\ chunks' = chunks /\ barrier' = barrier /\ barrier
      /\ seen' = Append(seen, {}) /\ N < MaxGroups
  BY DEF BeginGroup
<1>2. /\ PoolOK(pool) /\ ChunksOK(chunks, pool.used) /\ SeenOK(seen, pool, chunks) /\ minAlloc \in MinAllocs
      /\ (barrier => minAlloc = 0) /\ N \in Nat
  BY InGroup DEF IInv
<1>3. GroupsOK(new) /\ Held(new) = Held(pool.groups) /\ Len(new) = N + 1 /\ \A g \in 1..N : new[g] = pool.groups[g]
  BY <1>2, GroupAdded DEF PoolOK
<1>4. Regrouped(p, pool, Held(new), new, N + 1)
  BY <1>2, <1>3, StoredRegrouped DEF PoolOK
<1> HIDE DEF p, new
<1>5. PoolOK(p)
  <2>1. /\ Stored(p, Held(p.groups)) /\ GroupsOK(p.groups) /\ p.current = N + 1 /\ Len(p.groups) = N + 1
        /\ p.totalSize = Total(p.blocks)
        /\ DOMAIN p.useCount = Ancestry(LeavesOf(p, Held(p.groups)))
    BY <1>2, <1>3, <1>4 DEF Regrouped, PoolOK
  <2>2. p.current \in 0..Len(p.groups) /\ Len(p.groups) <= MaxGroups
    BY <1>1, <1>2, <2>1, EagerAssumption
  <2> QED BY <2>1, <2>2 DEF PoolOK
<1>6. pool'.used = pool.used /\ pool'.groups = new
  BY <1>1, <1>4 DEF Regrouped
<1>7. ChunksOK(chunks', pool'.used)
  BY <1>1, <1>2, <1>6
<1>8. SeenOK(seen', pool', chunks')
  <2>1. seen = [g \in 1..N |-> seen[g]]
        /\ \A g \in 1..N : \A e \in seen[g] : \E n \in Mine(pool, chunks, g) : e = <<Pointer(n), NodeSize(n)>>
    BY <1>2 DEF SeenOK
  <2>2. seen' = [g \in 1..N + 1 |-> seen'[g]] /\ seen'[N + 1] = {} /\ \A g \in 1..N : seen'[g] = seen[g]
    <3> DEFINE V == {seen[g] : g \in 1..N} \cup {{}}
    <3>1. seen \in [1..N -> V]
      BY <2>1
    <3>2. seen \in Seq(V) /\ Len(seen) = N
      BY <1>2, <3>1
    <3>3. {} \in V
      OBVIOUS
    <3> HIDE DEF V
    <3>4. /\ Append(seen, {}) \in Seq(V) /\ Len(Append(seen, {})) = N + 1
          /\ Append(seen, {})[N + 1] = {} /\ \A g \in 1..N : Append(seen, {})[g] = seen[g]
      BY <3>2, <3>3, AppendProperties
    <3>5. seen' \in [1..N + 1 -> V]
      BY <1>1, <3>4, LenProperties
    <3> QED BY <1>1, <3>4, <3>5
  <2>3. \A g : g \in 1..N + 1 <=> g \in 1..N \/ g = N + 1
    BY <1>2
  <2>4. \A g \in 1..N : Mine(pool', chunks', g) = Mine(pool, chunks, g)
    BY <1>1, <1>3, <1>6 DEF Mine
  <2>5. \A g \in 1..N + 1 : \A e \in seen'[g] : \E n \in Mine(pool', chunks', g) : e = <<Pointer(n), NodeSize(n)>>
    <3> TAKE g \in 1..N + 1
    <3>1. CASE g = N + 1
      BY <2>2, <3>1
    <3>2. CASE g \in 1..N
      <4>1. seen'[g] = seen[g] /\ Mine(pool', chunks', g) = Mine(pool, chunks, g)
        BY <2>2, <2>4, <3>2
      <4> QED BY <2>1, <3>2, <4>1
    <3> QED BY <2>3, <3>1, <3>2
  <2>6. Len(pool'.groups) = N + 1
    BY <1>3, <1>6
  <2> QED BY <2>2, <2>5, <2>6 DEF SeenOK
<1> QED BY <1>1, <1>2, <1>5, <1>7, <1>8 DEF IInv

LEMMA BarrierEndKeeps == ASSUME IInv, BarrierEnd PROVE IInv'
<1> DEFINE p == [pool EXCEPT !.groups = <<>>]
           q == [pool EXCEPT !.groups = <<>>, !.current = 0]
           held == Held(pool.groups)
           r == ReturnGroups(p, pool.groups)
<1>1. /\ pool' = Settled(r) /\ minAlloc' = minAlloc /\ barrier' = FALSE /\ pool.current = 0 /\ seen' = <<>>
      /\ chunks' = {[c EXCEPT !.group = 0] : c \in chunks}
  BY DEF BarrierEnd
<1>2. PoolOK(pool) /\ ChunksOK(chunks, pool.used) /\ minAlloc \in MinAllocs /\ Stored(pool, held) /\ GroupsOK(pool.groups)
  BY DEF IInv, PoolOK
<1>3. p = q
  <2>1. Fields(pool)
    BY <1>2 DEF Stored
  <2> QED BY <1>1, <2>1 DEF Fields
<1>4. Regrouped(q, pool, held, <<>>, 0)
  BY <1>2, StoredRegrouped
<1> HIDE DEF p, q
<1>5. /\ Stored(p, held) /\ p.used = pool.used /\ p.groups = <<>> /\ p.current = 0
      /\ p.blocks = pool.blocks /\ p.totalSize = pool.totalSize
  BY <1>3, <1>4 DEF Regrouped
<1>6. ReturnedOf(r, p, {})
  BY <1>2, <1>5, StoredGroupsReturned
<1> HIDE DEF r
<1>7. /\ Stored(r, {}) /\ r.used = pool.used /\ r.groups = <<>> /\ r.current = 0
      /\ r.totalSize = Total(r.blocks)
  BY <1>2, <1>5, <1>6 DEF ReturnedOf, PoolOK
<1>8. Held(r.groups) = {} /\ GroupsOK(r.groups) /\ r.current \in 0..Len(r.groups) /\ Len(r.groups) <= MaxGroups
  <2>1. \A i : i \notin 1..0
    OBVIOUS
  <2>2. Held(<<>>) = {}
    BY <2>1 DEF Held
  <2>3. GroupsOK(<<>>)
    BY DEF GroupsOK
  <2> QED BY <1>7, <2>2, <2>3, EagerAssumption
<1>9. PoolOK(pool') /\ pool'.used = pool.used /\ pool'.groups = <<>>
  BY <1>1, <1>7, <1>8, PoolSettled
<1>10. ChunksOK(chunks', pool'.used)
  <2>1. \A c \in chunks : /\ c = [at |-> c.at, size |-> c.size, group |-> c.group]
                          /\ c.at \in DOMAIN pool.used /\ NodeSize(pool.used[c.at]) >= c.size
                          /\ c.size \in Requests /\ c.group \in 0..MaxGroups
    BY <1>2 DEF ChunksOK
  <2>2. (\A x \in DOMAIN pool.used : \E d \in chunks : d.at = x) /\ \A d, e \in chunks : d.at = e.at => d = e
    BY <1>2 DEF ChunksOK
  <2>3. \A c \in chunks : [c EXCEPT !.group = 0] = [at |-> c.at, size |-> c.size, group |-> 0]
    BY <2>1
  <2>4. \A d : d \in chunks' <=> \E c \in chunks : d = [at |-> c.at, size |-> c.size, group |-> 0]
    BY <1>1, <2>3
  <2>5. 0 \in 0..MaxGroups
    BY EagerAssumption
  <2>6. \A d \in chunks' : /\ d = [at |-> d.at, size |-> d.size, group |-> d.group]
                           /\ d.at \in DOMAIN pool.used /\ NodeSize(pool.used[d.at]) >= d.size
                           /\ d.size \in Requests /\ d.group \in 0..MaxGroups
    <3> TAKE d \in chunks'
    <3>1. PICK c \in chunks : d = [at |-> c.at, size |-> c.size, group |-> 0]
      BY <2>4
    <3>2. d.at = c.at /\ d.size = c.size /\ d.group = 0
      BY <3>1
    <3> QED BY <2>1, <2>5, <3>1, <3>2
  <2>7. \A x \in DOMAIN pool.used : \E d \in chunks' : d.at = x
    <3> TAKE x \in DOMAIN pool.used
    <3>1. PICK c \in chunks : c.at = x
      BY <2>2
    <3> DEFINE d == [at |-> c.at, size |-> c.size, group |-> 0]
    <3>2. d.at = x
      BY <3>1
    <3>3. d \in chunks'
      BY <2>4, <3>1
    <3> QED BY <3>2, <3>3
  <2>8. \A d, e \in chunks' : d.at = e.at => d = e
    <3> TAKE d, e \in chunks'
    <3>1. PICK c1 \in chunks : d = [at |-> c1.at, size |-> c1.size, group |-> 0]
      BY <2>4
    <3>2. PICK c2 \in chunks : e = [at |-> c2.at, size |-> c2.size, group |-> 0]
      BY <2>4
    <3>3. d.at = c1.at /\ e.at = c2.at
      BY <3>1, <3>2
    <3> QED BY <2>2, <3>1, <3>2, <3>3
  <2> QED BY <1>9, <2>6, <2>7, <2>8 DEF ChunksOK
<1>11. SeenOK(seen', pool', chunks')
  <2>1. Len(pool'.groups) = 0 /\ \A g : g \notin 1..0
    BY <1>9
  <2>2. seen' = [g \in 1..Len(pool'.groups) |-> seen'[g]]
    BY <1>1, <2>1
  <2> QED BY <2>1, <2>2 DEF SeenOK
<1> QED BY <1>1, <1>2, <1>9, <1>10, <1>11 DEF IInv

LEMMA NextKeeps == ASSUME IInv, [Next]_vars PROVE IInv'
<1>1. ASSUME NEW size \in Requests, NEW separate \in BOOLEAN, Alloc(size, separate) PROVE IInv'
  BY <1>1, AllocKeeps
<1>2. ASSUME NEW c \in chunks, Free(c) PROVE IInv'
  BY <1>2, FreeKeeps
<1>3. CASE UNCHANGED vars
  <2>1. PoolOK(pool')
    BY <1>3 DEF vars, IInv
  <2> QED BY <1>3, <2>1, SameUse DEF vars
<1> QED BY <1>1, <1>2, <1>3, ReleaseKeeps, ReleaseAllKeeps, BarrierBeginKeeps, BeginGroupKeeps,
           EndGroupKeeps, BarrierEndKeeps DEF Next

LEMMA SpecIInv == Spec => []IInv
<1>1. IInv /\ [Next]_vars => IInv'
  BY NextKeeps
<1> QED BY InitIInv, <1>1, PTL DEF Spec

-----------------------------------------------------------------------------
(* What the invariant says of the memory.                                   *)

\* What is given to two groups of a barrier is in different memory: whatever a
\* group was ever given is still in its list or in use by it, and neither is
\* anybody else's (BufferAllocator.cpp:205-216, 268-298, 350-424).
THEOREM GroupsStaySeparate == Spec => []GroupsSeparate
<1>1. ASSUME IInv PROVE GroupsSeparate
  <2> DEFINE held == Held(pool.groups)
             leaves == LeavesOf(pool, held)
             N == Len(pool.groups)
  <2>1. /\ PoolOK(pool) /\ Stored(pool, held) /\ GroupsOK(pool.groups)
        /\ ChunksOK(chunks, pool.used) /\ SeenOK(seen, pool, chunks)
    BY <1>1 DEF IInv, PoolOK
  <2>2. Tree(leaves, Elems(pool.free), pool.useCount, pool.blocks) /\ held \cap Range(pool.used) = {}
    BY <2>1 DEF Stored
  <2>3. DOMAIN seen = 1..N
        /\ \A g \in 1..N : \A e \in seen[g] : \E n \in Mine(pool, chunks, g) : e = <<Pointer(n), NodeSize(n)>>
    BY <2>1 DEF SeenOK
  <2>4. ASSUME NEW g \in 1..N, NEW n \in Mine(pool, chunks, g)
        PROVE  \/ n \in Elems(pool.groups[g]) /\ n \in held
               \/ \E c \in chunks : c.group = g /\ n = pool.used[c.at] /\ c.at = Pointer(n) /\ n \in Range(pool.used)
    <3>1. CASE n \in Elems(pool.groups[g])
      BY <3>1 DEF Held
    <3>2. CASE \E c \in chunks : c.group = g /\ n = pool.used[c.at]
      <4>1. PICK c \in chunks : c.group = g /\ n = pool.used[c.at]
        BY <3>2
      <4>2. c.at \in DOMAIN pool.used
        BY <2>1 DEF ChunksOK
      <4>3. n \in Range(pool.used) /\ Pointer(n) = c.at
        BY <2>1, <4>1, <4>2 DEF Range, Stored, UsedOK
      <4> QED BY <4>1, <4>3
    <3> QED BY <3>1, <3>2 DEF Mine
  <2>5. ASSUME NEW g \in 1..N, NEW h \in 1..N, g # h,
               NEW n \in Mine(pool, chunks, g), NEW m \in Mine(pool, chunks, h)
        PROVE  n # m /\ n \in leaves /\ m \in leaves
    <3>1. Elems(pool.groups[g]) \cap Elems(pool.groups[h]) = {}
      BY <2>1, <2>5 DEF GroupsOK
    <3>2. \A c, d \in chunks : c.at = d.at => c = d
      BY <2>1 DEF ChunksOK
    <3>3. n \in held \cup Range(pool.used) /\ m \in held \cup Range(pool.used)
      BY <2>4
    <3>4. n # m
      <4> SUFFICES ASSUME n = m PROVE FALSE
        OBVIOUS
      <4>1. CASE n \in held
        <5>1. n \notin Range(pool.used)
          BY <2>2, <4>1
        <5> HIDE DEF held
        <5>2. n \in Elems(pool.groups[g]) /\ m \in Elems(pool.groups[h])
          BY <2>4, <5>1
        <5> QED BY <3>1, <5>2
      <4>2. CASE n \notin held
        <5> HIDE DEF held
        <5>1. PICK c \in chunks : c.group = g /\ c.at = Pointer(n)
          BY <2>4, <4>2
        <5>2. PICK d \in chunks : d.group = h /\ d.at = Pointer(n)
          BY <2>4, <4>2
        <5> QED BY <2>5, <3>2, <5>1, <5>2
      <4> QED BY <4>1, <4>2
    <3> QED BY <3>3, <3>4 DEF LeavesOf
  <2> HIDE DEF leaves, held, N
  <2> SUFFICES ASSUME NEW g \in DOMAIN seen, NEW h \in DOMAIN seen, g # h,
                      NEW e \in seen[g], NEW f \in seen[h]
               PROVE  ~Overlap(e, f)
    BY DEF GroupsSeparate
  <2>6. g \in 1..N /\ h \in 1..N
    BY <2>3
  <2>7. PICK n \in Mine(pool, chunks, g) : e = <<Pointer(n), NodeSize(n)>>
    BY <2>3, <2>6
  <2>8. PICK m \in Mine(pool, chunks, h) : f = <<Pointer(m), NodeSize(m)>>
    BY <2>3, <2>6
  <2>9. n # m /\ n \in leaves /\ m \in leaves
    BY <2>5, <2>6
  <2>10. n \in NodeSet /\ m \in NodeSet
    BY <2>2, <2>9 DEF Tree
  <2>11. /\ Extent(n).lo \in Nat /\ Extent(m).lo \in Nat /\ NodeSize(n) \in Nat /\ NodeSize(m) \in Nat
    BY <2>10, NodeFields
  <2>12. /\ e[1][1] = n.block /\ f[1][1] = m.block /\ e[1][2] = Extent(n).lo /\ f[1][2] = Extent(m).lo
         /\ e[2] = NodeSize(n) /\ f[2] = NodeSize(m)
    BY <2>7, <2>8 DEF Pointer
  <2>13. CASE n.block # m.block
    BY <2>12, <2>13 DEF Overlap
  <2>14. CASE n.block = m.block
    <3>1. Disjoint(n, m)
      BY <2>2, <2>9, <2>14, LeavesApart
    <3> QED BY <2>11, <2>12, <3>1 DEF Overlap, Disjoint
  <2> QED BY <2>13, <2>14
<1> QED BY SpecIInv, <1>1, PTL

\* Of some nodes that are not ever deeper, one is the deepest.
LEMMA Deepest ==
  ASSUME NEW S \in SUBSET NodeSet, S # {}, Bounded(S)
  PROVE  \E a \in S : \A x \in S : Depth(x) <= Depth(a)
<1>1. PICK d \in Nat : \A a \in S : Depth(a) <= d
  BY DEF Bounded
<1>2. \A a \in S : Depth(a) \in Nat
  BY NodeFields
<1> DEFINE T == {d - Depth(a) : a \in S}
<1>3. T \in SUBSET Nat /\ T # {}
  BY <1>1, <1>2
<1>4. PICK t \in T : \A y \in T : t <= y
  BY <1>3, LeastNat
<1>5. PICK a \in S : t = d - Depth(a)
  BY <1>4
<1>6. \A x \in S : d - Depth(a) <= d - Depth(x)
  BY <1>4, <1>5
<1> QED BY <1>1, <1>2, <1>5, <1>6

LEMMA Shallowest ==
  ASSUME NEW S \in SUBSET NodeSet, S # {}
  PROVE  \E a \in S : \A x \in S : Depth(a) <= Depth(x)
<1>1. \A a \in S : Depth(a) \in Nat
  BY NodeFields
<1> DEFINE T == {Depth(a) : a \in S}
<1>2. T \in SUBSET Nat /\ T # {}
  BY <1>1
<1>3. PICK t \in T : \A y \in T : t <= y
  BY <1>2, LeastNat
<1>4. PICK a \in S : t = Depth(a)
  BY <1>3
<1>5. \A x \in S : Depth(a) <= Depth(x)
  BY <1>3, <1>4
<1> QED BY <1>4, <1>5

\* A block whose leaves are all free is one node.
LEMMA FreeBlock ==
  ASSUME NEW leaves, NEW free, NEW count, NEW sizes, Tree(leaves, free, count, sizes),
         NEW n \in leaves, \A m \in leaves : m.block = n.block => m \in free
  PROVE  IsRoot(n)
<1> DEFINE A == Ancestry(leaves)
           S == {a \in A \ leaves : a.block = n.block}
<1>1. leaves \subseteq NodeSet /\ Leaves(leaves) /\ Bounded(A) /\ Counted(A, leaves, free, count)
  BY DEF Tree
<1>2. /\ A \subseteq NodeSet /\ leaves \subseteq A
      /\ \A a \in A : \A x \in NodeSet : Under(x, a) => x \in A
      /\ \A m \in leaves : \A a \in A : Under(m, a) => a = m
  BY <1>1, Family
<1> HIDE DEF A
<1>3. S = {}
  <2> SUFFICES ASSUME S # {} PROVE FALSE
    OBVIOUS
  <2>1. S \in SUBSET NodeSet /\ Bounded(S)
    BY <1>1, <1>2 DEF Bounded
  <2>2. PICK a \in S : \A x \in S : Depth(x) <= Depth(a)
    BY <2>1, Deepest
  <2>3. Halved(A, free, count, a)
    BY <1>1 DEF Counted
  <2>4. PICK x \in A, y \in A : Parts(A, a) = {x, y} /\ count[a] = Busy(free, x) + Busy(free, y) /\ count[a] >= 1
    BY <2>3 DEF Halved
  <2>5. ASSUME NEW z \in {x, y} PROVE z \in free
    <3>1. z \in A /\ ~IsRoot(z) /\ Parent(z) = a
      BY <2>4 DEF Parts
    <3>2. Depth(a) = Depth(z) - 1 /\ a.block = z.block /\ Depth(z) \in Nat
      BY <1>2, <3>1, ParentIs, NodeFields
    <3>3. z \notin S
      BY <2>2, <3>2
    <3>4. z \in leaves /\ z.block = n.block
      BY <3>1, <3>2, <3>3
    <3> QED BY <3>4
  <2>6. count[a] = 0
    BY <2>4, <2>5 DEF Busy
  <2> QED BY <2>4, <2>6
<1>4. PICK r \in NodeSet : IsRoot(r) /\ Under(r, n)
  BY <1>1, HasRoot
<1>5. r \in A /\ r.block = n.block
  BY <1>2, <1>4 DEF Under
<1>6. r \in leaves
  BY <1>3, <1>5
<1>7. n = r
  BY <1>2, <1>4, <1>6
<1> QED BY <1>4, <1>7

\* A block that nobody uses is one free node once more, whatever was allocated and
\* freed in which order: the use counts of its nodes are those of their busy parts
\* (BufferAllocator.cpp:268-298, 348-356).
THEOREM BlocksMergeBack == Spec => []MergesBack
<1>1. ASSUME IInv PROVE MergesBack
  <2> DEFINE leaves == LeavesOf(pool, Held(pool.groups))
             free == Elems(pool.free)
  <2> SUFFICES ASSUME NEW b \in DOMAIN pool.blocks, ~barrier, \A c \in chunks : c.at[1] # b
               PROVE  \E i \in DOMAIN pool.free : pool.free[i] = Root(b, pool.blocks[b])
    BY DEF MergesBack
  <2>1. /\ Stored(pool, Held(pool.groups)) /\ ChunksOK(chunks, pool.used) /\ pool.groups = <<>>
    BY <1>1 DEF IInv, PoolOK
  <2>2. /\ Tree(leaves, free, pool.useCount, pool.blocks) /\ ListOK(pool.free)
        /\ \A x \in DOMAIN pool.blocks : pool.blocks[x] \in Nat
        /\ \A x \in DOMAIN pool.blocks : \E n \in leaves : n.block = x
    BY <2>1 DEF Stored
  <2>3. Held(pool.groups) = {}
    <3>1. \A i : i \notin 1..0
      OBVIOUS
    <3> QED BY <2>1, <3>1 DEF Held
  <2>4. PICK n \in leaves : n.block = b
    BY <2>2
  <2>5. \A m \in leaves : m.block = n.block => m \in free
    <3> SUFFICES ASSUME NEW m \in Range(pool.used), m.block = b PROVE FALSE
      BY <2>3, <2>4 DEF LeavesOf
    <3>1. PICK at \in DOMAIN pool.used : m = pool.used[at]
      BY DEF Range
    <3>2. at[1] = b
      BY <2>1, <3>1, UsedBlock
    <3>3. \E c \in chunks : c.at = at
      BY <2>1 DEF ChunksOK
    <3> QED BY <3>2, <3>3
  <2>6. n \in NodeSet /\ n.path[1] = [lo |-> 0, size |-> pool.blocks[b]]
    <3>1. leaves \subseteq NodeSet /\ Based(Ancestry(leaves), pool.blocks)
      BY <2>2 DEF Tree
    <3> HIDE DEF leaves
    <3>2. n \in Ancestry(leaves)
      BY <3>1, AncestryIs, UnderItself
    <3> QED BY <2>4, <3>1, <3>2 DEF Based
  <2>7. n \in free
    BY <2>5
  <2> HIDE DEF leaves, free
  <2>8. IsRoot(n)
    BY <2>2, <2>5, FreeBlock
  <2>9. n = Root(b, pool.blocks[b])
    BY <2>2, <2>4, <2>6, <2>8, RootOf
  <2>10. DOMAIN pool.free = 1..Len(pool.free)
    BY <2>2, RangeIs DEF ListOK
  <2> QED BY <2>7, <2>9, <2>10 DEF Elems, free
<1> QED BY SpecIInv, <1>1, PTL

-----------------------------------------------------------------------------
(* Every byte is in one list, once.                                         *)

\* A node lies in its block.
LEMMA Contained ==
  ASSUME NEW leaves, NEW free, NEW count, NEW sizes, Tree(leaves, free, count, sizes),
         NEW n \in Ancestry(leaves)
  PROVE  n \in NodeSet /\ n.block \in DOMAIN sizes /\ Extent(n).lo + NodeSize(n) <= sizes[n.block]
<1> DEFINE A == Ancestry(leaves)
           Inside(a) == Extent(a).lo + NodeSize(a) <= sizes[a.block]
           S == {a \in A : ~Inside(a)}
<1>1. leaves \subseteq NodeSet /\ Leaves(leaves) /\ Counted(A, leaves, free, count) /\ Based(A, sizes)
  BY DEF Tree
<1>2. A \subseteq NodeSet /\ \A a \in A : ~IsRoot(a) => Parent(a) \in A /\ Parent(a) \notin leaves
  BY <1>1, Family
<1> HIDE DEF A
<1>3. S = {}
  <2> SUFFICES ASSUME S # {} PROVE FALSE
    OBVIOUS
  <2>1. PICK a \in S : \A x \in S : Depth(a) <= Depth(x)
    <3>1. S \in SUBSET NodeSet
      BY <1>2
    <3> HIDE DEF S
    <3> QED BY <3>1, Shallowest
  <2>2. a \in A /\ a \in NodeSet /\ ~Inside(a)
    BY <1>2
  <2> HIDE DEF Inside
  <2>3. CASE IsRoot(a)
    <3>1. Extent(a) = [lo |-> 0, size |-> sizes[a.block]]
      BY <1>1, <2>2, <2>3, NodeFields DEF Based
    <3>2. Extent(a).lo = 0 /\ NodeSize(a) = sizes[a.block] /\ NodeSize(a) \in Nat
      BY <2>2, <3>1, NodeFields DEF NodeSize
    <3> QED BY <2>2, <3>2 DEF Inside
  <2>4. CASE ~IsRoot(a)
    <3> DEFINE p == Parent(a)
    <3>1. p \in A /\ p \notin leaves /\ p \in NodeSet /\ Depth(p) = Depth(a) - 1 /\ p.block = a.block
      BY <1>2, <2>2, <2>4, ParentIs
    <3>2. Inside(p)
      <4>1. Depth(a) \in Nat
        BY <2>2, NodeFields
      <4> HIDE DEF p
      <4> QED BY <2>1, <3>1, <4>1
    <3>3. Halved(A, free, count, p)
      BY <1>1, <3>1 DEF Counted
    <3>4. a \in Parts(A, p)
      BY <2>2, <2>4 DEF Parts
    <3> HIDE DEF p
    <3>5. PICK x \in A, y \in A :
             /\ Parts(A, p) = {x, y} /\ Extent(x).lo = Extent(p).lo
             /\ Extent(y).lo = Extent(x).lo + NodeSize(x) /\ NodeSize(p) = NodeSize(x) + NodeSize(y)
      BY <3>3 DEF Halved
    <3>6. x \in NodeSet /\ y \in NodeSet
      BY <1>2
    <3>7. /\ NodeSize(x) \in Nat /\ NodeSize(y) \in Nat /\ Extent(x).lo \in Nat /\ Extent(y).lo \in Nat
          /\ NodeSize(p) \in Nat /\ Extent(p).lo \in Nat
      BY <3>1, <3>6, NodeFields
    <3>8. Extent(a).lo + NodeSize(a) <= Extent(p).lo + NodeSize(p)
      BY <3>4, <3>5, <3>7
    <3>9. sizes[a.block] = Extent(p).lo + NodeSize(p) \/ Extent(p).lo + NodeSize(p) <= sizes[a.block]
      BY <3>1, <3>2 DEF Inside
    <3>10. Inside(a)
      <4>1. sizes[a.block] \in Nat
        <5>1. PICK r \in NodeSet : IsRoot(r) /\ Under(r, a) /\ r.path[1] = a.path[1]
          BY <2>2, HasRoot
        <5>2. a.path[1] = [lo |-> 0, size |-> sizes[a.block]]
          BY <1>1, <2>2 DEF Based
        <5>3. a.path[1] \in ExtentSet
          BY <2>2, NodeFields
        <5> QED BY <5>2, <5>3 DEF ExtentSet
      <4>2. NodeSize(a) \in Nat /\ Extent(a).lo \in Nat
        BY <2>2, NodeFields
      <4> QED BY <3>7, <3>8, <3>9, <4>1, <4>2 DEF Inside
    <3> QED BY <2>2, <3>10
  <2> QED BY <2>3, <2>4
<1>4. n \in A
  BY DEF A
<1> QED BY <1>1, <1>2, <1>3, <1>4 DEF Based

\* A byte of a block is in one of its leaves only.
LEMMA CoveredOnce ==
  ASSUME NEW leaves, NEW free, NEW count, NEW sizes, Tree(leaves, free, count, sizes),
         NEW b \in DOMAIN sizes, sizes[b] \in Nat, \E n \in leaves : n.block = b,
         NEW x \in 0..sizes[b] - 1
  PROVE  \E n \in leaves : Covers(n, b, x) /\ \A m \in leaves : Covers(m, b, x) => m = n
<1> DEFINE A == Ancestry(leaves)
           S == {a \in A : Covers(a, b, x)}
<1>1. /\ leaves \subseteq NodeSet /\ Leaves(leaves) /\ Bounded(A)
      /\ Counted(A, leaves, free, count) /\ Based(A, sizes)
  BY DEF Tree
<1>2. /\ A \subseteq NodeSet /\ leaves \subseteq A
      /\ \A a \in A : \A y \in NodeSet : Under(y, a) => y \in A
  BY <1>1, Family
<1> HIDE DEF A
<1>3. S # {}
  <2>1. PICK n \in leaves : n.block = b
    OBVIOUS
  <2>2. PICK r \in NodeSet : IsRoot(r) /\ Under(r, n)
    BY <1>1, HasRoot
  <2>3. r \in A /\ r.block = b
    BY <1>2, <2>1, <2>2 DEF Under
  <2>4. Extent(r) = [lo |-> 0, size |-> sizes[b]]
    BY <1>1, <2>2, <2>3, NodeFields DEF Based
  <2>5. Covers(r, b, x)
    BY <2>3, <2>4 DEF Covers, NodeSize
  <2> QED BY <2>3, <2>5
<1>4. PICK a \in S : \A y \in S : Depth(y) <= Depth(a)
  <2>1. S \in SUBSET NodeSet /\ Bounded(S)
    BY <1>1, <1>2 DEF Bounded
  <2> HIDE DEF S
  <2> QED BY <1>3, <2>1, Deepest
<1>5. a \in A /\ a \in NodeSet /\ Covers(a, b, x)
  BY <1>2
<1>6. a \in leaves
  <2> SUFFICES ASSUME a \notin leaves PROVE FALSE
    OBVIOUS
  <2>1. Halved(A, free, count, a)
    BY <1>1, <1>5 DEF Counted
  <2>2. PICK y \in A, z \in A :
           /\ Parts(A, a) = {y, z} /\ Extent(y).lo = Extent(a).lo
           /\ Extent(z).lo = Extent(y).lo + NodeSize(y) /\ NodeSize(a) = NodeSize(y) + NodeSize(z)
    BY <2>1 DEF Halved
  <2>3. /\ y \in NodeSet /\ ~IsRoot(y) /\ Parent(y) = a
        /\ z \in NodeSet /\ ~IsRoot(z) /\ Parent(z) = a
    BY <1>2, <2>2 DEF Parts
  <2>4. /\ Depth(a) = Depth(y) - 1 /\ y.block = a.block /\ Depth(a) = Depth(z) - 1 /\ z.block = a.block
        /\ Depth(y) \in Nat /\ Depth(z) \in Nat
    BY <2>3, ParentIs, NodeFields
  <2>5. y \notin S /\ z \notin S
    BY <1>4, <2>4
  <2>6. NodeSize(y) \in Nat /\ NodeSize(z) \in Nat /\ Extent(a).lo \in Nat
    BY <1>5, <2>3, NodeFields
  <2>7. Covers(y, b, x) \/ Covers(z, b, x)
    BY <1>5, <2>2, <2>4, <2>6 DEF Covers
  <2> QED BY <2>2, <2>5, <2>7
<1>7. ASSUME NEW m \in leaves, Covers(m, b, x), m # a PROVE FALSE
  <2>1. m.block = a.block
    BY <1>5, <1>7 DEF Covers
  <2>2. Disjoint(a, m)
    BY <1>6, <1>7, <2>1, LeavesApart
  <2>3. m \in NodeSet
    BY <1>1
  <2>4. /\ NodeSize(m) \in Nat /\ NodeSize(a) \in Nat /\ Extent(a).lo \in Nat /\ Extent(m).lo \in Nat
    BY <1>5, <2>3, NodeFields
  <2> QED BY <1>5, <1>7, <2>2, <2>4 DEF Covers, Disjoint
<1> QED BY <1>5, <1>6, <1>7

\* How many places of a list or a map refer to one node.
LEMMA UsedPlaces ==
  ASSUME NEW used, UsedOK(used), NEW n, NEW b, NEW x, Covers(n, b, x),
         \A m \in Range(used) : Covers(m, b, x) => m = n
  PROVE  Cardinality({at \in DOMAIN used : Covers(used[at], b, x)}) = IF n \in Range(used) THEN 1 ELSE 0
<1> DEFINE S == {at \in DOMAIN used : Covers(used[at], b, x)}
<1>1. \A at \in DOMAIN used : used[at] \in Range(used) /\ Pointer(used[at]) = at
  BY DEF Range, UsedOK
<1>2. S = {at \in DOMAIN used : used[at] = n}
  BY <1>1
<1>3. CASE n \in Range(used)
  <2>1. PICK at \in DOMAIN used : used[at] = n
    BY <1>3 DEF Range
  <2>2. S = {at}
    BY <1>1, <1>2, <2>1
  <2> QED BY <1>3, <2>2, FS_Singleton
<1>4. CASE n \notin Range(used)
  <2>1. S = {}
    BY <1>1, <1>2, <1>4
  <2> QED BY <1>4, <2>1, FS_EmptySet
<1> QED BY <1>3, <1>4

LEMMA ListPlaces ==
  ASSUME NEW list, ListOK(list), NEW n, NEW b, NEW x, Covers(n, b, x),
         \A m \in Elems(list) : Covers(m, b, x) => m = n
  PROVE  Cardinality({i \in DOMAIN list : Covers(list[i], b, x)}) = IF n \in Elems(list) THEN 1 ELSE 0
<1> DEFINE S == {i \in DOMAIN list : Covers(list[i], b, x)}
<1>1. DOMAIN list = 1..Len(list) /\ Once(list)
  BY RangeIs DEF ListOK
<1>2. S = {i \in 1..Len(list) : list[i] = n}
  BY <1>1 DEF Elems
<1>3. CASE n \in Elems(list)
  <2>1. PICK i \in 1..Len(list) : list[i] = n
    BY <1>3 DEF Elems
  <2>2. S = {i}
    BY <1>1, <1>2, <2>1 DEF Once
  <2> QED BY <1>3, <2>2, FS_Singleton
<1>4. CASE n \notin Elems(list)
  <2>1. S = {}
    BY <1>2, <1>4 DEF Elems
  <2> QED BY <1>4, <2>1, FS_EmptySet
<1> QED BY <1>3, <1>4

Places(groups) == UNION {{g} \X DOMAIN groups[g] : g \in DOMAIN groups}

LEMMA GroupPlaces ==
  ASSUME NEW groups, GroupsOK(groups), NEW n, NEW b, NEW x, Covers(n, b, x),
         \A m \in Held(groups) : Covers(m, b, x) => m = n
  PROVE  Cardinality({at \in Places(groups) : Covers(groups[at[1]][at[2]], b, x)})
         = IF n \in Held(groups) THEN 1 ELSE 0
<1> DEFINE S == {at \in Places(groups) : Covers(groups[at[1]][at[2]], b, x)}
           N == Len(groups)
<1>1. /\ DOMAIN groups = 1..N /\ N \in Nat
      /\ \A g \in 1..N : DOMAIN groups[g] = 1..Len(groups[g]) /\ Once(groups[g])
      /\ \A g, h \in 1..N : g # h => Elems(groups[g]) \cap Elems(groups[h]) = {}
  <2>1. groups \in Seq(Seq(NodeSet)) /\ (\A g \in 1..N : ListOK(groups[g]))
        /\ \A g, h \in 1..N : g # h => Elems(groups[g]) \cap Elems(groups[h]) = {}
    BY DEF GroupsOK
  <2>2. \A g \in 1..N : DOMAIN groups[g] = 1..Len(groups[g]) /\ Once(groups[g])
    BY <2>1, RangeIs DEF ListOK
  <2>3. DOMAIN groups = 1..N /\ N \in Nat
    BY <2>1
  <2> QED BY <2>1, <2>2, <2>3
<1> HIDE DEF N
<1>2. \A at : at \in Places(groups) <=> \E g \in 1..N : \E i \in DOMAIN groups[g] : at = <<g, i>>
  BY <1>1 DEF Places
<1>3. \A at : at \in S <=> \E g \in 1..N : \E i \in 1..Len(groups[g]) : at = <<g, i>> /\ groups[g][i] = n
  <2>1. ASSUME NEW g \in 1..N, NEW i \in 1..Len(groups[g]) PROVE Covers(groups[g][i], b, x) <=> groups[g][i] = n
    <3>1. groups[g][i] \in Held(groups)
      BY DEF Held, Elems, N
    <3> QED BY <3>1
  <2>2. \A at : at \in S <=> \E g \in 1..N : \E i \in 1..Len(groups[g]) : at = <<g, i>> /\ Covers(groups[g][i], b, x)
    <3> TAKE at
    <3>1. ASSUME at \in S
          PROVE  \E g \in 1..N : \E i \in 1..Len(groups[g]) : at = <<g, i>> /\ Covers(groups[g][i], b, x)
      <4>1. at \in Places(groups) /\ Covers(groups[at[1]][at[2]], b, x)
        BY <3>1
      <4>2. PICK g \in 1..N : \E i \in DOMAIN groups[g] : at = <<g, i>>
        BY <1>2, <4>1
      <4>3. PICK i \in DOMAIN groups[g] : at = <<g, i>>
        BY <4>2
      <4>4. at[1] = g /\ at[2] = i /\ i \in 1..Len(groups[g])
        BY <1>1, <4>3
      <4> QED BY <4>1, <4>3, <4>4
    <3>2. ASSUME NEW g \in 1..N, NEW i \in 1..Len(groups[g]), at = <<g, i>>, Covers(groups[g][i], b, x)
          PROVE  at \in S
      <4>1. at \in Places(groups) /\ at[1] = g /\ at[2] = i
        BY <1>1, <1>2, <3>2
      <4> QED BY <3>2, <4>1
    <3> QED BY <3>1, <3>2
  <2> HIDE DEF S
  <2> QED BY <2>1, <2>2
<1> HIDE DEF S
<1>4. CASE n \in Held(groups)
  <2>1. PICK g \in 1..N : n \in Elems(groups[g])
    BY <1>4 DEF Held, N
  <2>2. PICK i \in 1..Len(groups[g]) : groups[g][i] = n
    BY <2>1 DEF Elems
  <2>3. ASSUME NEW h \in 1..N, NEW j \in 1..Len(groups[h]), groups[h][j] = n PROVE h = g /\ j = i
    <3>1. n \in Elems(groups[h])
      BY <2>3 DEF Elems
    <3>2. h = g
      BY <1>1, <2>1, <3>1
    <3> QED BY <1>1, <2>2, <2>3, <3>2 DEF Once
  <2>4. S = {<<g, i>>}
    BY <1>3, <2>2, <2>3
  <2> QED BY <1>4, <2>4, FS_Singleton DEF S
<1>5. CASE n \notin Held(groups)
  <2>1. ASSUME NEW g \in 1..N, NEW i \in 1..Len(groups[g]), groups[g][i] = n PROVE FALSE
    BY <1>5, <2>1 DEF Held, Elems, N
  <2>2. S = {}
    BY <1>3, <2>1
  <2> QED BY <1>5, <2>2, FS_EmptySet DEF S
<1> QED BY <1>4, <1>5

LEMMA IInvTypeOK == ASSUME IInv PROVE TypeOK
<1> DEFINE held == Held(pool.groups)
           leaves == LeavesOf(pool, held)
<1>1. /\ PoolOK(pool) /\ Stored(pool, held) /\ GroupsOK(pool.groups) /\ ChunksOK(chunks, pool.used)
      /\ minAlloc \in MinAllocs /\ barrier \in BOOLEAN
  BY DEF IInv, PoolOK
<1>2. /\ Tree(leaves, Elems(pool.free), pool.useCount, pool.blocks) /\ UsedOK(pool.used) /\ ListOK(pool.free)
      /\ DOMAIN pool.blocks \subseteq 1..MaxBlocks /\ \A b \in DOMAIN pool.blocks : pool.blocks[b] \in Nat
  BY <1>1 DEF Stored
<1>3. Listed(pool) = leaves
  BY <1>1, <1>2, ListedIs
<1> HIDE DEF leaves
<1>4. \A n \in Listed(pool) : IsNode(n)
  <2> SUFFICES ASSUME NEW n \in leaves PROVE IsNode(n)
    BY <1>3
  <2>1. n \in Ancestry(leaves)
    <3>1. leaves \in SUBSET NodeSet
      BY <1>2 DEF Tree
    <3> QED BY <3>1, AncestryIs, UnderItself
  <2>2. n \in NodeSet /\ n.block \in DOMAIN pool.blocks /\ Extent(n).lo + NodeSize(n) <= pool.blocks[n.block]
    BY <1>2, <2>1, Contained
  <2>3. n.path \in Seq(ExtentSet) /\ n.path # <<>>
    BY <2>2 DEF NodeSet
  <2>4. Range(n.path) \subseteq ExtentSet
    BY <2>3 DEF Range
  <2> QED BY <2>2, <2>3, <2>4 DEF IsNode, ExtentSet
<1>5. DOMAIN pool.useCount = Alive(pool)
  BY <1>1, <1>3 DEF PoolOK, Alive, Ancestry, leaves
<1>6. Range(pool.useCount) \subseteq Nat
  BY <1>2 DEF Tree, Counted, Range
<1>7. pool.totalSize \in Nat
  <2>1. PICK u : Summing(u, Share(pool.blocks), MaxBlocks) /\ Total(pool.blocks) = u[MaxBlocks]
    BY <1>2, TotalIs
  <2>2. u[MaxBlocks] \in Nat
    BY <2>1, EagerAssumption DEF Summing
  <2> QED BY <1>1, <2>1, <2>2 DEF PoolOK
<1>8. Range(pool.blocks) \subseteq Nat
  BY <1>2 DEF Range
<1>9. pool.current \in 0..Len(pool.groups) /\ Len(pool.groups) <= MaxGroups
  BY <1>1 DEF PoolOK
<1>10. \A c \in chunks : c.size \in Requests /\ c.group \in 0..MaxGroups
  BY <1>1 DEF ChunksOK
<1> QED BY <1>1, <1>2, <1>4, <1>5, <1>6, <1>7, <1>8, <1>9, <1>10 DEF TypeOK

\* Each byte of each block is in use once or free once, chunks stay with their
\* holders, and the total is what was taken from outside: whatever is split, freed,
\* merged or kept by a group (BufferAllocator.cpp:205-266, 268-298, 325-424).
THEOREM MemoryIsTiled == Spec => []Tiled
<1>1. ASSUME IInv PROVE Tiled
  <2> DEFINE held == Held(pool.groups)
             leaves == LeavesOf(pool, held)
             free == Elems(pool.free)
  <2>1. /\ PoolOK(pool) /\ Stored(pool, held) /\ GroupsOK(pool.groups) /\ ChunksOK(chunks, pool.used)
    BY <1>1 DEF IInv, PoolOK
  <2>2. /\ Tree(leaves, free, pool.useCount, pool.blocks) /\ UsedOK(pool.used) /\ ListOK(pool.free)
        /\ \A b \in DOMAIN pool.blocks : pool.blocks[b] \in Nat
        /\ \A b \in DOMAIN pool.blocks : \E n \in leaves : n.block = b
        /\ Range(pool.used) \cap free = {} /\ held \cap (Range(pool.used) \cup free) = {}
    BY <2>1 DEF Stored
  <2>3. ChunksHeld
    <3> SUFFICES ASSUME NEW c \in chunks
                 PROVE  /\ c.at \in DOMAIN pool.used /\ Pointer(pool.used[c.at]) = c.at
                        /\ NodeSize(pool.used[c.at]) >= c.size /\ c.at[1] \in DOMAIN pool.blocks
      BY DEF ChunksHeld
    <3>1. c.at \in DOMAIN pool.used /\ NodeSize(pool.used[c.at]) >= c.size
      BY <2>1 DEF ChunksOK
    <3>2. Pointer(pool.used[c.at]) = c.at
      BY <2>2, <3>1 DEF UsedOK
    <3>3. c.at[1] \in DOMAIN pool.blocks
      BY <2>1, <3>1, UsedBlock
    <3> QED BY <3>1, <3>2, <3>3
  <2>4. TotalIsBlocks
    BY <2>1 DEF PoolOK, TotalIsBlocks
  <2>5. ASSUME NEW b \in DOMAIN pool.blocks, NEW x \in 0..pool.blocks[b] - 1 PROVE Listings(b, x) = 1
    <3>1. PICK n \in leaves : Covers(n, b, x) /\ \A m \in leaves : Covers(m, b, x) => m = n
      <4> HIDE DEF leaves, free
      <4> QED BY <2>2, CoveredOnce
    <3>2. Range(pool.used) \subseteq leaves /\ free \subseteq leaves /\ held \subseteq leaves
      BY DEF LeavesOf
    <3>3. Cardinality({at \in DOMAIN pool.used : Covers(pool.used[at], b, x)})
          = IF n \in Range(pool.used) THEN 1 ELSE 0
      BY <2>2, <3>1, <3>2, UsedPlaces
    <3>4. Cardinality({i \in DOMAIN pool.free : Covers(pool.free[i], b, x)}) = IF n \in free THEN 1 ELSE 0
      BY <2>2, <3>1, <3>2, ListPlaces
    <3>5. Cardinality({at \in Places(pool.groups) : Covers(pool.groups[at[1]][at[2]], b, x)})
          = IF n \in held THEN 1 ELSE 0
      BY <2>1, <3>1, <3>2, GroupPlaces
    <3>6. Listings(b, x) = (IF n \in Range(pool.used) THEN 1 ELSE 0)
                           + (IF n \in free THEN 1 ELSE 0) + (IF n \in held THEN 1 ELSE 0)
      <4> HIDE DEF free, held
      <4> QED BY <3>3, <3>4, <3>5 DEF Listings, Places
    <3>7. n \in Range(pool.used) \/ n \in free \/ n \in held
      BY DEF LeavesOf
    <3> HIDE DEF free, held
    <3> QED BY <2>2, <3>6, <3>7
  <2> QED BY <1>1, <2>3, <2>4, <2>5, IInvTypeOK DEF Tiled
<1> QED BY SpecIInv, <1>1, PTL
=============================================================================
