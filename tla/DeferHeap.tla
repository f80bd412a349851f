----------------------------- MODULE DeferHeap -----------------------------
(***************************************************************************)
(* The node list of MNN::DeferBufferAllocator                               *)
(* (source/core/BufferAllocator.cpp) as a value: what alloc and free do to  *)
(* it.  They only shape a list of nodes; addresses exist after compute(),   *)
(* when all nodes are fused into one.  A node keeps its size as long as it  *)
(* is used, but a free node that is too small is EXPANDED, so the offsets   *)
(* of everything right of it move until the end.                            *)
(***************************************************************************)
EXTENDS Integers, Sequences, SequencesExt, FiniteSets

CONSTANTS MaxAllocs     \* bound: allocs of one round

ASSUME HeapAssumption == MaxAllocs \in Nat

Nodes == 1 .. MaxAllocs   \* each alloc creates at most one node

\* chunks: how many nodes exist; list: head to tail; free: mFreeList, by size,
\* equal sizes in order of insertion; parent: the node this one was fused to.
EmptyHeap == [chunks |-> 0, list |-> <<>>, free |-> <<>>,
              size   |-> [n \in Nodes |-> 0], usage  |-> [n \in Nodes |-> FALSE],
              offset |-> [n \in Nodes |-> 0], parent |-> [n \in Nodes |-> 0]]

-----------------------------------------------------------------------------
(* The node list and the free list.                                         *)

\* Position of node n in a sequence of nodes.
Pos(s, n) == CHOOSE i \in DOMAIN s : s[i] = n

\* insertFree: behind every free node that is not larger.
InsertFree(h, n) ==
    LET small == {i \in DOMAIN h.free : h.size[h.free[i]] <= h.size[n]}
    IN  [h EXCEPT !.free = InsertAt(@, Cardinality(small) + 1, n)]

EraseFree(h, n) == [h EXCEPT !.free = RemoveAt(@, Pos(@, n))]

\* createMemNode and insert_after pos (0: at the tail).
NewNode(h, size, used, pos) ==
    LET n == h.chunks + 1
        at == IF pos = 0 THEN Len(h.list) ELSE Pos(h.list, pos)
    IN  [h EXCEPT !.chunks = n, !.size[n] = size, !.usage[n] = used,
                  !.list = InsertAt(@, at + 1, n)]

\* fuse_to_left: r becomes a child of l, behind l's current end.
FuseToLeft(h, l, r) ==
    [h EXCEPT !.offset[r] = h.size[l], !.size[l] = @ + h.size[r],
              !.parent[r] = l, !.list = RemoveAt(@, Pos(@, r))]

\* The neighbours of n in the list, 0 if none.
Left(h, n)  == LET i == Pos(h.list, n) IN IF i = 1 THEN 0 ELSE h.list[i - 1]
Right(h, n) == LET i == Pos(h.list, n) IN IF i = Len(h.list) THEN 0 ELSE h.list[i + 1]

\* A free node (the head's left and the tail's right neighbour are none).
IsFree(h, n) == n # 0 /\ ~h.usage[n]

\* the right neighbour is not looked at
FreeNode_LeftOnly(h, n) ==
    LET l == Left(h, n)
        m == IF IsFree(h, l) THEN l ELSE n
        a == IF IsFree(h, l) THEN FuseToLeft(EraseFree(h, l), l, n) ELSE h
    IN  InsertFree([a EXCEPT !.usage[m] = FALSE], m)

\* free, outside of a barrier: fuse with the free neighbours.
FreeNode(h, n) ==
    LET l == Left(h, n)
        r == Right(h, n)
        m == IF IsFree(h, l) THEN l ELSE n
        a == IF IsFree(h, l) THEN FuseToLeft(EraseFree(h, l), l, n) ELSE h
        b == IF IsFree(h, r) THEN FuseToLeft(EraseFree(a, r), m, r) ELSE a
    IN  InsertFree([b EXCEPT !.usage[m] = FALSE], m)

\* Nodes are freed one after the other.
FreeAll(h, nodes) ==
    LET after[i \in 0 .. Len(nodes)] == IF i = 0 THEN h ELSE FreeNode(after[i - 1], nodes[i])
    IN  after[Len(nodes)]

\* the rest of a split goes to the tail of the list
SplitPos_Tail(h, n) == 0

\* Where the rest of a split node n goes: right behind n.
SplitPos(h, n) == n

\* A node that is larger than the request gives its rest back.
Splits(h, n, size) == h.size[n] > size

\* alloc from the free list: the smallest node that is large enough gives its
\* rest back, or else the largest one is expanded.  [heap, node].
TakeFree(h, size) ==
    LET fit == {i \in DOMAIN h.free : h.size[h.free[i]] >= size}
        i == IF fit = {} THEN Len(h.free) ELSE CHOOSE j \in fit : \A x \in fit : j <= x
        n == h.free[i]
        a == [h EXCEPT !.free = RemoveAt(@, i), !.usage[n] = TRUE]
        rest == h.size[n] - size
        b == IF Splits(h, n, size)
             THEN InsertFree(NewNode(a, rest, FALSE, SplitPos(a, n)), h.chunks + 1)
             ELSE a
    IN  [heap |-> [b EXCEPT !.size[n] = size], node |-> n]

\* alloc: a new node at the tail if nothing is free or the memory must not have
\* been used before, a free node otherwise.  [heap, node].
AllocNode(h, size, separate) ==
    IF h.free = <<>> \/ separate
    THEN [heap |-> NewNode(h, size, TRUE, 0), node |-> h.chunks + 1]
    ELSE TakeFree(h, size)

\* compute succeeds when everything was given back and is fused.
IsFused(h) == Len(h.free) = 1 /\ Len(h.list) = 1

\* visiChildren after compute: a node's place in the buffer.
Address(h) == LET at[n \in Nodes] == IF h.parent[n] = 0 THEN 0
                                     ELSE h.offset[n] + at[h.parent[n]]
              IN  at
=============================================================================
