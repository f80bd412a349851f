-------------------------- MODULE MCDeferAllocator --------------------------
(* Properties of the deferred allocator, checked on small rounds.           *)
EXTENDS DeferAllocator

\* Every variable has its type.
TypeOK == /\ heap.chunks \in 0 .. MaxAllocs
          /\ heap.list \in Seq(1 .. heap.chunks) /\ heap.free \in Seq(1 .. heap.chunks)
          /\ heap.size \in [Nodes -> Nat] /\ heap.usage \in [Nodes -> BOOLEAN]
          /\ heap.offset \in [Nodes -> Nat] /\ heap.parent \in [Nodes -> Nodes \cup {0}]
          /\ total \in Nat /\ code \in {"NO_ERROR", "INVALID_VALUE"}
          /\ barrier \in BOOLEAN /\ deferred \in Seq(Nodes) /\ barriers \in 0 .. Barriers
          /\ tensors \in Seq([node : Nodes, size : Requests])
          /\ freed \subseteq DOMAIN tensors /\ live \subseteq DOMAIN tensors
          /\ met \subseteq SUBSET DOMAIN tensors

\* Every tensor lies inside the buffer that apply asks its parent for.
InsideBuffer == \A t \in DOMAIN tensors : Bytes(t) \subseteq 0 .. total - 1

\* Two tensors that were ever allocated at the same time, or whose lifetimes
\* may overlap because a barrier keeps both, get disjoint bytes inside the
\* buffer, although nodes are split, expanded and fused any number of times in
\* between (BufferAllocator.cpp:465-528, 567-633).
DisjointLifetimes == total > 0 =>
    /\ InsideBuffer
    /\ \A p \in met : \A t, u \in p : t # u => Bytes(t) \cap Bytes(u) = {}

\* Once everything is given back the nodes are fused into a single free one,
\* so that compute can succeed (BufferAllocator.cpp:575-579).
FusesToOne == tensors # <<>> /\ live = {} => Len(heap.list) = 1 /\ heap.free = heap.list

\* A node that a live tensor uses is in the list, large enough, and used by
\* no other live tensor.
LiveNodes ==
    \A t \in live : LET n == tensors[t].node IN
        /\ n \in Range(heap.list) /\ heap.usage[n] /\ heap.size[n] = tensors[t].size
        /\ \A u \in live : tensors[u].node = n => u = t

\* The free list holds exactly the unused nodes of the list, sorted by size
\* (no node changes its size while the multiset orders it), no two free nodes
\* are neighbours, and no live tensor's node is among them
\* (BufferAllocator.cpp:465-528, 637-700).
FreeListConsistent ==
    /\ TypeOK
    /\ LiveNodes
    /\ IsInjective(heap.free)
    /\ Range(heap.free) = {n \in Range(heap.list) : ~heap.usage[n]}
    /\ \A i \in 1 .. Len(heap.free) - 1 : heap.size[heap.free[i]] <= heap.size[heap.free[i + 1]]
    /\ \A i \in 1 .. Len(heap.list) - 1 : heap.usage[heap.list[i]] \/ heap.usage[heap.list[i + 1]]
=============================================================================
