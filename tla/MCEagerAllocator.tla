-------------------------- MODULE MCEagerAllocator --------------------------
(* Properties of the eager allocator.                                       *)
EXTENDS EagerAllocator

\* A node lies in the block it is a part of.
IsNode(n) == /\ n.block \in DOMAIN pool.blocks
             /\ n.path # <<>> /\ Range(n.path) \subseteq [lo : Nat, size : Nat]
             /\ Extent(n).lo + NodeSize(n) <= pool.blocks[n.block]

\* Every variable has its type, and so has a node wherever it is listed.
TypeOK == /\ minAlloc \in MinAllocs /\ barrier \in BOOLEAN
          /\ \A n \in Listed(pool) : IsNode(n)
          /\ DOMAIN pool.useCount = Alive(pool)
          /\ Range(pool.useCount) \subseteq Nat
          /\ pool.current \in 0..Len(pool.groups) /\ Len(pool.groups) <= MaxGroups
          /\ pool.totalSize \in Nat
          /\ DOMAIN pool.blocks \subseteq 1..MaxBlocks /\ Range(pool.blocks) \subseteq Nat
          /\ \A c \in chunks : c.size \in Requests /\ c.group \in 0..MaxGroups

Covers(n, b, x) == n.block = b /\ Extent(n).lo <= x /\ x < Extent(n).lo + NodeSize(n)

\* In how many places a byte of a block is listed, used or free.
Listings(b, x) ==
      Cardinality({at \in DOMAIN pool.used : Covers(pool.used[at], b, x)})
    + Cardinality({i \in DOMAIN pool.free : Covers(pool.free[i], b, x)})
    + Cardinality({at \in UNION {{g} \X DOMAIN pool.groups[g] : g \in DOMAIN pool.groups} :
                     Covers(pool.groups[at[1]][at[2]], b, x)})

\* A chunk stays its holder's until it is freed: it is listed as used, it is
\* as large as requested, and its block was not given back by release(false)
\* (BufferAllocator.cpp:325-342).
ChunksHeld == \A c \in chunks : /\ c.at \in DOMAIN pool.used
                                /\ Pointer(pool.used[c.at]) = c.at
                                /\ NodeSize(pool.used[c.at]) >= c.size
                                /\ c.at[1] \in DOMAIN pool.blocks

\* What the sizes of some blocks add up to.
Total(sizes) ==
    LET upto[b \in 0..MaxBlocks] ==
          IF b = 0 THEN 0 ELSE upto[b - 1] + IF b \in DOMAIN sizes THEN sizes[b] ELSE 0
    IN  upto[MaxBlocks]

\* totalSize, which Interpreter reports as the session's memory, is what the
\* outside allocator has handed out (BufferAllocator.cpp:229, 330-336).
TotalIsBlocks == pool.totalSize = Total(pool.blocks)

\* Each byte of each block is used once or free once, in one list: whatever
\* was split, freed, merged or kept by a group, no two tensors are given the
\* same memory and none is lost (BufferAllocator.cpp:268-298, 372-424), while
\* chunks stay with their holders and the total is what was taken.
Tiled == /\ TypeOK /\ ChunksHeld /\ TotalIsBlocks
         /\ \A b \in DOMAIN pool.blocks : \A x \in 0..pool.blocks[b] - 1 : Listings(b, x) = 1

\* Outside a barrier a block that nobody uses is one free node again: the use
\* counts come out even for every order of allocations and frees, so that
\* release(false) gives the whole block back (BufferAllocator.cpp:268-298,
\* 348-356).
MergesBack == \A b \in DOMAIN pool.blocks :
    ~barrier /\ (\A c \in chunks : c.at[1] # b)
        => \E i \in DOMAIN pool.free : pool.free[i] = Root(b, pool.blocks[b])

Overlap(e, f) == /\ e[1][1] = f[1][1]
                 /\ e[1][2] < f[1][2] + f[2] /\ f[1][2] < e[1][2] + e[2]

\* "different group must use different memory" (BufferAllocator.hpp:156-163):
\* what was ever given to a group in this barrier is given to no other group,
\* for the threads that the groups are planned for run at the same time.
GroupsSeparate == \A g, h \in DOMAIN seen : g # h =>
    \A e \in seen[g], f \in seen[h] : ~Overlap(e, f)
=============================================================================
