---------------------------- MODULE EagerAllocator ----------------------------
(***************************************************************************)
(* EagerBufferAllocator (source/core/BufferAllocator.cpp:190-424): the      *)
(* pool of static memory, and of dynamic memory when the hint asks for the  *)
(* eager allocator.  A block of the outside allocator is a tree of nodes;   *)
(* a node that is larger than a request is split into a used and a free     *)
(* child, and a parent whose use count falls to zero takes its children     *)
(* back.                                                                    *)
(*                                                                          *)
(* Operators that plan memory for several threads (Convolution1x1Strassen,  *)
(* CPURaster) do it in a barrier, one group of allocations for each thread. *)
(*                                                                          *)
(* A node is known by its block and the extents from the root down to it,   *)
(* so that its parent is a prefix.  The build is the release one:           *)
(* MNN_ASSERT is empty.  Requests use the allocator's own alignment.        *)
(***************************************************************************)
EXTENDS Integers, SequencesExt, FiniteSetsExt, Functions

CONSTANTS MaxBlocks,    \* bound: blocks the outside allocator has
          Requests,     \* bytes that callers ask for
          MinAllocs,    \* possible values of mMinAllocSize
          Align,        \* mAlign
          MaxChunks,    \* bound: chunks that callers hold at a time
          MaxGroups     \* bound: groups in a barrier

ASSUME EagerAssumption == /\ MaxBlocks \in Nat /\ MaxChunks \in Nat /\ MaxGroups \in Nat
                          /\ Requests \subseteq Nat \ {0} /\ MinAllocs \subseteq Nat
                          /\ Align \in Nat \ {0}
                          /\ \A n \in MinAllocs : n % Align = 0

VARIABLES minAlloc,  \* mMinAllocSize
          pool,      \* what the allocator keeps
          chunks,    \* callers: [at, size, group] of the chunks they hold
          barrier,   \* callers: between barrierBegin and barrierEnd?
          seen       \* history: the extents each group was given in this barrier

vars == <<minAlloc, pool, chunks, barrier, seen>>

-----------------------------------------------------------------------------
(* Nodes.                                                                   *)

Root(b, size) == [block |-> b, path |-> <<[lo |-> 0, size |-> size]>>]
Child(n, lo, size) == [n EXCEPT !.path = Append(@, [lo |-> lo, size |-> size])]
Extent(n)   == Last(n.path)
NodeSize(n) == Extent(n).size
Pointer(n)  == <<n.block, Extent(n).lo>>
IsRoot(n)   == Len(n.path) = 1
Parent(n)   == [n EXCEPT !.path = Front(@)]

\* A pool: used is mUsedList, free mFreeList, groups mGroups and current the
\* index of mCurrentFreeList in it (0 for none); useCount of every node that
\* is alive; blocks: the size of each block that was not given back.
EmptyPool == [used |-> <<>>, free |-> <<>>, groups |-> <<>>, current |-> 0,
              useCount |-> <<>>, blocks |-> <<>>, totalSize |-> 0]

\* The nodes that a list refers to, and with their ancestors all that live.
Listed(p)   == Range(p.used) \cup Range(p.free) \cup UNION {Range(g) : g \in Range(p.groups)}
Lineage(n)  == {[n EXCEPT !.path = SubSeq(@, 1, k)] : k \in 1..Len(n.path)}
Alive(p)    == UNION {Lineage(n) : n \in Listed(p)}

\* ~Node: nodes nobody refers to are gone, and a root gives its block back.
Settled(p) ==
    LET alive == Alive(p)
    IN  [p EXCEPT !.blocks = Restrict(@, {n.block : n \in alive}),
                  !.useCount = [n \in alive |-> IF n \in DOMAIN @ THEN @[n] ELSE 0]]

-----------------------------------------------------------------------------
(* Free lists: multimaps by size, in which equal sizes keep their order of  *)
(* insertion.                                                               *)

\* multimap::insert
Insert(list, n) ==
    LET smaller == {k \in DOMAIN list : NodeSize(list[k]) <= NodeSize(n)}
    IN  InsertAt(list, Cardinality(smaller) + 1, n)

\* multimap::lower_bound: the place of the smallest node of at least size.
LowerBound(list, size) ==
    LET large == {k \in DOMAIN list : NodeSize(list[k]) >= size}
    IN  IF large = {} THEN 0 ELSE Min(large)

\* What an iterator leaves of a list that it erases the other nodes from.
Kept(list, nodes) ==
    LET kept[k \in 0..Len(list)] ==
          IF k = 0 THEN <<>>
          ELSE IF list[k] \in nodes THEN Append(kept[k - 1], list[k]) ELSE kept[k - 1]
    IN  kept[Len(list)]

\* The list that a split or a free inside a group puts nodes in.
IntoCurrent(p, n) ==
    IF p.current = 0 THEN [p EXCEPT !.free = Insert(@, n)]
    ELSE [p EXCEPT !.groups[p.current] = Insert(@, n)]

-----------------------------------------------------------------------------
(* getFromFreeList.                                                         *)

\* map::operator[] and map::insert: a key that is there already gets the new
\* value, or keeps its own.
Put(f, key, value) == [x \in DOMAIN f \cup {key} |-> IF x = key THEN value ELSE f[x]]
InsertNew(f, key, value) == [x \in DOMAIN f \cup {key} |-> IF x \in DOMAIN f THEN f[x] ELSE value]

\* mUsedList.insert
UsedAt(p, at, n) == [p EXCEPT !.used = InsertNew(@, at, n)]

\* permiteSplit is false: the smallest node that is large enough, as it is.
FromGroup(p, size) ==
    LET list == p.groups[p.current]
        i    == LowerBound(list, size)
    IN  UsedAt([p EXCEPT !.groups[p.current] = RemoveAt(@, i)], Pointer(list[i]), list[i])

\* a part of a parent is not counted when it is used again
Recounted_Never(p, n) == p

\* The parent of a node that is used again has one part more in use.
Recounted(p, n) ==
    IF IsRoot(n) THEN p ELSE [p EXCEPT !.useCount[Parent(n)] = @ + 1]

\* UP_DIV(size, mAlign) * mAlign
SplitSize(size) == ((size + Align - 1) \div Align) * Align

\* permiteSplit is true: what the request does not need becomes a free node.
FromFree(p, size) ==
    LET i     == LowerBound(p.free, size)
        n     == p.free[i]
        taken == Recounted([p EXCEPT !.free = RemoveAt(@, i)], n)
        part  == SplitSize(size)
        rest  == NodeSize(n) - part
    IN  IF rest <= 0 THEN UsedAt(taken, Pointer(n), n)
        ELSE [UsedAt(taken, Pointer(n), Child(n, Extent(n).lo, part))
                EXCEPT !.useCount[n] = @ + 1,
                       !.free = Insert(@, Child(n, Extent(n).lo + part, rest))]

-----------------------------------------------------------------------------
(* alloc.                                                                   *)

\* onAlloc, and the rest of a block of the minimal size: it goes to the list
\* of the group, if there is one.
FromOutside(p, b, size) ==
    LET allocSize == Max({minAlloc, size})
        root      == Root(b, allocSize)
        part      == SplitSize(size)
        taken     == [p EXCEPT !.blocks = Put(@, b, allocSize), !.totalSize = @ + allocSize]
    IN  IF allocSize = size
        THEN [taken EXCEPT !.used = Put(@, Pointer(root), root)]
        ELSE IntoCurrent([UsedAt(taken, Pointer(root), Child(root, 0, part))
                            EXCEPT !.useCount = Put(@, root, 1)],
                         Child(root, part, allocSize - part))

ServesGroup(p, size) == p.current # 0 /\ LowerBound(p.groups[p.current], size) # 0
ServesFree(p, size)  == LowerBound(p.free, size) # 0

\* The pools that alloc can leave behind: none, if the outside allocator
\* fails.  Which name a block gets does not matter.
Allocs(p, size, separate) ==
    LET blocks == 1..MaxBlocks \ DOMAIN p.blocks
    IN  IF ~separate /\ ServesGroup(p, size) THEN {FromGroup(p, size)}
        ELSE IF ~separate /\ ServesFree(p, size) THEN {FromFree(p, size)}
        ELSE {FromOutside(p, Min(blocks), size) : b \in {b \in {1} : blocks # {}}}

-----------------------------------------------------------------------------
(* returnMemory, into mFreeList with permitMerge.                           *)

\* one free too late
Merges_Late(p, a) == p.useCount[a] = 0

\* The parent's last part is given back.
Merges(p, a) == p.useCount[a] = 1

\* Each ancestor whose use count falls to zero is merged, from the bottom up:
\* all its parts leave the list, and its own parent has a part less in use.
ReturnMemory(p, n) ==
    LET merged == {a \in Lineage(n) \ {n} :
                     \A x \in Lineage(n) \ {n} : Len(x.path) >= Len(a.path) => Merges(p, x)}
        top    == CHOOSE a \in merged \cup {n} :
                     \A x \in merged \cup {n} : Len(a.path) <= Len(x.path)
        fewer  == merged \cup IF IsRoot(top) THEN {} ELSE {Parent(top)}
        apart  == {x \in Range(p.free) : IsRoot(x) \/ Parent(x) \notin merged}
    IN  [p EXCEPT !.free = Insert(Kept(@, apart), top),
                  !.useCount = [a \in DOMAIN @ |-> IF a \in fewer THEN @[a] - 1 ELSE @[a]]]

-----------------------------------------------------------------------------
(* The calls.                                                               *)

Init == /\ minAlloc \in MinAllocs
        /\ pool = EmptyPool
        /\ chunks = {}
        /\ barrier = FALSE
        /\ seen = <<>>

\* A thread of a barrier allocates inside its group only.
MayCall == barrier => pool.current # 0

Alloc(size, separate) ==
    /\ MayCall /\ Cardinality(chunks) < MaxChunks
    /\ \E p \in Allocs(pool, size, separate) :
         LET at == CHOOSE at \in DOMAIN p.used :
                     at \notin DOMAIN pool.used \/ DOMAIN p.used = DOMAIN pool.used
         IN  /\ pool' = Settled(p)
             /\ chunks' = chunks \cup {[at |-> at, size |-> size, group |-> pool.current]}
             /\ seen' = IF pool.current = 0 THEN seen
                        ELSE [seen EXCEPT ![pool.current] = @ \cup {<<at, NodeSize(p.used[at])>>}]
    /\ UNCHANGED <<minAlloc, barrier>>

\* inside a group, too, the memory goes back to everybody
FreedIn_Shared(p, n) == ReturnMemory(p, n)

\* free: inside a group the memory stays with the group.
FreedIn(p, n) == IF p.current # 0 THEN IntoCurrent(p, n) ELSE ReturnMemory(p, n)

\* A group frees what it has allocated.
Free(c) ==
    /\ MayCall
    /\ barrier => c.group = pool.current
    /\ pool' = LET n == pool.used[c.at]
               IN  Settled(FreedIn([pool EXCEPT !.used = Restrict(@, DOMAIN @ \ {c.at})], n))
    /\ chunks' = chunks \ {c}
    /\ UNCHANGED <<minAlloc, barrier, seen>>

\* What the root nodes of a list add up to.
RootSize(list) ==
    LET upto[k \in 0..Len(list)] ==
          IF k = 0 THEN 0
          ELSE upto[k - 1] + IF IsRoot(list[k]) THEN NodeSize(list[k]) ELSE 0
    IN  upto[Len(list)]

\* release(false): root nodes that are free.
Release ==
    /\ ~barrier
    /\ LET parts == {n \in Range(pool.free) : ~IsRoot(n)}
       IN  pool' = Settled([pool EXCEPT !.free = Kept(@, parts),
                                        !.totalSize = @ - RootSize(pool.free)])
    /\ UNCHANGED <<minAlloc, chunks, barrier, seen>>

\* release(true): a resize begins, all tensors of the last one are recycled.
ReleaseAll ==
    /\ ~barrier /\ chunks = {}
    /\ pool' = Settled([pool EXCEPT !.used = <<>>, !.free = <<>>, !.totalSize = 0])
    /\ UNCHANGED <<minAlloc, chunks, barrier, seen>>

\* Barriers are for the dynamic memory, whose pool has no minimal size.
BarrierBegin == /\ ~barrier /\ minAlloc = 0
                /\ barrier' = TRUE
                /\ UNCHANGED <<minAlloc, pool, chunks, seen>>

BeginGroup == /\ barrier /\ pool.current = 0 /\ Len(pool.groups) < MaxGroups
              /\ pool' = [pool EXCEPT !.groups = Append(@, <<>>), !.current = Len(pool.groups) + 1]
              /\ seen' = Append(seen, {})
              /\ UNCHANGED <<minAlloc, chunks, barrier>>

EndGroup == /\ pool.current # 0
            /\ pool' = [pool EXCEPT !.current = 0]
            /\ UNCHANGED <<minAlloc, chunks, barrier, seen>>

\* A group's list is returned in its order.
ReturnGroup(p, list) ==
    LET after[k \in 0..Len(list)] == IF k = 0 THEN p ELSE ReturnMemory(after[k - 1], list[k])
    IN  after[Len(list)]

\* mGroups, one after the other.
ReturnGroups(p, groups) ==
    LET after[g \in 0..Len(groups)] == IF g = 0 THEN p ELSE ReturnGroup(after[g - 1], groups[g])
    IN  after[Len(groups)]

BarrierEnd ==
    /\ barrier /\ pool.current = 0
    /\ pool' = Settled(ReturnGroups([pool EXCEPT !.groups = <<>>], pool.groups))
    /\ barrier' = FALSE
    /\ seen' = <<>>
    /\ chunks' = {[c EXCEPT !.group = 0] : c \in chunks}
    /\ UNCHANGED minAlloc

Next == \/ \E size \in Requests, separate \in BOOLEAN : Alloc(size, separate)
        \/ \E c \in chunks : Free(c)
        \/ Release \/ ReleaseAll
        \/ BarrierBegin \/ BeginGroup \/ EndGroup \/ BarrierEnd

Spec == Init /\ [][Next]_vars
=============================================================================
