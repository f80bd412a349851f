--------------------------- MODULE DeferAllocator ---------------------------
(***************************************************************************)
(* MNN::DeferBufferAllocator (source/core/BufferAllocator.cpp), the planner *)
(* of a resized network's dynamic memory.  alloc and free only shape a list *)
(* of nodes; addresses exist after compute(), when every tensor has been    *)
(* released again and all nodes are fused into one.  A node keeps its size  *)
(* as long as it is used, but a free node that is too small is EXPANDED, so *)
(* the offsets of everything right of it move until the end.                *)
(*                                                                          *)
(* heap holds the structure of one planning round.  tensors, freed, live    *)
(* and met are history: which node each alloc returned, which tensors gave  *)
(* it back, whose bytes are in use now, and which pairs of tensors were     *)
(* ever in use at the same time.  Sizes are multiples of the alignment.     *)
(***************************************************************************)
EXTENDS DeferHeap

CONSTANTS Requests,     \* sizes asked for
          Barriers      \* bound: barriers of one round

ASSUME AllocAssumption == Requests \subseteq Nat \ {0} /\ Barriers \in Nat

VARIABLES heap,      \* the nodes, their list and the free list, see EmptyHeap
          total,     \* mTotalSize: 0 until compute succeeds
          code,      \* what the last compute returned
          barrier,   \* mBarrrier
          deferred,  \* mBarrrierFreeChunks
          barriers,  \* barriers begun in this round
          tensors,   \* one record [node, size] per alloc of this round
          freed,     \* tensors that were given to free
          live,      \* tensors whose bytes are in use
          met        \* pairs of tensors that were live together

vars == <<heap, total, code, barrier, deferred, barriers, tensors, freed, live, met>>

Init == /\ heap = EmptyHeap /\ total = 0 /\ code = "NO_ERROR"
        /\ barrier = FALSE /\ deferred = <<>> /\ barriers = 0
        /\ tensors = <<>> /\ freed = {} /\ live = {} /\ met = {}

-----------------------------------------------------------------------------
(* The operations.                                                          *)

\* The round is open: nothing computed since the last reset.
Planning == total = 0 /\ code = "NO_ERROR"

Alloc == /\ Planning /\ Len(tensors) < MaxAllocs
         /\ \E size \in Requests, separate \in BOOLEAN :
              LET r == AllocNode(heap, size, separate)
                  t == Len(tensors) + 1
              IN  /\ heap' = r.heap
                  /\ tensors' = Append(tensors, [node |-> r.node, size |-> size])
                  /\ live' = live \cup {t}
                  /\ met' = met \cup {{t, u} : u \in live}
         /\ UNCHANGED <<total, code, barrier, deferred, barriers, freed>>

\* inside a barrier memory is given back at once
Free_IgnoreBarrier(t) == /\ heap' = FreeNode(heap, tensors[t].node)
                         /\ UNCHANGED deferred

\* free: a free inside a barrier waits for barrierEnd.
Free(t) == IF barrier THEN /\ deferred' = Append(deferred, tensors[t].node)
                           /\ UNCHANGED heap
                      ELSE /\ heap' = FreeNode(heap, tensors[t].node)
                           /\ UNCHANGED deferred

\* A tensor gives its chunk back (~CPUMemObj).  Inside a barrier its
\* bytes stay in use: another thread works on them at the same time.
Release == /\ Planning
           /\ \E t \in DOMAIN tensors \ freed :
                /\ Free(t)
                /\ freed' = freed \cup {t}
                /\ live' = IF barrier THEN live ELSE live \ {t}
           /\ UNCHANGED <<total, code, barrier, barriers, tensors, met>>

BarrierBegin == /\ Planning /\ ~barrier /\ barriers < Barriers
                /\ barrier' = TRUE /\ barriers' = barriers + 1
                /\ UNCHANGED <<heap, total, code, deferred, tensors, freed, live, met>>

BarrierEnd == /\ Planning /\ barrier
              /\ barrier' = FALSE
              /\ heap' = FreeAll(heap, deferred)
              /\ deferred' = <<>>
              /\ live' = live \ freed
              /\ UNCHANGED <<total, code, barriers, tensors, freed, met>>

\* compute: fails unless everything is fused into one free node.
Compute == /\ Planning /\ ~barrier /\ tensors # <<>>
           /\ IF heap.free = <<>> THEN UNCHANGED <<total, code>>
              ELSE IF IsFused(heap)
              THEN total' = heap.size[heap.list[1]] /\ UNCHANGED code
              ELSE code' = "INVALID_VALUE" /\ UNCHANGED total
           /\ UNCHANGED <<heap, barrier, deferred, barriers, tensors, freed, live, met>>

\* reset, called before the next round of allocs.
Reset == /\ heap' = EmptyHeap /\ total' = 0 /\ code' = "NO_ERROR"
         /\ barrier' = FALSE /\ deferred' = <<>> /\ barriers' = 0
         /\ tensors' = <<>> /\ freed' = {} /\ live' = {} /\ met' = {}

Next == Alloc \/ Release \/ BarrierBegin \/ BarrierEnd \/ Compute \/ Reset

Spec == Init /\ [][Next]_vars

-----------------------------------------------------------------------------
\* The bytes of tensor t once apply has set its pointer.
Bytes(t) == LET r == tensors[t]
                a == Address(heap)[r.node]
            IN  a .. a + r.size - 1
=============================================================================
