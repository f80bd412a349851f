---------------------------- MODULE SessionMemory ----------------------------
(***************************************************************************)
(* Sessions that share one CPURuntime, and with it the two buffers their   *)
(* tensors live in (source/core/Session.cpp, Pipeline.cpp,                  *)
(* backend/cpu/CPUBackend.cpp, and SingleBufferWithAllocator and            *)
(* DeferBufferAllocator::apply of core/BufferAllocator.cpp).                *)
(*                                                                          *)
(* Resizing a session plans how many bytes it needs; applying the plan      *)
(* grows the shared buffer if it is too small, which frees the memory the   *)
(* other sessions' tensors point to.  They notice it when they run: every   *)
(* run applies the plan again and sets the tensors' pointers if the buffer  *)
(* has moved.  Buffer 0 holds the tensors that are planned on each resize,  *)
(* buffer 1 those that Session_Resize_Fix has fixed.                        *)
(*                                                                          *)
(* The runtime keeps the buffers in memory or, if a path for intermediate   *)
(* memory was set, in files that an MmapAllocator maps and numbers.         *)
(*                                                                          *)
(* One thread drives the sessions of a runtime (Executor.hpp and            *)
(* docs/inference/module.md: not thread safe), so a call is one action.     *)
(***************************************************************************)
EXTENDS Naturals, FiniteSets

CONSTANTS Sessions,
          Totals,        \* bytes that a plan may need
          Blocks,        \* addresses the system allocator can return
          Null,          \* the null pointer
          MidPaths,      \* may a path for intermediate memory be set?
          AllocFails,    \* may the system be out of memory?
          ResizeFails    \* may encoding a network or resizing an op fail?

ASSUME MemoryAssumption == /\ Totals \subseteq Nat \ {0}
                           /\ Null \notin Blocks
                           /\ IsFiniteSet(Blocks) /\ Cardinality(Blocks) >= 3
                           /\ MidPaths \subseteq BOOLEAN
                           /\ AllocFails \in BOOLEAN /\ ResizeFails \in BOOLEAN

VARIABLES mem,          \* blocks, the runtime's buffers and the plans
          needResize,   \* mNeedResize of each session
          needMalloc,   \* mNeedMalloc of each session
          fixed,        \* history: Resize_Fix was set and no resize followed
          stale,        \* history: shapes changed since the last good resize
          last          \* history: the session, kind and result of the last call

vars == <<mem, needResize, needMalloc, fixed, stale, last>>

Buffers == {0, 1}

\* used: mFreeList is not empty; total: mTotalSize; mPtr: the buffer that the
\* tensors were set to; host: where the tensors really point.
NoPlan(host) == [used |-> FALSE, total |-> 0, mPtr |-> Null, host |-> host]

\* midPath: is midMemoryPath set?  size: bytes of each live block, 0 for one
\* that is not allocated; name: the number of the file it maps; linked: does
\* that name still lead to the file?
EmptyMemory(midPath) ==
    [midPath |-> midPath,
     size |-> [b \in Blocks |-> 0],
     name |-> [b \in Blocks |-> 0],
     linked |-> [b \in Blocks |-> FALSE],
     allocTimes |-> 0,
     buffer |-> [i \in Buffers |-> [current |-> Null, currentSize |-> 0]],
     plan |-> [s \in Sessions |-> [i \in Buffers |-> NoPlan(Null)]]]

Init == /\ mem \in {EmptyMemory(midPath) : midPath \in MidPaths}
        /\ needResize = [s \in Sessions |-> TRUE]
        /\ needMalloc = [s \in Sessions |-> TRUE]
        /\ fixed = [s \in Sessions |-> FALSE]
        /\ stale = [s \in Sessions |-> TRUE]
        /\ last = [session |-> Null, call |-> "none", code |-> "NO_ERROR"]

-----------------------------------------------------------------------------
(* The root allocator: DefaultAllocator or MmapAllocator.                   *)

\* onRelease.  The mmap allocator removes the file by its name, whoever else
\* maps a file of that name, and starts to number files again.
OnRelease(m, p) ==
    LET n == [m EXCEPT !.size[p] = 0, !.name[p] = 0, !.linked[p] = FALSE]
    IN  IF ~m.midPath THEN n
        ELSE [n EXCEPT !.allocTimes = 0,
                       !.linked = [b \in Blocks |-> @[b] /\ m.name[b] # m.name[p]]]

\* The blocks that map the file which has the next number already.
Existing(m) == {b \in Blocks : m.linked[b] /\ m.name[b] = m.allocTimes}

\* onAlloc: [mem, block], block being null for a failure.  An address that
\* was just freed can be returned again.  A file that exists is mapped as it
\* is, or not at all if it is too small.
OnAllocs(m, total) ==
    LET free      == {b \in Blocks : m.size[b] = 0}
        mapped(b) == [m EXCEPT !.size[b] = total, !.name[b] = m.allocTimes,
                               !.linked[b] = TRUE, !.allocTimes = @ + 1]
        tooSmall  == \E b \in Existing(m) : m.size[b] < total
    IN  IF m.midPath
        THEN IF tooSmall THEN {[mem |-> [m EXCEPT !.allocTimes = @ + 1], block |-> Null]}
             ELSE {[mem |-> mapped(b), block |-> b] : b \in free}
        ELSE {[mem |-> [m EXCEPT !.size[b] = total], block |-> b] : b \in free}
             \cup IF AllocFails THEN {[mem |-> m, block |-> Null]} ELSE {}

-----------------------------------------------------------------------------
(* SingleBufferWithAllocator.                                               *)

\* the old block is not given back
Freed_Keep(m, i) == m

\* root->onRelease(current), unless current is null.
Freed(m, i) ==
    LET p == m.buffer[i].current IN IF p = Null THEN m ELSE OnRelease(m, p)

\* release: nothing at all when current is null, so that currentSize is kept.
ReleaseBuffer(m, i) ==
    IF m.buffer[i].current = Null THEN m
    ELSE [Freed(m, i) EXCEPT !.buffer[i] = [current |-> Null, currentSize |-> 0]]

\* realloc, called with currentSize < total: the possible memories.  A failure
\* keeps currentSize.
Reallocs(m, i, total) ==
    {[r.mem EXCEPT !.buffer[i] = [current |-> r.block,
                                  currentSize |-> IF r.block = Null THEN @.currentSize ELSE total]] :
        r \in OnAllocs(Freed(m, i), total)}

-----------------------------------------------------------------------------
(* DeferBufferAllocator::apply, with its result.                            *)

\* only the size decides whether the tensors have to be set
Moved_Never(m, s, i) == FALSE

\* The buffer is another one than the tensors were set to.
Moved(m, s, i) == m.plan[s][i].mPtr # m.buffer[i].current

\* mPtr = chunk, and the apply function for every tensor.
SetTensors(m, s, i) ==
    LET p == m.buffer[i].current IN [m EXCEPT !.plan[s][i].mPtr = p, !.plan[s][i].host = p]

Ok(m)   == [mem |-> m, code |-> "NO_ERROR"]
Oom(m)  == [mem |-> m, code |-> "OUT_OF_MEMORY"]
Oks(S)  == {r.mem : r \in {r \in S : r.code = "NO_ERROR"}}
Errs(S) == {r \in S : r.code # "NO_ERROR"}

Apply(m, s, i) ==
    LET plan == m.plan[s][i]
    IN  IF ~plan.used THEN {Ok(m)}
        ELSE IF m.buffer[i].currentSize < plan.total
        THEN {IF n.buffer[i].current = Null THEN Oom(n) ELSE Ok(SetTensors(n, s, i)) :
                n \in Reallocs(m, i, plan.total)}
        ELSE {Ok(IF Moved(m, s, i) THEN SetTensors(m, s, i) ELSE m)}

\* CPUBackend::_resetDynamicMemory: the main allocator, then the backup.
ResetDynamicMemory(m, s) ==
    LET first == Apply(m, s, 0)
    IN  Errs(first) \cup UNION {Apply(n, s, 1) : n \in Oks(first)}

\* Pipeline::_enterExecute: main and backup backend are the same CPUBackend,
\* which applies twice; only the second result is kept in pCurrentStatus.
EnterExecute(m, s) ==
    UNION {ResetDynamicMemory(r.mem, s) : r \in ResetDynamicMemory(m, s)}

-----------------------------------------------------------------------------
(* The calls.                                                               *)

Called(s, call, code) == last' = [session |-> s, call |-> call, code |-> code]

\* Interpreter::resizeTensor with other dimensions.
ResizeTensor(s) == /\ needResize' = [needResize EXCEPT ![s] = TRUE]
                   /\ stale' = [stale EXCEPT ![s] = TRUE]
                   /\ Called(s, "resizeTensor", "NO_ERROR")
                   /\ UNCHANGED <<mem, needMalloc, fixed>>

\* needResize stays cleared when the allocation fails
AllocGuard_Cleared == FALSE

\* "Set needResize = true for easy for judge in runSession when error"
AllocGuard == TRUE

\* onResizeBegin: the plan is dropped, the tensors still point where they did.
DropPlan(m, s, i) == [m EXCEPT !.plan[s][i] = NoPlan(@.host)]

\* Session::resize fails in encode, before anything is planned.
EncodeFails(s) == /\ ResizeFails /\ needResize[s]
                  /\ \E relloc \in BOOLEAN :
                       needMalloc' = [needMalloc EXCEPT ![s] = @ \/ relloc]
                  /\ Called(s, "resize", "NOT_SUPPORT")
                  /\ UNCHANGED <<mem, needResize, fixed, stale>>

\* An op's onResize fails half-way: the allocator is neither recycled nor
\* computed.
OpFails(s) == /\ ResizeFails /\ needResize[s]
              /\ \E used \in BOOLEAN :
                   mem' = [DropPlan(mem, s, 0) EXCEPT !.plan[s][0].used = used]
              /\ needResize' = [needResize EXCEPT ![s] = AllocGuard]
              /\ needMalloc' = [needMalloc EXCEPT ![s] = TRUE]
              /\ Called(s, "resize", "NOT_SUPPORT")
              /\ UNCHANGED <<fixed, stale>>

\* Everything is planned; onResizeEnd computes the offsets and applies.
Plan(s) == /\ needResize[s]
           /\ \E total \in Totals :
                LET m == [DropPlan(mem, s, 0) EXCEPT !.plan[s][0].used = TRUE,
                                                     !.plan[s][0].total = total]
                IN  \E r \in Apply(m, s, 0) :
                      LET failed == r.code # "NO_ERROR"
                      IN  /\ mem' = r.mem
                          /\ needResize' = [needResize EXCEPT ![s] = failed /\ AllocGuard]
                          /\ needMalloc' = [needMalloc EXCEPT ![s] = failed]
                          /\ stale' = [stale EXCEPT ![s] = failed]
                          /\ Called(s, "resize", r.code)
           /\ fixed' = [fixed EXCEPT ![s] = FALSE]

\* Nothing to encode: on the CPU allocMemory(false) returns at once.
ResizeNothing(s) == /\ ~needResize[s]
                    /\ needMalloc' = [needMalloc EXCEPT ![s] = FALSE]
                    /\ Called(s, "resize", "NO_ERROR")
                    /\ UNCHANGED <<mem, needResize, fixed, stale>>

\* Session::run.  A client that has fixed the network resizes it before.
Run(s) == /\ ~fixed[s]
          /\ IF needResize[s]
             THEN /\ Called(s, "run", "COMPUTE_SIZE_ERROR")
                  /\ UNCHANGED mem
             ELSE \E r \in EnterExecute(mem, s) :
                    /\ mem' = r.mem
                    /\ Called(s, "run", r.code)
          /\ UNCHANGED <<needResize, needMalloc, fixed, stale>>

\* CPUBackend::onMapTensor: the plan is applied, its result is not looked at.
MapTensor(s) == /\ ~fixed[s] /\ ~needResize[s]
                /\ \E r \in ResetDynamicMemory(mem, s) :
                     mem' = r.mem /\ Called(s, "map", r.code)
                /\ UNCHANGED <<needResize, needMalloc, fixed, stale>>

\* fixResizeCache: the plan is dropped, the ops that can be fixed are planned
\* in buffer 1 (the result is not looked at), and onSelectDynamicAllocator(0)
\* gives buffer 0 back.
Fix(s) == /\ ~needResize[s] /\ ~mem.plan[s][1].used
          /\ \E total \in Totals :
               LET m == [DropPlan(mem, s, 0) EXCEPT !.plan[s][1].used = TRUE,
                                                    !.plan[s][1].total = total]
               IN  \E r \in Apply(m, s, 1) : mem' = ReleaseBuffer(r.mem, 0)
          /\ fixed' = [fixed EXCEPT ![s] = TRUE]
          /\ Called(s, "fix", "NO_ERROR")
          /\ UNCHANGED <<needResize, needMalloc, stale>>

\* CPURuntime::onGabageCollect(100): the buffers in memory only.
GabageCollect == /\ ~mem.midPath
                 /\ mem' = ReleaseBuffer(ReleaseBuffer(mem, 0), 1)
                 /\ last' = [session |-> Null, call |-> "gc", code |-> "NO_ERROR"]
                 /\ UNCHANGED <<needResize, needMalloc, fixed, stale>>

Next == \/ \E s \in Sessions : \/ ResizeTensor(s) \/ EncodeFails(s) \/ OpFails(s)
                               \/ Plan(s) \/ ResizeNothing(s) \/ Run(s)
                               \/ MapTensor(s) \/ Fix(s)
        \/ GabageCollect

Spec == Init /\ [][Next]_vars
=============================================================================
