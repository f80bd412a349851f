--------------------------- MODULE PipelineMemory ---------------------------
(***************************************************************************)
(* The life times of a pipeline's tensors (source/core/Pipeline.cpp):       *)
(* resize walks the commands in the order in which they run, takes memory   *)
(* for every tensor at its first use, gives it back after its last, and so  *)
(* plans a buffer in which tensors share bytes.  The plan is right if every *)
(* command still finds its inputs when it runs.                             *)
(*                                                                          *)
(* The memory is DeferHeap's node list, one for buffer 0 (group 0) and one  *)
(* for buffer 1 (group 1), where Resize_Fix moves what does not depend on   *)
(* the input's shape.  A resize and a fix are each one step: they run on    *)
(* one thread and share nothing with other sessions but the two buffers,    *)
(* which SessionMemory models.                                              *)
(*                                                                          *)
(* Tensors are numbered: inputs first, then the output of each command.     *)
(* One backend, so that no copies are inserted; every operator is one       *)
(* command with one output.                                                 *)
(***************************************************************************)
EXTENDS DeferHeap

CONSTANTS NumInputs, NumCommands,
          Weights,      \* what a tensor's size may be for the smallest shape
          Scratches,    \* what operators may take for themselves in onResize
          Shapes,       \* factors by which a shape changes the sizes
          Stills        \* which commands may have an output of constant size

ASSUME PipelineAssumption ==
    /\ NumInputs \in Nat \ {0} /\ NumCommands \in Nat \ {0}
    /\ MaxAllocs >= NumInputs + 2 * NumCommands
    /\ Shapes \subseteq Nat \ {0} /\ 1 \in Shapes

Inputs == 1 .. NumInputs
Commands == 1 .. NumCommands
Tensors == 1 .. NumInputs + NumCommands
Out(c) == NumInputs + c

ASSUME SizeAssumption ==
    /\ Weights \subseteq [Tensors -> Nat \ {0}]
    /\ Scratches \subseteq [Commands -> Nat]
    /\ Stills \subseteq SUBSET Commands

\* What a tensor's mem refers to: a node, or
None   == 0     \* nothing
Static == -1    \* memory of the static allocator
Gone   == -2    \* a node of a heap that was reset since

VARIABLES net,   \* the network: ins, outputs, weight, scratch, and
                 \*   inside: the session owns inputs and outputs (a Session's
                 \*           default; FALSE: a Module's)
                 \*   varies: tensors whose size follows the input's shape
          p      \* the pipeline, see NewPipeline

pipelineVars == <<net, p>>

-----------------------------------------------------------------------------
(* The network.                                                             *)

\* One or two tensors that exist before command c, perhaps twice the same.
InsOf(c) == LET ts == 1 .. Out(c) - 1
            IN  {<<t>> : t \in ts} \cup {s \in ts \X ts : s[1] <= s[2]}

Reads(c, t) == t \in ToSet(net.ins[c])

\* What op makes of q for the inputs of command c, one after the other.
EachInput(q, c, op(_, _)) ==
    LET r == op(q, net.ins[c][1])
    IN  IF Len(net.ins[c]) = 1 THEN r ELSE op(r, net.ins[c][2])

\* The tensors whose size follows the last input's shape.
Varies(ins, still) ==
    LET varies[t \in Tensors] ==
          IF t \in Inputs THEN t = NumInputs
          ELSE /\ t - NumInputs \notin still
               /\ \E u \in ToSet(ins[t - NumInputs]) : varies[u]
    IN  {t \in Tensors : varies[t]}

\* Commands that never see a new shape: their cached shapes always match.
Fixable == {c \in Commands : ToSet(net.ins[c]) \cap net.varies = {}}

Usage(t) == IF t \in Inputs THEN "INPUT"
            ELSE IF t \in net.outputs THEN "OUTPUT" ELSE "NORMAL"

\* an input may come from memory that was used before
StorageType_Shared(t) == IF Usage(t) = "OUTPUT" /\ ~net.inside THEN "STATIC" ELSE "DYNAMIC"

\* _getTensorStorageType, with outputStatic in a Module.
StorageType(t) == IF Usage(t) = "OUTPUT" /\ ~net.inside THEN "STATIC"
                  ELSE IF Usage(t) = "INPUT" THEN "DYNAMIC_SEPERATE" ELSE "DYNAMIC"

\* A pipeline before its first resize.  place and scratchAt are history: the
\* nodes that the current plan gives to a tensor and to a command's own use.
NewPipeline ==
    [heap    |-> [g \in 0 .. 1 |-> EmptyHeap],
     mem     |-> [t \in Tensors |-> None],
     use     |-> [t \in Tensors |-> 0],                  \* useCount
     group   |-> [t \in Tensors |-> IF t \in Inputs /\ ~net.inside THEN -1 ELSE 0],
     fixed   |-> {},                                     \* commands of group 1
     shape   |-> 1,
     place   |-> [t \in Tensors |-> 0],
     scratchAt |-> [c \in Commands |-> 0],
     code    |-> "NOT_PLANNED",
     unknown |-> FALSE]      \* a node was freed that its heap no longer has

PipelineInit ==
        /\ \E ins \in [Commands -> InsOf(NumCommands)],
              outputs \in SUBSET {Out(c) : c \in Commands},
              weight \in Weights, scratch \in Scratches,
              still \in Stills, inside \in BOOLEAN :
             /\ \A c \in Commands : ins[c] \in InsOf(c)
             /\ Out(NumCommands) \in outputs
             /\ net = [ins |-> ins, outputs |-> outputs, weight |-> weight,
                       scratch |-> scratch, varies |-> Varies(ins, still), inside |-> inside]
        /\ p = NewPipeline

Group(q, c) == IF c \in q.fixed THEN 1 ELSE 0
Size(q, t) == net.weight[t] * IF t \in net.varies THEN q.shape ELSE 1

-----------------------------------------------------------------------------
(* Memory of one tensor.                                                    *)

\* both allocators are reset
ResetHeap_Both(q, g) ==
    [q EXCEPT !.heap = [h \in 0 .. 1 |-> EmptyHeap],
              !.mem = [t \in Tensors |-> IF @[t] > 0 THEN Gone ELSE @[t]],
              !.place = [t \in Tensors |-> 0],
              !.scratchAt = [c \in Commands |-> 0]]

\* reset of the allocator of group g: mem objects keep their node pointers.
ResetHeap(q, g) ==
    [q EXCEPT !.heap[g] = EmptyHeap,
              !.mem = [t \in Tensors |-> IF q.group[t] = g /\ @[t] > 0 THEN Gone ELSE @[t]],
              !.place = [t \in Tensors |-> IF q.group[t] = g THEN 0 ELSE @[t]],
              !.scratchAt = [c \in Commands |-> IF Group(q, c) = g THEN 0 ELSE @[c]]]

\* mem = nullptr: the destructor of CPUMemObj frees its chunk.
DropMem(q, t) ==
    CASE q.mem[t] = Gone -> [q EXCEPT !.mem[t] = None, !.unknown = TRUE]
      [] q.mem[t] > 0    -> [q EXCEPT !.mem[t] = None, !.heap[q.group[t]] = FreeNode(@, q.mem[t])]
      [] OTHER           -> [q EXCEPT !.mem[t] = None]

\* _allocTensor and CPUBackend::onAcquire.
AllocTensor(q, t, g) ==
    IF q.group[t] # g \/ q.mem[t] # None THEN q
    ELSE IF StorageType(t) = "STATIC" THEN [q EXCEPT !.mem[t] = Static]
    ELSE LET r == AllocNode(q.heap[g], Size(q, t), StorageType(t) = "DYNAMIC_SEPERATE")
         IN  [q EXCEPT !.heap[g] = r.heap, !.mem[t] = r.node, !.place[t] = r.node]

\* _needRelease: after the last use, unless somebody outside still needs it.
NeedRelease(q, t, allocInput) ==
    q.use[t] = 0 /\ IF allocInput THEN Usage(t) # "OUTPUT" ELSE Usage(t) = "NORMAL"

\* _releaseTensor.
ReleaseTensor(q, t, g, allocInput) ==
    LET r == [q EXCEPT !.use[t] = @ - 1]
    IN  IF r.group[t] = g /\ NeedRelease(r, t, allocInput) THEN DropMem(r, t) ELSE r

\* An operator's onResize takes its own memory and gives it back: others may
\* use it before and after this command.
OnResize(q, c, g) ==
    IF Group(q, c) # g \/ net.scratch[c] = 0 THEN q
    ELSE LET r == AllocNode(q.heap[g], net.scratch[c], FALSE)
         IN  [q EXCEPT !.heap[g] = FreeNode(r.heap, r.node), !.scratchAt[c] = r.node]

-----------------------------------------------------------------------------
(* _allocForTensor.                                                         *)

\* How often a tensor is read.
UseCounts == [t \in Tensors |->
    Cardinality({r \in Commands \X (1 .. 2) : r[2] \in DOMAIN net.ins[r[1]] /\ net.ins[r[1]][r[2]] = t})]

\* One command: its tensors, its own memory, and what it was the last to read.
\* The operator of command failing has no memory and returns an error.
PlanCommand(q, c, g, allocInput, failing) ==
    LET alloc(r, t) == AllocTensor(r, t, g)
        release(r, t) == ReleaseTensor(r, t, g, allocInput)
        b == alloc(IF allocInput THEN EachInput(q, c, alloc) ELSE q, Out(c))
    IN  IF q.code # "NO_ERROR" THEN q
        ELSE IF c = failing /\ Group(q, c) = g THEN [b EXCEPT !.code = "OP_FAILED"]
        ELSE EachInput(OnResize(b, c, g), c, release)

\* All commands, in the order in which they run.
PlanAll(q, g, allocInput, failing) ==
    LET planned[c \in 0 .. NumCommands] ==
          IF c = 0 THEN q ELSE PlanCommand(planned[c - 1], c, g, allocInput, failing)
    IN  planned[NumCommands]

DropDynamic(q, t) == IF StorageType(t) = "DYNAMIC" THEN DropMem(q, t) ELSE q

\* only tensors that were read are looked at
Recycle_Inputs(q, c) == EachInput(q, c, DropDynamic)

\* _recycleDynamicMemory: the rest is given back, outputs first.
Recycle(q, c) == EachInput(DropDynamic(q, Out(c)), c, DropDynamic)

RecycleIn(q, c, g) == IF Group(q, c) = g THEN Recycle(q, c) ELSE q

RecycleAll(q, g) ==
    LET recycled[c \in 0 .. NumCommands] ==
          IF c = 0 THEN q ELSE RecycleIn(recycled[c - 1], c, g)
    IN  recycled[NumCommands]

\* onResizeEnd: compute.
ResizeEnd(h) == IF h.free = <<>> \/ IsFused(h) THEN "NO_ERROR" ELSE "INVALID_VALUE"

AllocForTensor(q, g, allocInput, failing) ==
    LET begun == [ResetHeap(q, g) EXCEPT !.use = UseCounts, !.code = "NO_ERROR"]
        planned == PlanAll(begun, g, allocInput, failing)
        recycled == RecycleAll(planned, g)
    IN  IF planned.code # "NO_ERROR" THEN planned
        ELSE [recycled EXCEPT !.code = ResizeEnd(recycled.heap[g])]

-----------------------------------------------------------------------------
(* The calls.                                                               *)

\* encode up to the operator of command c: the buffer is cleared, then every
\* operator drops its output before its shape is computed.
DropOutput(q, d) == IF q.group[Out(d)] = 0 THEN DropMem(q, Out(d)) ELSE q

Encode(q, c) ==
    LET dropped[d \in 0 .. c] == IF d = 0 THEN ResetHeap(q, 0) ELSE DropOutput(dropped[d - 1], d)
    IN  dropped[c]

\* Session::resize for a new shape fails: a shape cannot be computed, or (after
\* the last command) an operator cannot be created.
ResizeFailsEarly ==
    /\ ~p.unknown
    /\ \E shape \in Shapes, c \in Commands :
         p' = [Encode([p EXCEPT !.shape = shape], c) EXCEPT !.code = "COMPUTE_SIZE_ERROR"]
    /\ UNCHANGED net

\* Session::resize, with or without an operator whose onResize fails.
\* allocMemory clears the buffer again before it plans.
Resize ==
    /\ ~p.unknown
    /\ \E shape \in Shapes, failing \in {0} \cup (Commands \ p.fixed) :
         p' = AllocForTensor(ResetHeap(Encode([p EXCEPT !.shape = shape], NumCommands), 0),
                             0, net.inside, failing)
    /\ UNCHANGED net

\* The masks of fixResizeCache: what a fixed command touches moves to group 1.
Grouped(q) == [t \in Tensors |->
    IF \/ \E c \in q.fixed : t = Out(c)
       \/ q.group[t] = 0 /\ \E c \in q.fixed : Reads(c, t)
    THEN 1 ELSE q.group[t]]

\* Pipeline::fixResizeCache, after resizes that have shown which shapes change:
\* the fixed commands are planned in buffer 1 once and for all.  Buffer 0 is
\* released, a resize has to follow.  The result of the planning is ignored.
Fix == /\ ~p.unknown /\ p.code = "NO_ERROR"
       /\ LET cleared == ResetHeap(p, 0)
              masked == [cleared EXCEPT !.fixed = Fixable]
              q == AllocForTensor([masked EXCEPT !.group = Grouped(masked)], 1, TRUE, 0)
          IN  p' = [q EXCEPT !.code = IF @ = "NO_ERROR" THEN "NOT_PLANNED" ELSE @]
       /\ UNCHANGED net

\* After a free of unknown memory the program's behaviour is undefined: nothing
\* is said about it.
Undefined == p.unknown /\ UNCHANGED pipelineVars

PipelineNext == ResizeFailsEarly \/ Resize \/ Fix \/ Undefined

PipelineSpec == PipelineInit /\ [][PipelineNext]_pipelineVars
=============================================================================
