-------------------------- MODULE MCPipelineMemory --------------------------
(***************************************************************************)
(* PipelineMemory on every network of two inputs and three commands.        *)
(***************************************************************************)
EXTENDS PipelineMemory

\* sizes that fit into each other's nodes, with and without a rest
MCWeights == {[t \in Tensors |-> IF t % 2 = 0 THEN 3 ELSE 1]}
MCScratches == {[c \in Commands |-> IF c = 2 THEN 2 ELSE 0]}
MCStills == {{2}}

-----------------------------------------------------------------------------
\* The types of all fields; a tensor that is read is counted exactly as often
\* as it is released, so that use never becomes negative (Pipeline.cpp:150-163).
PipelineTypeOK ==
    /\ p.mem \in [Tensors -> Nodes \cup {None, Static, Gone}]
    /\ p.use \in [Tensors -> 0 .. 2 * NumCommands]
    /\ p.group \in [Tensors -> -1 .. 1]
    /\ p.fixed \subseteq Commands /\ p.shape \in Shapes
    /\ p.place \in [Tensors -> 0 .. MaxAllocs]
    /\ p.scratchAt \in [Commands -> 0 .. MaxAllocs]
    /\ p.code \in {"NOT_PLANNED", "NO_ERROR", "OP_FAILED", "COMPUTE_SIZE_ERROR", "INVALID_VALUE"}
    /\ p.unknown \in BOOLEAN

\* The session may run.
Ready == p.code = "NO_ERROR" /\ ~p.unknown

\* When a tensor gets its value, and who needs it last: an input is written
\* before the first command, an output is read after the last one.
Born(t) == IF t \in Inputs THEN 0 ELSE t - NumInputs
Dies(t) == IF t \in net.outputs THEN NumCommands + 1
           ELSE Max({Born(t)} \cup {c \in Commands : Reads(c, t)})
AliveAt(t, c) == Born(t) <= c /\ c <= Dies(t)

\* The tensors that need memory of the plan: not what the caller of a Module
\* brings or gets, and no input that no command reads.
InPlan == {t \in Tensors : /\ StorageType(t) # "STATIC" /\ p.group[t] # -1
                           /\ t \in Inputs => \E c \in Commands : Reads(c, t)}

\* The bytes of a node of a buffer.
PlanBytes(g, node, size) == LET at == Address(p.heap[g])[node]
                        IN  {<<g, b>> : b \in at .. at + size - 1}

\* A network that may run computes what it should (Pipeline.cpp:971-1089,
\* fixResizeCache 890-970): every tensor has memory, and no command writes, as
\* its output or for itself, where a value lies that somebody still reads.
ValuesSurvive == Ready =>
    LET of == [t \in InPlan |-> PlanBytes(p.group[t], p.place[t], Size(p, t))]
        own(c) == PlanBytes(Group(p, c), p.scratchAt[c], net.scratch[c])
    IN  /\ \A t \in InPlan : p.place[t] # 0
        /\ \A t, u \in InPlan :
             t # u /\ AliveAt(t, Born(u)) => of[t] \cap of[u] = {}
        /\ \A c \in Commands, t \in InPlan :
             net.scratch[c] > 0 /\ AliveAt(t, c) => own(c) \cap of[t] = {}

\* Giving back by use count and recycling the rest (Pipeline.cpp:866-880) leave
\* nothing behind: compute finds one free node, and no tensor keeps a memory
\* object that would outlive the plan or a count that is off.
EverythingReturned ==
    /\ PipelineTypeOK
    /\ p.code # "INVALID_VALUE"
    /\ Ready => \A t \in Tensors : p.mem[t] \in {None, Static}

\* Operators of group 1 are never resized again and keep the addresses they
\* were given (Pipeline.cpp:1041): no later resize, whether it succeeds or
\* fails, and no second fix moves one of their tensors.
FixedStay == [][\A t \in Tensors : p.group[t] = 1 =>
                  /\ p'.group[t] = 1 /\ p'.place[t] = p.place[t]
                  /\ p.place[t] # 0 => Address(p'.heap[1])[p.place[t]]
                                       = Address(p.heap[1])[p.place[t]]]_pipelineVars
=============================================================================
