---------------------------- MODULE MCResizeCache ----------------------------
(* Properties of the resize cache.                                          *)
EXTENDS ResizeCache

\* Every variable has its type.
TypeOK == /\ net \in Nets
          /\ \A t \in Tensors : /\ p.shape[t] \in Sizes /\ p.content[t] \in Sizes
                                /\ p.mem[t] \in Sizes \cup {0} /\ p.group[t] \in {0, 1}
          /\ p.fresh \in [Tensors -> BOOLEAN] /\ p.kept \in [Tensors -> BOOLEAN]
          /\ p.need \in [Ops -> BOOLEAN] /\ p.dirty \in [Ops -> BOOLEAN]
          /\ p.exe \in [Ops -> BOOLEAN] /\ p.cmdGroup \in [Ops -> {0, 1}]
          /\ p.code \in {"NO_ERROR", "COMPUTE_SIZE_ERROR", "OUT_OF_MEMORY"}
          /\ needResize \in BOOLEAN /\ pending \in BOOLEAN /\ lost \in BOOLEAN /\ spoiled \in BOOLEAN
          /\ phase \in {"plain", "check", "fixed"}
          /\ shown \subseteq [Inputs -> Sizes]

\* What the present inputs determine: a pipeline as a resize without any
\* cache, of a new session, would make it.
Truth == Resize(SetInputs(EmptyPipeline, Present), FALSE, <<"none", 0>>)

\* The last resize succeeded.
Ran == ~needResize

\* The exception common to the properties below is "spoiled": after Check, a
\* resize has failed between an operator's shape, which fills its cache, and
\* its commands, which no retry with the same inputs then builds, or gives
\* executions (GeometryComputerUtils.cpp:190-216, 355-399, Pipeline.cpp:585-633;
\* README, finding 5).  From there on they claim nothing.

\* A forward that succeeds has worked with the shapes and the contents that
\* its inputs determine, whatever was cached, kept or fixed before
\* (Schedule.cpp:39-78, GeometryComputerUtils.cpp:192-224, 295-334), unless
\* an earlier resize failed with an operator half built.
ShapesCurrent == Ran /\ ~spoiled => p.shape = Truth.shape /\ p.content = Truth.content

\* ... and with commands that were built for them, down to the regions of
\* virtual inputs, and have executions: after failures at any point of a
\* resize but the one excepted, whatever was cached, kept or fixed before
\* (GeometryComputerUtils.cpp:355-399, Pipeline.cpp:585-633).
CommandsCurrent == Ran /\ ~spoiled =>
    \A i \in Ops : ~IsConst(i) => /\ p.built[i] = Truth.built[i]
                                  /\ Commands(i) => p.exe[i]

\* ... in tensors with memory planned for their shape.  Two more exceptions:
\* a forward that finds the shapes of the last one right after the fix, where
\* what is not fixed has lost its memory (Pipeline.cpp:900-966,
\* CPUBackend.cpp:558-562), and an output that was to be renewed for a caller
\* and got no memory (StaticModule.cpp:486-506; README, finding 15).
MemoryFits ==
    /\ TypeOK
    /\ Ran /\ ~spoiled => \A i \in Ops : Commands(i) =>
         \/ p.mem[Out(i)] = p.shape[Out(i)]
         \/ pending /\ p.cmdGroup[i] = 0
         \/ lost /\ i = NumOps

\* What is fixed is not planned or built again (Pipeline.cpp:919-960), unless
\* an operator was left half built.  The output is excepted where the caller
\* still holds it: a resize computes it again, and without a resize it loses
\* its memory when there is none for another one (StaticModule.cpp:486-506).
FixedStay == [][phase = "fixed" /\ ~spoiled => \A i \in Ops :
    p.cmdGroup[i] = 1 /\ (i = NumOps => ~p'.need[i])
        => /\ p'.built[i] = p.built[i] /\ p'.cmdGroup[i] = 1
           /\ p'.mem[Out(i)] = p.mem[Out(i)] \/ (i = NumOps /\ lost')]_vars
=============================================================================
