----------------------------- MODULE ResizeCache -----------------------------
(***************************************************************************)
(* What a resize of a pipeline computes again and what it takes from the    *)
(* last one (Schedule::OpResizeCache, GeometryComputerUtils'                *)
(* shapeComputeAndGeometryTransform, Pipeline::openResizeCheck,             *)
(* fixResizeCache and _createExecutions), as StaticModule::onForward uses   *)
(* it.                                                                      *)
(*                                                                          *)
(* Without Session_Resize_Check every resize infers every shape and builds  *)
(* every operator's commands.  Once the check is open, an operator keeps    *)
(* the shapes (and, where its own shape depends on it, the content) of its  *)
(* inputs; as long as they are the same its commands are kept, and when     *)
(* they differ once its cache is closed for good.  Session_Resize_Fix then  *)
(* exempts the operators whose cache is still open from all later resizes,  *)
(* and plans their tensors in a group of their own.                         *)
(*                                                                          *)
(* A shape or a content is a number.  The kinds of operators differ in what *)
(* a resize has to do for them:                                             *)
(*   same     has the shape of its input            match  needs equal ones *)
(*   interp   has the shape that its second input contains                  *)
(*   crop     has a constant shape; its output is virtual: regions of its   *)
(*            input that the commands of its readers contain                *)
(*   shapeOf  contains the shape of its input, written by its geometry      *)
(*   copy     has the content of its input, written by a command            *)
(* The last two are of type CONSTANT: they are run by the resize.           *)
(***************************************************************************)
EXTENDS Integers, Sequences, FiniteSets

CONSTANTS NumOps,       \* operators of the network
          Sizes,        \* shapes and contents
          Failing       \* may memory run out in a resize?

ASSUME ResizeAssumption == /\ NumOps \in Nat \ {0}
                           /\ 1 \in Sizes /\ Sizes \subseteq Nat \ {0}
                           /\ Failing \in BOOLEAN

VARIABLES net,          \* the network: kind and inputs of each operator
          p,            \* the pipeline
          needResize,   \* Session::mNeedResize
          phase,        \* history: "plain", "check" or "fixed"
          shown,        \* history: the inputs resized to since the check
          pending,      \* history: no resize has followed the fix
          lost,         \* history: the output was to get new memory, and has none
          spoiled       \* history: a failed resize left an operator half built

vars == <<net, p, needResize, phase, shown, pending, lost, spoiled>>

\* Tensors: two inputs of any shape, one of any content, the operators' outputs.
X == 1
Y == 2
C == 3
Inputs  == {X, Y, C}
Ops     == 1..NumOps
Out(i)  == 3 + i
Tensors == 1..(3 + NumOps)

Kinds == {"same", "match", "interp", "crop", "shapeOf", "copy"}
ConstKinds == {"shapeOf", "copy"}

Op(i)       == net[i]
IsConst(i)  == Op(i).kind \in ConstKinds
\* An operator whose output is computed by a command of the execution.
Commands(i) == Op(i).kind \in {"same", "match", "interp"}
IsVirtual(t) == t \notin Inputs /\ Op(t - 3).kind = "crop"
\* The input whose content the shape depends on.
ContentInput(i, k) == Op(i).kind = "interp" /\ k = 2
\* needInputContentForShape: a shape depends on the content of an input.
UsesContent(n) == \E i \in Ops : \E k \in DOMAIN n[i].in : n[i].in[k] = C

\* The networks: data tensors are X and the outputs of operators that are not
\* CONSTANT, and Y where two operands meet; a content is the input C or that
\* of a CONSTANT operator.  A copy is CONSTANT because somebody needs its
\* content.  Each result is used, the last one is computed by a command,
\* only a crop occurs twice, and at most two of the three inputs are read.
Operands(n, i, const) ==
    {t \in 1..(2 + i) : IF t \in Inputs THEN (t = C) = const
                        ELSE (n[t - 3].kind \in ConstKinds) = const}
Choices(n, i) ==
    LET data == Operands(n, i, FALSE)
        size == Operands(n, i, TRUE)
    IN  {[kind |-> k, in |-> <<t>>] : k \in {"same", "crop", "shapeOf"}, t \in data \ {Y}}
        \cup {[kind |-> "copy", in |-> <<t>>] : t \in size}
        \cup {[kind |-> "match", in |-> <<t, u>>] : t \in data \ {Y}, u \in data \ {X}}
        \cup {[kind |-> "interp", in |-> <<t, u>>] : t \in data \ {Y}, u \in size}
WellUsed(n) ==
    /\ n[NumOps].kind \in {"same", "match", "interp"}
    /\ \A i, j \in Ops : i < j /\ n[i].kind = n[j].kind => n[i].kind = "crop"
    /\ \E t \in Inputs : \A i \in Ops : \A k \in DOMAIN n[i].in : n[i].in[k] # t
    /\ \A i \in Ops : i < NumOps => \E j \in Ops : \E k \in DOMAIN n[j].in : n[j].in[k] = Out(i)
Nets == LET f[i \in 0..NumOps] ==
              IF i = 0 THEN {<<>>}
              ELSE UNION {{Append(n, c) : c \in Choices(n, i)} : n \in f[i - 1]}
        IN  {n \in f[NumOps] : WellUsed(n)}

-----------------------------------------------------------------------------
(* The state of a pipeline.                                                 *)

None == <<>>

ClosedCache(pass) == [can |-> FALSE, computed |-> FALSE, pass |-> pass, info |-> None]

\* shape and content of tensors; mem: the shape a tensor's memory was planned
\* for, 0 if none; group of tensors and of commands; fresh:
\* COMPUTE_SHAPE_STAGE; kept: CONTENT_NOT_CHANGE; need: needComputeShape;
\* dirty: needExecuteConst; built: what the commands were built from; exe:
\* have they got executions; cache: OpResizeCache; release:
\* mGeometryNeedRelease; code: the result of the resize in progress.
EmptyPipeline ==
    [shape   |-> [t \in Tensors |-> 1],
     content |-> [t \in Tensors |-> 1],
     mem     |-> [t \in Tensors |-> 0],
     group   |-> [t \in Tensors |-> 0],
     fresh   |-> [t \in Tensors |-> FALSE],
     kept    |-> [t \in Tensors |-> FALSE],
     need    |-> [i \in Ops |-> TRUE],
     dirty   |-> [i \in Ops |-> FALSE],
     built   |-> [i \in Ops |-> None],
     exe     |-> [i \in Ops |-> FALSE],
     cmdGroup |-> [i \in Ops |-> 0],
     cache   |-> [i \in Ops |-> ClosedCache(FALSE)],
     release |-> TRUE,
     code    |-> "NO_ERROR"]

Ok(q) == q.code = "NO_ERROR"

\* What an operator's shape is inferred from, as its cache keeps it.
Snapshot(q, i) ==
    [k \in DOMAIN Op(i).in |->
        LET t == Op(i).in[k]
        IN  <<q.shape[t], IF ContentInput(i, k) THEN q.content[t] ELSE 0>>]

\* What an operator's commands are built from: the shapes of its output and
\* inputs and, for a virtual input, the regions it stands for.
Basis(q, i) ==
    <<q.shape[Out(i)],
      [k \in DOMAIN Op(i).in |->
          LET t == Op(i).in[k]
          IN  <<q.shape[t], IF IsVirtual(t) THEN q.built[t - 3] ELSE None>>]>>

\* SizeComputer::computeOutputSize, for the kinds of operators above.
OutputSize(q, i) ==
    LET in(k) == Op(i).in[k]
    IN  CASE Op(i).kind \in {"same", "match"} -> q.shape[in(1)]
          [] Op(i).kind = "interp" -> q.content[in(2)]
          [] OTHER -> 1
ShapeFails(q, i) == Op(i).kind = "match" /\ q.shape[Op(i).in[1]] # q.shape[Op(i).in[2]]

-----------------------------------------------------------------------------
(* OpResizeCache.                                                           *)

\* a virtual input that was computed again is taken for the same
Same_Virtual(q, i) == q.cache[i].info = Snapshot(q, i)

\* Inputs as the cache knows them, none of them virtual and computed again.
Same(q, i) ==
    /\ q.cache[i].info = Snapshot(q, i)
    /\ \A k \in DOMAIN Op(i).in : LET t == Op(i).in[k] IN ~(IsVirtual(t) /\ q.fresh[t])

\* whether the inputs were compared, and match
Compared(q, i) == q.cache[i].can /\ q.cache[i].computed /\ q.cache[i].info # None
Match(q, i) == IF q.cache[i].can THEN Compared(q, i) /\ Same(q, i) ELSE q.cache[i].pass

Close(q, i, pass) ==
    [q EXCEPT !.cache[i] = [@ EXCEPT !.can = FALSE, !.pass = pass, !.info = None]]

\* "means the op's shape is mutable, close cache and don't compare"
CloseVarying(q, i) == IF Compared(q, i) THEN Close(q, i, FALSE) ELSE q

Insert(q, i) ==
    IF q.cache[i].can
    THEN [q EXCEPT !.cache[i].computed = TRUE, !.cache[i].info = Snapshot(q, i)]
    ELSE q

-----------------------------------------------------------------------------
(* Pipeline::encode: shapes and constants of every operator, then the       *)
(* geometry of every operator.  "fail" is where memory runs out.            *)

\* the memory of an earlier plan is kept
DropOutput_Keep(q, i, held) == q

\* ... or given up whatever its group
DropOutput_AnyGroup(q, i, held) ==
    IF IsConst(i) THEN q ELSE [q EXCEPT !.mem[Out(i)] = 0]

\* The output of an earlier plan is dropped; one that the caller still holds
\* is left to the caller and replaced by a new tensor.
DropOutput(q, i, held) ==
    LET t == Out(i)
    IN  IF held /\ i = NumOps
        THEN Close([q EXCEPT !.group[t] = 0, !.mem[t] = 0, !.kept[t] = FALSE], i, FALSE)
        ELSE IF q.group[t] = 0 /\ ~IsConst(i) THEN [q EXCEPT !.mem[t] = 0] ELSE q

Infer(q, i) ==
    LET t == Out(i)
        n == [q EXCEPT !.shape[t] = OutputSize(q, i), !.fresh[t] = TRUE, !.kept[t] = FALSE]
    IN  Insert(n, i)

\* a constant is run again only if its shape was computed again
Dirty_ShapeOnly(q, i, need) == need

\* The command of a constant is run if its input may have a new content: one
\* from the user (group -1), or one whose content may have changed.
Dirty(q, i, need) ==
    need \/ \E k \in DOMAIN Op(i).in : LET t == Op(i).in[k] IN t \in Inputs \/ ~q.kept[t]

\* A constant is built, if its shape was computed, and run.
BuildConst(q, i, need, fail) ==
    IF ~need THEN q
    ELSE IF Op(i).kind = "shapeOf"
         THEN [q EXCEPT !.content[Out(i)] = q.shape[Op(i).in[1]]]
         ELSE LET n == [q EXCEPT !.built[i] = Basis(q, i), !.exe[i] = fail # <<"const", i>>]
              IN  IF fail = <<"const", i>> THEN [n EXCEPT !.code = "OUT_OF_MEMORY"] ELSE n

RunConst(q, i, need) ==
    LET t     == Out(i)
        dirty == Dirty(q, i, need)
    IN  IF ~Ok(q) \/ q.built[i] = None THEN q
        ELSE [q EXCEPT !.dirty[i] = dirty, !.kept[t] = ~dirty,
                       !.content[t] = IF dirty THEN q.content[Op(i).in[1]] ELSE @]

\* mNeedRelease: the commands of a constant are given up when it has been run.
ReleaseConst(q, i) == IF Ok(q) /\ q.release THEN [q EXCEPT !.built[i] = None] ELSE q

ConstStep(q, i, need, fail) ==
    LET kept == IF need THEN q ELSE [q EXCEPT !.kept[Out(i)] = TRUE]
    IN  ReleaseConst(RunConst(BuildConst(kept, i, need, fail), i, need), i)

ShapeStep(q, i, held, fail) ==
    LET d    == [DropOutput(q, i, held) EXCEPT !.fresh[Out(i)] = FALSE]
        need == ~Match(d, i)
        e    == IF need THEN CloseVarying(d, i) ELSE d
        n    == [IF need THEN Infer(e, i) ELSE e EXCEPT !.need[i] = need]
    IN  IF ~Ok(q) THEN q
        ELSE IF need /\ ShapeFails(e, i) THEN [e EXCEPT !.code = "COMPUTE_SIZE_ERROR"]
        ELSE IF IsConst(i) THEN ConstStep(n, i, need, fail) ELSE n

\* New commands have no execution yet and belong to group 0.
GeometryStep(q, i) ==
    IF ~Ok(q) \/ IsConst(i) \/ ~q.need[i] THEN q
    ELSE [q EXCEPT !.built[i] = Basis(q, i), !.exe[i] = FALSE, !.cmdGroup[i] = 0]

Encode(q, held, fail) ==
    LET shapes[i \in 0..NumOps] == IF i = 0 THEN q ELSE ShapeStep(shapes[i - 1], i, held, fail)
        geometry[i \in 0..NumOps] ==
            IF i = 0 THEN shapes[NumOps] ELSE GeometryStep(geometry[i - 1], i)
    IN  geometry[NumOps]

-----------------------------------------------------------------------------
(* Pipeline::allocMemory.                                                   *)

\* _createExecutions: for what was computed again only.
CreateExecutions(q, fail) ==
    LET failed(i) == \E j \in 1..i : fail = <<"create", j>> /\ q.need[j] /\ ~IsConst(j)
    IN  IF ~Ok(q) THEN q
        ELSE [q EXCEPT !.exe = [i \in Ops |-> IF IsConst(i) \/ ~q.need[i] THEN @[i] ELSE ~failed(i)],
                       !.code = IF failed(NumOps) THEN "OUT_OF_MEMORY" ELSE @]

\* _allocForTensor(0): the outputs of commands that are in group 0.
PlanTensors(q, group) ==
    [q EXCEPT !.mem = [t \in Tensors |->
        IF t \notin Inputs /\ Commands(t - 3) /\ q.group[t] = group /\ @[t] = 0
        THEN q.shape[t] ELSE @[t]]]
AllocTensors(q, fail) ==
    IF ~Ok(q) THEN q
    ELSE IF fail = <<"plan", 0>> THEN [q EXCEPT !.code = "OUT_OF_MEMORY"]
    ELSE PlanTensors(q, 0)

FailPoints == {<<"none", 0>>}
              \cup (IF Failing THEN {<<"plan", 0>>} \cup ({"create"} \X {i \in Ops : Commands(i)})
                                 \cup ({"const"} \X {i \in Ops : Op(i).kind = "copy"})
                                 \cup {<<"output", 0>>}
                  ELSE {})

\* ("fresh" is not read again after a resize.)
Resize(q, held, fail) ==
    LET n == AllocTensors(CreateExecutions(Encode([q EXCEPT !.code = "NO_ERROR"], held, fail), fail), fail)
    IN  [n EXCEPT !.fresh = [t \in Tensors |-> FALSE]]

-----------------------------------------------------------------------------
(* The calls.                                                               *)

Init == /\ net \in Nets
        /\ p = EmptyPipeline
        /\ needResize = TRUE
        /\ phase = "plain"
        /\ shown = {}
        /\ pending = FALSE
        /\ lost = FALSE
        /\ spoiled = FALSE

\* The inputs of a call; what the network does not read does not vary.
Reads(t) == \E i \in Ops : \E k \in DOMAIN Op(i).in : Op(i).in[k] = t
Assignments == {a \in [Inputs -> Sizes] : \A t \in Inputs : Reads(t) \/ a[t] = 1}
Present == [t \in Inputs |-> IF t = C THEN p.content[t] ELSE p.shape[t]]

SetInputs(q, a) ==
    [q EXCEPT !.shape = [t \in Tensors |-> IF t \in {X, Y} THEN a[t] ELSE @[t]],
              !.content = [t \in Tensors |-> IF t = C THEN a[t] ELSE @[t]]]

\* The resize that led from "from" to q has filled the open cache of an
\* operator, and failed before its commands were built, or had executions.
HalfBuilt(from, q, i, fail) ==
    /\ q.cache[i].can /\ q.cache[i].computed /\ ~from.cache[i].computed
    /\ \/ fail = <<"const", i>>
       \/ ~IsConst(i) /\ (q.code = "COMPUTE_SIZE_ERROR" \/ fail[1] = "const")
       \/ Commands(i) /\ ~q.exe[i]

\* An output that the caller still holds gets new memory if nothing else has
\* changed.  Failing leaves it without any.
RenewOutput(q, held, fail) ==
    LET t == Out(NumOps)
    IN  IF ~held \/ q.mem[t] = 0 THEN q
        ELSE IF fail = <<"output", 0>> THEN [q EXCEPT !.mem[t] = 0, !.code = "OUT_OF_MEMORY"]
        ELSE [q EXCEPT !.mem[t] = q.shape[t]]

\* StaticModule::onForward with inputs a: set the inputs, resize if a shape
\* has changed, or always if contents matter, and run.  Between Check and Fix
\* the caller shows all inputs it will use after Fix.
Forward(a, held, fail) ==
    LET changed == UsesContent(net) \/ a[X] # p.shape[X] \/ a[Y] # p.shape[Y]
        called  == [p EXCEPT !.code = "NO_ERROR"]
        ready   == IF changed THEN called ELSE RenewOutput(called, held, fail)
        resize  == Ok(ready) /\ (needResize \/ changed)
        q       == IF resize THEN Resize(SetInputs(ready, a), held, fail) ELSE ready
    IN  /\ phase = "fixed" => a \in shown
        /\ held => p.mem[Out(NumOps)] # 0 \/ lost
        /\ fail # <<"none", 0>> => q.code = "OUT_OF_MEMORY"
        /\ p' = q
        /\ needResize' = IF resize THEN ~Ok(q) ELSE needResize
        /\ shown' = IF phase = "check" /\ resize /\ Ok(q) THEN shown \cup {a} ELSE shown
        /\ pending' = (pending /\ ~(resize /\ Ok(q)))
        /\ lost' = ((lost \/ ~Ok(ready)) /\ q.mem[Out(NumOps)] = 0)
        /\ spoiled' = (spoiled \/ (resize /\ ~Ok(q) /\ \E i \in Ops : HalfBuilt(ready, q, i, fail)))
        /\ UNCHANGED <<net, phase>>

\* openResizeCheck
Opened(q) == [q EXCEPT !.release = FALSE, !.cache = [i \in Ops |-> [@[i] EXCEPT !.can = TRUE]]]

Check == /\ phase = "plain"
         /\ p' = Opened(p)
         /\ phase' = "check"
         /\ UNCHANGED <<net, needResize, shown, pending, lost, spoiled>>

\* "If the session has been resized and the op is checked will change shape,
\* set as shape mutable"
Fixes(q, i) == q.cache[i].can \/ ~q.need[i]

KeepsConst(q, i) == q.dirty[i]

\* fixResizeCache: constants that were not run by the last resize lose their
\* commands, what is fixed moves to group 1 with the tensors it touches and is
\* planned there, and the plan of group 0 is given up, except for the output,
\* which is static.
Fix ==
    LET fixed   == {i \in Ops : Fixes(p, i)}
        inGroup == {i \in fixed : ~IsConst(i)}
        touched == UNION {{Out(i)} \cup {Op(i).in[k] : k \in DOMAIN Op(i).in} : i \in inGroup}
        q == [p EXCEPT
                !.built = [i \in Ops |-> IF IsConst(i) /\ ~KeepsConst(p, i) THEN None ELSE @[i]],
                !.cache = [i \in Ops |-> [@[i] EXCEPT !.can = FALSE, !.info = None, !.pass = i \in fixed]],
                !.cmdGroup = [i \in Ops |-> IF i \in inGroup THEN 1 ELSE @[i]],
                !.group = [t \in Tensors |-> IF t \in touched THEN 1 ELSE @[t]],
                !.mem = [t \in Tensors |-> IF t = Out(NumOps) THEN @[t] ELSE 0]]
    IN  /\ phase = "check" /\ ~needResize /\ shown # {}
        /\ p' = PlanTensors(q, 1)
        /\ phase' = "fixed"
        /\ pending' = TRUE
        /\ lost' = (lost /\ p'.mem[Out(NumOps)] = 0)
        /\ UNCHANGED <<net, needResize, shown, spoiled>>

Next == \/ \E a \in Assignments, held \in BOOLEAN, fail \in FailPoints : Forward(a, held, fail)
        \/ Check
        \/ Fix

Spec == Init /\ [][Next]_vars
=============================================================================
