---------------------------- MODULE ParallelFor ----------------------------
(***************************************************************************)
(* What a kernel expects of MNN_CONCURRENCY_BEGIN / END: the caller hands  *)
(* over a loop of `size` iterations, the iterations run in any order and   *)
(* in any grouping, each one exactly once, and the caller continues only   *)
(* after the last of them.  ThreadPool is shown to implement this.         *)
(***************************************************************************)
EXTENDS Naturals

CONSTANTS Clients,      \* threads that run parallel loops
          WorkSizes     \* the iteration counts they ask for

VARIABLES busy,         \* busy[c]: c is inside a parallel loop
          size,         \* size[c]: the iteration count of c's last loop
          ran           \* ran[c]: the iterations of that loop already run

vars == <<busy, size, ran>>

Init == /\ busy = [c \in Clients |-> FALSE]
        /\ size = [c \in Clients |-> 0]
        /\ ran  = [c \in Clients |-> {}]

\* The caller enters the loop.
Call(c) == /\ ~busy[c]
           /\ busy' = [busy EXCEPT ![c] = TRUE]
           /\ \E n \in WorkSizes : size' = [size EXCEPT ![c] = n]
           /\ ran' = [ran EXCEPT ![c] = {}]

\* Some thread runs a group of iterations nobody has run.  The inline path
\* runs the whole loop and returns in the same step.
Run(c) == /\ busy[c]
          /\ \E S \in SUBSET ((0 .. size[c] - 1) \ ran[c]) :
                ran' = [ran EXCEPT ![c] = @ \cup S]
          /\ \/ UNCHANGED busy
             \/ ran'[c] = 0 .. size[c] - 1 /\ busy' = [busy EXCEPT ![c] = FALSE]
          /\ UNCHANGED size

Next == \E c \in Clients : Call(c) \/ Run(c)

Spec == Init /\ [][Next]_vars
=============================================================================
