--------------------------- MODULE ThreadPoolProps ---------------------------
(* The correctness properties of the thread pool and its clients.           *)
EXTENDS ThreadPool

\* Client c owns the slot index[c]: from acquireWorkIndex to releaseWorkIndex.
Owner(c) == index[c] >= 0 /\ pc[c] # "deactivate"

\* Client c has handed a loop to the workers and waits for them.
Waiting(c) == pc[c] \in {"raise", "spin"}

\* Client c is inside enqueue.
InLoop(c) == pc[c] \in {"enqueue", "raise", "spin"}

\* Every variable has its type.
TypeOK ==
    /\ phase \in {"none", "up", "stopping", "joining"}
    /\ available \in [Slots -> BOOLEAN]
    /\ task \in [Slots -> [by : Clients \cup {NoClient}, size : Sizes \cup {0}]]
    /\ flag \in [Slots -> [Workers -> BOOLEAN]]
    /\ activeCount \in Int
    /\ stop \in BOOLEAN
    /\ wpc \in [Workers -> {"top", "active", "scan", "exec", "clear", "wait", "asleep", "exited"}]
    /\ scan \in [Workers -> Slots]
    /\ attached \in [Clients -> BOOLEAN]
    /\ pc \in [Clients -> {"user", "activate", "notify", "bind", "bindNotify", "unbind",
                           "enqueue", "raise", "spin", "deactivate"}]
    /\ depth \in [Clients -> 0 .. MaxDepth]
    /\ index \in [Clients -> Slots \cup {-1}]
    /\ open  \in [Clients -> Nat]
    /\ bound \in [Clients -> {"no", "busy", "yes"}]
    /\ size  \in [Clients -> Sizes \cup {0}]
    /\ k     \in [Clients -> 1 .. NumThread]
    /\ runs  \in [Clients -> [Items -> Nat]]

\* A slot has at most one owner and is marked taken exactly while it has one,
\* however Begin and End of the clients interleave (ThreadPool.cpp:92-108,
\* CPUBackend.cpp:396-424): none is lost, none is handed out twice.
SlotOwnership ==
    /\ \A c, d \in Clients : Owner(c) /\ Owner(d) /\ index[c] = index[d] => c = d
    /\ \A s \in Slots : ~available[s] <=> \E c \in Clients : Owner(c) /\ index[c] = s

\* A raised flag, or a worker between reading it and clearing it, always
\* finds in the slot the task of a client that is still waiting in enqueue:
\* the closure, which refers to the client's stack, is neither overwritten
\* nor dangling (ThreadPool.cpp:61-66, 137-167).
TaskAlive ==
    \A s \in Slots, w \in Workers :
        flag[s][w] \/ (wpc[w] \in {"exec", "clear"} /\ scan[w] = s) =>
            \E c \in Clients : /\ Waiting(c) /\ Owner(c) /\ index[c] = s
                               /\ task[s] = [by |-> c, size |-> size[c]]

\* mActiveCount is the number of runtimes between the first Begin and the
\* last End plus the number of affinity tasks in progress: it never leaks a
\* count (workers would spin for ever) nor loses one (a task would wait for
\* workers that sleep).  (ThreadPool.cpp:110-119, CPUBackend.cpp:81-114.)
ActiveAccounting ==
    activeCount = Cardinality({c \in Clients : index[c] >= 0 /\ pc[c] # "activate"})
                + Cardinality({c \in Clients : bound[c] = "busy"})

\* Outside of Begin .. End a runtime holds no slot and has no nesting count,
\* also when the pool was full at an outer Begin and not at an inner one
\* (CPUBackend.cpp:394-428).
BalancedRuntime == \A c \in Clients : depth[c] = 0 /\ pc[c] = "user" =>
                        index[c] = -1 /\ open[c] = 0

\* While enqueue runs no iteration has run twice, and when it returns every
\* iteration has run exactly once (ThreadPool.cpp:121-168).
ExactlyOnce ==
    \A c \in Clients : \A v \in Items :
        /\ runs[c][v] <= 1
        /\ ~InLoop(c) /\ v < size[c] => runs[c][v] = 1

-----------------------------------------------------------------------------
(* What makes the invariants inductive.                                     *)

\* The fields of a runtime agree with each other and with where its thread
\* is: it counts nesting only while it holds a slot, never beyond the Begin
\* calls not yet matched, and it is idle unless attached to the pool.
RuntimeInv(c) ==
    /\ ~attached[c] => pc[c] = "user" /\ depth[c] = 0
    /\ open[c] <= depth[c]
    /\ index[c] < 0 => /\ open[c] = 0
                       /\ pc[c] \notin {"activate", "notify", "raise", "spin", "deactivate"}
    /\ Owner(c) /\ pc[c] # "activate" => open[c] >= 1
    /\ pc[c] = "activate" => open[c] = 0 /\ depth[c] >= 1
    /\ pc[c] = "deactivate" => open[c] = 0

\* Only an existing pool has clients.
PoolInUse == phase # "up" => \A c \in Clients : ~attached[c]

\* The slot of a waiting client holds its task.
TaskInv == \A c \in Clients : Waiting(c) => task[index[c]] = [by |-> c, size |-> size[c]]

\* A raised flag of slot s and worker w belongs to a part of its owner's loop
\* that the owner has handed out and not yet seen finished.
FlagInv ==
    \A s \in Slots, w \in Workers : flag[s][w] =>
        \E c \in Clients : /\ Waiting(c) /\ index[c] = s
                           /\ w < Parts(size[c])
                           /\ pc[c] = "raise" => w < k[c]
                           /\ pc[c] = "spin" => w >= k[c]

\* A worker at work on a slot has its flag in that slot raised.
WorkInv == \A w \in Workers : wpc[w] \in {"exec", "clear"} => flag[scan[w]][w]

AliveInv == TaskInv /\ FlagInv /\ WorkInv

OwnInv == SlotOwnership /\ (\A c \in Clients : RuntimeInv(c)) /\ PoolInUse

-----------------------------------------------------------------------------
\* Every loop handed to the pool returns: no wake-up is lost between
\* active() and a worker about to sleep, and nobody waits for a worker that
\* is not there (ThreadPool.cpp:59-70, 110-116, 156-167).
EveryLoopReturns == \A c \in Clients : InLoop(c) ~> ~InLoop(c)

\* destroy() wakes and joins every worker (ThreadPool.cpp:35-43, 76-90).
DestroyReturns == phase = "stopping" ~> phase = "none"

\* The pool implements the parallel loop its kernels are written against
\* (core/Concurrency.h:22-33, ThreadPool.cpp:121-168).
Loop == INSTANCE ParallelFor WITH
            WorkSizes <- Sizes,
            busy <- [c \in Clients |-> InLoop(c)],
            ran  <- [c \in Clients |-> {v \in Items : runs[c][v] > 0}]
ImplementsParallelFor == Loop!Spec
=============================================================================
