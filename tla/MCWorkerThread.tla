--------------------------- MODULE MCWorkerThread ---------------------------
(* Properties of the background workers.                                    *)
EXTENDS WorkerThread, TLC

WorkerSymmetry == Permutations(Workers)

\* Every variable has its type.
WorkerTypeOK == /\ tasks \in Seq(1 .. posted) /\ stop \in BOOLEAN
                /\ pc \in [Workers -> {"top", "wait", "asleep", "run", "left"}]
                /\ job \in [Workers -> Tasks \cup {0}] /\ posted \in 0 .. MaxPosts
                /\ owner \in {"open", "notifyPost", "notifyStop", "joining", "drain", "gone"}
                /\ runs \in [Tasks -> {0, 1}]

\* When the destructor has returned, every task was called exactly once,
\* whether a worker had taken it, was taking it while mStop was set, or nobody
\* had (WorkerThread.cpp:12-27, 30-46); CPUBackend::onExecuteBegin starts to
\* use the tasks' results at once.
DoneWhenGone == /\ WorkerTypeOK
                /\ owner = "gone" => \A t \in 1 .. posted : runs[t] = 1

\* A posted task is called without any further post and without the owner
\* destroying the object: a post between a worker's test of the queue and its
\* wait is not lost (WorkerThread.cpp:17, 48-57).
EveryTaskRuns == \A t \in Tasks : posted >= t ~> runs[t] = 1

\* The destructor returns (WorkerThread.cpp:30-46).
DestructorReturns == stop ~> owner = "gone"
=============================================================================
