---------------------------- MODULE MCDataLoader ----------------------------
(* Properties of the data loader.                                           *)
EXTENDS DataLoader, TLC

WorkerSymmetry == Permutations(Workers)

Batches == [epoch : 1 .. MaxEpochs, index : 1 .. NumBatches]

\* Every variable has its type.
LoaderTypeOK ==
    /\ jobs \in Seq(Batches \cup {Quit}) /\ data \in Seq(Batches)
    /\ \A w \in Workers :
         /\ pc[w] \in {"off", "popJob", "popJob_sleep", "load", "pushData",
                       "pushData_sleep", "notifyData", "left"}
         /\ hold[w] \in Batches \cup {None}
    /\ pc[Client] \in {"prefetch", "pushJob", "pushJob_sleep", "notifyJob", "idle",
                       "popData", "popData_sleep", "join", "gone"}
    /\ call \in {"start", "none", "next", "reset", "clean", "cleaned", "destroy"}
    /\ left \in 0 .. NumJobs /\ index \in 0 .. NumBatches /\ epoch \in 1 .. MaxEpochs
    /\ got \in Seq(Batches)

\* A batch that dropLast forbids is never returned (DataLoader.cpp:56-60).
NoShortBatch == DropShort => \A i \in DOMAIN got : got[i].index < NumBatches

\* The batches next returns are of the current pass of the sampler, none is
\* returned twice, and none is short if those are dropped, although batches of
\* the pass before may be queued or in a worker's hands when reset is called
\* (DataLoader.cpp:51-60, 79-110).
FreshBatches == /\ IsInjective(got)
                /\ \A i \in DOMAIN got : got[i].epoch = epoch
                /\ NoShortBatch

\* There are never more batches on their way than the data queue has room
\* for, so that no worker ever waits for the client to take one: join relies
\* on it, because a worker that waits there reads no quit message
\* (DataLoader.cpp:44-45, 66-77, 79-88).
WorkersNeverBlock == LoaderTypeOK /\ \A w \in Workers : pc[w] # "pushData_sleep"

\* Every next returns, although one condition variable serves both sides of
\* a queue and wakes one thread only (BlockingQueue.hpp:34-55).
NextReturns == call = "next" ~> call # "next"

\* reset, clean and the destructor return, whatever is queued and whatever
\* the workers are doing (DataLoader.cpp:79-110, DataLoader.hpp:34-36).
JoinReturns == pc[Client] = "pushJob" /\ Pushed = Quit ~> pc[Client] \in {"prefetch", "idle", "gone"}
=============================================================================
