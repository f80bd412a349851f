----------------------------- MODULE DataLoader -----------------------------
(***************************************************************************)
(* MNN::Train::DataLoader (tools/train/source/data/DataLoader.cpp) with its *)
(* two BlockingQueues (BlockingQueue.hpp) and the sampler that it draws     *)
(* from (RandomSampler.cpp): worker threads turn jobs, the index lists of   *)
(* batches, into data, ahead of the training loop that asks for it.         *)
(*                                                                          *)
(* Each queue has one mutex and ONE condition variable, for those who wait  *)
(* for room and those who wait for content alike, and wakes one of them at  *)
(* a time.  An action is a section under a queue's mutex, a notification    *)
(* outside of it, or a step of one thread alone.  The client is the         *)
(* training loop: next, reset, clean and the destructor are its calls.      *)
(***************************************************************************)
EXTENDS Integers, Sequences, SequencesExt, FiniteSets

CONSTANTS Workers,       \* mWorkers, numWorkers of them
          NumJobs,       \* mConfig->numJobs, numWorkers * 2 by default
          NumBatches,    \* batches of an epoch, the last one may be short
          DropShort,     \* dropLast is set and the last batch is short
          MaxEpochs,     \* bound: how often the sampler starts over
          Client         \* the training loop

ASSUME LoaderAssumption ==
    /\ IsFiniteSet(Workers) /\ Workers # {} /\ Client \notin Workers
    /\ NumJobs \in Nat /\ NumJobs >= Cardinality(Workers)
    /\ NumBatches \in Nat \ {0} /\ MaxEpochs \in Nat \ {0}
    /\ DropShort \in BOOLEAN

VARIABLES jobs,    \* mJobs: batches to load, or Quit
          data,    \* mDataQueue: loaded batches
          pc,      \* where each thread is
          hold,    \* the batch a worker is loading
          call,    \* which call the client is in
          left,    \* rounds left of the client's loop in prefetch or join
          index,   \* RandomSampler::mIndex, in batches
          epoch,   \* history: which pass of the sampler
          got      \* history: the batches next returned since the last reset

loaderVars == <<jobs, data, pc, hold, call, left, index, epoch, got>>

Threads == Workers \cup {Client}
Quit    == [epoch |-> 0, index |-> 0]
None    == Quit

\* DataLoader::iterNumber
IterNumber == IF DropShort THEN NumBatches - 1 ELSE NumBatches

\* The constructor, about to prefetch.
LoaderInit == /\ jobs = <<>> /\ data = <<>>
              /\ pc = [t \in Threads |-> IF t = Client THEN "prefetch" ELSE "off"]
              /\ hold = [w \in Workers |-> None]
              /\ call = "start" /\ left = NumJobs
              /\ index = 0 /\ epoch = 1 /\ got = <<>>

-----------------------------------------------------------------------------
(* BlockingQueue.  A thread at "pop" or "push" is about to test the         *)
(* condition under the mutex; the places that end in "_sleep" are in wait.  *)

Go(t, to) == pc' = [pc EXCEPT ![t] = to]

JobSleepers  == {t \in Threads : \/ t \in Workers /\ pc[t] = "popJob_sleep"
                                 \/ t = Client /\ pc[t] = "pushJob_sleep"}
DataSleepers == {t \in Threads : \/ t \in Workers /\ pc[t] = "pushData_sleep"
                                 \/ t = Client /\ pc[t] = "popData_sleep"}

Awake(place) == CASE place = "popJob_sleep" -> "popJob" [] place = "pushJob_sleep" -> "pushJob"
                  [] place = "popData_sleep" -> "popData" [] place = "pushData_sleep" -> "pushData"

\* the waiter that is woken is lost
NotifyOne_Lost(t, to, sleepers) == Go(t, to)

\* notify_one, by thread t that goes on at place to: any one waiter.
NotifyOne(t, to, sleepers) ==
    IF sleepers = {} THEN Go(t, to)
    ELSE \E u \in sleepers : pc' = [pc EXCEPT ![t] = to, ![u] = Awake(pc[u])]

\* A waiting thread may wake up by itself.
SpuriousWake(t) == /\ t \in JobSleepers \cup DataSleepers
                   /\ Go(t, Awake(pc[t]))
                   /\ UNCHANGED <<jobs, data, hold, call, left, index, epoch, got>>

\* The size of mJobs and of mDataQueue.
Capacity == NumJobs

-----------------------------------------------------------------------------
(* DataLoader::workerThread.                                                *)

\* the flag is not looked at
IsQuit_Never(job) == FALSE

\* currentJob.quit
IsQuit(job) == job = Quit

PopJob(w) ==
    /\ pc[w] = "popJob"
    /\ IF jobs = <<>> THEN Go(w, "popJob_sleep") /\ UNCHANGED <<jobs, hold>>
       ELSE /\ jobs' = Tail(jobs)
            /\ hold' = [hold EXCEPT ![w] = Head(jobs)]
            /\ NotifyOne(w, IF IsQuit(Head(jobs)) THEN "left" ELSE "load", JobSleepers)
    /\ UNCHANGED <<data, call, left, index, epoch, got>>

\* mDataset->getBatch
Load(w) == /\ pc[w] = "load"
           /\ Go(w, "pushData")
           /\ UNCHANGED <<jobs, data, hold, call, left, index, epoch, got>>

PushData(w) ==
    /\ pc[w] = "pushData"
    /\ IF Len(data) = Capacity THEN Go(w, "pushData_sleep") /\ UNCHANGED <<data, hold>>
       ELSE /\ data' = Append(data, hold[w])
            /\ hold' = [hold EXCEPT ![w] = None]
            /\ Go(w, "notifyData")
    /\ UNCHANGED <<jobs, call, left, index, epoch, got>>

NotifyData(w) == /\ pc[w] = "notifyData"
                 /\ NotifyOne(w, "popJob", DataSleepers)
                 /\ UNCHANGED <<jobs, data, hold, call, left, index, epoch, got>>

-----------------------------------------------------------------------------
(* The client.                                                              *)

\* next(): a client asks for no more batches than the epoch has (doc: the
\* loader must be reset after each pass).
CallNext == /\ pc[Client] = "idle" /\ call = "none" /\ Len(got) < IterNumber
            /\ call' = "next"
            /\ Go(Client, "popData")
            /\ UNCHANGED <<jobs, data, hold, left, index, epoch, got>>

\* two new jobs for each batch
Refill_Two == 2

\* The jobs that next prefetches.
Refill == 1

\* mDataQueue->pop() in next, then prefetch(1).
PopData == /\ pc[Client] = "popData"
           /\ IF data = <<>> THEN Go(Client, "popData_sleep") /\ UNCHANGED <<data, left, got>>
              ELSE /\ data' = Tail(data)
                   /\ got' = Append(got, Head(data))
                   /\ left' = Refill
                   /\ NotifyOne(Client, "prefetch", DataSleepers)
           /\ UNCHANGED <<jobs, hold, call, index, epoch>>

\* mIndex += batchIndex.size()
Advanced == IF index < NumBatches THEN index + 1 ELSE index

\* The drawn batch is short and must not be used.
DroppedLast == DropShort /\ index = NumBatches - 1

\* A round of prefetch: draw the next batch; nothing is pushed for an
\* exhausted sampler or a dropped batch.
Prefetch ==
    /\ pc[Client] = "prefetch" /\ left > 0
    /\ index' = Advanced
    /\ IF index < NumBatches /\ ~DroppedLast
       THEN Go(Client, "pushJob") /\ UNCHANGED left
       ELSE left' = left - 1 /\ UNCHANGED pc
    /\ UNCHANGED <<jobs, data, hold, call, epoch, got>>

\* The job that is being pushed: in join a quit message.
Pushed == IF call \in {"reset", "clean", "destroy"} THEN Quit
          ELSE [epoch |-> epoch, index |-> index]

PushJob == /\ pc[Client] = "pushJob"
           /\ IF Len(jobs) = Capacity THEN Go(Client, "pushJob_sleep") /\ UNCHANGED jobs
              ELSE jobs' = Append(jobs, Pushed) /\ Go(Client, "notifyJob")
           /\ UNCHANGED <<data, hold, call, left, index, epoch, got>>

\* The notification of push, and the loop goes on.
NotifyJob == /\ pc[Client] = "notifyJob"
             /\ left' = left - 1
             /\ NotifyOne(Client, IF Pushed # Quit THEN "prefetch"
                                  ELSE IF left > 1 THEN "pushJob" ELSE "join", JobSleepers)
             /\ UNCHANGED <<jobs, data, hold, call, index, epoch, got>>

\* prefetch is done.  The constructor and reset start the workers now.
PrefetchDone ==
    /\ pc[Client] = "prefetch" /\ left = 0
    /\ pc' = [t \in Threads |-> IF t = Client THEN "idle"
                                ELSE IF call = "start" THEN "popJob" ELSE pc[t]]
    /\ call' = "none"
    /\ UNCHANGED <<jobs, data, hold, left, index, epoch, got>>

\* join(), called by reset, clean and the destructor: one message per worker.
\* After clean there are no workers, and only reset and destroy follow.
CallJoin(c) ==
    /\ pc[Client] = "idle" /\ call \in {"none", "cleaned"}
    /\ c = "destroy" \/ epoch < MaxEpochs
    /\ call' = c /\ left' = Cardinality(Workers)
    /\ Go(Client, "pushJob")
    /\ UNCHANGED <<jobs, data, hold, index, epoch, got>>

\* the old batches stay in the queue
Cleared_JobsOnly == data

\* mDataQueue->clear()
ClearedQueue == <<>>

\* worker.join(); then clean forgets the threads, empties the queues and
\* resets the sampler, and reset goes on like the constructor.
Joined ==
    /\ pc[Client] = "join" /\ \A w \in Workers : pc[w] \in {"left", "off"}
    /\ IF call = "destroy" THEN Go(Client, "gone") /\ UNCHANGED <<jobs, data, call, left, index, epoch, got>>
       ELSE /\ pc' = [t \in Threads |-> IF t # Client THEN "off"
                                        ELSE IF call = "reset" THEN "prefetch" ELSE "idle"]
            /\ call' = IF call = "reset" THEN "start" ELSE "cleaned"
            /\ left' = IF call = "reset" THEN NumJobs ELSE 0
            /\ jobs' = <<>> /\ data' = ClearedQueue
            /\ index' = 0 /\ epoch' = epoch + 1 /\ got' = <<>>
    /\ hold' = [w \in Workers |-> None]

Gone == pc[Client] = "gone" /\ UNCHANGED loaderVars

-----------------------------------------------------------------------------
Work(w) == PopJob(w) \/ Load(w) \/ PushData(w) \/ NotifyData(w)
Serve   == PopData \/ Prefetch \/ PushJob \/ NotifyJob \/ PrefetchDone \/ Joined

LoaderNext == \/ \E w \in Workers : Work(w)
              \/ \E t \in Threads : SpuriousWake(t)
              \/ CallNext \/ \E c \in {"reset", "clean", "destroy"} : CallJoin(c)
              \/ Serve \/ Gone

LoaderSpec == LoaderInit /\ [][LoaderNext]_loaderVars

\* Every thread that can go on does; nobody wakes up without being notified.
FairSpec == LoaderSpec /\ WF_loaderVars(Serve) /\ \A w \in Workers : WF_loaderVars(Work(w))
=============================================================================
