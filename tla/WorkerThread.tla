---------------------------- MODULE WorkerThread ----------------------------
(***************************************************************************)
(* MNN::WorkerThread (source/core/WorkerThread.cpp): the background workers *)
(* that CPUBackend::enqueueTask hands the preparation of weights to, if the *)
(* backend has any, and that CPUBackend::onExecuteBegin destroys before the *)
(* first run, relying on every task being finished then.                    *)
(*                                                                          *)
(* An action is a section under mQueueMutex, an access to the atomic mStop  *)
(* or the call of a task.  The owner is the only thread that posts tasks    *)
(* and destroys the object.                                                 *)
(***************************************************************************)
EXTENDS Naturals, Sequences, FiniteSets

CONSTANTS Workers,     \* mWorkers
          MaxPosts     \* bound: tasks posted in the object's life

ASSUME WorkerAssumption == IsFiniteSet(Workers) /\ MaxPosts \in Nat

VARIABLES tasks,    \* mTasks
          stop,     \* mStop
          pc,       \* where each worker is
          job,      \* the task a worker has popped, 0 if none
          owner,    \* where the owner is
          posted,   \* tasks posted so far; task ids are 1 .. posted
          runs      \* history: how often each task was called

workerVars == <<tasks, stop, pc, job, owner, posted, runs>>

Tasks == 1 .. MaxPosts

\* owner: open -> notifyPost -> open ... -> notifyStop -> joining -> drain -> gone
WorkerInit == /\ tasks = <<>> /\ stop = FALSE
        /\ pc = [w \in Workers |-> "top"] /\ job = [w \in Workers |-> 0]
        /\ owner = "open" /\ posted = 0
        /\ runs = [t \in Tasks |-> 0]

Go(w, from, to) == pc[w] = from /\ pc' = [pc EXCEPT ![w] = to]

-----------------------------------------------------------------------------
(* A worker.                                                                *)

\* while (!mStop), read without the mutex.
Top(w) == /\ Go(w, "top", IF stop THEN "left" ELSE "wait")
          /\ UNCHANGED <<tasks, stop, job, owner, posted, runs>>

\* only new work ends the wait
WakeCondition_NoStop == tasks # <<>>

\* The predicate of the wait.
WakeCondition == stop \/ tasks # <<>>

\* mCondition.wait: the mutex is held, the predicate tested, the wait entered.
Sleep(w) == /\ ~WakeCondition
            /\ Go(w, "wait", "asleep")
            /\ UNCHANGED <<tasks, stop, job, owner, posted, runs>>

\* The wait ends with nothing to do.
Skip(w) == /\ WakeCondition /\ tasks = <<>>
           /\ Go(w, "wait", "top")
           /\ UNCHANGED <<tasks, stop, job, owner, posted, runs>>

\* The first task is taken, also when the pool is to stop.
Pop(w) == /\ WakeCondition /\ tasks # <<>>
          /\ Go(w, "wait", "run")
          /\ job' = [job EXCEPT ![w] = Head(tasks)]
          /\ tasks' = Tail(tasks)
          /\ UNCHANGED <<stop, owner, posted, runs>>

\* f->content(); delete f, outside of the mutex.
RunTask(w) == /\ Go(w, "run", "top")
              /\ runs' = [runs EXCEPT ![job[w]] = @ + 1]
              /\ job' = [job EXCEPT ![w] = 0]
              /\ UNCHANGED <<tasks, stop, owner, posted>>

\* A condition variable may wake up by itself.
SpuriousWake(w) == /\ Go(w, "asleep", "wait")
                   /\ UNCHANGED <<tasks, stop, job, owner, posted, runs>>

-----------------------------------------------------------------------------
(* The owner.                                                               *)

\* nobody is told
NotifyAll_Nobody == pc

\* mCondition.notify_all()
NotifyAll == [w \in Workers |-> IF pc[w] = "asleep" THEN "wait" ELSE pc[w]]

\* postTask always succeeds.
PostTask == /\ owner = "open" /\ posted < MaxPosts
            /\ posted' = posted + 1
            /\ tasks' = Append(tasks, posted + 1)
            /\ owner' = "notifyPost"
            /\ UNCHANGED <<stop, pc, job, runs>>

NotifyPost == /\ owner = "notifyPost"
              /\ pc' = NotifyAll
              /\ owner' = "open"
              /\ UNCHANGED <<tasks, stop, job, posted, runs>>

\* ~WorkerThread: mStop under the mutex, notify, join, run what is left.
SetStop == /\ owner = "open"
           /\ stop' = TRUE
           /\ owner' = "notifyStop"
           /\ UNCHANGED <<tasks, pc, job, posted, runs>>

NotifyStop == /\ owner = "notifyStop"
              /\ pc' = NotifyAll
              /\ owner' = "joining"
              /\ UNCHANGED <<tasks, stop, job, posted, runs>>

\* the rest of the queue is forgotten
AfterJoin_Forget == "gone"

\* Complete Remain work
AfterJoin == "drain"

Join == /\ owner = "joining" /\ \A w \in Workers : pc[w] = "left"
        /\ owner' = AfterJoin
        /\ UNCHANGED <<tasks, stop, pc, job, posted, runs>>

Drain == /\ owner = "drain"
         /\ IF tasks = <<>>
            THEN owner' = "gone" /\ UNCHANGED <<tasks, runs>>
            ELSE /\ runs' = [runs EXCEPT ![Head(tasks)] = @ + 1]
                 /\ tasks' = Tail(tasks)
                 /\ UNCHANGED owner
         /\ UNCHANGED <<stop, pc, job, posted>>

Gone == owner = "gone" /\ UNCHANGED workerVars

-----------------------------------------------------------------------------
Work(w) == Top(w) \/ Sleep(w) \/ Skip(w) \/ Pop(w) \/ RunTask(w)
Own     == NotifyPost \/ NotifyStop \/ Join \/ Drain

WorkerNext == \/ \E w \in Workers : Work(w) \/ SpuriousWake(w)
        \/ PostTask \/ SetStop \/ Own \/ Gone

WorkerSpec == WorkerInit /\ [][WorkerNext]_workerVars

\* Threads run; nobody has to post or destroy, but a call once begun goes on.
WorkerFairSpec == WorkerSpec /\ WF_workerVars(Own) /\ \A w \in Workers : WF_workerVars(Work(w))
=============================================================================
