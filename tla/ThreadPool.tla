----------------------------- MODULE ThreadPool -----------------------------
(***************************************************************************)
(* MNN's CPU thread pool (source/backend/cpu/ThreadPool.cpp) with the      *)
(* CPURuntime objects that use it (source/backend/cpu/CPUBackend.cpp).     *)
(*                                                                         *)
(* A client is one CPURuntime and the thread that drives it (a runtime     *)
(* belongs to one thread, docs/inference/module.md).  Between              *)
(* onConcurrencyBegin and onConcurrencyEnd, which nest, it owns one of     *)
(* MaxTasks task slots if one was free.  Its kernels enqueue loops:        *)
(* the task is written to the slot, one atomic flag per worker is raised,  *)
(* the client runs part 0 itself and spins until every flag is down.       *)
(* Workers poll their flag in every slot while some client is active and   *)
(* sleep on the condition variable otherwise.                              *)
(*                                                                         *)
(* Each action is one access to shared memory or one critical section of   *)
(* mQueueMutex; steps on a client's own fields are merged with it.         *)
(***************************************************************************)
EXTENDS Integers, FiniteSets

CONSTANTS Clients,      \* CPURuntime objects, each with its thread
          NumThread,    \* mNumberThread of the pool, the clients' thread included
          MaxTasks,     \* MNN_THREAD_POOL_MAX_TASKS
          WorkSizes,    \* iteration counts of the loops the kernels run
          BindSize,     \* mThreadNumber of a runtime: size of its affinity task
          MaxDepth,     \* bound: nesting of onConcurrencyBegin
          NoClient

ASSUME PoolAssumption ==
    /\ IsFiniteSet(Clients)
    /\ NumThread \in Nat \ {0, 1}
    /\ MaxTasks \in Nat \ {0}
    /\ WorkSizes \subseteq Nat \ {0}
    /\ BindSize \in Nat \ {0}
    /\ MaxDepth \in Nat \ {0}
    /\ NoClient \notin Clients

VARIABLES
    \* ThreadPool
    phase,       \* the pool: "none", "up", or in destroy: "stopping", "joining"
    available,   \* mTaskAvailable
    task,        \* mTasks[s].first: whose loop it is and how many iterations
    flag,        \* mTasks[s].second[w]
    activeCount, \* mActiveCount
    stop,        \* mStop
    \* worker threads
    wpc,         \* where worker w is
    scan,        \* the slot worker w looks at
    \* CPURuntime and the call in progress
    attached,    \* mThreadPool is set
    pc,          \* where client c is
    depth,       \* onConcurrencyBegin calls not yet matched by an End
    index,       \* mTaskIndex
    open,        \* mThreadOpen
    bound,       \* mCurrentTID is this thread: "no", "busy" while binding, "yes"
    size,        \* task.second of the current or the last enqueue
    k,           \* loop variable of enqueueInternal
    runs         \* runs[c][v]: how often iteration v of that call has run

poolVars   == <<phase, available, task, flag, activeCount, stop>>
workerVars == <<wpc, scan>>
clientVars == <<attached, pc, depth, index, open, bound, size, k, runs>>
vars == <<poolVars, workerVars, clientVars>>

Slots   == 0 .. MaxTasks - 1
Workers == 1 .. NumThread - 1
Sizes   == WorkSizes \cup {BindSize}
Items   == UNION {0 .. n - 1 : n \in Sizes}

(* Operators named X_Something before an X are plausible bugs of X; nothing uses them, they    *)
(* only serve to show that the properties notice.                            *)

\* no stride: a chunked part runs its first iteration only
Part_NoStride(p, n) == {v \in 0 .. n - 1 : v = p}

\* Part p of a loop of n iterations: p, p + NumThread, p + 2 * NumThread, ...
\* (without chunking, n <= NumThread, this is iteration p alone).
Part(p, n) == {v \in 0 .. n - 1 : v % NumThread = p}

\* the last worker gets no part of a chunked loop
Parts_OneLess(n) == IF n > NumThread THEN NumThread - 1 ELSE n

\* The number of parts of a loop of n iterations.
Parts(n) == IF n > NumThread THEN NumThread ELSE n

\* runs after the iterations S of client c's call have run once more.
Ran(c, S) == [runs EXCEPT ![c] = [v \in Items |-> IF v \in S THEN @[v] + 1 ELSE @[v]]]

\* active() and destroy() do not notify
Woken_Nobody == wpc

\* notify_all: every sleeping worker wakes up to test the predicate again.
Woken == [w \in Workers |-> IF wpc[w] = "asleep" THEN "wait" ELSE wpc[w]]

\* What the constructor gives the slots: all free, no task, all flags down.
AllFree == [s \in Slots |-> TRUE]
NoTasks == [s \in Slots |-> [by |-> NoClient, size |-> 0]]
AllDown == [s \in Slots |-> [w \in Workers |-> FALSE]]

Init == /\ phase = "none"
        /\ available = AllFree
        /\ task = NoTasks
        /\ flag = AllDown
        /\ activeCount = 0
        /\ stop = FALSE
        /\ wpc  = [w \in Workers |-> "exited"]
        /\ scan = [w \in Workers |-> 0]
        /\ attached = [c \in Clients |-> FALSE]
        /\ pc = [c \in Clients |-> "user"]
        /\ depth = [c \in Clients |-> 0]
        /\ index = [c \in Clients |-> -1]
        /\ open  = [c \in Clients |-> 0]
        /\ bound = [c \in Clients |-> "no"]
        /\ size  = [c \in Clients |-> 0]
        /\ k     = [c \in Clients |-> 1]
        /\ runs  = [c \in Clients |-> [v \in Items |-> 0]]

-----------------------------------------------------------------------------
(* CPURuntime: creation, onReset and destruction. *)

\* onReset -> _resetThreadPool -> ThreadPool::init; gInitMutex keeps it out
\* of a destroy in progress.  The thread is bound again at the next Begin
\* unless no core is asked for (mCpuIds is empty).
Reset(c) == /\ pc[c] = "user" /\ depth[c] = 0
            /\ \/ phase = "up" /\ UNCHANGED <<poolVars, wpc>>
               \/ /\ phase = "none" /\ phase' = "up"
                  /\ available' = AllFree /\ task' = NoTasks /\ flag' = AllDown
                  /\ activeCount' = 0 /\ stop' = FALSE
                  /\ wpc' = [w \in Workers |-> "top"]
            /\ attached' = [attached EXCEPT ![c] = TRUE]
            /\ \E b \in {"no", "yes"} : bound' = [bound EXCEPT ![c] = b]
            /\ UNCHANGED <<scan, pc, depth, index, open, size, k, runs>>

\* ~CPURuntime.
Release(c) == /\ pc[c] = "user" /\ depth[c] = 0 /\ attached[c]
              /\ attached' = [attached EXCEPT ![c] = FALSE]
              /\ UNCHANGED <<poolVars, workerVars, pc, depth, index, open, bound, size, k, runs>>

-----------------------------------------------------------------------------
(* onConcurrencyBegin. *)

\* the first slot, free or not
FirstFree_Unchecked(s) == s = 0

\* The slot acquireWorkIndex finds.
FirstFree(s) == available[s] /\ \A t \in Slots : t < s => ~available[t]

\* A nested Begin that holds a slot only counts.  Otherwise acquireWorkIndex
\* takes the first free slot, or none.
Begin(c) ==
    /\ pc[c] = "user" /\ attached[c] /\ depth[c] < MaxDepth
    /\ depth' = [depth EXCEPT ![c] = @ + 1]
    /\ \/ /\ index[c] >= 0
          /\ open' = [open EXCEPT ![c] = @ + 1]
          /\ pc' = [pc EXCEPT ![c] = "bind"]
          /\ UNCHANGED <<available, index>>
       \/ /\ index[c] < 0
          /\ \E s \in Slots : /\ FirstFree(s)
                              /\ available' = [available EXCEPT ![s] = FALSE]
                              /\ index' = [index EXCEPT ![c] = s]
          /\ pc' = [pc EXCEPT ![c] = "activate"]
          /\ UNCHANGED open
       \/ /\ index[c] < 0 /\ ~\E s \in Slots : FirstFree(s)
          /\ pc' = [pc EXCEPT ![c] = "bind"]
          /\ UNCHANGED <<available, index, open>>
    /\ UNCHANGED <<phase, task, flag, activeCount, stop, workerVars,
                   attached, bound, size, k, runs>>

\* active(): count up inside the mutex; mThreadOpen is the client's own.
Activate(c) == /\ pc[c] = "activate"
               /\ activeCount' = activeCount + 1
               /\ open' = [open EXCEPT ![c] = @ + 1]
               /\ pc' = [pc EXCEPT ![c] = "notify"]
               /\ UNCHANGED <<phase, available, task, flag, stop, workerVars,
                              attached, depth, index, bound, size, k, runs>>

\* active(): notify_all after the mutex is released.
Notify(c) == /\ pc[c] = "notify"
             /\ wpc' = Woken
             /\ pc' = [pc EXCEPT ![c] = "bind"]
             /\ UNCHANGED <<poolVars, scan, attached, depth, index, open, bound, size, k, runs>>

\* _bindCPUCore returns early when this thread is already bound; otherwise
\* it activates the pool for the time of the affinity task.
Bind(c) == /\ pc[c] = "bind"
           /\ \/ /\ bound[c] = "yes"
                 /\ pc' = [pc EXCEPT ![c] = "user"]
                 /\ UNCHANGED <<activeCount, bound>>
              \/ /\ bound[c] = "no"
                 /\ bound' = [bound EXCEPT ![c] = "busy"]
                 /\ activeCount' = activeCount + 1
                 /\ pc' = [pc EXCEPT ![c] = "bindNotify"]
           /\ UNCHANGED <<phase, available, task, flag, stop, workerVars,
                          attached, depth, index, open, size, k, runs>>

\* The state at the entry of enqueue(n iterations).
EnqueueEntry(c, n) == /\ size' = [size EXCEPT ![c] = n]
                      /\ runs' = [runs EXCEPT ![c] = [v \in Items |-> 0]]
                      /\ pc' = [pc EXCEPT ![c] = "enqueue"]

BindNotify(c) == /\ pc[c] = "bindNotify"
                 /\ wpc' = Woken
                 /\ EnqueueEntry(c, BindSize)
                 /\ UNCHANGED <<poolVars, scan, attached, depth, index, open, bound, k>>

\* the affinity task leaves the pool active
Unbind_Leak(c) == /\ pc[c] = "unbind"
                  /\ bound' = [bound EXCEPT ![c] = "yes"]
                  /\ pc' = [pc EXCEPT ![c] = "user"]
                  /\ UNCHANGED <<poolVars, workerVars, attached, depth, index, open, size, k, runs>>

\* deactive() after the affinity task.
Unbind(c) == /\ pc[c] = "unbind"
             /\ activeCount' = activeCount - 1
             /\ bound' = [bound EXCEPT ![c] = "yes"]
             /\ pc' = [pc EXCEPT ![c] = "user"]
             /\ UNCHANGED <<phase, available, task, flag, stop, workerVars,
                            attached, depth, index, open, size, k, runs>>

-----------------------------------------------------------------------------
(* MNN_CONCURRENCY_BEGIN / END: ThreadPool::enqueue. *)

Enqueue(c) == /\ pc[c] = "user" /\ attached[c]
              /\ \E n \in WorkSizes : EnqueueEntry(c, n)
              /\ UNCHANGED <<poolVars, workerVars, attached, depth, index, open, bound, k>>

\* Where enqueue returns to.
Return(c) == pc' = [pc EXCEPT ![c] = IF bound[c] = "busy" THEN "unbind" ELSE "user"]

\* The loop runs on the caller when it is trivial, when the runtime has no
\* slot, or when the pool is not active.
Inline(c) == size[c] <= 1 \/ index[c] < 0 \/ activeCount = 0

RunInline(c) == /\ pc[c] = "enqueue" /\ Inline(c)
                /\ runs' = Ran(c, 0 .. size[c] - 1)
                /\ Return(c)
                /\ UNCHANGED <<poolVars, workerVars, attached, depth, index, open, bound, size, k>>

\* mTasks[index].first = task (or the chunked closure over it).
WriteTask(c) == /\ pc[c] = "enqueue" /\ ~Inline(c)
                /\ task' = [task EXCEPT ![index[c]] = [by |-> c, size |-> size[c]]]
                /\ k' = [k EXCEPT ![c] = 1]
                /\ pc' = [pc EXCEPT ![c] = "raise"]
                /\ UNCHANGED <<phase, available, flag, activeCount, stop, workerVars,
                               attached, depth, index, open, bound, size, runs>>

\* *mTasks[index].second[i] = true, worker by worker.
RaiseFlag(c) == /\ pc[c] = "raise" /\ k[c] < Parts(size[c])
                /\ flag' = [flag EXCEPT ![index[c]][k[c]] = TRUE]
                /\ k' = [k EXCEPT ![c] = @ + 1]
                /\ UNCHANGED <<phase, available, task, activeCount, stop, workerVars,
                               attached, pc, depth, index, open, bound, size, runs>>

\* mTasks[index].first.first(0) on the caller.
RunOwnPart(c) == /\ pc[c] = "raise" /\ k[c] = Parts(size[c])
                 /\ runs' = Ran(c, Part(0, size[c]))
                 /\ k' = [k EXCEPT ![c] = 1]
                 /\ pc' = [pc EXCEPT ![c] = "spin"]
                 /\ UNCHANGED <<poolVars, workerVars, attached, depth, index, open, bound, size>>

\* `complete` is overwritten by the last worker's flag
Spin_LastOnly(c) ==
    /\ pc[c] = "spin" /\ k[c] < Parts(size[c])
    /\ k' = [k EXCEPT ![c] = IF @ = Parts(size[c]) - 1 /\ flag[index[c]][@] THEN 1 ELSE @ + 1]
    /\ UNCHANGED <<poolVars, workerVars, attached, pc, depth, index, open, bound, size, runs>>

\* One look at one flag; a raised one sends the loop back to the first.
Spin(c) == /\ pc[c] = "spin" /\ k[c] < Parts(size[c])
           /\ k' = [k EXCEPT ![c] = IF flag[index[c]][k[c]] THEN 1 ELSE @ + 1]
           /\ UNCHANGED <<poolVars, workerVars, attached, pc, depth, index, open, bound, size, runs>>

SpinDone(c) == /\ pc[c] = "spin" /\ k[c] = Parts(size[c])
               /\ Return(c)
               /\ UNCHANGED <<poolVars, workerVars, attached, depth, index, open, bound, size, k, runs>>

-----------------------------------------------------------------------------
(* onConcurrencyEnd. *)

\* The last End gives the slot back before it counts the pool down; another
\* client may take the slot in between.
End(c) == /\ pc[c] = "user" /\ depth[c] > 0
          /\ depth' = [depth EXCEPT ![c] = @ - 1]
          /\ \/ /\ index[c] < 0
                /\ UNCHANGED <<available, open, pc>>
             \/ /\ index[c] >= 0 /\ open[c] > 1
                /\ open' = [open EXCEPT ![c] = @ - 1]
                /\ UNCHANGED <<available, pc>>
             \/ /\ index[c] >= 0 /\ open[c] <= 1
                /\ open' = [open EXCEPT ![c] = 0]
                /\ available' = [available EXCEPT ![index[c]] = TRUE]
                /\ pc' = [pc EXCEPT ![c] = "deactivate"]
          /\ UNCHANGED <<phase, task, flag, activeCount, stop, workerVars,
                         attached, index, bound, size, k, runs>>

\* mTaskIndex survives the last End
Deactivate_KeepIndex(c) == /\ pc[c] = "deactivate"
                           /\ activeCount' = activeCount - 1
                           /\ pc' = [pc EXCEPT ![c] = "user"]
                           /\ UNCHANGED <<phase, available, task, flag, stop, workerVars, attached,
                                          depth, index, open, bound, size, k, runs>>

\* deactive(), without the mutex.
Deactivate(c) == /\ pc[c] = "deactivate"
                 /\ activeCount' = activeCount - 1
                 /\ index' = [index EXCEPT ![c] = -1]
                 /\ pc' = [pc EXCEPT ![c] = "user"]
                 /\ UNCHANGED <<phase, available, task, flag, stop, workerVars,
                                attached, depth, open, bound, size, k, runs>>

-----------------------------------------------------------------------------
(* The worker loop. *)

\* A worker's step that only moves it from one place to another.
Go(w, from, to) == /\ wpc[w] = from
                   /\ wpc' = [wpc EXCEPT ![w] = to]

\* while (!mStop)
TestStop(w) == /\ Go(w, "top", IF stop THEN "exited" ELSE "active")
               /\ UNCHANGED <<poolVars, scan, clientVars>>

\* while (mActiveCount > 0)
TestActive(w) == /\ Go(w, "active", IF activeCount > 0 THEN "scan" ELSE "wait")
                 /\ scan' = [scan EXCEPT ![w] = 0]
                 /\ UNCHANGED <<poolVars, clientVars>>

\* the slot index is not reset for the next round
NextSlot_NoWrap(w) == /\ scan' = [scan EXCEPT ![w] = @ + 1]
                      /\ wpc' = [wpc EXCEPT ![w] = IF scan[w] = MaxTasks - 1 THEN "active" ELSE "scan"]

\* The next slot, or back to the loop test after the last one.
NextSlot(w) == /\ scan' = [scan EXCEPT ![w] = (@ + 1) % MaxTasks]
               /\ wpc' = [wpc EXCEPT ![w] = IF scan[w] = MaxTasks - 1 THEN "active" ELSE "scan"]

ReadFlag(w) == /\ wpc[w] = "scan"
               /\ IF flag[scan[w]][w] THEN Go(w, "scan", "exec") /\ UNCHANGED scan
                                      ELSE NextSlot(w)
               /\ UNCHANGED <<poolVars, clientVars>>

\* Run this worker's part of whatever task the slot holds.
RunPart(w) == /\ Go(w, "exec", "clear")
              /\ LET t == task[scan[w]]
                 IN  runs' = IF t.by \in Clients THEN Ran(t.by, Part(w, t.size)) ELSE runs
              /\ UNCHANGED <<poolVars, scan, attached, pc, depth, index, open, bound, size, k>>

ClearFlag(w) == /\ wpc[w] = "clear"
                /\ flag' = [flag EXCEPT ![scan[w]][w] = FALSE]
                /\ NextSlot(w)
                /\ UNCHANGED <<phase, available, task, activeCount, stop, clientVars>>

\* the predicate forgets mStop
Wait_NoStop(w) == /\ Go(w, "wait", IF activeCount > 0 THEN "top" ELSE "asleep")
                  /\ UNCHANGED <<poolVars, scan, clientVars>>

\* mCondition.wait: the predicate is tested and the wait entered inside the
\* mutex.
Wait(w) == /\ Go(w, "wait", IF stop \/ activeCount > 0 THEN "top" ELSE "asleep")
           /\ UNCHANGED <<poolVars, scan, clientVars>>

\* A condition variable may wake up by itself.
SpuriousWake(w) == /\ Go(w, "asleep", "wait")
                   /\ UNCHANGED <<poolVars, scan, clientVars>>

-----------------------------------------------------------------------------
(* ThreadPool::destroy.  Only test/core/ThreadPoolTest.cpp calls it, after  *)
(* it has joined its client threads; a caller has to have destroyed the     *)
(* runtimes that point to the pool.                                         *)

Destroy == /\ phase = "up" /\ \A c \in Clients : ~attached[c]
           /\ phase' = "stopping"
           /\ stop' = TRUE
           /\ UNCHANGED <<available, task, flag, activeCount, workerVars, clientVars>>

DestroyNotify == /\ phase = "stopping"
                 /\ phase' = "joining"
                 /\ wpc' = Woken
                 /\ UNCHANGED <<available, task, flag, activeCount, stop, scan, clientVars>>

Join == /\ phase = "joining" /\ \A w \in Workers : wpc[w] = "exited"
        /\ phase' = "none"
        /\ UNCHANGED <<available, task, flag, activeCount, stop, workerVars, clientVars>>

-----------------------------------------------------------------------------
\* What a client does once it is inside a call.
ClientStep(c) == \/ Activate(c) \/ Notify(c) \/ Bind(c) \/ BindNotify(c) \/ Unbind(c)
                 \/ RunInline(c) \/ WriteTask(c) \/ RaiseFlag(c) \/ RunOwnPart(c)
                 \/ Spin(c) \/ SpinDone(c) \/ Deactivate(c)

\* What the program above the backend may ask for.
ClientCall(c) == Reset(c) \/ Release(c) \/ Begin(c) \/ Enqueue(c) \/ End(c)

WorkerStep(w) == \/ TestStop(w) \/ TestActive(w) \/ ReadFlag(w)
                 \/ RunPart(w) \/ ClearFlag(w) \/ Wait(w)

Next == \/ \E c \in Clients : ClientCall(c) \/ ClientStep(c)
        \/ \E w \in Workers : WorkerStep(w) \/ SpuriousWake(w)
        \/ Destroy \/ DestroyNotify \/ Join

Spec == Init /\ [][Next]_vars

\* The scheduler runs every thread; nobody is obliged to make a call, and no
\* wake-up without a notification is counted on.
Fairness == /\ \A c \in Clients : WF_vars(ClientStep(c))
            /\ \A w \in Workers : WF_vars(WorkerStep(w))
            /\ WF_vars(DestroyNotify) /\ WF_vars(Join)

FairSpec == Spec /\ Fairness
=============================================================================
