# TLA+ verification of MNN

MNN is an inference engine: it loads a graph of operators, plans the memory of
every tensor, and runs the operators on a backend (CPU, OpenCL, Metal, ...).
Most of its lines are numeric kernels and per-operator shape rules.  What can
go wrong in ways that tests hardly reach is the machinery around them: a
lock-free thread pool, allocators that split and fuse memory whose users
overlap in time, buffers that several sessions of a runtime share, caches that
decide what a resize computes again, weight files that outlive the process, the
key and value cache of a language model, background workers, and the queues of
the training data loader.  This directory models
that machinery, checks it with TLC, and proves theorems about its core with
TLAPS.

All references of the form `File.cpp:12` are to files of the repository;
`PROJECT.json` names for every modelling definition the lines it stands for.

## 1. Inventory

### The CPU thread pool and its clients - modelled
`source/backend/cpu/ThreadPool.{hpp,cpp}`, `source/core/Concurrency.h`, and the
parts of `source/backend/cpu/CPUBackend.cpp` that use them.

*State.* `mStop`, `mActiveCount`, and per task slot: whether it is available,
the task (a closure over its client's stack, and its number of parts), and one
atomic flag per worker.  A client is a `CPURuntime`: it keeps its slot
(`mTaskIndex`), the nesting depth of its concurrent sections
(`mThreadOpen`), and whether its threads are bound to cores.

*Operations.* `init`, `destroy`, `acquireWorkIndex`, `releaseWorkIndex`,
`active`, `deactive`, `enqueue`, the worker loop; `onConcurrencyBegin / End`,
`onReset`, `_bindCPUCore`, and the macros `MNN_CONCURRENCY_BEGIN / END`.

*Hard.* Everything but slot acquisition is lock-free.  A worker reads a
closure that lives on another thread's stack, guarded only by one flag; a
client decides that a loop is over by scanning flags one after the other;
workers sleep on a condition variable that `active` and `destroy` signal after
changing an atomic outside the workers' control; a runtime may find no slot
and has to run its loops itself; sections nest.

*Correct means:* a slot has one owner; no worker runs a task that is gone;
every iteration of a loop runs exactly once before the loop returns; the
counts balance, so the workers can go to sleep; every loop and `destroy`
return.

### Buffer allocators - modelled
`source/core/BufferAllocator.{hpp,cpp}`.

*DeferBufferAllocator* plans addresses before any memory exists: a list of
nodes that `alloc` splits or expands and `free` fuses, a multiset of free
nodes keyed by size, and parent offsets from which `compute` derives every
address.  `barrierBegin / End` postpone frees while threads that run at the
same time are planned.  *Hard:* keys that change inside an ordered set, offsets
that are fixed before sizes are final, fusing in any order.  *Correct means:*
tensors that are ever in use together get disjoint bytes inside the buffer,
and once all is given back the list is a single node (otherwise `compute`
fails).

*EagerBufferAllocator* allocates at once: blocks of an outside allocator,
split into trees with use counts, merged when the counts reach zero, with one
free list for each group of a barrier.  *Correct means:* a byte has one user or is
free once; unused blocks merge back whole; groups share nothing; the total
that is reported is what was taken.

*SingleBufferWithAllocator* and `DeferBufferAllocator::apply / reset`: one
physical buffer that all plans of the runtime share, grown when a plan needs
it.  *MmapAllocator*: the same from numbered files.  See the next part.

### Sessions that share a runtime's memory - partly modelled
`CPUBackend.cpp` (`onResizeBegin / End`, `onClearBuffer`, `onSelectDynamicAllocator`,
`onExecuteBegin`, `onGabageCollect`, `onMapTensor`), `Session.cpp`,
`Pipeline.cpp`, `Interpreter.cpp`.

*State.* The runtime's two buffers (0 for ordinary tensors, 1 for those of
sessions fixed by `Resize_Fix`), each session's plan for each buffer (total,
the block it was applied to, the address its tensors hold), and the session's
flags `mNeedResize`, `mNeedMalloc`.

*Hard.* A session's resize, its run, or garbage collection may move or drop
the buffer that another session's tensors point to; an address can come back
for another block; a resize can fail half-way and an allocation can fail after
the old block is gone.  *Correct means:* a run that returns `NO_ERROR` worked on
memory that is there, large enough and planned for its current shapes; nothing
leaks; the two buffers stay apart.

Shape inference, creation of executions and copies between backends are left
out: they matter here only in that they can fail.

### Background workers - modelled
`source/core/WorkerThread.{hpp,cpp}`, `CPUBackend::enqueueTask`.  A queue of
tasks under a mutex and a condition variable, any number of workers, and a
destructor that stops them and runs what is left.  *Correct means:* each task
runs exactly once before the destructor returns, no posted task waits for the
next post, the destructor returns.  At this commit nothing constructs the
`WorkerThread` that `CPURuntime` could hold (the hint `INIT_THREAD_NUMBER` is read
at `CPUBackend.cpp:323` and not used), so `enqueueTask` runs its tasks inline; the
class is modelled for what it promises.

### Training data loader - modelled
`tools/train/source/data/{DataLoader,RandomSampler}.cpp`, `BlockingQueue.hpp`.
Jobs (indices drawn by a sampler) go through one bounded queue to workers and
batches come back through another; the client prefetches, takes batches,
resets, and ends.  *Hard:* one condition variable for both ends of a queue and
`notify_one`; quit messages pushed into a queue that may be full; a reset in the
middle of an epoch.  *Correct means:* no batch of an earlier epoch, none twice,
no short one if those are dropped; `next`, `reset` and the destructor return.

### Pipeline tensor life times - partly modelled
`Pipeline.cpp` (`_allocForTensor`, `fixResizeCache`), the encoding in
`GeometryComputerUtils.cpp`, `CPUMemObj`.  *State.* Each tensor's memory object, use count and
group, each command's group, and the two planners.  *Hard.* Memory is given back by counting
uses while tensors share bytes; inputs and outputs obey other rules than tensors in
between; what `Resize_Fix` freezes has to be planned apart from its
neighbours; an operator may fail when half of the tensors hold memory.  *Correct means:* every
command finds its inputs' values when it runs, everything is given back
by the end of a resize, exactly once and to an allocator that knows it, and what is
fixed never moves.

### What a resize computes again - partly modelled
`Schedule::OpResizeCache` (`Schedule.cpp:39-120`), `GeometryComputerUtils.cpp:160-420`,
`Pipeline.cpp` (`openResizeCheck`, `fixResizeCache`, `_createExecutions`), `StaticModule::_resize`.

*State.* For every operator a cache of its inputs' shapes (and of the contents that its
shape depends on), its commands and their executions, flags on tensors (shape computed in this
resize, content unchanged), and the group in which its output is planned.  *Operations.*
`resizeSession` or `onForward`, `Session_Resize_Check`, `Session_Resize_Fix`.

*Hard.* Four caches are filled and dropped at different moments of one pass over the
operators, a pass that may fail anywhere; the shape of one operator may depend on the content of another's
output; a virtual tensor is a set of regions inside the commands of whoever reads it.
*Correct means:* what is taken from the last resize is what would have been computed again.

### Cached weight files - modelled
`MmapAllocator` (`BufferAllocator.cpp:92-154`), `CPURuntime::onCreate` and `CPUBackend::onClearBuffer`,
and the executions that hold weights; switched on by the hint `USE_CACHED_MMAP`.

*State.* The files, the marker `sync.static`, and in the process the numbers of the files, the
allocator and the hint that says whether the files are trusted.  *Hard.* A start that trusts the files does not
write its weights; it repeats the allocations of an earlier process and relies on getting the same
addresses; the earlier process may have been killed at any step.  *Correct means:* a
program that runs has its own weights, and the marker vouches for durable files.

### Key and value cache of a language model - partly modelled
`transformers/llm/engine/src/{kvmeta.hpp,llm.cpp}`, `speculative_decoding/{generate,lookahead}.cpp`,
`CPUAttention.cpp`, `KVCacheManager.cpp`.

*State.* `KVMeta`: what was cached before, and what the next forward adds, removes and reserves;
`KVCacheManager`: the cells, their number and capacity, in memory or in a file; `all_seq_len`, the
next position id.  *Operations.* `response`, `generate` one by one or with drafts, `reset`,
`eraseHistory`.  *Hard.* Removal is a request that waits for the next forward, which may be of any kind; the
cache grows, moves to disk and closes gaps by whole blocks; two sides count the same length.
*Correct means:* the cache holds the tokens that were not removed, in order, with increasing positions.

### Not modelled
*Interpreter life cycle and asynchronous tuning*: only device runtimes tune
(`Pipeline.cpp:475-583`), and what the task touches is the device backend's state, which is not
modelled.  *Lazy evaluation of express*: see the plan.

### Not to be modelled
*Schedule's selection of operators*: sequential, keeps no state.  *The several hundred shape and
geometry functions, CPU kernels, training optimizers, image and audio libraries*: pure numeric
functions; what they ask of the pool and of the allocators is an input here.
*Diffusion engine*: a fixed sequence of calls.  *GPU and NPU backends*: drivers of
vendor libraries whose behaviour is not in the repository.  *Converter,
quantization and compression tools*: offline and sequential.  *Python bindings
and applications*: wrappers.  *Vendored and generated code*: not this project's logic.

## 2. Modules

Every property stands in a module that extends the model it is about.  An
operator named `X_Something`, placed before `X`, is a mutation of `X`: the same
definition with a plausible bug.  Nothing in a specification uses it; putting
it in the place of `X` shows that a property would notice the bug.

| module | contents |
| --- | --- |
| `ThreadPool` | the pool, its workers and the runtimes that use it |
| `ThreadPoolProps` | invariants, abstract view and liveness of the pool |
| `ParallelFor` | the abstract promise of the pool: loops whose parts run once, in any order, before the loop returns |
| `ThreadPoolProofs` | the pool's types, the ownership of slots, that no task is run when it is gone, each iteration once, balanced counts, the refinement of `ParallelFor` |
| `DeferHeap` | the node list of `DeferBufferAllocator` as a value: what `alloc` and `free` do to it |
| `DeferAllocator`, `MCDeferAllocator`, `DeferAllocatorProofs` | one planning round of `DeferBufferAllocator`, over `DeferHeap` |
| `PipelineMemory`, `MCPipelineMemory`, `PipelineMemoryProofs` | the life times of a pipeline's tensors in a resize, over two `DeferHeap`s |
| `EagerAllocator`, `MCEagerAllocator`, `EagerAllocatorProofs` | `EagerBufferAllocator` over an outside allocator |
| `SessionMemory`, `MCSessionMemory`, `SessionMemoryProofs` | sessions over the runtime's two shared buffers, in memory or in mapped files |
| `ResizeCache`, `MCResizeCache`, `ResizeCacheProofs` | what a resize of a pipeline computes again and what it takes from the last |
| `WeightCache`, `MCWeightCache`, `WeightCacheProofs` | weights in mapped files over starts, crashes and power failures (the proofs: also of the background workers) |
| `KVCache`, `MCKVCache`, `CacheAndLoaderProofs` | the key and value cache of a language model, from `Llm` down to the cells (the proofs: also of the data loader) |
| `WorkerThread`, `MCWorkerThread` | the background workers, to whom the preparation of weights is posted |
| `DataLoader`, `MCDataLoader` | client, sampler, two blocking queues and workers of the data loader |

### ThreadPool

`phase` says whether the pool exists; `available`, `task`, `flag`, `activeCount`, `stop`
are `mTaskAvailable`, `mTasks[].first`, `mTasks[].second`, `mActiveCount`, `mStop`.
A task is recorded by the client whose closure it is and its number of
iterations.  `wpc[w]` and `scan[w]` are a worker's place and the slot it looks at.
`attached`, `index`, `open`, `bound` are a runtime's `mThreadPool`, `mTaskIndex`, `mThreadOpen`
and whether `_bindCPUCore` has set the affinity for this thread; `pc`, `k`, `size` are
the place, the loop variable and the loop of its current call; `depth` and
`runs` are history: Begins without End, and how often each iteration has run.

An action is one access to shared memory or one critical section of
`mQueueMutex`; steps on a client's own fields are merged with the access next to
them.  `Reset` / `Release` are `onReset` and the destructor, with `ThreadPool::init`
and the constructor; `Begin`, `Activate`, `Notify`, `Bind`, `BindNotify`, `Unbind` are
`onConcurrencyBegin` with `acquireWorkIndex`, `active` (the counter and the
notification are two steps) and the affinity task; `Enqueue`, `RunInline`,
`WriteTask`, `RaiseFlag`, `RunOwnPart`, `Spin`, `SpinDone` are `enqueue` and
`enqueueInternal`; `End`, `Deactivate` are `onConcurrencyEnd`; `TestStop`, `TestActive`,
`ReadFlag`, `RunPart`, `ClearFlag`, `Wait` are the worker's loop and `SpuriousWake` is
allowed by the condition variable; `Destroy`, `DestroyNotify`, `Join` are `destroy`.
The atomics of this code are sequentially consistent (`std::atomic` with default
order), so interleaving is the right semantics.

`destroy` is only taken when no runtime is attached: its only caller is
`test/core/ThreadPoolTest.cpp`, after it has joined its clients.  The code holds
one pool for each set of cores; the model has one.

`ParallelFor` is the abstract specification: a client calls a loop of n
iterations, the iterations run in any groups and any order, and the call
returns when all have run.  `ThreadPoolProps!ImplementsParallelFor` is the
refinement: `pc` and `runs` map to the calls and their iterations that are done.

### DeferHeap and DeferAllocator

`heap` is the allocator (`DeferHeap!EmptyHeap` and the operators on it): nodes numbered as they are created, the linked list as
a sequence, the multiset as a sequence sorted by size, and each node's size,
usage, parent and offset.  `total` and `code` are the outcome of `compute`,
`barrier` and `deferred` are `mBarrier` and `mBarrierFreeChunks`.  History:
`tensors` (node and size of every request), `freed`, `live`, and `met`, the pairs that
were in use at the same time, or that a barrier keeps together.  Actions: `Alloc`,
`Release` (a call of `free`), `BarrierBegin`, `BarrierEnd` (`FreeAll` of the deferred nodes), `Compute`, `Reset`.

### PipelineMemory

`net` is the network, chosen in `Init`: which tensors each command reads (also twice the same),
which tensors are outputs, the sizes, and whether the session owns its inputs and outputs
(`inside`: the default of a Session) or the caller does (a Module).  `p` is the pipeline: the two
heaps of groups 0 and 1, and for every tensor `mem` (the node it holds, `None`, `Static`, or `Gone` when
its heap was reset meanwhile), `use` (`useCount`) and `group`; `fixed` are the commands of group 1;
`place` and `scratchAt` are history, the nodes that the current plan gave to a tensor and to an
operator's own memory.  A call is one step, because a pipeline is resized by one thread:
`Resize` is `encode` and `allocMemory` with `_allocForTensor(0, ...)`, command by command in the order of
the code (`PlanCommand`: allocate inputs and outputs, `OnResize`, release what was read for the last
time; then `Recycle` and `compute`), failing at any operator or not at all; `ResizeFailsEarly` fails
in `encode` or before the first allocation; `Fix` is `fixResizeCache`.  A size depends on the
shape if the tensor is the last input or is computed from one that does (`Varies`), unless the
command's output has a constant size (`Stills`).  `Fix` takes the commands that never see a
varying tensor (`Fixable`): what the caches of shapes have found out when the caller has shown
them all shapes between `Resize_Check` and `Resize_Fix`.  After a free of a node that no longer exists
the program is undefined and the model says nothing (`Undefined`).

### EagerAllocator

`pool` is the allocator: `used` (`mUsedList`), `free` and `groups` (free lists of the
allocator and of each group of a barrier, each sorted by size as the multimap
is), `current` (`mCurrentFreeList`), `useCount` of the nodes, `blocks` taken from the
outside and `totalSize`.  A node is its block and the path of extents from the
root down to it, so that a parent is a prefix.  `chunks` are what callers hold and `seen` what was
handed to each group of the current barrier.  Actions: `Alloc`,
`Free`, `Release` and `ReleaseAll` (`release(false)`, `release(true)`), `BarrierBegin`,
`BarrierEnd`, `BeginGroup`, `EndGroup`.  The build modelled is the release build, where `MNN_ASSERT`
is empty.  `release(true)` comes when no chunk is held, which is how
`onResizeBegin` uses it.

### SessionMemory

`mem` holds the blocks of the root allocator (size, and for files the number
and whether the name still leads to the file), the two buffers (`current`,
`currentSize`) and for each session and buffer its plan (`total`, the block it was
set to, and where its tensors point).  `needResize`, `needMalloc` are the session's
flags.  History: `fixed`, `stale` (shapes changed since the last good resize) and
`last`, the last call with its result.  One thread drives a runtime
(docs/inference/module.md:287), so a call is one action: `ResizeTensor`, `Plan` (a
whole successful planning and `onResizeEnd`), `EncodeFails`, `OpFails`, `ResizeNothing`,
`Run`, `MapTensor`, `Fix` (`Session_Resize_Fix`) and `GabageCollect` [sic].  A session that was fixed is
resized before it runs, as test/expr/ModuleTest.cpp:1211-1214 does.  In file mode the
directory is clean at the start and the file system has room.

### ResizeCache

`net` is the network: for each operator its kind and inputs.  Six kinds stand for the hundreds
that exist, one for each thing that a resize has to do: keep its input's shape, require equal
shapes (and fail), take its shape from the content of an input, be virtual (regions), and two kinds of
constant operators that a resize runs at once, with and without a command.  `p` is the pipeline:
shapes, contents and flags of the tensors; for each operator its cache, what its commands were built from (`built`) and
whether they have executions; `mem` is the shape that a tensor's memory was planned for.
A call is one action, as in PipelineMemory: `Forward` is `StaticModule::onForward` with some inputs
(`Resize` composes `Encode`, `CreateExecutions`, `AllocTensors` in the order of the code, and `fail` says where
memory runs out), `Check` and `Fix` are the two hints.  A forward may find that the caller
still holds the output of the last one (`held`): a resize then computes it again, and without a resize it gets new
memory (`RenewOutput`), or none.  After `Fix` the caller only shows inputs that it
has shown between `Check` and `Fix`, which is what the two hints are for.

`Truth` is the reference: a new session resized to the present inputs.  Three history variables mark where the code
does go wrong, and each property names those that it excepts.  `spoiled`: after `Check`, a resize has failed between filling an operator's cache
and building its commands or executions (`HalfBuilt`; finding 5).  TLC follows such behaviours as
any other, but all properties are silent about what comes after: this part of hazard "a resize fails at an operator"
is *not* covered by a property that passes.  `pending`: no resize has followed the fix (finding 6).  `lost`: the output was to be
renewed and has no memory (finding 15).  The last two are excepted only from `MemoryFits`, and `lost` from `FixedStay`, and only for the tensors concerned.

### WeightCache

`program` is what is loaded: for each weight its size and the temporary memory that packing it needs.
`disk` are the files, each with its data and what of it is durable; `marker` is `sync.static`; `proc` is the
running process: place in the program, the hint `useCachedMmap`, `mNewMmap`, `mAllocTimes`, the free list, and where each weight
lies.  `Start`, `Create` (one module's `CPURuntime::onCreate`), `Reuse`, `OpenFile`, `CreateFile`,
`SetFileSize` (an allocation from the free list, from a file that exists, or from a new one, in two steps),
`Write` (the execution packs its weight, unless it trusts the files), `FirstResize`, `CreateMarker`, `Exit` with the destructor;
`Kill` ends the process between any two steps and `PowerFailure` also loses what was not synced, of any set of files.
The size of a file is taken to be durable when it is set.

`Layouts` is where a program puts its weights when nothing intervenes: the allocator after each weight (`Laid`,
from `Fit`, which serves one request, `WithWeight` and `AfterTemp`), with the free list, the sizes of the files
taken and the places.  The properties compare what processes do, step by step and file by file, to this function.

Starts with and without the cache follow each other in any order, as `CPURuntime::onCreate` permits.  Two things then go wrong in
the code, and the properties name them: a program is not `Stable` if packing changes where its weights are placed (finding 8),
and `relapsed` is history, a start without the cache has found the marker (finding 7).  `OwnWeights` presupposes both `Stable` and `~relapsed`,
but only for a start that trusts the files: one that packs always has its own weights.  `MarkerVouches` presupposes `~relapsed` alone: the
weights are where the start that created the marker packed them, whether or not a later one looks there.

### KVCache

`meta` is `KVMeta`, `kv` the `KVCacheManager` of one layer (all layers do the same), `allSeqLen` is
`all_seq_len`; `config` is chosen at the start: `reuse_kv`, decoding one by one or lookahead, and the size limit beyond
which the cache is on disk.  A cell holds the number of the token whose forward wrote it and its
position id.  History: `forwarded`, the tokens so far, and `hist`, the entries that nobody has removed.
A call of `Llm::forwardVec` is one step, with everything that it triggers: `Attended` is `CPUAttention::onExecute` with
`KVCacheManager::onAlloc / onRealloc / onPushBack`, `Synced` is `KVMeta::sync`.  Actions: `Response` (`generate_init` and
the prompt), `Decode` (one turn of `ArGeneration`), `Verify` (one turn of `LookaheadGeneration`:
drafts, of which some are accepted), `Reset`, `EraseHistory`.

Callers ask for what they like, as `Llm::eraseHistory`, `reset` and `generate` accept it.  `misused` counts the requests that the code takes
and does not carry out as asked (`Request`): supported are erased ranges of whole blocks (the code says "Don't support not align
reserve"), not at the front unless everything is erased, with nothing else waiting, and in the middle only with `reuse_kv`; a `reset`
while no range waits to be kept; decoding one by one while nothing waits.  `HistoryKept` speaks of behaviours without
such a request; `PreviousIsLength`, `PositionsIncrease` and all of `Placed` but the bound on the capacity speak of all.  `miscounted` is the one exception of
`PreviousIsLength`: when the cache was last cleared, a range to be kept was waiting (finding 10).  There the run
`kv_cache_cleared_reserve` shows the assertion of the code violated.  A debug build ends at that assertion and `Forward` takes no step
where it fails; a release build goes on with the wrong length, which is not modelled.

A cell stands for a key and its value.  Keys lie in blocks of `hP` entries and the key buffer is rounded up to whole blocks, a row of values ends at
`mMaxLength`.  Moving whole blocks can therefore read behind a row of values (`KVCacheManager.cpp:527-537`, when `endAlign` is above `mMaxLength`):
`Row` makes those entries holes.  They land behind the kept length, so no kept entry is affected;
the read itself is not a matter of any property.

### WorkerThread

`tasks` is the queue, `stop` `mStop`, `pc[w]` and `job[w]` a worker's place and the task
in its hands, `owner` the place of the thread that posts and destroys, `posted` and
`runs` history.  `PostTask`, `NotifyPost` are `postTask`; `SetStop`, `NotifyStop`,
`Join`, `Drain` are the destructor; `Top`, `Sleep`, `Skip`, `Pop`, `RunTask` are the
worker's loop, and `SpuriousWake` is allowed by the condition variable.  When the owner is
gone the system stutters (`Gone`): it has ended.

### DataLoader

`jobs` and `data` are the two queues, `pc` the place of each worker and of the
client, `hold` what a worker carries, `call` what the client is doing, `left` and `index`
the loop and the sampler's position, `epoch` and `got` history: the pass of the sampler
and the batches that `next` has returned in it.  Each queue has one mutex and one condition
variable; a push or a pop is a critical section and a `notify_one` that wakes any one of
the threads asleep on that queue, producer or consumer.  The client resets the loader after a pass
(docs/train/data.md) or in its middle (demo/dataLoaderDemo.cpp:109-113) and may call
`clean` before the destructor (demo/dataLoaderTest.cpp).  `numWorkers = 0` has no concurrency
and is not modelled.

## 3. What the runs check

| run | cfg | properties | shows |
| --- | --- | --- | --- |
| `pool` | `ThreadPool.cfg` | `TypeOK`, `TaskAlive`, `ExactlyOnce`, `SlotOwnership`, `BalancedRuntime`, `ActiveAccounting`, `ImplementsParallelFor`, `EveryLoopReturns`, `DestroyReturns` | runtimes that compete for the last slot, with nested sections, inline and chunked loops and affinity tasks: a slot has one owner and is not lost, no worker runs a task that is gone, every iteration runs exactly once, the counts balance, the pool implements `ParallelFor`, and no wake-up is lost between `active`, `deactive`, `destroy` and workers that go to sleep |
| `defer` | `DeferAllocator.cfg` | `FusesToOne`, `FreeListConsistent`, `DisjointLifetimes` | every order of five allocations and their frees, a barrier at any moment |
| `eager` | `EagerAllocator.cfg` | `Tiled`, `MergesBack`, `GroupsSeparate` | every order of allocations, frees, releases, barriers and groups over two blocks |
| `session_memory` | `SessionMemory.cfg` | `RunsUnlessExhausted`, `NothingLeaks`, `PlanIsCurrent` | sessions that resize, fail, fix, run and are collected over the shared buffers, in memory or in files |
| `session_memory_stale_size` | `SessionMemoryBug.cfg` | `RunsOnLiveMemory` | **violated**: finding 1 |
| `pipeline_memory` | `PipelineMemory.cfg` | `ValuesSurvive`, `EverythingReturned`, `FixedStay` | every graph of two inputs and three commands, resized between two shapes, failing anywhere, fixed at any moment: no command writes where a value lies that is still read |
| `resize_cache` | `ResizeCache.cfg` | `ShapesCurrent`, `CommandsCurrent`, `MemoryFits`, `FixedStay` | every network of three operators, forwarded with changing shapes and contents, checked, fixed, failing, with outputs that the caller holds: a resize that takes from the last one ends where a complete one would, unless an operator was left half built |
| `weight_cache` | `WeightCache.cfg` | `OwnWeights`, `MarkerVouches`, `Apart`, `NothingLeft` | three starts of a program, with and without the cache in any order, killed or cut from power at any step: one that runs has its own weights and the marker vouches for durable files, apart from findings 7 and 8 |
| `kv_cache` | `KVCache.cfg` | `HistoryKept`, `PreviousIsLength`, `PositionsIncrease`, `Placed` | responses, decoding, rejected drafts, resets and erased ranges of every kind, in memory, on disk and in between: the cache holds what was not removed, in order, while requests are supported ones; the lengths agree whatever is asked for, apart from finding 10 |
| `kv_cache_cleared_reserve` | `KVCacheClear.cfg` | `LengthAsserted` | **violated**: finding 10 |
| `worker_thread` | `WorkerThread.cfg` | `DoneWhenGone`, `EveryTaskRuns`, `DestructorReturns` | three workers, four tasks, the destructor at any moment |
| `data_loader` | `DataLoader.cfg` | `FreshBatches`, `WorkersNeverBlock`, `NextReturns`, `JoinReturns` | two workers, `next`, `reset` in the middle of an epoch, `clean`, destruction |

Each property is stated in words where it is defined.  Outside the pool the type invariant `TypeOK` is
not listed as a property of its own: it is the first conjunct of the invariant about the state's structure
(`FreeListConsistent`, `Tiled`, `NothingLeaks`, `EverythingReturned`, `DoneWhenGone`, `WorkersNeverBlock`,
`MemoryFits`, `Apart`, `Placed`), as are `LiveNodes`, `ChunksHeld`, `TotalIsBlocks`, `InsideBuffer` and `NoShortBatch`
of the invariant they belong to.

### Bounds, and why they are enough

* `pool`: one slot for two clients, so that one of them always finds none and a slot changes hands; two workers
  (`NumThread = 3`), which show the scan of more than one flag; loops and affinity tasks of four iterations, so that part 0 has two and parts
  and iterations differ; nesting two deep, enough for an inner section that gets what the
  outer did not.  A second slot, loops with as many parts as iterations and loops of one iteration do not fit into the time of a run with liveness:
  the safety properties and the refinement are proved for all of them (section 4), while liveness with several slots is not checked.
* `defer`: sizes 1 and 3 make every case of `alloc`: exact fit, split, expansion
  of the last free node, and a new node.  Five requests let a node be split,
  fused and split again, with free nodes on both sides of a used one.
  `Reset` brings the state back to the start, so a second round is covered.
* `eager`: two blocks; sizes 1 and 2 under an alignment of 2 show rounding, 7
  rounds up to the minimal size 8; three chunks give a node with a used and a free half
  next to another; two groups.  `MaxChunks = 4` and, with sizes {1, 2, 5}, three
  blocks were also run (1.1 and 1.7 million states) without a violation.
* `session_memory`: two sessions, because each only sees the others as
  somebody who replaces the shared buffer; two totals, so that a plan fits or does not;
  three blocks: two that the buffers hold and one more, which makes addresses
  come back.
* `pipeline_memory`: all 630 graphs of two inputs and three commands with one or two operands,
  all sets of outputs, Session and Module.  Two inputs, because the second may be needed for the first
  time when memory has been used before; three commands give a producer, a command in between
  that may reuse memory, and a late reader.  Sizes 1 and 3, doubled by the second shape, split and expand
  nodes; one command, whose output has a constant size, has memory of its own.  Neither graph nor history is longer, so deeper
  chains of splits are left to `defer`.  A larger run with all sets of constant-size commands and other
  sizes and one input (956,000 states) found nothing either.
* `resize_cache`: three operators of six kinds are a producer, one in between and a reader, the least that shows
  a constant that depends on a computed shape, or a virtual tensor between two commands.  At most two of
  the three inputs are read, the second shape only meets the first where shapes must be equal, and only
  a virtual tensor is read by the same operator twice; every result is used.  Shapes and contents are 1 or 2.  Calls
  are not bounded.
* `weight_cache`: three weights of size 1 or 2 in files of 3: exact fit, a rest that serves a later weight, a
  new file; temporary memory of 0, 1 (which fits a rest) or 4 (which needs a file larger than the others).  Three
  starts: one is interrupted, one completes its files, one trusts them.
* `kv_cache`: eight tokens, blocks of 2, one cell to spare after each growth: the cache grows several times, and with the limit 9 it
  moves to disk on the way, with 2 it starts there.  Prompts of 1 and 3 and up to three tokens in a draft
  leave the last block empty or partly used before a removal.  One request that the code does not support (`MaxMisuse = 1`), at any moment and of any
  kind, with any supported ones before and after it.  Other calls that forward nothing are not bounded.
* `worker_thread`: three workers and four tasks: more tasks than workers and more workers than
  queued tasks both occur.
* `data_loader`: two workers (the client and both can sleep on one queue); queue capacity 4 is
  what two workers get in the constructor; an epoch of 8 batches
  is longer than what is prefetched, and its last batch is short; two epochs.

Unbounded in the code and cut by a constant: the network (`NumInputs`, `NumCommands`), nesting (`MaxDepth`), requests per round
(`MaxAllocs`), barriers per round (`Barriers`), blocks and chunks (`MaxBlocks`,
`MaxChunks`), groups (`MaxGroups`), operators (`NumOps`), weights and starts (`NumWeights`, `MaxStarts`), tokens and unsupported requests (`MaxTokens`, `MaxMisuse`),
posted tasks (`MaxPosts`), epochs (`MaxEpochs`).  No run has a constraint.  Of the runs without a liveness property `session_memory*` use symmetry
(sessions, blocks).

### Fairness

Weak fairness is assumed for the steps of a thread that is inside a call or is a
worker, which is what a scheduler gives that runs every thread: `ClientStep`,
`WorkerStep`, `DestroyNotify` and `Join` of the pool; the owner and each worker of
`WorkerThread`; `Serve` and each worker of the data loader.  No thread is obliged to
make a call, and no spurious wake-up is relied on.  Spinning (`Spin`) needs
nothing more: a flag that is down stays down until the client's next loop.

### Mutants

For every property of a passing run `PROJECT.json` names a mutant of the model
that violates it in that run, for example a worker that waits without testing
`mStop`, a client that scans only the last flag, a free that does not look at the
right neighbour, a barrier that frees at once, `realloc` that
leaks the old block, an input that may come from memory
used before, a constant operator that is run again only if a shape changed, a marker that does not wait
for the files, kept entries that `sync` forgets, or a destructor that does not run what is left in the queue.

## 4. What is proved

Each theorem holds for every value of the constants that satisfies the module's
`ASSUME`, and each names a property that a run also checks.  The assumptions only say
that the constants make a system (a finite set of threads, sizes that are positive, at least one slot); what
else a theorem presupposes is stated in it and explained here.

| module | theorems |
| --- | --- |
| `ThreadPoolProofs` | `TypeCorrect` (`TypeOK`), `SlotsExclusive` (`SlotOwnership`), `TasksStayAlive` (`TaskAlive`), `IterationsOnce` (`ExactlyOnce`), `ActiveCounted` (`ActiveAccounting`), `RuntimeBalanced` (`BalancedRuntime`), `PoolImplementsLoop` (`ImplementsParallelFor`) |
| `SessionMemoryProofs` | `LiveMemory` (`RunsUnlessExhausted`), `CurrentPlan` (`PlanIsCurrent`), `NoLeak` (`NothingLeaks`) |
| `DeferAllocatorProofs` | `FreeListIsConsistent` (`FreeListConsistent`), `EverythingFuses` (`FusesToOne`), `LifetimesAreDisjoint` (`DisjointLifetimes`) |
| `EagerAllocatorProofs` | `MemoryIsTiled` (`Tiled`), `BlocksMergeBack` (`MergesBack`), `GroupsStaySeparate` (`GroupsSeparate`) |
| `PipelineMemoryProofs` | `ValuesAlwaysSurvive` (`ValuesSurvive`), `PlansGiveEverythingBack` (`EverythingReturned`), `FixedTensorsStay` (`FixedStay`) |
| `ResizeCacheProofs` | `ShapesAlwaysCurrent` (`ShapesCurrent`), `CommandsAlwaysCurrent` (`CommandsCurrent`), `MemoryAlwaysFits` (`MemoryFits`), `FixedAlwaysStay` (`FixedStay`) |
| `CacheAndLoaderProofs` | `RightLength` (`PreviousIsLength`), `NoPositionTwice` (`PositionsIncrease`), `CachePlaced` (`Placed`), `NothingForgotten` (`HistoryKept`); of the data loader `RoomForAll` (`WorkersNeverBlock`), `EachBatchOnce` (`FreshBatches`) |
| `WeightCacheProofs` | `WeightsApart` (`Apart`), `WeightsAreOwn` (`OwnWeights`), `MarkerIsTrue` (`MarkerVouches`), `NoFilesLeft` (`NothingLeft`); of the workers `EveryTaskOnce` (`DoneWhenGone`) |

Every proof has the same shape: an inductive invariant `IInv`, one lemma or step for each action that says it
keeps `IInv`, and the theorems as consequences of it.  Bounds such as `MaxEpochs`, `MaxStarts` or `MaxTokens` are any
numbers here, so they bound nothing.

### The pool
`TypeOK` is inductive.  `SlotOwnership` is not: a client that acquires a slot must not own one already, and a pool must
not be created twice.  `OwnInv` adds `RuntimeInv` (how `index`, `open`, `depth` and `pc` go together)
and `PoolInUse` (nobody is attached to a pool that is being destroyed).  `TaskAlive`
needs to know how far the client is: `AliveInv` is `TaskInv` (the slot's task is the
client's own from `WriteTask` until it spins out), `FlagInv` (the flags that are
still up are those of parts in the range that was raised, and up to `k` they are down
while it scans) and `WorkInv` (a worker between reading its flag and
clearing it finds it up).  That last conjunct is the heart of the
protocol: the worker clears the flag after it has run its part, so a client that saw
the flag down knows the worker has left the closure.

`ExactlyOnce` says something of loops that have returned.  `RunsInv` says at every moment which iterations have run:
all of the loop but those of `Pending` parts, where a part is pending if its flag is up (or is still to be raised)
and no worker is past running it.  `BindInv` ties the affinity task to the places of its client; with it
`ActiveAccounting` is inductive although it counts two kinds of holders in one number.  `PoolImplementsLoop` is proved step by step: `Call`
of the abstract loop is the entry to `enqueue`, a group of iterations is one run of a part (or one of an inline loop),
the return is the last scanned flag or the end of the inline loop, and every other step of the pool is a stutter.

### Background workers and the data loader
`WorkerThread` (the proof is in `WeightCacheProofs`): the queue is always the last tasks posted, in order (`Fifo`), so a task has left it exactly if its number
is not above `Taken`; a task has been called if and only if it left the queue and no worker holds it (`Accounted`), and no two
workers hold the same (`JobsOwned`).

`DataLoader` (`LoaderSpec`, proved in `CacheAndLoaderProofs`): whatever is on its way (queue of jobs, a worker's hand, queue of data, returned) was sent in this pass
(`InPass`), and is at one place only (`Once`); in particular nothing of an earlier pass is left after the join of a
reset.  `WorkersNeverBlock` rests on `Credit`: the jobs sent and not returned, with those that the present call still
owes, are never more than the capacity of the queue of data, wherever the client is interrupted.

### Shared dynamic memory
`Owned`: the allocated blocks are exactly those of the two buffers, which differ and know the sizes of their blocks.
`Numbered` says how far the numbers of mapped files have gone, which is what keeps an allocation possible in file mode, `TensorsSet` that
set tensors point to what they were set to, `Planned` and `StaleNoticed` how the sessions' flags relate to their plans.
`RunsUnlessExhausted` and `PlanIsCurrent` speak of the last call; they follow for each call from what holds before it.
Three blocks are assumed (`MemoryAssumption`): two that are held, and one to allocate before the old one is released.

### Deferred buffer allocator
The tree of nodes changes under tensors that are alive: allocating splits or extends a free node, freeing fuses neighbours, and an
address exists only when the round ends.  `HeapOK` says what a heap is between operations: the free list is the unused
nodes of the list, sorted by size (`ListOf`), of two neighbours one is used (`Fused`), following parents ends (`Rooted`), and
every placement of the list gives each node one address (`Solvable`).  `Owned` and `Waiting` tie the used nodes to the live tensors, one node each, and
the deferred ones to tensors freed behind a barrier.  With all tensors freed, none is used, and `Fused` leaves at most one node: `EverythingFuses`.

`LifetimesAreDisjoint` speaks of addresses that `compute` assigns later, when sizes and links may have changed again.  So `Placed` speaks of every
*layout* into which the nodes fit (`Fits`: the nodes of the list lie in its order and do not overlap, the others lie at their offsets in what they were fused to): in any such layout the tensors fit
into the places of their nodes, and no two that were ever alive together overlap.  It is inductive because an operation only adds constraints: whatever
layout fits the heap after it fits the heap before it.  At the end the computed addresses are such a layout.
There is one lemma for each helper (`FreeInserted`, `FreeErased`, `FusedTo`), one for each half of `free` (`FreedLeft`,
`FreedRight`), `FreedAll` for the end of a barrier, and one for each way `alloc` can go (`TookFree`, `TookTail`, `SplitFits`, `LargerFits`).

### Eager buffer allocator
The nodes that a list refers to are the *leaves* of the trees; with everything they were split from they make the tree that `Tree` describes:
no leaf is part of another, two nodes of a block are one part of the other or do not overlap (`Apart`),
the root is the block (`Based`), and what was split is `Halved`: it has exactly two parts that share its bytes, its use count is the number of
its parts that are not in the free list, and that is never zero.  This is where the arithmetic of `returnMemory` is justified:
a parent whose count falls to zero has two free parts, so erasing all its parts from the list and inserting it loses nothing.
There is one lemma for each thing that happens to a tree: a split (`TreeSplit`), a free leaf that is used (`TreeTake`), a new block
(`TreeNew`), free roots that are dropped (`TreeDrop`), and `TreeReturn`, the merge from the bottom up.

`Stored` says that what a pool keeps is such a tree, whose leaves are used, free, or *held* by the groups, never two of them.  A node that is
held by a group counts as busy in its parent, which is why frees inside a group do not count down and the end of the
barrier does, node by node (`StoredGroupsReturned`).  `ChunksOK` ties the used nodes to the chunks, one to one, and `SeenOK`
is the history of a barrier: what a group was ever given is still in its list or in use by it (`Mine`).

`GroupsSeparate` follows since all of these are different leaves.  For `MergesBack`, of a block that nobody uses all leaves are free, and its
deepest node that was split would have two free parts; so none was split and the root is free.  For `Tiled`, the deepest node that covers a byte
is a leaf, and the only one (`CoveredOnce`).  The loops of the model (`Kept`, `RootSize`, `ReturnGroup`, `Total`) are unfolded step by step as explained below
(`Recursion`).  `IInv` was first checked by TLC.

### Pipeline tensor life times
A resize is one step of the model but a long computation over two heaps, so the invariant between calls
(`BetweenCalls`) is the small part: `CommandOK`, `PlanOK` and their lemmas follow a plan command by command.  `MemOK` says at a point inside
a plan which tensors hold a node, that their use counts are the reads that are still to come (`CountsAre`, `Less`), and which tensors are through.
`Roomy` is the heart: the users of the plan so far (tensors and the commands' own memory) have nodes; those that still
hold one, the *holders*, have it for themselves; and in every layout into which the heap fits (`Fits`), the users
that were ever alive together (`Cover`) do not overlap.  It is kept by an allocation (`RoomyAlloc` and what it rests on) because the node
that is handed out was free, and by a free because a free only adds constraints; these are the lemmas of
`DeferAllocatorProofs` on any heap.  At the end of a plan `Roomy` and the address of every node in the computed layout give `ValuesSurvive`
(`BytesApart`), and no holders are left, so the free list has fused to one node (`EverythingReturned`).

What makes it a proof about failures too: `BetweenCalls` describes what a resize that failed leaves behind, and the next
`encode` starts from there (`EncodeOK`): a tensor that is not planned again has dropped its memory, or the heap it came from
is unknown and the model says nothing more (`unknown`, finding 4).  
`FixedStay` compares two plans that are calls apart.  Planning group 0 leaves group 1 alone (`Untouched`).  A second fix plans group 1
again from an empty heap, and everything that its tensors' nodes depend on is as it was at the first: what is fixed has only shapes that do
not change, and no tensor of the group holds memory (`Opening`).  `Alike` relates two pipelines that agree on group 1 and may differ in everything
else; every operation keeps it (`DropAlike`, `AllocAlike`, `ReleaseAlike`, `OnResizeAlike`, `CommandAlike`), hence
a whole plan does (`PlannedAlike`), so that `Canonical` is an invariant: whoever plans group 1 gets the plan that is there.

### Resize cache
A cache that is matched wrongly shows only later, in a result that belongs to other inputs.  The proof therefore compares
every pipeline with the one that its inputs determine.  `Solves` says of a pipeline that each operator agrees with the
operators that it reads: its shape and content are what they give, its commands were built from what they are.  A new
session satisfies it (`TruthSolves`), and two pipelines that satisfy it for the same inputs agree in everything
that the properties speak of (`SolvesUnique`, along the order of the network); so it is enough that every resize that
succeeds ends in one that does.

`IInv` says in `Sound` what holds whatever has failed, and in `Sane` what holds unless an operator was left half built: that condition, `~spoiled`, stays in
all four theorems, and finding 5 says why it has to.
Before the check nothing is kept (`PlainOK`).  While it is open, an open cache knows its
operator (`Known`): from the inputs that it remembers follow the operator's shape, its content and its commands.  This is where it
matters that constant operators are run again when the content that they copy may have changed, and it is kept also by a resize
that fails (`FailedInformed`).  What the fix may
freeze is what was the same for all inputs shown: `ShownOK` says this of the open caches, `Settled` that the last resize left nothing half
done.  After it, `Passes` says that what is skipped for good is right for all of these inputs, which are the
only ones that still come; the exception is the content of a copy that is run again.  Then come the memory and the group of what is fixed (`FixedOK`), from
which `FixedStay` follows also for resizes that fail, and `Done`: executions, and memory for the present shapes.

A resize is a loop over the shapes, one over the geometry, and the allocation.  One lemma says what each step does to one
operator and which others it may touch (`ShapeStepIs`, `RebuildIs`, `CreateIs`, `PlanIs`: a constant operator that is run closes caches behind
it), `ShapeLoop` and `GeometryLoop` follow the loops, and `ResizeIs` says what became of each operator:
passed, taken from its cache, built, or after the failure.  `PlainResize`, `CheckResize` and `FixedResize` use it in the three phases, `FixIs` does for the fix.

### Key and value cache
Two invariants, one for each half.  `BaseInv` holds whatever callers ask for: lengths, capacity and place, positions, and that `previous` is the length unless
`miscounted` (finding 10); it covers ranges that are no whole blocks and requests that replace one another.  `KeptInv` holds while
`misused` is 0.  There `HistInv` is the main conjunct: the history without what was asked to be removed lies in the cells at the places that the
next forward will take it from (`Place`), so a request may wait any time, and `RequestOK` says
which requests can wait: an end, or what follows a start, in whole blocks.  `CacheInv` carries capacity and place
through growth, the move to disk and the closing of gaps; the copies of `KVCacheManager` are lemmas of their own, cell by cell.

### Weight files
`WeightsAreOwn` is conditional on `Stable` and `~relapsed` for a start that trusts the files, `MarkerIsTrue` on `~relapsed`: without them they are
false (findings 7 and 8).  The other two theorems are unconditional.

What a process has allocated is a function of how far it is in its program and whether it packs: `StageInv` says that its free list, places and files are those of
`Layouts` at that point (`Stage`), through reused blocks, opened files and new ones alike.  It is
for this that a start may rely on the places of an earlier one.  About `Layouts` itself, `Good` is proved for every prefix
of every program: at most one listed block to a file, which begins where the file's weights end, and no overlap.
`HeldInv`: what was packed is in the files.  `HintInv`: a process that trusts the
files found the marker when it began.  `SyncInv`: between sync and marker everything mapped is durable.  `VouchInv` is
`MarkerVouches` with the data as well as the durable part.  `ResidueInv` and `FailInv` describe what starts without the cache
can leave behind (the first files of the layout, of which only the last may be too short), from which `NothingLeft` follows when one
of them ends, also by failing.  Each conjunct was first checked by TLC.

### What the provers cannot do, and how far that reaches
No induction theorem of the library can be instantiated here, since they are stated for an operator parameter.
Where a proof needs induction over numbers it takes the least counterexample instead: `LeastNat` (from the well-foundedness of finite
sets under inclusion) gives `UpTo`, `LayoutsUnfold` (the recursive function `Layouts` satisfies its equations) and `AllLaid` in `WeightCacheProofs`,
`FreeAllSteps` and `FreedAll` (the recursive function `FreeAll`) in `DeferAllocatorProofs`, and `PlanAllSteps`, `RecycleAllSteps`
and `EncodeSteps` (the loops over the commands) in `PipelineMemoryProofs`,
`Recursion` and `UpTo` (lists and groups that are walked through) in `EagerAllocatorProofs`, `CourseExists` and `EncodeRuns` (the
loops of a resize) and `ChosenFrom` (the networks, which are built one operator at a time) in `ResizeCacheProofs`.
No module declares a `RECURSIVE` operator.

*Out of reach*: liveness under fairness (`EveryLoopReturns`, `DestroyReturns`, `EveryTaskRuns`, `DestructorReturns`,
`NextReturns`, `JoinReturns`) and `ENABLED`.  These stay with TLC; every other property of a passing run is stated
by a theorem.

## 5. Findings

1. **A failed allocation is forgotten** (`BufferAllocator.cpp:445`).
   `SingleBufferWithAllocator::realloc` gives the old block back, and when `onAlloc`
   fails it returns `OUT_OF_MEMORY` with `current` null, but `currentSize` is still the old
   size.  Another session whose plan fits that size then finds nothing to
   reallocate, sets its tensors to the null base, and `run` returns `NO_ERROR`, which
   docs/cpp/Interpreter.md:55 explains as "executed successfully".  `session_memory`
   shows that this is the only way: unless some buffer is in that state,
   every successful run has its memory (`RunsUnlessExhausted`).

Finding 10 is shown by a run, too.  The others were met while modelling and are not:

2. **Two buffers in one file** (`BufferAllocator.cpp:138`).
   `MmapAllocator::onRelease` sets `mAllocTimes` to 0 whenever any block is released.  The
   runtime gives one `MmapAllocator` to both dynamic buffers (`CPUBackend.cpp:279-282`), so
   the next allocation may take the name of the file the other buffer has
   mapped, find that it exists, and map it shared.  Two sessions that were fixed, of which one
   then grows, get there; their fixed and their other tensors share memory and
   the run reports `NO_ERROR`.
3. **The queue has no limit** (`WorkerThread.cpp:54`), although
   `WorkerThread.hpp:21` says "PostTask fails if there are more than `MAX_TASKS` tasks in
   the queue".
4. **A failed resize makes the next one free memory of the past** (`Pipeline.cpp:1062`).  When
   an operator's `onResize` fails, for example CPUMatMul.cpp:72 for shapes that do not match,
   `_allocForTensor` returns and the tensors planned so far keep their memory objects.  The next
   resize clears the allocator, which deletes its nodes (`Pipeline.cpp:270`), and only then drops the
   objects (`GeometryComputerUtils.cpp:181`); their destructor calls `free` with a node that is
   gone.  The eager allocator asserts that this does not happen (`BufferAllocator.cpp:305`); the
   default one reads and writes the deleted node.
5. **A failed resize closes the case too early** (`GeometryComputerUtils.cpp:216`).  The first pass of `encode`
   fills an operator's cache when its shape is inferred; its commands are built by the second pass.  If a
   later operator fails in the first pass, and the caller tries again with shapes that the first ones
   find unchanged, their caches match, their commands are never built, and the resize ends with
   `NO_ERROR` and an output that nothing computes.  `_createExecutions` leaves the same trap when memory runs
   out.  It takes the caches to be open (`Session_Resize_Check`).  In `ResizeCache` this is `spoiled`: without the conjunct
   `~spoiled`, `resize_cache` finds `CommandsCurrent` violated.
6. **A fix without a resize** (`CPUBackend.cpp:558`).  `Resize_Fix` does not make the session ask for a resize,
   although buffer 0 has been released: test/expr/ModuleTest.cpp:1211-1214 resizes before it runs,
   test/expr/MemoryIncrease.cpp:265-266 relies on changed shapes.  A forward of the same shapes runs
   what is not fixed on memory that was given back (`pending` in `ResizeCache`).
7. **Weight files without the hint** (`BufferAllocator.cpp:93-101`).  A start without `USE_CACHED_MMAP` removes the
   weight files when it ends, but not the marker.  The next start with it finds the marker, creates files
   of zeros and trusts them (`relapsed` in `WeightCache`; without that condition TLC finds `OwnWeights` and `MarkerVouches` violated).
8. **Placement that depends on packing** (`Convolution1x1Strassen.cpp:49-56`).  Packing takes temporary
   memory from the allocator of the weights.  A start that trusts the files does not pack, so later weights
   may lie elsewhere than where they were written.  `Stable` tells the programs of the model
   that this does not happen to; without that condition TLC finds `OwnWeights` violated.
9. **Weight files, other cases.**  A module that is loaded after the first resize gets ordinary memory, but
   the hint still says that its weights are there.  A start that finds the files of an interrupted one creates none,
   so `mNewMmap` stays false and the marker is never created: every later start packs again.  A process that
   dies between creating a file and setting its size leaves a file that cannot be mapped, and every
   later start fails (`failed` in `WeightCache`).  The names of the files say nothing of the model.
10. **A reserve counted after a clear** (`CPUAttention.cpp:311-315`).  If everything before a kept range is removed,
   `eraseHistory(0, end)` with `end` before the end, or a `reset` or a `response` without `reuse_kv` while such a range waits,
   `previous = remove` makes the attention clear its cache, while `sync` still counts the range; the
   assertion `previous == kvLength` fails at the next forward that removes nothing or a part.  The run `kv_cache_cleared_reserve` finds it in four states: a prompt,
   `eraseHistory(0, 1)`, another prompt.  `PreviousIsLength` shows that this is the only way: unless the cache was cleared while a range
   waited, the lengths agree whatever callers ask for.
11. **Requests that are lost** (`speculative_decoding/generate.cpp`).  Decoding one by one sets `remove` to 0 in every turn, so a
   reset or an erased range that waits is dropped if it comes between two calls of `generate`.  A second
   `eraseHistory` before a forward replaces what the first one removes and may keep its reserve.  In
   `reranker.hpp:153` `setKVCacheInfo(total_len, 0)` replaces what `reset` asked to remove.
12. **Ranges that are not whole blocks** (`KVCacheManager.cpp:494`) keep entries of the erased range and lose
   some that were to stay; `rollback_demo.cpp` erases ranges of any length.  With lookahead, `getCurrentHistory` counts
   rejected drafts, so an erased range computed from it is too long.
13. **A prefill that fails** (`llm.cpp:662`) leaves the outputs of the forward before, from which the response
   goes on, and `all_seq_len` counts the prompt.
14. Three assertions and errors: the assertion at `BufferAllocator.cpp:239` fails in a debug build when a
   request just below the minimal block size rounds up to it; an operator that keeps dynamic memory beyond
   `onResize` makes `compute` fail with `INVALID_VALUE` (CPUInterp3D.cpp:120-131 does so for its type 2, which is
   not implemented there); `moveKVCacheFromMemToDisk` has no `else` after its branch for int8 keys, which
   then reads memory that does not exist.
15. **An output that lost its memory** (`StaticModule.cpp:486-506`).  A forward without a resize gives an output that its caller still
   holds new memory ("must realloc output to avoid the content dirty for output vars").  If there is none, the forward
   returns `OUT_OF_MEMORY` with `mem` null, and the session does not know: `mNeedResize` is unchanged, and the next forward of the same shapes
   passes the tensor over (`nullptr == desOrigin->mem.get()`), finds nothing to resize or to allocate (`Pipeline.cpp:1092-1096`), and runs with an
   output that has no memory of its own (`lost` in `ResizeCache`).

## 6. What the models leave out

* OpenMP and GCD builds of the pool, and more than one pool (set of cores) at a time.
* Allocation requests with an alignment of their own (no caller on the CPU makes one).
* In `PipelineMemory`: more than one backend, constants and the geometry stage's virtual
  tensors, operators with several commands or outputs, and failures while a fix is planned (the
  operators have been planned for the same shapes before).
* Shape inference, execution creation and copies between backends in a resize: only
  that they may fail.
* The contents of memory: properties speak of addresses, sizes and lifetimes.
* `numWorkers = 0` in the data loader.
* In the file mode of `SessionMemory`, what an earlier process left in the directory, and a full file system.  `WeightCache` has
  the former, for one program to a directory whose modules are all loaded before its first resize.
* In `ResizeCache`: a second `Check` or `Fix`, backends that cannot select an allocator (there `Fix` is
  `NOT_SUPPORT`), operators with several outputs, copies between backends, and when bytes are shared (that is
  `PipelineMemory`).
* In `KVCache`: quantized keys and values, packing in the second dimension (`lP` is 1), the second cache of
  multi token prediction, forwards that fail, and layers that disagree (they run the same requests one after
  the other).

## 7. Plan

Theorems: the safety properties that the runs check are proved; theorems of the modules below come with them.

Abstract specifications: `ParallelFor` (done); a one-operation memory planner, implemented by both
allocators; an exactly-once task list for `WorkerThread`; a one-queue loader for
`DataLoader`.

Modules: `Executor`, lazy evaluation of express and its compute cache (a result is computed once, and
again after its inputs change); `Module`, clones that share weights; tuning, once a device backend is modelled.
