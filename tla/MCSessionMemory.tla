--------------------------- MODULE MCSessionMemory ---------------------------
(* Properties of sessions that share a runtime's memory.                    *)
EXTENDS SessionMemory, TLC

SessionSymmetry == Permutations(Sessions) \cup Permutations(Blocks)

Pointers == Blocks \cup {Null}

\* Every variable has its type.
TypeOK == /\ mem.midPath \in MidPaths
          /\ mem.linked \in [Blocks -> BOOLEAN]
          /\ mem.name \in [Blocks -> 0..Cardinality(Buffers)]
          /\ mem.allocTimes \in 0..(Cardinality(Buffers) + 1)
          /\ mem.size \in [Blocks -> {0} \cup Totals]
          /\ mem.buffer \in [Buffers -> [current : Pointers, currentSize : {0} \cup Totals]]
          /\ mem.plan \in [Sessions -> [Buffers -> [used : BOOLEAN, total : {0} \cup Totals,
                                                    mPtr : Pointers, host : Pointers]]]
          /\ needResize \in [Sessions -> BOOLEAN] /\ needMalloc \in [Sessions -> BOOLEAN]
          /\ fixed \in [Sessions -> BOOLEAN] /\ stale \in [Sessions -> BOOLEAN]
          /\ last \in [session : Sessions \cup {Null},
                       call : {"none", "resizeTensor", "resize", "run", "map", "fix", "gc"},
                       code : {"NO_ERROR", "NOT_SUPPORT", "OUT_OF_MEMORY", "COMPUTE_SIZE_ERROR"}]

\* The tensors of session s lie in memory that is allocated, belongs to the
\* right buffer, and is large enough for the plan.
Backed(s) == \A i \in Buffers :
    LET plan == mem.plan[s][i] IN
    plan.used => /\ plan.host # Null
                 /\ plan.host = mem.buffer[i].current
                 /\ mem.size[plan.host] >= plan.total

\* A run or a map that reports NO_ERROR worked on memory that is there:
\* docs/cpp/Interpreter.md:55 calls the code "executed successfully".
RunsOnLiveMemory == last.call \in {"run", "map"} /\ last.code = "NO_ERROR" => Backed(last.session)

\* A buffer whose realloc has failed has lost its block but kept its size
\* (BufferAllocator.cpp:441-448).
Exhausted(i) == mem.buffer[i].current = Null /\ mem.buffer[i].currentSize > 0

\* Unless a realloc has failed and none has succeeded since, a successful run
\* works on memory that is there, whatever the other sessions, Resize_Fix and
\* the garbage collection have done to the shared buffers since the session's
\* last resize, and also when the system allocator returns an address a
\* second time (BufferAllocator.cpp:590-617, CPUBackend.cpp:528-541).
RunsUnlessExhausted == (\A i \in Buffers : ~Exhausted(i)) => RunsOnLiveMemory

\* No block is lost: what is allocated is what the two buffers hold
\* (BufferAllocator.cpp:431-452), and every variable has its type.
NothingLeaks == /\ TypeOK
                /\ {b \in Blocks : mem.size[b] > 0}
                     = {mem.buffer[i].current : i \in Buffers} \ {Null}
                /\ mem.buffer[0].current = mem.buffer[1].current => mem.buffer[0].current = Null

\* A session only runs what was planned for its current shapes: after a
\* resize that failed, at whatever point, no run succeeds until another
\* resize has (Session.cpp:237-241, 266-306).
PlanIsCurrent == last.call = "run" /\ last.code = "NO_ERROR" => ~stale[last.session]
=============================================================================
