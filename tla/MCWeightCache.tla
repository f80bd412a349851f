---------------------------- MODULE MCWeightCache ----------------------------
(* Properties of the weight cache.                                          *)
EXTENDS WeightCache

Files == 0..(2 * NumWeights)

\* Every variable has its type, and a block is not used beyond its size.
TypeOK ==
    /\ program \in Programs
    /\ DOMAIN disk \subseteq Files
    /\ \A k \in DOMAIN disk : disk[k].data \in Seq(0..NumWeights) /\ disk[k].durable \in Seq(0..NumWeights)
    /\ marker \in BOOLEAN /\ everCached \in BOOLEAN /\ relapsed \in BOOLEAN /\ cleanExit \in BOOLEAN
    /\ proc.pc \in {"off", "load", "alloc", "size", "write", "marker", "run", "failed"}
    /\ proc.mapped \subseteq DOMAIN disk /\ proc.next \in 1..NumWeights + 1
    /\ \A k \in DOMAIN proc.free : Rest(proc.free[k]) > 0
    /\ starts \in 0..MaxStarts

Loaded == proc.pc = "run"

Units(at, n) == at + 1..at + n
Holds(w) ==
    LET at == proc.place[w]
    IN  \A u \in Units(at[2], program[w].size) : disk[at[1]].data[u] = w

\* A program that runs has its own weights, however earlier starts ended
\* (CPUBackend.cpp:293-297, BufferAllocator.cpp:141-153).  One that trusts the
\* cache has them on two conditions that the code does not ensure: packing the
\* weights does not change where they are placed, and no start without the
\* cache has found the marker (it removes the files it maps, and not the marker).
OwnWeights ==
    Loaded /\ (Trusts(proc) => Stable(program) /\ ~relapsed) => \A w \in Weights : Holds(w)

\* While the marker exists, every weight is durable where the start that created
\* it has packed it (BufferAllocator.cpp:145-152), unless a start without the
\* cache has found the marker since: that one may remove or overwrite the files.
\* A start that trusts the cache looks in the same places if the program is
\* stable, which is not presupposed here.
MarkerVouches ==
    marker /\ ~relapsed => \A w \in Weights :
        LET at == Layout(program, TRUE)[w]
        IN  at[1] \in DOMAIN disk /\ \A u \in Units(at[2], program[w].size) : disk[at[1]].durable[u] = w

\* Two weights of a process never share memory, whether its files are new or
\* those of a start that was interrupted (BufferAllocator.cpp:104-125).
Apart ==
  /\ TypeOK
  /\ \A v, w \in DOMAIN proc.place :
    v # w /\ proc.place[v][1] = proc.place[w][1]
    => Units(proc.place[v][2], program[v].size) \cap Units(proc.place[w][2], program[w].size) = {}

\* A program that does not use the cache leaves no files when it ends, those
\* of interrupted starts included (BufferAllocator.cpp:93-101).
NothingLeft == proc.pc = "off" /\ cleanExit /\ ~everCached => disk = <<>>
=============================================================================
