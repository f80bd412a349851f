----------------------------- MODULE WeightCache -----------------------------
(***************************************************************************)
(* Weights in mapped files that later starts of a program take over         *)
(* (MmapAllocator, CPURuntime::onCreate, CPUBackend::onClearBuffer and the   *)
(* executions that hold weights; hint USE_CACHED_MMAP and path               *)
(* EXTERNAL_WEIGHT_DIR, set by Llm::setRuntimeHint).                         *)
(*                                                                          *)
(* A program loads its weights in a fixed order.  Each is allocated from the *)
(* static allocator, an eager allocator whose blocks are files numbered in   *)
(* the order of their creation, and then written.  The first resize syncs    *)
(* the files, creates the marker file, and replaces the static allocator by  *)
(* one in memory.  A start that finds the marker allocates in the same order *)
(* and does not write: it relies on finding each weight where it puts it.    *)
(*                                                                          *)
(* A process may be killed at any step, which leaves the files as they are,  *)
(* and power may fail at any step, which may lose what was not synced.       *)
(***************************************************************************)
EXTENDS Integers, Sequences, FiniteSets, SequencesExt

CONSTANTS NumWeights,   \* weights of the program
          Sizes,        \* their sizes
          Temps,        \* sizes of the temporary memory to pack one, 0: none
          FileSize,     \* hint MMAP_FILE_SIZE
          MaxStarts     \* starts of the program

ASSUME WeightCacheAssumption ==
    /\ NumWeights \in Nat \ {0} /\ FileSize \in Nat \ {0} /\ MaxStarts \in Nat
    /\ Sizes \subseteq Nat \ {0} /\ Temps \subseteq Nat

VARIABLES program,      \* what it loads: size and temporary memory of each weight
          disk,         \* the weight files: data, and what of it is durable
          marker,       \* does the file "sync.static" exist?
          proc,         \* the running process
          starts,       \* history: how many
          everCached,   \* history: a start has used the cache
          relapsed,     \* history: a start that did not has found the marker
          cleanExit     \* history: the last process was not interrupted

vars == <<program, disk, marker, proc, starts, everCached, relapsed, cleanExit>>

Weights == 1..NumWeights
Programs == [Weights -> [size : Sizes, temp : Temps]]

-----------------------------------------------------------------------------
(* The static allocator.  Weights are not freed, and temporary memory before *)
(* the next request: a block is a used part and a free rest.  "free" lists   *)
(* the blocks with a rest, in the order of insertion into the free list.     *)

Rest(b) == b.size - b.used

\* EagerBufferAllocator::getFromFreeList: the smallest rest that is large
\* enough, of equal ones the one inserted first.
Fitting(free, n) == {k \in DOMAIN free : Rest(free[k]) >= n}
BestFit(free, n) ==
    CHOOSE k \in Fitting(free, n) :
        \A l \in Fitting(free, n) \ {k} :
            \/ Rest(free[k]) < Rest(free[l])
            \/ Rest(free[k]) = Rest(free[l]) /\ k < l

\* The rest of a split, or of what is given back, is inserted anew.
Listed(free, b) == IF Rest(b) = 0 THEN free ELSE Append(free, b)

\* A new block has the size of a file, if that is enough.
BlockSize(n) == IF n > FileSize THEN n ELSE FileSize

\* The block that serves a request for n, what remains listed, and the files:
\* the sizes of those that were taken so far.
Fit(s, n) ==
    IF Fitting(s.free, n) # {}
    THEN [block |-> s.free[BestFit(s.free, n)],
          free  |-> RemoveAt(s.free, BestFit(s.free, n)),
          files |-> s.files]
    ELSE [block |-> [file |-> Len(s.files), size |-> BlockSize(n), used |-> 0],
          free  |-> s.free,
          files |-> Append(s.files, BlockSize(n))]

\* A weight stays, temporary memory is given back.
WithWeight(s, n) ==
    LET f == Fit(s, n)
    IN  [free |-> Listed(f.free, [f.block EXCEPT !.used = @ + n]), files |-> f.files,
         place |-> Append(s.place, <<f.block.file, f.block.used>>)]
AfterTemp(s, n) ==
    LET f == Fit(s, n)
    IN  [free |-> Append(f.free, f.block), files |-> f.files, place |-> s.place]

\* The allocator after each weight of a program that packs its weights, or of
\* one that does not, and where they all are in the end.
NoLayout == [free |-> <<>>, files |-> <<>>, place |-> <<>>]
Laid(p, pack, s, i) ==
    LET a == WithWeight(s, p[i].size)
    IN  IF pack /\ p[i].temp > 0 THEN AfterTemp(a, p[i].temp) ELSE a
Layouts(p, pack) ==
    LET after[i \in 0..NumWeights] == IF i = 0 THEN NoLayout ELSE Laid(p, pack, after[i - 1], i)
    IN  after
Layout(p, pack) == Layouts(p, pack)[NumWeights].place
Stable(p) == Layout(p, TRUE) = Layout(p, FALSE)

-----------------------------------------------------------------------------
(* Files.  Data is the weight that each unit of a file holds, 0 if none.     *)

Empty == [data |-> <<>>, durable |-> <<>>]
Zeros(n) == [u \in 1..n |-> 0]
Filled(f, at, n, w) == [f EXCEPT !.data = [u \in DOMAIN @ |-> IF u \in at + 1..at + n THEN w ELSE @[u]]]
Synced(f) == [f EXCEPT !.durable = f.data]
-----------------------------------------------------------------------------
(* The process.                                                             *)

Off == [pc |-> "off", cached |-> FALSE, hint |-> 0, newMmap |-> FALSE, times |-> 0,
        mapped |-> {}, free |-> <<>>, next |-> 1, want |-> "weight", place |-> <<>>]

Init == /\ program \in Programs
        /\ disk = <<>> /\ marker = FALSE
        /\ proc = Off
        /\ starts = 0 /\ everCached = FALSE /\ relapsed = FALSE /\ cleanExit = TRUE

\* trusting the cache because it is wanted
Trusts_Wanted(p) == p.hint > 0

\* hint().useCachedMmap > 1
Trusts(p) == p.hint > 1

Start(cached) ==
    /\ proc.pc = "off" /\ starts < MaxStarts
    /\ proc' = [Off EXCEPT !.pc = "load", !.cached = cached, !.hint = IF cached THEN 1 ELSE 0]
    /\ starts' = starts + 1
    /\ everCached' = (everCached \/ cached)
    /\ relapsed' = (relapsed \/ (~cached /\ marker))
    /\ UNCHANGED <<program, disk, marker, cleanExit>>

\* CPURuntime::onCreate, for the module of the next weight: the hint counts up
\* if the marker exists.
Create ==
    /\ proc.pc = "load" /\ proc.next <= NumWeights
    /\ proc' = [proc EXCEPT !.pc = "alloc", !.want = "weight",
                            !.hint = IF proc.cached /\ marker THEN @ + 1 ELSE @]
    /\ UNCHANGED <<program, disk, marker, starts, everCached, relapsed, cleanExit>>

Request == IF proc.want = "weight" THEN program[proc.next].size ELSE program[proc.next].temp

\* A block serves the request: a weight stays, temporary memory is used and
\* given back.
Serve(p, free, b) ==
    IF p.want = "weight"
    THEN [p EXCEPT !.free = Listed(free, [b EXCEPT !.used = @ + Request]),
                   !.place = Append(@, <<b.file, b.used>>), !.pc = "write"]
    ELSE [p EXCEPT !.free = Append(free, b), !.next = @ + 1, !.pc = "load"]

Reuse ==
    /\ proc.pc = "alloc" /\ Fitting(proc.free, Request) # {}
    /\ LET k == BestFit(proc.free, Request)
       IN  proc' = Serve(proc, RemoveAt(proc.free, k), proc.free[k])
    /\ UNCHANGED <<program, disk, marker, starts, everCached, relapsed, cleanExit>>

NewBlock == [file |-> proc.times, size |-> BlockSize(Request), used |-> 0]

\* an opened file is not counted
Mapped_Uncounted(p) == [p EXCEPT !.mapped = @ \cup {p.times}]
Mapped(p) == [p EXCEPT !.mapped = @ \cup {p.times}, !.times = @ + 1]

\* MmapAllocator::onAlloc, if the file exists: it is opened as it is, and
\* cannot be mapped if it is too small.
OpenFile ==
    /\ proc.pc = "alloc" /\ Fitting(proc.free, Request) = {}
    /\ proc.times \in DOMAIN disk
    /\ proc' = IF Len(disk[proc.times].data) < BlockSize(Request)
               THEN [Mapped(proc) EXCEPT !.pc = "failed"]
               ELSE Serve(Mapped(proc), proc.free, NewBlock)
    /\ UNCHANGED <<program, disk, marker, starts, everCached, relapsed, cleanExit>>

\* ... and if not: it is created empty, and then given its size.
CreateFile ==
    /\ proc.pc = "alloc" /\ Fitting(proc.free, Request) = {}
    /\ proc.times \notin DOMAIN disk
    /\ disk' = [k \in DOMAIN disk \cup {proc.times} |-> IF k = proc.times THEN Empty ELSE disk[k]]
    /\ proc' = [proc EXCEPT !.pc = "size"]
    /\ UNCHANGED <<program, marker, starts, everCached, relapsed, cleanExit>>

SetFileSize ==
    /\ proc.pc = "size"
    /\ disk' = [disk EXCEPT ![proc.times] = [data |-> Zeros(BlockSize(Request)),
                                             durable |-> Zeros(BlockSize(Request))]]
    /\ proc' = [Serve(Mapped(proc), proc.free, NewBlock) EXCEPT !.newMmap = TRUE]
    /\ UNCHANGED <<program, marker, starts, everCached, relapsed, cleanExit>>

\* The execution packs the weight into its memory, unless it trusts the cache;
\* some need temporary memory for it.
Write ==
    LET w == proc.next
        at == proc.place[w]
        pack == ~Trusts(proc)
        temp == pack /\ program[w].temp > 0
    IN  /\ proc.pc = "write"
        /\ disk' = IF pack THEN [disk EXCEPT ![at[1]] = Filled(@, at[2], program[w].size, w)] ELSE disk
        /\ proc' = IF temp THEN [proc EXCEPT !.pc = "alloc", !.want = "temp"]
                   ELSE [proc EXCEPT !.pc = "load", !.next = @ + 1]
        /\ UNCHANGED <<program, marker, starts, everCached, relapsed, cleanExit>>

\* the marker does not wait for the files
Flushed_Marker(d, mapped) == d
Flushed(d, mapped) == [k \in DOMAIN d |-> IF k \in mapped THEN Synced(d[k]) ELSE d[k]]

\* !mRemove && mNewMmap
NeedsSync(p) == p.cached /\ p.newMmap

\* The first resize: onClearBuffer syncs, the marker is created, and the
\* static allocator is replaced.
FirstResize ==
    /\ proc.pc = "load" /\ proc.next > NumWeights
    /\ disk' = IF NeedsSync(proc) THEN Flushed(disk, proc.mapped) ELSE disk
    /\ proc' = [proc EXCEPT !.pc = IF NeedsSync(proc) THEN "marker" ELSE "run"]
    /\ UNCHANGED <<program, marker, starts, everCached, relapsed, cleanExit>>

CreateMarker ==
    /\ proc.pc = "marker"
    /\ marker' = TRUE
    /\ proc' = [proc EXCEPT !.pc = "run"]
    /\ UNCHANGED <<program, disk, starts, everCached, relapsed, cleanExit>>

\* files are kept when the cache is not wanted
Left_Kept(p) == DOMAIN disk
\* ~MmapAllocator: mRemove
Left(p) == IF p.cached THEN DOMAIN disk ELSE DOMAIN disk \ p.mapped

Exit ==
    /\ proc.pc \in {"run", "failed"}
    /\ disk' = [k \in Left(proc) |-> disk[k]]
    /\ proc' = Off
    /\ cleanExit' = TRUE
    /\ UNCHANGED <<program, marker, starts, everCached, relapsed>>

Kill ==
    /\ proc.pc # "off"
    /\ proc' = Off
    /\ cleanExit' = FALSE
    /\ UNCHANGED <<program, disk, marker, starts, everCached, relapsed>>

\* Files that were not synced may have lost what was written since.
PowerFailure ==
    /\ proc' = Off
    /\ cleanExit' = (cleanExit /\ proc.pc = "off")
    /\ \E lost \in SUBSET DOMAIN disk :
          disk' = [k \in DOMAIN disk |->
                     LET d == IF k \in lost THEN disk[k].durable ELSE disk[k].data
                     IN  [data |-> d, durable |-> d]]
    /\ UNCHANGED <<program, marker, starts, everCached, relapsed>>

Next == \/ \E cached \in BOOLEAN : Start(cached)
        \/ Create \/ Reuse \/ OpenFile \/ CreateFile \/ SetFileSize \/ Write
        \/ FirstResize \/ CreateMarker \/ Exit \/ Kill \/ PowerFailure

Spec == Init /\ [][Next]_vars
=============================================================================
