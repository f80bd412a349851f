------------------------ MODULE SessionMemoryProofs ------------------------
(* Proofs about sessions that share a runtime's memory, for any sessions,   *)
(* any sizes of plans and any addresses.                                    *)
EXTENDS MCSessionMemory, FiniteSetTheorems, TLAPS

Sizes == {0} \cup Totals
Held == [current : Pointers, currentSize : Sizes]
Plans == [used : BOOLEAN, total : Sizes, mPtr : Pointers, host : Pointers]
Memories == [midPath : MidPaths, size : [Blocks -> Sizes], name : [Blocks -> 0 .. 2],
             linked : [Blocks -> BOOLEAN], allocTimes : 0 .. 3,
             buffer : [Buffers -> Held], plan : [Sessions -> [Buffers -> Plans]]]

Other(i) == 1 - i

\* The blocks that are allocated are those of the buffers, of which no two have
\* the same, and a buffer knows the size of its block.
Owned(m) == /\ \A b \in Blocks : m.size[b] > 0 <=> \E i \in Buffers : m.buffer[i].current = b
            /\ \A i \in Buffers : m.buffer[i].current # Null =>
                  /\ m.buffer[i].currentSize = m.size[m.buffer[i].current]
                  /\ m.buffer[Other(i)].current # m.buffer[i].current

\* Only a live block's file has a name, and files are numbered so that a buffer
\* without a block meets at most one file that is in its way.
Numbered(m) == /\ \A b \in Blocks : m.linked[b] => m.size[b] > 0
               /\ ~m.midPath => m.allocTimes = 0
               /\ m.allocTimes <= 2
               /\ \A i \in Buffers : m.buffer[i].current = Null /\ m.allocTimes # 0 =>
                     /\ m.allocTimes = 1 /\ m.buffer[Other(i)].current # Null
                     /\ m.name[m.buffer[Other(i)].current] = 0

\* Tensors that were set point to what they were set to.
TensorsSet(m) == \A s \in Sessions, i \in Buffers :
                    m.plan[s][i].mPtr # Null => m.plan[s][i].host = m.plan[s][i].mPtr

MemInv(m) == m \in Memories /\ Owned(m) /\ Numbered(m) /\ TensorsSet(m)

\* A plan that a run may apply is not empty.
Planned == \A s \in Sessions :
              /\ mem.plan[s][1].used => mem.plan[s][1].total > 0
              /\ ~needResize[s] /\ mem.plan[s][0].used => mem.plan[s][0].total > 0

\* Who has other shapes than its plan will be resized.
StaleNoticed == \A s \in Sessions : stale[s] => needResize[s]

Codes == {"NO_ERROR", "NOT_SUPPORT", "OUT_OF_MEMORY", "COMPUTE_SIZE_ERROR"}

ControlType == /\ needResize \in [Sessions -> BOOLEAN] /\ needMalloc \in [Sessions -> BOOLEAN]
               /\ fixed \in [Sessions -> BOOLEAN] /\ stale \in [Sessions -> BOOLEAN]
               /\ last \in [session : Sessions \cup {Null},
                            call : {"none", "resizeTensor", "resize", "run", "map", "fix", "gc"},
                            code : Codes]

\* The inductive invariant.
IInv == /\ ControlType /\ MemInv(mem) /\ Planned /\ StaleNoticed
        /\ RunsUnlessExhausted /\ PlanIsCurrent

-----------------------------------------------------------------------------
(* The allocators.                                                          *)

\* What the declaration of Memories says of each field.
LEMMA MemoryFields ==
  ASSUME NEW m \in Memories
  PROVE  /\ m.midPath \in MidPaths /\ m.midPath \in BOOLEAN
         /\ m.size \in [Blocks -> Sizes] /\ m.name \in [Blocks -> 0 .. 2]
         /\ m.linked \in [Blocks -> BOOLEAN] /\ m.allocTimes \in 0 .. 3
         /\ m.buffer \in [Buffers -> Held]
         /\ m.plan \in [Sessions -> [Buffers -> Plans]]
  BY MemoryAssumption DEF Memories

\* Null is not a block, and sizes are natural numbers.
LEMMA Units == /\ Null \notin Blocks /\ Sizes \subseteq Nat /\ Null \in Pointers
               /\ \A n \in Sizes : n > 0 <=> n # 0
               /\ \A i \in Buffers : Other(i) \in Buffers /\ Other(i) # i /\ Other(Other(i)) = i
               /\ \A i, j \in Buffers : j = i \/ j = Other(i)
  BY MemoryAssumption DEF Sizes, Pointers, Buffers, Other

\* Setting one field of a memory leaves the others alone.
LEMMA SetSize ==
  ASSUME NEW m \in Memories, NEW v \in [Blocks -> Sizes]
  PROVE  LET r == [m EXCEPT !.size = v] IN
         /\ r \in Memories /\ r.size = v
         /\ r.midPath = m.midPath /\ r.name = m.name /\ r.linked = m.linked /\ r.allocTimes = m.allocTimes /\ r.buffer = m.buffer /\ r.plan = m.plan
  BY DEF Memories

\* The effect of a release on each field (BufferAllocator.cpp:46-75).
LEMMA OnReleaseFields ==
  ASSUME NEW m \in Memories, NEW p \in Blocks
  PROVE  LET r == OnRelease(m, p) IN
         /\ r \in Memories
         /\ r.midPath = m.midPath /\ r.buffer = m.buffer /\ r.plan = m.plan
         /\ r.size = [m.size EXCEPT ![p] = 0] /\ r.name = [m.name EXCEPT ![p] = 0]
         /\ r.allocTimes = IF m.midPath THEN 0 ELSE m.allocTimes
         /\ \A b \in Blocks : r.linked[b] => m.linked[b] /\ b # p
<1> DEFINE n1 == [m EXCEPT !.size[p] = 0]
           n2 == [n1 EXCEPT !.name[p] = 0]
           n == [n2 EXCEPT !.linked[p] = FALSE]
           k == [n EXCEPT !.allocTimes = 0]
           linked == [b \in Blocks |-> n.linked[b] /\ m.name[b] # m.name[p]]
           r == [k EXCEPT !.linked = linked]
<1>1. n1 \in Memories /\ n1.size = [m.size EXCEPT ![p] = 0] /\ n1.midPath = m.midPath /\ n1.name = m.name /\ n1.linked = m.linked /\ n1.allocTimes = m.allocTimes /\ n1.buffer = m.buffer /\ n1.plan = m.plan
  BY DEF Memories, Sizes
<1>2. n2 \in Memories /\ n2.name = [n1.name EXCEPT ![p] = 0] /\ n2.midPath = n1.midPath /\ n2.size = n1.size /\ n2.linked = n1.linked /\ n2.allocTimes = n1.allocTimes /\ n2.buffer = n1.buffer /\ n2.plan = n1.plan
  <2> HIDE DEF n1
  <2> QED BY <1>1 DEF Memories
<1>3. n \in Memories /\ n.linked = [n2.linked EXCEPT ![p] = FALSE] /\ n.midPath = n2.midPath /\ n.size = n2.size /\ n.name = n2.name /\ n.allocTimes = n2.allocTimes /\ n.buffer = n2.buffer /\ n.plan = n2.plan
  <2> HIDE DEF n2
  <2> QED BY <1>2 DEF Memories
<1>4. OnRelease(m, p) = IF ~m.midPath THEN n ELSE r
  BY DEF OnRelease
<1>5. CASE ~m.midPath
  <2> HIDE DEF n1, n2, n
  <2> QED BY <1>1, <1>2, <1>3, <1>4, <1>5, MemoryFields
<1>6. CASE m.midPath
  <2>1. k \in Memories /\ k.allocTimes = 0 /\ k.midPath = n.midPath /\ k.size = n.size /\ k.name = n.name /\ k.linked = n.linked /\ k.buffer = n.buffer /\ k.plan = n.plan
    <3> HIDE DEF n
    <3> QED BY <1>3 DEF Memories
  <2>2. linked \in [Blocks -> BOOLEAN] /\ \A b \in Blocks : linked[b] => m.linked[b] /\ b # p
    <3> HIDE DEF n1, n2, n
    <3> QED BY <1>1, <1>2, <1>3, MemoryFields DEF linked
  <2>3. r \in Memories /\ r.linked = linked /\ r.midPath = k.midPath /\ r.size = k.size /\ r.name = k.name /\ r.allocTimes = k.allocTimes /\ r.buffer = k.buffer /\ r.plan = k.plan
    <3> HIDE DEF k, linked
    <3> QED BY <2>1, <2>2 DEF Memories
  <2>4. OnRelease(m, p) = r
    BY <1>4, <1>6
  <2> HIDE DEF n1, n2, n, k, linked, r
  <2>5. r.size = [m.size EXCEPT ![p] = 0] /\ r.name = [m.name EXCEPT ![p] = 0]
    BY <1>1, <1>2, <1>3, <2>1, <2>3
  <2>6. r.midPath = m.midPath /\ r.buffer = m.buffer /\ r.plan = m.plan /\ r.allocTimes = 0
    BY <1>1, <1>2, <1>3, <2>1, <2>3
  <2>7. \A b \in Blocks : r.linked[b] => m.linked[b] /\ b # p
    BY <2>2, <2>3
  <2> QED BY <1>6, <2>3, <2>4, <2>5, <2>6, <2>7
<1> QED BY <1>5, <1>6

\* What an allocation that failed and one that succeeded do to the fields.
Refused(f, r) ==
    /\ r.block = Null
    /\ r.mem.size = f.size /\ r.mem.name = f.name /\ r.mem.linked = f.linked
    /\ \/ r.mem.allocTimes = f.allocTimes
       \/ /\ f.midPath /\ r.mem.allocTimes = f.allocTimes + 1
          /\ \E b \in Blocks : f.linked[b] /\ f.name[b] = f.allocTimes
Granted(f, r, total) ==
    /\ r.block \in Blocks /\ f.size[r.block] = 0
    /\ r.mem.size = [f.size EXCEPT ![r.block] = total]
    /\ \A b \in Blocks \ {r.block} : r.mem.name[b] = f.name[b] /\ (r.mem.linked[b] => f.linked[b])
    /\ \/ r.mem.allocTimes = f.allocTimes
       \/ /\ f.midPath /\ r.mem.allocTimes = f.allocTimes + 1
          /\ r.mem.name[r.block] = f.allocTimes

\* The effect of an allocation on each field: nothing but the numbering, or a
\* block that was free (BufferAllocator.cpp:14-44, 77-121).
LEMMA OnAllocsFields ==
  ASSUME NEW f \in Memories, f.allocTimes <= 1, NEW total \in Totals,
         NEW r \in OnAllocs(f, total)
  PROVE  /\ r.mem \in Memories
         /\ r.mem.midPath = f.midPath /\ r.mem.buffer = f.buffer /\ r.mem.plan = f.plan
         /\ Refused(f, r) \/ Granted(f, r, total)
<1> DEFINE n0(b) == [f EXCEPT !.size[b] = total]
           n1(b) == [n0(b) EXCEPT !.name[b] = f.allocTimes]
           n2(b) == [n1(b) EXCEPT !.linked[b] = TRUE]
           n3(b) == [n2(b) EXCEPT !.allocTimes = n2(b).allocTimes + 1]
           skipped == [f EXCEPT !.allocTimes = f.allocTimes + 1]
<1> USE MemoryAssumption
<1>0. total \in Sizes /\ f.allocTimes \in 0 .. 1 /\ f.allocTimes \in 0 .. 2 /\ f.allocTimes + 1 \in 0 .. 3
  BY MemoryFields DEF Sizes
<1>1. ASSUME NEW b \in Blocks
      PROVE  n0(b) \in Memories /\ n0(b).size = [f.size EXCEPT ![b] = total]
             /\ n0(b).midPath = f.midPath /\ n0(b).name = f.name /\ n0(b).linked = f.linked /\ n0(b).allocTimes = f.allocTimes /\ n0(b).buffer = f.buffer /\ n0(b).plan = f.plan
  BY <1>0 DEF Memories
<1>2. ASSUME NEW b \in Blocks
      PROVE  n1(b) \in Memories /\ n1(b).name = [f.name EXCEPT ![b] = f.allocTimes]
             /\ n1(b).size = [f.size EXCEPT ![b] = total]
             /\ n1(b).midPath = f.midPath /\ n1(b).linked = f.linked /\ n1(b).allocTimes = f.allocTimes /\ n1(b).buffer = f.buffer /\ n1(b).plan = f.plan
  <2> HIDE DEF n0
  <2> QED BY <1>0, <1>1 DEF Memories
<1>3. ASSUME NEW b \in Blocks
      PROVE  n2(b) \in Memories /\ n2(b).linked = [f.linked EXCEPT ![b] = TRUE]
             /\ n2(b).name = [f.name EXCEPT ![b] = f.allocTimes]
             /\ n2(b).size = [f.size EXCEPT ![b] = total]
             /\ n2(b).midPath = f.midPath /\ n2(b).allocTimes = f.allocTimes /\ n2(b).buffer = f.buffer /\ n2(b).plan = f.plan
  <2> HIDE DEF n1
  <2> QED BY <1>2 DEF Memories
<1>4. ASSUME NEW b \in Blocks
      PROVE  n3(b) \in Memories /\ n3(b).linked = [f.linked EXCEPT ![b] = TRUE]
             /\ n3(b).name = [f.name EXCEPT ![b] = f.allocTimes]
             /\ n3(b).size = [f.size EXCEPT ![b] = total]
             /\ n3(b).allocTimes = f.allocTimes + 1
             /\ n3(b).midPath = f.midPath /\ n3(b).buffer = f.buffer /\ n3(b).plan = f.plan
  <2> HIDE DEF n2
  <2> QED BY <1>0, <1>3 DEF Memories
<1>5. skipped \in Memories /\ skipped.allocTimes = f.allocTimes + 1
      /\ skipped.midPath = f.midPath /\ skipped.size = f.size /\ skipped.name = f.name /\ skipped.linked = f.linked /\ skipped.buffer = f.buffer /\ skipped.plan = f.plan
  BY <1>0 DEF Memories
<1>6. \/ /\ f.midPath /\ r = [mem |-> skipped, block |-> Null]
         /\ \E b \in Blocks : f.linked[b] /\ f.name[b] = f.allocTimes
      \/ f.midPath /\ \E b \in Blocks : f.size[b] = 0 /\ r = [mem |-> n3(b), block |-> b]
      \/ ~f.midPath /\ \E b \in Blocks : f.size[b] = 0 /\ r = [mem |-> n0(b), block |-> b]
      \/ ~f.midPath /\ r = [mem |-> f, block |-> Null]
  <2> DEFINE free == {b \in Blocks : f.size[b] = 0}
             tooSmall == \E b \in Existing(f) : f.size[b] < total
             mapped(b) == [f EXCEPT !.size[b] = total, !.name[b] = f.allocTimes,
                                    !.linked[b] = TRUE, !.allocTimes = @ + 1]
  <2>0. ASSUME NEW b \in Blocks PROVE mapped(b) = n3(b)
    OBVIOUS
  <2>1. OnAllocs(f, total) =
          IF f.midPath
          THEN IF tooSmall THEN {[mem |-> skipped, block |-> Null]}
               ELSE {[mem |-> mapped(b), block |-> b] : b \in free}
          ELSE {[mem |-> n0(b), block |-> b] : b \in free}
               \cup IF AllocFails THEN {[mem |-> f, block |-> Null]} ELSE {}
    BY Zenon DEF OnAllocs
  <2>2. tooSmall => \E b \in Blocks : f.linked[b] /\ f.name[b] = f.allocTimes
    BY DEF Existing
  <2> HIDE DEF n0, n3, skipped, tooSmall, mapped
  <2> QED BY <2>0, <2>1, <2>2
<1> HIDE DEF n0, n1, n2, n3, skipped
<1>7. CASE /\ f.midPath /\ r = [mem |-> skipped, block |-> Null]
           /\ \E b \in Blocks : f.linked[b] /\ f.name[b] = f.allocTimes
  BY <1>5, <1>7 DEF Refused
<1>8. ASSUME NEW b \in Blocks, f.midPath, f.size[b] = 0, r = [mem |-> n3(b), block |-> b]
      PROVE  r.mem \in Memories /\ Granted(f, r, total)
             /\ r.mem.midPath = f.midPath /\ r.mem.buffer = f.buffer /\ r.mem.plan = f.plan
  <2>1. /\ r.block = b /\ r.mem \in Memories /\ r.mem.linked = [f.linked EXCEPT ![b] = TRUE]
        /\ r.mem.name = [f.name EXCEPT ![b] = f.allocTimes]
        /\ r.mem.size = [f.size EXCEPT ![b] = total]
        /\ r.mem.allocTimes = f.allocTimes + 1
        /\ r.mem.midPath = f.midPath /\ r.mem.buffer = f.buffer /\ r.mem.plan = f.plan
    BY <1>4, <1>8
  <2> QED BY <2>1, <1>8, MemoryFields DEF Granted
<1>9. ASSUME NEW b \in Blocks, f.size[b] = 0, r = [mem |-> n0(b), block |-> b]
      PROVE  r.mem \in Memories /\ Granted(f, r, total)
             /\ r.mem.midPath = f.midPath /\ r.mem.buffer = f.buffer /\ r.mem.plan = f.plan
  BY <1>1, <1>9 DEF Granted
<1>10. CASE r = [mem |-> f, block |-> Null]
  BY <1>10 DEF Refused
<1> QED BY <1>6, <1>7, <1>8, <1>9, <1>10

-----------------------------------------------------------------------------
(* SingleBufferWithAllocator.                                               *)

\* What is true of memory f after the block of buffer i of memory m was given
\* back, and before anything is put in its place.
FreedFor(f, m, i) ==
    LET rest == m.buffer[Other(i)].current IN
    /\ f \in Memories /\ f.buffer = m.buffer /\ f.plan = m.plan /\ f.midPath = m.midPath
    /\ \A b \in Blocks : f.size[b] > 0 <=> b = rest
    /\ rest # Null => m.buffer[Other(i)].currentSize = f.size[rest]
    /\ \A b \in Blocks : f.linked[b] => f.size[b] > 0
    /\ ~f.midPath => f.allocTimes = 0
    /\ f.allocTimes # 0 => f.allocTimes = 1 /\ rest # Null /\ f.name[rest] = 0

\* Giving a block back leaves the other buffer's block.
LEMMA FreedState ==
  ASSUME NEW m, MemInv(m), NEW i \in Buffers
  PROVE  FreedFor(Freed(m, i), m, i)
<1> DEFINE p == m.buffer[i].current
           rest == m.buffer[Other(i)].current
           f == Freed(m, i)
<1> SUFFICES FreedFor(f, m, i)
  OBVIOUS
<1> USE DEF MemInv
<1>1. /\ m \in Memories /\ p \in Pointers /\ rest \in Pointers /\ Other(i) \in Buffers
      /\ \A b \in Blocks : m.size[b] > 0 <=> b = p \/ b = rest
    BY MemoryFields, Units DEF Held, Owned
<1>2. rest # Null => /\ m.buffer[Other(i)].currentSize = m.size[rest]
                     /\ rest # p /\ rest \in Blocks
  BY <1>1, Units DEF Owned, Pointers
<1>3. CASE p = Null
  <2>1. f = m
    BY <1>3 DEF Freed
  <2>2. \A b \in Blocks : m.size[b] > 0 <=> b = rest
    BY <1>1, <1>3, Units
  <2>3. m.allocTimes # 0 => m.allocTimes = 1 /\ rest # Null /\ m.name[rest] = 0
    BY <1>3 DEF Numbered
  <2> HIDE DEF f
  <2> QED BY <1>1, <1>2, <2>1, <2>2, <2>3 DEF FreedFor, Numbered
<1>4. CASE p # Null
  <2>1. p \in Blocks /\ f = OnRelease(m, p)
    BY <1>1, <1>4 DEF Freed, Pointers
  <2>2. /\ f \in Memories /\ f.midPath = m.midPath /\ f.buffer = m.buffer /\ f.plan = m.plan
        /\ f.size = [m.size EXCEPT ![p] = 0]
        /\ f.allocTimes = IF m.midPath THEN 0 ELSE m.allocTimes
        /\ \A b \in Blocks : f.linked[b] => m.linked[b] /\ b # p
    <3> HIDE DEF f, p, MemInv
    <3> QED BY <1>1, <2>1, OnReleaseFields
  <2> HIDE DEF f
  <2>3. \A b \in Blocks : f.size[b] = IF b = p THEN 0 ELSE m.size[b]
    BY <1>1, <2>2, MemoryFields
  <2>4. \A b \in Blocks : f.size[b] > 0 <=> b = rest
    BY <1>1, <1>2, <2>1, <2>3, Units
  <2>5. rest # Null => m.buffer[Other(i)].currentSize = f.size[rest]
    BY <1>2, <2>3
  <2>6. \A b \in Blocks : f.linked[b] => f.size[b] > 0
    BY <2>2, <2>3 DEF Numbered
  <2>7. f.allocTimes = 0
    BY <2>2 DEF Numbered
  <2> QED BY <2>2, <2>4, <2>5, <2>6, <2>7 DEF FreedFor
<1> QED BY <1>3, <1>4

\* Setting a buffer's block and size leaves the rest of the memory alone.
LEMMA SetBuffer ==
  ASSUME NEW m \in Memories, NEW i \in Buffers, NEW h \in Held
  PROVE  LET n == [m EXCEPT !.buffer[i] = h] IN
         /\ n \in Memories /\ n.buffer[i] = h /\ n.buffer[Other(i)] = m.buffer[Other(i)]
         /\ n.midPath = m.midPath /\ n.size = m.size /\ n.name = m.name /\ n.linked = m.linked /\ n.allocTimes = m.allocTimes /\ n.plan = m.plan
<1> DEFINE n == [m EXCEPT !.buffer[i] = h]
<1>1. n \in Memories /\ n.buffer = [m.buffer EXCEPT ![i] = h]
      /\ n.midPath = m.midPath /\ n.size = m.size /\ n.name = m.name /\ n.linked = m.linked /\ n.allocTimes = m.allocTimes /\ n.plan = m.plan
  BY DEF Memories
<1> HIDE DEF n
<1>2. n.buffer[i] = h /\ n.buffer[Other(i)] = m.buffer[Other(i)]
  BY <1>1, Units, MemoryFields
<1> QED BY <1>1, <1>2 DEF n

\* release keeps the invariant, the plans and the other buffer.
LEMMA ReleaseState ==
  ASSUME NEW m, MemInv(m), NEW i \in Buffers
  PROVE  MemInv(ReleaseBuffer(m, i)) /\ ReleaseBuffer(m, i).plan = m.plan
<1> DEFINE f == Freed(m, i)
           h == [current |-> Null, currentSize |-> 0]
           n == [f EXCEPT !.buffer[i] = h]
<1>1. CASE m.buffer[i].current = Null
  BY <1>1 DEF ReleaseBuffer
<1>2. CASE m.buffer[i].current # Null
  <2>1. FreedFor(f, m, i)
    BY FreedState
  <2>2. h \in Held /\ h.current = Null
    BY DEF Held, Pointers, Sizes
  <2>3. ReleaseBuffer(m, i) = n
    BY <1>2 DEF ReleaseBuffer
  <2> HIDE DEF f, h
  <2>4. /\ n \in Memories /\ n.buffer[i] = h /\ n.buffer[Other(i)] = f.buffer[Other(i)]
        /\ n.midPath = f.midPath /\ n.size = f.size /\ n.name = f.name /\ n.linked = f.linked /\ n.allocTimes = f.allocTimes /\ n.plan = f.plan
    BY <2>1, <2>2, SetBuffer DEF FreedFor
  <2> HIDE DEF n
  <2>5. Owned(n)
    BY <2>1, <2>2, <2>4, Units DEF FreedFor, Owned
  <2>6. Numbered(n)
    BY <2>1, <2>2, <2>4, Units DEF FreedFor, Numbered
  <2>7. TensorsSet(n) /\ n.plan = m.plan
    BY <2>1, <2>4 DEF FreedFor, MemInv, TensorsSet
  <2> QED BY <2>3, <2>4, <2>5, <2>6, <2>7 DEF MemInv
<1> QED BY <1>1, <1>2

\* realloc keeps the invariant, the plans and the other buffer, and a block it
\* gets has the size asked for (BufferAllocator.cpp:441-448).
LEMMA ReallocState ==
  ASSUME NEW m, MemInv(m), NEW i \in Buffers, NEW total \in Totals, NEW n \in Reallocs(m, i, total)
  PROVE  /\ MemInv(n) /\ n.plan = m.plan /\ n.buffer[Other(i)] = m.buffer[Other(i)]
         /\ n.buffer[i].current # Null => n.buffer[i].currentSize = total
<1> DEFINE f == Freed(m, i)
           rest == m.buffer[Other(i)].current
           hold(r) == [current |-> r.block,
                       currentSize |-> IF r.block = Null THEN r.mem.buffer[i].currentSize ELSE total]
<1>1. FreedFor(f, m, i)
  BY FreedState
<1>2. PICK r \in OnAllocs(f, total) : n = [r.mem EXCEPT !.buffer[i] = hold(r)]
  BY DEF Reallocs
<1> HIDE DEF f
<1>3. /\ m \in Memories /\ f \in Memories /\ f.allocTimes \in 0 .. 1 /\ total \in Sizes /\ total > 0
      /\ rest \in Pointers
  BY <1>1, MemoryAssumption, MemoryFields, Units DEF FreedFor, Sizes, MemInv, Held
<1>4. /\ r.mem \in Memories
      /\ r.mem.midPath = f.midPath /\ r.mem.buffer = f.buffer /\ r.mem.plan = f.plan
      /\ Refused(f, r) \/ Granted(f, r, total)
  BY <1>3, OnAllocsFields
<1>5. hold(r) \in Held /\ hold(r).current = r.block
      /\ (r.block # Null => hold(r).currentSize = total)
  BY <1>3, <1>4, MemoryFields DEF Held, Pointers, Refused, Granted
<1> HIDE DEF hold
<1>6. /\ n \in Memories /\ n.buffer[i] = hold(r) /\ n.buffer[Other(i)] = m.buffer[Other(i)]
      /\ n.midPath = r.mem.midPath /\ n.size = r.mem.size /\ n.name = r.mem.name /\ n.linked = r.mem.linked /\ n.allocTimes = r.mem.allocTimes /\ n.plan = r.mem.plan
  BY <1>1, <1>2, <1>4, <1>5, SetBuffer DEF FreedFor
<1>7. TensorsSet(n) /\ n.plan = m.plan
  BY <1>1, <1>4, <1>6 DEF FreedFor, MemInv, TensorsSet
<1>8. n.buffer[Other(i)].current = rest /\ n.buffer[i].current = r.block /\ n.midPath = f.midPath
      /\ n.buffer[Other(i)].currentSize = m.buffer[Other(i)].currentSize
  BY <1>4, <1>5, <1>6
<1>9. CASE Refused(f, r)
  <2>1. /\ r.block = Null /\ n.size = f.size /\ n.name = f.name /\ n.linked = f.linked
        /\ \/ n.allocTimes = f.allocTimes
           \/ /\ f.midPath /\ n.allocTimes = f.allocTimes + 1
              /\ \E b \in Blocks : f.linked[b] /\ f.name[b] = f.allocTimes
    BY <1>6, <1>9 DEF Refused
  <2>2. Owned(n)
    BY <1>1, <1>8, <2>1, Units DEF FreedFor, Owned
  <2>3. n.allocTimes # 0 => n.allocTimes = 1 /\ rest # Null /\ f.name[rest] = 0
    <3>1. CASE n.allocTimes = f.allocTimes
      BY <1>1, <3>1 DEF FreedFor
    <3>2. CASE n.allocTimes = f.allocTimes + 1 /\ \E b \in Blocks : f.linked[b] /\ f.name[b] = f.allocTimes
      <4>1. PICK b \in Blocks : f.linked[b] /\ f.name[b] = f.allocTimes
        BY <3>2
      <4>2. b = rest /\ rest # Null
        BY <4>1, <1>1, Units DEF FreedFor
      <4>3. f.allocTimes = 0
        BY <4>1, <4>2, <1>1 DEF FreedFor
      <4> QED BY <3>2, <4>1, <4>2, <4>3
    <3> QED BY <2>1, <3>1, <3>2
  <2>4. Numbered(n)
    <3>1. \A b \in Blocks : n.linked[b] => n.size[b] > 0
      BY <1>1, <2>1 DEF FreedFor
    <3>2. ~n.midPath => n.allocTimes = 0
      BY <1>1, <1>8, <2>1 DEF FreedFor
    <3>3. n.allocTimes <= 2
      BY <2>3
    <3>4. \A j \in Buffers : n.buffer[j].current = Null /\ n.allocTimes # 0 =>
             j = i
      BY <1>8, <2>3, Units
    <3> QED BY <3>1, <3>2, <3>3, <3>4, <1>8, <2>1, <2>3 DEF Numbered
  <2> QED BY <1>6, <1>7, <1>8, <2>1, <2>2, <2>4 DEF MemInv
<1>10. CASE Granted(f, r, total)
  <2>1. /\ r.block \in Blocks /\ f.size[r.block] = 0
        /\ n.size = [f.size EXCEPT ![r.block] = total]
        /\ \A b \in Blocks \ {r.block} : n.name[b] = f.name[b] /\ (n.linked[b] => f.linked[b])
        /\ \/ n.allocTimes = f.allocTimes
           \/ f.midPath /\ n.allocTimes = f.allocTimes + 1 /\ n.name[r.block] = f.allocTimes
    BY <1>6, <1>10 DEF Granted
  <2>2. \A b \in Blocks : n.size[b] = IF b = r.block THEN total ELSE f.size[b]
    BY <1>3, <2>1, MemoryFields
  <2>3. r.block # rest /\ r.block # Null /\ n.buffer[i].currentSize = total
    BY <1>1, <1>5, <1>6, <2>1, Units DEF FreedFor
  <2>4. Owned(n)
    <3>1. \A b \in Blocks : n.size[b] > 0 <=> b = r.block \/ b = rest
      BY <1>1, <1>3, <2>2, <2>3 DEF FreedFor
    <3>2. n.buffer[i].currentSize = n.size[r.block]
      BY <2>1, <2>2, <2>3
    <3>3. rest # Null => n.buffer[Other(i)].currentSize = n.size[rest]
      BY <1>1, <1>3, <1>8, <2>2, <2>3 DEF FreedFor, Pointers
    <3>4. \A b \in Blocks : n.size[b] > 0 <=> \E j \in Buffers : n.buffer[j].current = b
      BY <3>1, <1>8, Units
    <3>5. \A j \in Buffers : n.buffer[j].current # Null =>
                  /\ n.buffer[j].currentSize = n.size[n.buffer[j].current]
                  /\ n.buffer[Other(j)].current # n.buffer[j].current
      <4> TAKE j \in Buffers
      <4>1. CASE j = i
        BY <4>1, <1>8, <2>3, <3>2
      <4>2. CASE j = Other(i)
        BY <4>2, <1>8, <2>3, <3>3, Units
      <4> QED BY <4>1, <4>2, Units
    <3> QED BY <3>4, <3>5 DEF Owned
  <2>5. Numbered(n)
    <3>1. \A b \in Blocks : n.linked[b] => n.size[b] > 0
      BY <1>1, <1>3, <2>1, <2>2 DEF FreedFor
    <3>2. ~n.midPath => n.allocTimes = 0
      BY <1>1, <1>8, <2>1 DEF FreedFor
    <3>3. n.allocTimes <= 2
      BY <1>3, <2>1
    <3>4. \A j \in Buffers : n.buffer[j].current = Null /\ n.allocTimes # 0 =>
             j = Other(i) /\ n.allocTimes = 1
      BY <1>1, <1>3, <1>8, <2>1, <2>3, Units DEF FreedFor
    <3>5. n.buffer[Other(i)].current = Null /\ n.allocTimes = 1 => n.name[r.block] = 0
      BY <1>1, <1>3, <1>8, <2>1 DEF FreedFor
    <3> QED BY <3>1, <3>2, <3>3, <3>4, <3>5, <1>8, <2>3, Units DEF Numbered
  <2> QED BY <1>6, <1>7, <1>8, <2>3, <2>4, <2>5 DEF MemInv
<1> QED BY <1>4, <1>9, <1>10

-----------------------------------------------------------------------------
(* Plans.                                                                   *)

\* m and n differ in no plan but that of session s in buffer i.
OtherPlans(m, n, s, i) ==
    \A t \in Sessions, j \in Buffers : t # s \/ j # i => n.plan[t][j] = m.plan[t][j]

\* Plans decide nothing about blocks.
SameBlocks(m, n) ==
    n.midPath = m.midPath /\ n.size = m.size /\ n.name = m.name /\ n.linked = m.linked /\ n.allocTimes = m.allocTimes /\ n.buffer = m.buffer

\* Blocks and files do not depend on plans.
LEMMA BlocksOnly ==
  ASSUME NEW m, NEW n, MemInv(m), SameBlocks(m, n), n \in Memories, TensorsSet(n)
  PROVE  MemInv(n)
  BY DEF MemInv, SameBlocks, Owned, Numbered

\* Changing one plan.
LEMMA SetPlan ==
  ASSUME NEW m \in Memories, NEW s \in Sessions, NEW i \in Buffers, NEW p \in Plans
  PROVE  LET n == [m EXCEPT !.plan[s][i] = p] IN
         n \in Memories /\ SameBlocks(m, n) /\ OtherPlans(m, n, s, i) /\ n.plan[s][i] = p
<1> DEFINE n == [m EXCEPT !.plan[s][i] = p]
           v == [m.plan[s] EXCEPT ![i] = p]
           w == [m.plan EXCEPT ![s] = v]
<1>1. v \in [Buffers -> Plans] /\ v[i] = p /\ \A j \in Buffers : j # i => v[j] = m.plan[s][j]
  BY MemoryFields
<1>2. w \in [Sessions -> [Buffers -> Plans]] /\ w[s] = v /\ \A t \in Sessions : t # s => w[t] = m.plan[t]
  <2> HIDE DEF v
  <2> QED BY <1>1, MemoryFields
<1>3. n = [m EXCEPT !.plan = w]
  OBVIOUS
<1> HIDE DEF v, w, n
<1>4. n \in Memories /\ n.plan = w /\ n.midPath = m.midPath /\ n.size = m.size /\ n.name = m.name /\ n.linked = m.linked /\ n.allocTimes = m.allocTimes /\ n.buffer = m.buffer
  BY <1>2, <1>3 DEF Memories
<1>5. OtherPlans(m, n, s, i)
  BY <1>1, <1>2, <1>4 DEF OtherPlans
<1> QED BY <1>1, <1>2, <1>4, <1>5 DEF n, SameBlocks

\* The tensors are set to the buffer's block: the plan keeps its size.
LEMMA SetTensorsState ==
  ASSUME NEW m, MemInv(m), NEW s \in Sessions, NEW i \in Buffers
  PROVE  LET n == SetTensors(m, s, i) IN
         /\ MemInv(n) /\ SameBlocks(m, n) /\ OtherPlans(m, n, s, i)
         /\ n.plan[s][i].used = m.plan[s][i].used /\ n.plan[s][i].total = m.plan[s][i].total
         /\ n.plan[s][i].host = m.buffer[i].current
<1> DEFINE n == SetTensors(m, s, i)
           c == m.buffer[i].current
           p1 == [m.plan[s][i] EXCEPT !.mPtr = c]
           n1 == [m EXCEPT !.plan[s][i] = p1]
           p2 == [n1.plan[s][i] EXCEPT !.host = c]
<1>1. m \in Memories /\ c \in Pointers /\ m.plan[s][i] \in Plans
  BY MemoryFields DEF MemInv, Held
<1>2. n = [n1 EXCEPT !.plan[s][i] = p2]
  BY DEF SetTensors
<1>3. /\ p1 \in Plans /\ p1.mPtr = c /\ p1.used = m.plan[s][i].used /\ p1.total = m.plan[s][i].total
  BY <1>1 DEF Plans
<1> HIDE DEF p1, n, c
<1>4. n1 \in Memories /\ SameBlocks(m, n1) /\ OtherPlans(m, n1, s, i) /\ n1.plan[s][i] = p1
  BY <1>1, <1>3, SetPlan
<1> HIDE DEF n1
<1>5. p2 \in Plans /\ p2.host = c /\ p2.mPtr = c /\ p2.used = p1.used /\ p2.total = p1.total
  BY <1>1, <1>3, <1>4 DEF Plans
<1> HIDE DEF p2
<1>6. n \in Memories /\ SameBlocks(n1, n) /\ OtherPlans(n1, n, s, i) /\ n.plan[s][i] = p2
  BY <1>2, <1>4, <1>5, SetPlan
<1>7. SameBlocks(m, n) /\ OtherPlans(m, n, s, i)
  BY <1>4, <1>6 DEF SameBlocks, OtherPlans
<1>8. TensorsSet(n)
  BY <1>5, <1>6, <1>7 DEF TensorsSet, OtherPlans, MemInv
<1>9. MemInv(n)
  BY <1>6, <1>7, <1>8, BlocksOnly
<1> QED BY <1>3, <1>5, <1>6, <1>7, <1>9 DEF n, c


\* Whether a plan asks for anything.
LEMMA SetUsed ==
  ASSUME NEW m, MemInv(m), NEW s \in Sessions, NEW i \in Buffers, NEW v \in BOOLEAN
  PROVE  LET n == [m EXCEPT !.plan[s][i].used = v] IN
         /\ MemInv(n) /\ SameBlocks(m, n) /\ OtherPlans(m, n, s, i)
         /\ n.plan[s][i].used = v /\ n.plan[s][i].total = m.plan[s][i].total
<1> DEFINE p == [m.plan[s][i] EXCEPT !.used = v]
           n == [m EXCEPT !.plan[s][i] = p]
<1>1. m \in Memories /\ m.plan[s][i] \in Plans
  BY MemoryFields DEF MemInv
<1>2. p \in Plans /\ p.used = v /\ p.total = m.plan[s][i].total
      /\ p.mPtr = m.plan[s][i].mPtr /\ p.host = m.plan[s][i].host
  BY <1>1 DEF Plans
<1> HIDE DEF p
<1>3. n \in Memories /\ SameBlocks(m, n) /\ OtherPlans(m, n, s, i) /\ n.plan[s][i] = p
  BY <1>1, <1>2, SetPlan
<1> HIDE DEF n
<1>4. TensorsSet(n)
  BY <1>2, <1>3 DEF TensorsSet, OtherPlans, MemInv
<1>5. MemInv(n)
  BY <1>3, <1>4, BlocksOnly
<1> QED BY <1>2, <1>3, <1>5 DEF n, p

\* How much a plan asks for.
LEMMA SetTotal ==
  ASSUME NEW m, MemInv(m), NEW s \in Sessions, NEW i \in Buffers, NEW v \in Sizes
  PROVE  LET n == [m EXCEPT !.plan[s][i].total = v] IN
         /\ MemInv(n) /\ SameBlocks(m, n) /\ OtherPlans(m, n, s, i)
         /\ n.plan[s][i].total = v /\ n.plan[s][i].used = m.plan[s][i].used
<1> DEFINE p == [m.plan[s][i] EXCEPT !.total = v]
           n == [m EXCEPT !.plan[s][i] = p]
<1>1. m \in Memories /\ m.plan[s][i] \in Plans
  BY MemoryFields DEF MemInv
<1>2. p \in Plans /\ p.total = v /\ p.used = m.plan[s][i].used
      /\ p.mPtr = m.plan[s][i].mPtr /\ p.host = m.plan[s][i].host
  BY <1>1 DEF Plans
<1> HIDE DEF p
<1>3. n \in Memories /\ SameBlocks(m, n) /\ OtherPlans(m, n, s, i) /\ n.plan[s][i] = p
  BY <1>1, <1>2, SetPlan
<1> HIDE DEF n
<1>4. TensorsSet(n)
  BY <1>2, <1>3 DEF TensorsSet, OtherPlans, MemInv
<1>5. MemInv(n)
  BY <1>3, <1>4, BlocksOnly
<1> QED BY <1>2, <1>3, <1>5 DEF n, p

\* A plan that is dropped asks for nothing.
LEMMA DropPlanState ==
  ASSUME NEW m, MemInv(m), NEW s \in Sessions, NEW i \in Buffers
  PROVE  LET n == DropPlan(m, s, i) IN
         /\ MemInv(n) /\ SameBlocks(m, n) /\ OtherPlans(m, n, s, i)
         /\ n.plan[s][i].used = FALSE /\ n.plan[s][i].total = 0
<1> DEFINE p == NoPlan(m.plan[s][i].host)
           n == [m EXCEPT !.plan[s][i] = p]
<1>1. m \in Memories /\ m.plan[s][i] \in Plans
  BY MemoryFields DEF MemInv
<1>2. p \in Plans /\ p.mPtr = Null /\ p.used = FALSE /\ p.total = 0
  BY <1>1 DEF Plans, NoPlan, Sizes, Pointers
<1>3. DropPlan(m, s, i) = n
  BY DEF DropPlan
<1> HIDE DEF p
<1>4. n \in Memories /\ SameBlocks(m, n) /\ OtherPlans(m, n, s, i) /\ n.plan[s][i] = p
  BY <1>1, <1>2, SetPlan
<1> HIDE DEF n
<1>5. TensorsSet(n)
  BY <1>2, <1>4 DEF TensorsSet, OtherPlans, MemInv
<1>6. MemInv(n)
  BY <1>4, <1>5, BlocksOnly
<1> QED BY <1>2, <1>3, <1>4, <1>6

-----------------------------------------------------------------------------
(* Applying a plan.                                                         *)

\* The tensors that session s has in buffer i lie in a block of the buffer that
\* is large enough.
BackedIn(m, s, i) ==
    LET plan == m.plan[s][i] IN
    plan.used => /\ plan.host # Null
                 /\ plan.host = m.buffer[i].current
                 /\ m.size[plan.host] >= plan.total

\* Buffer i has not lost its block to a realloc that failed.
HasBlock(m, i) == ~(m.buffer[i].current = Null /\ m.buffer[i].currentSize > 0)

\* What applying plans does to no session's plan: change what it asks for.
SameDemand(m, n) ==
    \A t \in Sessions, j \in Buffers :
       n.plan[t][j].used = m.plan[t][j].used /\ n.plan[t][j].total = m.plan[t][j].total

\* apply, of a plan that asks for something if it is used, keeps the invariant
\* and all demands; if it succeeds, and the buffer has its block, the tensors
\* are in it.  The other buffer and its tensors stay where they are
\* (BufferAllocator.cpp:590-617).
LEMMA ApplyState ==
  ASSUME NEW m, MemInv(m), NEW s \in Sessions, NEW i \in Buffers,
         m.plan[s][i].used => m.plan[s][i].total > 0, NEW r \in Apply(m, s, i)
  PROVE  /\ MemInv(r.mem) /\ SameDemand(m, r.mem) /\ r.code \in {"NO_ERROR", "OUT_OF_MEMORY"}
         /\ r.mem.buffer[Other(i)] = m.buffer[Other(i)]
         /\ r.mem.plan[s][Other(i)] = m.plan[s][Other(i)]
         /\ r.code = "NO_ERROR" /\ HasBlock(r.mem, i) => BackedIn(r.mem, s, i)
<1> DEFINE plan == m.plan[s][i]
<1>1. /\ m \in Memories /\ plan \in Plans /\ plan.total \in Nat /\ m.buffer[i] \in Held
      /\ m.buffer[i].currentSize \in Nat /\ Other(i) \in Buffers /\ Other(i) # i
  <2>1. m \in Memories /\ plan \in Plans /\ m.buffer[i] \in Held /\ Other(i) \in Buffers /\ Other(i) # i
    BY MemoryFields, Units DEF MemInv
  <2>2. plan.total \in Sizes /\ m.buffer[i].currentSize \in Sizes
    BY <2>1 DEF Plans, Held
  <2> QED BY <2>1, <2>2, Units
<1>2. CASE ~plan.used
  <2>1. r.mem = m /\ r.code = "NO_ERROR"
    BY <1>2 DEF Apply, Ok
  <2> QED BY <2>1, <1>2 DEF SameDemand, BackedIn
<1>3. CASE plan.used /\ m.buffer[i].currentSize < plan.total
  <2>1. plan.total \in Totals
    BY <1>1, <1>3 DEF Plans, Sizes
  <2>2. PICK n \in Reallocs(m, i, plan.total) :
               r = IF n.buffer[i].current = Null THEN Oom(n) ELSE Ok(SetTensors(n, s, i))
    BY <1>3 DEF Apply
  <2>3. /\ MemInv(n) /\ n.plan = m.plan /\ n.buffer[Other(i)] = m.buffer[Other(i)]
        /\ n.buffer[i].current # Null => n.buffer[i].currentSize = plan.total
    BY <2>1, <2>2, ReallocState
  <2>4. CASE n.buffer[i].current = Null
    <3>1. r.mem = n /\ r.code = "OUT_OF_MEMORY"
      BY <2>2, <2>4 DEF Oom
    <3> QED BY <3>1, <2>3 DEF SameDemand
  <2>5. CASE n.buffer[i].current # Null
    <3>1. r.mem = SetTensors(n, s, i) /\ r.code = "NO_ERROR"
      BY <2>2, <2>5 DEF Ok
    <3>2. /\ MemInv(r.mem) /\ SameBlocks(n, r.mem) /\ OtherPlans(n, r.mem, s, i)
          /\ r.mem.plan[s][i].used = n.plan[s][i].used /\ r.mem.plan[s][i].total = n.plan[s][i].total
          /\ r.mem.plan[s][i].host = n.buffer[i].current
      BY <3>1, <2>3, SetTensorsState
    <3>3. r.mem.buffer = n.buffer /\ r.mem.size = n.size
      BY <3>2 DEF SameBlocks
    <3>4. n.size[n.buffer[i].current] = plan.total
      BY <2>3, <2>5 DEF MemInv, Owned
    <3>5. BackedIn(r.mem, s, i)
      BY <1>1, <2>3, <2>5, <3>2, <3>3, <3>4 DEF BackedIn
    <3>6. SameDemand(m, r.mem) /\ r.mem.plan[s][Other(i)] = m.plan[s][Other(i)]
      BY <1>1, <2>3, <3>2 DEF SameDemand, OtherPlans
    <3> QED BY <2>3, <3>1, <3>2, <3>3, <3>5, <3>6
  <2> QED BY <2>4, <2>5
<1>4. CASE plan.used /\ ~(m.buffer[i].currentSize < plan.total)
  <2>1. r.code = "NO_ERROR" /\ r.mem = IF Moved(m, s, i) THEN SetTensors(m, s, i) ELSE m
    BY <1>4 DEF Apply, Ok
  <2>2. /\ MemInv(r.mem) /\ r.mem.buffer = m.buffer /\ r.mem.size = m.size
        /\ SameDemand(m, r.mem) /\ r.mem.plan[s][Other(i)] = m.plan[s][Other(i)]
    <3>1. CASE ~Moved(m, s, i)
      BY <2>1, <3>1 DEF SameDemand
    <3>2. CASE Moved(m, s, i)
      <4>1. r.mem = SetTensors(m, s, i)
        BY <2>1, <3>2
      <4>2. /\ MemInv(r.mem) /\ SameBlocks(m, r.mem) /\ OtherPlans(m, r.mem, s, i)
            /\ r.mem.plan[s][i].used = m.plan[s][i].used /\ r.mem.plan[s][i].total = m.plan[s][i].total
        BY <4>1, SetTensorsState
      <4> QED BY <1>1, <4>2 DEF SameBlocks, SameDemand, OtherPlans
    <3> QED BY <3>1, <3>2
  <2>3. ASSUME HasBlock(r.mem, i) PROVE BackedIn(r.mem, s, i)
    <3>1. m.buffer[i].current # Null /\ m.size[m.buffer[i].current] >= plan.total
      BY <1>1, <1>4, <2>2, <2>3 DEF HasBlock, MemInv, Owned
    <3>2. r.mem.plan[s][i].host = m.buffer[i].current
      <4>1. CASE ~Moved(m, s, i)
        BY <2>1, <3>1, <4>1 DEF Moved, MemInv, TensorsSet
      <4>2. CASE Moved(m, s, i)
        BY <2>1, <4>2, SetTensorsState
      <4> QED BY <4>1, <4>2
    <3> QED BY <2>2, <3>1, <3>2 DEF BackedIn, SameDemand
  <2> QED BY <2>1, <2>2, <2>3
<1> QED BY <1>2, <1>3, <1>4

\* What a run asks of a memory: everything it applies asks for something.
Ready(m, s) == \A i \in Buffers : m.plan[s][i].used => m.plan[s][i].total > 0

\* _resetDynamicMemory keeps the invariant and all demands; if it succeeds and
\* both buffers have their blocks, all tensors of the session are in them
\* (CPUBackend.cpp:528-541).
LEMMA ResetState ==
  ASSUME NEW m, MemInv(m), NEW s \in Sessions, Ready(m, s), NEW r \in ResetDynamicMemory(m, s)
  PROVE  /\ MemInv(r.mem) /\ SameDemand(m, r.mem) /\ r.code \in {"NO_ERROR", "OUT_OF_MEMORY"}
         /\ r.code = "NO_ERROR" /\ (\A i \in Buffers : HasBlock(r.mem, i)) =>
               \A i \in Buffers : BackedIn(r.mem, s, i)
<1>1. 0 \in Buffers /\ 1 \in Buffers /\ Other(1) = 0 /\ \A i \in Buffers : i = 0 \/ i = 1
  BY DEF Buffers, Other
<1>2. \/ r \in Apply(m, s, 0) /\ r.code # "NO_ERROR"
      \/ \E q \in Apply(m, s, 0) : q.code = "NO_ERROR" /\ r \in Apply(q.mem, s, 1)
  BY DEF ResetDynamicMemory, Errs, Oks
<1>3. CASE r \in Apply(m, s, 0) /\ r.code # "NO_ERROR"
  BY <1>1, <1>3, ApplyState DEF Ready
<1>4. ASSUME NEW q \in Apply(m, s, 0), q.code = "NO_ERROR", r \in Apply(q.mem, s, 1)
      PROVE  /\ MemInv(r.mem) /\ SameDemand(m, r.mem) /\ r.code \in {"NO_ERROR", "OUT_OF_MEMORY"}
             /\ r.code = "NO_ERROR" /\ (\A i \in Buffers : HasBlock(r.mem, i)) =>
                   \A i \in Buffers : BackedIn(r.mem, s, i)
  <2>1. /\ MemInv(q.mem) /\ SameDemand(m, q.mem)
        /\ HasBlock(q.mem, 0) => BackedIn(q.mem, s, 0)
    BY <1>1, <1>4, ApplyState DEF Ready
  <2>2. q.mem.plan[s][1].used => q.mem.plan[s][1].total > 0
    BY <1>1, <2>1 DEF Ready, SameDemand
  <2>3. /\ MemInv(r.mem) /\ SameDemand(q.mem, r.mem) /\ r.code \in {"NO_ERROR", "OUT_OF_MEMORY"}
        /\ r.mem.buffer[0] = q.mem.buffer[0] /\ r.mem.plan[s][0] = q.mem.plan[s][0]
        /\ r.code = "NO_ERROR" /\ HasBlock(r.mem, 1) => BackedIn(r.mem, s, 1)
    BY <1>1, <1>4, <2>1, <2>2, ApplyState
  <2>4. SameDemand(m, r.mem)
    BY <2>1, <2>3 DEF SameDemand
  <2>5. ASSUME HasBlock(r.mem, 0) PROVE BackedIn(r.mem, s, 0)
    <3>1. HasBlock(q.mem, 0) /\ BackedIn(q.mem, s, 0)
      BY <2>1, <2>3, <2>5 DEF HasBlock
    <3>2. ASSUME q.mem.buffer[0].current # Null
          PROVE  r.mem.size[q.mem.buffer[0].current] = q.mem.size[q.mem.buffer[0].current]
      BY <1>1, <2>1, <2>3, <3>2 DEF MemInv, Owned
    <3> QED BY <2>3, <3>1, <3>2 DEF BackedIn
  <2> QED BY <1>1, <2>3, <2>4, <2>5
<1> QED BY <1>2, <1>3, <1>4

\* _enterExecute applies twice; the second result counts.
LEMMA EnterExecuteState ==
  ASSUME NEW m, MemInv(m), NEW s \in Sessions, Ready(m, s), NEW r \in EnterExecute(m, s)
  PROVE  /\ MemInv(r.mem) /\ SameDemand(m, r.mem) /\ r.code \in {"NO_ERROR", "OUT_OF_MEMORY"}
         /\ r.code = "NO_ERROR" /\ (\A i \in Buffers : HasBlock(r.mem, i)) =>
               \A i \in Buffers : BackedIn(r.mem, s, i)
<1>1. PICK q \in ResetDynamicMemory(m, s) : r \in ResetDynamicMemory(q.mem, s)
  BY DEF EnterExecute
<1>2. MemInv(q.mem) /\ SameDemand(m, q.mem)
  BY ResetState
<1>3. Ready(q.mem, s)
  BY <1>2 DEF Ready, SameDemand
<1>4. SameDemand(q.mem, r.mem) => SameDemand(m, r.mem)
  BY <1>2 DEF SameDemand
<1> QED BY <1>1, <1>2, <1>3, <1>4, ResetState

-----------------------------------------------------------------------------
(* The calls.                                                               *)

\* The initial states.
LEMMA InitIInv == Init => IInv
<1> SUFFICES ASSUME Init PROVE IInv
  OBVIOUS
<1>1. PICK midPath \in MidPaths : mem = EmptyMemory(midPath)
  BY DEF Init
<1>2. /\ mem.midPath = midPath /\ mem.size = [b \in Blocks |-> 0] /\ mem.name = [b \in Blocks |-> 0]
      /\ mem.linked = [b \in Blocks |-> FALSE] /\ mem.allocTimes = 0
      /\ mem.buffer = [i \in Buffers |-> [current |-> Null, currentSize |-> 0]]
      /\ mem.plan = [s \in Sessions |-> [i \in Buffers |-> NoPlan(Null)]]
  BY <1>1 DEF EmptyMemory
<1>3. NoPlan(Null) \in Plans /\ [current |-> Null, currentSize |-> 0] \in Held
  BY DEF NoPlan, Plans, Held, Sizes, Pointers
<1>4. mem.plan \in [Sessions -> [Buffers -> Plans]] /\ mem.buffer \in [Buffers -> Held]
  BY <1>2, <1>3
<1>5. mem \in Memories
  <2>1. mem = [midPath |-> mem.midPath, size |-> mem.size, name |-> mem.name, linked |-> mem.linked,
               allocTimes |-> mem.allocTimes, buffer |-> mem.buffer, plan |-> mem.plan]
    BY <1>1 DEF EmptyMemory
  <2>2. /\ mem.size \in [Blocks -> Sizes] /\ mem.name \in [Blocks -> 0 .. 2]
        /\ mem.linked \in [Blocks -> BOOLEAN] /\ mem.allocTimes \in 0 .. 3
    BY <1>2 DEF Sizes
  <2> QED BY <1>2, <1>4, <2>1, <2>2 DEF Memories
<1>6. \A i \in Buffers : mem.buffer[i].current = Null
  BY <1>2
<1>7. Owned(mem) /\ Numbered(mem)
  BY <1>2, <1>6, Units DEF Owned, Numbered
<1>8. \A s \in Sessions, i \in Buffers : mem.plan[s][i].mPtr = Null /\ mem.plan[s][i].used = FALSE
  BY <1>2 DEF NoPlan
<1>9. TensorsSet(mem) /\ Planned
  BY <1>8 DEF TensorsSet, Planned, Buffers
<1>10. ControlType /\ StaleNoticed /\ RunsUnlessExhausted /\ PlanIsCurrent
  BY DEF Init, ControlType, StaleNoticed, RunsUnlessExhausted, RunsOnLiveMemory, PlanIsCurrent, Codes
<1> QED BY <1>5, <1>7, <1>9, <1>10 DEF IInv, MemInv

\* A call that runs nothing claims nothing of the memory.
LEMMA NotRunning ==
  ASSUME last'.call \notin {"run", "map"}
  PROVE  RunsUnlessExhausted' /\ PlanIsCurrent'
  BY DEF RunsUnlessExhausted, RunsOnLiveMemory, PlanIsCurrent

\* The result of a call has its type.
LEMMA CalledType ==
  ASSUME NEW s \in Sessions, NEW code \in Codes,
         NEW call \in {"none", "resizeTensor", "resize", "run", "map", "fix", "gc"}, Called(s, call, code)
  PROVE  /\ last' \in [session : Sessions \cup {Null},
                       call : {"none", "resizeTensor", "resize", "run", "map", "fix", "gc"},
                       code : Codes]
         /\ last'.session = s /\ last'.call = call /\ last'.code = code
  BY DEF Called

\* The sizes that a resize or a fix plans.
LEMMA TotalsAsk == \A total \in Totals : total \in Sizes /\ total > 0
  BY MemoryAssumption DEF Sizes

\* A resize keeps the invariant, at whatever point it fails.
LEMMA StepResize ==
  ASSUME IInv, NEW s \in Sessions,
         ResizeTensor(s) \/ EncodeFails(s) \/ OpFails(s) \/ Plan(s) \/ ResizeNothing(s)
  PROVE  IInv'
<1> USE DEF IInv, AllocGuard
<1>0. 0 \in Buffers /\ 1 \in Buffers /\ 0 # 1 /\ Other(0) = 1
  BY DEF Buffers, Other
<1>1. CASE ResizeTensor(s)
  <2>1. last'.call = "resizeTensor" /\ ControlType'
    BY <1>1, CalledType DEF ResizeTensor, ControlType, Codes
  <2>2. MemInv(mem)' /\ Planned' /\ StaleNoticed'
    BY <1>1 DEF ResizeTensor, Planned, StaleNoticed, ControlType
  <2> QED BY <2>1, <2>2, NotRunning
<1>2. CASE EncodeFails(s)
  <2>1. last'.call = "resize" /\ ControlType'
    BY <1>2, CalledType DEF EncodeFails, ControlType, Codes
  <2>2. MemInv(mem)' /\ Planned' /\ StaleNoticed'
    BY <1>2 DEF EncodeFails, Planned, StaleNoticed
  <2> QED BY <2>1, <2>2, NotRunning
<1>3. CASE OpFails(s)
  <2>1. last'.call = "resize" /\ ControlType'
    BY <1>3, CalledType DEF OpFails, ControlType, Codes
  <2> DEFINE m == DropPlan(mem, s, 0)
  <2>2. PICK used \in BOOLEAN : mem' = [m EXCEPT !.plan[s][0].used = used]
    BY <1>3 DEF OpFails
  <2>3. MemInv(m) /\ OtherPlans(mem, m, s, 0)
    BY <1>0, DropPlanState
  <2> HIDE DEF m
  <2>4. MemInv(mem)' /\ OtherPlans(m, mem', s, 0)
    BY <1>0, <2>2, <2>3, SetUsed
  <2>5. needResize' = [needResize EXCEPT ![s] = TRUE] /\ UNCHANGED stale
    BY <1>3 DEF OpFails
  <2>6. Planned' /\ StaleNoticed'
    BY <1>0, <2>3, <2>4, <2>5 DEF Planned, StaleNoticed, OtherPlans, ControlType
  <2> QED BY <2>1, <2>4, <2>6, NotRunning
<1>4. CASE Plan(s)
  <2> DEFINE m0 == DropPlan(mem, s, 0)
             m1 == [m0 EXCEPT !.plan[s][0].used = TRUE]
             m2(total) == [m1 EXCEPT !.plan[s][0].total = total]
  <2>0. PICK total \in Totals : \E r \in Apply(m2(total), s, 0) :
             /\ mem' = r.mem
             /\ needResize' = [needResize EXCEPT ![s] = (r.code # "NO_ERROR")]
             /\ needMalloc' = [needMalloc EXCEPT ![s] = (r.code # "NO_ERROR")]
             /\ stale' = [stale EXCEPT ![s] = (r.code # "NO_ERROR")]
             /\ Called(s, "resize", r.code)
    BY <1>4 DEF Plan
  <2>1. PICK r \in Apply(m2(total), s, 0) :
             /\ mem' = r.mem
             /\ needResize' = [needResize EXCEPT ![s] = (r.code # "NO_ERROR")]
             /\ needMalloc' = [needMalloc EXCEPT ![s] = (r.code # "NO_ERROR")]
             /\ stale' = [stale EXCEPT ![s] = (r.code # "NO_ERROR")]
             /\ Called(s, "resize", r.code)
    BY <2>0
  <2>2. MemInv(m0) /\ OtherPlans(mem, m0, s, 0)
    BY <1>0, DropPlanState
  <2> HIDE DEF m0
  <2>3. MemInv(m1) /\ OtherPlans(m0, m1, s, 0)
    BY <1>0, <2>2, SetUsed
  <2> HIDE DEF m1
  <2>4. MemInv(m2(total)) /\ OtherPlans(m1, m2(total), s, 0) /\ m2(total).plan[s][0].total = total
    BY <1>0, <2>3, SetTotal, TotalsAsk
  <2> HIDE DEF m2
  <2>5. MemInv(mem)' /\ SameDemand(m2(total), mem') /\ r.code \in Codes
    BY <1>0, <2>1, <2>4, ApplyState, TotalsAsk DEF Codes
  <2>6. mem'.plan[s][0].total > 0
    BY <1>0, <2>4, <2>5, TotalsAsk DEF SameDemand
  <2>7. \A t \in Sessions, j \in Buffers : t # s \/ j # 0 =>
           /\ mem'.plan[t][j].used = mem.plan[t][j].used
           /\ mem'.plan[t][j].total = mem.plan[t][j].total
    BY <2>2, <2>3, <2>4, <2>5 DEF OtherPlans, SameDemand
  <2>8. Planned'
    BY <1>0, <2>1, <2>6, <2>7 DEF Planned, ControlType
  <2>9. StaleNoticed'
    BY <2>1 DEF StaleNoticed, ControlType
  <2>10. last'.call = "resize" /\ ControlType'
    <3>1. fixed' \in [Sessions -> BOOLEAN]
      BY <1>4 DEF Plan, ControlType
    <3> QED BY <2>1, <2>5, <3>1, CalledType DEF ControlType
  <2> QED BY <2>5, <2>8, <2>9, <2>10, NotRunning
<1>5. CASE ResizeNothing(s)
  <2>1. last'.call = "resize" /\ ControlType'
    BY <1>5, CalledType DEF ResizeNothing, ControlType, Codes
  <2>2. MemInv(mem)' /\ Planned' /\ StaleNoticed'
    BY <1>5 DEF ResizeNothing, Planned, StaleNoticed
  <2> QED BY <2>1, <2>2, NotRunning
<1> QED BY <1>1, <1>2, <1>3, <1>4, <1>5

\* A run or a map that has applied the plan with success works on live memory.
LEMMA AppliedRuns ==
  ASSUME NEW s \in Sessions, NEW r, mem' = r.mem, last'.session = s, last'.code = r.code,
         r.code = "NO_ERROR" /\ (\A i \in Buffers : HasBlock(r.mem, i)) =>
            \A i \in Buffers : BackedIn(r.mem, s, i)
  PROVE  RunsUnlessExhausted'
<1> SUFFICES ASSUME \A i \in Buffers : ~Exhausted(i)', last'.code = "NO_ERROR" PROVE Backed(s)'
  BY DEF RunsUnlessExhausted, RunsOnLiveMemory
<1>1. \A i \in Buffers : HasBlock(r.mem, i)
  BY DEF Exhausted, HasBlock
<1> QED BY <1>1 DEF Backed, BackedIn

\* Running, mapping, fixing and collecting keep the invariant.
LEMMA StepUse ==
  ASSUME IInv, (\E s \in Sessions : Run(s) \/ MapTensor(s) \/ Fix(s)) \/ GabageCollect
  PROVE  IInv'
<1> USE DEF IInv
<1>0. 0 \in Buffers /\ 1 \in Buffers /\ 0 # 1 /\ Other(0) = 1 /\ \A i \in Buffers : i = 0 \/ i = 1
  BY DEF Buffers, Other
<1>1. ASSUME NEW s \in Sessions, Run(s), needResize[s] PROVE IInv'
  <2>1. Called(s, "run", "COMPUTE_SIZE_ERROR") /\ UNCHANGED <<mem, needResize, needMalloc, fixed, stale>>
    BY <1>1 DEF Run
  <2>2. ControlType' /\ last'.code = "COMPUTE_SIZE_ERROR"
    BY <2>1, CalledType DEF ControlType, Codes
  <2>3. RunsUnlessExhausted' /\ PlanIsCurrent'
    BY <2>2 DEF RunsUnlessExhausted, RunsOnLiveMemory, PlanIsCurrent
  <2> QED BY <2>1, <2>2, <2>3 DEF Planned, StaleNoticed
<1>2. ASSUME NEW s \in Sessions, NEW r, ~needResize[s],
             r \in EnterExecute(mem, s) \/ r \in ResetDynamicMemory(mem, s),
             mem' = r.mem, NEW call \in {"run", "map"}, Called(s, call, r.code),
             UNCHANGED <<needResize, needMalloc, fixed, stale>>
      PROVE  IInv'
  <2>1. Ready(mem, s)
    BY <1>0, <1>2 DEF Planned, Ready
  <2>2. /\ MemInv(r.mem) /\ SameDemand(mem, r.mem) /\ r.code \in {"NO_ERROR", "OUT_OF_MEMORY"}
        /\ r.code = "NO_ERROR" /\ (\A i \in Buffers : HasBlock(r.mem, i)) =>
               \A i \in Buffers : BackedIn(r.mem, s, i)
    BY <1>2, <2>1, EnterExecuteState, ResetState
  <2>3. ControlType' /\ last'.session = s /\ last'.code = r.code
    BY <1>2, <2>2, CalledType DEF ControlType, Codes
  <2>4. RunsUnlessExhausted'
    BY <1>2, <2>2, <2>3, AppliedRuns
  <2>5. Planned' /\ StaleNoticed'
    BY <1>0, <1>2, <2>2 DEF Planned, StaleNoticed, SameDemand
  <2>6. PlanIsCurrent'
    BY <1>2, <2>3 DEF PlanIsCurrent, StaleNoticed
  <2> QED BY <1>2, <2>2, <2>3, <2>4, <2>5, <2>6
<1>3. ASSUME NEW s \in Sessions, Run(s), ~needResize[s] PROVE IInv'
  <2>1. PICK r \in EnterExecute(mem, s) : mem' = r.mem /\ Called(s, "run", r.code)
    BY <1>3 DEF Run
  <2>2. UNCHANGED <<needResize, needMalloc, fixed, stale>>
    BY <1>3 DEF Run
  <2> QED BY <1>2, <1>3, <2>1, <2>2
<1>4. ASSUME NEW s \in Sessions, MapTensor(s) PROVE IInv'
  <2>1. PICK r \in ResetDynamicMemory(mem, s) : mem' = r.mem /\ Called(s, "map", r.code)
    BY <1>4 DEF MapTensor
  <2>2. ~needResize[s] /\ UNCHANGED <<needResize, needMalloc, fixed, stale>>
    BY <1>4 DEF MapTensor
  <2> QED BY <1>2, <2>1, <2>2
<1>5. ASSUME NEW s \in Sessions, Fix(s) PROVE IInv'
  <2> DEFINE m0 == DropPlan(mem, s, 0)
             m1 == [m0 EXCEPT !.plan[s][1].used = TRUE]
             m2(total) == [m1 EXCEPT !.plan[s][1].total = total]
  <2>1. PICK total \in Totals : \E r \in Apply(m2(total), s, 1) : mem' = ReleaseBuffer(r.mem, 0)
    BY <1>5 DEF Fix
  <2>2. PICK r \in Apply(m2(total), s, 1) : mem' = ReleaseBuffer(r.mem, 0)
    BY <2>1
  <2>3. MemInv(m0) /\ OtherPlans(mem, m0, s, 0) /\ m0.plan[s][0].used = FALSE
    BY <1>0, DropPlanState
  <2> HIDE DEF m0
  <2>4. MemInv(m1) /\ OtherPlans(m0, m1, s, 1)
    BY <1>0, <2>3, SetUsed
  <2> HIDE DEF m1
  <2>5. MemInv(m2(total)) /\ OtherPlans(m1, m2(total), s, 1) /\ m2(total).plan[s][1].total = total
    BY <1>0, <2>4, SetTotal, TotalsAsk
  <2> HIDE DEF m2
  <2>6. MemInv(r.mem) /\ SameDemand(m2(total), r.mem)
    BY <1>0, <2>2, <2>5, ApplyState, TotalsAsk
  <2>7. MemInv(mem)' /\ mem'.plan = r.mem.plan
    BY <1>0, <2>2, <2>6, ReleaseState
  <2>8. mem'.plan[s][1].total > 0 /\ mem'.plan[s][0].used = FALSE
    BY <1>0, <2>3, <2>4, <2>5, <2>6, <2>7, TotalsAsk DEF SameDemand, OtherPlans
  <2>9. \A t \in Sessions, j \in Buffers : t # s =>
           /\ mem'.plan[t][j].used = mem.plan[t][j].used
           /\ mem'.plan[t][j].total = mem.plan[t][j].total
    BY <2>3, <2>4, <2>5, <2>6, <2>7 DEF OtherPlans, SameDemand
  <2>10. UNCHANGED <<needResize, needMalloc, stale>> /\ fixed' \in [Sessions -> BOOLEAN] /\ Called(s, "fix", "NO_ERROR")
    BY <1>5 DEF Fix, ControlType
  <2>11. Planned' /\ StaleNoticed'
    BY <1>0, <2>8, <2>9, <2>10 DEF Planned, StaleNoticed
  <2>12. ControlType' /\ last'.call = "fix"
    BY <2>10, CalledType DEF ControlType, Codes
  <2> QED BY <2>7, <2>11, <2>12, NotRunning
<1>6. CASE GabageCollect
  <2>1. MemInv(ReleaseBuffer(mem, 0)) /\ ReleaseBuffer(mem, 0).plan = mem.plan
    BY <1>0, ReleaseState
  <2>2. MemInv(mem)' /\ mem'.plan = mem.plan
    BY <1>0, <1>6, <2>1, ReleaseState DEF GabageCollect
  <2>3. last'.call = "gc" /\ ControlType'
    BY <1>6 DEF GabageCollect, ControlType, Codes
  <2>4. Planned' /\ StaleNoticed'
    BY <1>6, <2>2 DEF GabageCollect, Planned, StaleNoticed
  <2> QED BY <2>2, <2>3, <2>4, NotRunning
<1> QED BY <1>1, <1>3, <1>4, <1>5, <1>6

\* The invariant holds in every state.
LEMMA Invariance == Spec => []IInv
<1>1. IInv /\ [Next]_vars => IInv'
  <2> SUFFICES ASSUME IInv, [Next]_vars PROVE IInv'
    OBVIOUS
  <2>1. CASE Next
    BY <2>1, StepResize, StepUse DEF Next
  <2>2. CASE UNCHANGED vars
    BY <2>2 DEF vars, IInv, ControlType, MemInv, Planned, StaleNoticed, RunsUnlessExhausted, Exhausted,
                RunsOnLiveMemory, Backed, PlanIsCurrent
  <2> QED BY <2>1, <2>2
<1> QED BY <1>1, InitIInv, PTL DEF Spec

\* Whatever other sessions, Resize_Fix and the garbage collection have done to
\* the shared buffers, and whichever address the system returns, a run that
\* reports success works on memory that is allocated, its own and large enough,
\* unless a realloc has failed and none has succeeded since
\* (BufferAllocator.cpp:590-617, CPUBackend.cpp:528-541).
THEOREM LiveMemory == Spec => []RunsUnlessExhausted
  BY Invariance, PTL DEF IInv

\* After a resize that failed, at whatever point, no run succeeds until another
\* resize has (Session.cpp:237-241, 266-306).
THEOREM CurrentPlan == Spec => []PlanIsCurrent
  BY Invariance, PTL DEF IInv

\* The blocks that are allocated are those of the two buffers, also when the
\* buffers are files that are numbered (BufferAllocator.cpp:431-452).
THEOREM NoLeak == Spec => []NothingLeaks
<1>1. IInv => NothingLeaks
  <2> SUFFICES ASSUME IInv PROVE NothingLeaks
    OBVIOUS
  <2>1. MemInv(mem) /\ ControlType /\ mem \in Memories
    BY DEF IInv, MemInv
  <2>2. Cardinality(Buffers) = 2
    <3>1. IsFiniteSet({}) /\ Cardinality({}) = 0
      BY FS_EmptySet
    <3>2. IsFiniteSet({0}) /\ Cardinality({0}) = 1
      BY FS_Singleton
    <3>3. Cardinality({0} \cup {1}) = 2
      BY <3>2, FS_AddElement
    <3> QED BY <3>3 DEF Buffers
  <2>3. TypeOK
    BY <2>1, <2>2, MemoryFields DEF TypeOK, ControlType, Codes, Held, Plans, Sizes
  <2>4. \A b \in Blocks : mem.size[b] > 0 <=> \E i \in Buffers : mem.buffer[i].current = b
    BY <2>1 DEF MemInv, Owned
  <2>5. \A i \in Buffers : mem.buffer[i].current \in Blocks \cup {Null}
    BY <2>1, MemoryFields DEF Held, Pointers
  <2>6. {b \in Blocks : mem.size[b] > 0} = {mem.buffer[i].current : i \in Buffers} \ {Null}
    BY <2>4, <2>5, Units
  <2>7. mem.buffer[0].current = mem.buffer[1].current => mem.buffer[0].current = Null
    BY <2>1 DEF MemInv, Owned, Buffers, Other
  <2> QED BY <2>3, <2>6, <2>7 DEF NothingLeaks
<1> QED BY <1>1, Invariance, PTL
=============================================================================
