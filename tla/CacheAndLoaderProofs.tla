------------------------- MODULE CacheAndLoaderProofs -------------------------
(* Proofs about the key and value cache, for any size of a block, any        *)
(* lengths of prompts and drafts, any limit of the memory and whatever       *)
(* callers ask for; and about the training data loader, for any number of    *)
(* workers, jobs, batches and epochs.                                        *)
EXTENDS MCKVCache, MCDataLoader, FiniteSetTheorems, SequenceTheorems, TLAPS

Entry == Nat \X Nat

IsCache(c) == c \in [max : Nat, len : Nat, inDisk : BOOLEAN, mem : {c.mem}, file : {c.file}]

\* A cache that is allocated is in one place, and all of it is entries.
PlacedAt(c) ==
    /\ c.inDisk <=> Exceeds(c.max)
    /\ DOMAIN c.mem = IF c.inDisk THEN {} ELSE 0..RoundUp(c.max) - 1
    /\ DOMAIN c.file = IF c.inDisk THEN 0..RoundUp(c.max) - 1 ELSE {}
    /\ \A i \in 0..RoundUp(c.max) - 1 : Cells(c)[i] \in Entry

CacheInv == /\ IsCache(kv) /\ kv.len <= kv.max /\ kv.max <= forwarded + ExpandChunk
            /\ forwarded > 0 => kv.max > 0
            /\ kv.max > 0 => PlacedAt(kv)

IsMeta(m) == m \in [previous : Nat, remove : Nat, add : Nat, reserve : {m.reserve}]

\* What is asked of the next forward: an end of the history is to be removed, or
\* what follows a start of it, of which whole blocks are reserved.
RequestOK(m) ==
    /\ IsMeta(m) /\ m.remove <= m.previous
    /\ \/ m.reserve = <<>>
       \/ /\ config.reuse /\ m.reserve = <<m.reserve[1], m.reserve[2]>>
          /\ m.reserve[1] \in Nat \ {0} /\ m.reserve[2] \in Nat \ {0}
          /\ m.remove = m.reserve[1] + m.reserve[2] /\ m.remove < m.previous
          /\ (m.previous - m.remove) % Align = 0 /\ m.reserve[1] % Align = 0

MetaInv == /\ RequestOK(meta) /\ meta.add = 0
           /\ meta.previous = kv.len /\ meta.previous <= forwarded

\* Where the i-th entry of what is kept lies, m being asked of a cache.
Place(m, i) == IF i <= m.previous - m.remove THEN i - 1 ELSE i - 1 + m.reserve[1]
Kept(m) == m.previous - m.remove + Reserved(m)

HistInv == /\ hist \in Seq(Entry) /\ Len(hist) = Kept(meta)
           /\ \A i \in 1..Len(hist) : hist[i] = Cells(kv)[Place(meta, i)]

PositionInv == /\ \A i, j \in 1..Len(hist) : i < j => hist[i][2] < hist[j][2]
               /\ \A i \in 1..Len(hist) : hist[i][2] < allSeqLen

\* What holds as long as all requests were supported.
KeptInv == /\ config \in Configs /\ allSeqLen \in Nat /\ forwarded \in Nat
           /\ allSeqLen <= forwarded /\ forwarded <= MaxTokens
           /\ CacheInv /\ MetaInv /\ HistInv /\ PositionInv

\* A request of any kind: what is to be removed is there, and what is to be kept
\* of it lies in the history that was there when it was asked for.
Waiting(m) ==
    /\ IsMeta(m) /\ m.remove <= m.previous
    /\ m.reserve # <<>> =>
         /\ m.reserve = <<m.reserve[1], m.reserve[2]>>
         /\ m.reserve[1] \in Nat \ {0} /\ m.reserve[2] \in Nat \ {0}
         /\ m.reserve[1] + m.reserve[2] <= m.previous

\* A cache of any content, with room for what is said to be in it.
RoomInv == /\ IsCache(kv) /\ kv.len <= kv.max
           /\ forwarded > 0 => kv.max > 0
           /\ kv.max > 0 => PlacedAt(kv)

\* What holds whatever callers ask for.
BaseInv == /\ config \in Configs /\ allSeqLen \in Nat /\ forwarded \in Nat
           /\ allSeqLen <= forwarded /\ forwarded <= MaxTokens
           /\ misused \in 0..MaxMisuse /\ miscounted \in BOOLEAN
           /\ RoomInv /\ Waiting(meta) /\ meta.add = 0
           /\ ~miscounted => meta.previous = kv.len
           /\ hist \in Seq(Entry) /\ PositionInv

\* The inductive invariant.
IInv == BaseInv /\ (misused = 0 => KeptInv)

-----------------------------------------------------------------------------
(* Blocks.                                                                  *)

\* A number is whole blocks and a rest.
LEMMA Division ==
  ASSUME NEW n \in Nat
  PROVE  /\ n \div Align \in Nat /\ n % Align \in 0..Align - 1
         /\ n % Align = n - (n \div Align) * Align
<1>1. n \div Align \in Nat
  BY KVCacheAssumption
<1>2. n % Align \in Nat /\ n % Align < Align
  BY KVCacheAssumption
<1>3. n % Align = n - (n \div Align) * Align
  BY KVCacheAssumption
<1> QED BY <1>1, <1>2, <1>3, KVCacheAssumption

\* There is one way to divide.
LEMMA UniqueDivision ==
  ASSUME NEW n \in Nat, NEW q \in Int, NEW r \in 0..Align - 1, n = q * Align + r
  PROVE  n \div Align = q /\ n % Align = r
<1>1. n \div Align = q
  BY KVCacheAssumption
<1>2. q * Align \in Int
  BY KVCacheAssumption
<1> QED BY <1>1, <1>2, Division, KVCacheAssumption

\* Rounding up to whole blocks.
LEMMA RoundUpBounds ==
  ASSUME NEW n \in Nat
  PROVE  RoundUp(n) \in Nat /\ RoundUp(n) >= n
  BY KVCacheAssumption DEF RoundUp

\* What is larger needs no less blocks.
LEMMA RoundUpMonotone ==
  ASSUME NEW m \in Nat, NEW n \in Nat, m <= n
  PROVE  RoundUp(m) <= RoundUp(n)
  BY KVCacheAssumption DEF RoundUp

\* Whole blocks are not rounded.
LEMMA RoundWhole ==
  ASSUME NEW n \in Nat, n % Align = 0
  PROVE  RoundUp(n) = n /\ RoundDown(n) = n
<1> DEFINE q == n \div Align
<1>1. q \in Nat /\ n = q * Align
  BY KVCacheAssumption
<1>2. (n + Align - 1) \div Align = q
  <2> HIDE DEF q
  <2>1. n + Align - 1 \in Nat /\ n + Align - 1 = q * Align + (Align - 1) /\ Align - 1 \in 0..Align - 1
    BY <1>1, KVCacheAssumption
  <2> QED BY <1>1, <2>1, UniqueDivision
<1> QED BY <1>1, <1>2 DEF RoundUp, RoundDown

\* The sum and the difference of whole blocks are whole blocks.
LEMMA WholeSum ==
  ASSUME NEW m \in Nat, NEW n \in Nat, m % Align = 0, n % Align = 0
  PROVE  (m + n) % Align = 0 /\ (m <= n => (n - m) % Align = 0)
<1> DEFINE p == m \div Align
           q == n \div Align
<1>1. p \in Nat /\ q \in Nat /\ m = p * Align /\ n = q * Align
  BY KVCacheAssumption
<1> HIDE DEF p, q
<1>2. m + n = (p + q) * Align + 0 /\ n - m = (q - p) * Align + 0 /\ 0 \in 0..Align - 1
  BY <1>1, KVCacheAssumption
<1>3. (m + n) % Align = 0
  BY <1>1, <1>2, UniqueDivision
<1>4. m <= n => (n - m) % Align = 0
  BY <1>1, <1>2, UniqueDivision
<1> QED BY <1>3, <1>4

\* The limit is exceeded by a cache if it is by a smaller one.
LEMMA ExceedsMonotone ==
  ASSUME config \in Configs, NEW m \in Nat, NEW n \in Nat, m <= n, Exceeds(m)
  PROVE  Exceeds(n)
<1>1. config.limit \in Nat \cup {-1}
  BY KVCacheAssumption DEF Configs
<1>2. RoundUp(m) \in Nat /\ RoundUp(n) \in Nat /\ RoundUp(m) <= RoundUp(n)
  BY RoundUpMonotone, RoundUpBounds
<1> QED BY <1>1, <1>2 DEF Exceeds, KVSize

-----------------------------------------------------------------------------
(* The cache manager.                                                       *)

\* The fields of a cache.
LEMMA CacheFields ==
  ASSUME NEW c, IsCache(c)
  PROVE  c.max \in Nat /\ c.len \in Nat /\ c.inDisk \in BOOLEAN
  BY DEF IsCache

\* Setting the length.
LEMMA SetLen ==
  ASSUME NEW c, IsCache(c), NEW n \in Nat
  PROVE  LET k == [c EXCEPT !.len = n] IN
         /\ IsCache(k) /\ k.len = n /\ k.max = c.max /\ k.inDisk = c.inDisk
         /\ k.mem = c.mem /\ k.file = c.file
  BY DEF IsCache

\* Setting the cells of a cache that is placed, for cells of the same kind.
LEMMA SetCells ==
  ASSUME NEW c, IsCache(c), PlacedAt(c), NEW f, DOMAIN f = 0..RoundUp(c.max) - 1,
         \A i \in 0..RoundUp(c.max) - 1 : f[i] \in Entry
  PROVE  LET k == WithCells(c, f) IN
         IsCache(k) /\ PlacedAt(k) /\ k.max = c.max /\ k.len = c.len /\ Cells(k) = f
<1> DEFINE k == WithCells(c, f)
<1>1. CASE c.inDisk
  <2>1. k = [c EXCEPT !.file = f]
    BY <1>1 DEF WithCells
  <2> HIDE DEF k
  <2>2. IsCache(k) /\ k.max = c.max /\ k.len = c.len /\ k.inDisk = c.inDisk /\ k.mem = c.mem /\ k.file = f
    BY <2>1 DEF IsCache
  <2>3. Cells(k) = f /\ PlacedAt(k)
    BY <1>1, <2>2 DEF Cells, PlacedAt
  <2> QED BY <2>2, <2>3 DEF k
<1>2. CASE ~c.inDisk
  <2>1. k = [c EXCEPT !.mem = f]
    BY <1>2 DEF WithCells
  <2> HIDE DEF k
  <2>2. IsCache(k) /\ k.max = c.max /\ k.len = c.len /\ k.inDisk = c.inDisk /\ k.mem = f /\ k.file = c.file
    BY <2>1 DEF IsCache
  <2>3. Cells(k) = f /\ PlacedAt(k)
    BY <1>2, <2>2 DEF Cells, PlacedAt
  <2> QED BY <2>2, <2>3 DEF k
<1> QED BY <1>1, <1>2

\* The copy of cells into larger ones keeps them.
LEMMA GrownState ==
  ASSUME NEW n \in Nat, NEW max \in Nat, n <= max, NEW f, DOMAIN f = 0..RoundUp(n) - 1,
         \A i \in 0..RoundUp(n) - 1 : f[i] \in Entry
  PROVE  /\ DOMAIN Grown(f, max) = 0..RoundUp(max) - 1
         /\ \A i \in 0..RoundUp(max) - 1 : Grown(f, max)[i] \in Entry
         /\ \A i \in 0..RoundUp(n) - 1 : Grown(f, max)[i] = f[i]
<1>1. RoundUp(n) \in Nat /\ RoundUp(max) \in Nat /\ RoundUp(n) <= RoundUp(max)
  BY RoundUpBounds, RoundUpMonotone
<1>2. Hole \in Entry
  BY DEF Hole, Entry
<1> QED BY <1>1, <1>2 DEF Grown

\* Growing a cache, in memory, to disk or on disk, loses nothing
\* (KVCacheManager.cpp: expandKVCacheInMem, moveKVCacheFromMemToDisk,
\* expandKVCacheInDisk).
LEMMA ExpandedState ==
  ASSUME config \in Configs, NEW c, IsCache(c), PlacedAt(c), NEW max \in Nat, c.max <= max
  PROVE  LET k == Expanded(c, max) IN
         /\ IsCache(k) /\ PlacedAt(k) /\ k.max = max /\ k.len = c.len
         /\ \A i \in 0..RoundUp(c.max) - 1 : Cells(k)[i] = Cells(c)[i]
<1> DEFINE k == Expanded(c, max)
<1>1. c.max \in Nat /\ (Exceeds(c.max) => Exceeds(max))
  BY CacheFields, ExceedsMonotone
<1>2. /\ DOMAIN Cells(c) = 0..RoundUp(c.max) - 1
      /\ \A i \in 0..RoundUp(c.max) - 1 : Cells(c)[i] \in Entry
  BY DEF PlacedAt, Cells
<1> DEFINE g == Grown(Cells(c), max)
<1>3. /\ DOMAIN g = 0..RoundUp(max) - 1 /\ \A i \in 0..RoundUp(max) - 1 : g[i] \in Entry
      /\ \A i \in 0..RoundUp(c.max) - 1 : g[i] = Cells(c)[i]
  BY <1>1, <1>2, GrownState
<1> HIDE DEF g
<1>4. CASE ~Exceeds(max)
  <2>1. ~c.inDisk /\ Cells(c) = c.mem /\ DOMAIN c.file = {}
    BY <1>1, <1>4 DEF PlacedAt, Cells
  <2>2. k = [c EXCEPT !.max = max, !.mem = g]
    BY <1>4, <2>1 DEF Expanded, g
  <2> HIDE DEF k
  <2>3. /\ k = [max |-> max, len |-> c.len, inDisk |-> c.inDisk, mem |-> g, file |-> c.file]
    BY <2>2 DEF IsCache
  <2>4. Cells(k) = g /\ IsCache(k) /\ k.max = max /\ k.len = c.len
    BY <2>1, <2>3, CacheFields DEF Cells, IsCache
  <2>5. PlacedAt(k)
    BY <1>3, <1>4, <2>1, <2>3, <2>4 DEF PlacedAt
  <2> QED BY <1>3, <2>4, <2>5 DEF k
<1>5. CASE Exceeds(max) /\ ~Exceeds(c.max)
  <2>1. ~c.inDisk /\ Cells(c) = c.mem
    BY <1>5 DEF PlacedAt, Cells
  <2>2. k = [c EXCEPT !.max = max, !.file = g, !.mem = Nothing, !.inDisk = TRUE]
    BY <1>5, <2>1 DEF Expanded, g
  <2> HIDE DEF k
  <2>3. /\ k = [max |-> max, len |-> c.len, inDisk |-> TRUE, mem |-> Nothing, file |-> g]
    BY <2>2 DEF IsCache
  <2>4. Cells(k) = g /\ IsCache(k) /\ k.max = max /\ k.len = c.len
    BY <2>3, CacheFields DEF Cells, IsCache
  <2>5. DOMAIN Nothing = {}
    BY DEF Nothing
  <2>6. PlacedAt(k)
    BY <1>3, <1>5, <2>3, <2>4, <2>5 DEF PlacedAt
  <2> QED BY <1>3, <2>4, <2>6 DEF k
<1>6. CASE Exceeds(max) /\ Exceeds(c.max)
  <2>1. c.inDisk /\ Cells(c) = c.file /\ DOMAIN c.mem = {}
    BY <1>6 DEF PlacedAt, Cells
  <2>2. k = [c EXCEPT !.max = max, !.file = g]
    BY <1>6, <2>1 DEF Expanded, g
  <2> HIDE DEF k
  <2>3. /\ k = [max |-> max, len |-> c.len, inDisk |-> c.inDisk, mem |-> c.mem, file |-> g]
    BY <2>2 DEF IsCache
  <2>4. Cells(k) = g /\ IsCache(k) /\ k.max = max /\ k.len = c.len
    BY <2>1, <2>3, CacheFields DEF Cells, IsCache
  <2>5. PlacedAt(k)
    BY <1>3, <1>6, <2>1, <2>3, <2>4 DEF PlacedAt
  <2> QED BY <1>3, <2>4, <2>5 DEF k
<1> QED BY <1>1, <1>4, <1>5, <1>6

\* A new cache is placed as its size says.
LEMMA AllocState ==
  ASSUME NEW n \in Nat
  PROVE  LET k == Alloc(n) IN
         IsCache(k) /\ PlacedAt(k) /\ k.max = n + ExpandChunk /\ k.len = 0
<1> DEFINE k == Alloc(n)
           max == n + ExpandChunk
<1>1. max \in Nat
  BY KVCacheAssumption
<1>2. DOMAIN Fresh(max) = 0..RoundUp(max) - 1 /\ \A i \in 0..RoundUp(max) - 1 : Fresh(max)[i] \in Entry
  BY DEF Fresh, Hole, Entry
<1>3. DOMAIN Nothing = {}
  BY DEF Nothing
<1>4. CASE Exceeds(max)
  <2>1. k = [max |-> max, len |-> 0, inDisk |-> TRUE, mem |-> Nothing, file |-> Fresh(max)]
    BY <1>4 DEF Alloc, Cleared
  <2> HIDE DEF k, max
  <2>2. IsCache(k) /\ k.max = max /\ k.len = 0 /\ Cells(k) = Fresh(max)
    BY <1>1, <2>1 DEF IsCache, Cells
  <2>3. PlacedAt(k)
    BY <1>2, <1>3, <1>4, <2>1, <2>2 DEF PlacedAt
  <2> QED BY <2>2, <2>3 DEF k, max
<1>5. CASE ~Exceeds(max)
  <2>1. k = [max |-> max, len |-> 0, inDisk |-> FALSE, mem |-> Fresh(max), file |-> Nothing]
    BY <1>5 DEF Alloc, Cleared
  <2> HIDE DEF k, max
  <2>2. IsCache(k) /\ k.max = max /\ k.len = 0 /\ Cells(k) = Fresh(max)
    BY <1>1, <2>1 DEF IsCache, Cells
  <2>3. PlacedAt(k)
    BY <1>2, <1>3, <1>5, <2>1, <2>2 DEF PlacedAt
  <2> QED BY <2>2, <2>3 DEF k, max
<1> QED BY <1>4, <1>5

\* What is read of a row is an entry, and the one that lies there.
LEMMA RowState ==
  ASSUME NEW c, IsCache(c), PlacedAt(c), NEW j \in Nat
  PROVE  Row(c, j) \in Entry /\ (j < c.max => Row(c, j) = Cells(c)[j])
<1>1. c.max \in Nat /\ RoundUp(c.max) \in Nat /\ RoundUp(c.max) >= c.max
  BY CacheFields, RoundUpBounds
<1>2. j < c.max => Cells(c)[j] \in Entry
  BY <1>1 DEF PlacedAt
<1>3. Hole \in Entry
  BY DEF Hole, Entry
<1> QED BY <1>2, <1>3 DEF Row

\* Moving blocks, whole or not, leaves a cache placed (KVCacheManager::onRealloc).
LEMMA CompactedPlaced ==
  ASSUME NEW c, IsCache(c), PlacedAt(c), NEW start \in Nat, NEW from \in Nat, NEW size \in Nat
  PROVE  LET k == Compacted(c, start, from, size) IN
         IsCache(k) /\ PlacedAt(k) /\ k.max = c.max /\ k.len = start + size
<1> DEFINE src == RoundDown(from)
           dst == RoundUp(start)
           moved == RoundUp(from + size) - src
           cells == Cells(c)
           f == [i \in DOMAIN cells |-> IF i \in dst..dst + moved - 1 THEN Row(c, i - dst + src)
                                        ELSE cells[i]]
           w == WithCells(c, f)
           k == Compacted(c, start, from, size)
<1>1. c.max \in Nat /\ RoundUp(c.max) \in Nat /\ dst \in Nat /\ RoundUp(from + size) \in Nat
  BY CacheFields, RoundUpBounds
<1>2. src \in Int
  BY KVCacheAssumption DEF RoundDown
<1>3. DOMAIN cells = 0..RoundUp(c.max) - 1 /\ \A i \in 0..RoundUp(c.max) - 1 : cells[i] \in Entry
  BY DEF PlacedAt, Cells
<1>4. CASE src <= dst
  <2>1. k = [c EXCEPT !.len = start + size]
    BY <1>4 DEF Compacted
  <2> HIDE DEF k
  <2>2. /\ IsCache(k) /\ k.len = start + size /\ k.max = c.max /\ k.inDisk = c.inDisk
        /\ k.mem = c.mem /\ k.file = c.file
    BY <2>1, SetLen
  <2>3. PlacedAt(k)
    BY <2>2 DEF Cells, PlacedAt
  <2> QED BY <2>2, <2>3 DEF k
<1>5. CASE ~(src <= dst)
  <2>1. k = [w EXCEPT !.len = start + size]
    BY <1>5 DEF Compacted
  <2> HIDE DEF k
  <2>2. DOMAIN f = 0..RoundUp(c.max) - 1
    BY <1>3
  <2>3. \A i \in 0..RoundUp(c.max) - 1 : f[i] \in Entry
    <3> HIDE DEF cells, src, dst
    <3> TAKE i \in 0..RoundUp(c.max) - 1
    <3>1. CASE i \in dst..dst + moved - 1
      <4>1. i - dst + src \in Nat
        <5> HIDE DEF moved
        <5>1. i >= dst /\ i \in Nat
          BY <1>1, <3>1
        <5> QED BY <1>1, <1>2, <1>5, <5>1
      <4> QED BY <1>3, <3>1, <4>1, RowState
    <3>2. CASE ~(i \in dst..dst + moved - 1)
      BY <1>3, <3>2
    <3> QED BY <3>1, <3>2
  <2> HIDE DEF f
  <2>4. IsCache(w) /\ PlacedAt(w) /\ w.max = c.max /\ w.len = c.len /\ Cells(w) = f
    BY <2>2, <2>3, SetCells
  <2> HIDE DEF w
  <2>5. /\ IsCache(k) /\ k.len = start + size /\ k.max = w.max /\ k.inDisk = w.inDisk
        /\ k.mem = w.mem /\ k.file = w.file
    BY <2>1, <2>4, SetLen
  <2>6. PlacedAt(k)
    BY <2>4, <2>5 DEF Cells, PlacedAt
  <2> QED BY <2>4, <2>5, <2>6 DEF k
<1> QED BY <1>4, <1>5

\* Moving whole blocks down keeps what lies before and what is moved
\* (KVCacheManager::onRealloc).
LEMMA CompactedState ==
  ASSUME NEW c, IsCache(c), PlacedAt(c), NEW start \in Nat, NEW from \in Nat, NEW size \in Nat,
         start % Align = 0, from % Align = 0, start < from, from + size <= c.max
  PROVE  LET k == Compacted(c, start, from, size) IN
         /\ IsCache(k) /\ PlacedAt(k) /\ k.max = c.max /\ k.len = start + size
         /\ \A i \in 0..start + size - 1 :
               Cells(k)[i] = IF i < start THEN Cells(c)[i] ELSE Cells(c)[i - start + from]
<1> DEFINE moved == RoundUp(from + size) - from
           cells == Cells(c)
           f == [i \in DOMAIN cells |-> IF i \in start..start + moved - 1 THEN Row(c, i - start + from)
                                        ELSE cells[i]]
           w == WithCells(c, f)
           k == Compacted(c, start, from, size)
<1>1. /\ c.max \in Nat /\ RoundUp(c.max) \in Nat /\ RoundUp(c.max) >= c.max
      /\ RoundUp(from + size) \in Nat /\ RoundUp(from + size) >= from + size
      /\ RoundUp(from + size) <= RoundUp(c.max)
  BY CacheFields, RoundUpBounds, RoundUpMonotone
<1>2. RoundDown(from) = from /\ RoundUp(start) = start
  BY RoundWhole
<1>3. k = [w EXCEPT !.len = start + size]
  BY <1>2 DEF Compacted
<1>4. DOMAIN cells = 0..RoundUp(c.max) - 1 /\ \A i \in 0..RoundUp(c.max) - 1 : cells[i] \in Entry
  BY DEF PlacedAt, Cells
<1>row. \A j \in Nat : Row(c, j) \in Entry /\ (j < c.max => Row(c, j) = cells[j])
  BY <1>1, RowState
<1> HIDE DEF cells
<1>5. DOMAIN f = 0..RoundUp(c.max) - 1
  BY <1>4
<1>6. \A i \in 0..RoundUp(c.max) - 1 : f[i] \in Entry
  <2> TAKE i \in 0..RoundUp(c.max) - 1
  <2>1. i \in start..start + moved - 1 => i - start + from \in Nat
    BY <1>1
  <2> QED BY <1>1, <1>4, <1>row, <2>1
<1>7. \A i \in 0..start + size - 1 : f[i] = IF i < start THEN cells[i] ELSE cells[i - start + from]
  <2> TAKE i \in 0..start + size - 1
  <2>1. i \in 0..RoundUp(c.max) - 1
    BY <1>1
  <2>2. CASE i < start
    BY <1>1, <1>4, <2>1, <2>2
  <2>3. CASE ~(i < start)
    <3>1. i \in start..start + moved - 1 /\ i - start + from \in Nat /\ i - start + from < c.max
      BY <1>1, <2>3
    <3> QED BY <1>4, <1>row, <2>1, <2>3, <3>1
  <2> QED BY <2>2, <2>3
<1> HIDE DEF f
<1>8. IsCache(w) /\ PlacedAt(w) /\ w.max = c.max /\ w.len = c.len /\ Cells(w) = f
  BY <1>5, <1>6, SetCells
<1> HIDE DEF w
<1>9. /\ IsCache(k) /\ k.len = start + size /\ k.max = w.max /\ k.inDisk = w.inDisk
      /\ k.mem = w.mem /\ k.file = w.file
  <2> HIDE DEF k
  <2> QED BY <1>3, <1>8, SetLen
<1> HIDE DEF k
<1>10. Cells(k) = f /\ PlacedAt(k)
  BY <1>8, <1>9 DEF Cells, PlacedAt
<1> QED BY <1>7, <1>8, <1>9, <1>10 DEF k, cells

\* Adding at the end keeps what was there.
LEMMA PushBackState ==
  ASSUME NEW c, IsCache(c), PlacedAt(c), NEW entries \in Seq(Entry), c.len + Len(entries) <= c.max
  PROVE  LET k == PushBack(c, entries) IN
         /\ IsCache(k) /\ PlacedAt(k) /\ k.max = c.max /\ k.len = c.len + Len(entries)
         /\ \A i \in 0..c.len - 1 : Cells(k)[i] = Cells(c)[i]
         /\ \A j \in 1..Len(entries) : Cells(k)[c.len + j - 1] = entries[j]
<1> DEFINE n == Len(entries)
           cells == Cells(c)
           f == [i \in DOMAIN cells |-> IF i \in c.len..c.len + n - 1 THEN entries[i - c.len + 1] ELSE cells[i]]
           w == WithCells(c, f)
           k == PushBack(c, entries)
<1>1. c.max \in Nat /\ c.len \in Nat /\ n \in Nat /\ RoundUp(c.max) \in Nat /\ RoundUp(c.max) >= c.max
  <2>1. c.max \in Nat /\ c.len \in Nat
    BY CacheFields
  <2>2. RoundUp(c.max) \in Nat /\ RoundUp(c.max) >= c.max
    BY <2>1, RoundUpBounds
  <2>3. n \in Nat
    OBVIOUS
  <2> QED BY <2>1, <2>2, <2>3
<1>2. \A j \in 1..n : entries[j] \in Entry
  OBVIOUS
<1>3. DOMAIN cells = 0..RoundUp(c.max) - 1 /\ \A i \in 0..RoundUp(c.max) - 1 : cells[i] \in Entry
  BY DEF PlacedAt, Cells
<1>4. k = [w EXCEPT !.len = w.len + n]
  BY DEF PushBack
<1> HIDE DEF cells, n
<1>5. DOMAIN f = 0..RoundUp(c.max) - 1
  BY <1>3
<1>6. \A i \in 0..RoundUp(c.max) - 1 : f[i] \in Entry
  BY <1>1, <1>2, <1>3
<1>7. \A i \in 0..c.len - 1 : f[i] = cells[i]
  <2>1. c.len <= RoundUp(c.max)
    BY <1>1 DEF n
  <2> QED BY <1>1, <1>3, <2>1
<1>8. \A j \in 1..n : f[c.len + j - 1] = entries[j]
  <2> TAKE j \in 1..n
  <2>1. c.len + n <= c.max
    BY DEF n
  <2>2. /\ c.len + j - 1 \in 0..RoundUp(c.max) - 1 /\ c.len + j - 1 \in c.len..c.len + n - 1
        /\ (c.len + j - 1) - c.len + 1 = j
    <3> HIDE DEF n
    <3>1. j \in 1..n
      OBVIOUS
    <3> QED BY <1>1, <2>1, <3>1, SMTT(30)
  <2> QED BY <1>3, <2>2
<1> HIDE DEF f
<1>9. IsCache(w) /\ PlacedAt(w) /\ w.max = c.max /\ w.len = c.len /\ Cells(w) = f
  BY <1>5, <1>6, SetCells
<1> HIDE DEF w
<1>10. /\ IsCache(k) /\ k.len = c.len + n /\ k.max = w.max /\ k.inDisk = w.inDisk
       /\ k.mem = w.mem /\ k.file = w.file
  <2> HIDE DEF k
  <2>1. k = [w EXCEPT !.len = c.len + n] /\ c.len + n \in Nat
    BY <1>1, <1>4, <1>9
  <2> QED BY <2>1, <1>9, SetLen
<1> HIDE DEF k
<1>11. Cells(k) = f /\ PlacedAt(k)
  BY <1>9, <1>10 DEF Cells, PlacedAt
<1> QED BY <1>7, <1>8, <1>9, <1>10, <1>11 DEF k, cells, n

\* What a request that is met asks for.
LEMMA RequestNumbers ==
  ASSUME NEW m, RequestOK(m)
  PROVE  /\ m.previous \in Nat /\ m.remove \in Nat /\ m.add \in Nat
         /\ Reserved(m) \in Nat /\ Reserved(m) <= m.remove
         /\ Kept(m) \in Nat /\ Kept(m) <= m.previous /\ Needed(m) = Kept(m) + m.add
         /\ m.reserve # <<>> => /\ m.reserve[1] \in Nat \ {0} /\ m.reserve[2] \in Nat \ {0}
                                /\ m.remove = m.reserve[1] + m.reserve[2]
                                /\ Kept(m) = m.previous - m.remove + m.reserve[2]
         /\ m.reserve = <<>> => Kept(m) = m.previous - m.remove
<1>1. m.previous \in Nat /\ m.remove \in Nat /\ m.add \in Nat /\ m.remove <= m.previous
  BY DEF RequestOK, IsMeta
<1>2. CASE m.reserve = <<>>
  BY <1>1, <1>2 DEF Reserved, Kept, Needed
<1>3. CASE m.reserve # <<>>
  <2>1. /\ m.reserve[1] \in Nat \ {0} /\ m.reserve[2] \in Nat \ {0}
        /\ m.remove = m.reserve[1] + m.reserve[2]
    BY <1>3 DEF RequestOK
  <2>2. Reserved(m) = m.reserve[2]
    BY <1>3 DEF Reserved
  <2> DEFINE r1 == m.reserve[1]
             r2 == m.reserve[2]
  <2>3. Kept(m) = m.previous - m.remove + r2 /\ Needed(m) = m.previous + m.add - m.remove + r2
    BY <2>2 DEF Kept, Needed
  <2> HIDE DEF r1, r2
  <2>4. /\ r2 \in Nat /\ r2 <= m.remove
        /\ Kept(m) \in Nat /\ Kept(m) <= m.previous /\ Needed(m) = Kept(m) + m.add
    <3>1. r1 \in Nat \ {0} /\ r2 \in Nat \ {0} /\ m.remove = r1 + r2
      BY <2>1 DEF r1, r2
    <3> QED BY <1>1, <2>3, <3>1
  <2> QED BY <1>1, <1>3, <2>1, <2>2, <2>3, <2>4 DEF r1, r2
<1> QED BY <1>2, <1>3

\* A request that leaves something keeps what it does not remove, in its order
\* (KVCacheManager::onRealloc).
LEMMA ReallocState ==
  ASSUME config \in Configs, NEW c, IsCache(c), PlacedAt(c), c.len <= c.max,
         NEW m, RequestOK(m), m.previous = c.len, m.remove < m.previous
  PROVE  LET k == Realloc(c, m) IN
         /\ IsCache(k) /\ PlacedAt(k) /\ k.len = Kept(m) /\ Needed(m) <= k.max
         /\ k.max = c.max \/ k.max = Needed(m) + ExpandChunk
         /\ \A i \in 1..Kept(m) : Cells(k)[i - 1] = Cells(c)[Place(m, i)]
<1> DEFINE grow == Needed(m) > c.max
           e == IF grow THEN Expanded(c, Needed(m) + ExpandChunk) ELSE c
           start == c.len - m.remove
           k == Realloc(c, m)
<1>1. /\ c.max \in Nat /\ c.len \in Nat /\ start \in Nat /\ RoundUp(c.max) \in Nat /\ RoundUp(c.max) >= c.max
      /\ Kept(m) \in Nat /\ Kept(m) <= c.len /\ Needed(m) \in Nat
  <2>1. c.max \in Nat /\ c.len \in Nat
    BY CacheFields
  <2>2. RoundUp(c.max) \in Nat /\ RoundUp(c.max) >= c.max
    BY <2>1, RoundUpBounds
  <2>3. /\ m.remove \in Nat /\ m.add \in Nat /\ Kept(m) \in Nat /\ Kept(m) <= m.previous
        /\ Needed(m) = Kept(m) + m.add
    BY RequestNumbers
  <2> QED BY <2>1, <2>2, <2>3
<1>2. /\ IsCache(e) /\ PlacedAt(e) /\ e.len = c.len /\ c.max <= e.max
      /\ e.max = c.max \/ e.max = Needed(m) + ExpandChunk
      /\ Needed(m) <= e.max
      /\ \A i \in 0..RoundUp(c.max) - 1 : Cells(e)[i] = Cells(c)[i]
  <2>1. CASE ~grow
    BY <1>1, <2>1
  <2>2. CASE grow
    <3>1. Needed(m) + ExpandChunk \in Nat /\ c.max <= Needed(m) + ExpandChunk /\ Needed(m) <= Needed(m) + ExpandChunk
      BY <1>1, <2>2, KVCacheAssumption
    <3>2. e = Expanded(c, Needed(m) + ExpandChunk)
      BY <2>2
    <3> HIDE DEF e, grow
    <3> QED BY <3>1, <3>2, ExpandedState
  <2> QED BY <2>1, <2>2
<1>3. e.max \in Nat
  <2> HIDE DEF e
  <2> QED BY <1>2, CacheFields
<1>4. CASE m.reserve = <<>>
  <2>1. k = [e EXCEPT !.len = start]
    BY <1>4 DEF Realloc
  <2> HIDE DEF k, e
  <2>2. /\ IsCache(k) /\ k.len = start /\ k.max = e.max /\ k.inDisk = e.inDisk
        /\ k.mem = e.mem /\ k.file = e.file
    BY <1>1, <1>2, <2>1, SetLen
  <2>3. Cells(k) = Cells(e) /\ PlacedAt(k)
    BY <1>2, <2>2 DEF Cells, PlacedAt
  <2>4. Kept(m) = start
    BY <1>4, RequestNumbers
  <2>5. \A i \in 1..Kept(m) : Place(m, i) = i - 1 /\ i - 1 \in 0..RoundUp(c.max) - 1
    BY <1>1, <2>4 DEF Place
  <2> QED BY <1>2, <2>2, <2>3, <2>4, <2>5 DEF k
<1>5. CASE m.reserve # <<>>
  <2> DEFINE r1 == m.reserve[1]
             r2 == m.reserve[2]
  <2>1. /\ r1 \in Nat \ {0} /\ r2 \in Nat \ {0} /\ m.remove = r1 + r2
        /\ start % Align = 0 /\ r1 % Align = 0 /\ Kept(m) = start + r2
    BY <1>5, RequestNumbers DEF RequestOK
  <2>2. k = Compacted(e, start, start + r1, r2)
    BY <1>5 DEF Realloc
  <2>3. (start + r1) % Align = 0
    BY <1>1, <2>1, WholeSum
  <2> HIDE DEF k, e, r1, r2
  <2>4. start + r1 \in Nat /\ start < start + r1 /\ start + r1 + r2 <= e.max
    <3>1. start + r1 + r2 = c.len
      BY <1>1, <2>1
    <3>2. c.len <= e.max
      BY <1>1, <1>2, <1>3
    <3> QED BY <1>1, <2>1, <3>1, <3>2
  <2>5. /\ IsCache(k) /\ PlacedAt(k) /\ k.max = e.max /\ k.len = start + r2
        /\ \A i \in 0..start + r2 - 1 :
              Cells(k)[i] = IF i < start THEN Cells(e)[i] ELSE Cells(e)[i - start + (start + r1)]
    <3> HIDE DEF start
    <3> QED BY <1>1, <1>2, <2>1, <2>2, <2>3, <2>4, CompactedState
  <2>6. ASSUME NEW i \in 1..Kept(m) PROVE Cells(k)[i - 1] = Cells(c)[Place(m, i)]
    <3>1. i - 1 \in 0..start + r2 - 1 /\ i - 1 \in 0..RoundUp(c.max) - 1
      BY <1>1, <2>1, <2>6
    <3>2. CASE i <= start
      <4>1. Place(m, i) = i - 1
        BY <3>2 DEF Place
      <4> QED BY <1>1, <1>2, <2>5, <3>1, <3>2, <4>1
    <3>3. CASE ~(i <= start)
      <4>1. Place(m, i) = i - 1 + r1
        BY <3>3 DEF Place, r1
      <4>2. i - 1 + r1 \in 0..RoundUp(c.max) - 1
        BY <1>1, <2>1, <2>6, RequestNumbers, SMTT(30)
      <4>3. Cells(k)[i - 1] = Cells(e)[i - 1 - start + (start + r1)]
        BY <1>1, <2>5, <3>1, <3>3
      <4>4. i - 1 - start + (start + r1) = i - 1 + r1
        BY <1>1, <2>1
      <4> QED BY <1>2, <4>1, <4>2, <4>3, <4>4
    <3> QED BY <3>2, <3>3
  <2> QED BY <1>2, <2>1, <2>5, <2>6 DEF k
<1> QED BY <1>4, <1>5

\* What a forward may find, and what it leaves in the cache.
Attendable(c, m, entries) ==
    /\ config \in Configs /\ IsCache(c) /\ c.len <= c.max /\ (c.max > 0 => PlacedAt(c))
    /\ RequestOK(m) /\ m.previous = c.len
    /\ entries \in Seq(Entry) /\ m.add = Len(entries) /\ entries # <<>>
AttendsTo(c, m, entries, k) ==
    /\ IsCache(k) /\ PlacedAt(k) /\ k.len = Needed(m) /\ Needed(m) <= k.max
    /\ k.max = c.max \/ k.max <= Needed(m) + ExpandChunk
    /\ \A i \in 1..Kept(m) : Cells(k)[i - 1] = Cells(c)[Place(m, i)]
    /\ \A j \in 1..Len(entries) : Cells(k)[Kept(m) + j - 1] = entries[j]

\* A forward attends to what callers have not removed, in its order, and to the
\* entries it adds behind (CPUAttention::onExecute).
LEMMA AttendedState ==
  ASSUME NEW c, NEW m, NEW entries, Attendable(c, m, entries)
  PROVE  AttendsTo(c, m, entries, Attended(c, m, entries))
<1> DEFINE a == IF m.previous = m.remove THEN Alloc(m.add) ELSE Realloc(c, m)
           k == Attended(c, m, entries)
<1> USE DEF Attendable
<1>1. m.add \in Nat \ {0} /\ Kept(m) \in Nat /\ Needed(m) = Kept(m) + m.add /\ m.previous \in Nat
      /\ m.remove \in Nat /\ m.remove <= m.previous /\ c.max \in Nat
  BY RequestNumbers, CacheFields DEF RequestOK
<1>2. /\ IsCache(a) /\ PlacedAt(a) /\ a.len = Kept(m) /\ Needed(m) <= a.max
      /\ a.max = c.max \/ a.max = Needed(m) + ExpandChunk
      /\ \A i \in 1..Kept(m) : Cells(a)[i - 1] = Cells(c)[Place(m, i)]
  <2>1. CASE m.previous = m.remove
    <3>1. a = Alloc(m.add)
      BY <2>1
    <3>2. m.reserve = <<>>
      BY <1>1, <2>1 DEF RequestOK
    <3>3. Kept(m) = 0 /\ Needed(m) = m.add
      BY <1>1, <2>1, <3>2, RequestNumbers
    <3> HIDE DEF a
    <3>4. IsCache(a) /\ PlacedAt(a) /\ a.max = m.add + ExpandChunk /\ a.len = 0
      BY <1>1, <3>1, AllocState
    <3> QED BY <1>1, <3>3, <3>4, KVCacheAssumption
  <2>2. CASE m.previous # m.remove
    <3>1. a = Realloc(c, m) /\ m.remove < m.previous /\ PlacedAt(c)
      BY <1>1, <2>2, CacheFields
    <3> HIDE DEF a
    <3> QED BY <3>1, ReallocState
  <2> QED BY <2>1, <2>2
<1>3. k = PushBack(a, entries)
  BY DEF Attended
<1> HIDE DEF a, k
<1>4. a.len + Len(entries) <= a.max
  BY <1>1, <1>2
<1>5. /\ IsCache(k) /\ PlacedAt(k) /\ k.max = a.max /\ k.len = a.len + Len(entries)
      /\ \A i \in 0..a.len - 1 : Cells(k)[i] = Cells(a)[i]
      /\ \A j \in 1..Len(entries) : Cells(k)[a.len + j - 1] = entries[j]
  BY <1>2, <1>3, <1>4, PushBackState
<1>6. \A i \in 1..Kept(m) : i - 1 \in 0..a.len - 1
  BY <1>1, <1>2
<1>7. k.len = Needed(m) /\ (k.max = c.max \/ k.max <= Needed(m) + ExpandChunk)
  <2>1. k.max \in Nat
    BY <1>5, CacheFields
  <2> QED BY <1>1, <1>2, <1>5, <2>1
<1>8. AttendsTo(c, m, entries, k)
  BY <1>2, <1>5, <1>6, <1>7 DEF AttendsTo
<1> QED BY <1>8 DEF k

-----------------------------------------------------------------------------
(* Forwards.                                                                *)

\* Whether a cache is placed, a request is in order and what is in the cache
\* depends on the configuration, which never changes.
LEMMA SameConfig ==
  ASSUME config' = config
  PROVE  /\ PlacedAt(kv') => PlacedAt(kv)'
         /\ RequestOK(meta') => RequestOK(meta)'
<1>1. \A n : Exceeds(n)' <=> Exceeds(n)
  BY DEF Exceeds, KVSize, RoundUp
<1>2. PlacedAt(kv') => PlacedAt(kv)'
  BY <1>1 DEF PlacedAt, Cells, RoundUp
<1>3. RequestOK(meta') => RequestOK(meta)'
  BY DEF RequestOK, IsMeta
<1> QED BY <1>2, <1>3

\* The entries of a forward.
LEMMA EntriesState ==
  ASSUME forwarded \in Nat, NEW n \in Nat, NEW from \in Nat
  PROVE  /\ Entries(n, from) \in Seq(Entry) /\ Len(Entries(n, from)) = n
         /\ \A j \in 1..n : Entries(n, from)[j][2] = from + j - 1
  BY DEF Entries, Entry

\* Position ids go on increasing behind a history that they follow.
LEMMA PositionsGoOn ==
  ASSUME NEW h \in Seq(Entry), NEW t \in Seq(Entry), NEW from \in Nat,
         \A i \in 1..Len(h) : h[i][2] < from,
         \A i, j \in 1..Len(h) : i < j => h[i][2] < h[j][2],
         \A j \in 1..Len(t) : t[j][2] = from + j - 1,
         NEW g, g = h \o t
  PROVE  /\ \A i, j \in 1..Len(g) : i < j => g[i][2] < g[j][2]
         /\ \A i \in 1..Len(g) : g[i][2] < from + Len(t)
<1> DEFINE a == Len(h)
           b == Len(t)
<1>1. /\ a \in Nat /\ b \in Nat /\ Len(g) = a + b
      /\ \A i \in 1..a + b : g[i] = IF i <= a THEN h[i] ELSE t[i - a]
  BY ConcatProperties
<1>2. \A i \in 1..a : h[i][2] \in Nat
  BY DEF Entry
<1> HIDE DEF a, b
<1>3. \A i \in 1..a : g[i][2] = h[i][2] /\ g[i][2] \in Nat /\ g[i][2] < from
  BY <1>1, <1>2 DEF a
<1>4. \A i \in a + 1..a + b : g[i][2] = from + (i - a) - 1
  BY <1>1 DEF b
<1>5. ASSUME NEW i \in 1..a + b PROVE g[i][2] < from + b
  <2>1. CASE i \in 1..a
    BY <1>1, <1>3, <2>1
  <2>2. CASE i \in a + 1..a + b
    BY <1>1, <1>4, <2>2
  <2> QED BY <1>1, <2>1, <2>2
<1>6. ASSUME NEW i \in 1..a + b, NEW j \in 1..a + b, i < j PROVE g[i][2] < g[j][2]
  <2>1. CASE j <= a
    BY <1>1, <1>3, <1>6, <2>1 DEF a
  <2>2. CASE i <= a /\ a < j
    <3>1. i \in 1..a /\ j \in a + 1..a + b /\ j - a \in Nat \ {0}
      BY <1>1, <2>2
    <3>2. g[i][2] \in Nat /\ g[i][2] < from /\ g[j][2] = from + (j - a) - 1
      BY <1>3, <1>4, <3>1
    <3>3. ASSUME NEW x \in Nat, x < from, NEW y, y = from + (j - a) - 1 PROVE x < y
      BY SMTT(30), <3>1, <3>3, <1>1
    <3> QED BY <3>2, <3>3
  <2>3. CASE a < i
    <3>1. i \in a + 1..a + b /\ j \in a + 1..a + b
      BY <1>1, <1>6, <2>3
    <3>2. g[i][2] = from + (i - a) - 1 /\ g[j][2] = from + (j - a) - 1
      BY <1>4, <3>1
    <3>3. i - a \in Int /\ j - a \in Int /\ i - a < j - a
      BY <1>1, <1>6
    <3> QED BY <3>2, <3>3
  <2> QED BY <1>1, <1>6, <2>1, <2>2, <2>3
<1> QED BY <1>1, <1>5, <1>6 DEF b

\* What is kept of the past and what a forward adds do not exceed what was ever
\* forwarded, and no more is rejected than was added (KVCacheManager::onRealloc).
LEMMA KeptGrows ==
  ASSUME NEW o \in Nat, NEW q \in Nat, NEW g \in Nat, NEW k \in Nat, NEW r \in 0..k, o <= q, q <= g
  PROVE  o + k \in Nat /\ o + k <= g + k /\ r <= o + k
OBVIOUS

\* A forward that meets request m, of which the history before is h, keeps the
\* invariant if its tokens follow h up to those that are rejected.
LEMMA ForwardKeeps ==
  ASSUME KeptInv, NEW m, RequestOK(m), m.previous = kv.len,
         NEW n \in Nat \ {0}, NEW from \in Nat, from <= forwarded, NEW rejected \in 0..n,
         Forward(m, n, from, rejected),
         NEW h \in Seq(Entry), Len(h) = Kept(m),
         \A i \in 1..Len(h) : h[i] = Cells(kv)[Place(m, i)] /\ h[i][2] < from,
         \A i, j \in 1..Len(h) : i < j => h[i][2] < h[j][2],
         hist' = h \o SubSeq(Entries(n, from), 1, n - rejected),
         allSeqLen' = from + n - rejected
  PROVE  KeptInv'
<1> DEFINE e == Entries(n, from)
           ma == [m EXCEPT !.add = n]
<1> USE DEF KeptInv
<1>1. /\ config' = config /\ forwarded' = forwarded + n /\ forwarded' <= MaxTokens
      /\ kv' = Attended(kv, ma, e)
      /\ meta' = [Synced(ma) EXCEPT !.remove = rejected]
  BY DEF Forward
<1>2. e \in Seq(Entry) /\ Len(e) = n /\ e # <<>> /\ \A j \in 1..n : e[j][2] = from + j - 1
  <2> HIDE DEF e
  <2>1. e \in Seq(Entry) /\ Len(e) = n /\ \A j \in 1..n : e[j][2] = from + j - 1
    BY EntriesState DEF e
  <2>2. e # <<>>
    BY <2>1
  <2> QED BY <2>1, <2>2
<1>3. IsMeta(ma) /\ ma.add = n /\ ma.previous = m.previous /\ ma.remove = m.remove /\ ma.reserve = m.reserve
  BY DEF RequestOK, IsMeta
<1> HIDE DEF e, ma
<1>4. RequestOK(ma) /\ Kept(ma) = Kept(m) /\ \A i : Place(ma, i) = Place(m, i)
  BY <1>3 DEF RequestOK, Kept, Reserved, Place
<1> DEFINE old == Kept(m)
<1>5. old \in Nat /\ old <= m.previous /\ Needed(ma) = old + n /\ m.previous \in Nat /\ old + n \in Nat
  BY <1>3, <1>4, RequestNumbers
<1> HIDE DEF old
<1> DEFINE total == old + n
           accepted == n - rejected
<1>total. total \in Nat /\ total <= forwarded' /\ rejected <= total
  <2>1. m.previous <= forwarded /\ forwarded' = forwarded + n /\ forwarded \in Nat /\ rejected \in 0..n
    BY <1>1 DEF MetaInv
  <2>2. m.previous \in Nat /\ old <= m.previous /\ n \in Nat
    BY <1>5
  <2>3. total \in Nat /\ total <= forwarded + n /\ rejected <= total
    <3> HIDE DEF KeptInv
    <3> QED BY <1>5, <2>1, <2>2, KeptGrows
  <2> QED BY <2>1, <2>3
<1>accepted. accepted \in Nat /\ accepted <= n /\ allSeqLen' = from + accepted
  OBVIOUS
<1>6. /\ IsCache(kv') /\ PlacedAt(kv') /\ kv'.len = old + n /\ old + n <= kv'.max
      /\ kv'.max = kv.max \/ kv'.max <= old + n + ExpandChunk
      /\ \A i \in 1..old : Cells(kv')[i - 1] = Cells(kv)[Place(m, i)]
      /\ \A j \in 1..n : Cells(kv')[old + j - 1] = e[j]
  <2>1. /\ IsCache(kv) /\ kv.len <= kv.max /\ (kv.max > 0 => PlacedAt(kv))
        /\ ma.previous = kv.len /\ ma.add = Len(e)
    BY <1>2, <1>3 DEF CacheInv
  <2> DEFINE k == Attended(kv, ma, e)
  <2>2. /\ IsCache(k) /\ PlacedAt(k) /\ k.len = Needed(ma) /\ Needed(ma) <= k.max
        /\ k.max = kv.max \/ k.max <= Needed(ma) + ExpandChunk
        /\ \A i \in 1..Kept(ma) : Cells(k)[i - 1] = Cells(kv)[Place(ma, i)]
        /\ \A j \in 1..Len(e) : Cells(k)[Kept(ma) + j - 1] = e[j]
    <3>1. Attendable(kv, ma, e)
      BY <1>2, <1>4, <2>1 DEF Attendable
    <3>2. AttendsTo(kv, ma, e, k)
      BY <3>1, AttendedState
    <3> HIDE DEF k
    <3> QED BY <3>2 DEF AttendsTo
  <2> HIDE DEF k
  <2>3. kv' = k
    BY <1>1 DEF k
  <2> QED BY <1>2, <1>4, <1>5, <2>2, <2>3 DEF old
<1>7. meta' = [previous |-> old + n, remove |-> rejected, reserve |-> <<>>, add |-> 0]
  BY <1>1, <1>5 DEF Synced, NoMeta
<1>8. RequestOK(meta)' /\ MetaInv'
  <2>1. RequestOK(meta')
    BY <1>5, <1>7 DEF RequestOK, IsMeta
  <2>2. meta'.previous = kv'.len /\ meta'.previous <= forwarded' /\ meta'.add = 0
    BY <1>6, <1>7, <1>total
  <2> QED BY <1>1, <2>1, <2>2, SameConfig DEF MetaInv
<1>9. CacheInv'
  <2>1. kv'.max \in Nat /\ kv.max \in Nat
    BY <1>6, CacheFields DEF CacheInv
  <2>2. kv'.len <= kv'.max /\ kv'.max > 0
    BY <1>5, <1>6, <2>1
  <2>3. kv'.max <= forwarded' + ExpandChunk
    <3>1. forwarded' \in Nat /\ forwarded <= forwarded'
      BY <1>1, SMTT(30)
    <3>2. CASE kv'.max = kv.max
      BY <2>1, <3>1, <3>2, KVCacheAssumption DEF CacheInv
    <3>3. CASE kv'.max <= total + ExpandChunk
      BY <1>total, <2>1, <3>1, <3>3, KVCacheAssumption
    <3> QED BY <1>6, <3>2, <3>3
  <2>4. IsCache(kv)' /\ PlacedAt(kv)'
    BY <1>1, <1>6, SameConfig DEF IsCache
  <2> QED BY <2>2, <2>3, <2>4 DEF CacheInv
<1> DEFINE tail == SubSeq(e, 1, accepted)
<1>10. /\ tail \in Seq(Entry) /\ Len(tail) = accepted /\ accepted \in Nat
       /\ \A j \in 1..accepted : tail[j] = e[j]
  BY <1>2, <1>accepted
<1>11. hist' = h \o tail
  BY DEF e
<1> HIDE DEF tail, accepted
<1>12. /\ hist' \in Seq(Entry) /\ Len(hist') = old + accepted
       /\ \A i \in 1..old : hist'[i] = h[i]
       /\ \A i \in old + 1..old + accepted : hist'[i] = e[i - old]
  <2>1. hist' \in Seq(Entry) /\ Len(hist') = old + accepted
    BY <1>10, <1>11, ConcatProperties DEF old
  <2>2. \A i \in 1..old : hist'[i] = h[i]
    BY <1>10, <1>11 DEF old
  <2>3. ASSUME NEW i \in old + 1..old + accepted PROVE hist'[i] = e[i - old]
    <3>1. i - old \in 1..accepted /\ i \in 1..old + accepted /\ ~(i <= old)
      BY <1>5, <1>accepted
    <3>2. Len(h) = old
      BY DEF old
    <3>3. hist'[i] = tail[i - old]
      BY <1>10, <1>11, <3>1, <3>2, ConcatProperties, SMTT(30)
    <3> QED BY <1>10, <3>1, <3>3
  <2> QED BY <2>1, <2>2, <2>3
<1>13. Kept(meta)' = old + accepted /\ \A i \in 1..old + accepted : Place(meta', i) = i - 1
  BY <1>5, <1>7, <1>accepted DEF Kept, Reserved, Place, accepted
<1>14. \A i \in 1..Len(hist') : i \in 1..old \/ (i \in old + 1..old + accepted /\ i - old \in 1..n)
  <2> TAKE i \in 1..Len(hist')
  <2>1. i \in 1..old + accepted /\ old \in Nat /\ accepted \in Nat /\ accepted <= n
    BY <1>5, <1>12, <1>accepted
  <2> QED BY <2>1
<1>15. HistInv'
  <2>1. ASSUME NEW i \in 1..Len(hist') PROVE hist'[i] = Cells(kv')[i - 1]
    <3>1. CASE i \in 1..old
      BY <1>6, <1>12, <3>1 DEF old
    <3>2. CASE i \in old + 1..old + accepted /\ i - old \in 1..n
      <4>1. old + (i - old) - 1 = i - 1
        BY <1>5
      <4> QED BY <1>6, <1>12, <3>2, <4>1
    <3> QED BY <1>14, <3>1, <3>2
  <2>2. \A i \in 1..Len(hist') : hist'[i] = Cells(kv)'[Place(meta, i)']
    BY <1>12, <1>13, <2>1, SMTT(30) DEF Cells, Place
  <2> QED BY <1>12, <1>13, <2>2 DEF HistInv
<1>16. PositionInv'
  <2>1. \A j \in 1..Len(tail) : tail[j][2] = from + j - 1
    BY <1>2, <1>10, <1>accepted
  <2>2. /\ \A i, j \in 1..Len(hist') : i < j => hist'[i][2] < hist'[j][2]
        /\ \A i \in 1..Len(hist') : hist'[i][2] < from + Len(tail)
    BY <1>10, <1>11, <2>1, PositionsGoOn
  <2> QED BY <1>10, <1>accepted, <2>2 DEF PositionInv
<1>17. allSeqLen' \in Nat /\ allSeqLen' <= forwarded' /\ forwarded' \in Nat
  BY <1>1, <1>accepted, SMTT(30) DEF accepted
<1> QED BY <1>1, <1>8, <1>9, <1>15, <1>16, <1>17

-----------------------------------------------------------------------------
(* Steps.                                                                   *)

\* A configuration holds an empty cache at first (Llm::load).
LEMMA InitKept == Init => KeptInv
<1> SUFFICES ASSUME Init PROVE KeptInv
  OBVIOUS
<1> USE DEF Init
<1>1. CacheInv
  <2>1. IsCache(kv) /\ kv.max = 0 /\ kv.len = 0
    BY DEF IsCache, Cleared
  <2> QED BY <2>1, KVCacheAssumption DEF CacheInv
<1>2. MetaInv
  <2>1. kv.len = 0
    BY DEF Cleared
  <2>2. RequestOK(meta) /\ meta.previous = 0 /\ meta.add = 0
    BY DEF RequestOK, IsMeta, NoMeta
  <2> QED BY <2>1, <2>2 DEF MetaInv
<1>3. HistInv
  BY DEF HistInv, Kept, Reserved, NoMeta
<1>4. PositionInv
  BY DEF PositionInv
<1> QED BY <1>1, <1>2, <1>3, <1>4, KVCacheAssumption DEF KeptInv

\* A prompt is forwarded behind the history, or behind nothing (Llm::response).
LEMMA ResponseKeeps ==
  ASSUME KeptInv, NEW n \in Prompts, Response(n)
  PROVE  KeptInv'
<1>1. n \in Nat \ {0}
  BY KVCacheAssumption
<1>2. ASSUME NEW from \in Nat PROVE SubSeq(Entries(n, from), 1, n - 0) = Entries(n, from)
  <2> DEFINE e == Entries(n, from)
  <2>1. e \in Seq(Entry) /\ Len(e) = n
    BY <1>1, EntriesState DEF KeptInv
  <2> HIDE DEF e
  <2>2. SubSeq(e, 1, n - 0) = e
    BY <1>1, <2>1, SubSeqFull
  <2> QED BY <2>2 DEF e
<1>3. CASE config.reuse
  <2>1. /\ Forward(meta, n, allSeqLen, 0) /\ allSeqLen' = allSeqLen + n - 0
        /\ hist' = hist \o SubSeq(Entries(n, allSeqLen), 1, n - 0)
    <3>1. allSeqLen \in Nat /\ SubSeq(Entries(n, allSeqLen), 1, n - 0) = Entries(n, allSeqLen)
      BY <1>2 DEF KeptInv
    <3>2. /\ Forward(meta, n, allSeqLen, 0) /\ allSeqLen' = allSeqLen + n
          /\ hist' = hist \o Entries(n, allSeqLen)
      BY <1>3 DEF Response
    <3> QED BY <1>1, <3>1, <3>2
  <2>2. /\ hist \in Seq(Entry) /\ Len(hist) = Kept(meta)
        /\ \A i \in 1..Len(hist) : hist[i] = Cells(kv)[Place(meta, i)] /\ hist[i][2] < allSeqLen
        /\ \A i, j \in 1..Len(hist) : i < j => hist[i][2] < hist[j][2]
    BY DEF KeptInv, HistInv, PositionInv
  <2>3. RequestOK(meta) /\ meta.previous = kv.len /\ allSeqLen \in Nat /\ allSeqLen <= forwarded /\ 0 \in 0..n
    BY <1>1 DEF KeptInv, MetaInv
  <2> QED BY <1>1, <2>1, <2>2, <2>3, ForwardKeeps
<1>4. CASE ~config.reuse
  <2> DEFINE m == Dropped(meta)
             none == <<>>
  <2>1. /\ Forward(m, n, 0, 0) /\ allSeqLen' = 0 + n - 0
        /\ hist' = none \o SubSeq(Entries(n, 0), 1, n - 0)
    BY <1>1, <1>2, <1>4 DEF Response
  <2>2. meta.reserve = <<>> /\ IsMeta(meta) /\ meta.previous = kv.len
    BY <1>4 DEF KeptInv, MetaInv, RequestOK
  <2>3. /\ IsMeta(m) /\ m.previous = meta.previous /\ m.remove = meta.previous /\ m.reserve = <<>>
    BY <2>2 DEF Dropped, IsMeta
  <2> HIDE DEF m
  <2>4. RequestOK(m) /\ Kept(m) = 0 /\ m.previous = kv.len
    BY <2>2, <2>3 DEF RequestOK, IsMeta, Kept, Reserved
  <2>5. /\ none \in Seq(Entry) /\ Len(none) = Kept(m)
        /\ \A i \in 1..Len(none) : none[i] = Cells(kv)[Place(m, i)] /\ none[i][2] < 0
        /\ \A i, j \in 1..Len(none) : i < j => none[i][2] < none[j][2]
    BY <2>4
  <2>6. 0 \in Nat /\ 0 <= forwarded /\ 0 \in 0..n
    BY <1>1 DEF KeptInv
  <2> HIDE DEF none
  <2> QED BY <1>1, <2>1, <2>4, <2>5, <2>6, ForwardKeeps
<1> QED BY <1>3, <1>4

\* One token is forwarded behind the history; nothing was asked to be removed
\* (ArGeneration::generate).
LEMMA DecodeKeeps ==
  ASSUME KeptInv, ~Pending, Decode
  PROVE  KeptInv'
<1> DEFINE e == Entries(1, allSeqLen)
<1>1. e \in Seq(Entry) /\ Len(e) = 1
  BY EntriesState DEF KeptInv
<1>2. SubSeq(e, 1, 1 - 0) = e
  <2> HIDE DEF e
  <2> QED BY <1>1, SubSeqFull
<1>3. meta.remove = 0 /\ IsMeta(meta)
  BY DEF Pending, KeptInv, MetaInv, RequestOK
<1>4. [meta EXCEPT !.remove = 0] = meta
  BY <1>3 DEF IsMeta
<1>5. /\ Forward(meta, 1, allSeqLen, 0) /\ allSeqLen' = allSeqLen + 1 - 0
      /\ hist' = hist \o SubSeq(e, 1, 1 - 0)
  <2>1. /\ Forward([meta EXCEPT !.remove = 0], 1, allSeqLen, 0) /\ allSeqLen' = allSeqLen + 1
        /\ hist' = hist \o e
    BY DEF Decode
  <2>2. allSeqLen + 1 = allSeqLen + 1 - 0
    BY DEF KeptInv
  <2> HIDE DEF e
  <2> QED BY <1>2, <1>4, <2>1, <2>2
<1>6. /\ hist \in Seq(Entry) /\ Len(hist) = Kept(meta)
      /\ \A i \in 1..Len(hist) : hist[i] = Cells(kv)[Place(meta, i)] /\ hist[i][2] < allSeqLen
      /\ \A i, j \in 1..Len(hist) : i < j => hist[i][2] < hist[j][2]
  BY DEF KeptInv, HistInv, PositionInv
<1>7. /\ RequestOK(meta) /\ meta.previous = kv.len /\ allSeqLen \in Nat /\ allSeqLen <= forwarded
      /\ 1 \in Nat \ {0} /\ 0 \in 0..1
  BY DEF KeptInv, MetaInv
<1> QED BY <1>5, <1>6, <1>7, ForwardKeeps

\* Drafts are forwarded behind the history, and those that are rejected are left
\* for the next forward to remove (LookaheadGeneration::generate).
LEMMA VerifyKeeps ==
  ASSUME KeptInv, NEW drafts \in 1..DraftLength + 1, NEW accepted \in 1..drafts, Verify(drafts, accepted)
  PROVE  KeptInv'
<1>1. /\ drafts \in Nat \ {0} /\ accepted \in Nat /\ drafts - accepted \in 0..drafts
      /\ drafts - (drafts - accepted) = accepted
  BY KVCacheAssumption
<1>2. /\ Forward(meta, drafts, allSeqLen, drafts - accepted)
      /\ allSeqLen' = allSeqLen + drafts - (drafts - accepted)
      /\ hist' = hist \o SubSeq(Entries(drafts, allSeqLen), 1, drafts - (drafts - accepted))
  BY <1>1 DEF Verify, Advance, KeptInv
<1>3. /\ hist \in Seq(Entry) /\ Len(hist) = Kept(meta)
      /\ \A i \in 1..Len(hist) : hist[i] = Cells(kv)[Place(meta, i)] /\ hist[i][2] < allSeqLen
      /\ \A i, j \in 1..Len(hist) : i < j => hist[i][2] < hist[j][2]
  BY DEF KeptInv, HistInv, PositionInv
<1>4. RequestOK(meta) /\ meta.previous = kv.len /\ allSeqLen \in Nat /\ allSeqLen <= forwarded
  BY DEF KeptInv, MetaInv
<1> QED BY <1>1, <1>2, <1>3, <1>4, ForwardKeeps

\* A step that leaves the cache alone keeps what is said of the cache.
LEMMA SameCache ==
  ASSUME KeptInv, UNCHANGED <<config, kv, forwarded>>
  PROVE  CacheInv' /\ config' \in Configs /\ forwarded' \in Nat /\ forwarded' <= MaxTokens
<1>1. \A n : Exceeds(n)' <=> Exceeds(n)
  BY DEF Exceeds, KVSize, RoundUp
<1>2. PlacedAt(kv)' <=> PlacedAt(kv)
  BY <1>1 DEF PlacedAt, Cells, RoundUp
<1>3. IsCache(kv)' <=> IsCache(kv)
  BY DEF IsCache
<1> QED BY <1>2, <1>3 DEF KeptInv, CacheInv

\* A reset asks for all to be removed (Llm::reset).
LEMMA ResetKeeps ==
  ASSUME KeptInv, meta.reserve = <<>>, Reset
  PROVE  KeptInv'
<1>1. CacheInv' /\ config' \in Configs /\ forwarded' \in Nat /\ forwarded' <= MaxTokens
  BY SameCache DEF Reset
<1>2. meta.reserve = <<>> /\ IsMeta(meta) /\ meta.add = 0 /\ meta.previous = kv.len /\ meta.previous <= forwarded
  BY DEF KeptInv, MetaInv, RequestOK
<1>3. /\ IsMeta(meta') /\ meta'.previous = meta.previous /\ meta'.remove = meta.previous
      /\ meta'.reserve = <<>> /\ meta'.add = 0
  BY <1>2 DEF Reset, Dropped, IsMeta
<1>4. MetaInv'
  <2>1. RequestOK(meta')
    BY <1>3 DEF RequestOK, IsMeta
  <2> QED BY <1>2, <1>3, <2>1, SameConfig DEF Reset, MetaInv
<1>5. HistInv'
  <2>1. Kept(meta)' = 0
    BY <1>3 DEF Kept, Reserved, IsMeta
  <2>2. hist' = <<>>
    BY DEF Reset
  <2> QED BY <2>1, <2>2 DEF HistInv
<1>6. PositionInv'
  BY DEF Reset, PositionInv
<1>7. allSeqLen' \in Nat /\ allSeqLen' <= forwarded'
  BY <1>1 DEF Reset
<1> QED BY <1>1, <1>4, <1>5, <1>6, <1>7 DEF KeptInv

\* What is left of a sequence when a range of it is cut out, and where an entry
\* of that was.
Cut(s, begin, end) == SubSeq(s, 1, begin) \o SubSeq(s, end + 1, Len(s))
CutAt(begin, end, i) == IF i <= begin THEN i ELSE i - begin + end

\* What is cut keeps the order of the sequence.
LEMMA CutOut ==
  ASSUME NEW S, NEW s \in Seq(S), NEW begin \in Nat, NEW end \in Nat, begin <= end, end <= Len(s)
  PROVE  LET g == Cut(s, begin, end) IN
         /\ g \in Seq(S) /\ Len(g) = begin + Len(s) - end
         /\ \A i \in 1..Len(g) : CutAt(begin, end, i) \in 1..Len(s) /\ g[i] = s[CutAt(begin, end, i)]
<1> DEFINE g == Cut(s, begin, end)
           n == Len(s)
           a == SubSeq(s, 1, begin)
           b == SubSeq(s, end + 1, n)
<1>1. n \in Nat /\ begin <= n /\ end <= n
  OBVIOUS
<1>2. a \in Seq(S) /\ Len(a) = begin /\ \A i \in 1..begin : a[i] = s[i]
  OBVIOUS
<1>3. b \in Seq(S) /\ Len(b) = n - end /\ \A i \in 1..n - end : b[i] = s[i + end]
  <2>1. \A i \in end + 1..n : s[i] \in S
    OBVIOUS
  <2>2. b \in Seq(S) /\ Len(b) = IF end + 1 <= n THEN n - (end + 1) + 1 ELSE 0
    BY <2>1, SubSeqProperties
  <2>3. \A i \in 1..n - (end + 1) + 1 : b[i] = s[end + 1 + i - 1]
    BY <2>1, SubSeqProperties
  <2> HIDE DEF b
  <2>4. Len(b) = n - end
    BY <1>1, <2>2
  <2>5. ASSUME NEW i \in 1..n - end PROVE b[i] = s[i + end]
    <3>1. i \in 1..n - (end + 1) + 1 /\ end + 1 + i - 1 = i + end
      BY <1>1
    <3> QED BY <2>3, <3>1
  <2> QED BY <2>2, <2>4, <2>5
<1>4. g = a \o b
  BY DEF Cut
<1> HIDE DEF a, b, g
<1> DEFINE rest == n - end
<1>5. /\ g \in Seq(S) /\ Len(g) = begin + rest
      /\ \A i \in 1..begin + rest : g[i] = IF i <= begin THEN a[i] ELSE b[i - begin]
  <2> HIDE DEF n, rest
  <2>1. /\ g \in Seq(S) /\ Len(g) = Len(a) + Len(b)
        /\ \A i \in 1..Len(a) + Len(b) : g[i] = IF i <= Len(a) THEN a[i] ELSE b[i - Len(a)]
    BY <1>2, <1>3, <1>4, ConcatProperties
  <2>2. Len(a) = begin /\ Len(b) = rest
    BY <1>2, <1>3 DEF rest
  <2> QED BY <2>1, <2>2
<1> HIDE DEF n
<1>6. ASSUME NEW i \in 1..begin + rest
      PROVE  CutAt(begin, end, i) \in 1..n /\ g[i] = s[CutAt(begin, end, i)]
  <2>1. CASE i <= begin
    <3>1. i \in 1..begin /\ i \in 1..n /\ CutAt(begin, end, i) = i
      BY <1>1, <2>1 DEF CutAt
    <3> QED BY <1>2, <1>5, <2>1, <3>1
  <2>2. CASE ~(i <= begin)
    <3>1. i - begin \in 1..n - end /\ CutAt(begin, end, i) = (i - begin) + end /\ (i - begin) + end \in 1..n
      BY <1>1, <2>2 DEF CutAt
    <3>2. g[i] = b[i - begin]
      BY <1>5, <2>2
    <3> QED BY <1>3, <3>1, <3>2
  <2> QED BY <2>1, <2>2
<1> QED BY <1>1, <1>5, <1>6 DEF n, g

\* A range is cut out of the history, and the next forward is asked to follow
\* what is left (Llm::eraseHistory).
LEMMA EraseKeeps ==
  ASSUME KeptInv, NEW begin \in 0..MaxTokens, NEW end \in 0..MaxTokens, EraseHistory(begin, end),
         Supported(begin, end)
  PROVE  KeptInv'
<1> DEFINE n == Len(hist)
           p == meta.previous
           kept == IF end # p THEN <<end - begin, p - end>> ELSE meta.reserve
<1>1. CacheInv' /\ config' \in Configs /\ forwarded' \in Nat /\ forwarded' <= MaxTokens
  BY SameCache DEF EraseHistory
<1>2. /\ IsMeta(meta) /\ meta.add = 0 /\ p = kv.len /\ p <= forwarded /\ p \in Nat
      /\ begin \in Nat /\ end \in Nat /\ begin < end /\ end <= p
  <2>1. IsMeta(meta) /\ RequestOK(meta) /\ meta.add = 0 /\ p = kv.len /\ p <= forwarded
    BY DEF KeptInv, MetaInv, RequestOK
  <2>2. begin \in Nat /\ end \in Nat /\ begin < end /\ end <= p
    BY KVCacheAssumption DEF EraseHistory
  <2> QED BY <2>1, <2>2 DEF IsMeta
<1>3. /\ IsMeta(meta') /\ meta'.previous = p /\ meta'.remove = p - begin
      /\ meta'.reserve = kept /\ meta'.add = 0
  <2> DEFINE m1 == [meta EXCEPT !.remove = p - begin]
             m2 == [m1 EXCEPT !.reserve = kept]
  <2>1. meta' = m2
    BY DEF EraseHistory
  <2>2. p - begin \in Nat
    BY <1>2
  <2> HIDE DEF kept
  <2>3. IsMeta(m1) /\ m1.previous = p /\ m1.remove = p - begin /\ m1.add = 0 /\ m1.reserve = meta.reserve
    BY <1>2, <2>2 DEF IsMeta
  <2> HIDE DEF m1
  <2>4. IsMeta(m2) /\ m2.previous = p /\ m2.remove = p - begin /\ m2.add = 0 /\ m2.reserve = kept
    BY <2>3 DEF IsMeta
  <2> HIDE DEF m2
  <2> QED BY <2>1, <2>4
<1>4. Min({begin, n}) = IF begin <= n THEN begin ELSE n
  <2>1. n \in Nat
    BY DEF KeptInv, HistInv
  <2> HIDE DEF n
  <2> QED BY <1>2, <2>1 DEF Min
<1>5. hist \in Seq(Entry) /\ n = Kept(meta) /\ n \in Nat /\ n <= p
  <2>1. hist \in Seq(Entry) /\ n = Kept(meta) /\ RequestOK(meta)
    BY DEF KeptInv, HistInv, MetaInv
  <2> QED BY <2>1, RequestNumbers
<1>6. allSeqLen' = allSeqLen /\ allSeqLen \in Nat /\ allSeqLen <= forwarded'
  BY DEF KeptInv, EraseHistory
<1>7. \A i \in 1..n : hist[i] = Cells(kv)'[Place(meta, i)]
  BY DEF KeptInv, HistInv, EraseHistory, Cells
<1>8. CASE meta.reserve = <<>> /\ begin = 0 /\ end = p
  <2>1. hist' = <<>>
    <3>1. SubSeq(hist, 1, Min({begin, n})) = <<>> /\ SubSeq(hist, end + 1, n) = <<>>
      <4>1. Min({begin, n}) = 0
        BY <1>4, <1>5, <1>8
      <4>2. n < end + 1
        BY <1>2, <1>5, <1>8
      <4> QED BY <1>2, <1>5, <4>1, <4>2, SubSeqEmpty
    <3>2. hist' = SubSeq(hist, 1, Min({begin, n})) \o SubSeq(hist, end + 1, n)
      BY DEF EraseHistory
    <3>3. <<>> \o <<>> = <<>>
      <4>1. <<>> \in Seq(Entry)
        OBVIOUS
      <4> QED BY <4>1, ConcatEmptySeq
    <3> QED BY <3>1, <3>2, <3>3
  <2>2. meta'.reserve = <<>> /\ meta'.remove = p
    BY <1>2, <1>3, <1>8
  <2> HIDE DEF kept
  <2>3. MetaInv'
    <3>1. RequestOK(meta')
      BY <1>2, <1>3, <2>2 DEF RequestOK
    <3> QED BY <1>2, <1>3, <3>1, SameConfig DEF EraseHistory, MetaInv
  <2>4. HistInv'
    <3>1. Kept(meta)' = 0
      BY <1>2, <1>3, <2>2 DEF Kept, Reserved
    <3> QED BY <2>1, <3>1 DEF HistInv
  <2>5. PositionInv'
    BY <2>1 DEF PositionInv
  <2> QED BY <1>1, <1>6, <2>3, <2>4, <2>5 DEF KeptInv
<1>9. CASE /\ ~Pending
           /\ end # p => config.reuse /\ begin > 0 /\ begin % Align = 0 /\ end % Align = 0
  <2>1. meta.remove = 0 /\ meta.reserve = <<>> /\ n = p
    BY <1>2, <1>5, <1>9 DEF Pending, Kept, Reserved
  <2>2. hist' = Cut(hist, begin, end)
    <3>1. Min({begin, n}) = begin
      BY <1>2, <1>4, <2>1
    <3> QED BY <3>1 DEF EraseHistory, Cut
  <2>3. /\ hist' \in Seq(Entry) /\ Len(hist') = begin + p - end
        /\ \A i \in 1..Len(hist') : CutAt(begin, end, i) \in 1..p /\ hist'[i] = hist[CutAt(begin, end, i)]
    <3>1. begin <= end /\ end <= Len(hist) /\ begin + Len(hist) - end = begin + p - end
      BY <1>2, <2>1
    <3>2. /\ hist' \in Seq(Entry) /\ Len(hist') = begin + Len(hist) - end
          /\ \A i \in 1..Len(hist') : /\ CutAt(begin, end, i) \in 1..Len(hist)
                                     /\ hist'[i] = hist[CutAt(begin, end, i)]
      BY <1>2, <1>5, <2>2, <3>1, CutOut
    <3> QED BY <2>1, <3>1, <3>2
  <2>4. MetaInv'
    <3>1. RequestOK(meta')
      <4>1. CASE end = p
        BY <1>2, <1>3, <2>1, <4>1 DEF RequestOK
      <4>2. CASE end # p
        <5> DEFINE r1 == end - begin
                   r2 == p - end
        <5>1. r1 \in Nat \ {0} /\ r2 \in Nat \ {0} /\ p - begin = r1 + r2 /\ p - begin < p
              /\ p - (p - begin) = begin
          BY <1>2, <1>9, <4>2
        <5>2. begin % Align = 0 /\ r1 % Align = 0
          BY <1>2, <1>9, <4>2, WholeSum
        <5>3. meta'.reserve = <<r1, r2>> /\ config.reuse
          BY <1>3, <1>9, <4>2
        <5> HIDE DEF r1, r2, kept
        <5>4. meta'.reserve[1] = r1 /\ meta'.reserve[2] = r2
          BY <5>3
        <5>5. meta'.remove = r1 + r2 /\ meta'.remove < meta'.previous /\ meta'.remove <= meta'.previous
              /\ (meta'.previous - meta'.remove) % Align = 0
          <6>1. meta'.previous - meta'.remove = begin
            BY <1>3, <5>1
          <6>2. meta'.remove = r1 + r2 /\ meta'.remove < meta'.previous
            BY <1>3, <5>1
          <6> QED BY <1>2, <1>3, <5>1, <5>2, <6>1, <6>2
        <5>6. meta'.reserve = <<meta'.reserve[1], meta'.reserve[2]>>
          BY <5>3, <5>4
        <5>7. meta'.reserve[1] \in Nat \ {0} /\ meta'.reserve[2] \in Nat \ {0}
              /\ meta'.remove = meta'.reserve[1] + meta'.reserve[2] /\ meta'.reserve[1] % Align = 0
          BY <5>1, <5>2, <5>4, <5>5
        <5>8. IsMeta(meta') /\ config.reuse
          BY <1>3, <5>3
        <5> QED BY <5>5, <5>6, <5>7, <5>8 DEF RequestOK
      <4> QED BY <4>1, <4>2
    <3> QED BY <1>2, <1>3, <3>1, SameConfig DEF EraseHistory, MetaInv
  <2>5. HistInv'
    <3>1. Kept(meta)' = begin + p - end
      BY <1>2, <1>3, <2>1 DEF Kept, Reserved
    <3>2. ASSUME NEW i \in 1..Len(hist') PROVE Place(meta', i) = CutAt(begin, end, i) - 1
      <4>1. i \in Nat /\ i <= begin + p - end
        BY <1>2, <2>3
      <4>2. CASE i <= begin
        BY <1>2, <1>3, <4>1, <4>2 DEF Place, CutAt
      <4>3. CASE ~(i <= begin)
        <5>1. end # p
          BY <1>2, <4>1, <4>3
        <5>2. meta'.reserve[1] = end - begin
          BY <1>3, <5>1
        <5> QED BY <1>2, <1>3, <4>1, <4>3, <5>2, SMTT(30) DEF Place, CutAt
      <4> QED BY <4>2, <4>3
    <3>3. \A i \in 1..p : Place(meta, i) = i - 1
      BY <1>2, <2>1 DEF Place
    <3>4. ASSUME NEW i \in 1..Len(hist') PROVE hist'[i] = Cells(kv)'[Place(meta', i)]
      <4> DEFINE c == CutAt(begin, end, i)
      <4>1. c \in 1..p /\ hist'[i] = hist[c] /\ Place(meta', i) = c - 1
        BY <2>3, <3>2
      <4> HIDE DEF c
      <4>2. hist[c] = Cells(kv)'[Place(meta, c)] /\ Place(meta, c) = c - 1
        BY <1>7, <2>1, <3>3, <4>1
      <4> QED BY <4>1, <4>2
    <3>5. \A i \in 1..Len(hist)' : hist'[i] = Cells(kv)'[Place(meta, i)']
      BY <3>4 DEF Place
    <3> QED BY <2>3, <3>1, <3>5 DEF HistInv
  <2>6. PositionInv'
    <3>1. ASSUME NEW i \in 1..Len(hist'), NEW j \in 1..Len(hist'), i < j
          PROVE  CutAt(begin, end, i) < CutAt(begin, end, j)
      BY <1>2, <2>3, <3>1 DEF CutAt
    <3>2. /\ \A i, j \in 1..p : i < j => hist[i][2] < hist[j][2]
          /\ \A i \in 1..p : hist[i][2] < allSeqLen
      BY <2>1 DEF KeptInv, PositionInv
    <3>3. \A i, j \in 1..Len(hist') : i < j => hist'[i][2] < hist'[j][2]
      BY <2>3, <3>1, <3>2
    <3>4. \A i \in 1..Len(hist') : hist'[i][2] < allSeqLen'
      BY <1>6, <2>3, <3>2
    <3> QED BY <3>3, <3>4 DEF PositionInv
  <2> QED BY <1>1, <1>6, <2>4, <2>5, <2>6 DEF KeptInv
<1> QED BY <1>8, <1>9 DEF Supported

-----------------------------------------------------------------------------
(* Whatever callers ask for.                                                *)

\* What waits depends on the configuration no more than the cache does.
LEMMA SamePlace ==
  ASSUME config' = config
  PROVE  /\ IsCache(kv') <=> IsCache(kv)'
         /\ PlacedAt(kv') <=> PlacedAt(kv)'
         /\ Waiting(meta') <=> Waiting(meta)'
<1>1. \A n : Exceeds(n)' <=> Exceeds(n)
  BY DEF Exceeds, KVSize, RoundUp
<1>2. PlacedAt(kv') <=> PlacedAt(kv)'
  BY <1>1 DEF PlacedAt, Cells, RoundUp
<1> QED BY <1>2 DEF IsCache, Waiting, IsMeta

\* The numbers of a request of any kind.
LEMMA WaitingNumbers ==
  ASSUME NEW m, Waiting(m)
  PROVE  /\ m.previous \in Nat /\ m.remove \in Nat /\ m.add \in Nat /\ m.remove <= m.previous
         /\ Reserved(m) \in Nat /\ Needed(m) \in Nat
         /\ Needed(m) = m.previous - m.remove + Reserved(m) + m.add
         /\ m.reserve # <<>> => m.reserve[1] \in Nat /\ Reserved(m) = m.reserve[2]
<1>1. m.previous \in Nat /\ m.remove \in Nat /\ m.add \in Nat /\ m.remove <= m.previous
  BY DEF Waiting, IsMeta
<1>2. /\ Reserved(m) \in Nat
      /\ m.reserve # <<>> => m.reserve[1] \in Nat /\ Reserved(m) = m.reserve[2]
  BY DEF Waiting, Reserved
<1> QED BY <1>1, <1>2 DEF Needed

\* A request of any kind leaves a cache that is placed, with room for what the
\* forward adds (KVCacheManager::onRealloc).
LEMMA ReallocPlaced ==
  ASSUME config \in Configs, NEW c, IsCache(c), PlacedAt(c), c.len <= c.max,
         NEW m, Waiting(m), m.previous = c.len
  PROVE  LET k == Realloc(c, m) IN
         /\ IsCache(k) /\ PlacedAt(k) /\ k.len = m.previous - m.remove + Reserved(m)
         /\ Needed(m) <= k.max
<1> DEFINE e == IF Needed(m) > c.max THEN Expanded(c, Needed(m) + ExpandChunk) ELSE c
           start == c.len - m.remove
           k == Realloc(c, m)
<1>1. /\ c.max \in Nat /\ c.len \in Nat /\ m.remove \in Nat /\ start \in Nat
      /\ Needed(m) \in Nat /\ Reserved(m) \in Nat
  BY CacheFields, WaitingNumbers
<1>2. IsCache(e) /\ PlacedAt(e) /\ Needed(m) <= e.max
  <2>1. CASE ~(Needed(m) > c.max)
    BY <1>1, <2>1
  <2>2. CASE Needed(m) > c.max
    <3>1. /\ Needed(m) + ExpandChunk \in Nat /\ c.max <= Needed(m) + ExpandChunk
          /\ Needed(m) <= Needed(m) + ExpandChunk
      BY <1>1, <2>2, KVCacheAssumption
    <3>2. e = Expanded(c, Needed(m) + ExpandChunk)
      BY <2>2
    <3> HIDE DEF e
    <3> QED BY <3>1, <3>2, ExpandedState
  <2> QED BY <2>1, <2>2
<1>3. CASE m.reserve = <<>>
  <2>1. k = [e EXCEPT !.len = start] /\ Reserved(m) = 0
    BY <1>3 DEF Realloc, Reserved
  <2> HIDE DEF k, e
  <2>2. /\ IsCache(k) /\ k.len = start /\ k.max = e.max /\ k.inDisk = e.inDisk
        /\ k.mem = e.mem /\ k.file = e.file
    BY <1>1, <1>2, <2>1, SetLen
  <2>3. PlacedAt(k)
    BY <1>2, <2>2 DEF Cells, PlacedAt
  <2>4. start = m.previous - m.remove + Reserved(m)
    BY <1>1, <2>1
  <2> QED BY <1>2, <2>2, <2>3, <2>4 DEF k
<1>4. CASE m.reserve # <<>>
  <2> DEFINE r1 == m.reserve[1]
             r2 == m.reserve[2]
  <2>1. r1 \in Nat /\ r2 \in Nat /\ Reserved(m) = r2
    BY <1>1, <1>4, WaitingNumbers
  <2>2. k = Compacted(e, start, start + r1, r2)
    BY <1>4 DEF Realloc
  <2> HIDE DEF k, e, r1, r2
  <2>3. IsCache(k) /\ PlacedAt(k) /\ k.max = e.max /\ k.len = start + r2
    <3> DEFINE from == start + r1
    <3>1. from \in Nat /\ start \in Nat
      BY <1>1, <2>1
    <3>2. k = Compacted(e, start, from, r2)
      BY <2>2
    <3> HIDE DEF start, from
    <3> DEFINE q == Compacted(e, start, from, r2)
    <3>3. IsCache(e) /\ PlacedAt(e) /\ r2 \in Nat
      BY <1>2, <2>1
    <3>4. IsCache(q) /\ PlacedAt(q) /\ q.max = e.max /\ q.len = start + r2
      BY <3>1, <3>3, CompactedPlaced
    <3> HIDE DEF q
    <3>5. k = q
      BY <3>2 DEF q
    <3> QED BY <3>4, <3>5
  <2>4. start + r2 = m.previous - m.remove + Reserved(m)
    BY <2>1
  <2> QED BY <1>2, <2>3, <2>4 DEF k
<1> QED BY <1>3, <1>4

\* A forward leaves a cache that is placed.  If it cleared the cache, it holds what
\* was added; if it did not, what was there is counted
\* (CPUAttention::onExecute).
LEMMA AttendedPlaced ==
  ASSUME config \in Configs, NEW c, IsCache(c), c.len <= c.max, c.max > 0 => PlacedAt(c),
         NEW m, Waiting(m), NEW entries \in Seq(Entry), m.add = Len(entries), entries # <<>>,
         m.previous # m.remove => m.previous = c.len
  PROVE  LET k == Attended(c, m, entries) IN
         /\ IsCache(k) /\ PlacedAt(k) /\ k.len <= k.max /\ k.max > 0
         /\ (m.previous = m.remove => m.reserve = <<>>) => k.len = Needed(m)
<1> DEFINE a == IF m.previous = m.remove THEN Alloc(m.add) ELSE Realloc(c, m)
           k == Attended(c, m, entries)
           kept == m.previous - m.remove + Reserved(m)
<1>1. /\ m.add \in Nat \ {0} /\ kept \in Nat /\ Needed(m) = kept + m.add /\ c.max \in Nat /\ c.len \in Nat
      /\ m.previous \in Nat /\ m.remove \in Nat /\ m.remove <= m.previous
  <2>1. m.add \in Nat \ {0}
    OBVIOUS
  <2> QED BY <2>1, WaitingNumbers, CacheFields
<1>2. /\ IsCache(a) /\ PlacedAt(a) /\ a.len \in Nat /\ a.len + m.add <= a.max /\ a.max \in Nat
      /\ (m.previous = m.remove => m.reserve = <<>>) => a.len = kept
  <2>1. CASE m.previous = m.remove
    <3>1. a = Alloc(m.add)
      BY <2>1
    <3>2. m.reserve = <<>> => kept = 0
      BY <1>1, <2>1 DEF Reserved
    <3> HIDE DEF a, kept
    <3>3. IsCache(a) /\ PlacedAt(a) /\ a.max = m.add + ExpandChunk /\ a.len = 0
      BY <1>1, <3>1, AllocState
    <3> QED BY <1>1, <2>1, <3>2, <3>3, KVCacheAssumption
  <2>2. CASE m.previous # m.remove
    <3>1. a = Realloc(c, m) /\ PlacedAt(c) /\ m.previous = c.len
      BY <1>1, <2>2
    <3> HIDE DEF a
    <3>2. IsCache(a) /\ PlacedAt(a) /\ a.len = kept /\ Needed(m) <= a.max
      BY <3>1, ReallocPlaced
    <3> HIDE DEF kept
    <3> QED BY <1>1, <3>2, CacheFields
  <2> QED BY <2>1, <2>2
<1>3. k = PushBack(a, entries)
  BY DEF Attended
<1> HIDE DEF a, k, kept
<1>4. IsCache(k) /\ PlacedAt(k) /\ k.max = a.max /\ k.len = a.len + m.add
  BY <1>2, <1>3, PushBackState
<1>5. k.len <= k.max /\ k.max > 0
  BY <1>1, <1>2, <1>4
<1>6. (m.previous = m.remove => m.reserve = <<>>) => k.len = Needed(m)
  BY <1>1, <1>2, <1>4
<1> QED BY <1>4, <1>5, <1>6 DEF k

\* A forward keeps what holds whatever callers ask for.
LEMMA ForwardBase ==
  ASSUME BaseInv, NEW m, Waiting(m), m.previous = meta.previous, m.add = 0,
         NEW n \in Nat \ {0}, NEW from \in Nat, from <= forwarded, NEW rejected \in 0..n,
         Forward(m, n, from, rejected),
         m.previous # m.remove => m.reserve = meta.reserve,
         NEW h \in Seq(Entry), \A i \in 1..Len(h) : h[i][2] < from,
         \A i, j \in 1..Len(h) : i < j => h[i][2] < h[j][2],
         hist' = h \o SubSeq(Entries(n, from), 1, n - rejected),
         allSeqLen' = from + n - rejected, misused' \in 0..MaxMisuse
  PROVE  BaseInv'
<1> DEFINE e == Entries(n, from)
           ma == [m EXCEPT !.add = n]
           accepted == n - rejected
           tail == SubSeq(e, 1, accepted)
<1> USE DEF BaseInv
<1>1. /\ config' = config /\ forwarded' = forwarded + n /\ forwarded' <= MaxTokens
      /\ kv' = Attended(kv, ma, e)
      /\ meta' = [Synced(ma) EXCEPT !.remove = rejected]
      /\ miscounted' = IF m.previous = m.remove THEN m.reserve # <<>> ELSE miscounted
      /\ m.previous # m.remove => m.previous = kv.len
  BY DEF Forward
<1>2. e \in Seq(Entry) /\ Len(e) = n /\ e # <<>> /\ \A j \in 1..n : e[j][2] = from + j - 1
  <2> HIDE DEF e
  <2>1. e \in Seq(Entry) /\ Len(e) = n /\ \A j \in 1..n : e[j][2] = from + j - 1
    BY EntriesState DEF e
  <2> QED BY <2>1
<1>3. /\ IsMeta(ma) /\ ma.add = n /\ ma.previous = m.previous /\ ma.remove = m.remove /\ ma.reserve = m.reserve
  BY DEF Waiting, IsMeta
<1> HIDE DEF e, ma
<1>4. Waiting(ma)
  BY <1>3 DEF Waiting
<1>5. /\ IsCache(kv') /\ PlacedAt(kv') /\ kv'.len <= kv'.max /\ kv'.max > 0
      /\ (m.previous = m.remove => m.reserve = <<>>) => kv'.len = Needed(ma)
  <2> DEFINE k == Attended(kv, ma, e)
  <2>1. /\ IsCache(kv) /\ kv.len <= kv.max /\ (kv.max > 0 => PlacedAt(kv))
        /\ ma.previous # ma.remove => ma.previous = kv.len
    BY <1>1, <1>3 DEF RoomInv
  <2>2. /\ IsCache(k) /\ PlacedAt(k) /\ k.len <= k.max /\ k.max > 0
        /\ (ma.previous = ma.remove => ma.reserve = <<>>) => k.len = Needed(ma)
    BY <1>2, <1>3, <1>4, <2>1, AttendedPlaced
  <2> HIDE DEF k
  <2>3. kv' = k
    BY <1>1 DEF k
  <2> QED BY <1>3, <2>2, <2>3
<1>6. RoomInv'
  BY <1>1, <1>5, SamePlace DEF RoomInv
<1>7. /\ Needed(ma) \in Nat /\ n <= Needed(ma)
  <2>1. /\ Needed(ma) \in Nat /\ Needed(ma) = ma.previous - ma.remove + Reserved(ma) + ma.add
        /\ ma.previous \in Nat /\ ma.remove \in Nat /\ ma.remove <= ma.previous /\ Reserved(ma) \in Nat
    BY <1>4, WaitingNumbers
  <2> QED BY <1>3, <2>1
<1>8. meta' = [previous |-> Needed(ma), remove |-> rejected, reserve |-> <<>>, add |-> 0]
  BY <1>1 DEF Synced, NoMeta
<1>9. Waiting(meta)' /\ meta'.add = 0
  <2>1. IsMeta(meta') /\ meta'.reserve = <<>> /\ meta'.remove = rejected /\ meta'.previous = Needed(ma) /\ meta'.add = 0
    BY <1>7, <1>8 DEF IsMeta
  <2>2. rejected <= Needed(ma)
    BY <1>7
  <2> QED BY <1>1, <2>1, <2>2, SamePlace DEF Waiting
<1>10. miscounted' \in BOOLEAN /\ (~miscounted' => meta'.previous = kv'.len)
  <2>1. meta'.previous = Needed(ma)
    BY <1>8
  <2>2. miscounted' \in BOOLEAN
    BY <1>1
  <2>3. ~miscounted' => (m.previous = m.remove => m.reserve = <<>>)
    BY <1>1
  <2> QED BY <1>5, <2>1, <2>2, <2>3
<1>11. accepted \in Nat /\ accepted <= n /\ allSeqLen' = from + accepted
  OBVIOUS
<1>12. tail \in Seq(Entry) /\ Len(tail) = accepted /\ \A j \in 1..accepted : tail[j] = e[j]
  <2>1. \A j \in 1..accepted : e[j] \in Entry
    BY <1>2, <1>11
  <2> HIDE DEF accepted
  <2> QED BY <1>2, <1>11, <2>1
<1>13. hist' = h \o tail
  BY DEF e
<1> HIDE DEF tail, accepted
<1>14. hist' \in Seq(Entry) /\ PositionInv'
  <2>1. \A j \in 1..Len(tail) : tail[j][2] = from + j - 1
    BY <1>2, <1>11, <1>12
  <2>2. /\ \A i, j \in 1..Len(hist') : i < j => hist'[i][2] < hist'[j][2]
        /\ \A i \in 1..Len(hist') : hist'[i][2] < from + Len(tail)
    BY <1>12, <1>13, <2>1, PositionsGoOn
  <2>3. hist' \in Seq(Entry)
    BY <1>12, <1>13, ConcatProperties
  <2> QED BY <1>11, <1>12, <2>2, <2>3 DEF PositionInv
<1>15. allSeqLen' \in Nat /\ allSeqLen' <= forwarded' /\ forwarded' \in Nat
  BY <1>1, <1>11, SMTT(30)
<1> QED BY <1>1, <1>6, <1>9, <1>10, <1>14, <1>15

\* What a request that is counted says of the requests so far.
LEMMA Asked ==
  ASSUME misused \in 0..MaxMisuse, NEW s \in BOOLEAN, Request(s)
  PROVE  misused' \in 0..MaxMisuse /\ (misused' = 0 => s /\ misused = 0)
  BY KVCacheAssumption DEF Request

\* All of a forward is history if nothing is rejected.
LEMMA AllEntries ==
  ASSUME forwarded \in Nat, NEW n \in Nat, NEW from \in Nat
  PROVE  SubSeq(Entries(n, from), 1, n - 0) = Entries(n, from)
<1> DEFINE e == Entries(n, from)
<1>1. e \in Seq(Entry) /\ Len(e) = n
  BY EntriesState
<1> HIDE DEF e
<1>2. SubSeq(e, 1, n - 0) = e
  BY <1>1, SubSeqFull
<1> QED BY <1>2 DEF e

\* A prompt, behind the history or behind nothing (Llm::response).
LEMMA ResponseBase ==
  ASSUME BaseInv, NEW n \in Prompts, Response(n)
  PROVE  BaseInv'
<1>1. n \in Nat \ {0} /\ 0 \in 0..n /\ 0 \in Nat
  BY KVCacheAssumption
<1>2. misused' \in 0..MaxMisuse /\ forwarded \in Nat /\ allSeqLen \in Nat /\ allSeqLen <= forwarded
  BY DEF Response, BaseInv
<1>3. CASE config.reuse
  <2>1. /\ Forward(meta, n, allSeqLen, 0) /\ allSeqLen' = allSeqLen + n - 0
        /\ hist' = hist \o SubSeq(Entries(n, allSeqLen), 1, n - 0)
    <3>1. SubSeq(Entries(n, allSeqLen), 1, n - 0) = Entries(n, allSeqLen)
      BY <1>1, <1>2, AllEntries
    <3>2. /\ Forward(meta, n, allSeqLen, 0) /\ allSeqLen' = allSeqLen + n
          /\ hist' = hist \o Entries(n, allSeqLen)
      BY <1>3 DEF Response
    <3>3. allSeqLen + n = allSeqLen + n - 0
      BY <1>1, <1>2
    <3> QED BY <3>1, <3>2, <3>3
  <2>2. /\ hist \in Seq(Entry) /\ \A i \in 1..Len(hist) : hist[i][2] < allSeqLen
        /\ \A i, j \in 1..Len(hist) : i < j => hist[i][2] < hist[j][2]
        /\ Waiting(meta) /\ meta.add = 0
    BY DEF BaseInv, PositionInv
  <2> QED BY <1>1, <1>2, <2>1, <2>2, ForwardBase
<1>4. CASE ~config.reuse
  <2> DEFINE m == Dropped(meta)
             none == <<>>
  <2>1. /\ Forward(m, n, 0, 0) /\ allSeqLen' = 0 + n - 0
        /\ hist' = none \o SubSeq(Entries(n, 0), 1, n - 0)
    BY <1>1, <1>2, <1>4, AllEntries DEF Response
  <2>2. Waiting(m) /\ m.previous = meta.previous /\ m.remove = meta.previous /\ m.add = 0
    BY DEF BaseInv, Dropped, Waiting, IsMeta
  <2> HIDE DEF m
  <2>3. /\ none \in Seq(Entry) /\ \A i \in 1..Len(none) : none[i][2] < 0
        /\ \A i, j \in 1..Len(none) : i < j => none[i][2] < none[j][2]
    OBVIOUS
  <2>4. 0 <= forwarded
    BY <1>2
  <2> HIDE DEF none
  <2> QED BY <1>1, <1>2, <2>1, <2>2, <2>3, <2>4, ForwardBase
<1> QED BY <1>3, <1>4

\* One token, whatever waits (ArGeneration::generate).
LEMMA DecodeBase ==
  ASSUME BaseInv, Decode
  PROVE  BaseInv'
<1> DEFINE m == [meta EXCEPT !.remove = 0]
<1>1. misused' \in 0..MaxMisuse /\ forwarded \in Nat /\ allSeqLen \in Nat /\ allSeqLen <= forwarded
  BY Asked DEF Decode, BaseInv, Pending
<1>2. /\ Forward(m, 1, allSeqLen, 0) /\ allSeqLen' = allSeqLen + 1 - 0
      /\ hist' = hist \o SubSeq(Entries(1, allSeqLen), 1, 1 - 0)
  <2>1. SubSeq(Entries(1, allSeqLen), 1, 1 - 0) = Entries(1, allSeqLen)
    BY <1>1, AllEntries
  <2>2. Forward(m, 1, allSeqLen, 0) /\ allSeqLen' = allSeqLen + 1 /\ hist' = hist \o Entries(1, allSeqLen)
    BY DEF Decode
  <2> HIDE DEF m
  <2> QED BY <1>1, <2>1, <2>2
<1>3. Waiting(m) /\ m.previous = meta.previous /\ m.reserve = meta.reserve /\ m.add = 0
  BY DEF BaseInv, Waiting, IsMeta
<1> HIDE DEF m
<1>4. /\ hist \in Seq(Entry) /\ \A i \in 1..Len(hist) : hist[i][2] < allSeqLen
      /\ \A i, j \in 1..Len(hist) : i < j => hist[i][2] < hist[j][2]
  BY DEF BaseInv, PositionInv
<1>5. 1 \in Nat \ {0} /\ 0 \in 0..1
  OBVIOUS
<1> QED BY <1>1, <1>2, <1>3, <1>4, <1>5, ForwardBase

\* Drafts, whatever waits (LookaheadGeneration::generate).
LEMMA VerifyBase ==
  ASSUME BaseInv, NEW drafts \in 1..DraftLength + 1, NEW accepted \in 1..drafts, Verify(drafts, accepted)
  PROVE  BaseInv'
<1>1. /\ drafts \in Nat \ {0} /\ accepted \in Nat /\ drafts - accepted \in 0..drafts
      /\ drafts - (drafts - accepted) = accepted
  BY KVCacheAssumption
<1>2. /\ misused' \in 0..MaxMisuse /\ allSeqLen \in Nat /\ allSeqLen <= forwarded
      /\ Waiting(meta) /\ meta.add = 0
      /\ hist \in Seq(Entry) /\ \A i \in 1..Len(hist) : hist[i][2] < allSeqLen
      /\ \A i, j \in 1..Len(hist) : i < j => hist[i][2] < hist[j][2]
  BY DEF Verify, BaseInv, PositionInv
<1>3. /\ Forward(meta, drafts, allSeqLen, drafts - accepted)
      /\ allSeqLen' = allSeqLen + drafts - (drafts - accepted)
      /\ hist' = hist \o SubSeq(Entries(drafts, allSeqLen), 1, drafts - (drafts - accepted))
  BY <1>1, <1>2 DEF Verify, Advance
<1> QED BY <1>1, <1>2, <1>3, ForwardBase

\* A step that leaves the cache alone.
LEMMA SameRoom ==
  ASSUME BaseInv, UNCHANGED <<config, kv, forwarded, miscounted>>
  PROVE  RoomInv' /\ config' = config /\ forwarded' = forwarded /\ miscounted' = miscounted /\ kv' = kv
  BY SamePlace DEF BaseInv, RoomInv, PlacedAt, IsCache, Cells, Exceeds, KVSize, RoundUp

\* A reset, whatever waits (Llm::reset).
LEMMA ResetBase ==
  ASSUME BaseInv, Reset
  PROVE  BaseInv'
<1>1. RoomInv' /\ config' = config /\ forwarded' = forwarded /\ miscounted' = miscounted /\ kv' = kv
  BY SameRoom DEF Reset
<1>2. misused' \in 0..MaxMisuse
  BY Asked DEF Reset, BaseInv
<1>3. Waiting(meta') /\ meta'.add = 0 /\ meta'.previous = meta.previous
  BY DEF Reset, Dropped, BaseInv, Waiting, IsMeta
<1>4. hist' = <<>> /\ allSeqLen' = 0
  BY DEF Reset
<1>5. hist' \in Seq(Entry) /\ PositionInv'
  BY <1>4 DEF PositionInv
<1>6. Waiting(meta)'
  BY <1>1, <1>3, SamePlace
<1> QED BY <1>1, <1>2, <1>3, <1>4, <1>5, <1>6 DEF BaseInv

\* Entries at positions that increase, all of them below the next one.
Increases(h, top) == /\ h \in Seq(Entry)
                     /\ \A i, j \in 1..Len(h) : i < j => h[i][2] < h[j][2]
                     /\ \A i \in 1..Len(h) : h[i][2] < top

\* What two cuts leave of a history increases as it did.
LEMMA CutsIncrease ==
  ASSUME NEW h, NEW top, Increases(h, top), NEW a \in Nat, NEW b \in Nat, a <= b, a <= Len(h),
         NEW g, g = SubSeq(h, 1, a) \o SubSeq(h, b + 1, Len(h))
  PROVE  Increases(g, top)
<1> USE DEF Increases
<1>1. CASE b <= Len(h)
  <2>1. g = Cut(h, a, b)
    BY DEF Cut
  <2>2. /\ g \in Seq(Entry)
        /\ \A i \in 1..Len(g) : CutAt(a, b, i) \in 1..Len(h) /\ g[i] = h[CutAt(a, b, i)]
    <3> DEFINE k == Cut(h, a, b)
    <3>1. /\ k \in Seq(Entry)
          /\ \A i \in 1..Len(k) : CutAt(a, b, i) \in 1..Len(h) /\ k[i] = h[CutAt(a, b, i)]
      BY <1>1, CutOut
    <3>2. g = k
      BY <2>1
    <3> HIDE DEF k
    <3> QED BY <3>1, <3>2
  <2>3. Len(g) \in Nat
    BY <2>2, LenProperties
  <2>4. ASSUME NEW i \in 1..Len(g), NEW j \in 1..Len(g), i < j PROVE CutAt(a, b, i) < CutAt(a, b, j)
    BY <2>3, <2>4 DEF CutAt
  <2> QED BY <2>2, <2>4
<1>2. CASE ~(b <= Len(h))
  <2> DEFINE s == SubSeq(h, 1, a)
  <2>1. SubSeq(h, b + 1, Len(h)) = <<>>
    <3>1. Len(h) \in Nat /\ Len(h) < b + 1
      BY <1>2
    <3> QED BY <3>1, SubSeqEmpty
  <2>2. s \in Seq(Entry) /\ Len(s) = a /\ \A i \in 1..a : s[i] = h[i] /\ i \in 1..Len(h)
    OBVIOUS
  <2> HIDE DEF s
  <2>3. g = s
    <3>1. g = s \o <<>>
      BY <2>1 DEF s
    <3> QED BY <2>2, <3>1, ConcatEmptySeq
  <2> QED BY <2>2, <2>3
<1> QED BY <1>1, <1>2

\* An erased range of any kind (Llm::eraseHistory).
LEMMA EraseBase ==
  ASSUME BaseInv, NEW begin \in 0..MaxTokens, NEW end \in 0..MaxTokens, EraseHistory(begin, end)
  PROVE  BaseInv'
<1> DEFINE n == Len(hist)
           p == meta.previous
           kept == IF end # p THEN <<end - begin, p - end>> ELSE meta.reserve
<1>1. RoomInv' /\ config' = config /\ forwarded' = forwarded /\ miscounted' = miscounted /\ kv' = kv
  BY SameRoom DEF EraseHistory
<1>2. misused' \in 0..MaxMisuse /\ allSeqLen' = allSeqLen
  <2>1. Supported(begin, end) \in BOOLEAN
    BY DEF Supported
  <2> QED BY <2>1, Asked DEF EraseHistory, BaseInv
<1>3. /\ IsMeta(meta) /\ Waiting(meta) /\ meta.add = 0 /\ p \in Nat
      /\ begin \in Nat /\ end \in Nat /\ begin < end /\ end <= p
  <2>1. begin \in Nat /\ end \in Nat
    BY KVCacheAssumption
  <2>2. begin < end /\ end <= p
    BY DEF EraseHistory
  <2>3. Waiting(meta) /\ meta.add = 0
    BY DEF BaseInv
  <2> QED BY <2>1, <2>2, <2>3 DEF Waiting, IsMeta
<1>4. /\ IsMeta(meta') /\ meta'.previous = p /\ meta'.remove = p - begin
      /\ meta'.reserve = kept /\ meta'.add = 0
  <2> DEFINE m1 == [meta EXCEPT !.remove = p - begin]
             m2 == [m1 EXCEPT !.reserve = kept]
  <2>1. meta' = m2
    BY DEF EraseHistory
  <2>2. p - begin \in Nat
    BY <1>3
  <2> HIDE DEF kept
  <2>3. IsMeta(m1) /\ m1.previous = p /\ m1.remove = p - begin /\ m1.add = 0 /\ m1.reserve = meta.reserve
    BY <1>3, <2>2 DEF IsMeta
  <2> HIDE DEF m1
  <2>4. IsMeta(m2) /\ m2.previous = p /\ m2.remove = p - begin /\ m2.add = 0 /\ m2.reserve = kept
    BY <2>3 DEF IsMeta
  <2> HIDE DEF m2
  <2> QED BY <2>1, <2>4
<1>5. Waiting(meta')
  <2>1. p - begin <= p
    BY <1>3
  <2>2. CASE end # p
    <3> DEFINE r1 == end - begin
               r2 == p - end
    <3>1. r1 \in Nat \ {0} /\ r2 \in Nat \ {0} /\ r1 + r2 <= p
      BY <1>3, <2>2
    <3>2. meta'.reserve = <<r1, r2>>
      BY <1>4, <2>2
    <3> HIDE DEF r1, r2, kept
    <3> QED BY <1>4, <2>1, <3>1, <3>2 DEF Waiting
  <2>3. CASE end = p
    <3>1. meta'.reserve = meta.reserve
      BY <1>4, <2>3
    <3> QED BY <1>3, <1>4, <2>1, <3>1 DEF Waiting
  <2> QED BY <2>2, <2>3
<1>6. Waiting(meta)' /\ (~miscounted' => meta'.previous = kv'.len)
  BY <1>1, <1>4, <1>5, SamePlace DEF BaseInv
<1>7. hist' \in Seq(Entry) /\ PositionInv'
  <2> DEFINE a == IF begin <= n THEN begin ELSE n
  <2>1. n \in Nat /\ hist \in Seq(Entry) /\ allSeqLen \in Nat
    BY DEF BaseInv
  <2> HIDE DEF n
  <2>2. Min({begin, n}) = a
    BY <1>3, <2>1 DEF Min
  <2>3. a \in Nat /\ a <= end /\ a <= n
    BY <1>3, <2>1
  <2>4. hist' = SubSeq(hist, 1, a) \o SubSeq(hist, end + 1, n)
    BY <2>2 DEF EraseHistory, n
  <2>len. n = Len(hist)
    BY DEF n
  <2> DEFINE g == hist'
  <2>g. g = SubSeq(hist, 1, a) \o SubSeq(hist, end + 1, Len(hist))
    BY <2>4, <2>len
  <2> HIDE DEF a, g
  <2>5. Increases(hist, allSeqLen)
    BY DEF BaseInv, PositionInv, Increases
  <2>6. Increases(g, allSeqLen)
    <3>1. a <= Len(hist) /\ end \in Nat
      BY <1>3, <2>3, <2>len
    <3> QED BY <2>3, <2>g, <2>5, <3>1, CutsIncrease
  <2> QED BY <1>2, <2>6 DEF PositionInv, Increases, g
<1> QED BY <1>1, <1>2, <1>4, <1>6, <1>7 DEF BaseInv

\* Every step keeps the invariant: what holds in any case, and the history as
\* long as all requests were supported.
LEMMA NextIInv == IInv /\ [Next]_vars => IInv'
<1> SUFFICES ASSUME IInv, [Next]_vars PROVE IInv'
  OBVIOUS
<1>0. BaseInv /\ misused \in 0..MaxMisuse /\ (misused = 0 => KeptInv)
  BY DEF IInv, BaseInv
<1>1. ASSUME NEW n \in Prompts, Response(n) PROVE IInv'
  <2>1. misused' = misused
    BY <1>1 DEF Response
  <2> QED BY <1>0, <1>1, <2>1, ResponseBase, ResponseKeeps DEF IInv
<1>2. CASE Decode
  <2>1. misused' = 0 => ~Pending /\ misused = 0
    BY <1>0, <1>2, Asked DEF Decode, Pending
  <2> QED BY <1>0, <1>2, <2>1, DecodeBase, DecodeKeeps DEF IInv
<1>3. ASSUME NEW drafts \in 1..DraftLength + 1, NEW accepted \in 1..drafts, Verify(drafts, accepted)
      PROVE  IInv'
  <2>1. misused' = misused
    BY <1>3 DEF Verify
  <2> QED BY <1>0, <1>3, <2>1, VerifyBase, VerifyKeeps DEF IInv
<1>4. CASE Reset
  <2>1. misused' = 0 => meta.reserve = <<>> /\ misused = 0
    BY <1>0, <1>4, Asked DEF Reset
  <2> QED BY <1>0, <1>4, <2>1, ResetBase, ResetKeeps DEF IInv
<1>5. ASSUME NEW begin \in 0..MaxTokens, NEW end \in 0..MaxTokens, EraseHistory(begin, end)
      PROVE  IInv'
  <2>1. Supported(begin, end) \in BOOLEAN
    BY DEF Supported
  <2>2. misused' = 0 => Supported(begin, end) /\ misused = 0
    BY <1>0, <1>5, <2>1, Asked DEF EraseHistory
  <2> QED BY <1>0, <1>5, <2>2, EraseBase, EraseKeeps DEF IInv
<1>6. CASE UNCHANGED vars
  <2> USE <1>6 DEF vars
  <2>1. BaseInv'
    <3>1. RoomInv'
      BY <1>0, SameRoom
    <3>2. Waiting(meta)' /\ PositionInv'
      BY <1>0 DEF BaseInv, Waiting, IsMeta, PositionInv
    <3> QED BY <1>0, <3>1, <3>2 DEF BaseInv
  <2>2. ASSUME misused = 0 PROVE KeptInv'
    <3>1. KeptInv /\ CacheInv' /\ config' \in Configs /\ forwarded' \in Nat /\ forwarded' <= MaxTokens
      BY <1>0, <2>2, SameCache
    <3>2. MetaInv'
      BY <3>1, SameConfig DEF KeptInv, MetaInv
    <3>3. HistInv' /\ PositionInv'
      BY <3>1 DEF KeptInv, HistInv, PositionInv, Kept, Reserved, Cells, Place
    <3> QED BY <3>1, <3>2, <3>3 DEF KeptInv
  <2> QED BY <2>1, <2>2 DEF IInv
<1> QED BY <1>1, <1>2, <1>3, <1>4, <1>5, <1>6 DEF Next

\* It holds of the initial states.
LEMMA InitIInv == Init => IInv
<1> SUFFICES ASSUME Init PROVE IInv
  OBVIOUS
<1>1. KeptInv
  BY InitKept
<1>2. misused = 0 /\ miscounted = FALSE /\ meta = NoMeta /\ hist = <<>>
  BY DEF Init
<1>3. RoomInv
  BY <1>1 DEF KeptInv, CacheInv, RoomInv
<1>4. Waiting(meta) /\ meta.add = 0
  BY <1>2 DEF Waiting, IsMeta, NoMeta
<1>5. meta.previous = kv.len /\ hist \in Seq(Entry) /\ PositionInv
  BY <1>1 DEF KeptInv, MetaInv, HistInv
<1>6. misused \in 0..MaxMisuse /\ miscounted \in BOOLEAN
  <2>1. misused \in 0..MaxMisuse
    BY <1>2, KVCacheAssumption
  <2>2. miscounted \in BOOLEAN
    BY <1>2, Zenon
  <2> QED BY <2>1, <2>2
<1>7. /\ config \in Configs /\ allSeqLen \in Nat /\ forwarded \in Nat
      /\ allSeqLen <= forwarded /\ forwarded <= MaxTokens
  BY <1>1 DEF KeptInv
<1>8. BaseInv
  BY <1>3, <1>4, <1>5, <1>6, <1>7 DEF BaseInv
<1> QED BY <1>1, <1>8 DEF IInv

\* The inductive invariant holds of every state.
LEMMA Invariance == Spec => []IInv
<1> QED BY InitIInv, NextIInv, PTL DEF Spec

-----------------------------------------------------------------------------
(* What holds of every state.                                               *)

\* Whatever callers ask for, what KVMeta believes to be cached is what is, which
\* CPUAttention::onExecute asserts of a request, except after a forward that
\* cleared the cache while a range to be kept was waiting.
THEOREM RightLength == Spec => []PreviousIsLength
<1>1. IInv => PreviousIsLength
  BY DEF IInv, BaseInv, PreviousIsLength
<1> QED BY <1>1, Invariance, PTL

\* Position ids (gen_position_ids) increase along the history that callers asked
\* for, and all_seq_len is larger than all of it, whatever was rejected, erased or
\* reset.
THEOREM NoPositionTwice == Spec => []PositionsIncrease
<1>1. ASSUME IInv PROVE PositionsIncrease
  <2> USE <1>1 DEF IInv, BaseInv, PositionInv
  <2>1. Len(hist) \in Nat /\ (hist # <<>> => Len(hist) \in 1..Len(hist))
    BY LenProperties
  <2>2. \A i \in 1..Len(hist) - 1 : i \in 1..Len(hist) /\ i + 1 \in 1..Len(hist) /\ i < i + 1
    BY <2>1
  <2> QED BY <2>1, <2>2 DEF PositionsIncrease, Last
<1> QED BY <1>1, Invariance, PTL

\* The cache is in memory or on disk, as its size tells, is as large as its size
\* and has room for what is in it (KVCacheManager), whatever callers ask for.
THEOREM CachePlaced == Spec => []Placed
<1>1. ASSUME IInv PROVE Placed
  <2> USE <1>1 DEF IInv, BaseInv
  <2>1. kv.len \in Nat /\ kv.max \in Nat /\ kv.len <= kv.max
    BY CacheFields DEF RoomInv
  <2>2. /\ meta.previous \in Nat /\ meta.remove \in Nat /\ meta.remove <= meta.previous
        /\ meta.reserve # <<>> => /\ \A k \in 1..2 : meta.reserve[k] \in Nat \ {0}
                                  /\ meta.reserve[1] + meta.reserve[2] <= meta.previous
    BY WaitingNumbers DEF Waiting
  <2>3. TypeOK
    BY <2>1, <2>2, KVCacheAssumption DEF TypeOK, RoomInv
  <2>4. misused = 0 => kv.max <= MaxTokens + ExpandChunk
    <3>1. misused = 0 => kv.max <= forwarded + ExpandChunk
      BY DEF KeptInv, CacheInv
    <3> QED BY <2>1, <3>1, KVCacheAssumption
  <2> QED BY <2>3, <2>4 DEF Placed, PlacedAt, RoomInv
<1> QED BY <1>1, Invariance, PTL

\* The cache holds the entries that callers have not removed, in their order,
\* through growth, moves to disk, rejected drafts and erased ranges, if all
\* requests were of the kind that the code supports
\* (KVCacheManager::onRealloc, moveKVCacheFromMemToDisk).
THEOREM NothingForgotten == Spec => []HistoryKept
<1>1. ASSUME KeptInv PROVE HistoryKept
  <2> USE <1>1 DEF KeptInv
  <2> DEFINE at(from, n) == [i \in 1..n |-> Cells(kv)[from + i - 1]]
             start == kv.len - meta.remove
             a == at(0, start)
             b == IF meta.reserve = <<>> THEN <<>> ELSE at(start + meta.reserve[1], meta.reserve[2])
  <2>1. /\ start \in Nat /\ start = meta.previous - meta.remove
        /\ Reserved(meta) \in Nat /\ Len(hist) = start + Reserved(meta) /\ hist \in Seq(Entry)
    <3>1. RequestOK(meta) /\ meta.previous = kv.len /\ meta.remove <= meta.previous
      BY DEF MetaInv, RequestOK
    <3>2. meta.previous \in Nat /\ meta.remove \in Nat /\ Reserved(meta) \in Nat
      BY <3>1, RequestNumbers
    <3> QED BY <3>1, <3>2 DEF HistInv, Kept
  <2>2. \A i \in 1..start + Reserved(meta) : hist[i] \in Entry /\ hist[i] = Cells(kv)[Place(meta, i)]
    <3> HIDE DEF start
    <3> QED BY <2>1 DEF HistInv
  <2> HIDE DEF start
  <2>3. \A i \in 1..start : hist[i] \in Entry /\ Cells(kv)[0 + i - 1] = hist[i]
    <3> TAKE i \in 1..start
    <3>1. i \in 1..start + Reserved(meta) /\ Place(meta, i) = i - 1 /\ 0 + i - 1 = i - 1
      BY <2>1 DEF Place
    <3> QED BY <2>2, <3>1
  <2>4. a \in Seq(Entry) /\ Len(a) = start /\ \A i \in 1..start : a[i] = hist[i]
    <3>1. a = [i \in 1..start |-> Cells(kv)[0 + i - 1]]
      OBVIOUS
    <3> HIDE DEF a
    <3>2. \A i \in 1..start : Cells(kv)[0 + i - 1] \in Entry
      BY <2>3
    <3>3. start \in Nat
      BY <2>1
    <3>4. a \in Seq(Entry) /\ Len(a) = start
      BY <3>1, <3>2, <3>3, IsASeq
    <3>5. \A i \in 1..start : a[i] = hist[i]
      BY <2>3, <3>1
    <3> QED BY <3>4, <3>5
  <2>5. b \in Seq(Entry) /\ Len(b) = Reserved(meta) /\ \A i \in 1..Reserved(meta) : b[i] = hist[start + i]
    <3>1. CASE meta.reserve = <<>>
      BY <3>1 DEF Reserved
    <3>2. CASE meta.reserve # <<>>
      <4> DEFINE r1 == meta.reserve[1]
                 r2 == meta.reserve[2]
      <4>1. r1 \in Nat \ {0} /\ r2 \in Nat \ {0} /\ Reserved(meta) = r2
        BY <3>2, RequestNumbers DEF MetaInv, Reserved
      <4> HIDE DEF r1, r2
      <4>2. ASSUME NEW i \in 1..r2 PROVE hist[start + i] \in Entry /\ Cells(kv)[start + r1 + i - 1] = hist[start + i]
        <5>1. start + i \in 1..start + Reserved(meta) /\ ~(start + i <= start)
          BY <2>1, <4>1
        <5>2. Place(meta, start + i) = start + i - 1 + r1
          BY <2>1, <5>1 DEF Place, r1
        <5>3. start + i - 1 + r1 = start + r1 + i - 1
          BY <2>1, <4>1
        <5> QED BY <2>2, <5>1, <5>2, <5>3
      <4>3. b = [i \in 1..r2 |-> Cells(kv)[start + r1 + i - 1]]
        BY <3>2 DEF r1, r2
      <4> HIDE DEF b
      <4>4. b \in Seq(Entry) /\ Len(b) = r2
        <5>1. \A i \in 1..r2 : Cells(kv)[start + r1 + i - 1] \in Entry
          BY <4>2
        <5>2. r2 \in Nat
          BY <4>1
        <5> QED BY <4>3, <5>1, <5>2, IsASeq
      <4>5. \A i \in 1..r2 : b[i] = hist[start + i]
        BY <4>2, <4>3
      <4> QED BY <4>1, <4>4, <4>5
    <3> QED BY <3>1, <3>2
  <2>6. Visible = a \o b
    BY DEF Visible, start
  <2> HIDE DEF a, b
  <2>7. /\ a \o b \in Seq(Entry) /\ Len(a \o b) = start + Reserved(meta)
        /\ \A i \in 1..start + Reserved(meta) : (a \o b)[i] = IF i <= start THEN a[i] ELSE b[i - start]
    <3>1. /\ a \o b \in Seq(Entry) /\ Len(a \o b) = Len(a) + Len(b)
          /\ \A i \in 1..Len(a) + Len(b) : (a \o b)[i] = IF i <= Len(a) THEN a[i] ELSE b[i - Len(a)]
      BY <2>4, <2>5, ConcatProperties
    <3> QED BY <2>4, <2>5, <3>1
  <2>8. ASSUME NEW i \in 1..start + Reserved(meta) PROVE (a \o b)[i] = hist[i]
    <3>1. CASE i <= start
      BY <2>1, <2>4, <2>7, <3>1
    <3>2. CASE ~(i <= start)
      <4>1. i - start \in 1..Reserved(meta) /\ start + (i - start) = i
        BY <2>1, <3>2
      <4> QED BY <2>5, <2>7, <3>2, <4>1
    <3> QED BY <3>1, <3>2
  <2>9. a \o b = hist
    BY <2>1, <2>7, <2>8, SeqEqual
  <2> QED BY <2>6, <2>9 DEF HistoryKept
<1>2. IInv => HistoryKept
  BY <1>1 DEF IInv, HistoryKept
<1> QED BY <1>2, Invariance, PTL


-----------------------------------------------------------------------------
(* The data loader.                                                         *)

WorkerPlaces == {"off", "popJob", "popJob_sleep", "load", "pushData",
                 "pushData_sleep", "notifyData", "left"}
ClientPlaces == {"prefetch", "pushJob", "pushJob_sleep", "notifyJob", "idle",
                 "popData", "popData_sleep", "join", "gone"}
Joins == {"reset", "clean", "destroy"}

\* A batch was drawn and is not in the queue of jobs yet.
Pushing == pc[Client] \in {"pushJob", "pushJob_sleep"} /\ call \notin Joins

\* How many batches of the pass were put into the queue of jobs.
Sent == IF Pushing \/ (DropShort /\ index = NumBatches) THEN index - 1 ELSE index

\* How many jobs the client still puts into the queue before its call ends.
Owed == IF call \in Joins THEN 0 ELSE IF pc[Client] = "notifyJob" THEN left - 1 ELSE left

IsSent(b) == b.epoch = epoch /\ b.index \in 1..Sent

\* What is on its way or was returned was sent in this pass ...
InPass ==
    /\ \A i \in 1..Len(jobs) : jobs[i] # Quit => IsSent(jobs[i])
    /\ \A i \in 1..Len(data) : IsSent(data[i])
    /\ \A i \in 1..Len(got) : IsSent(got[i])
    /\ \A w \in Workers : hold[w] # None => IsSent(hold[w])

\* ... and is at one place only.
Once ==
    /\ \A i, j \in 1..Len(jobs) : jobs[i] = jobs[j] /\ jobs[i] # Quit => i = j
    /\ \A i, j \in 1..Len(data) : data[i] = data[j] => i = j
    /\ \A i, j \in 1..Len(got) : got[i] = got[j] => i = j
    /\ \A v, w \in Workers : hold[v] = hold[w] /\ hold[v] # None => v = w
    /\ \A i \in 1..Len(jobs) : \A j \in 1..Len(data) : jobs[i] # data[j]
    /\ \A i \in 1..Len(jobs) : \A j \in 1..Len(got) : jobs[i] # got[j]
    /\ \A i \in 1..Len(data) : \A j \in 1..Len(got) : data[i] # got[j]
    /\ \A w \in Workers : hold[w] # None =>
          /\ \A i \in 1..Len(jobs) : jobs[i] # hold[w]
          /\ \A i \in 1..Len(data) : data[i] # hold[w]
          /\ \A i \in 1..Len(got) : got[i] # hold[w]

\* Where the client is tells which call it is in, and what that has left to do.
ClientOK ==
    /\ pc[Client] \in {"popData", "popData_sleep"} => call = "next"
    /\ pc[Client] = "prefetch" => call \in {"start", "next"}
    /\ pc[Client] \in {"pushJob", "pushJob_sleep", "notifyJob"} =>
          left > 0 /\ call \in {"start", "next"} \cup Joins
    /\ pc[Client] = "join" => call \in Joins
    /\ pc[Client] = "idle" => call \in {"none", "cleaned"}
    /\ call \in {"reset", "clean"} => epoch < MaxEpochs
    /\ Pushing => index > 0 /\ ~(DropShort /\ index = NumBatches)

\* No worker waits for room, and one that loads has a batch.
WorkersOK == \A w \in Workers : /\ pc[w] # "pushData_sleep"
                                /\ pc[w] \in {"load", "pushData"} => hold[w] # None

\* There is room in the queue of data for all that is on its way and owed.
Credit == Sent - Len(got) + Owed <= NumJobs

\* The program counters and what workers hold are functions.
Total == pc \in [Threads -> WorkerPlaces \cup ClientPlaces] /\ hold \in [Workers -> Batches \cup {None}]

\* The inductive invariant.
LoaderInv == LoaderTypeOK /\ Total /\ ClientOK /\ WorkersOK /\ Credit /\ InPass /\ Once

-----------------------------------------------------------------------------
(* Queues, and threads that move.                                           *)

\* BlockingQueue::pop.
LEMMA Popped ==
  ASSUME NEW S, NEW q \in Seq(S), q # <<>>
  PROVE  /\ Head(q) \in S /\ Head(q) = q[1] /\ Len(q) \in Nat \ {0}
         /\ Tail(q) \in Seq(S) /\ Len(Tail(q)) = Len(q) - 1
         /\ \A i \in 1..Len(q) - 1 : i + 1 \in 1..Len(q) /\ i + 1 # 1 /\ Tail(q)[i] = q[i + 1]
  OBVIOUS

\* BlockingQueue::push.
LEMMA Appended ==
  ASSUME NEW S, NEW q \in Seq(S), NEW x \in S
  PROVE  /\ Append(q, x) \in Seq(S) /\ Len(q) \in Nat /\ Len(Append(q, x)) = Len(q) + 1
         /\ \A i \in 1..Len(q) : Append(q, x)[i] = q[i]
         /\ Append(q, x)[Len(q) + 1] = x
         /\ \A i \in 1..Len(q) + 1 : i \in 1..Len(q) \/ i = Len(q) + 1
  OBVIOUS

\* Thread t goes on at place to, and others may be woken.
Woken(u) ==
    IF u = Client
    THEN \/ pc[u] = "pushJob_sleep" /\ pc'[u] = "pushJob"
         \/ pc[u] = "popData_sleep" /\ pc'[u] = "popData"
    ELSE \/ pc[u] = "popJob_sleep" /\ pc'[u] = "popJob"
         \/ pc[u] = "pushData_sleep" /\ pc'[u] = "pushData"
Moved(t, to) ==
    /\ pc' \in [Threads -> WorkerPlaces \cup ClientPlaces]
    /\ pc'[t] = to
    /\ \A u \in Threads \ {t} : pc'[u] = pc[u] \/ Woken(u)

\* A thread that goes on moves.
LEMMA GoMoves ==
  ASSUME Total, NEW t \in Threads, NEW to \in WorkerPlaces \cup ClientPlaces, Go(t, to)
  PROVE  Moved(t, to)
  BY DEF Total, Go, Moved

\* A notification wakes a thread that waits at the same queue.
LEMMA NotifyMoves ==
  ASSUME Total, NEW t \in Threads, NEW to \in WorkerPlaces \cup ClientPlaces,
         NEW sleepers \in {JobSleepers, DataSleepers}, t \notin sleepers, NotifyOne(t, to, sleepers)
  PROVE  Moved(t, to)
<1>1. CASE sleepers = {}
  BY <1>1, GoMoves DEF NotifyOne
<1>2. CASE sleepers # {}
  <2>1. PICK u \in sleepers : pc' = [pc EXCEPT ![t] = to, ![u] = Awake(pc[u])]
    BY <1>2 DEF NotifyOne
  <2>2. u \in Threads /\ u # t
    BY DEF JobSleepers, DataSleepers
  <2>3. /\ u # Client => \/ pc[u] = "popJob_sleep" /\ Awake(pc[u]) = "popJob"
                         \/ pc[u] = "pushData_sleep" /\ Awake(pc[u]) = "pushData"
        /\ u = Client => \/ pc[u] = "pushJob_sleep" /\ Awake(pc[u]) = "pushJob"
                         \/ pc[u] = "popData_sleep" /\ Awake(pc[u]) = "popData"
    BY LoaderAssumption DEF JobSleepers, DataSleepers, Awake
  <2>4. Awake(pc[u]) \in WorkerPlaces \cup ClientPlaces
    BY <2>3 DEF WorkerPlaces, ClientPlaces
  <2>5. /\ pc' \in [Threads -> WorkerPlaces \cup ClientPlaces] /\ pc'[t] = to /\ pc'[u] = Awake(pc[u])
        /\ \A v \in Threads \ {t, u} : pc'[v] = pc[v]
    BY <2>1, <2>2, <2>4 DEF Total
  <2>6. Woken(u)
    BY <2>3, <2>5 DEF Woken
  <2> QED BY <2>5, <2>6 DEF Moved
<1> QED BY <1>1, <1>2

\* What is told of the places of threads.
PlacesOK == (\A w \in Workers : pc[w] \in WorkerPlaces) /\ pc[Client] \in ClientPlaces

\* A worker that moves leaves the client in its call, and what that owes.
LEMMA WorkerMoves ==
  ASSUME LoaderInv, NEW w \in Workers, NEW to \in WorkerPlaces \ {"pushData_sleep"}, Moved(w, to),
         UNCHANGED <<call, left, index, epoch>>,
         hold' \in [Workers -> Batches \cup {None}],
         to \in {"load", "pushData"} => hold'[w] # None,
         \A v \in Workers \ {w} : hold'[v] = hold[v]
  PROVE  PlacesOK' /\ Total' /\ ClientOK' /\ WorkersOK' /\ Sent' = Sent /\ Owed' = Owed
<1> USE DEF LoaderInv
<1>1. w # Client /\ w \in Threads /\ Client \in Threads /\ \A v \in Workers : v # Client /\ v \in Threads
  BY LoaderAssumption DEF Threads
<1>2. \A v \in Workers \ {w} : pc[v] \in WorkerPlaces /\ pc[v] # "pushData_sleep"
  BY DEF LoaderTypeOK, WorkersOK, WorkerPlaces
<1>3. \A v \in Workers \ {w} : pc'[v] = pc[v] \/ (pc[v] = "popJob_sleep" /\ pc'[v] = "popJob")
  BY <1>1, <1>2 DEF Moved, Woken
<1>4. \/ pc'[Client] = pc[Client]
      \/ pc[Client] = "pushJob_sleep" /\ pc'[Client] = "pushJob"
      \/ pc[Client] = "popData_sleep" /\ pc'[Client] = "popData"
  BY <1>1 DEF Moved, Woken
<1>5. Total'
  BY DEF Moved, Total, Threads, Batches
<1>6. PlacesOK'
  BY <1>2, <1>3, <1>4 DEF Moved, PlacesOK, LoaderTypeOK, WorkerPlaces, ClientPlaces
<1>7. WorkersOK'
  BY <1>2, <1>3 DEF Moved, WorkersOK
<1>8. Pushing' <=> Pushing
  BY <1>4 DEF Pushing, Joins
<1>9. Sent' = Sent /\ Owed' = Owed
  BY <1>4, <1>8 DEF Sent, Owed, Joins
<1>10. ClientOK'
  BY <1>4, <1>8 DEF ClientOK, Joins
<1> QED BY <1>5, <1>6, <1>7, <1>9, <1>10

\* The client moves, and some worker may wake up.
LEMMA ClientMoves ==
  ASSUME LoaderInv, NEW to \in ClientPlaces, Moved(Client, to), hold' = hold
  PROVE  PlacesOK' /\ Total' /\ WorkersOK'
<1> USE DEF LoaderInv
<1>1. \A v \in Workers : v # Client /\ v \in Threads
  BY LoaderAssumption DEF Threads
<1>2. \A v \in Workers : pc[v] \in WorkerPlaces /\ pc[v] # "pushData_sleep"
  BY DEF LoaderTypeOK, WorkersOK, WorkerPlaces
<1>3. \A v \in Workers : pc'[v] = pc[v] \/ (pc[v] = "popJob_sleep" /\ pc'[v] = "popJob")
  BY <1>1, <1>2 DEF Moved, Woken
<1>4. Total'
  BY DEF Moved, Total, Threads, Batches
<1>5. PlacesOK'
  BY <1>2, <1>3 DEF Moved, PlacesOK, WorkerPlaces
<1>6. WorkersOK'
  BY <1>2, <1>3 DEF WorkersOK
<1> QED BY <1>4, <1>5, <1>6

\* A step that moves no batch.
LEMMA Quiet ==
  ASSUME LoaderInv, UNCHANGED <<jobs, data, hold, got, epoch>>, Sent' = Sent
  PROVE  InPass' /\ Once'
<1>1. InPass'
  BY DEF LoaderInv, InPass, IsSent, Quit, None
<1>2. Once'
  BY DEF LoaderInv, Once, Quit, None
<1> QED BY <1>1, <1>2

\* The type invariant, of a step of which the queues and places are known.
LEMMA TypeKept ==
  ASSUME LoaderInv, PlacesOK', Total', UNCHANGED <<call, left, index, epoch>>,
         jobs' \in Seq(Batches \cup {Quit}), data' \in Seq(Batches), got' \in Seq(Batches)
  PROVE  LoaderTypeOK'
  BY DEF LoaderInv, PlacesOK, Total, LoaderTypeOK, WorkerPlaces, ClientPlaces, Batches, None, Quit

-----------------------------------------------------------------------------
(* Workers.                                                                 *)

\* A worker that moves without a batch, or wakes up, keeps the invariant.
LEMMA WorkerStepKeeps ==
  ASSUME LoaderInv, NEW w \in Workers, NEW to \in WorkerPlaces \ {"pushData_sleep"}, Moved(w, to),
         UNCHANGED <<jobs, data, hold, call, left, index, epoch, got>>,
         to \in {"load", "pushData"} => hold[w] # None
  PROVE  LoaderInv'
<1>1. /\ hold' \in [Workers -> Batches \cup {None}] /\ (to \in {"load", "pushData"} => hold'[w] # None)
      /\ \A v \in Workers \ {w} : hold'[v] = hold[v]
  BY DEF LoaderInv, Total
<1>2. PlacesOK' /\ Total' /\ ClientOK' /\ WorkersOK' /\ Sent' = Sent /\ Owed' = Owed
  BY <1>1, WorkerMoves
<1>3. LoaderTypeOK'
  BY <1>2, TypeKept DEF LoaderInv, LoaderTypeOK
<1>4. Credit'
  BY <1>2 DEF LoaderInv, Credit
<1> QED BY <1>2, <1>3, <1>4, Quiet DEF LoaderInv

\* A worker takes a job (DataLoader::workerThread).
LEMMA PopJobKeeps ==
  ASSUME LoaderInv, NEW w \in Workers, PopJob(w)
  PROVE  LoaderInv'
<1> USE DEF LoaderInv
<1>1. w \in Threads /\ w # Client /\ pc[w] = "popJob" /\ w \notin JobSleepers
  BY LoaderAssumption DEF PopJob, Threads, JobSleepers
<1>2. CASE jobs = <<>>
  <2>1. Moved(w, "popJob_sleep") /\ "popJob_sleep" \in WorkerPlaces \ {"pushData_sleep"}
    BY <1>1, <1>2, GoMoves DEF PopJob, WorkerPlaces
  <2>2. UNCHANGED <<jobs, data, hold, call, left, index, epoch, got>>
    BY <1>2 DEF PopJob
  <2> QED BY <2>1, <2>2, WorkerStepKeeps
<1>3. CASE jobs # <<>>
  <2> DEFINE job == Head(jobs)
             to == IF IsQuit(job) THEN "left" ELSE "load"
  <2>1. /\ jobs' = Tail(jobs) /\ hold' = [hold EXCEPT ![w] = job]
        /\ NotifyOne(w, to, JobSleepers) /\ UNCHANGED <<data, call, left, index, epoch, got>>
    BY <1>3 DEF PopJob
  <2>2. /\ job \in Batches \cup {Quit} /\ job = jobs[1] /\ Len(jobs) \in Nat \ {0}
        /\ jobs' \in Seq(Batches \cup {Quit}) /\ Len(jobs') = Len(jobs) - 1
        /\ \A i \in 1..Len(jobs) - 1 : i + 1 \in 1..Len(jobs) /\ i + 1 # 1 /\ jobs'[i] = jobs[i + 1]
    BY <1>3, <2>1, Popped DEF LoaderTypeOK
  <2>3. to \in WorkerPlaces \ {"pushData_sleep"} /\ Moved(w, to)
    <3>1. to \in WorkerPlaces \ {"pushData_sleep"}
      BY DEF WorkerPlaces
    <3> HIDE DEF to
    <3> QED BY <1>1, <2>1, <3>1, NotifyMoves
  <2>4. /\ hold' \in [Workers -> Batches \cup {None}] /\ hold'[w] = job
        /\ \A v \in Workers \ {w} : hold'[v] = hold[v]
    BY <2>1, <2>2 DEF Total, None
  <2>5. to \in {"load", "pushData"} => hold'[w] # None
    BY <2>4 DEF IsQuit, None
  <2> HIDE DEF to, job
  <2>6. PlacesOK' /\ Total' /\ ClientOK' /\ WorkersOK' /\ Sent' = Sent /\ Owed' = Owed
    BY <2>1, <2>3, <2>4, <2>5, WorkerMoves
  <2>7. LoaderTypeOK'
    BY <2>1, <2>2, <2>6, TypeKept DEF LoaderTypeOK
  <2>8. Credit'
    BY <2>1, <2>6 DEF Credit
  <2>9. 1 \in 1..Len(jobs) /\ epoch' = epoch
    BY <2>1, <2>2
  <2>10. InPass'
    <3>1. \A i \in 1..Len(jobs') : jobs'[i] # Quit => IsSent(jobs'[i])
      BY <2>2 DEF InPass
    <3>2. \A v \in Workers : hold'[v] # None => IsSent(hold'[v])
      BY <2>2, <2>4, <2>9 DEF InPass, None
    <3> QED BY <2>1, <2>6, <2>9, <3>1, <3>2 DEF InPass, IsSent, Quit, None
  <2>11. Once'
    <3>1. \A i \in 1..Len(jobs') : i \in 1..Len(jobs) - 1
      BY <2>2
    <3>2. ASSUME NEW i \in 1..Len(jobs'), NEW j \in 1..Len(jobs'), jobs'[i] = jobs'[j], jobs'[i] # Quit
          PROVE  i = j
      <4>1. i + 1 \in 1..Len(jobs) /\ j + 1 \in 1..Len(jobs) /\ jobs'[i] = jobs[i + 1] /\ jobs'[j] = jobs[j + 1]
        BY <2>2, <3>1
      <4>2. i + 1 = j + 1
        BY <3>2, <4>1 DEF Once
      <4> QED BY <4>2
    <3>3. \A u, v \in Workers : hold'[u] = hold'[v] /\ hold'[u] # None => u = v
      BY <2>2, <2>4, <2>9 DEF Once, None
    <3>4. /\ \A i \in 1..Len(jobs') : \A j \in 1..Len(data) : jobs'[i] # data[j]
          /\ \A i \in 1..Len(jobs') : \A j \in 1..Len(got) : jobs'[i] # got[j]
      <4>1. \A i \in 1..Len(jobs') : i + 1 \in 1..Len(jobs) /\ jobs'[i] = jobs[i + 1]
        BY <2>2, <3>1
      <4>2. ASSUME NEW i \in 1..Len(jobs'), NEW j \in 1..Len(data)
            PROVE  jobs'[i] # data[j]
        BY <4>1 DEF Once
      <4>3. ASSUME NEW i \in 1..Len(jobs'), NEW j \in 1..Len(got)
            PROVE  jobs'[i] # got[j]
        BY <4>1 DEF Once
      <4> QED BY <4>2, <4>3
    <3>5. ASSUME NEW v \in Workers, hold'[v] # None
          PROVE  /\ \A i \in 1..Len(jobs') : jobs'[i] # hold'[v]
                 /\ \A i \in 1..Len(data) : data[i] # hold'[v]
                 /\ \A i \in 1..Len(got) : got[i] # hold'[v]
      <4>1. CASE v = w
        BY <2>2, <2>4, <2>9, <3>1, <3>5, <4>1 DEF Once, None
      <4>2. CASE v # w
        BY <2>2, <2>4, <3>1, <3>5, <4>2 DEF Once
      <4> QED BY <4>1, <4>2
    <3>6. /\ \A i, j \in 1..Len(data') : data'[i] = data'[j] => i = j
          /\ \A i, j \in 1..Len(got') : got'[i] = got'[j] => i = j
          /\ \A i \in 1..Len(data') : \A j \in 1..Len(got') : data'[i] # got'[j]
      BY <2>1 DEF Once
    <3>7. \A i, j \in 1..Len(jobs') : jobs'[i] = jobs'[j] /\ jobs'[i] # Quit => i = j
      BY <3>2
    <3>8. /\ \A i \in 1..Len(jobs') : \A j \in 1..Len(data') : jobs'[i] # data'[j]
          /\ \A i \in 1..Len(jobs') : \A j \in 1..Len(got') : jobs'[i] # got'[j]
      BY <2>1, <3>4
    <3>9. \A v \in Workers : hold'[v] # None =>
            /\ \A i \in 1..Len(jobs') : jobs'[i] # hold'[v]
            /\ \A i \in 1..Len(data') : data'[i] # hold'[v]
            /\ \A i \in 1..Len(got') : got'[i] # hold'[v]
      BY <2>1, <3>5
    <3> QED BY <3>3, <3>6, <3>7, <3>8, <3>9 DEF Once, None
  <2> QED BY <2>6, <2>7, <2>8, <2>10, <2>11
<1> QED BY <1>2, <1>3

\* A worker puts a batch into the queue of data, and there is room for it: the
\* batches that are there or were returned, and its own, were all sent.
LEMMA Room ==
  ASSUME LoaderInv, NEW w \in Workers, pc[w] = "pushData"
  PROVE  Len(data) < NumJobs
<1> DEFINE n == Len(got)
           m == Len(data)
           f == [k \in 1..n + m + 1 |-> IF k <= n THEN got[k].index
                                        ELSE IF k <= n + m THEN data[k - n].index ELSE hold[w].index]
<1> USE DEF LoaderInv
<1>1. n \in Nat /\ m \in Nat /\ Sent \in Int
  BY LoaderAssumption DEF LoaderTypeOK, Sent
<1>2. hold[w] # None /\ IsSent(hold[w]) /\ hold[w] \in Batches
  BY DEF WorkersOK, InPass, Total
<1>3. /\ \A i \in 1..n : got[i] \in Batches /\ IsSent(got[i])
      /\ \A i \in 1..m : data[i] \in Batches /\ IsSent(data[i])
  BY DEF LoaderTypeOK, InPass
<1>4. \A b, c \in Batches : b.epoch = c.epoch /\ b.index = c.index => b = c
  BY DEF Batches
<1>5. /\ \A i, j \in 1..n : got[i].index = got[j].index => i = j
      /\ \A i, j \in 1..m : data[i].index = data[j].index => i = j
      /\ \A i \in 1..m : \A j \in 1..n : data[i].index # got[j].index
      /\ \A i \in 1..m : data[i].index # hold[w].index
      /\ \A i \in 1..n : got[i].index # hold[w].index
  BY <1>2, <1>3, <1>4 DEF Once, IsSent
<1>6. \A k \in 1..n + m + 1 : \/ k \in 1..n /\ f[k] = got[k].index
                              \/ k - n \in 1..m /\ ~(k <= n) /\ f[k] = data[k - n].index
                              \/ k = n + m + 1 /\ f[k] = hold[w].index
  <2> HIDE DEF n, m
  <2> QED BY <1>1
<1>7. f \in [1..n + m + 1 -> 1..Sent]
  <2>1. \A k \in 1..n + m + 1 : f[k] \in 1..Sent
    <3> HIDE DEF f, n, m
    <3> QED BY <1>2, <1>3, <1>6 DEF IsSent
  <2> QED BY <2>1
<1>8. ASSUME NEW i \in 1..n + m + 1, NEW j \in 1..n + m + 1, f[i] = f[j] PROVE i = j
  <2> HIDE DEF f, n, m
  <2>1. CASE i \in 1..n /\ f[i] = got[i].index
    <3>1. CASE j \in 1..n /\ f[j] = got[j].index
      BY <1>5, <1>8, <2>1, <3>1
    <3>2. CASE j - n \in 1..m /\ ~(j <= n) /\ f[j] = data[j - n].index
      BY <1>5, <1>8, <2>1, <3>2
    <3>3. CASE j = n + m + 1 /\ f[j] = hold[w].index
      BY <1>5, <1>8, <2>1, <3>3
    <3> QED BY <1>6, <3>1, <3>2, <3>3
  <2>2. CASE i - n \in 1..m /\ ~(i <= n) /\ f[i] = data[i - n].index
    <3>1. CASE j - n \in 1..m /\ f[j] = data[j - n].index
      <4>1. i - n = j - n
        BY <1>5, <1>8, <2>2, <3>1
      <4> QED BY <1>1, <4>1
    <3> QED BY <1>5, <1>6, <1>8, <2>2, <3>1
  <2>3. CASE i = n + m + 1 /\ f[i] = hold[w].index
    BY <1>5, <1>6, <1>8, <2>3
  <2> QED BY <1>6, <2>1, <2>2, <2>3
<1> HIDE DEF f
<1>9. Sent \in Nat \ {0}
  BY <1>1, <1>2 DEF IsSent
<1>10. n + m + 1 <= Sent
  <2> HIDE DEF n, m
  <2>1. f \in Injection(1..n + m + 1, 1..Sent)
    BY <1>7, <1>8 DEF Injection, IsInjective
  <2>2. /\ IsFiniteSet(1..Sent) /\ Cardinality(1..Sent) = Sent
        /\ Cardinality(1..n + m + 1) = n + m + 1
    BY <1>1, <1>9, FS_Interval
  <2> QED BY <2>1, <2>2, FS_Injection
<1>11. Owed >= 0 /\ Owed \in Int
  BY DEF LoaderTypeOK, Owed, ClientOK
<1> HIDE DEF n, m
<1>12. n + m + 1 <= n + NumJobs
  <2>1. Sent - n + Owed <= NumJobs
    BY DEF Credit, n
  <2> QED BY <1>1, <1>10, <1>11, <2>1, LoaderAssumption
<1> QED BY <1>1, <1>12, LoaderAssumption DEF m

\* A worker puts its batch into the queue of data (DataLoader::workerThread).
LEMMA PushDataKeeps ==
  ASSUME LoaderInv, NEW w \in Workers, PushData(w)
  PROVE  LoaderInv'
<1> USE DEF LoaderInv
<1>1. w \in Threads /\ w # Client /\ pc[w] = "pushData"
  BY LoaderAssumption DEF PushData, Threads
<1>2. Len(data) # Capacity
  BY <1>1, Room DEF Capacity
<1> DEFINE b == hold[w]
<1>3. /\ data' = Append(data, b) /\ hold' = [hold EXCEPT ![w] = None] /\ Go(w, "notifyData")
      /\ UNCHANGED <<jobs, call, left, index, epoch, got>>
  BY <1>2 DEF PushData
<1>4. b \in Batches /\ b # None /\ IsSent(b)
  BY <1>1 DEF WorkersOK, Total, InPass
<1>5. /\ data' \in Seq(Batches) /\ Len(data) \in Nat /\ Len(data') = Len(data) + 1
      /\ \A i \in 1..Len(data) : data'[i] = data[i]
      /\ data'[Len(data) + 1] = b
      /\ \A i \in 1..Len(data') : i \in 1..Len(data) \/ i = Len(data) + 1
  BY <1>3, <1>4, Appended DEF LoaderTypeOK
<1>6. "notifyData" \in WorkerPlaces \ {"pushData_sleep"} /\ Moved(w, "notifyData")
  BY <1>1, <1>3, GoMoves DEF WorkerPlaces
<1>7. /\ hold' \in [Workers -> Batches \cup {None}] /\ hold'[w] = None
      /\ \A v \in Workers \ {w} : hold'[v] = hold[v]
  BY <1>3 DEF Total
<1> HIDE DEF b
<1>8. PlacesOK' /\ Total' /\ ClientOK' /\ WorkersOK' /\ Sent' = Sent /\ Owed' = Owed
  BY <1>3, <1>6, <1>7, WorkerMoves
<1>9. LoaderTypeOK'
  BY <1>3, <1>5, <1>8, TypeKept DEF LoaderTypeOK
<1>10. Credit'
  BY <1>3, <1>8 DEF Credit
<1>11. InPass'
  <2>1. \A i \in 1..Len(data') : IsSent(data'[i])
    BY <1>4, <1>5 DEF InPass
  <2>2. \A v \in Workers : hold'[v] # None => IsSent(hold'[v])
    BY <1>7 DEF InPass
  <2> QED BY <1>3, <1>8, <2>1, <2>2 DEF InPass, IsSent, Quit, None
<1>12. Once'
  <2>1. /\ \A i \in 1..Len(jobs) : jobs[i] # b
        /\ \A i \in 1..Len(data) : data[i] # b
        /\ \A i \in 1..Len(got) : got[i] # b
        /\ \A v \in Workers \ {w} : hold[v] # b
    BY <1>4 DEF Once, b
  <2>2. \A i, j \in 1..Len(data') : data'[i] = data'[j] => i = j
    BY <1>5, <2>1 DEF Once
  <2>3. /\ \A i \in 1..Len(jobs) : \A j \in 1..Len(data') : jobs[i] # data'[j]
        /\ \A i \in 1..Len(data') : \A j \in 1..Len(got) : data'[i] # got[j]
    BY <1>5, <2>1 DEF Once
  <2>4. \A u, v \in Workers : hold'[u] = hold'[v] /\ hold'[u] # None => u = v
    BY <1>7 DEF Once
  <2>5. ASSUME NEW v \in Workers, hold'[v] # None
        PROVE  /\ \A i \in 1..Len(jobs) : jobs[i] # hold'[v]
               /\ \A i \in 1..Len(data') : data'[i] # hold'[v]
               /\ \A i \in 1..Len(got) : got[i] # hold'[v]
    <3>1. v # w /\ hold'[v] = hold[v]
      BY <1>7, <2>5
    <3> QED BY <1>5, <2>1, <2>5, <3>1 DEF Once
  <2> QED BY <1>3, <2>2, <2>3, <2>4, <2>5 DEF Once, Quit, None
<1> QED BY <1>8, <1>9, <1>10, <1>11, <1>12

-----------------------------------------------------------------------------
(* The client.                                                              *)

\* The client waits, or asks for a batch (DataLoader::next), or is woken.
LEMMA ClientWaits ==
  ASSUME LoaderInv, UNCHANGED <<jobs, data, hold, left, index, epoch, got>>,
         NEW to \in ClientPlaces, Moved(Client, to),
         \/ call' = call /\ pc[Client] \in {"pushJob", "pushJob_sleep"} /\ to \in {"pushJob", "pushJob_sleep"}
         \/ call' = call /\ pc[Client] \in {"popData", "popData_sleep"} /\ to \in {"popData", "popData_sleep"}
         \/ call' = "next" /\ pc[Client] = "idle" /\ to = "popData"
  PROVE  LoaderInv'
<1> USE DEF LoaderInv
<1>1. PlacesOK' /\ Total' /\ WorkersOK' /\ pc'[Client] = to
  BY ClientMoves DEF Moved
<1>2. (Pushing' <=> Pushing) /\ ClientOK'
  BY <1>1 DEF ClientOK, Pushing, Joins
<1>3. Sent' = Sent /\ Owed' = Owed
  BY <1>1, <1>2 DEF Sent, Owed, Joins, ClientOK
<1>4. LoaderTypeOK'
  BY <1>1 DEF PlacesOK, Total, LoaderTypeOK, WorkerPlaces, ClientPlaces, Batches, None, Quit
<1>5. Credit'
  BY <1>3 DEF Credit
<1> QED BY <1>1, <1>2, <1>3, <1>4, <1>5, Quiet

\* next takes a batch and owes another one (DataLoader::next).
LEMMA PopDataKeeps ==
  ASSUME LoaderInv, PopData
  PROVE  LoaderInv'
<1> USE DEF LoaderInv
<1>1. pc[Client] = "popData" /\ Client \in Threads /\ Client \notin DataSleepers
  BY LoaderAssumption DEF PopData, Threads, DataSleepers
<1>2. CASE data = <<>>
  <2>1. Moved(Client, "popData_sleep") /\ "popData_sleep" \in ClientPlaces
    BY <1>1, <1>2, GoMoves DEF PopData, ClientPlaces
  <2>2. UNCHANGED <<jobs, data, hold, call, left, index, epoch, got>>
    BY <1>2 DEF PopData
  <2> QED BY <1>1, <2>1, <2>2, ClientWaits
<1>3. CASE data # <<>>
  <2> DEFINE b == Head(data)
  <2>1. /\ data' = Tail(data) /\ got' = Append(got, b) /\ left' = 1
        /\ NotifyOne(Client, "prefetch", DataSleepers) /\ UNCHANGED <<jobs, hold, call, index, epoch>>
    BY <1>3 DEF PopData, Refill
  <2>2. /\ b \in Batches /\ b = data[1] /\ Len(data) \in Nat \ {0}
        /\ data' \in Seq(Batches) /\ Len(data') = Len(data) - 1
        /\ \A i \in 1..Len(data) - 1 : i + 1 \in 1..Len(data) /\ i + 1 # 1 /\ data'[i] = data[i + 1]
    BY <1>3, <2>1, Popped DEF LoaderTypeOK
  <2> HIDE DEF b
  <2>3. /\ got' \in Seq(Batches) /\ Len(got) \in Nat /\ Len(got') = Len(got) + 1
        /\ \A i \in 1..Len(got) : got'[i] = got[i]
        /\ got'[Len(got) + 1] = b
        /\ \A i \in 1..Len(got') : i \in 1..Len(got) \/ i = Len(got) + 1
    BY <2>1, <2>2, Appended DEF LoaderTypeOK
  <2>4. Moved(Client, "prefetch") /\ "prefetch" \in ClientPlaces
    BY <1>1, <2>1, NotifyMoves DEF ClientPlaces
  <2>5. PlacesOK' /\ Total' /\ WorkersOK' /\ pc'[Client] = "prefetch" /\ call = "next"
    BY <1>1, <2>1, <2>4, ClientMoves DEF Moved, ClientOK
  <2>6. ~Pushing /\ ~Pushing' /\ ClientOK'
    BY <1>1, <2>1, <2>5 DEF ClientOK, Pushing, Joins
  <2>7. Sent' = Sent /\ Owed' = 1 /\ Owed = left
    BY <1>1, <2>1, <2>5, <2>6 DEF Sent, Owed, Joins
  <2>8. Credit'
    <3>1. Sent \in Int /\ left \in Nat
      BY LoaderAssumption DEF Sent, LoaderTypeOK
    <3> QED BY <2>1, <2>3, <2>7, <3>1, LoaderAssumption DEF Credit
  <2>9. LoaderTypeOK'
    <3>1. left' \in 0..NumJobs
      <4>1. Cardinality(Workers) \in Nat \ {0}
        BY LoaderAssumption, FS_CardinalityType, FS_EmptySet
      <4> QED BY <2>1, <4>1, LoaderAssumption
    <3> QED BY <2>1, <2>2, <2>3, <2>5, <3>1
            DEF PlacesOK, Total, LoaderTypeOK, WorkerPlaces, ClientPlaces, Batches, None, Quit
  <2>10. \A i \in 1..Len(data') : i + 1 \in 1..Len(data) /\ data'[i] = data[i + 1] /\ i + 1 # 1
    BY <2>2
  <2>11. 1 \in 1..Len(data)
    BY <2>2
  <2>12. InPass'
    <3>1. \A i \in 1..Len(data') : IsSent(data'[i])
      BY <2>10 DEF InPass
    <3>2. \A i \in 1..Len(got') : IsSent(got'[i])
      BY <2>2, <2>3, <2>11 DEF InPass
    <3> QED BY <2>1, <2>7, <3>1, <3>2 DEF InPass, IsSent, Quit, None
  <2>13. Once'
    <3>1. /\ \A i \in 1..Len(jobs) : jobs[i] # b
          /\ \A i \in 1..Len(data') : data'[i] # b
          /\ \A i \in 1..Len(got) : got[i] # b
          /\ \A w \in Workers : hold[w] # None => hold[w] # b
      BY <2>2, <2>10, <2>11 DEF Once
    <3>2. ASSUME NEW i \in 1..Len(data'), NEW j \in 1..Len(data'), data'[i] = data'[j] PROVE i = j
      <4>1. i + 1 = j + 1
        BY <2>10, <3>2 DEF Once
      <4> QED BY <4>1
    <3>3. \A i, j \in 1..Len(got') : got'[i] = got'[j] => i = j
      BY <2>3, <3>1 DEF Once
    <3>4. /\ \A i \in 1..Len(jobs) : \A j \in 1..Len(data') : jobs[i] # data'[j]
          /\ \A i \in 1..Len(jobs) : \A j \in 1..Len(got') : jobs[i] # got'[j]
          /\ \A i \in 1..Len(data') : \A j \in 1..Len(got') : data'[i] # got'[j]
      <4>1. \A i \in 1..Len(jobs) : \A j \in 1..Len(data') : jobs[i] # data'[j]
        BY <2>10 DEF Once
      <4>2. \A i \in 1..Len(jobs) : \A j \in 1..Len(got') : jobs[i] # got'[j]
        BY <2>3, <3>1 DEF Once
      <4>3. \A i \in 1..Len(data') : \A j \in 1..Len(got) : data'[i] # got[j]
        BY <2>10 DEF Once
      <4>4. \A i \in 1..Len(data') : \A j \in 1..Len(got') : data'[i] # got'[j]
        BY <2>3, <3>1, <4>3
      <4> QED BY <4>1, <4>2, <4>4
    <3>5. ASSUME NEW w \in Workers, hold[w] # None
          PROVE  /\ \A i \in 1..Len(jobs) : jobs[i] # hold[w]
                 /\ \A i \in 1..Len(data') : data'[i] # hold[w]
                 /\ \A i \in 1..Len(got') : got'[i] # hold[w]
      <4>1. \A i \in 1..Len(jobs) : jobs[i] # hold[w]
        BY <3>5 DEF Once
      <4>2. \A i \in 1..Len(data') : data'[i] # hold[w]
        BY <2>10, <3>5 DEF Once
      <4>3. \A i \in 1..Len(got) : got[i] # hold[w]
        BY <3>5 DEF Once
      <4>4. \A i \in 1..Len(got') : got'[i] # hold[w]
        BY <2>3, <3>1, <3>5, <4>3
      <4> QED BY <4>1, <4>2, <4>4
    <3>6. /\ \A i, j \in 1..Len(jobs') : jobs'[i] = jobs'[j] /\ jobs'[i] # Quit => i = j
          /\ \A v, w \in Workers : hold'[v] = hold'[w] /\ hold'[v] # None => v = w
      BY <2>1 DEF Once
    <3>7. \A i, j \in 1..Len(data') : data'[i] = data'[j] => i = j
      BY <3>2
    <3>8. /\ \A i \in 1..Len(jobs') : \A j \in 1..Len(data') : jobs'[i] # data'[j]
          /\ \A i \in 1..Len(jobs') : \A j \in 1..Len(got') : jobs'[i] # got'[j]
          /\ \A i \in 1..Len(data') : \A j \in 1..Len(got') : data'[i] # got'[j]
      BY <2>1, <3>4
    <3>9. \A w \in Workers : hold'[w] # None =>
            /\ \A i \in 1..Len(jobs') : jobs'[i] # hold'[w]
            /\ \A i \in 1..Len(data') : data'[i] # hold'[w]
            /\ \A i \in 1..Len(got') : got'[i] # hold'[w]
      BY <2>1, <3>5
    <3> QED BY <3>3, <3>6, <3>7, <3>8, <3>9 DEF Once, None
  <2> QED BY <2>5, <2>6, <2>8, <2>9, <2>12, <2>13
<1> QED BY <1>2, <1>3

\* A round of prefetch draws a batch, and drops it or is about to push it
\* (DataLoader::prefetch, RandomSampler::next).
LEMMA PrefetchKeeps ==
  ASSUME LoaderInv, Prefetch
  PROVE  LoaderInv'
<1> USE DEF LoaderInv
<1>1. /\ pc[Client] = "prefetch" /\ left > 0 /\ index' = Advanced /\ Client \in Threads
      /\ UNCHANGED <<jobs, data, hold, call, epoch, got>> /\ call \in {"start", "next"}
  BY DEF Prefetch, Threads, ClientOK
<1>2. /\ index \in 0..NumBatches /\ left \in 0..NumJobs /\ NumBatches \in Nat \ {0} /\ NumJobs \in Nat
      /\ Len(got) \in Nat /\ DropShort \in BOOLEAN
  BY LoaderAssumption DEF LoaderTypeOK
<1>3. CASE index < NumBatches /\ ~DroppedLast
  <2>1. left' = left /\ Moved(Client, "pushJob") /\ "pushJob" \in ClientPlaces /\ index' = index + 1
    BY <1>1, <1>3, GoMoves DEF Prefetch, ClientPlaces, Advanced
  <2>2. PlacesOK' /\ Total' /\ WorkersOK' /\ pc'[Client] = "pushJob"
    BY <1>1, <2>1, ClientMoves DEF Moved
  <2>3. ~Pushing /\ Pushing' /\ ClientOK'
    BY <1>1, <1>2, <1>3, <2>1, <2>2 DEF ClientOK, Pushing, Joins, DroppedLast
  <2>4. Sent' = Sent /\ Owed' = Owed
    BY <1>1, <1>2, <1>3, <2>1, <2>2, <2>3 DEF Sent, Owed, Joins, DroppedLast
  <2>5. LoaderTypeOK'
    BY <1>1, <1>2, <1>3, <2>1, <2>2
       DEF PlacesOK, Total, LoaderTypeOK, WorkerPlaces, ClientPlaces, Batches, None, Quit
  <2>6. Credit'
    BY <1>1, <2>4 DEF Credit
  <2> QED BY <1>1, <2>2, <2>3, <2>4, <2>5, <2>6, Quiet
<1>4. CASE ~(index < NumBatches /\ ~DroppedLast)
  <2>1. left' = left - 1 /\ pc' = pc /\ index' = NumBatches /\ (index = NumBatches \/ (DropShort /\ index = NumBatches - 1))
    <3>1. left' = left - 1 /\ pc' = pc
      BY <1>4 DEF Prefetch
    <3>2. CASE index = NumBatches
      <4>1. ~(index < NumBatches)
        BY <1>2, <3>2
      <4> QED BY <1>1, <3>1, <3>2, <4>1 DEF Advanced
    <3>3. CASE DropShort /\ index = NumBatches - 1
      BY <1>1, <1>2, <3>1, <3>3 DEF Advanced
    <3> QED BY <1>2, <1>4, <3>2, <3>3 DEF DroppedLast
  <2>2. PlacesOK' /\ Total' /\ WorkersOK' /\ ~Pushing /\ ~Pushing'
    BY <1>1, <2>1 DEF PlacesOK, Total, WorkersOK, LoaderTypeOK, WorkerPlaces, ClientPlaces, Batches, Pushing
  <2>3. ClientOK'
    BY <1>1, <2>1, <2>2 DEF ClientOK, Joins
  <2>4. Sent' = Sent /\ Owed' = Owed - 1
    BY <1>1, <1>2, <2>1, <2>2 DEF Sent, Owed, Joins
  <2>5. LoaderTypeOK'
    BY <1>1, <1>2, <2>1, <2>2
       DEF PlacesOK, Total, LoaderTypeOK, WorkerPlaces, ClientPlaces, Batches, None, Quit
  <2>6. Credit'
    <3>1. Sent \in Int /\ Owed \in Int
      BY <1>1, <1>2 DEF Sent, Owed, Joins
    <3> QED BY <1>1, <1>2, <2>4, <3>1 DEF Credit
  <2> QED BY <1>1, <2>2, <2>3, <2>4, <2>5, <2>6, Quiet
<1> QED BY <1>3, <1>4

\* A job is put into the queue: a batch that was not sent before, or the message
\* to quit (DataLoader::prefetch, DataLoader::join).
LEMMA PushJobKeeps ==
  ASSUME LoaderInv, PushJob
  PROVE  LoaderInv'
<1> USE DEF LoaderInv
<1>1. pc[Client] = "pushJob" /\ Client \in Threads /\ left > 0 /\ call \in {"start", "next"} \cup Joins
  BY DEF PushJob, Threads, ClientOK
<1>2. /\ index \in 0..NumBatches /\ left \in 0..NumJobs /\ NumBatches \in Nat \ {0} /\ NumJobs \in Nat
      /\ Len(got) \in Nat /\ DropShort \in BOOLEAN /\ epoch \in 1..MaxEpochs
  BY LoaderAssumption DEF LoaderTypeOK
<1>3. CASE Len(jobs) = Capacity
  <2>1. Moved(Client, "pushJob_sleep") /\ "pushJob_sleep" \in ClientPlaces
    BY <1>1, <1>3, GoMoves DEF PushJob, ClientPlaces
  <2>2. UNCHANGED <<jobs, data, hold, call, left, index, epoch, got>>
    BY <1>3 DEF PushJob
  <2> QED BY <1>1, <2>1, <2>2, ClientWaits
<1>4. CASE Len(jobs) # Capacity
  <2> DEFINE b == Pushed
  <2>1. /\ jobs' = Append(jobs, b) /\ Moved(Client, "notifyJob") /\ "notifyJob" \in ClientPlaces
        /\ UNCHANGED <<data, hold, call, left, index, epoch, got>>
    BY <1>1, <1>4, GoMoves DEF PushJob, ClientPlaces
  <2>2. /\ call \in Joins => b = Quit
        /\ call \notin Joins => /\ b = [epoch |-> epoch, index |-> index] /\ Pushing /\ index > 0
                                /\ ~(DropShort /\ index = NumBatches)
    BY <1>1 DEF Pushed, Joins, Pushing, ClientOK
  <2> HIDE DEF b
  <2>3. b \in Batches \cup {Quit} /\ (call \notin Joins => b # Quit /\ b.epoch = epoch /\ b.index = index)
    BY <1>2, <2>2 DEF Batches, Quit
  <2>4. /\ jobs' \in Seq(Batches \cup {Quit}) /\ Len(jobs) \in Nat /\ Len(jobs') = Len(jobs) + 1
        /\ \A i \in 1..Len(jobs) : jobs'[i] = jobs[i]
        /\ jobs'[Len(jobs) + 1] = b
        /\ \A i \in 1..Len(jobs') : i \in 1..Len(jobs) \/ i = Len(jobs) + 1
    BY <2>1, <2>3, Appended DEF LoaderTypeOK
  <2>5. PlacesOK' /\ Total' /\ WorkersOK' /\ pc'[Client] = "notifyJob"
    BY <2>1, ClientMoves DEF Moved
  <2>6. ~Pushing' /\ ClientOK'
    BY <1>1, <2>1, <2>5 DEF ClientOK, Pushing, Joins
  <2>7. /\ call \in Joins => Sent' = Sent
        /\ call \notin Joins => Sent = index - 1 /\ Sent' = index
    BY <1>1, <2>1, <2>2, <2>5, <2>6 DEF Sent, Pushing
  <2>8. Credit'
    BY <1>1, <1>2, <2>1, <2>5, <2>7 DEF Credit, Owed, Joins
  <2>9. LoaderTypeOK'
    BY <2>1, <2>4, <2>5, TypeKept DEF LoaderTypeOK
  <2> DEFINE Later(x) == x.epoch = epoch' /\ x.index \in 1..Sent'
  <2>10. \A x \in Batches \cup {Quit} : x # Quit /\ IsSent(x) => Later(x) /\ (call \notin Joins => x # b)
    BY <1>2, <2>1, <2>3, <2>7 DEF IsSent, Quit, Batches
  <2>11. /\ \A i \in 1..Len(jobs) : jobs[i] \in Batches \cup {Quit}
         /\ \A i \in 1..Len(data) : data[i] \in Batches
         /\ \A i \in 1..Len(got) : got[i] \in Batches
         /\ \A w \in Workers : hold[w] \in Batches \cup {Quit}
         /\ \A x \in Batches : x # Quit
    <3>1. \A x \in Batches : x # Quit
      BY <1>2 DEF Batches, Quit
    <3> QED BY <3>1 DEF LoaderTypeOK, Total, None
  <2>12. InPass'
    <3>1. b # Quit => Later(b)
      BY <1>2, <2>1, <2>2, <2>3, <2>7
    <3> HIDE DEF Later
    <3>2. /\ \A i \in 1..Len(jobs) : jobs[i] # Quit => Later(jobs[i])
          /\ \A i \in 1..Len(data) : Later(data[i])
          /\ \A i \in 1..Len(got) : Later(got[i])
          /\ \A w \in Workers : hold[w] # None => Later(hold[w])
      BY <2>10, <2>11 DEF InPass, None
    <3>3. \A i \in 1..Len(jobs') : jobs'[i] # Quit => Later(jobs'[i])
      BY <2>4, <3>1, <3>2
    <3> QED BY <2>1, <3>2, <3>3 DEF InPass, IsSent, Quit, None, Later
  <2>13. Once'
    <3>1. b # Quit => /\ \A i \in 1..Len(jobs) : jobs[i] # b
                      /\ \A i \in 1..Len(data) : data[i] # b
                      /\ \A i \in 1..Len(got) : got[i] # b
                      /\ \A w \in Workers : hold[w] # b
      BY <2>2, <2>10, <2>11 DEF InPass, None
    <3>2. /\ \A i \in 1..Len(data) : data[i] # b
          /\ \A i \in 1..Len(got) : got[i] # b
          /\ \A w \in Workers : hold[w] # None => hold[w] # b
      BY <2>11, <3>1 DEF None
    <3>3. \A i, j \in 1..Len(jobs') : jobs'[i] = jobs'[j] /\ jobs'[i] # Quit => i = j
      BY <2>4, <3>1 DEF Once
    <3>4. /\ \A i \in 1..Len(jobs') : \A j \in 1..Len(data) : jobs'[i] # data[j]
          /\ \A i \in 1..Len(jobs') : \A j \in 1..Len(got) : jobs'[i] # got[j]
          /\ \A w \in Workers : hold[w] # None => \A i \in 1..Len(jobs') : jobs'[i] # hold[w]
      BY <2>4, <3>2 DEF Once
    <3>5. /\ \A i, j \in 1..Len(data') : data'[i] = data'[j] => i = j
          /\ \A i, j \in 1..Len(got') : got'[i] = got'[j] => i = j
          /\ \A v, w \in Workers : hold'[v] = hold'[w] /\ hold'[v] # None => v = w
          /\ \A i \in 1..Len(data') : \A j \in 1..Len(got') : data'[i] # got'[j]
      BY <2>1 DEF Once
    <3>6. /\ \A i \in 1..Len(jobs') : \A j \in 1..Len(data') : jobs'[i] # data'[j]
          /\ \A i \in 1..Len(jobs') : \A j \in 1..Len(got') : jobs'[i] # got'[j]
      BY <2>1, <3>4
    <3>7. \A w \in Workers : hold'[w] # None =>
            /\ \A i \in 1..Len(jobs') : jobs'[i] # hold'[w]
            /\ \A i \in 1..Len(data') : data'[i] # hold'[w]
            /\ \A i \in 1..Len(got') : got'[i] # hold'[w]
      BY <2>1, <3>4 DEF Once
    <3> QED BY <3>3, <3>5, <3>6, <3>7 DEF Once, None
  <2> QED BY <2>5, <2>6, <2>8, <2>9, <2>12, <2>13
<1> QED BY <1>3, <1>4

\* A round is over (DataLoader::prefetch, DataLoader::join).
LEMMA NotifyJobKeeps ==
  ASSUME LoaderInv, NotifyJob
  PROVE  LoaderInv'
<1> USE DEF LoaderInv
<1> DEFINE to == IF Pushed # Quit THEN "prefetch" ELSE IF left > 1 THEN "pushJob" ELSE "join"
<1>1. /\ pc[Client] = "notifyJob" /\ left' = left - 1 /\ NotifyOne(Client, to, JobSleepers)
      /\ UNCHANGED <<jobs, data, hold, call, index, epoch, got>>
      /\ Client \in Threads /\ Client \notin JobSleepers
      /\ left > 0 /\ call \in {"start", "next"} \cup Joins
  BY LoaderAssumption DEF NotifyJob, Threads, ClientOK, JobSleepers
<1>2. left \in 0..NumJobs /\ epoch \in 1..MaxEpochs /\ NumJobs \in Nat /\ Len(got) \in Nat
  BY LoaderAssumption DEF LoaderTypeOK
<1>3. Pushed = Quit <=> call \in Joins
  BY <1>2 DEF Pushed, Joins, Quit
<1>4. to \in ClientPlaces
  BY DEF ClientPlaces
<1>5. /\ call \in Joins /\ left > 1 => to = "pushJob"
      /\ call \in Joins /\ ~(left > 1) => to = "join"
      /\ call \notin Joins => to = "prefetch"
  BY <1>3
<1> HIDE DEF to
<1>6. Moved(Client, to)
  BY <1>1, <1>4, NotifyMoves
<1>7. PlacesOK' /\ Total' /\ WorkersOK' /\ pc'[Client] = to
  BY <1>1, <1>4, <1>6, ClientMoves DEF Moved
<1>8. ~Pushing /\ ~Pushing' /\ ClientOK'
  BY <1>1, <1>2, <1>5, <1>7 DEF ClientOK, Pushing, Joins
<1>9. Sent' = Sent /\ Owed' = Owed
  BY <1>1, <1>5, <1>7, <1>8 DEF Sent, Owed, Joins
<1>10. LoaderTypeOK'
  BY <1>1, <1>2, <1>7 DEF PlacesOK, Total, LoaderTypeOK, WorkerPlaces, ClientPlaces, Batches, None, Quit
<1>11. Credit'
  BY <1>1, <1>9 DEF Credit
<1> QED BY <1>1, <1>7, <1>8, <1>9, <1>10, <1>11, Quiet

\* The call is over, and the constructor and reset start the workers.
LEMMA PrefetchDoneKeeps ==
  ASSUME LoaderInv, PrefetchDone
  PROVE  LoaderInv'
<1> USE DEF LoaderInv
<1>1. /\ pc[Client] = "prefetch" /\ call \in {"start", "next"} /\ call' = "none" /\ Client \in Threads
      /\ UNCHANGED <<jobs, data, hold, left, index, epoch, got>>
      /\ pc'[Client] = "idle" /\ \A w \in Workers : pc'[w] = "popJob" \/ pc'[w] = pc[w]
      /\ pc' \in [Threads -> WorkerPlaces \cup ClientPlaces]
  BY LoaderAssumption DEF PrefetchDone, Threads, ClientOK, Total, WorkerPlaces, ClientPlaces
<1>2. LoaderTypeOK' /\ Total' /\ WorkersOK'
  BY <1>1 DEF LoaderTypeOK, Total, WorkersOK, Batches, None, Quit
<1>3. ~Pushing /\ ~Pushing' /\ ClientOK'
  BY <1>1 DEF ClientOK, Pushing, Joins
<1>4. Sent' = Sent /\ Owed' = Owed
  BY <1>1, <1>3 DEF Sent, Owed, Joins
<1>5. Credit'
  BY <1>1, <1>4 DEF Credit
<1> QED BY <1>1, <1>2, <1>3, <1>4, <1>5, Quiet

\* reset, clean and the destructor begin.
LEMMA CallJoinKeeps ==
  ASSUME LoaderInv, NEW c \in Joins, CallJoin(c)
  PROVE  LoaderInv'
<1> USE DEF LoaderInv
<1>1. /\ pc[Client] = "idle" /\ call \in {"none", "cleaned"} /\ call' = c /\ left' = Cardinality(Workers)
      /\ Moved(Client, "pushJob") /\ UNCHANGED <<jobs, data, hold, index, epoch, got>>
      /\ c = "destroy" \/ epoch < MaxEpochs
      /\ "pushJob" \in ClientPlaces
  BY GoMoves DEF CallJoin, Threads, ClientPlaces
<1>2. Cardinality(Workers) \in Nat \ {0} /\ Cardinality(Workers) \in 0..NumJobs
  BY LoaderAssumption, FS_CardinalityType, FS_EmptySet
<1>3. PlacesOK' /\ Total' /\ WorkersOK' /\ pc'[Client] = "pushJob"
  BY <1>1, ClientMoves DEF Moved
<1>4. ~Pushing /\ ~Pushing' /\ ClientOK'
  BY <1>1, <1>2, <1>3 DEF ClientOK, Pushing, Joins
<1>5. Sent' = Sent /\ Owed' = 0 /\ Owed \in Nat
  BY <1>1, <1>3, <1>4 DEF Sent, Owed, Joins, LoaderTypeOK
<1>6. LoaderTypeOK'
  BY <1>1, <1>2, <1>3 DEF PlacesOK, Total, LoaderTypeOK, WorkerPlaces, ClientPlaces, Batches, None, Quit, Joins
<1>7. Credit'
  <2>1. Sent \in Int /\ Len(got) \in Nat /\ NumJobs \in Nat
    BY LoaderAssumption DEF Sent, LoaderTypeOK
  <2> QED BY <1>1, <1>5, <2>1 DEF Credit
<1> QED BY <1>1, <1>3, <1>4, <1>5, <1>6, <1>7, Quiet

\* The workers are gone, and with them what they had; a reset starts a new pass
\* with empty queues (DataLoader::clean, DataLoader::reset).
LEMMA JoinedKeeps ==
  ASSUME LoaderInv, Joined
  PROVE  LoaderInv'
<1> USE DEF LoaderInv
<1>1. pc[Client] = "join" /\ call \in Joins /\ hold' = [w \in Workers |-> None]
      /\ \A w \in Workers : pc[w] \in {"left", "off"}
  BY DEF Joined, ClientOK
<1>2. CASE call = "destroy"
  <2>1. /\ Moved(Client, "gone") /\ "gone" \in ClientPlaces /\ UNCHANGED <<jobs, data, call, left, index, epoch, got>>
    BY <1>2, GoMoves DEF Joined, Threads, ClientPlaces
  <2>2. /\ pc'[Client] = "gone" /\ pc' \in [Threads -> WorkerPlaces \cup ClientPlaces]
        /\ \A w \in Workers : pc'[w] = pc[w]
    BY <1>1, <2>1, LoaderAssumption DEF Moved, Woken, Threads
  <2>3. PlacesOK' /\ Total' /\ WorkersOK'
    BY <1>1, <2>2 DEF PlacesOK, Total, WorkersOK, WorkerPlaces, ClientPlaces, None, Quit
  <2>4. LoaderTypeOK'
    BY <2>1, <2>3, TypeKept DEF LoaderTypeOK
  <2>5. ~Pushing /\ ~Pushing' /\ ClientOK'
    BY <1>1, <1>2, <2>1, <2>2 DEF ClientOK, Pushing, Joins
  <2>6. Sent' = Sent /\ Owed' = Owed
    BY <1>1, <2>1, <2>2, <2>5 DEF Sent, Owed
  <2>7. Credit'
    BY <2>1, <2>6 DEF Credit
  <2>8. InPass'
    BY <1>1, <2>1, <2>6 DEF InPass, IsSent, Quit, None
  <2>9. Once'
    BY <1>1, <2>1 DEF Once, Quit, None
  <2> QED BY <2>3, <2>4, <2>5, <2>7, <2>8, <2>9
<1>3. CASE call # "destroy"
  <2>1. /\ jobs' = <<>> /\ data' = <<>> /\ got' = <<>> /\ index' = 0 /\ epoch' = epoch + 1
        /\ call' = (IF call = "reset" THEN "start" ELSE "cleaned")
        /\ left' = (IF call = "reset" THEN NumJobs ELSE 0)
        /\ pc' = [t \in Threads |-> IF t # Client THEN "off" ELSE IF call = "reset" THEN "prefetch" ELSE "idle"]
    BY <1>3 DEF Joined, ClearedQueue
  <2>2. /\ pc' \in [Threads -> WorkerPlaces \cup ClientPlaces] /\ \A w \in Workers : pc'[w] = "off"
        /\ pc'[Client] = IF call = "reset" THEN "prefetch" ELSE "idle"
    BY <2>1, LoaderAssumption DEF Threads, WorkerPlaces, ClientPlaces
  <2>3. call \in {"reset", "clean"} /\ epoch < MaxEpochs /\ epoch \in 1..MaxEpochs
    BY <1>1, <1>3 DEF Joins, ClientOK, LoaderTypeOK
  <2>4. Total' /\ WorkersOK'
    BY <1>1, <2>2 DEF Total, WorkersOK, None, Quit
  <2>5. LoaderTypeOK'
    <3>1. /\ jobs' \in Seq(Batches \cup {Quit}) /\ data' \in Seq(Batches) /\ got' \in Seq(Batches)
      BY <2>1
    <3>2. left' \in 0..NumJobs /\ index' \in 0..NumBatches /\ epoch' \in 1..MaxEpochs
      BY <2>1, <2>3, LoaderAssumption
    <3> QED BY <1>1, <2>1, <2>2, <3>1, <3>2 DEF LoaderTypeOK, Batches, None, Quit
  <2>6. ~Pushing' /\ ClientOK'
    BY <2>1, <2>2, <2>3 DEF ClientOK, Pushing, Joins
  <2>7. Credit'
    <3>1. Sent' = 0
      BY <2>1, <2>6, LoaderAssumption DEF Sent
    <3>2. Owed' = left' /\ left' \in Nat /\ left' <= NumJobs /\ Len(got') = 0
      BY <2>1, <2>2, <2>3, LoaderAssumption DEF Owed, Joins
    <3>3. \A x, n, y : x = 0 /\ n = 0 /\ y \in Nat /\ y <= NumJobs => x - n + y <= NumJobs
      BY LoaderAssumption
    <3>4. Sent' - Len(got') + Owed' <= NumJobs
      BY <3>1, <3>2, <3>3
    <3> QED BY <3>4 DEF Credit
  <2>8. /\ Len(jobs') = 0 /\ Len(data') = 0 /\ Len(got') = 0 /\ \A w \in Workers : hold'[w] = None
    BY <1>1, <2>1
  <2>9. InPass' /\ Once'
    BY <2>8 DEF InPass, Once, None, Quit
  <2> QED BY <2>4, <2>5, <2>6, <2>7, <2>9
<1> QED BY <1>2, <1>3

-----------------------------------------------------------------------------
(* The invariant.                                                           *)

\* A loader that is constructed has sent nothing, and owes the first jobs.
LEMMA LoaderInitInv == LoaderInit => LoaderInv
<1> SUFFICES ASSUME LoaderInit PROVE LoaderInv
  OBVIOUS
<1>1. /\ jobs = <<>> /\ data = <<>> /\ got = <<>> /\ call = "start" /\ left = NumJobs /\ index = 0 /\ epoch = 1
      /\ pc \in [Threads -> WorkerPlaces \cup ClientPlaces]
      /\ pc[Client] = "prefetch" /\ \A w \in Workers : pc[w] = "off"
      /\ hold = [w \in Workers |-> None]
  BY LoaderAssumption DEF LoaderInit, Threads, WorkerPlaces, ClientPlaces
<1>2. Len(jobs) = 0 /\ Len(data) = 0 /\ Len(got) = 0 /\ \A w \in Workers : hold[w] = None
  BY <1>1
<1>3. Total /\ WorkersOK
  BY <1>1, <1>2 DEF Total, WorkersOK
<1>4. LoaderTypeOK
  <2>1. jobs \in Seq(Batches \cup {Quit}) /\ data \in Seq(Batches) /\ got \in Seq(Batches)
    BY <1>1
  <2>2. left \in 0..NumJobs /\ index \in 0..NumBatches /\ epoch \in 1..MaxEpochs
    BY <1>1, LoaderAssumption
  <2> QED BY <1>1, <1>2, <2>1, <2>2 DEF LoaderTypeOK
<1>5. ~Pushing /\ ClientOK
  BY <1>1 DEF ClientOK, Pushing, Joins
<1>6. Credit
  <2>1. Sent = 0 /\ Owed = NumJobs
    BY <1>1, <1>5, LoaderAssumption DEF Sent, Owed, Joins
  <2>2. NumJobs \in Nat
    BY LoaderAssumption
  <2> QED BY <1>2, <2>1, <2>2 DEF Credit
<1>7. InPass /\ Once
  BY <1>2 DEF InPass, Once
<1> QED BY <1>3, <1>4, <1>5, <1>6, <1>7 DEF LoaderInv

\* A thread that wakes up by itself.
LEMMA WakeKeeps ==
  ASSUME LoaderInv, NEW t \in Threads, SpuriousWake(t)
  PROVE  LoaderInv'
<1>1. /\ t \in JobSleepers \cup DataSleepers /\ Go(t, Awake(pc[t]))
      /\ UNCHANGED <<jobs, data, hold, call, left, index, epoch, got>>
  BY DEF SpuriousWake
<1>2. CASE t = Client
  <2>1. \/ pc[t] = "pushJob_sleep" /\ Awake(pc[t]) = "pushJob"
        \/ pc[t] = "popData_sleep" /\ Awake(pc[t]) = "popData"
    BY <1>1, <1>2, LoaderAssumption DEF JobSleepers, DataSleepers, Awake
  <2>2. Awake(pc[t]) \in ClientPlaces
    BY <2>1 DEF ClientPlaces
  <2>3. Moved(Client, Awake(pc[t]))
    BY <1>1, <1>2, <2>2, GoMoves DEF LoaderInv
  <2> QED BY <1>1, <1>2, <2>1, <2>2, <2>3, ClientWaits
<1>3. CASE t # Client
  <2>1. t \in Workers
    BY <1>3 DEF Threads
  <2>2. pc[t] = "popJob_sleep" /\ Awake(pc[t]) = "popJob"
    BY <1>1, <1>3, <2>1 DEF JobSleepers, DataSleepers, Awake, LoaderInv, WorkersOK
  <2>3. Moved(t, "popJob") /\ "popJob" \in WorkerPlaces \ {"pushData_sleep"}
    BY <1>1, <2>2, GoMoves DEF LoaderInv, WorkerPlaces
  <2> QED BY <1>1, <2>1, <2>3, WorkerStepKeeps
<1> QED BY <1>2, <1>3

\* A worker has loaded its batch, or tells that it put it into the queue.
LEMMA WorkerGoesOn ==
  ASSUME LoaderInv, NEW w \in Workers, Load(w) \/ NotifyData(w)
  PROVE  LoaderInv'
<1>1. w \in Threads /\ w # Client
  BY LoaderAssumption DEF Threads
<1>2. CASE Load(w)
  <2>1. Moved(w, "pushData") /\ "pushData" \in WorkerPlaces \ {"pushData_sleep"} /\ hold[w] # None
    BY <1>1, <1>2, GoMoves DEF Load, LoaderInv, WorkersOK, WorkerPlaces
  <2> QED BY <1>2, <2>1, WorkerStepKeeps DEF Load
<1>3. CASE NotifyData(w)
  <2>1. "popJob" \in WorkerPlaces \ {"pushData_sleep"} /\ w \notin DataSleepers /\ NotifyOne(w, "popJob", DataSleepers)
    BY <1>1, <1>3 DEF NotifyData, DataSleepers, WorkerPlaces
  <2>2. Moved(w, "popJob")
    BY <1>1, <2>1, NotifyMoves DEF LoaderInv
  <2> QED BY <1>3, <2>1, <2>2, WorkerStepKeeps DEF NotifyData
<1> QED BY <1>2, <1>3

\* Every step keeps the invariant.
LEMMA LoaderNextInv == LoaderInv /\ [LoaderNext]_loaderVars => LoaderInv'
<1> SUFFICES ASSUME LoaderInv, [LoaderNext]_loaderVars PROVE LoaderInv'
  OBVIOUS
<1>1. ASSUME NEW w \in Workers, Work(w) PROVE LoaderInv'
  BY <1>1, PopJobKeeps, PushDataKeeps, WorkerGoesOn DEF Work
<1>2. ASSUME NEW t \in Threads, SpuriousWake(t) PROVE LoaderInv'
  BY <1>2, WakeKeeps
<1>3. CASE CallNext
  <2>1. Moved(Client, "popData") /\ "popData" \in ClientPlaces
    BY <1>3, GoMoves DEF CallNext, LoaderInv, Threads, ClientPlaces
  <2> QED BY <1>3, <2>1, ClientWaits DEF CallNext
<1>4. ASSUME NEW c \in {"reset", "clean", "destroy"}, CallJoin(c) PROVE LoaderInv'
  BY <1>4, CallJoinKeeps DEF Joins
<1>5. CASE Serve
  BY <1>5, PopDataKeeps, PrefetchKeeps, PushJobKeeps, NotifyJobKeeps, PrefetchDoneKeeps, JoinedKeeps DEF Serve
<1>6. CASE UNCHANGED loaderVars
  <2> USE <1>6 DEF loaderVars
  <2>1. LoaderTypeOK' /\ Total'
    BY DEF LoaderInv, LoaderTypeOK, Total, Batches, None, Quit
  <2>2. (Pushing' <=> Pushing) /\ Sent' = Sent /\ Owed' = Owed
    BY DEF Pushing, Sent, Owed
  <2>3. ClientOK' /\ WorkersOK' /\ Credit'
    BY <2>2 DEF LoaderInv, ClientOK, WorkersOK, Credit, None, Quit
  <2> QED BY <2>1, <2>2, <2>3, Quiet DEF LoaderInv
<1> QED BY <1>1, <1>2, <1>3, <1>4, <1>5, <1>6 DEF LoaderNext, Gone

\* The inductive invariant holds of every state.
LEMMA LoaderInvariance == LoaderSpec => []LoaderInv
  BY LoaderInitInv, LoaderNextInv, PTL DEF LoaderSpec

-----------------------------------------------------------------------------
(* What holds of every state.                                               *)

\* No worker ever waits for the client to take a batch, so that every one of
\* them reads the message to quit that join waits for (DataLoader::join).
THEOREM RoomForAll == LoaderSpec => []WorkersNeverBlock
<1>1. LoaderInv => WorkersNeverBlock
  BY DEF LoaderInv, WorkersNeverBlock, WorkersOK
<1> QED BY <1>1, LoaderInvariance, PTL

\* The batches that next returns are of this pass, none is returned twice and
\* none is short if those are dropped (DataLoader::next, DataLoader::reset).
THEOREM EachBatchOnce == LoaderSpec => []FreshBatches
<1>1. ASSUME LoaderInv PROVE FreshBatches
  <2> USE <1>1 DEF LoaderInv
  <2>1. Len(got) \in Nat /\ DOMAIN got = 1..Len(got)
    BY LenProperties DEF LoaderTypeOK
  <2>2. \A i \in 1..Len(got) : IsSent(got[i])
    BY DEF InPass
  <2>3. IsInjective(got)
    BY <2>1 DEF IsInjective, Once
  <2>4. \A i \in DOMAIN got : got[i].epoch = epoch
    BY <2>1, <2>2 DEF IsSent
  <2>5. ASSUME DropShort, NEW i \in DOMAIN got PROVE got[i].index < NumBatches
    <3>1. Sent \in Int /\ Sent < NumBatches
      BY <2>5, LoaderAssumption DEF Sent, LoaderTypeOK
    <3> QED BY <2>1, <2>2, <3>1, LoaderAssumption DEF IsSent
  <2> QED BY <2>3, <2>4, <2>5 DEF FreshBatches, NoShortBatch
<1> QED BY <1>1, LoaderInvariance, PTL
=============================================================================
