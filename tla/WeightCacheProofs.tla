-------------------------- MODULE WeightCacheProofs --------------------------
(* Proofs about the weight files, for any program, sizes, number of starts,   *)
(* and any crashes and power failures in between; and about the background    *)
(* workers that weights can be given to, for any number of workers and tasks. *)
EXTENDS MCWeightCache, MCWorkerThread, FiniteSetTheorems, SequenceTheorems, TLAPS

-----------------------------------------------------------------------------
(* The allocator.                                                           *)

Block == [file : Nat, size : Nat, used : Nat]

End(s, p, w) == s.place[w][2] + p[w].size

\* An allocator that has placed the first weights of a program: a file has at
\* most one block in the free list, whose rest begins where its weights end,
\* and the weights of a file do not overlap.
TypedState(s) == s.free \in Seq(Block) /\ s.files \in Seq(Nat) /\ s.place \in Seq(Nat \X Nat)
BlocksFit(s) ==
    \A k \in 1..Len(s.free) :
        /\ s.free[k].file < Len(s.files) /\ s.free[k].size = s.files[s.free[k].file + 1]
        /\ s.free[k].used < s.free[k].size
OneBlock(s) == \A k, l \in 1..Len(s.free) : s.free[k].file = s.free[l].file => k = l
WeightsFit(s, p) ==
    \A w \in 1..Len(s.place) :
        s.place[w][1] < Len(s.files) /\ End(s, p, w) <= s.files[s.place[w][1] + 1]
BeforeRest(s, p) ==
    \A w \in 1..Len(s.place) : \A k \in 1..Len(s.free) :
        s.free[k].file = s.place[w][1] => End(s, p, w) <= s.free[k].used
NoOverlap(s, p) ==
    \A v, w \in 1..Len(s.place) :
        v # w /\ s.place[v][1] = s.place[w][1]
        => End(s, p, v) <= s.place[w][2] \/ End(s, p, w) <= s.place[v][2]
Good(s, p) == /\ TypedState(s) /\ Len(s.place) <= NumWeights
              /\ BlocksFit(s) /\ OneBlock(s) /\ WeightsFit(s, p) /\ BeforeRest(s, p) /\ NoOverlap(s, p)

-----------------------------------------------------------------------------
(* The inductive invariant.                                                 *)

\* The state of the allocator before weight i of a program is placed, or when it
\* is and its temporary memory is not yet given back.
StageOf(p, pack, i, placed) ==
    IF placed THEN WithWeight(Layouts(p, pack)[i - 1], p[i].size) ELSE Layouts(p, pack)[i - 1]

Packs == ~Trusts(proc)
ForTemp == proc.want = "temp" /\ proc.pc \in {"alloc", "size", "failed"}
Placed == proc.pc = "write" \/ ForTemp

\* The state of the process' allocator, which follows from how far it is.
Stage == StageOf(program, Packs, proc.next, Placed)

Lost == proc.pc = "failed"
Pcs == {"off", "load", "alloc", "size", "write", "marker", "run", "failed"}
ProcType == [pc : Pcs, cached : BOOLEAN, hint : Nat, newMmap : BOOLEAN, times : Nat, mapped : SUBSET Nat,
             free : Seq(Block), next : 1..NumWeights + 1, want : {"weight", "temp"}, place : Seq(Nat \X Nat)]
FileData == [data : Seq(0..NumWeights), durable : Seq(0..NumWeights)]

TypeInv ==
    /\ program \in Programs /\ proc \in ProcType
    /\ marker \in BOOLEAN /\ everCached \in BOOLEAN /\ relapsed \in BOOLEAN /\ cleanExit \in BOOLEAN
    /\ starts \in 0..MaxStarts
    /\ disk = [k \in DOMAIN disk |-> disk[k]] /\ DOMAIN disk \subseteq Files
    /\ \A k \in DOMAIN disk : disk[k] \in FileData /\ Len(disk[k].data) = Len(disk[k].durable)

\* Where the process is, and the files it has mapped.
PlaceInv ==
    /\ proc.pc \in {"marker", "run"} => proc.next = NumWeights + 1
    /\ proc.pc \in {"alloc", "size", "write", "failed"} => proc.next \in Weights
    /\ ForTemp => Packs /\ program[proc.next].temp > 0
    /\ proc.pc = "size" => /\ Fitting(proc.free, Request) = {}
                           /\ proc.times \in DOMAIN disk /\ Len(disk[proc.times].data) = 0
StageInv ==
    /\ proc.free = Stage.free /\ proc.place = Stage.place
    /\ proc.times = Len(Stage.files) + (IF Lost THEN 1 ELSE 0)
    /\ proc.mapped = 0..proc.times - 1 /\ proc.mapped \subseteq DOMAIN disk
    /\ \A k \in 1..Len(Stage.files) : Len(disk[k - 1].data) >= Stage.files[k]

\* Whether the marker existed when the process began to load.
HintInv ==
    /\ ~proc.cached => proc.hint = 0
    /\ proc.cached /\ ~marker => proc.hint = 1
    /\ proc.cached /\ marker /\ proc.pc \in {"load", "alloc", "size", "write", "failed"}
       => proc.hint >= 1 /\ (proc.next > 1 \/ proc.pc # "load" => proc.hint > 1)
    /\ marker \/ proc.cached => everCached

\* What was packed is in the files.
HeldAt(w) ==
    LET at == proc.place[w]
    IN  \A u \in Units(at[2], program[w].size) : disk[at[1]].data[u] = w
HeldInv ==
    Packs => \A w \in 1..Len(proc.place) : ~(proc.pc = "write" /\ w = proc.next) => HeldAt(w)

\* What is synced before the marker is created.
SyncInv ==
    proc.pc = "marker" =>
        proc.cached /\ (marker \/ \A k \in proc.mapped : disk[k].durable = disk[k].data)

\* What the marker stands for, unless a start without the cache has found it.
Kept(w) ==
    LET at == Layout(program, TRUE)[w]
    IN  /\ at[1] \in DOMAIN disk
        /\ at[2] + program[w].size <= Len(disk[at[1]].data)
        /\ \A u \in Units(at[2], program[w].size) : disk[at[1]].data[u] = w /\ disk[at[1]].durable[u] = w
VouchInv ==
    ~relapsed => /\ marker /\ proc.pc # "off" => proc.cached
                 /\ marker => \A w \in Weights : Kept(w)

\* What starts without the cache may leave: the first files of the layout, all
\* of their size but the last.
ResidueInv ==
    ~everCached => \A k \in DOMAIN disk :
        LET files == Layouts(program, TRUE)[NumWeights].files
        IN  /\ k < Len(files) /\ 0..k \subseteq DOMAIN disk
            /\ Len(disk[k].data) >= files[k + 1] \/ k + 1 \notin DOMAIN disk
FailInv ==
    ~everCached /\ Lost => proc.times \notin DOMAIN disk

IInv == /\ TypeInv /\ PlaceInv /\ StageInv /\ HintInv /\ HeldInv /\ SyncInv
        /\ VouchInv /\ ResidueInv /\ FailInv /\ NothingLeft

-----------------------------------------------------------------------------
(* Induction.                                                               *)

\* A set of natural numbers has a smallest one: what a recursive definition
\* computes is proved by excluding a smallest counterexample.
LEMMA LeastNat ==
  ASSUME NEW T \in SUBSET Nat, T # {}
  PROVE  \E x \in T : \A y \in T : x <= y
<1>1. PICK m \in T : TRUE
  OBVIOUS
<1> DEFINE B == {0..n : n \in {x \in T : x <= m}}
<1>2. B \subseteq FiniteSubsetsOf(Nat) /\ B # {}
  <2>1. \A n \in Nat : 0..n \in FiniteSubsetsOf(Nat)
    BY FS_Interval DEF FiniteSubsetsOf
  <2>2. 0..m \in B
    BY <1>1
  <2> QED BY <2>1, <2>2
<1>3. PICK b \in B : \A c \in B : ~(<<c, b>> \in StrictSubsetOrdering(Nat))
  <2> HIDE DEF B
  <2> QED BY <1>2, FS_StrictSubsetOrderingWellFounded, WFMin
<1>4. PICK x \in T : x <= m /\ b = 0..x
  BY <1>3
<1>5. ASSUME NEW y \in T, y < x PROVE FALSE
  <2>1. 0..y \in B
    BY <1>4, <1>5
  <2>2. <<0..y, b>> \in StrictSubsetOrdering(Nat)
    BY <1>4, <1>5 DEF StrictSubsetOrdering
  <2> QED BY <1>3, <2>1, <2>2
<1> QED BY <1>4, <1>5

\* The recursion over the weights is well founded: it starts with nothing laid
\* out, and each weight is laid out after the one before.
LEMMA LayoutsUnfold ==
  ASSUME NEW p, NEW pack
  PROVE  /\ Layouts(p, pack)[0] = NoLayout
         /\ \A i \in Weights : Layouts(p, pack)[i] = Laid(p, pack, Layouts(p, pack)[i - 1], i)
<1> DEFINE Rule(g, i) == IF i = 0 THEN NoLayout ELSE Laid(p, pack, g[i - 1], i)
           Upto(n, g) == g = [i \in 0..n |-> Rule(g, i)]
           Bad == {n \in Nat : ~\E g : Upto(n, g)}
<1>1. Bad = {}
  <2> SUFFICES ASSUME Bad # {} PROVE FALSE
    OBVIOUS
  <2>1. PICK n \in Bad : \A m \in Bad : n <= m
    BY LeastNat
  <2>2. n # 0
    <3>1. Upto(0, [i \in 0..0 |-> NoLayout])
      OBVIOUS
    <3> QED BY <2>1, <3>1
  <2>3. PICK g : Upto(n - 1, g)
    BY <2>1, <2>2, SMTT(30)
  <2>4. Upto(n, [i \in 0..n |-> IF i = n THEN Laid(p, pack, g[n - 1], n) ELSE g[i]])
    <3> DEFINE h == [i \in 0..n |-> IF i = n THEN Laid(p, pack, g[n - 1], n) ELSE g[i]]
    <3>1. \A i \in 0..n - 1 : h[i] = g[i] /\ g[i] = Rule(g, i)
      BY <2>1, <2>3
    <3>2. \A i \in 0..n : h[i] = Rule(h, i)
      <4> SUFFICES ASSUME NEW i \in 0..n PROVE h[i] = Rule(h, i)
        OBVIOUS
      <4>1. CASE i = 0
        <5>1. 0 \in 0..n - 1
          BY <2>1, <2>2
        <5>2. h[0] = g[0] /\ g[0] = Rule(g, 0)
          <6> HIDE DEF h, Rule
          <6> QED BY <3>1, <5>1
        <5> QED BY <4>1, <5>2
      <4>2. CASE i \in 1..n
        <5>1. i - 1 \in 0..n - 1
          BY <2>1, <4>2
        <5>2. h[i - 1] = g[i - 1]
          BY <3>1, <5>1
        <5>3. h[i] = Laid(p, pack, g[i - 1], i)
          <6>1. CASE i = n
            BY <6>1
          <6>2. CASE i # n
            <7>1. i \in 0..n - 1 /\ i # 0
              BY <2>1, <4>2, <6>2
            <7>2. h[i] = Rule(g, i)
              BY <3>1, <7>1
            <7> QED BY <7>1, <7>2
          <6> QED BY <6>1, <6>2
        <5> QED BY <4>2, <5>2, <5>3
      <4> QED BY <2>1, <4>1, <4>2
    <3> QED BY <3>2
  <2> HIDE DEF Upto
  <2> QED BY <2>1, <2>4
<1>2. NumWeights \in Nat
  BY WeightCacheAssumption
<1>3. \E g : Upto(NumWeights, g)
  BY <1>1, <1>2
<1>4. Layouts(p, pack) = CHOOSE g : Upto(NumWeights, g)
  BY DEF Layouts
<1>5. Upto(NumWeights, Layouts(p, pack))
  <2> HIDE DEF Upto
  <2> QED BY <1>3, <1>4
<1> QED BY <1>2, <1>5 DEF Weights

\* What holds of 0 and passes from each number below N to the next holds up to N.
LEMMA UpTo ==
  ASSUME NEW N \in Nat, NEW S, 0 \in S, \A i \in 0..N - 1 : i \in S => i + 1 \in S
  PROVE  0..N \subseteq S
<1> DEFINE T == (0..N) \ S
<1>1. ASSUME T # {} PROVE FALSE
  <2>1. PICK x \in T : \A y \in T : x <= y
    <3>1. T \in SUBSET Nat
      OBVIOUS
    <3> HIDE DEF T
    <3> QED BY <1>1, <3>1, LeastNat
  <2>2. x - 1 \in 0..N - 1 /\ x - 1 \notin T
    BY <2>1
  <2> QED BY <2>1, <2>2
<1> QED BY <1>1

-----------------------------------------------------------------------------
(* A request to the allocator.                                              *)

\* What appending does to a sequence.
LEMMA Appended ==
  ASSUME NEW S, NEW q \in Seq(S), NEW x \in S
  PROVE  /\ Append(q, x) \in Seq(S) /\ Len(q) \in Nat /\ Len(Append(q, x)) = Len(q) + 1
         /\ \A i \in 1..Len(q) : Append(q, x)[i] = q[i]
         /\ Append(q, x)[Len(q) + 1] = x
         /\ \A i \in 1..Len(q) + 1 : i \in 1..Len(q) \/ i = Len(q) + 1
OBVIOUS

\* What remains of a sequence without one element: the others, each once.
LEMMA Removed ==
  ASSUME NEW S, NEW q \in Seq(S), NEW k \in 1..Len(q)
  PROVE  /\ RemoveAt(q, k) \in Seq(S) /\ Len(RemoveAt(q, k)) = Len(q) - 1
         /\ \A i \in 1..Len(q) - 1 : RemoveAt(q, k)[i] = IF i < k THEN q[i] ELSE q[i + 1]
<1> DEFINE a == SubSeq(q, 1, k - 1)
           b == SubSeq(q, k + 1, Len(q))
<1>1. a \in Seq(S) /\ Len(a) = k - 1 /\ \A i \in 1..k - 1 : a[i] = q[i]
  BY SubSeqProperties
<1>2. b \in Seq(S) /\ Len(b) = Len(q) - k /\ \A i \in 1..Len(q) - k : b[i] = q[k + i]
  BY SubSeqProperties
<1>3. RemoveAt(q, k) = a \o b
  BY DEF RemoveAt
<1> HIDE DEF a, b
<1>4. /\ a \o b \in Seq(S) /\ Len(a \o b) = Len(a) + Len(b)
      /\ \A i \in 1..Len(a) + Len(b) : (a \o b)[i] = IF i <= Len(a) THEN a[i] ELSE b[i - Len(a)]
  BY <1>1, <1>2, ConcatProperties
<1>5. k \in Nat /\ Len(q) \in Nat /\ Len(a) + Len(b) = Len(q) - 1
  BY <1>1, <1>2
<1>6. ASSUME NEW i \in 1..Len(q) - 1 PROVE (a \o b)[i] = IF i < k THEN q[i] ELSE q[i + 1]
  <2>1. CASE i < k
    BY <1>1, <1>4, <1>5, <2>1
  <2>2. CASE ~(i < k)
    <3>1. i - (k - 1) \in 1..Len(q) - k /\ k + (i - (k - 1)) = i + 1
      BY <1>5, <2>2
    <3>2. (a \o b)[i] = b[i - (k - 1)]
      BY <1>1, <1>4, <1>5, <2>2
    <3> QED BY <1>2, <2>2, <3>1, <3>2
  <2> QED BY <2>1, <2>2
<1> QED BY <1>3, <1>4, <1>5, <1>6

\* The best fit is one of those that fit (EagerBufferAllocator::getFromFreeList).
LEMMA BestFits ==
  ASSUME NEW free \in Seq(Block), NEW n \in Nat, Fitting(free, n) # {}
  PROVE  BestFit(free, n) \in Fitting(free, n)
<1> DEFINE F == Fitting(free, n)
           R == {Rest(free[k]) : k \in F}
<1>1. \A k \in F : k \in 1..Len(free) /\ free[k] \in Block /\ Rest(free[k]) >= n /\ Rest(free[k]) \in Nat
  <2> TAKE k \in F
  <2>1. k \in 1..Len(free) /\ Rest(free[k]) >= n
    BY DEF Fitting
  <2>2. free[k] \in Block
    BY <2>1
  <2>3. Rest(free[k]) \in Int
    BY <2>2 DEF Rest, Block
  <2> QED BY <2>1, <2>2, <2>3
<1>2. R \in SUBSET Nat /\ R # {}
  BY <1>1
<1>3. PICK r \in R : \A q \in R : r <= q
  <2> HIDE DEF R
  <2> QED BY <1>2, LeastNat
<1> DEFINE K == {k \in F : Rest(free[k]) = r}
<1>4. K \in SUBSET Nat /\ K # {}
  BY <1>1
<1>5. PICK k \in K : \A l \in K : k <= l
  <2> HIDE DEF K
  <2> QED BY <1>4, LeastNat
<1>6. ASSUME NEW l \in F \ {k} PROVE Rest(free[k]) < Rest(free[l]) \/ (Rest(free[k]) = Rest(free[l]) /\ k < l)
  <2>1. r <= Rest(free[l]) /\ Rest(free[l]) \in Nat /\ r \in Nat /\ Rest(free[k]) = r
    BY <1>1, <1>2, <1>3, <1>5
  <2>2. CASE l \in K
    BY <1>1, <1>5, <1>6, <2>1, <2>2
  <2>3. CASE l \notin K
    BY <1>6, <2>1, <2>3
  <2> QED BY <2>2, <2>3
<1> HIDE DEF F
<1>7. \E j \in F : \A l \in F \ {j} :
        Rest(free[j]) < Rest(free[l]) \/ (Rest(free[j]) = Rest(free[l]) /\ j < l)
  BY <1>5, <1>6
<1> QED BY <1>7 DEF BestFit, F

\* What serves a request of n in the state s, and what is left: a block that has
\* room, whose file is in the list no more.
Serves(f, s, p, n) ==
    /\ f.block \in Block /\ f.free \in Seq(Block) /\ f.files \in Seq(Nat)
    /\ Len(s.files) <= Len(f.files) /\ Len(f.files) <= Len(s.files) + 1
    /\ \A i \in 1..Len(s.files) : f.files[i] = s.files[i]
    /\ f.block.file < Len(f.files) /\ f.block.size = f.files[f.block.file + 1]
    /\ f.block.used + n <= f.block.size
    /\ \A k \in 1..Len(f.free) : f.free[k].file # f.block.file /\ \E l \in 1..Len(s.free) : f.free[k] = s.free[l]
    /\ \A k, l \in 1..Len(f.free) : f.free[k].file = f.free[l].file => k = l
    /\ \A w \in 1..Len(s.place) : s.place[w][1] = f.block.file => End(s, p, w) <= f.block.used

\* A block has room for what it is made for (EagerBufferAllocator::alloc).
LEMMA BlockSizes ==
  ASSUME NEW n \in Nat \ {0}
  PROVE  BlockSize(n) \in Nat \ {0} /\ n <= BlockSize(n)
BY WeightCacheAssumption DEF BlockSize

\* A request is served (EagerBufferAllocator::onAlloc).
LEMMA FitServes ==
  ASSUME NEW p, NEW s, Good(s, p), NEW n \in Nat \ {0}
  PROVE  Serves(Fit(s, n), s, p, n)
<1> DEFINE f == Fit(s, n)
<1> USE DEF Good, TypedState
<1>1. Len(s.free) \in Nat /\ Len(s.files) \in Nat /\ Len(s.place) \in Nat
  OBVIOUS
<1>2. CASE Fitting(s.free, n) # {}
  <2> DEFINE k == BestFit(s.free, n)
             q == RemoveAt(s.free, k)
             b == s.free[k]
  <2>1. f.block = b /\ f.free = q /\ f.files = s.files
    BY <1>2 DEF Fit
  <2>2. k \in 1..Len(s.free) /\ Rest(b) >= n
    <3>1. k \in Fitting(s.free, n)
      BY <1>2, BestFits
    <3> QED BY <3>1 DEF Fitting
  <2> HIDE DEF f, k
  <2>3. /\ q \in Seq(Block) /\ Len(q) = Len(s.free) - 1
        /\ \A i \in 1..Len(s.free) - 1 : q[i] = IF i < k THEN s.free[i] ELSE s.free[i + 1]
    BY <2>2, Removed
  <2> HIDE DEF q
  <2>4. b \in Block
    BY <2>2
  <2>5. ASSUME NEW i \in 1..Len(q)
        PROVE  \E j \in 1..Len(s.free) : j # k /\ j = (IF i < k THEN i ELSE i + 1) /\ q[i] = s.free[j]
    <3>1. CASE i < k
      BY <1>1, <2>2, <2>3, <3>1
    <3>2. CASE ~(i < k)
      <4>1. i + 1 \in 1..Len(s.free) /\ i + 1 # k
        BY <1>1, <2>2, <2>3, <3>2
      <4> QED BY <2>3, <3>2, <4>1
    <3> QED BY <3>1, <3>2
  <2>6. \A i \in 1..Len(q) : q[i].file # b.file
    BY <2>2, <2>5 DEF OneBlock
  <2>7. ASSUME NEW i \in 1..Len(q), NEW j \in 1..Len(q), q[i].file = q[j].file PROVE i = j
    <3>1. (IF i < k THEN i ELSE i + 1) = (IF j < k THEN j ELSE j + 1)
      BY <2>5, <2>7 DEF OneBlock
    <3>2. i \in Nat /\ j \in Nat /\ k \in Nat
      BY <2>2
    <3>3. ASSUME NEW x \in Nat, NEW y \in Nat, NEW z \in Nat,
                 (IF x < z THEN x ELSE x + 1) = (IF y < z THEN y ELSE y + 1)
          PROVE  x = y
      <4> HIDE DEF Good, TypedState
      <4> QED BY <3>3
    <3> QED BY <3>1, <3>2, <3>3
  <2>8. /\ b.file < Len(s.files) /\ b.size = s.files[b.file + 1]
        /\ \A w \in 1..Len(s.place) : s.place[w][1] = b.file => End(s, p, w) <= b.used
    BY <2>2 DEF BlocksFit, BeforeRest
  <2>9. b.used + n <= b.size
    BY <2>2, <2>4 DEF Rest, Block
  <2>10. \A i \in 1..Len(q) : \E l \in 1..Len(s.free) : q[i] = s.free[l]
    BY <2>5
  <2> HIDE DEF b
  <2>11. Serves(f, s, p, n)
    <3> HIDE DEF Good, TypedState
    <3>1. s.files \in Seq(Nat) /\ Len(s.files) <= Len(s.files) /\ Len(s.files) <= Len(s.files) + 1
      BY <1>1 DEF Good, TypedState
    <3>2. \A i, j \in 1..Len(q) : q[i].file = q[j].file => i = j
      BY <2>7
    <3> QED BY <2>1, <2>3, <2>4, <2>6, <2>8, <2>9, <2>10, <3>1, <3>2, Zenon DEF Serves
  <2> QED BY <2>11 DEF f
<1>3. CASE Fitting(s.free, n) = {}
  <2> DEFINE size == BlockSize(n)
             b == [file |-> Len(s.files), size |-> size, used |-> 0]
             g == Append(s.files, size)
  <2>1. f.block = b /\ f.free = s.free /\ f.files = g
    BY <1>3 DEF Fit
  <2>2. size \in Nat \ {0} /\ n <= size
    BY BlockSizes
  <2> HIDE DEF f, size
  <2>3. /\ g \in Seq(Nat) /\ Len(g) = Len(s.files) + 1
        /\ \A i \in 1..Len(s.files) : g[i] = s.files[i]
        /\ g[Len(s.files) + 1] = size
    BY <2>2, Appended
  <2> HIDE DEF g
  <2>4. b \in Block /\ b.file = Len(s.files) /\ b.size = size /\ b.used = 0
    BY <1>1, <2>2 DEF Block
  <2>5. \A k \in 1..Len(s.free) : s.free[k].file # b.file
    <3> TAKE k \in 1..Len(s.free)
    <3>1. s.free[k].file < Len(s.files)
      BY DEF BlocksFit
    <3>2. s.free[k].file \in Nat
      <4>1. s.free[k] \in Block
        OBVIOUS
      <4> QED BY <4>1 DEF Block
    <3> QED BY <1>1, <2>4, <3>1, <3>2
  <2>6. \A w \in 1..Len(s.place) : s.place[w][1] # b.file
    <3> TAKE w \in 1..Len(s.place)
    <3>1. s.place[w][1] < Len(s.files)
      BY DEF WeightsFit
    <3>2. s.place[w][1] \in Nat
      OBVIOUS
    <3> QED BY <1>1, <2>4, <3>1, <3>2
  <2> HIDE DEF b
  <2>7. b.file < Len(g) /\ b.used + n <= b.size
    BY <1>1, <2>2, <2>3, <2>4
  <2>8. Serves(f, s, p, n)
    BY <1>1, <2>1, <2>3, <2>4, <2>5, <2>6, <2>7, SMTT(30) DEF Serves, OneBlock
  <2> QED BY <2>8 DEF f
<1> QED BY <1>2, <1>3

\* The state r goes on from the state s: what was there has not moved.
Extends(r, s) ==
    /\ Len(s.files) <= Len(r.files) /\ \A i \in 1..Len(s.files) : r.files[i] = s.files[i]
    /\ Len(s.place) <= Len(r.place) /\ \A w \in 1..Len(s.place) : r.place[w] = s.place[w]

\* What is left of a block, if anything, is listed again: the list is still one of
\* blocks with a rest, in files of their own (EagerBufferAllocator::returnMemory).
Relisted(q, c, r, s) ==
    /\ q \in Seq(Block) /\ BlocksFit(r) /\ OneBlock(r)
    /\ \A k \in 1..Len(q) : \/ q[k] = c
                            \/ q[k].file # c.file /\ \E l \in 1..Len(s.free) : q[k] = s.free[l]

LEMMA ListedAgain ==
  ASSUME NEW p, NEW s, Good(s, p), NEW n \in Nat, NEW f, Serves(f, s, p, n),
         NEW c \in Block, c.file = f.block.file, c.size = f.block.size,
         NEW q, q = f.free \/ (q = Append(f.free, c) /\ c.used < c.size),
         NEW r, r.free = q, r.files = f.files
  PROVE  Relisted(q, c, r, s)
<1>1. /\ q \in Seq(Block)
      /\ \A k \in 1..Len(q) : \/ k \in 1..Len(f.free) /\ q[k] = f.free[k]
                              \/ k = Len(f.free) + 1 /\ q[k] = c /\ c.used < c.size
  <2>1. f.free \in Seq(Block)
    BY DEF Serves
  <2>2. CASE q = f.free
    BY <2>1, <2>2
  <2>3. CASE q = Append(f.free, c) /\ c.used < c.size
    <3>1. /\ q \in Seq(Block) /\ Len(q) = Len(f.free) + 1
          /\ \A i \in 1..Len(f.free) : q[i] = f.free[i]
          /\ q[Len(f.free) + 1] = c
          /\ \A i \in 1..Len(f.free) + 1 : i \in 1..Len(f.free) \/ i = Len(f.free) + 1
      BY <2>1, <2>3, Appended
    <3> QED BY <2>3, <3>1
  <2> QED BY <2>2, <2>3
<1>2. \A k \in 1..Len(f.free) : f.free[k].file # c.file /\ \E l \in 1..Len(s.free) : f.free[k] = s.free[l]
  BY DEF Serves
<1>3. ASSUME NEW k \in 1..Len(q)
      PROVE  \/ q[k] = c /\ c.used < c.size
             \/ q[k].file # c.file /\ \E l \in 1..Len(s.free) : q[k] = s.free[l]
  BY <1>1, <1>2
<1>4. ASSUME NEW l \in 1..Len(s.free)
      PROVE  /\ s.free[l].file < Len(f.files) /\ s.free[l].size = f.files[s.free[l].file + 1]
             /\ s.free[l].used < s.free[l].size
  <2>1. s.free[l].file \in Nat /\ Len(s.files) \in Nat /\ Len(f.files) \in Nat
    <3>1. s.free[l] \in Block
      BY DEF Good, TypedState
    <3>2. s.free[l].file \in Nat
      BY <3>1 DEF Block
    <3>3. s.files \in Seq(Nat) /\ f.files \in Seq(Nat)
      BY DEF Good, TypedState, Serves
    <3> QED BY <3>2, <3>3
  <2>2. /\ s.free[l].file < Len(s.files) /\ s.free[l].size = s.files[s.free[l].file + 1]
        /\ s.free[l].used < s.free[l].size
    BY DEF Good, BlocksFit
  <2>3. s.free[l].file + 1 \in 1..Len(s.files)
    BY <2>1, <2>2
  <2>4. Len(s.files) <= Len(f.files) /\ \A i \in 1..Len(s.files) : f.files[i] = s.files[i]
    BY DEF Serves
  <2>5. s.free[l].file < Len(f.files)
    BY <2>1, <2>2, <2>4
  <2> QED BY <2>2, <2>3, <2>4, <2>5
<1>5. BlocksFit(r)
  <2>1. c.file < Len(f.files) /\ c.size = f.files[c.file + 1]
    BY DEF Serves
  <2> QED BY <1>3, <1>4, <2>1 DEF BlocksFit
<1>6. OneBlock(r)
  <2>1. \A i, j \in 1..Len(f.free) : f.free[i].file = f.free[j].file => i = j
    BY DEF Serves
  <2>2. ASSUME NEW i \in 1..Len(q), NEW j \in 1..Len(q), q[i].file = q[j].file PROVE i = j
    BY <1>1, <1>2, <2>1, <2>2
  <2> QED BY <2>2 DEF OneBlock
<1> QED BY <1>1, <1>3, <1>5, <1>6 DEF Relisted

\* The sizes of the weights of a program.
LEMMA SizeOf ==
  ASSUME NEW p \in Programs, NEW w \in Weights
  PROVE  p[w].size \in Nat \ {0} /\ p[w].temp \in Nat
BY WeightCacheAssumption DEF Programs

\* The memory that served is in its file, behind the weights of that file.
LEMMA BehindOthers ==
  ASSUME NEW p \in Programs, NEW s, Good(s, p), NEW n \in Nat, NEW f, Serves(f, s, p, n)
  PROVE  \A w \in 1..Len(s.place) :
            /\ s.place[w][1] < Len(f.files) /\ End(s, p, w) <= f.files[s.place[w][1] + 1]
            /\ s.place[w][1] \in Nat /\ s.place[w][2] \in Nat /\ End(s, p, w) \in Nat
            /\ w \in Weights
<1> TAKE w \in 1..Len(s.place)
<1>1. s.place[w][1] \in Nat /\ s.place[w][2] \in Nat /\ Len(s.files) \in Nat /\ Len(f.files) \in Nat
  <2>1. s.place[w] \in Nat \X Nat
    BY DEF Good, TypedState
  <2>2. s.files \in Seq(Nat) /\ f.files \in Seq(Nat)
    BY DEF Good, TypedState, Serves
  <2> QED BY <2>1, <2>2
<1>2. w \in Weights
  BY WeightCacheAssumption DEF Good, TypedState, Weights
<1>3. s.place[w][1] < Len(s.files) /\ End(s, p, w) <= s.files[s.place[w][1] + 1]
  BY DEF Good, WeightsFit
<1>4. Len(s.files) <= Len(f.files) /\ \A i \in 1..Len(s.files) : f.files[i] = s.files[i]
  BY DEF Serves
<1>5. s.place[w][1] + 1 \in 1..Len(s.files) /\ s.place[w][1] < Len(f.files)
  BY <1>1, <1>3, <1>4, SMTT(30)
<1>6. End(s, p, w) \in Nat
  <2>1. p[w].size \in Nat
    BY <1>2, SizeOf
  <2>2. \A x, y \in Nat : x + y \in Nat
    OBVIOUS
  <2>3. End(s, p, w) = s.place[w][2] + p[w].size
    BY DEF End
  <2> QED BY <1>1, <2>1, <2>2, <2>3, Zenon
<1> QED BY <1>1, <1>2, <1>3, <1>4, <1>5, <1>6

\* A weight is placed behind those of its file: the state is a good one again
\* (EagerBufferAllocator::onAlloc for a static buffer).
LEMMA WithWeightGood ==
  ASSUME NEW p \in Programs, NEW s, Good(s, p), Len(s.place) + 1 \in Weights
  PROVE  LET r == WithWeight(s, p[Len(s.place) + 1].size)
         IN  /\ Good(r, p) /\ Extends(r, s) /\ Len(r.place) = Len(s.place) + 1
             /\ Len(r.files) <= Len(s.files) + 1
<1> DEFINE i == Len(s.place) + 1
           n == p[i].size
           f == Fit(s, n)
           b == f.block
           c == [b EXCEPT !.used = @ + n]
           q == Listed(f.free, c)
           place == Append(s.place, <<b.file, b.used>>)
           r == WithWeight(s, n)
<1>1. n \in Nat \ {0} /\ n \in Nat
  BY SizeOf
<1>2. r = [free |-> q, files |-> f.files, place |-> place]
  BY DEF WithWeight
<1> HIDE DEF r, n
<1>3. Serves(f, s, p, n)
  BY <1>1, FitServes
<1> HIDE DEF f
<1>4. /\ b \in Block /\ b.file \in Nat /\ b.used \in Nat /\ b.size \in Nat /\ b.used + n <= b.size
      /\ b.file < Len(f.files) /\ b.size = f.files[b.file + 1]
  <2>1. b \in Block /\ b.used + n <= b.size /\ b.file < Len(f.files) /\ b.size = f.files[b.file + 1]
    BY <1>3 DEF Serves
  <2> QED BY <2>1 DEF Block
<1> HIDE DEF b
<1>5. c \in Block /\ c.file = b.file /\ c.size = b.size /\ c.used = b.used + n
  BY <1>1, <1>4 DEF Block
<1> HIDE DEF c
<1>6. /\ s.place \in Seq(Nat \X Nat) /\ s.files \in Seq(Nat) /\ f.files \in Seq(Nat) /\ f.free \in Seq(Block)
      /\ Len(s.place) \in Nat /\ Len(s.files) \in Nat /\ Len(f.files) \in Nat
  BY <1>3 DEF Good, TypedState, Serves
<1>7. /\ place \in Seq(Nat \X Nat) /\ Len(place) = i
      /\ \A w \in 1..Len(s.place) : place[w] = s.place[w]
      /\ place[i] = <<b.file, b.used>>
      /\ \A w \in 1..i : w \in 1..Len(s.place) \/ w = i
  <2>1. <<b.file, b.used>> \in Nat \X Nat
    BY <1>4
  <2> QED BY <1>6, <2>1, Appended
<1> HIDE DEF place
<1>8. q = f.free \/ (q = Append(f.free, c) /\ c.used < c.size)
  <2>1. CASE Rest(c) = 0
    BY <2>1 DEF Listed
  <2>2. CASE Rest(c) # 0
    <3>1. c.used < c.size
      BY <1>1, <1>4, <1>5, <2>2 DEF Rest
    <3> QED BY <2>2, <3>1 DEF Listed
  <2> QED BY <2>1, <2>2
<1>9. r.free = q /\ r.files = f.files /\ r.place = place
  BY <1>2
<1> HIDE DEF q
<1>list. /\ q \in Seq(Block) /\ BlocksFit(r) /\ OneBlock(r)
         /\ \A k \in 1..Len(q) : \/ q[k] = c
                                 \/ q[k].file # c.file /\ \E l \in 1..Len(s.free) : q[k] = s.free[l]
  <2>1. c.file = f.block.file /\ c.size = f.block.size
    BY <1>5 DEF b
  <2> QED BY <1>1, <1>3, <1>5, <1>8, <1>9, <2>1, ListedAgain DEF Relisted
<1>10. ASSUME NEW w \in 1..i
       PROVE  /\ w \in Weights /\ place[w][1] \in Nat /\ place[w][2] \in Nat
              /\ End(r, p, w) = place[w][2] + p[w].size /\ End(r, p, w) \in Nat
              /\ w \in 1..Len(s.place) => place[w] = s.place[w] /\ End(r, p, w) = End(s, p, w)
              /\ w = i => place[w][1] = b.file /\ place[w][2] = b.used /\ End(r, p, w) = b.used + n
  <2>1. w \in Weights /\ i \in Nat
    BY <1>6, WeightCacheAssumption DEF Weights
  <2>2. p[w].size \in Nat
    BY <2>1, SizeOf
  <2>3. place[w] \in Nat \X Nat
    BY <1>7
  <2>4. End(r, p, w) = place[w][2] + p[w].size
    BY <1>9 DEF End
  <2>5. w \in 1..Len(s.place) => place[w] = s.place[w] /\ End(r, p, w) = End(s, p, w)
    BY <1>7, <2>4 DEF End
  <2>6. w = i => place[w][1] = b.file /\ place[w][2] = b.used /\ End(r, p, w) = b.used + n
    BY <1>7, <2>4 DEF n
  <2> QED BY <2>1, <2>2, <2>3, <2>4, <2>5, <2>6
<1>11. WeightsFit(r, p)
  <2>1. ASSUME NEW w \in 1..i PROVE place[w][1] < Len(f.files) /\ End(r, p, w) <= f.files[place[w][1] + 1]
    <3>1. CASE w \in 1..Len(s.place)
      BY <1>1, <1>3, <1>10, <3>1, BehindOthers
    <3>2. CASE w = i
      BY <1>4, <1>10, <3>2
    <3> QED BY <1>7, <3>1, <3>2
  <2> QED BY <1>7, <1>9, <2>1 DEF WeightsFit
<1>12. BeforeRest(r, p)
  <2>1. ASSUME NEW w \in 1..i, NEW k \in 1..Len(q), q[k].file = place[w][1] PROVE End(r, p, w) <= q[k].used
    <3>1. CASE w \in 1..Len(s.place) /\ q[k] = c
      <4>1. End(s, p, w) <= b.used
        BY <1>3, <1>5, <1>10, <2>1, <3>1 DEF Serves, b
      <4> QED BY <1>1, <1>4, <1>5, <1>10, <3>1, <4>1
    <3>2. CASE w \in 1..Len(s.place) /\ q[k] # c
      <4>1. PICK l \in 1..Len(s.free) : q[k] = s.free[l]
        BY <1>list, <3>2
      <4> QED BY <1>10, <2>1, <3>2, <4>1 DEF Good, BeforeRest
    <3>3. CASE w = i
      <4>1. q[k] = c
        BY <1>5, <1>10, <1>list, <2>1, <3>3
      <4> QED BY <1>1, <1>4, <1>5, <1>10, <3>3, <4>1, SMTT(30)
    <3> QED BY <1>7, <3>1, <3>2, <3>3
  <2> QED BY <1>7, <1>9, <2>1 DEF BeforeRest
<1>13. NoOverlap(r, p)
  <2>1. ASSUME NEW v \in 1..Len(s.place), place[v][1] = b.file PROVE End(r, p, v) <= b.used
    <3>1. v \in 1..i
      BY <1>6
    <3> QED BY <1>3, <1>10, <2>1, <3>1 DEF Serves, b
  <2>2. ASSUME NEW v \in 1..i, NEW w \in 1..i, v # w, place[v][1] = place[w][1]
        PROVE  End(r, p, v) <= place[w][2] \/ End(r, p, w) <= place[v][2]
    <3>1. CASE v \in 1..Len(s.place) /\ w \in 1..Len(s.place)
      BY <1>10, <2>2, <3>1 DEF Good, NoOverlap
    <3>2. CASE w = i /\ v \in 1..Len(s.place)
      BY <1>10, <2>1, <2>2, <3>2
    <3>3. CASE v = i /\ w \in 1..Len(s.place)
      BY <1>10, <2>1, <2>2, <3>3
    <3> QED BY <1>7, <2>2, <3>1, <3>2, <3>3
  <2> QED BY <1>7, <1>9, <2>2 DEF NoOverlap
<1>14. Good(r, p)
  <2>1. TypedState(r)
    BY <1>6, <1>7, <1>9, <1>list DEF TypedState
  <2>2. Len(r.place) <= NumWeights
    BY <1>7, <1>9, WeightCacheAssumption DEF Weights
  <2> QED BY <1>11, <1>12, <1>13, <1>list, <2>1, <2>2 DEF Good
<1>15. Extends(r, s) /\ Len(r.files) <= Len(s.files) + 1
  <2>1. /\ Len(s.files) <= Len(f.files) /\ Len(f.files) <= Len(s.files) + 1
        /\ \A j \in 1..Len(s.files) : f.files[j] = s.files[j]
    BY <1>3 DEF Serves
  <2> QED BY <1>6, <1>7, <1>9, <2>1 DEF Extends
<1> QED BY <1>7, <1>9, <1>14, <1>15 DEF r, n

\* Temporary memory is given back: the state is a good one again
\* (EagerBufferAllocator::onRelease).
LEMMA AfterTempGood ==
  ASSUME NEW p \in Programs, NEW s, Good(s, p), NEW n \in Nat \ {0}
  PROVE  LET r == AfterTemp(s, n)
         IN  /\ Good(r, p) /\ Extends(r, s) /\ Len(r.place) = Len(s.place)
             /\ Len(r.files) <= Len(s.files) + 1
<1> DEFINE f == Fit(s, n)
           b == f.block
           q == Append(f.free, b)
           r == AfterTemp(s, n)
<1>1. r = [free |-> q, files |-> f.files, place |-> s.place]
  BY DEF AfterTemp
<1> HIDE DEF r
<1>2. Serves(f, s, p, n)
  BY FitServes
<1> HIDE DEF f
<1>3. b \in Block /\ b.used < b.size
  <2>1. b \in Block /\ b.used + n <= b.size
    BY <1>2 DEF Serves
  <2>2. b.used \in Nat /\ b.size \in Nat
    BY <2>1 DEF Block
  <2> QED BY <2>1, <2>2
<1>4. r.free = q /\ r.files = f.files /\ r.place = s.place
  BY <1>1
<1>5. q = Append(f.free, b) /\ b = f.block
  OBVIOUS
<1> HIDE DEF q, b
<1>6. /\ q \in Seq(Block) /\ BlocksFit(r) /\ OneBlock(r)
      /\ \A k \in 1..Len(q) : \/ q[k] = b
                              \/ q[k].file # b.file /\ \E l \in 1..Len(s.free) : q[k] = s.free[l]
  <2>1. n \in Nat /\ b.file = f.block.file /\ b.size = f.block.size
    BY <1>5
  <2>2. q = f.free \/ (q = Append(f.free, b) /\ b.used < b.size)
    BY <1>3, <1>5
  <2>3. Relisted(q, b, r, s)
    BY <1>2, <1>3, <1>4, <2>1, <2>2, ListedAgain
  <2> QED BY <2>3 DEF Relisted
<1>7. \A w : End(r, p, w) = End(s, p, w)
  BY <1>4 DEF End
<1>8. WeightsFit(r, p)
  BY <1>2, <1>4, <1>7, BehindOthers DEF WeightsFit
<1>9. BeforeRest(r, p)
  <2>1. ASSUME NEW w \in 1..Len(s.place), NEW k \in 1..Len(q), q[k].file = s.place[w][1]
        PROVE  End(s, p, w) <= q[k].used
    <3>1. CASE q[k] = b
      BY <1>2, <1>5, <2>1, <3>1 DEF Serves
    <3>2. CASE q[k] # b
      BY <1>6, <2>1, <3>2 DEF Good, BeforeRest
    <3> QED BY <3>1, <3>2
  <2> QED BY <1>4, <1>7, <2>1 DEF BeforeRest
<1>10. NoOverlap(r, p)
  BY <1>4, <1>7 DEF Good, NoOverlap
<1>11. TypedState(r) /\ Len(r.place) <= NumWeights
  BY <1>2, <1>4, <1>6 DEF Good, TypedState, Serves
<1>12. Good(r, p)
  BY <1>6, <1>8, <1>9, <1>10, <1>11 DEF Good
<1>13. Extends(r, s) /\ Len(r.files) <= Len(s.files) + 1 /\ Len(r.place) = Len(s.place)
  <2>1. /\ Len(s.files) <= Len(f.files) /\ Len(f.files) <= Len(s.files) + 1
        /\ \A j \in 1..Len(s.files) : f.files[j] = s.files[j]
    BY <1>2 DEF Serves
  <2>2. Len(s.place) \in Nat
    BY DEF Good, TypedState
  <2> QED BY <1>4, <2>1, <2>2 DEF Extends
<1> QED BY <1>12, <1>13 DEF r

\* Going on is transitive.
LEMMA ExtendsOn ==
  ASSUME NEW p, NEW q, NEW r, NEW s, Good(s, p), Good(r, p), Good(q, p), Extends(r, s), Extends(q, r)
  PROVE  Extends(q, s)
<1>1. /\ Len(s.files) \in Nat /\ Len(r.files) \in Nat /\ Len(q.files) \in Nat
      /\ Len(s.place) \in Nat /\ Len(r.place) \in Nat /\ Len(q.place) \in Nat
  BY DEF Good, TypedState
<1>2. \A i \in 1..Len(s.files) : i \in 1..Len(r.files)
  BY <1>1 DEF Extends
<1>3. \A w \in 1..Len(s.place) : w \in 1..Len(r.place)
  BY <1>1 DEF Extends
<1> QED BY <1>1, <1>2, <1>3 DEF Extends

\* After i weights, i are placed, and each took at most two new files.
Laying(p, pack, i) ==
    LET s == Layouts(p, pack)[i]
    IN  Good(s, p) /\ Len(s.place) = i /\ Len(s.files) <= 2 * i

\* One weight more.
LEMMA NextWeight ==
  ASSUME NEW p \in Programs, NEW pack \in BOOLEAN, NEW i \in Weights, Laying(p, pack, i - 1)
  PROVE  LET s == Layouts(p, pack)[i - 1]
             a == WithWeight(s, p[i].size)
             t == Layouts(p, pack)[i]
         IN  /\ Laying(p, pack, i)
             /\ Good(a, p) /\ Extends(a, s) /\ Len(a.place) = i /\ Len(a.files) <= 2 * i - 1
             /\ Extends(t, s) /\ Extends(t, a) /\ t.place = a.place
             /\ t = IF pack /\ p[i].temp > 0 THEN AfterTemp(a, p[i].temp) ELSE a
<1> DEFINE s == Layouts(p, pack)[i - 1]
           a == WithWeight(s, p[i].size)
           t == Layouts(p, pack)[i]
<1>1. t = IF pack /\ p[i].temp > 0 THEN AfterTemp(a, p[i].temp) ELSE a
  BY LayoutsUnfold DEF Laid
<1>2. Good(s, p) /\ Len(s.place) + 1 = i /\ Len(s.files) <= 2 * (i - 1) /\ i \in Nat /\ Len(s.files) \in Nat
  <2>1. Good(s, p) /\ Len(s.place) = i - 1 /\ Len(s.files) <= 2 * (i - 1)
    BY DEF Laying
  <2>2. i \in Nat
    BY DEF Weights
  <2>3. Len(s.files) \in Nat
    BY <2>1 DEF Good, TypedState
  <2> QED BY <2>1, <2>2, <2>3
<1> HIDE DEF s, t
<1>3. /\ Good(a, p) /\ Extends(a, s) /\ Len(a.place) = Len(s.place) + 1 /\ Len(a.files) <= Len(s.files) + 1
  BY <1>2, WithWeightGood
<1> HIDE DEF a
<1>4. Len(a.files) \in Nat /\ Len(a.place) \in Nat /\ Len(a.place) = i /\ Len(a.files) <= 2 * i - 1
  <2>1. Len(a.files) \in Nat /\ Len(a.place) \in Nat
    BY <1>3 DEF Good, TypedState
  <2> QED BY <1>2, <1>3, <2>1
<1>5. Good(t, p) /\ Extends(t, a) /\ t.place = a.place /\ Len(t.files) <= 2 * i
  <2>1. CASE pack /\ p[i].temp > 0
    <3> DEFINE n == p[i].temp
    <3>1. n \in Nat \ {0}
      BY <2>1, SizeOf
    <3>2. t = AfterTemp(a, n)
      BY <1>1, <2>1
    <3> HIDE DEF n
    <3>3. /\ Good(t, p) /\ Extends(t, a) /\ Len(t.files) <= Len(a.files) + 1
      BY <1>3, <3>1, <3>2, AfterTempGood
    <3>4. t.place = a.place
      BY <3>2 DEF AfterTemp
    <3>5. Len(t.files) \in Nat
      BY <3>3 DEF Good, TypedState
    <3> QED BY <1>2, <1>4, <3>3, <3>4, <3>5
  <2>2. CASE ~(pack /\ p[i].temp > 0)
    <3>1. t = a
      BY <1>1, <2>2
    <3>2. Extends(a, a)
      BY <1>4 DEF Extends
    <3> QED BY <1>2, <1>3, <1>4, <3>1, <3>2
  <2> QED BY <2>1, <2>2
<1>6. Extends(t, s)
  BY <1>2, <1>3, <1>5, ExtendsOn
<1>7. Laying(p, pack, i)
  <2>1. Len(t.place) = i
    BY <1>4, <1>5
  <2> QED BY <1>5, <2>1 DEF Laying, t
<1> QED BY <1>1, <1>3, <1>4, <1>5, <1>6, <1>7 DEF s, a, t

\* The number of weights, and the numbers of the weights.
LEMMA WeightNumbers ==
  /\ NumWeights \in Nat \ {0}
  /\ \A i \in Weights : i \in Nat /\ i - 1 \in 0..NumWeights /\ i \in 0..NumWeights
  /\ \A i \in 1..NumWeights + 1 : i - 1 \in 0..NumWeights
  /\ \A i \in 1..NumWeights + 1 : i # NumWeights + 1 => i \in Weights
  /\ NumWeights \in 0..NumWeights
BY WeightCacheAssumption DEF Weights

\* Every number of weights is laid out (by induction).
LEMMA AllLaid ==
  ASSUME NEW p \in Programs, NEW pack \in BOOLEAN, NEW i \in 0..NumWeights
  PROVE  Laying(p, pack, i)
<1> DEFINE S == {j \in 0..NumWeights : Laying(p, pack, j)}
<1>1. 0 \in S
  <2>1. Layouts(p, pack)[0] = NoLayout
    BY LayoutsUnfold
  <2>2. Good(NoLayout, p) /\ Len(NoLayout.place) = 0 /\ Len(NoLayout.files) = 0
    BY WeightNumbers DEF NoLayout, Good, TypedState, BlocksFit, OneBlock, WeightsFit, BeforeRest, NoOverlap
  <2> QED BY <2>1, <2>2, WeightNumbers DEF Laying
<1>2. ASSUME NEW j \in 0..NumWeights - 1, j \in S PROVE j + 1 \in S
  <2>1. j + 1 \in Weights /\ (j + 1) - 1 = j /\ j + 1 \in 0..NumWeights
    BY WeightCacheAssumption DEF Weights
  <2>2. Laying(p, pack, (j + 1) - 1)
    BY <1>2, <2>1
  <2>3. Laying(p, pack, j + 1)
    <3> HIDE DEF S
    <3> QED BY <2>1, <2>2, NextWeight
  <2> QED BY <2>1, <2>3
<1>3. 0..NumWeights \subseteq S
  <2> HIDE DEF S
  <2> QED BY <1>1, <1>2, WeightNumbers, UpTo
<1> QED BY <1>3

\* What was laid out does not move until the end, and the end has it all.
LEMMA EndExtends ==
  ASSUME NEW p \in Programs, NEW pack \in BOOLEAN, NEW i \in 0..NumWeights
  PROVE  Extends(Layouts(p, pack)[NumWeights], Layouts(p, pack)[i])
<1> DEFINE T == Layouts(p, pack)
           S == {d \in 0..NumWeights : Extends(T[NumWeights], T[NumWeights - d])}
<1>1. ASSUME NEW j \in 0..NumWeights PROVE Good(T[j], p)
  BY AllLaid DEF Laying
<1>2. 0 \in S
  <2>1. NumWeights - 0 = NumWeights
    BY WeightNumbers
  <2>2. Good(T[NumWeights], p)
    BY <1>1, WeightNumbers
  <2>3. Extends(T[NumWeights], T[NumWeights])
    <3>1. Len(T[NumWeights].files) \in Nat /\ Len(T[NumWeights].place) \in Nat
      BY <2>2 DEF Good, TypedState
    <3> QED BY <3>1 DEF Extends
  <2> QED BY <2>1, <2>3, WeightNumbers
<1>3. ASSUME NEW d \in 0..NumWeights - 1, d \in S PROVE d + 1 \in S
  <2> DEFINE j == NumWeights - d
  <2>1. j \in Weights /\ NumWeights - (d + 1) = j - 1 /\ d + 1 \in 0..NumWeights /\ j \in 0..NumWeights
        /\ j - 1 \in 0..NumWeights
    BY WeightCacheAssumption DEF Weights
  <2>2. Extends(T[NumWeights], T[j])
    BY <1>3
  <2> HIDE DEF j
  <2>3. Extends(T[j], T[j - 1])
    <3>1. Laying(p, pack, j - 1)
      BY <2>1, AllLaid
    <3> QED BY <2>1, <3>1, NextWeight
  <2>4. Good(T[NumWeights], p) /\ Good(T[j], p) /\ Good(T[j - 1], p)
    BY <1>1, <2>1, WeightNumbers
  <2> HIDE DEF T
  <2>5. Extends(T[NumWeights], T[j - 1])
    BY <2>2, <2>3, <2>4, ExtendsOn
  <2> QED BY <2>1, <2>5
<1>4. 0..NumWeights \subseteq S
  <2> HIDE DEF S
  <2> QED BY <1>2, <1>3, WeightNumbers, UpTo
<1>5. NumWeights - i \in S /\ NumWeights - (NumWeights - i) = i
  <2>1. NumWeights - i \in 0..NumWeights /\ NumWeights - (NumWeights - i) = i
    BY WeightNumbers
  <2> HIDE DEF S
  <2> QED BY <1>4, <2>1
<1> QED BY <1>5

-----------------------------------------------------------------------------
(* The allocator of the process.                                            *)

\* The states between two weights are good ones, and the last extends them.
LEMMA StageFacts ==
  ASSUME NEW p \in Programs, NEW pack \in BOOLEAN, NEW i \in 1..NumWeights + 1, NEW placed \in BOOLEAN,
         placed => i \in Weights
  PROVE  LET s == StageOf(p, pack, i, placed)
         IN  /\ Good(s, p) /\ Len(s.place) = (IF placed THEN i ELSE i - 1)
             /\ Len(s.files) <= (IF placed THEN 2 * i - 1 ELSE 2 * i - 2)
             /\ Extends(Layouts(p, pack)[NumWeights], s)
<1> DEFINE T == Layouts(p, pack)
           s == StageOf(p, pack, i, placed)
<1>1. i - 1 \in 0..NumWeights /\ i \in Nat
  BY WeightNumbers
<1>2. Laying(p, pack, i - 1) /\ Extends(T[NumWeights], T[i - 1])
  BY <1>1, AllLaid, EndExtends
<1>3. CASE ~placed
  <2>1. s = T[i - 1]
    BY <1>3 DEF StageOf
  <2> QED BY <1>1, <1>2, <1>3, <2>1 DEF Laying
<1>4. CASE placed
  <2>1. i \in Weights /\ i \in 0..NumWeights
    BY <1>4, WeightNumbers
  <2>2. s = WithWeight(T[i - 1], p[i].size)
    BY <1>4 DEF StageOf
  <2>3. /\ Good(s, p) /\ Len(s.place) = i /\ Len(s.files) <= 2 * i - 1 /\ Extends(T[i], s)
        /\ Laying(p, pack, i)
    BY <1>2, <2>1, <2>2, NextWeight
  <2>4. Good(T[i], p) /\ Good(T[NumWeights], p) /\ Extends(T[NumWeights], T[i])
    BY <2>1, AllLaid, EndExtends, WeightNumbers DEF Laying
  <2> HIDE DEF s, T
  <2>5. Extends(T[NumWeights], s)
    BY <2>3, <2>4, ExtendsOn
  <2> QED BY <1>4, <2>3, <2>5 DEF s, T
<1> QED BY <1>3, <1>4

\* What a weight needs.
Needs(p, i, placed) == IF placed THEN p[i].temp ELSE p[i].size

\* What serves a request leads from one of those states to the next, and its
\* files are those of the end.
LeadsOn(f, p, pack, i, placed) ==
    LET s == StageOf(p, pack, i, placed)
        n == Needs(p, i, placed)
        end == Layouts(p, pack)[NumWeights].files
    IN  /\ n \in Nat \ {0} /\ Good(s, p) /\ Serves(f, s, p, n)
        /\ ~placed => StageOf(p, pack, i, TRUE) =
                      [free |-> Listed(f.free, [f.block EXCEPT !.used = @ + n]), files |-> f.files,
                       place |-> Append(s.place, <<f.block.file, f.block.used>>)]
        /\ placed => StageOf(p, pack, i + 1, FALSE) =
                     [free |-> Append(f.free, f.block), files |-> f.files, place |-> s.place]
        /\ Len(f.files) <= 2 * NumWeights
        /\ Len(f.files) <= Len(end) /\ \A k \in 1..Len(f.files) : end[k] = f.files[k]

\* Every request leads on (EagerBufferAllocator::onAlloc, onRelease).
LEMMA StageServed ==
  ASSUME NEW p \in Programs, NEW pack \in BOOLEAN, NEW i \in Weights, NEW placed \in BOOLEAN,
         placed => pack /\ p[i].temp > 0
  PROVE  LeadsOn(Fit(StageOf(p, pack, i, placed), Needs(p, i, placed)), p, pack, i, placed)
<1> DEFINE s == StageOf(p, pack, i, placed)
           n == Needs(p, i, placed)
           f == Fit(s, n)
<1> DEFINE L == Layouts(p, pack)
<1>1. i \in 1..NumWeights + 1 /\ i + 1 \in 1..NumWeights + 1 /\ (i + 1) - 1 = i /\ i \in Nat /\ NumWeights \in Nat
      /\ i <= NumWeights
  BY WeightCacheAssumption DEF Weights
<1>2. n \in Nat \ {0}
  BY SizeOf DEF Needs
<1>3. Good(s, p)
  BY <1>1, StageFacts
<1>n. s = StageOf(p, pack, i, placed) /\ n = Needs(p, i, placed)
  OBVIOUS
<1>f. f = Fit(s, n)
  OBVIOUS
<1> HIDE DEF f, n, s
<1>4. Serves(f, s, p, n)
  BY <1>2, <1>3, <1>f, FitServes
<1>5. ~placed => StageOf(p, pack, i, TRUE) =
                 [free |-> Listed(f.free, [f.block EXCEPT !.used = @ + n]), files |-> f.files,
                  place |-> Append(s.place, <<f.block.file, f.block.used>>)]
  <2>1. ASSUME ~placed PROVE StageOf(p, pack, i, TRUE) = WithWeight(s, n)
    BY <1>n, <2>1 DEF StageOf, Needs
  <2> QED BY <1>f, <2>1 DEF WithWeight
<1>6. placed => StageOf(p, pack, i + 1, FALSE) =
                [free |-> Append(f.free, f.block), files |-> f.files, place |-> s.place]
  <2>1. ASSUME placed PROVE StageOf(p, pack, i + 1, FALSE) = AfterTemp(s, n)
    <3>1. s = WithWeight(L[i - 1], p[i].size) /\ n = p[i].temp /\ pack /\ p[i].temp > 0
      BY <1>n, <2>1 DEF StageOf, Needs
    <3>2. Laying(p, pack, i - 1)
      BY WeightNumbers, AllLaid
    <3>3. L[i] = IF pack /\ p[i].temp > 0
                 THEN AfterTemp(WithWeight(L[i - 1], p[i].size), p[i].temp) ELSE WithWeight(L[i - 1], p[i].size)
      BY <3>2, NextWeight
    <3>4. StageOf(p, pack, i + 1, FALSE) = L[i]
      BY <1>1 DEF StageOf
    <3> QED BY <3>1, <3>3, <3>4
  <2> QED BY <1>f, <2>1 DEF AfterTemp
<1>7. PICK r : r.files = f.files /\ Good(r, p) /\ Len(r.files) <= 2 * i /\ Extends(L[NumWeights], r)
  <2>1. CASE placed
    <3> DEFINE r == StageOf(p, pack, i + 1, FALSE)
    <3>1. Good(r, p) /\ Len(r.files) <= 2 * (i + 1) - 2 /\ Extends(L[NumWeights], r)
      BY <1>1, StageFacts
    <3>2. r.files = f.files
      <4>1. r = [free |-> Append(f.free, f.block), files |-> f.files, place |-> s.place]
        BY <1>6, <2>1
      <4> HIDE DEF r
      <4> QED BY <4>1, Zenon
    <3>3. 2 * (i + 1) - 2 = 2 * i
      BY <1>1
    <3> HIDE DEF r
    <3> QED BY <3>1, <3>2, <3>3
  <2>2. CASE ~placed
    <3> DEFINE r == StageOf(p, pack, i, TRUE)
    <3>1. Good(r, p) /\ Len(r.files) <= 2 * i - 1 /\ Extends(L[NumWeights], r)
      BY <1>1, StageFacts
    <3>2. r.files = f.files
      <4>1. r = [free |-> Listed(f.free, [f.block EXCEPT !.used = @ + n]), files |-> f.files,
                 place |-> Append(s.place, <<f.block.file, f.block.used>>)]
        BY <1>5, <2>2
      <4> HIDE DEF r
      <4> QED BY <4>1, Zenon
    <3>3. Len(r.files) \in Nat
      <4> HIDE DEF r
      <4> QED BY <3>1 DEF Good, TypedState
    <3> HIDE DEF r
    <3> QED BY <1>1, <3>1, <3>2, <3>3
  <2> QED BY <2>1, <2>2
<1>8. Len(f.files) \in Nat
  BY <1>4 DEF Serves
<1>9. Len(f.files) <= 2 * NumWeights
  BY <1>1, <1>7, <1>8
<1>10. Len(f.files) <= Len(L[NumWeights].files) /\ \A k \in 1..Len(f.files) : L[NumWeights].files[k] = f.files[k]
  BY <1>7 DEF Extends
<1> QED BY <1>2, <1>3, <1>4, <1>5, <1>6, <1>9, <1>10 DEF LeadsOn, f, n, s

-----------------------------------------------------------------------------
(* The process.                                                             *)

\* Nothing is laid out before the first weight.
LEMMA NothingLaid ==
  ASSUME NEW p, NEW pack
  PROVE  LET s == StageOf(p, pack, 1, FALSE)
         IN  s = NoLayout /\ s.free = <<>> /\ s.files = <<>> /\ s.place = <<>>
<1>1. StageOf(p, pack, 1, FALSE) = NoLayout
  BY LayoutsUnfold DEF StageOf
<1>2. NoLayout.free = <<>> /\ NoLayout.files = <<>> /\ NoLayout.place = <<>>
  BY DEF NoLayout
<1> QED BY <1>1, <1>2

\* The fields of the process.
LEMMA ProcFields ==
  ASSUME TypeInv
  PROVE  /\ proc.pc \in Pcs /\ proc.cached \in BOOLEAN /\ proc.hint \in Nat /\ proc.newMmap \in BOOLEAN
         /\ proc.times \in Nat /\ proc.mapped \subseteq Nat /\ proc.free \in Seq(Block)
         /\ proc.next \in 1..NumWeights + 1 /\ proc.want \in {"weight", "temp"}
         /\ proc.place \in Seq(Nat \X Nat)
         /\ program \in Programs /\ Packs \in BOOLEAN /\ Placed \in BOOLEAN /\ ForTemp \in BOOLEAN
BY DEF TypeInv, ProcType, Packs, Placed, ForTemp

\* The process' allocator is in a good state, with no more files than in the end.
LEMMA StageState ==
  ASSUME TypeInv, PlaceInv
  PROVE  /\ Good(Stage, program) /\ Len(Stage.place) = (IF Placed THEN proc.next ELSE proc.next - 1)
         /\ Extends(Layouts(program, Packs)[NumWeights], Stage)
         /\ Len(Stage.files) \in Nat /\ Len(Stage.place) \in Nat
<1>1. Placed => proc.next \in Weights
  BY DEF PlaceInv, Placed, ForTemp
<1>2. /\ Good(Stage, program) /\ Len(Stage.place) = (IF Placed THEN proc.next ELSE proc.next - 1)
      /\ Extends(Layouts(program, Packs)[NumWeights], Stage)
  BY <1>1, ProcFields, StageFacts DEF Stage
<1> HIDE DEF Stage
<1> QED BY <1>2 DEF Good, TypedState

\* A process that requests memory: what it is for, and that it is served.
LEMMA Requested ==
  ASSUME TypeInv, PlaceInv, StageInv, proc.pc \in {"alloc", "size"}
  PROVE  LET f == Fit(Stage, Request)
             g == Layouts(program, Packs)[NumWeights].files
         IN  /\ LeadsOn(f, program, Packs, proc.next, Placed) /\ proc.next \in Weights /\ (Placed <=> proc.want = "temp") /\ (Placed <=> ForTemp)
             /\ Request = Needs(program, proc.next, Placed) /\ Request \in Nat \ {0}
             /\ Placed => Packs /\ program[proc.next].temp > 0
             /\ proc.times = Len(Stage.files) /\ proc.times \in Nat /\ Good(Stage, program)
             /\ Serves(f, Stage, program, Request)
             /\ Len(f.files) <= 2 * NumWeights
             /\ Len(f.files) <= Len(g) /\ \A k \in 1..Len(f.files) : g[k] = f.files[k]
<1>1. proc.next \in Weights /\ (Placed <=> proc.want = "temp") /\ (Placed <=> ForTemp)
  BY ProcFields DEF PlaceInv, Placed, ForTemp
<1>2. Request = Needs(program, proc.next, Placed)
  BY <1>1, ProcFields DEF Request, Needs
<1>3. Placed => Packs /\ program[proc.next].temp > 0
  BY <1>1 DEF PlaceInv
<1>4. proc.times = Len(Stage.files)
  <2>1. Len(Stage.files) \in Nat
    BY StageState
  <2>2. proc.times = Len(Stage.files) + (IF Lost THEN 1 ELSE 0)
    BY DEF StageInv
  <2>3. ~Lost
    BY DEF Lost
  <2> HIDE DEF Stage, Lost
  <2> QED BY <2>1, <2>2, <2>3
<1>5. Stage = StageOf(program, Packs, proc.next, Placed)
  BY DEF Stage
<1> DEFINE f == Fit(Stage, Request)
           g == Layouts(program, Packs)[NumWeights].files
<1> HIDE DEF Stage, Request
<1>6. /\ LeadsOn(f, program, Packs, proc.next, Placed)
      /\ Request \in Nat \ {0} /\ Good(Stage, program) /\ Serves(f, Stage, program, Request)
      /\ Len(f.files) <= 2 * NumWeights
      /\ Len(f.files) <= Len(g) /\ \A k \in 1..Len(f.files) : g[k] = f.files[k]
  <2>1. /\ program \in Programs /\ Packs \in BOOLEAN /\ proc.next \in Weights /\ Placed \in BOOLEAN
        /\ Placed => Packs /\ program[proc.next].temp > 0
    BY <1>1, <1>3, ProcFields
  <2>2. LeadsOn(Fit(StageOf(program, Packs, proc.next, Placed), Needs(program, proc.next, Placed)),
                program, Packs, proc.next, Placed)
    BY <2>1, StageServed
  <2>3. LeadsOn(f, program, Packs, proc.next, Placed)
    BY <1>2, <1>5, <2>2
  <2> HIDE DEF f
  <2> QED BY <1>2, <1>5, <2>3 DEF LeadsOn
<1> QED BY <1>1, <1>2, <1>3, <1>4, <1>6, ProcFields

\* Nothing of the invariant but what the files hold is about a process that ended.
LEMMA OffKeeps ==
  ASSUME IInv, proc' = Off, UNCHANGED <<program, marker, everCached, relapsed>>,
         \A w \in Weights : ~relapsed /\ marker /\ Kept(w) => Kept(w)'
  PROVE  /\ proc' \in ProcType /\ PlaceInv' /\ StageInv' /\ HintInv' /\ HeldInv' /\ SyncInv'
         /\ VouchInv' /\ FailInv'
<1> USE DEF IInv
<1>1. /\ proc'.pc = "off" /\ proc'.cached = FALSE /\ proc'.hint = 0 /\ proc'.times = 0 /\ proc'.mapped = {}
      /\ proc'.free = <<>> /\ proc'.next = 1 /\ proc'.want = "weight" /\ proc'.place = <<>>
  BY DEF Off
<1>2. proc' \in ProcType
  BY WeightNumbers DEF Off, ProcType, Pcs
<1>3. ~ForTemp' /\ ~Placed' /\ ~Lost'
  BY <1>1 DEF ForTemp, Placed, Lost
<1>4. PlaceInv'
  BY <1>1, <1>3 DEF PlaceInv
<1>5. Stage'.free = <<>> /\ Stage'.files = <<>> /\ Stage'.place = <<>>
  <2>1. Placed' = FALSE
    BY <1>3
  <2>2. Stage' = StageOf(program', Packs', 1, FALSE)
    BY <1>1, <2>1 DEF Stage
  <2> QED BY <2>2, NothingLaid
<1>6. StageInv'
  BY <1>1, <1>3, <1>5 DEF StageInv
<1>7. HintInv'
  BY <1>1 DEF HintInv
<1>8. HeldInv' /\ SyncInv' /\ FailInv'
  BY <1>1, <1>3 DEF HeldInv, SyncInv, FailInv
<1>9. VouchInv'
  BY <1>1 DEF VouchInv
<1> QED BY <1>2, <1>4, <1>6, <1>7, <1>8, <1>9

\* What serves a request is used: a weight stays, temporary memory is given back.
Follows(f) ==
    /\ proc'.hint = proc.hint /\ proc'.want = proc.want /\ proc'.cached = proc.cached
    /\ proc.want = "weight" =>
          /\ proc'.pc = "write" /\ proc'.next = proc.next
          /\ proc'.free = Listed(f.free, [f.block EXCEPT !.used = @ + Request])
          /\ proc'.place = Append(proc.place, <<f.block.file, f.block.used>>)
    /\ proc.want = "temp" =>
          /\ proc'.pc = "load" /\ proc'.next = proc.next + 1
          /\ proc'.free = Append(f.free, f.block)
          /\ proc'.place = proc.place

\* The process is where its allocator is (Serve).
LEMMA FollowsOn ==
  ASSUME TypeInv, PlaceInv, StageInv, proc.pc \in {"alloc", "size"}, program' = program,
         NEW f, f = Fit(Stage, Request), Follows(f)
  PROVE  /\ Stage'.free = proc'.free /\ Stage'.place = proc'.place /\ Stage'.files = f.files
         /\ Packs' = Packs /\ ~ForTemp' /\ ~Lost' /\ Len(Stage.place) = Len(proc.place)
         /\ proc.want = "weight" => Len(proc.place) + 1 = proc.next
         /\ proc'.free \in Seq(Block) /\ proc'.place \in Seq(Nat \X Nat) /\ proc'.next \in 1..NumWeights + 1
         /\ f.files \in Seq(Nat)
<1> DEFINE i == proc.next
<1>1. /\ i \in Weights /\ (Placed <=> proc.want = "temp") /\ (Placed <=> ForTemp)
      /\ Request = Needs(program, i, Placed)
      /\ LeadsOn(f, program, Packs, i, Placed)
      /\ Placed => Packs
  <2> HIDE DEF i
  <2> QED BY Requested DEF i
<1>2. Packs' = Packs
  BY DEF Follows, Packs, Trusts
<1>3. Stage = StageOf(program, Packs, i, Placed) /\ proc.place = Stage.place
  BY DEF Stage, StageInv
<1>4. i \in Nat /\ NumWeights \in Nat /\ i + 1 \in 1..NumWeights + 1 /\ i \in 1..NumWeights + 1
  BY <1>1, WeightNumbers DEF Weights
<1>5. proc.want \in {"weight", "temp"} /\ Placed \in BOOLEAN
  BY ProcFields
<1> HIDE DEF i
<1>6. Len(Stage.place) = (IF Placed THEN i ELSE i - 1)
  BY StageState DEF i
<1>7. CASE proc.want = "weight"
  <2>1. /\ proc'.pc = "write" /\ proc'.next = i
        /\ proc'.free = Listed(f.free, [f.block EXCEPT !.used = @ + Request])
        /\ proc'.place = Append(Stage.place, <<f.block.file, f.block.used>>)
    BY <1>3, <1>7 DEF Follows, i
  <2>2. Placed' = TRUE
    BY <2>1 DEF Placed
  <2>3. Stage' = StageOf(program, Packs, i, TRUE)
    BY <1>2, <2>1, <2>2 DEF Stage
  <2>4. ~Placed
    BY <1>1, <1>7
  <2>5. Stage' = [free |-> Listed(f.free, [f.block EXCEPT !.used = @ + Request]), files |-> f.files,
                  place |-> Append(Stage.place, <<f.block.file, f.block.used>>)]
    BY <1>1, <1>3, <2>3, <2>4 DEF LeadsOn
  <2>6. Stage'.free = proc'.free /\ Stage'.place = proc'.place /\ Stage'.files = f.files
    <3> HIDE DEF Stage
    <3> QED BY <2>1, <2>5
  <2>7. Good(Stage', program)
    BY <1>1, <1>4, <2>3, ProcFields, StageFacts
  <2>8. Stage'.free \in Seq(Block) /\ Stage'.place \in Seq(Nat \X Nat) /\ Stage'.files \in Seq(Nat)
    BY <2>7 DEF Good, TypedState
  <2>9. ~ForTemp' /\ ~Lost'
    BY <2>1 DEF ForTemp, Lost
  <2>10. Len(proc.place) + 1 = i
    BY <1>3, <1>4, <1>6, <2>4
  <2> HIDE DEF Stage
  <2> QED BY <1>2, <1>3, <1>4, <2>1, <2>6, <2>8, <2>9, <2>10 DEF i
<1>8. CASE proc.want = "temp"
  <2>1. /\ proc'.pc = "load" /\ proc'.next = i + 1 /\ proc'.free = Append(f.free, f.block)
        /\ proc'.place = Stage.place
    BY <1>3, <1>8 DEF Follows, i
  <2>2. Placed' = FALSE
    BY <2>1 DEF Placed, ForTemp
  <2>3. Stage' = StageOf(program, Packs, i + 1, FALSE)
    BY <1>2, <2>1, <2>2 DEF Stage
  <2>4. Placed
    BY <1>1, <1>8
  <2>5. Stage' = [free |-> Append(f.free, f.block), files |-> f.files, place |-> Stage.place]
    BY <1>1, <1>3, <2>3, <2>4 DEF LeadsOn
  <2>6. Stage'.free = proc'.free /\ Stage'.place = proc'.place /\ Stage'.files = f.files
    <3> HIDE DEF Stage
    <3> QED BY <2>1, <2>5
  <2>7. Good(Stage', program)
    BY <1>1, <1>4, <2>3, ProcFields, StageFacts
  <2>8. Stage'.free \in Seq(Block) /\ Stage'.place \in Seq(Nat \X Nat) /\ Stage'.files \in Seq(Nat)
    BY <2>7 DEF Good, TypedState
  <2>9. ~ForTemp' /\ ~Lost'
    BY <2>1 DEF ForTemp, Lost
  <2> HIDE DEF Stage
  <2> QED BY <1>2, <1>3, <1>4, <1>8, <2>1, <2>6, <2>8, <2>9
<1> QED BY <1>5, <1>7, <1>8

\* A weight of the process lies in a file it has mapped, which is large enough.
LEMMA InFiles ==
  ASSUME TypeInv, PlaceInv, StageInv, NEW w \in 1..Len(proc.place)
  PROVE  LET at == proc.place[w]
         IN  /\ w \in Weights /\ at[1] \in 0..Len(Stage.files) - 1 /\ at[2] \in Nat
             /\ at[1] \in proc.mapped /\ at[1] \in DOMAIN disk
             /\ program[w].size \in Nat \ {0}
             /\ Len(disk[at[1]].data) \in Nat /\ at[2] + program[w].size <= Len(disk[at[1]].data)
<1> DEFINE at == proc.place[w]
<1>1. Good(Stage, program) /\ Len(Stage.files) \in Nat /\ proc.place = Stage.place
  BY StageState DEF StageInv
<1> HIDE DEF Stage
<1>2. w \in Weights
  BY <1>1, WeightNumbers DEF Good, TypedState, Weights
<1>3. program[w].size \in Nat \ {0}
  BY <1>2, SizeOf DEF TypeInv
<1>4. at \in Nat \X Nat
  BY ProcFields
<1>5. at[1] < Len(Stage.files) /\ at[2] + program[w].size <= Stage.files[at[1] + 1]
  BY <1>1 DEF Good, WeightsFit, End
<1>6. at[1] \in Nat /\ at[2] \in Nat
  BY <1>4
<1> HIDE DEF at
<1>7. at[1] \in 0..Len(Stage.files) - 1 /\ at[1] + 1 \in 1..Len(Stage.files) /\ (at[1] + 1) - 1 = at[1]
  BY <1>1, <1>5, <1>6
<1>8. at[1] \in proc.mapped
  <2>1. Len(Stage.files) <= proc.times /\ proc.times \in Nat
    <3>1. proc.times = Len(Stage.files) + (IF Lost THEN 1 ELSE 0)
      BY DEF StageInv
    <3>2. proc.times = Len(Stage.files) \/ proc.times = Len(Stage.files) + 1
      <4>1. CASE Lost
        BY <3>1, <4>1
      <4>2. CASE ~Lost
        BY <1>1, <3>1, <4>2
      <4> QED BY <4>1, <4>2
    <3> QED BY <1>1, <3>2
  <2>2. proc.mapped = 0..proc.times - 1
    BY DEF StageInv
  <2> QED BY <1>1, <1>6, <1>7, <2>1, <2>2
<1>9. at[1] \in DOMAIN disk
  BY <1>8 DEF StageInv
<1>10. Len(disk[at[1]].data) \in Nat
  BY <1>9 DEF TypeInv, FileData
<1>11. Len(disk[at[1]].data) >= Stage.files[at[1] + 1]
  BY <1>7 DEF StageInv
<1>12. Stage.files[at[1] + 1] \in Nat
  <2>1. Stage.files \in Seq(Nat)
    BY <1>1 DEF Good, TypedState
  <2> QED BY <1>7, <2>1, ElementOfSeq
<1>13. at[2] + program[w].size <= Len(disk[at[1]].data)
  <2>1. \A a, n, b, c \in Nat : a + n <= b /\ c >= b => a + n <= c
    OBVIOUS
  <2>2. program[w].size \in Nat
    BY <1>3
  <2> QED BY <1>5, <1>6, <1>10, <1>11, <1>12, <2>1, <2>2, Zenon
<1> QED BY <1>2, <1>3, <1>6, <1>7, <1>8, <1>9, <1>10, <1>13 DEF at

\* What a weight holds is not lost while its place and the data of the files that
\* the process has mapped stay.
LEMMA StillHeld ==
  ASSUME TypeInv, PlaceInv, StageInv, program' = program,
         NEW w \in 1..Len(proc.place), HeldAt(w), proc'.place[w] = proc.place[w],
         \A k \in 0..Len(Stage.files) - 1 : disk'[k].data = disk[k].data
  PROVE  HeldAt(w)'
<1>1. disk'[proc.place[w][1]].data = disk[proc.place[w][1]].data
  BY InFiles
<1> QED BY <1>1 DEF HeldAt

\* What a request leads to keeps the invariant about the process, when the files
\* it has mapped before stay as they are and a new one is large enough.
LEMMA Served ==
  ASSUME IInv, proc.pc \in {"alloc", "size"}, NEW f, f = Fit(Stage, Request), Follows(f),
         UNCHANGED <<program, marker, everCached, relapsed>>,
         proc'.times = Len(f.files), proc'.mapped = 0..proc'.times - 1, proc'.mapped \subseteq DOMAIN disk',
         \A k \in 0..proc.times - 1 : disk'[k].data = disk[k].data,
         Len(f.files) > proc.times => Len(disk'[proc.times].data) >= f.files[proc.times + 1]
  PROVE  PlaceInv' /\ StageInv' /\ HintInv' /\ HeldInv' /\ SyncInv' /\ FailInv'
<1> USE DEF IInv
<1>1. /\ Stage'.free = proc'.free /\ Stage'.place = proc'.place /\ Stage'.files = f.files
      /\ Packs' = Packs /\ ~ForTemp' /\ ~Lost' /\ Len(Stage.place) = Len(proc.place)
      /\ proc.want = "weight" => Len(proc.place) + 1 = proc.next
      /\ f.files \in Seq(Nat)
  BY FollowsOn
<1>2. /\ proc.next \in Weights /\ (ForTemp <=> proc.want = "temp")
      /\ proc.times = Len(Stage.files) /\ proc.times \in Nat /\ Serves(f, Stage, program, Request)
  <2>1. /\ proc.next \in Weights /\ (Placed <=> proc.want = "temp") /\ (Placed <=> ForTemp)
        /\ proc.times = Len(Stage.files) /\ proc.times \in Nat /\ Serves(f, Stage, program, Request)
    BY Requested
  <2> QED BY <2>1
<1>3. /\ proc'.hint = proc.hint /\ proc'.cached = proc.cached /\ proc.want \in {"weight", "temp"}
      /\ proc.want = "weight" => /\ proc'.pc = "write" /\ proc'.next = proc.next
                                 /\ proc'.place = Append(proc.place, <<f.block.file, f.block.used>>)
      /\ proc.want = "temp" => proc'.pc = "load" /\ proc'.next = proc.next + 1 /\ proc'.place = proc.place
  BY ProcFields DEF Follows
<1> HIDE DEF Stage
<1>4. PlaceInv'
  BY <1>1, <1>2, <1>3 DEF PlaceInv
<1>5. StageInv'
  <2>1. proc'.times = Len(Stage'.files) + (IF Lost' THEN 1 ELSE 0)
    BY <1>1
  <2>2. ASSUME NEW k \in 1..Len(f.files) PROVE Len(disk'[k - 1].data) >= f.files[k]
    <3>1. /\ Len(Stage.files) <= Len(f.files) /\ Len(f.files) <= Len(Stage.files) + 1
          /\ \A i \in 1..Len(Stage.files) : f.files[i] = Stage.files[i]
      BY <1>2 DEF Serves
    <3>2. Len(f.files) \in Nat
      BY <1>1
    <3>3. CASE k \in 1..Len(Stage.files)
      <4>1. Len(disk[k - 1].data) >= Stage.files[k]
        BY <3>3 DEF StageInv
      <4>2. k - 1 \in 0..proc.times - 1
        BY <1>2, <3>3
      <4> QED BY <3>1, <3>3, <4>1, <4>2
    <3>4. CASE k \notin 1..Len(Stage.files)
      <4>1. k = proc.times + 1 /\ Len(f.files) > proc.times /\ k - 1 = proc.times
        BY <1>2, <3>1, <3>2, <3>4
      <4> QED BY <4>1
    <3> QED BY <3>3, <3>4
  <2> QED BY <1>1, <2>1, <2>2 DEF StageInv
<1>6. HintInv'
  <2>1. proc.pc \in {"load", "alloc", "size", "write", "failed"} /\ proc.pc # "load"
    OBVIOUS
  <2> QED BY <1>3, <2>1 DEF HintInv
<1>7. HeldInv'
  <2> SUFFICES ASSUME Packs, NEW w \in 1..Len(proc'.place), ~(proc'.pc = "write" /\ w = proc'.next) PROVE HeldAt(w)'
    BY <1>1 DEF HeldInv
  <2>1. w \in 1..Len(proc.place) /\ proc'.place[w] = proc.place[w]
    <3>1. CASE proc.want = "weight"
      <4>1. proc'.place = Append(proc.place, <<f.block.file, f.block.used>>) /\ w # Len(proc.place) + 1
        BY <1>1, <1>3, <3>1
      <4>2. proc.place \in Seq(Nat \X Nat) /\ <<f.block.file, f.block.used>> \in Nat \X Nat
        BY <1>2, ProcFields DEF Serves, Block
      <4> HIDE DEF IInv
      <4> QED BY <4>1, <4>2, Appended
    <3>2. CASE proc.want = "temp"
      BY <1>3, <3>2
    <3> QED BY <1>3, <3>1, <3>2
  <2>2. HeldAt(w)
    BY <2>1 DEF HeldInv
  <2>3. \A k \in 0..Len(Stage.files) - 1 : disk'[k].data = disk[k].data
    BY <1>2
  <2> QED BY <2>1, <2>2, <2>3, StillHeld
<1>8. SyncInv' /\ FailInv'
  BY <1>1, <1>3 DEF SyncInv, FailInv
<1> QED BY <1>4, <1>5, <1>6, <1>7, <1>8

\* Serving writes what follows from it, and nothing else (Serve).
LEMMA ServeFields ==
  ASSUME TypeInv, PlaceInv, StageInv, proc.pc \in {"alloc", "size"}, program' = program,
         NEW f, f = Fit(Stage, Request),
         NEW q \in ProcType, q.want = proc.want, q.next = proc.next, q.place = proc.place, q.hint = proc.hint,
         q.cached = proc.cached,
         NEW new \in BOOLEAN, proc' = [Serve(q, f.free, f.block) EXCEPT !.newMmap = new]
  PROVE  /\ Follows(f) /\ proc' \in ProcType /\ proc'.times = q.times /\ proc'.mapped = q.mapped
         /\ proc'.pc \in {"write", "load"}
<1> DEFINE r == Serve(q, f.free, f.block)
           c == Listed(f.free, [f.block EXCEPT !.used = @ + Request])
           t == Append(f.free, f.block)
           at == Append(q.place, <<f.block.file, f.block.used>>)
<1>1. r = IF q.want = "weight" THEN [q EXCEPT !.free = c, !.place = at, !.pc = "write"]
          ELSE [q EXCEPT !.free = t, !.next = @ + 1, !.pc = "load"]
  BY DEF Serve
<1>2. proc' = [r EXCEPT !.newMmap = new]
  OBVIOUS
<1>3. q.want \in {"weight", "temp"}
  BY DEF ProcType
<1>a. c = Listed(f.free, [f.block EXCEPT !.used = @ + Request]) /\ t = Append(f.free, f.block)
      /\ at = Append(proc.place, <<f.block.file, f.block.used>>)
  OBVIOUS
<1> HIDE DEF r, c, t, at
<1>4. /\ proc'.hint = q.hint /\ proc'.want = q.want /\ proc'.cached = q.cached
      /\ proc'.times = q.times /\ proc'.mapped = q.mapped
      /\ q.want = "weight" => proc'.pc = "write" /\ proc'.next = q.next /\ proc'.free = c /\ proc'.place = at
      /\ q.want = "temp" => proc'.pc = "load" /\ proc'.next = q.next + 1 /\ proc'.free = t /\ proc'.place = q.place
  <2>1. CASE q.want = "weight"
    BY <1>1, <1>2, <2>1 DEF ProcType
  <2>2. CASE q.want = "temp"
    BY <1>1, <1>2, <2>2 DEF ProcType
  <2> QED BY <1>3, <2>1, <2>2
<1>5. Follows(f)
  BY <1>4, <1>a DEF Follows
<1>6. proc'.free \in Seq(Block) /\ proc'.place \in Seq(Nat \X Nat) /\ proc'.next \in 1..NumWeights + 1
  BY <1>5, FollowsOn
<1>7. proc' \in ProcType
  <2>1. CASE q.want = "weight"
    <3>1. proc' = [q EXCEPT !.free = c, !.place = at, !.pc = "write", !.newMmap = new]
      BY <1>1, <1>2, <2>1 DEF ProcType
    <3>2. c \in Seq(Block) /\ at \in Seq(Nat \X Nat)
      BY <1>4, <1>6, <2>1
    <3> QED BY <3>1, <3>2 DEF ProcType, Pcs
  <2>2. CASE q.want = "temp"
    <3>1. proc' = [q EXCEPT !.free = t, !.next = proc'.next, !.pc = "load", !.newMmap = new]
      BY <1>1, <1>2, <1>4, <2>2 DEF ProcType
    <3>2. t \in Seq(Block)
      BY <1>4, <1>6, <2>2
    <3> HIDE DEF ProcType
    <3>3. ASSUME NEW x \in 1..NumWeights + 1
          PROVE  [q EXCEPT !.free = t, !.next = x, !.pc = "load", !.newMmap = new] \in ProcType
      BY <3>2 DEF ProcType, Pcs
    <3> QED BY <1>6, <3>1, <3>3
  <2> QED BY <1>3, <2>1, <2>2
<1>8. proc'.pc \in {"write", "load"}
  BY <1>3, <1>4
<1> QED BY <1>4, <1>5, <1>7, <1>8

\* What the marker stands for is not touched.
LEMMA VouchKept ==
  ASSUME IInv, UNCHANGED <<program, marker, everCached, relapsed>>,
         proc'.pc # "off" => proc.pc # "off" /\ proc'.cached = proc.cached,
         \A w \in Weights : ~relapsed /\ marker /\ Kept(w) => Kept(w)'
  PROVE  VouchInv'
BY DEF IInv, VouchInv

\* Where no file changes, neither does what the files hold.
LEMMA SameDisk ==
  ASSUME IInv, UNCHANGED <<program, disk, marker, everCached, relapsed, starts, cleanExit>>,
         proc' \in ProcType, proc.pc # "off", proc'.pc # "off", proc'.cached = proc.cached
  PROVE  TypeInv' /\ VouchInv' /\ ResidueInv' /\ NothingLeft'
<1>1. \A w \in Weights : Kept(w) => Kept(w)'
  BY DEF Kept
<1>2. VouchInv'
  BY <1>1, VouchKept
<1>3. TypeInv'
  BY DEF IInv, TypeInv
<1>4. ResidueInv'
  BY DEF IInv, ResidueInv
<1>5. NothingLeft'
  BY DEF NothingLeft
<1> QED BY <1>2, <1>3, <1>4, <1>5

\* A listed block serves the request (EagerBufferAllocator::getFromFreeList).
LEMMA ReuseKeeps ==
  ASSUME IInv, Reuse
  PROVE  IInv'
<1> USE DEF IInv
<1> DEFINE f == Fit(Stage, Request)
<1>1. /\ proc.pc = "alloc" /\ UNCHANGED <<program, disk, marker, starts, everCached, relapsed, cleanExit>>
      /\ Fitting(proc.free, Request) # {}
      /\ proc' = Serve(proc, RemoveAt(proc.free, BestFit(proc.free, Request)),
                       proc.free[BestFit(proc.free, Request)])
  BY DEF Reuse
<1>2. proc.free = Stage.free
  BY DEF StageInv
<1>3. f = [block |-> Stage.free[BestFit(Stage.free, Request)],
           free  |-> RemoveAt(Stage.free, BestFit(Stage.free, Request)),
           files |-> Stage.files]
  BY <1>1, <1>2 DEF Fit
<1>4. /\ f.block = proc.free[BestFit(proc.free, Request)]
      /\ f.free = RemoveAt(proc.free, BestFit(proc.free, Request)) /\ f.files = Stage.files
  BY <1>2, <1>3
<1> HIDE DEF f
<1>5. proc' = Serve(proc, f.free, f.block)
  BY <1>1, <1>4
<1>6. proc \in ProcType /\ proc.newMmap \in BOOLEAN
  BY ProcFields DEF TypeInv
<1>7. proc' = [Serve(proc, f.free, f.block) EXCEPT !.newMmap = proc.newMmap]
  BY <1>5, <1>6 DEF Serve, ProcType
<1>8. Follows(f) /\ proc' \in ProcType /\ proc'.times = proc.times /\ proc'.mapped = proc.mapped
      /\ proc'.pc \in {"write", "load"}
  BY <1>1, <1>6, <1>7, ServeFields DEF f
<1>9. proc.times = Len(f.files) /\ proc.times \in Nat
  BY <1>1, <1>4, Requested
<1>10. proc'.mapped = 0..proc'.times - 1 /\ proc'.mapped \subseteq DOMAIN disk'
  BY <1>1, <1>8 DEF StageInv
<1>11. PlaceInv' /\ StageInv' /\ HintInv' /\ HeldInv' /\ SyncInv' /\ FailInv'
  BY <1>1, <1>8, <1>9, <1>10, Served DEF f
<1>12. TypeInv' /\ VouchInv' /\ ResidueInv' /\ NothingLeft'
  BY <1>1, <1>8, SameDisk DEF Follows
<1> QED BY <1>11, <1>12

\* Without a listed block that fits, a file serves the request, the next of those
\* the program takes in the end (MmapAllocator::onAlloc).
LEMMA NewFile ==
  ASSUME TypeInv, PlaceInv, StageInv, proc.pc \in {"alloc", "size"}, Fitting(proc.free, Request) = {}
  PROVE  LET f == Fit(Stage, Request)
             end == Layouts(program, Packs)[NumWeights].files
         IN  /\ f.block = NewBlock /\ f.free = proc.free
             /\ Len(f.files) = proc.times + 1 /\ f.files[proc.times + 1] = BlockSize(Request)
             /\ \A k \in 1..proc.times : f.files[k] = Stage.files[k]
             /\ BlockSize(Request) \in Nat \ {0} /\ proc.times \in Nat /\ proc.times \in Files
             /\ proc.times < Len(end) /\ end[proc.times + 1] = BlockSize(Request)
<1> DEFINE f == Fit(Stage, Request)
           end == Layouts(program, Packs)[NumWeights].files
           size == BlockSize(Request)
<1>1. /\ Request \in Nat \ {0} /\ proc.times = Len(Stage.files) /\ proc.times \in Nat /\ Good(Stage, program)
      /\ Len(f.files) <= 2 * NumWeights
      /\ Len(f.files) <= Len(end) /\ \A k \in 1..Len(f.files) : end[k] = f.files[k]
  BY Requested
<1>2. proc.free = Stage.free
  BY DEF StageInv
<1>3. f = [block |-> [file |-> Len(Stage.files), size |-> size, used |-> 0],
           free |-> Stage.free, files |-> Append(Stage.files, size)]
  BY <1>2 DEF Fit
<1>4. /\ f.block = [file |-> Len(Stage.files), size |-> size, used |-> 0]
      /\ f.free = Stage.free /\ f.files = Append(Stage.files, size)
  BY <1>3
<1>5. size \in Nat \ {0}
  BY <1>1, BlockSizes
<1>6. Stage.files \in Seq(Nat)
  BY <1>1 DEF Good, TypedState
<1> HIDE DEF f, size, Stage, end
<1>7. /\ Len(f.files) = proc.times + 1 /\ f.files[proc.times + 1] = size
      /\ \A k \in 1..proc.times : f.files[k] = Stage.files[k]
  BY <1>1, <1>4, <1>5, <1>6, Appended
<1>8. f.block = NewBlock
  BY <1>1, <1>4 DEF NewBlock, size
<1>9. proc.times \in Files
  BY <1>1, <1>7, WeightNumbers DEF Files
<1>10. proc.times < Len(end) /\ end[proc.times + 1] = size
  <2>1. end[proc.times + 1] = size
    BY <1>1, <1>7
  <2>2. Len(end) \in Nat
    <3>1. Laying(program, Packs, NumWeights)
      BY ProcFields, WeightNumbers, AllLaid
    <3> QED BY <3>1 DEF Laying, Good, TypedState, end
  <2> QED BY <1>1, <1>7, <2>1, <2>2
<1> QED BY <1>1, <1>2, <1>4, <1>5, <1>7, <1>8, <1>9, <1>10 DEF f, size, end

\* A process of a program that has never used the cache packs its weights.
LEMMA NeverTrusted ==
  ASSUME HintInv, ~everCached
  PROVE  Packs /\ Packs = TRUE /\ ~proc.cached /\ ~marker
BY DEF HintInv, Packs, Trusts

\* A file that exists is opened as it is; the process fails if it is too small
\* (MmapAllocator::onAlloc).
LEMMA OpenFileKeeps ==
  ASSUME IInv, OpenFile
  PROVE  IInv'
<1> USE DEF IInv
<1> DEFINE f == Fit(Stage, Request)
           q == Mapped(proc)
<1>1. /\ proc.pc = "alloc" /\ UNCHANGED <<program, disk, marker, starts, everCached, relapsed, cleanExit>>
      /\ Fitting(proc.free, Request) = {} /\ proc.times \in DOMAIN disk
      /\ proc' = IF Len(disk[proc.times].data) < BlockSize(Request)
                 THEN [q EXCEPT !.pc = "failed"] ELSE Serve(q, proc.free, NewBlock)
  BY DEF OpenFile
<1>2. /\ f.block = NewBlock /\ f.free = proc.free
      /\ Len(f.files) = proc.times + 1 /\ f.files[proc.times + 1] = BlockSize(Request)
      /\ BlockSize(Request) \in Nat \ {0} /\ proc.times \in Nat /\ proc.times \in Files
      /\ LET end == Layouts(program, Packs)[NumWeights].files
         IN  proc.times < Len(end) /\ end[proc.times + 1] = BlockSize(Request)
  BY <1>1, NewFile
<1>3. f = Fit(Stage, Request)
  OBVIOUS
<1> HIDE DEF f
<1>4. q = [proc EXCEPT !.mapped = @ \cup {proc.times}, !.times = @ + 1]
  BY DEF Mapped
<1>5. /\ q \in ProcType /\ q.want = proc.want /\ q.next = proc.next /\ q.place = proc.place /\ q.hint = proc.hint
      /\ q.cached = proc.cached /\ q.newMmap = proc.newMmap /\ q.pc = proc.pc /\ q.free = proc.free
      /\ q.times = proc.times + 1 /\ q.mapped = proc.mapped \cup {proc.times}
  <2> DEFINE m == proc.mapped \cup {proc.times}
             t == proc.times + 1
  <2>1. q = [proc EXCEPT !.mapped = m, !.times = t]
    BY <1>4
  <2>2. m \in SUBSET Nat /\ t \in Nat /\ proc \in ProcType
    BY <1>2, ProcFields DEF TypeInv
  <2> HIDE DEF m, t, q
  <2>3. /\ q \in ProcType /\ q.want = proc.want /\ q.next = proc.next /\ q.place = proc.place /\ q.hint = proc.hint
        /\ q.cached = proc.cached /\ q.newMmap = proc.newMmap /\ q.pc = proc.pc /\ q.free = proc.free
        /\ q.times = t /\ q.mapped = m
    <3> HIDE DEF IInv
    <3> QED BY <2>1, <2>2 DEF ProcType
  <2> QED BY <2>3 DEF m, t
<1> HIDE DEF q
<1>6. proc.mapped = 0..proc.times - 1 /\ proc.mapped \subseteq DOMAIN disk
  BY DEF StageInv
<1>7. q.mapped = 0..q.times - 1 /\ q.mapped \subseteq DOMAIN disk
  BY <1>1, <1>2, <1>5, <1>6
<1>8. Len(disk[proc.times].data) \in Nat
  BY <1>1 DEF TypeInv, FileData
<1>9. CASE Len(disk[proc.times].data) >= BlockSize(Request)
  <2>1. proc' = Serve(q, f.free, f.block)
    BY <1>1, <1>2, <1>8, <1>9
  <2>2. q.newMmap \in BOOLEAN
    BY <1>5, ProcFields
  <2>3. proc' = [Serve(q, f.free, f.block) EXCEPT !.newMmap = q.newMmap]
    BY <1>5, <2>1 DEF Serve, ProcType
  <2>4. Follows(f) /\ proc' \in ProcType /\ proc'.times = q.times /\ proc'.mapped = q.mapped
        /\ proc'.pc \in {"write", "load"}
    BY <1>1, <1>3, <1>5, <2>2, <2>3, ServeFields
  <2>5. /\ proc'.times = Len(f.files) /\ proc'.mapped = 0..proc'.times - 1 /\ proc'.mapped \subseteq DOMAIN disk'
        /\ Len(disk'[proc.times].data) >= f.files[proc.times + 1]
    BY <1>1, <1>2, <1>5, <1>7, <1>9, <2>4
  <2>6. PlaceInv' /\ StageInv' /\ HintInv' /\ HeldInv' /\ SyncInv' /\ FailInv'
    BY <1>1, <1>3, <2>4, <2>5, Served
  <2>7. TypeInv' /\ VouchInv' /\ ResidueInv' /\ NothingLeft'
    BY <1>1, <2>4, SameDisk DEF Follows
  <2> QED BY <2>6, <2>7
<1>10. CASE Len(disk[proc.times].data) < BlockSize(Request)
  <2>1. proc' = [q EXCEPT !.pc = "failed"]
    BY <1>1, <1>10
  <2>2. /\ proc' \in ProcType /\ proc'.want = q.want /\ proc'.next = q.next /\ proc'.place = q.place
        /\ proc'.hint = q.hint /\ proc'.cached = q.cached /\ proc'.pc = "failed" /\ proc'.free = q.free
        /\ proc'.times = q.times /\ proc'.mapped = q.mapped
    BY <1>5, <2>1 DEF ProcType, Pcs
  <2>3. Packs' = Packs /\ (ForTemp' <=> ForTemp) /\ Lost' /\ (Placed' <=> Placed)
    BY <1>1, <1>5, <2>2 DEF Packs, Trusts, ForTemp, Lost, Placed
  <2>4. Stage' = Stage
    <3>1. Placed' = Placed
      BY <2>3, ProcFields DEF Placed
    <3> QED BY <1>1, <1>5, <2>2, <2>3, <3>1 DEF Stage
  <2>5. PlaceInv'
    BY <1>1, <1>5, <2>2, <2>3 DEF PlaceInv
  <2>6. ~Lost /\ proc.times = Len(Stage.files)
    BY <1>1, Requested DEF Lost
  <2> HIDE DEF Stage
  <2>7. StageInv'
    <3>1. proc'.times = Len(Stage'.files) + (IF Lost' THEN 1 ELSE 0)
      BY <1>2, <1>5, <2>2, <2>3, <2>4, <2>6
    <3>2. \A k \in 1..Len(Stage.files) : Len(disk[k - 1].data) >= Stage.files[k]
      BY DEF StageInv
    <3>3. proc.free = Stage.free /\ proc.place = Stage.place
      BY DEF StageInv
    <3> QED BY <1>1, <1>5, <1>7, <2>2, <2>4, <3>1, <3>2, <3>3 DEF StageInv
  <2>8. HintInv'
    BY <1>1, <1>5, <2>2 DEF HintInv
  <2>9. HeldInv'
    <3> SUFFICES ASSUME Packs, NEW w \in 1..Len(proc.place) PROVE HeldAt(w)'
      BY <1>5, <2>2, <2>3 DEF HeldInv
    <3>1. HeldAt(w)
      BY <1>1 DEF HeldInv
    <3> QED BY <1>1, <1>5, <2>2, <3>1 DEF HeldAt
  <2>10. SyncInv'
    BY <2>2 DEF SyncInv
  <2>11. FailInv'
    <3>1. ASSUME ~everCached PROVE proc.times + 1 \notin DOMAIN disk
      <4>1. Packs = TRUE
        BY <3>1, NeverTrusted
      <4>2. \/ Len(disk[proc.times].data) >= Layouts(program, TRUE)[NumWeights].files[proc.times + 1]
            \/ proc.times + 1 \notin DOMAIN disk
        BY <1>1, <3>1 DEF ResidueInv
      <4>3. Layouts(program, TRUE)[NumWeights].files[proc.times + 1] = BlockSize(Request)
        BY <1>2, <4>1
      <4>4. ~(Len(disk[proc.times].data) >= BlockSize(Request))
        BY <1>2, <1>8, <1>10
      <4> QED BY <4>2, <4>3, <4>4
    <3> QED BY <1>1, <1>5, <2>2, <3>1 DEF FailInv
  <2>12. TypeInv' /\ VouchInv' /\ ResidueInv' /\ NothingLeft'
    BY <1>1, <1>5, <2>2, SameDisk
  <2> QED BY <2>5, <2>7, <2>8, <2>9, <2>10, <2>11, <2>12
<1> QED BY <1>2, <1>8, <1>9, <1>10

\* A file that does not exist is created empty (MmapAllocator::onAlloc).
LEMMA CreateFileKeeps ==
  ASSUME IInv, CreateFile
  PROVE  IInv'
<1> USE DEF IInv
<1> DEFINE t == proc.times
<1>1. /\ proc.pc = "alloc" /\ UNCHANGED <<program, marker, starts, everCached, relapsed, cleanExit>>
      /\ Fitting(proc.free, Request) = {} /\ t \notin DOMAIN disk
      /\ disk' = [k \in DOMAIN disk \cup {t} |-> IF k = t THEN Empty ELSE disk[k]]
      /\ proc' = [proc EXCEPT !.pc = "size"]
  BY DEF CreateFile
<1>2. t \in Nat /\ t \in Files /\ t < Len(Layouts(program, Packs)[NumWeights].files)
  BY <1>1, NewFile
<1>3. /\ proc' \in ProcType /\ proc'.want = proc.want /\ proc'.next = proc.next /\ proc'.place = proc.place
      /\ proc'.hint = proc.hint /\ proc'.cached = proc.cached /\ proc'.pc = "size" /\ proc'.free = proc.free
      /\ proc'.times = t /\ proc'.mapped = proc.mapped
  BY <1>1 DEF TypeInv, ProcType, Pcs
<1>4. Packs' = Packs /\ (ForTemp' <=> ForTemp) /\ ~Lost' /\ ~Lost /\ Placed' = Placed
  BY <1>1, <1>3 DEF Packs, Trusts, ForTemp, Lost, Placed
<1>5. Stage' = Stage
  BY <1>1, <1>3, <1>4 DEF Stage
<1>6. proc.times = Len(Stage.files) /\ proc.next \in Weights
  BY <1>1, Requested
<1> HIDE DEF Stage
<1>7. /\ DOMAIN disk' = DOMAIN disk \cup {t} /\ disk'[t] = Empty
      /\ \A k \in DOMAIN disk : k # t /\ disk'[k] = disk[k]
  BY <1>1
<1>8. proc.mapped = 0..t - 1 /\ proc.mapped \subseteq DOMAIN disk
  BY DEF StageInv
<1>9. TypeInv'
  <2>1. Empty \in FileData /\ Len(Empty.data) = Len(Empty.durable)
    BY DEF Empty, FileData
  <2>2. \A k \in DOMAIN disk' : disk'[k] \in FileData /\ Len(disk'[k].data) = Len(disk'[k].durable)
    BY <1>7, <2>1 DEF TypeInv
  <2>3. DOMAIN disk' \subseteq Files
    BY <1>2, <1>7 DEF TypeInv
  <2>4. disk' = [k \in DOMAIN disk' |-> disk'[k]]
    BY <1>1, <1>7
  <2> QED BY <1>1, <1>3, <2>2, <2>3, <2>4 DEF TypeInv
<1>10. PlaceInv'
  <2>1. Request' = Request
    BY <1>1, <1>3 DEF Request
  <2>2. Len(disk'[t].data) = 0
    BY <1>7 DEF Empty
  <2> QED BY <1>1, <1>3, <1>4, <1>6, <1>7, <2>1, <2>2 DEF PlaceInv
<1>11. \A k \in 0..Len(Stage.files) - 1 : disk'[k] = disk[k]
  BY <1>6, <1>7, <1>8
<1>12. StageInv'
  <2>1. \A k \in 1..Len(Stage.files) : Len(disk'[k - 1].data) >= Stage.files[k]
    <3> TAKE k \in 1..Len(Stage.files)
    <3>1. k - 1 \in 0..Len(Stage.files) - 1
      BY <1>2, <1>6
    <3> QED BY <1>11, <3>1 DEF StageInv
  <2>2. proc'.times = Len(Stage'.files) + (IF Lost' THEN 1 ELSE 0)
    BY <1>2, <1>3, <1>4, <1>5, <1>6
  <2>3. proc.free = Stage.free /\ proc.place = Stage.place
    BY DEF StageInv
  <2> QED BY <1>3, <1>5, <1>7, <1>8, <2>1, <2>2, <2>3 DEF StageInv
<1>13. HintInv'
  BY <1>1, <1>3 DEF HintInv
<1>14. HeldInv'
  <2> SUFFICES ASSUME Packs, NEW w \in 1..Len(proc.place) PROVE HeldAt(w)'
    BY <1>3, <1>4 DEF HeldInv
  <2>1. HeldAt(w)
    BY <1>1 DEF HeldInv
  <2> QED BY <1>1, <1>3, <1>11, <2>1, StillHeld
<1>15. SyncInv' /\ FailInv' /\ NothingLeft'
  BY <1>3, <1>4 DEF SyncInv, FailInv, NothingLeft
<1>16. VouchInv'
  <2>1. \A w \in Weights : Kept(w) => Kept(w)'
    BY <1>1, <1>7 DEF Kept
  <2> QED BY <1>1, <1>3, <2>1, VouchKept
<1>17. ResidueInv'
  <2> DEFINE end == Layouts(program, TRUE)[NumWeights].files
  <2> SUFFICES ASSUME ~everCached, NEW k \in DOMAIN disk'
               PROVE  /\ k < Len(end) /\ 0..k \subseteq DOMAIN disk'
                      /\ Len(disk'[k].data) >= end[k + 1] \/ k + 1 \notin DOMAIN disk'
    BY <1>1 DEF ResidueInv
  <2>1. Packs = TRUE
    BY NeverTrusted
  <2>2. \A j \in DOMAIN disk : /\ j < Len(end) /\ 0..j \subseteq DOMAIN disk
                               /\ Len(disk[j].data) >= end[j + 1] \/ j + 1 \notin DOMAIN disk
    BY DEF ResidueInv
  <2>3. CASE k = t
    <3>1. 0..t \subseteq DOMAIN disk'
      BY <1>2, <1>7, <1>8
    <3>2. t + 1 \notin DOMAIN disk
      <4>1. t \in 0..t + 1
        BY <1>2
      <4> QED BY <1>1, <2>2, <4>1
    <3>3. t + 1 \notin DOMAIN disk'
      BY <1>2, <1>7, <3>2
    <3> QED BY <1>2, <2>1, <2>3, <3>1, <3>3
  <2>4. CASE k # t
    <3>1. k \in DOMAIN disk /\ disk'[k] = disk[k]
      BY <1>7, <2>4
    <3>2. k < Len(end) /\ 0..k \subseteq DOMAIN disk'
      BY <1>7, <2>2, <3>1
    <3>3. CASE k + 1 \notin DOMAIN disk'
      BY <3>2, <3>3
    <3>4. CASE k + 1 \in DOMAIN disk
      BY <2>2, <3>1, <3>2, <3>4
    <3>5. CASE k + 1 = t
      <4>1. k + 1 \in 1..t /\ (k + 1) - 1 = k
        <5>1. k \in Int
          BY <3>1 DEF TypeInv, Files
        <5> QED BY <1>2, <1>8, <3>1, <3>5, WeightNumbers DEF TypeInv, Files
      <4>2. Len(disk[k].data) >= Stage.files[k + 1]
        BY <1>6, <4>1 DEF StageInv
      <4>3. Stage.files[k + 1] = end[k + 1]
        <5>1. Extends(Layouts(program, Packs)[NumWeights], Stage)
          BY StageState
        <5> QED BY <1>6, <2>1, <4>1, <5>1 DEF Extends
      <4> QED BY <3>1, <3>2, <4>2, <4>3
    <3> QED BY <1>7, <3>3, <3>4, <3>5
  <2> QED BY <2>3, <2>4
<1> QED BY <1>9, <1>10, <1>12, <1>13, <1>14, <1>15, <1>16, <1>17

\* Where a program places its weights in the end.
LEMMA PlacedFinally ==
  ASSUME NEW p \in Programs, NEW pack \in BOOLEAN, NEW w \in Weights
  PROVE  Layout(p, pack)[w][1] \in Nat /\ Layout(p, pack)[w][2] \in Nat /\ p[w].size \in Nat \ {0}
<1> DEFINE s == Layouts(p, pack)[NumWeights]
<1>1. Good(s, p) /\ Len(s.place) = NumWeights
  BY WeightNumbers, AllLaid DEF Laying
<1>2. s.place \in Seq(Nat \X Nat)
  BY <1>1 DEF Good, TypedState
<1> HIDE DEF s
<1>3. s.place[w] \in Nat \X Nat
  BY <1>1, <1>2 DEF Weights
<1> QED BY <1>3, SizeOf DEF Layout, s

\* A created file gets its size, and serves (MmapAllocator::onAlloc).
LEMMA SetFileSizeKeeps ==
  ASSUME IInv, SetFileSize
  PROVE  IInv'
<1> USE DEF IInv
<1> DEFINE t == proc.times
           f == Fit(Stage, Request)
           q == Mapped(proc)
           n == BlockSize(Request)
           z == [data |-> Zeros(n), durable |-> Zeros(n)]
<1>1. /\ proc.pc = "size" /\ UNCHANGED <<program, marker, starts, everCached, relapsed, cleanExit>>
      /\ disk' = [disk EXCEPT ![t] = z]
      /\ proc' = [Serve(q, proc.free, NewBlock) EXCEPT !.newMmap = TRUE]
  BY DEF SetFileSize
<1>2. /\ Fitting(proc.free, Request) = {} /\ t \in DOMAIN disk /\ Len(disk[t].data) = 0
  BY <1>1 DEF PlaceInv
<1>3. /\ f.block = NewBlock /\ f.free = proc.free
      /\ Len(f.files) = t + 1 /\ f.files[t + 1] = n
      /\ n \in Nat \ {0} /\ t \in Nat /\ t \in Files
      /\ LET end == Layouts(program, Packs)[NumWeights].files
         IN  t < Len(end) /\ end[t + 1] = n
  BY <1>1, <1>2, NewFile
<1>4. f = Fit(Stage, Request) /\ z = [data |-> Zeros(n), durable |-> Zeros(n)]
  OBVIOUS
<1> HIDE DEF f, n, z
<1>5. q = [proc EXCEPT !.mapped = @ \cup {proc.times}, !.times = @ + 1]
  BY DEF Mapped
<1> HIDE DEF q
<1>6. /\ q \in ProcType /\ q.want = proc.want /\ q.next = proc.next /\ q.place = proc.place /\ q.hint = proc.hint
      /\ q.cached = proc.cached /\ q.times = t + 1 /\ q.mapped = proc.mapped \cup {t}
  <2> DEFINE m == proc.mapped \cup {proc.times}
             s == proc.times + 1
  <2>1. q = [proc EXCEPT !.mapped = m, !.times = s]
    BY <1>5
  <2>2. m \in SUBSET Nat /\ s \in Nat /\ proc \in ProcType
    BY <1>3, ProcFields DEF TypeInv
  <2> HIDE DEF m, s
  <2>3. /\ q \in ProcType /\ q.want = proc.want /\ q.next = proc.next /\ q.place = proc.place /\ q.hint = proc.hint
        /\ q.cached = proc.cached /\ q.times = s /\ q.mapped = m
    <3> HIDE DEF IInv
    <3> QED BY <2>1, <2>2 DEF ProcType
  <2> QED BY <2>3 DEF m, s
<1>7. Follows(f) /\ proc' \in ProcType /\ proc'.times = q.times /\ proc'.mapped = q.mapped
      /\ proc'.pc \in {"write", "load"}
  <2>1. proc' = [Serve(q, f.free, f.block) EXCEPT !.newMmap = TRUE]
    BY <1>1, <1>3
  <2>2. ASSUME NEW new \in BOOLEAN, new = TRUE
        PROVE  Follows(f) /\ proc' \in ProcType /\ proc'.times = q.times /\ proc'.mapped = q.mapped
               /\ proc'.pc \in {"write", "load"}
    <3>1. proc' = [Serve(q, f.free, f.block) EXCEPT !.newMmap = new]
      BY <2>1, <2>2
    <3>2. proc.pc \in {"alloc", "size"} /\ program' = program /\ f = Fit(Stage, Request)
      BY <1>1, <1>4
    <3> HIDE DEF Stage
    <3> QED BY <1>6, <3>1, <3>2, ServeFields
  <2> QED BY <2>2
<1>8. /\ Zeros(n) \in Seq(0..NumWeights) /\ Len(Zeros(n)) = n
      /\ z \in FileData /\ z.data = Zeros(n) /\ z.durable = Zeros(n)
  <2>1. Zeros(n) = [u \in 1..n |-> 0] /\ n \in Nat /\ 0 \in 0..NumWeights
    BY <1>3, WeightNumbers DEF Zeros
  <2>2. Zeros(n) \in Seq(0..NumWeights) /\ Len(Zeros(n)) = n
    BY <2>1, IsASeq
  <2> QED BY <1>4, <2>2 DEF FileData
<1>9. /\ DOMAIN disk' = DOMAIN disk /\ disk'[t] = z /\ \A k \in DOMAIN disk \ {t} : disk'[k] = disk[k]
  BY <1>1, <1>2
<1>10. proc.mapped = 0..t - 1 /\ proc.mapped \subseteq DOMAIN disk
  BY DEF StageInv
<1>11. PlaceInv' /\ StageInv' /\ HintInv' /\ HeldInv' /\ SyncInv' /\ FailInv'
  <2>1. proc'.times = Len(f.files) /\ proc'.mapped = 0..proc'.times - 1 /\ proc'.mapped \subseteq DOMAIN disk'
    BY <1>2, <1>3, <1>6, <1>7, <1>9, <1>10
  <2>2. \A k \in 0..t - 1 : disk'[k].data = disk[k].data
    BY <1>3, <1>9, <1>10
  <2>3. Len(disk'[t].data) >= f.files[t + 1]
    BY <1>3, <1>8, <1>9
  <2> QED BY <1>1, <1>4, <1>7, <2>1, <2>2, <2>3, Served
<1>12. TypeInv'
  <2>1. \A k \in DOMAIN disk' : disk'[k] \in FileData /\ Len(disk'[k].data) = Len(disk'[k].durable)
    BY <1>8, <1>9 DEF TypeInv
  <2>2. disk' = [k \in DOMAIN disk' |-> disk'[k]]
    BY <1>1, <1>9
  <2> QED BY <1>1, <1>7, <1>9, <2>1, <2>2 DEF TypeInv
<1>13. NothingLeft'
  BY <1>7 DEF NothingLeft
<1>14. VouchInv'
  <2>1. ASSUME NEW w \in Weights, Kept(w) PROVE Kept(w)'
    <3> DEFINE at == Layout(program, TRUE)[w]
    <3>1. at[1] \in DOMAIN disk /\ at[2] + program[w].size <= Len(disk[at[1]].data)
      BY <2>1 DEF Kept
    <3>2. at[2] \in Nat /\ program[w].size \in Nat \ {0}
      BY ProcFields, PlacedFinally
    <3> HIDE DEF at
    <3>3. at[1] # t
      BY <1>2, <3>1, <3>2
    <3> QED BY <1>1, <1>9, <2>1, <3>1, <3>3 DEF Kept, at
  <2> QED BY <1>1, <1>7, <2>1, VouchKept DEF Follows
<1>15. ResidueInv'
  <2> DEFINE end == Layouts(program, TRUE)[NumWeights].files
  <2> SUFFICES ASSUME ~everCached, NEW k \in DOMAIN disk'
               PROVE  /\ k < Len(end) /\ 0..k \subseteq DOMAIN disk'
                      /\ Len(disk'[k].data) >= end[k + 1] \/ k + 1 \notin DOMAIN disk'
    BY <1>1 DEF ResidueInv
  <2>1. Packs = TRUE
    BY NeverTrusted
  <2>2. \A j \in DOMAIN disk : /\ j < Len(end) /\ 0..j \subseteq DOMAIN disk
                               /\ Len(disk[j].data) >= end[j + 1] \/ j + 1 \notin DOMAIN disk
    BY DEF ResidueInv
  <2>3. CASE k = t
    <3>1. Len(disk'[k].data) >= end[k + 1]
      <4>1. end[t + 1] = n
        BY <1>3, <2>1
      <4>2. Len(disk'[t].data) = n
        BY <1>8, <1>9
      <4>3. end[k + 1] = n /\ Len(disk'[k].data) = n
        BY <2>3, <4>1, <4>2
      <4>4. n >= n
        BY <1>3
      <4> HIDE DEF end
      <4> QED BY <4>3, <4>4
    <3> QED BY <1>2, <1>9, <2>2, <2>3, <3>1
  <2>4. CASE k # t
    BY <1>9, <2>2, <2>4
  <2> QED BY <2>3, <2>4
<1> QED BY <1>11, <1>12, <1>13, <1>14, <1>15

\* The file g is f with the weight w in its units.
Written(g, f, a, n, w) ==
    /\ g \in FileData /\ g.durable = f.durable /\ Len(g.data) = Len(f.data)
    /\ \A u \in 1..Len(f.data) : g.data[u] = IF u \in a + 1..a + n THEN w ELSE f.data[u]

\* Writing a weight changes its units and no others.
LEMMA FilledState ==
  ASSUME NEW f \in FileData, NEW a \in Nat, NEW n \in Nat, NEW w \in 0..NumWeights
  PROVE  Written(Filled(f, a, n, w), f, a, n, w)
<1> DEFINE d == [u \in DOMAIN f.data |-> IF u \in a + 1..a + n THEN w ELSE f.data[u]]
           g == Filled(f, a, n, w)
<1>1. g = [f EXCEPT !.data = d]
  BY DEF Filled
<1>2. f.data \in Seq(0..NumWeights) /\ f.durable \in Seq(0..NumWeights)
  BY DEF FileData
<1>3. d = [u \in 1..Len(f.data) |-> IF u \in a + 1..a + n THEN w ELSE f.data[u]] /\ Len(f.data) \in Nat
  <2>1. DOMAIN f.data = 1..Len(f.data) /\ Len(f.data) \in Nat
    BY <1>2, LenProperties
  <2> QED BY <2>1
<1>4. d \in Seq(0..NumWeights) /\ Len(d) = Len(f.data)
  <2>1. \A u \in 1..Len(f.data) : (IF u \in a + 1..a + n THEN w ELSE f.data[u]) \in 0..NumWeights
    <3> TAKE u \in 1..Len(f.data)
    <3>1. f.data[u] \in 0..NumWeights
      BY <1>2, ElementOfSeq
    <3> HIDE DEF d
    <3> QED BY <3>1
  <2> HIDE DEF d
  <2> QED BY <1>3, <2>1, IsASeq
<1>5. \A u \in 1..Len(f.data) : d[u] = IF u \in a + 1..a + n THEN w ELSE f.data[u]
  BY <1>3
<1> HIDE DEF d, g
<1>6. g.data = d /\ g.durable = f.durable /\ g \in FileData
  BY <1>1, <1>4 DEF FileData
<1> QED BY <1>4, <1>5, <1>6 DEF g, Written

\* A weight is packed into its memory, or is left as it was found
\* (CPUConvolution::Resource, Convolution1x1Strassen: !mValid.get() of a cached mmap).
LEMMA WriteKeeps ==
  ASSUME IInv, Write
  PROVE  IInv'
<1> USE DEF IInv
<1> DEFINE w == proc.next
           at == proc.place[w]
           n == program[w].size
           g == Filled(disk[at[1]], at[2], n, w)
<1>1. /\ proc.pc = "write" /\ UNCHANGED <<program, marker, starts, everCached, relapsed, cleanExit>>
      /\ disk' = IF Packs THEN [disk EXCEPT ![at[1]] = g] ELSE disk
      /\ proc' = IF Packs /\ program[w].temp > 0 THEN [proc EXCEPT !.pc = "alloc", !.want = "temp"]
                 ELSE [proc EXCEPT !.pc = "load", !.next = @ + 1]
  BY DEF Write, Packs
<1>2. w \in Weights /\ Placed = TRUE /\ ~Lost
  BY <1>1 DEF PlaceInv, Placed, Lost
<1>3. proc.place = Stage.place /\ Len(Stage.place) = w /\ Good(Stage, program) /\ w \in 1..Len(proc.place) /\ w \in Nat
      /\ w + 1 \in 1..NumWeights + 1 /\ (w + 1) - 1 = w
  <2>1. proc.place = Stage.place /\ Len(Stage.place) = w /\ Good(Stage, program)
    BY <1>2, StageState DEF StageInv
  <2>2. w \in Nat /\ w + 1 \in 1..NumWeights + 1 /\ w >= 1
    BY <1>2, WeightNumbers DEF Weights
  <2> HIDE DEF w
  <2> QED BY <2>1, <2>2
<1>4. /\ at[1] \in 0..Len(Stage.files) - 1 /\ at[2] \in Nat /\ at[1] \in DOMAIN disk /\ n \in Nat \ {0}
      /\ Len(disk[at[1]].data) \in Nat /\ at[2] + n <= Len(disk[at[1]].data)
  BY <1>3, InFiles
<1>5. /\ g \in FileData /\ g.durable = disk[at[1]].durable /\ Len(g.data) = Len(disk[at[1]].data)
      /\ \A u \in 1..Len(disk[at[1]].data) : g.data[u] = IF u \in at[2] + 1..at[2] + n THEN w ELSE disk[at[1]].data[u]
  <2>1. disk[at[1]] \in FileData /\ w \in 0..NumWeights
    BY <1>2, <1>4, WeightNumbers DEF TypeInv
  <2>2. n \in Nat /\ at[2] \in Nat
    BY <1>4
  <2> HIDE DEF at, n, w, IInv
  <2>3. Written(g, disk[at[1]], at[2], n, w)
    BY <2>1, <2>2, FilledState
  <2> HIDE DEF g
  <2> QED BY <2>3 DEF Written
<1> HIDE DEF g
<1>6. /\ DOMAIN disk' = DOMAIN disk /\ disk' = [k \in DOMAIN disk' |-> disk'[k]]
      /\ \A k \in DOMAIN disk : disk'[k] = IF Packs /\ k = at[1] THEN g ELSE disk[k]
  BY <1>1, <1>4 DEF TypeInv
<1>7. \A k \in DOMAIN disk : /\ disk'[k] \in FileData /\ disk'[k].durable = disk[k].durable
                             /\ Len(disk'[k].data) = Len(disk[k].data)
  BY <1>5, <1>6 DEF TypeInv
<1>8. /\ proc' \in ProcType /\ proc'.hint = proc.hint /\ proc'.cached = proc.cached /\ proc'.place = proc.place
      /\ proc'.free = proc.free /\ proc'.times = proc.times /\ proc'.mapped = proc.mapped
      /\ Packs /\ program[w].temp > 0 => proc'.pc = "alloc" /\ proc'.want = "temp" /\ proc'.next = w
      /\ ~(Packs /\ program[w].temp > 0) => proc'.pc = "load" /\ proc'.next = w + 1
  <2>1. CASE Packs /\ program[w].temp > 0
    BY <1>1, <2>1 DEF TypeInv, ProcType, Pcs
  <2>2. CASE ~(Packs /\ program[w].temp > 0)
    <3>1. proc' = [proc EXCEPT !.pc = "load", !.next = w + 1]
      BY <1>1, <2>2
    <3>2. proc \in ProcType /\ w + 1 \in 1..NumWeights + 1
      BY <1>3 DEF TypeInv
    <3> HIDE DEF w, IInv
    <3> QED BY <2>2, <3>1, <3>2 DEF ProcType, Pcs
  <2> QED BY <2>1, <2>2
<1>9. Packs' = Packs /\ ~Lost' /\ (ForTemp' <=> Packs /\ program[w].temp > 0)
  BY <1>8 DEF Packs, Trusts, Lost, ForTemp
<1>10. Stage' = Stage
  <2>1. CASE Packs /\ program[w].temp > 0
    <3>1. Placed' = TRUE
      BY <1>9, <2>1 DEF Placed
    <3> QED BY <1>1, <1>2, <1>8, <1>9, <2>1, <3>1 DEF Stage
  <2>2. CASE ~(Packs /\ program[w].temp > 0)
    <3>1. Placed' = FALSE
      BY <1>8, <1>9, <2>2 DEF Placed
    <3>2. Stage' = StageOf(program, Packs, w + 1, FALSE)
      BY <1>1, <1>8, <1>9, <2>2, <3>1 DEF Stage
    <3>3. Stage' = Layouts(program, Packs)[w]
      BY <1>3, <3>2 DEF StageOf
    <3>4. Stage = WithWeight(Layouts(program, Packs)[w - 1], n)
      BY <1>2 DEF Stage, StageOf
    <3>5. Laying(program, Packs, w - 1)
      BY <1>2, ProcFields, WeightNumbers, AllLaid
    <3>6. Layouts(program, Packs)[w] = IF Packs /\ program[w].temp > 0
                                       THEN AfterTemp(WithWeight(Layouts(program, Packs)[w - 1], n), program[w].temp)
                                       ELSE WithWeight(Layouts(program, Packs)[w - 1], n)
      BY <1>2, <3>5, ProcFields, NextWeight
    <3> QED BY <2>2, <3>3, <3>4, <3>6
  <2> QED BY <2>1, <2>2
<1> HIDE DEF Stage
<1>11. TypeInv'
  BY <1>1, <1>6, <1>7, <1>8 DEF TypeInv
<1>12. PlaceInv'
  <2>1. proc'.pc \in {"alloc", "load"} /\ (proc'.pc = "alloc" => proc'.next = w)
        /\ (ForTemp' => Packs' /\ program'[proc'.next].temp > 0)
    BY <1>1, <1>8, <1>9
  <2> QED BY <1>2, <2>1 DEF PlaceInv
<1>13. StageInv'
  <2>1. \A k \in 1..Len(Stage.files) : Len(disk'[k - 1].data) >= Stage.files[k]
    <3> TAKE k \in 1..Len(Stage.files)
    <3>1. k - 1 \in DOMAIN disk
      <4>1. proc.mapped = 0..proc.times - 1 /\ proc.mapped \subseteq DOMAIN disk /\ proc.times = Len(Stage.files)
        <5>1. Len(Stage.files) \in Nat
          BY StageState
        <5>2. proc.times = Len(Stage.files) + (IF Lost THEN 1 ELSE 0)
          BY DEF StageInv
        <5> QED BY <1>2, <5>1, <5>2 DEF StageInv
      <4>2. k - 1 \in 0..Len(Stage.files) - 1
        BY StageState
      <4> QED BY <4>1, <4>2
    <3> QED BY <1>7, <3>1 DEF StageInv
  <2> QED BY <1>2, <1>6, <1>8, <1>9, <1>10, <2>1 DEF StageInv
<1>14. HintInv'
  BY <1>1, <1>8 DEF HintInv
<1>15. HeldInv'
  <2> SUFFICES ASSUME Packs, NEW v \in 1..Len(proc.place) PROVE HeldAt(v)'
    BY <1>8, <1>9 DEF HeldInv
  <2> DEFINE to == proc.place[v]
  <2>1. /\ to[1] \in DOMAIN disk /\ to[2] \in Nat /\ program[v].size \in Nat \ {0} /\ Len(disk[to[1]].data) \in Nat
        /\ to[2] + program[v].size <= Len(disk[to[1]].data)
    BY InFiles
  <2>2. ASSUME NEW u \in Units(to[2], program[v].size) PROVE disk'[to[1]].data[u] = v
    <3>1. u \in 1..Len(disk[to[1]].data) /\ u \in Nat /\ to[2] < u /\ u <= to[2] + program[v].size
      <4> DEFINE at0 == to[2]
                 size == program[v].size
                 length == Len(disk[to[1]].data)
      <4>1. at0 \in Nat /\ size \in Nat /\ length \in Nat /\ at0 + size <= length /\ u \in at0 + 1..at0 + size
        BY <2>1 DEF Units
      <4> HIDE DEF at0, size, length
      <4>2. u \in 1..length /\ u \in Nat /\ at0 < u /\ u <= at0 + size
        BY <4>1
      <4> QED BY <4>2 DEF at0, size, length
    <3>2. CASE v = w
      <4>1. u \in at[2] + 1..at[2] + n
        BY <3>2 DEF Units
      <4> QED BY <1>4, <1>5, <1>6, <3>1, <3>2, <4>1
    <3>3. CASE v # w
      <4>1. disk[to[1]].data[u] = v
        BY <3>3 DEF HeldInv, HeldAt
      <4>2. CASE to[1] # at[1]
        BY <1>6, <2>1, <4>1, <4>2
      <4>3. CASE to[1] = at[1]
        <5>1. to[2] + program[v].size <= at[2] \/ at[2] + n <= to[2]
          BY <1>3, <3>3, <4>3 DEF Good, NoOverlap, End
        <5>2. u \notin at[2] + 1..at[2] + n
          <6> HIDE DEF to, at, n
          <6> QED BY <1>4, <2>1, <3>1, <5>1, SMTT(30)
        <5> QED BY <1>4, <1>5, <1>6, <3>1, <4>1, <4>3, <5>2
      <4> QED BY <4>2, <4>3
    <3> QED BY <3>2, <3>3
  <2> QED BY <1>1, <1>8, <2>2 DEF HeldAt
<1>16. SyncInv' /\ FailInv' /\ NothingLeft'
  BY <1>8, <1>9 DEF SyncInv, FailInv, NothingLeft
<1>17. VouchInv'
  <2>1. ASSUME ~relapsed, marker PROVE disk' = disk
    <3>1. proc.cached /\ proc.hint > 1
      BY <1>1, <2>1 DEF HintInv, VouchInv
    <3> QED BY <1>1, <3>1 DEF Packs, Trusts
  <2>2. \A v \in Weights : ~relapsed /\ marker /\ Kept(v) => Kept(v)'
    BY <1>1, <2>1 DEF Kept
  <2> QED BY <1>1, <1>8, <2>2, VouchKept
<1>18. ResidueInv'
  BY <1>1, <1>6, <1>7 DEF ResidueInv
<1> QED BY <1>11, <1>12, <1>13, <1>14, <1>15, <1>16, <1>17, <1>18

\* A program starts (CPURuntime's constructor).
LEMMA StartKeeps ==
  ASSUME IInv, NEW cached \in BOOLEAN, Start(cached)
  PROVE  IInv'
<1> USE DEF IInv
<1> DEFINE hint == IF cached THEN 1 ELSE 0
<1>1. /\ proc.pc = "off" /\ starts < MaxStarts /\ relapsed' = (relapsed \/ (~cached /\ marker))
      /\ proc' = [Off EXCEPT !.pc = "load", !.cached = cached, !.hint = hint]
      /\ starts' = starts + 1 /\ everCached' = (everCached \/ cached)
      /\ UNCHANGED <<program, disk, marker, cleanExit>>
  BY DEF Start
<1>2. hint \in Nat /\ hint <= 1 /\ (cached => hint = 1) /\ (~cached => hint = 0)
  OBVIOUS
<1> HIDE DEF hint
<1>3. /\ proc'.pc = "load" /\ proc'.cached = cached /\ proc'.hint = hint /\ proc'.times = 0 /\ proc'.mapped = {}
      /\ proc'.free = <<>> /\ proc'.next = 1 /\ proc'.want = "weight" /\ proc'.place = <<>>
      /\ proc' \in ProcType
  <2>1. proc' = [pc |-> "load", cached |-> cached, hint |-> hint, newMmap |-> FALSE, times |-> 0,
                 mapped |-> {}, free |-> <<>>, next |-> 1, want |-> "weight", place |-> <<>>]
    BY <1>1 DEF Off
  <2>2. <<>> \in Seq(Block) /\ <<>> \in Seq(Nat \X Nat) /\ 1 \in 1..NumWeights + 1
    BY EmptySeq, WeightNumbers
  <2> QED BY <1>2, <2>1, <2>2 DEF ProcType, Pcs
<1>4. TypeInv'
  BY <1>1, <1>3, WeightCacheAssumption DEF TypeInv
<1>5. ~ForTemp' /\ Placed' = FALSE /\ ~Lost' /\ Packs'
  BY <1>2, <1>3 DEF ForTemp, Placed, Lost, Packs, Trusts
<1>6. PlaceInv'
  BY <1>3, <1>5, WeightNumbers DEF PlaceInv
<1>7. Stage'.free = <<>> /\ Stage'.files = <<>> /\ Stage'.place = <<>>
  <2>1. Stage' = StageOf(program', Packs', 1, FALSE)
    BY <1>3, <1>5 DEF Stage
  <2> QED BY <2>1, NothingLaid
<1>8. StageInv'
  <2> HIDE DEF Stage
  <2> QED BY <1>3, <1>5, <1>7 DEF StageInv
<1>9. HintInv'
  BY <1>1, <1>2, <1>3 DEF HintInv
<1>10. HeldInv' /\ SyncInv' /\ FailInv' /\ NothingLeft'
  BY <1>3, <1>5 DEF HeldInv, SyncInv, FailInv, NothingLeft
<1>11. VouchInv'
  <2>1. ~relapsed' => ~relapsed /\ (marker => cached)
    BY <1>1 DEF TypeInv
  <2>2. \A w \in Weights : Kept(w) => Kept(w)'
    BY <1>1 DEF Kept
  <2> QED BY <1>1, <1>3, <2>1, <2>2 DEF VouchInv
<1>12. ResidueInv'
  BY <1>1 DEF ResidueInv
<1> QED BY <1>4, <1>6, <1>8, <1>9, <1>10, <1>11, <1>12

\* The module of a weight is created (CPURuntime::onCreate).
LEMMA CreateKeeps ==
  ASSUME IInv, Create
  PROVE  IInv'
<1> USE DEF IInv
<1> DEFINE hint == IF proc.cached /\ marker THEN proc.hint + 1 ELSE proc.hint
<1>1. /\ proc.pc = "load" /\ proc.next <= NumWeights
      /\ proc' = [proc EXCEPT !.pc = "alloc", !.want = "weight", !.hint = hint]
      /\ UNCHANGED <<program, disk, marker, starts, everCached, relapsed, cleanExit>>
  BY DEF Create
<1>2. hint \in Nat /\ (proc.cached /\ marker => hint = proc.hint + 1) /\ (~(proc.cached /\ marker) => hint = proc.hint)
  BY ProcFields
<1> HIDE DEF hint
<1>3. /\ proc' \in ProcType /\ proc'.want = "weight" /\ proc'.next = proc.next /\ proc'.place = proc.place
      /\ proc'.hint = hint /\ proc'.cached = proc.cached /\ proc'.pc = "alloc" /\ proc'.free = proc.free
      /\ proc'.times = proc.times /\ proc'.mapped = proc.mapped
  BY <1>1, <1>2 DEF TypeInv, ProcType, Pcs
<1>4. ~ForTemp /\ ~ForTemp' /\ Placed = FALSE /\ Placed' = FALSE /\ ~Lost /\ ~Lost'
  BY <1>1, <1>3 DEF ForTemp, Placed, Lost
<1>5. proc.next \in Weights /\ proc.hint \in Nat /\ proc.next \in Nat
  BY <1>1, ProcFields, WeightNumbers DEF Weights
<1>6. Packs' = Packs \/ (proc.next = 1 /\ Packs)
  <2>1. Packs = ~(proc.hint > 1) /\ Packs' = ~(hint > 1)
    BY <1>3 DEF Packs, Trusts
  <2>2. CASE proc.cached /\ marker
    <3>1. proc.hint >= 1 /\ (proc.next > 1 => proc.hint > 1) /\ hint = proc.hint + 1
      BY <1>1, <1>2, <2>2 DEF HintInv
    <3>2. proc.next >= 1
      BY <1>5 DEF Weights
    <3>3. CASE proc.hint > 1
      BY <1>5, <2>1, <3>1, <3>3
    <3>4. CASE ~(proc.hint > 1)
      <4>1. proc.next = 1
        BY <1>5, <3>1, <3>2, <3>4
      <4>2. Packs
        BY <2>1, <3>4
      <4> QED BY <4>1, <4>2
    <3> QED BY <3>3, <3>4
  <2>3. CASE ~(proc.cached /\ marker)
    BY <1>2, <2>1, <2>3
  <2> QED BY <2>2, <2>3
<1>7. /\ Stage'.free = Stage.free /\ Stage'.files = Stage.files /\ Stage'.place = Stage.place
  <2>1. Stage = StageOf(program, Packs, proc.next, FALSE) /\ Stage' = StageOf(program, Packs', proc.next, FALSE)
    BY <1>1, <1>3, <1>4 DEF Stage
  <2>2. CASE proc.next = 1
    BY <2>1, <2>2, NothingLaid
  <2>3. CASE Packs' = Packs
    BY <2>1, <2>3
  <2> QED BY <1>6, <2>2, <2>3
<1> HIDE DEF Stage
<1>8. TypeInv' /\ VouchInv' /\ ResidueInv' /\ NothingLeft'
  BY <1>1, <1>3, SameDisk
<1>9. PlaceInv'
  BY <1>3, <1>4, <1>5 DEF PlaceInv
<1>10. StageInv'
  <2>1. /\ proc.free = Stage.free /\ proc.place = Stage.place /\ proc.times = Len(Stage.files) + (IF Lost THEN 1 ELSE 0)
        /\ proc.mapped = 0..proc.times - 1 /\ proc.mapped \subseteq DOMAIN disk
        /\ \A k \in 1..Len(Stage.files) : Len(disk[k - 1].data) >= Stage.files[k]
    BY DEF StageInv
  <2>2. proc'.times = Len(Stage'.files) + (IF Lost' THEN 1 ELSE 0)
    BY <1>3, <1>4, <1>7, <2>1
  <2> QED BY <1>1, <1>3, <1>7, <2>1, <2>2 DEF StageInv
<1>11. HintInv'
  BY <1>1, <1>2, <1>3, <1>5 DEF HintInv
<1>12. HeldInv'
  <2> SUFFICES ASSUME Packs', NEW w \in 1..Len(proc.place) PROVE HeldAt(w)'
    BY <1>3 DEF HeldInv
  <2>1. HeldAt(w)
    BY <1>1, <1>6 DEF HeldInv
  <2> QED BY <1>1, <1>3, <2>1 DEF HeldAt
<1>13. SyncInv' /\ FailInv'
  BY <1>3, <1>4 DEF SyncInv, FailInv
<1> QED BY <1>8, <1>9, <1>10, <1>11, <1>12, <1>13

\* The first resize syncs the files of a process that has created one
\* (CPUBackend::onClearBuffer, MmapAllocator::sync).
LEMMA FirstResizeKeeps ==
  ASSUME IInv, FirstResize
  PROVE  IInv'
<1> USE DEF IInv
<1>1. /\ proc.pc = "load" /\ proc.next > NumWeights
      /\ disk' = IF NeedsSync(proc) THEN Flushed(disk, proc.mapped) ELSE disk
      /\ proc' = [proc EXCEPT !.pc = IF NeedsSync(proc) THEN "marker" ELSE "run"]
      /\ UNCHANGED <<program, marker, starts, everCached, relapsed, cleanExit>>
  BY DEF FirstResize
<1>2. /\ proc' \in ProcType /\ proc'.want = proc.want /\ proc'.next = proc.next /\ proc'.place = proc.place
      /\ proc'.hint = proc.hint /\ proc'.cached = proc.cached /\ proc'.free = proc.free
      /\ proc'.times = proc.times /\ proc'.mapped = proc.mapped
      /\ proc'.pc \in {"marker", "run"} /\ (proc'.pc = "marker" <=> NeedsSync(proc))
  BY <1>1 DEF TypeInv, ProcType, Pcs
<1>3. Packs' = Packs /\ ~ForTemp /\ ~ForTemp' /\ Placed = FALSE /\ Placed' = FALSE /\ ~Lost /\ ~Lost'
  BY <1>1, <1>2 DEF Packs, Trusts, ForTemp, Placed, Lost
<1>4. Stage' = Stage
  BY <1>1, <1>2, <1>3 DEF Stage
<1> HIDE DEF Stage
<1>5. proc.next = NumWeights + 1
  BY <1>1, ProcFields, WeightNumbers
<1>6. /\ DOMAIN disk' = DOMAIN disk /\ disk' = [k \in DOMAIN disk' |-> disk'[k]]
      /\ \A k \in DOMAIN disk : disk'[k] = disk[k] \/ disk'[k] = Synced(disk[k])
      /\ NeedsSync(proc) => \A k \in proc.mapped : disk'[k] = Synced(disk[k])
  <2>1. proc.mapped \subseteq DOMAIN disk
    BY DEF StageInv
  <2>2. CASE NeedsSync(proc)
    BY <1>1, <2>1, <2>2 DEF Flushed
  <2>3. CASE ~NeedsSync(proc)
    BY <1>1, <2>3 DEF TypeInv
  <2> QED BY <2>2, <2>3
<1>7. ASSUME NEW k \in DOMAIN disk
      PROVE  /\ disk'[k] \in FileData /\ disk'[k].data = disk[k].data
             /\ Len(disk'[k].data) = Len(disk'[k].durable)
             /\ disk'[k].durable = disk[k].durable \/ disk'[k].durable = disk[k].data
             /\ Synced(disk[k]).durable = Synced(disk[k]).data
  <2>1. disk[k] \in FileData /\ Len(disk[k].data) = Len(disk[k].durable)
    BY DEF TypeInv
  <2>2. Synced(disk[k]) \in FileData /\ Synced(disk[k]).data = disk[k].data /\ Synced(disk[k]).durable = disk[k].data
    BY <2>1 DEF Synced, FileData
  <2> QED BY <1>6, <2>1, <2>2
<1>8. TypeInv'
  BY <1>1, <1>2, <1>6, <1>7 DEF TypeInv
<1>9. PlaceInv'
  BY <1>2, <1>3, <1>5 DEF PlaceInv
<1>10. \A k \in 0..Len(Stage.files) - 1 : k \in DOMAIN disk
  <2>1. proc.mapped = 0..proc.times - 1 /\ proc.mapped \subseteq DOMAIN disk /\ proc.times = Len(Stage.files)
    <3>1. Len(Stage.files) \in Nat
      BY StageState
    <3>2. proc.times = Len(Stage.files) + (IF Lost THEN 1 ELSE 0)
      BY DEF StageInv
    <3> QED BY <1>3, <3>1, <3>2 DEF StageInv
  <2> QED BY <2>1
<1>11. StageInv'
  <2>1. \A k \in 1..Len(Stage.files) : Len(disk'[k - 1].data) >= Stage.files[k]
    <3> TAKE k \in 1..Len(Stage.files)
    <3>1. k - 1 \in 0..Len(Stage.files) - 1
      BY StageState
    <3> QED BY <1>7, <1>10, <3>1 DEF StageInv
  <2> QED BY <1>2, <1>3, <1>4, <1>6, <2>1 DEF StageInv
<1>12. HintInv'
  BY <1>1, <1>2 DEF HintInv
<1>13. HeldInv'
  <2> SUFFICES ASSUME Packs, NEW w \in 1..Len(proc.place) PROVE HeldAt(w)'
    BY <1>2, <1>3 DEF HeldInv
  <2>1. HeldAt(w)
    BY <1>1 DEF HeldInv
  <2> QED BY <1>1, <1>2, <1>7, <1>10, <2>1, StillHeld
<1>14. SyncInv'
  <2>1. proc.mapped \subseteq DOMAIN disk
    BY DEF StageInv
  <2> QED BY <1>2, <1>6, <1>7, <2>1 DEF SyncInv, NeedsSync
<1>15. FailInv' /\ NothingLeft'
  BY <1>2, <1>3 DEF FailInv, NothingLeft
<1>16. VouchInv'
  <2>1. \A w \in Weights : Kept(w) => Kept(w)'
    BY <1>1, <1>6, <1>7 DEF Kept
  <2> QED BY <1>1, <1>2, <2>1, VouchKept
<1>17. ResidueInv'
  BY <1>1, <1>6, <1>7 DEF ResidueInv
<1> QED BY <1>8, <1>9, <1>11, <1>12, <1>13, <1>14, <1>15, <1>16, <1>17

\* The marker is created (MmapAllocator::sync): all weights were packed and are
\* synced.
LEMMA CreateMarkerKeeps ==
  ASSUME IInv, CreateMarker
  PROVE  IInv'
<1> USE DEF IInv
<1>1. /\ proc.pc = "marker" /\ marker' = TRUE /\ proc' = [proc EXCEPT !.pc = "run"]
      /\ UNCHANGED <<program, disk, starts, everCached, relapsed, cleanExit>>
  BY DEF CreateMarker
<1>2. /\ proc' \in ProcType /\ proc'.want = proc.want /\ proc'.next = proc.next /\ proc'.place = proc.place
      /\ proc'.hint = proc.hint /\ proc'.cached = proc.cached /\ proc'.free = proc.free
      /\ proc'.times = proc.times /\ proc'.mapped = proc.mapped /\ proc'.pc = "run"
  BY <1>1 DEF TypeInv, ProcType, Pcs
<1>3. Packs' = Packs /\ ~ForTemp /\ ~ForTemp' /\ Placed = FALSE /\ Placed' = FALSE /\ ~Lost /\ ~Lost'
  BY <1>1, <1>2 DEF Packs, Trusts, ForTemp, Placed, Lost
<1>4. Stage' = Stage
  BY <1>1, <1>2, <1>3 DEF Stage
<1>5. proc.next = NumWeights + 1 /\ proc.cached /\ everCached
  BY <1>1 DEF PlaceInv, SyncInv, HintInv
<1>6. Stage = Layouts(program, Packs)[NumWeights]
  <2>1. (NumWeights + 1) - 1 = NumWeights
    BY WeightNumbers
  <2> QED BY <1>3, <1>5, <2>1 DEF Stage, StageOf
<1> HIDE DEF Stage
<1>7. TypeInv' /\ PlaceInv' /\ SyncInv' /\ FailInv' /\ NothingLeft'
  BY <1>1, <1>2, <1>3, <1>5 DEF TypeInv, PlaceInv, SyncInv, FailInv, NothingLeft
<1>8. StageInv'
  BY <1>1, <1>2, <1>3, <1>4 DEF StageInv
<1>9. HintInv'
  BY <1>1, <1>2, <1>5 DEF HintInv
<1>10. HeldInv'
  <2> SUFFICES ASSUME Packs, NEW w \in 1..Len(proc.place) PROVE HeldAt(w)'
    BY <1>2, <1>3 DEF HeldInv
  <2>1. HeldAt(w)
    BY <1>1 DEF HeldInv
  <2> QED BY <1>1, <1>2, <2>1 DEF HeldAt
<1>11. ResidueInv'
  BY <1>1 DEF ResidueInv
<1>12. ASSUME ~marker, NEW w \in Weights PROVE Kept(w)
  <2>1. proc.hint = 1
    BY <1>5, <1>12 DEF HintInv
  <2>2. Packs /\ Packs = TRUE
    BY <2>1 DEF Packs, Trusts
  <2>3. proc.place = Stage.place /\ Stage.place = Layouts(program, TRUE)[NumWeights].place
    BY <1>6, <2>2 DEF StageInv
  <2>4. proc.place = Layout(program, TRUE)
    BY <2>3 DEF Layout
  <2>5. Len(proc.place) = NumWeights /\ w \in 1..Len(proc.place)
    <3>1. Len(Stage.place) = proc.next - 1 /\ (NumWeights + 1) - 1 = NumWeights
      BY <1>3, StageState, WeightNumbers
    <3> QED BY <1>5, <2>3, <3>1 DEF Weights
  <2> DEFINE at == proc.place[w]
  <2>6. /\ at[1] \in proc.mapped /\ at[1] \in DOMAIN disk /\ at[2] + program[w].size <= Len(disk[at[1]].data)
    BY <2>5, InFiles
  <2>7. disk[at[1]].durable = disk[at[1]].data
    BY <1>1, <1>12, <2>6 DEF SyncInv
  <2>8. \A u \in Units(at[2], program[w].size) : disk[at[1]].data[u] = w
    BY <1>1, <2>2, <2>5 DEF HeldInv, HeldAt
  <2> QED BY <2>4, <2>6, <2>7, <2>8 DEF Kept
<1>13. VouchInv'
  <2>1. ASSUME ~relapsed, NEW w \in Weights PROVE Kept(w)
    BY <1>12, <2>1 DEF VouchInv
  <2>2. \A w \in Weights : Kept(w) => Kept(w)'
    BY <1>1 DEF Kept
  <2>3. proc'.cached
    BY <1>2, <1>5
  <2> QED BY <1>1, <2>1, <2>2, <2>3 DEF VouchInv
<1> QED BY <1>7, <1>8, <1>9, <1>10, <1>11, <1>13

\* A process that is killed leaves the files.
LEMMA KillKeeps ==
  ASSUME IInv, Kill
  PROVE  IInv'
<1> USE DEF IInv
<1>1. /\ proc' = Off /\ cleanExit' = FALSE /\ UNCHANGED <<program, disk, marker, starts, everCached, relapsed>>
  BY DEF Kill
<1>2. \A w \in Weights : Kept(w) => Kept(w)'
  BY <1>1 DEF Kept
<1>3. /\ proc' \in ProcType /\ PlaceInv' /\ StageInv' /\ HintInv' /\ HeldInv' /\ SyncInv'
      /\ VouchInv' /\ FailInv'
  BY <1>1, <1>2, OffKeeps
<1>4. TypeInv'
  BY <1>1, <1>3 DEF TypeInv
<1>5. ResidueInv' /\ NothingLeft'
  BY <1>1 DEF ResidueInv, NothingLeft
<1> QED BY <1>3, <1>4, <1>5

\* A power failure may leave each file as it was synced: its size and what is
\* durable stay.
LEMMA PowerFailureKeeps ==
  ASSUME IInv, PowerFailure
  PROVE  IInv'
<1> USE DEF IInv
<1>1. /\ proc' = Off /\ cleanExit' = (cleanExit /\ proc.pc = "off")
      /\ UNCHANGED <<program, marker, starts, everCached, relapsed>>
  BY DEF PowerFailure
<1>2. PICK lost \in SUBSET DOMAIN disk :
        disk' = [k \in DOMAIN disk |->
                   LET d == IF k \in lost THEN disk[k].durable ELSE disk[k].data
                   IN  [data |-> d, durable |-> d]]
  BY DEF PowerFailure
<1>3. DOMAIN disk' = DOMAIN disk /\ disk' = [k \in DOMAIN disk' |-> disk'[k]]
  BY <1>2
<1>4. ASSUME NEW k \in DOMAIN disk
      PROVE  /\ disk'[k].data \in {disk[k].data, disk[k].durable} /\ disk'[k].durable = disk'[k].data
             /\ disk'[k] \in FileData /\ Len(disk'[k].data) = Len(disk[k].data)
  <2> DEFINE d == IF k \in lost THEN disk[k].durable ELSE disk[k].data
  <2>1. disk'[k] = [data |-> d, durable |-> d]
    BY <1>2
  <2>2. d \in {disk[k].data, disk[k].durable}
    OBVIOUS
  <2>3. disk[k] \in FileData /\ Len(disk[k].data) = Len(disk[k].durable)
    BY DEF TypeInv
  <2>4. d \in Seq(0..NumWeights) /\ Len(d) = Len(disk[k].data)
    BY <2>2, <2>3 DEF FileData
  <2> HIDE DEF d
  <2> QED BY <2>1, <2>2, <2>4 DEF FileData
<1>5. \A w \in Weights : Kept(w) => Kept(w)'
  BY <1>1, <1>3, <1>4 DEF Kept
<1>6. /\ proc' \in ProcType /\ PlaceInv' /\ StageInv' /\ HintInv' /\ HeldInv' /\ SyncInv'
      /\ VouchInv' /\ FailInv'
  BY <1>1, <1>5, OffKeeps
<1>7. TypeInv'
  <2>1. cleanExit' \in BOOLEAN
    BY <1>1
  <2>2. \A k \in DOMAIN disk' : disk'[k] \in FileData /\ Len(disk'[k].data) = Len(disk'[k].durable)
    BY <1>3, <1>4
  <2> QED BY <1>1, <1>3, <1>6, <2>1, <2>2 DEF TypeInv
<1>8. ResidueInv'
  BY <1>1, <1>3, <1>4 DEF ResidueInv
<1>9. NothingLeft'
  <2>1. ASSUME cleanExit', ~everCached' PROVE disk' = <<>>
    <3>1. disk = <<>>
      BY <1>1, <2>1 DEF NothingLeft
    <3>2. DOMAIN disk' = {}
      BY <1>3, <3>1
    <3> QED BY <1>3, <3>2
  <2> QED BY <2>1 DEF NothingLeft
<1> QED BY <1>6, <1>7, <1>8, <1>9

\* A process that ends removes the files it has mapped, unless it uses the cache
\* (~MmapAllocator): a program that never did has mapped all there are.
LEMMA ExitKeeps ==
  ASSUME IInv, Exit
  PROVE  IInv'
<1> USE DEF IInv
<1>1. /\ proc.pc \in {"run", "failed"} /\ disk' = [k \in Left(proc) |-> disk[k]]
      /\ proc' = Off /\ cleanExit' = TRUE /\ UNCHANGED <<program, marker, starts, everCached, relapsed>>
  BY DEF Exit
<1>2. Left(proc) \subseteq DOMAIN disk /\ (proc.cached => Left(proc) = DOMAIN disk)
      /\ (~proc.cached => Left(proc) = DOMAIN disk \ proc.mapped)
  BY DEF Left
<1>3. DOMAIN disk' \subseteq DOMAIN disk /\ disk' = [k \in DOMAIN disk' |-> disk'[k]]
      /\ \A k \in DOMAIN disk' : disk'[k] = disk[k]
  BY <1>1, <1>2
<1>4. proc.cached => disk' = disk
  <2>1. disk = [k \in DOMAIN disk |-> disk[k]]
    BY DEF TypeInv
  <2> QED BY <1>1, <1>2, <2>1
<1>5. ~relapsed /\ marker => proc.cached
  BY <1>1 DEF VouchInv
<1>6. \A w \in Weights : ~relapsed /\ marker /\ Kept(w) => Kept(w)'
  <2>1. ~relapsed /\ marker => disk' = disk
    BY <1>4, <1>5
  <2> QED BY <1>1, <2>1 DEF Kept
<1>7. /\ proc' \in ProcType /\ PlaceInv' /\ StageInv' /\ HintInv' /\ HeldInv' /\ SyncInv'
      /\ VouchInv' /\ FailInv'
  BY <1>1, <1>6, OffKeeps
<1>8. TypeInv'
  <2>1. cleanExit' \in BOOLEAN
    BY <1>1
  <2>2. DOMAIN disk' \subseteq Files
        /\ \A k \in DOMAIN disk' : disk'[k] \in FileData /\ Len(disk'[k].data) = Len(disk'[k].durable)
    BY <1>3 DEF TypeInv
  <2> QED BY <1>1, <1>3, <1>7, <2>1, <2>2 DEF TypeInv
<1>9. ASSUME ~everCached PROVE disk' = <<>>
  <2> DEFINE end == Layouts(program, TRUE)[NumWeights].files
  <2>1. Packs = TRUE /\ ~proc.cached
    BY <1>9, NeverTrusted
  <2>2. proc.mapped = 0..proc.times - 1 /\ proc.times \in Nat
    BY ProcFields DEF StageInv
  <2>3. ASSUME NEW k \in DOMAIN disk PROVE k \in Nat /\ k < Len(end) /\ 0..k \subseteq DOMAIN disk
    <3>1. k \in Nat
      BY WeightNumbers DEF TypeInv, Files
    <3> QED BY <1>9, <3>1 DEF ResidueInv
  <2>4. CASE proc.pc = "run"
    <3>1. Stage = Layouts(program, TRUE)[NumWeights]
      <4>1. (NumWeights + 1) - 1 = NumWeights /\ proc.next = NumWeights + 1
        BY <2>4, WeightNumbers DEF PlaceInv
      <4>2. Placed = FALSE
        BY <2>4 DEF Placed, ForTemp
      <4> QED BY <2>1, <4>1, <4>2 DEF Stage, StageOf
    <3>2. proc.times = Len(end)
      <4> HIDE DEF Stage
      <4>1. Len(Stage.files) \in Nat /\ ~Lost
        BY <2>4, StageState DEF Lost
      <4>2. proc.times = Len(Stage.files) + (IF Lost THEN 1 ELSE 0)
        BY DEF StageInv
      <4> QED BY <3>1, <4>1, <4>2
    <3> HIDE DEF end
    <3>3. DOMAIN disk \ proc.mapped = {}
      BY <2>2, <2>3, <3>2
    <3> QED BY <1>1, <1>2, <2>1, <3>3
  <2>5. CASE proc.pc = "failed"
    <3>1. proc.times \notin DOMAIN disk
      BY <1>9, <2>5 DEF FailInv, Lost
    <3> HIDE DEF end
    <3>2. DOMAIN disk \ proc.mapped = {}
      BY <2>2, <2>3, <3>1
    <3> QED BY <1>1, <1>2, <2>1, <3>2
  <2> QED BY <1>1, <2>4, <2>5
<1>10. ResidueInv' /\ NothingLeft'
  <2>1. ~everCached' => DOMAIN disk' = {} /\ disk' = <<>>
    BY <1>1, <1>9
  <2> QED BY <2>1 DEF ResidueInv, NothingLeft
<1> QED BY <1>7, <1>8, <1>10

\* Nothing is on the disk before the first start.
LEMMA InitIInv ==
  ASSUME Init
  PROVE  IInv
<1>1. /\ program \in Programs /\ disk = <<>> /\ marker = FALSE /\ proc = Off
      /\ starts = 0 /\ everCached = FALSE /\ relapsed = FALSE /\ cleanExit = TRUE
  BY DEF Init
<1>2. /\ proc.pc = "off" /\ proc.cached = FALSE /\ proc.hint = 0 /\ proc.times = 0 /\ proc.mapped = {}
      /\ proc.free = <<>> /\ proc.next = 1 /\ proc.want = "weight" /\ proc.place = <<>>
  BY <1>1 DEF Off
<1>3. proc \in ProcType
  BY <1>1, WeightNumbers DEF Off, ProcType, Pcs
<1>4. DOMAIN disk = {} /\ disk = [k \in DOMAIN disk |-> disk[k]]
  BY <1>1
<1>5. ~ForTemp /\ ~Placed /\ ~Lost
  BY <1>2 DEF ForTemp, Placed, Lost
<1>6. Stage.free = <<>> /\ Stage.files = <<>> /\ Stage.place = <<>>
  <2>1. Placed = FALSE
    BY <1>5
  <2>2. Stage = StageOf(program, Packs, 1, FALSE)
    BY <1>2, <2>1 DEF Stage
  <2> QED BY <2>2, NothingLaid
<1> HIDE DEF Stage
<1>7. TypeInv
  <2>1. 0 \in 0..MaxStarts
    BY WeightCacheAssumption
  <2> QED BY <1>1, <1>3, <1>4, <2>1 DEF TypeInv
<1>8. PlaceInv /\ HintInv /\ SyncInv /\ FailInv /\ NothingLeft
  BY <1>1, <1>2, <1>5 DEF PlaceInv, HintInv, SyncInv, FailInv, NothingLeft
<1>9. StageInv
  BY <1>2, <1>5, <1>6 DEF StageInv
<1>10. HeldInv
  BY <1>2 DEF HeldInv
<1>11. VouchInv /\ ResidueInv
  BY <1>1, <1>2, <1>4 DEF VouchInv, ResidueInv
<1> QED BY <1>7, <1>8, <1>9, <1>10, <1>11 DEF IInv

\* Every step keeps the invariant.
LEMMA NextIInv ==
  ASSUME IInv, [Next]_vars
  PROVE  IInv'
<1>1. CASE Next
  <2>1. ASSUME NEW cached \in BOOLEAN, Start(cached) PROVE IInv'
    BY <2>1, StartKeeps
  <2> QED BY <1>1, <2>1, CreateKeeps, ReuseKeeps, OpenFileKeeps, CreateFileKeeps, SetFileSizeKeeps, WriteKeeps,
             FirstResizeKeeps, CreateMarkerKeeps, ExitKeeps, KillKeeps, PowerFailureKeeps DEF Next
<1>2. CASE UNCHANGED vars
  <2>1. UNCHANGED <<program, disk, marker, proc, starts, everCached, relapsed, cleanExit>>
    BY <1>2 DEF vars
  <2>2. TypeInv' /\ PlaceInv' /\ HintInv' /\ SyncInv' /\ FailInv' /\ NothingLeft'
    BY <2>1 DEF IInv, TypeInv, PlaceInv, HintInv, SyncInv, FailInv, NothingLeft, ForTemp, Packs, Trusts, Lost,
                Request
  <2>3. Stage' = Stage /\ (Lost' <=> Lost) /\ Packs' = Packs
    BY <2>1 DEF Stage, Placed, ForTemp, Packs, Trusts, Lost
  <2>4. StageInv'
    <3> HIDE DEF Stage
    <3> QED BY <2>1, <2>3 DEF IInv, StageInv
  <2>5. HeldInv'
    BY <2>1, <2>3 DEF IInv, HeldInv, HeldAt
  <2>6. \A w \in Weights : Kept(w)' <=> Kept(w)
    BY <2>1 DEF Kept
  <2>7. VouchInv'
    BY <2>1, <2>6 DEF IInv, VouchInv
  <2>8. ResidueInv'
    BY <2>1 DEF IInv, ResidueInv
  <2> QED BY <2>2, <2>4, <2>5, <2>7, <2>8 DEF IInv
<1> QED BY <1>1, <1>2

LEMMA Invariance == Spec => []IInv
<1>1. Init => IInv
  BY InitIInv
<1>2. IInv /\ [Next]_vars => IInv'
  BY NextIInv
<1> QED BY <1>1, <1>2, PTL DEF Spec

-----------------------------------------------------------------------------
(* The properties.                                                          *)

\* The blocks of the static allocator are typed and have a rest, and no two
\* weights of a process overlap, in new files or in those of a start that was
\* interrupted (EagerBufferAllocator::onAlloc, MmapAllocator::onAlloc), for every
\* program, file size and sequence of starts and crashes.
THEOREM WeightsApart == Spec => []Apart
<1>1. ASSUME IInv PROVE Apart
  <2> USE <1>1 DEF IInv
  <2>1. Good(Stage, program) /\ proc.free = Stage.free /\ proc.place = Stage.place
    BY StageState DEF StageInv
  <2> HIDE DEF Stage
  <2>2. \A k \in DOMAIN proc.free : Rest(proc.free[k]) > 0
    <3> TAKE k \in DOMAIN proc.free
    <3>1. k \in 1..Len(proc.free) /\ proc.free[k] \in Block
      BY <2>1 DEF Good, TypedState
    <3>2. proc.free[k].used < proc.free[k].size
      BY <2>1, <3>1 DEF Good, BlocksFit
    <3>3. proc.free[k].used \in Nat /\ proc.free[k].size \in Nat
      BY <3>1 DEF Block
    <3> QED BY <3>2, <3>3 DEF Rest
  <2>3. TypeOK
    <3>1. \A k \in DOMAIN disk : disk[k].data \in Seq(0..NumWeights) /\ disk[k].durable \in Seq(0..NumWeights)
      BY DEF TypeInv, FileData
    <3>2. proc.mapped \subseteq DOMAIN disk
      BY DEF StageInv
    <3> QED BY <2>2, <3>1, <3>2, ProcFields DEF TypeOK, TypeInv, Pcs
  <2>4. ASSUME NEW v \in DOMAIN proc.place, NEW w \in DOMAIN proc.place, v # w,
               proc.place[v][1] = proc.place[w][1]
        PROVE  Units(proc.place[v][2], program[v].size) \cap Units(proc.place[w][2], program[w].size) = {}
    <3>1. v \in 1..Len(proc.place) /\ w \in 1..Len(proc.place)
      <4>1. proc.place \in Seq(Nat \X Nat)
        BY ProcFields
      <4> HIDE DEF IInv
      <4> QED BY <2>4, <4>1, LenProperties
    <3>2. /\ proc.place[v][2] \in Nat /\ proc.place[w][2] \in Nat
          /\ program[v].size \in Nat /\ program[w].size \in Nat
      BY <3>1, InFiles
    <3>3. \/ proc.place[v][2] + program[v].size <= proc.place[w][2]
          \/ proc.place[w][2] + program[w].size <= proc.place[v][2]
      BY <2>1, <2>4, <3>1 DEF Good, NoOverlap, End
    <3> HIDE DEF IInv
    <3> QED BY <3>2, <3>3 DEF Units
  <2> QED BY <2>3, <2>4 DEF Apart
<1> QED BY <1>1, Invariance, PTL

\* A program that runs has its own weights if it packed them; one that trusts those
\* in the files (CPURuntime::onCreate, the executions' !hint().useCachedMmap > 1)
\* has them if packing does not change where they are placed and no start without
\* the cache has found the marker, two conditions that the code does not ensure.
THEOREM WeightsAreOwn == Spec => []OwnWeights
<1>1. ASSUME IInv PROVE OwnWeights
  <2> USE <1>1 DEF IInv
  <2> SUFFICES ASSUME proc.pc = "run", Trusts(proc) => Stable(program) /\ ~relapsed, NEW w \in Weights
               PROVE  Holds(w)
    BY DEF OwnWeights, Loaded
  <2>1. Stage = Layouts(program, Packs)[NumWeights]
    <3>1. (NumWeights + 1) - 1 = NumWeights /\ proc.next = NumWeights + 1
      BY WeightNumbers DEF PlaceInv
    <3>2. Placed = FALSE
      BY DEF Placed, ForTemp
    <3> QED BY <3>1, <3>2 DEF Stage, StageOf
  <2>2. CASE Packs
    <3>1. Len(proc.place) = NumWeights
      <4>1. (NumWeights + 1) - 1 = NumWeights /\ proc.next = NumWeights + 1 /\ ~Placed
        BY WeightNumbers DEF PlaceInv, Placed, ForTemp
      <4> QED BY <4>1, StageState DEF StageInv
    <3>2. HeldAt(w)
      BY <2>2, <3>1 DEF HeldInv, Weights
    <3> QED BY <3>2 DEF HeldAt, Holds
  <2>3. CASE ~Packs
    <3>1. proc.hint > 1
      BY <2>3 DEF Packs, Trusts
    <3>2. marker
      BY <3>1 DEF HintInv, TypeInv
    <3>3. Stable(program) /\ Kept(w)
      BY <2>3, <3>2 DEF Packs, VouchInv
    <3>4. proc.place = Layout(program, TRUE)
      <4>1. Packs = FALSE
        BY <2>3 DEF Packs
      <4> QED BY <2>1, <3>3, <4>1 DEF StageInv, Layout, Stable
    <3> QED BY <3>3, <3>4 DEF Kept, Holds
  <2> QED BY <2>2, <2>3
<1> QED BY <1>1, Invariance, PTL

\* The marker is created after the files are synced (MmapAllocator::sync), and
\* nothing that happens later, a power failure included, takes a weight from
\* where it was packed, except a start without the cache that finds the marker:
\* that one may remove or overwrite the files and leaves the marker.
THEOREM MarkerIsTrue == Spec => []MarkerVouches
<1>1. ASSUME IInv PROVE MarkerVouches
  BY <1>1 DEF IInv, VouchInv, Kept, MarkerVouches
<1> QED BY <1>1, Invariance, PTL

\* The files of a program that does not use the cache are gone when it has ended
\* (~MmapAllocator), those that interrupted starts of it left included.
THEOREM NoFilesLeft == Spec => []NothingLeft
<1>1. IInv => NothingLeft
  BY DEF IInv
<1> QED BY <1>1, Invariance, PTL

-----------------------------------------------------------------------------
(* The background workers (WorkerThread.cpp).                               *)

\* How many tasks have left the queue.
Taken == posted - Len(tasks)

\* The queue holds the last tasks posted, in their order.
Fifo == \A i \in 1 .. Len(tasks) : tasks[i] = Taken + i

\* A worker has a task exactly while it is about to call it, a task that has
\* left the queue and that no other worker has.
JobsOwned == /\ \A w \in Workers : (pc[w] = "run" <=> job[w] # 0) /\ job[w] <= Taken
             /\ \A v, w \in Workers : job[v] = job[w] /\ job[v] # 0 => v = w

\* A task was called if and only if it left the queue and no worker has it.
Accounted == \A t \in Tasks : runs[t] = 1 <=> t <= Taken /\ \A w \in Workers : job[w] # t

\* After the join the workers are gone, after the destructor the queue as well.
Emptied == /\ owner \in {"drain", "gone"} => \A w \in Workers : pc[w] = "left"
           /\ owner = "gone" => tasks = <<>>

\* The inductive invariant.
WorkerIInv == WorkerTypeOK /\ Len(tasks) <= posted /\ Fifo /\ JobsOwned /\ Accounted /\ Emptied

\* The first task leaves a queue: what is left is in the same order.
LEMMA TailOfQueue ==
  ASSUME NEW S, NEW q \in Seq(S), q # <<>>
  PROVE  /\ Head(q) \in S /\ Head(q) = q[1] /\ Len(q) \in Nat \ {0}
         /\ Tail(q) \in Seq(S) /\ Len(Tail(q)) = Len(q) - 1
         /\ \A i \in 1 .. Len(q) - 1 : Tail(q)[i] = q[i + 1]
  OBVIOUS

\* The program counters.
LEMMA NotifyType == WorkerTypeOK => NotifyAll \in [Workers -> {"top", "wait", "asleep", "run", "left"}]
  BY DEF WorkerTypeOK, NotifyAll

\* The initial state.
LEMMA InitWorkerIInv == WorkerInit => WorkerIInv
<1> SUFFICES ASSUME WorkerInit PROVE WorkerIInv
  OBVIOUS
<1>1. Len(tasks) = 0 /\ posted = 0 /\ Taken = 0
  <2>1. posted = 0
    BY DEF WorkerInit
  <2>2. Len(tasks) = 0
    BY DEF WorkerInit
  <2> QED BY <2>1, <2>2 DEF Taken
<1>2. WorkerTypeOK
  <2>1. tasks \in Seq(1 .. posted) /\ posted \in 0 .. MaxPosts
    BY <1>1, WorkerAssumption DEF WorkerInit
  <2>2. runs \in [Tasks -> {0, 1}] /\ job \in [Workers -> Tasks \cup {0}]
    BY DEF WorkerInit
  <2> QED BY <2>1, <2>2 DEF WorkerInit, WorkerTypeOK
<1>3. JobsOwned /\ Emptied
  BY <1>1 DEF WorkerInit, JobsOwned, Emptied
<1>5. Fifo
  BY <1>1 DEF Fifo
<1>4. Accounted
  BY <1>1, WorkerAssumption DEF WorkerInit, Accounted, Tasks
<1> QED BY <1>1, <1>2, <1>3, <1>5, <1>4 DEF WorkerIInv

\* Every step keeps the invariant.
LEMMA StepWorkerIInv == WorkerIInv /\ [WorkerNext]_workerVars => WorkerIInv'
<1> SUFFICES ASSUME WorkerIInv, [WorkerNext]_workerVars PROVE WorkerIInv'
  OBVIOUS
<1> USE WorkerAssumption DEF WorkerIInv
<1>1. ASSUME NEW w \in Workers, Top(w) \/ Sleep(w) \/ Skip(w) \/ SpuriousWake(w) PROVE WorkerIInv'
  <2>1. /\ UNCHANGED <<tasks, stop, job, owner, posted, runs>>
        /\ \E from \in {"top", "wait", "asleep"}, to \in {"top", "wait", "asleep", "left"} : Go(w, from, to)
    BY <1>1 DEF Top, Sleep, Skip, SpuriousWake
  <2>2. WorkerTypeOK'
    BY <2>1 DEF WorkerTypeOK, Go, Tasks
  <2>3. JobsOwned'
    BY <2>1 DEF JobsOwned, Go, WorkerTypeOK, Taken
  <2>4. Emptied'
    BY <2>1 DEF Emptied, Go, WorkerTypeOK
  <2> QED BY <2>1, <2>2, <2>3, <2>4 DEF Fifo, Accounted, Taken, Tasks
<1>2. ASSUME NEW w \in Workers, Pop(w) PROVE WorkerIInv'
  <2>1. /\ tasks # <<>> /\ pc[w] = "wait" /\ tasks' = Tail(tasks)
        /\ pc' = [pc EXCEPT ![w] = "run"] /\ job' = [job EXCEPT ![w] = Head(tasks)]
        /\ UNCHANGED <<stop, owner, posted, runs>>
    BY <1>2 DEF Pop, Go
  <2>2. /\ Head(tasks) \in 1 .. posted /\ Head(tasks) = tasks[1] /\ Len(tasks) \in Nat \ {0}
        /\ tasks' \in Seq(1 .. posted) /\ Len(tasks') = Len(tasks) - 1
        /\ \A i \in 1 .. Len(tasks) - 1 : tasks'[i] = tasks[i + 1]
    BY <2>1, TailOfQueue DEF WorkerTypeOK
  <2>3. posted \in 0 .. MaxPosts /\ Taken \in 0 .. MaxPosts /\ Taken' = Taken + 1 /\ Head(tasks) = Taken + 1
    BY <2>1, <2>2 DEF WorkerTypeOK, Taken, Fifo
  <2>4. WorkerTypeOK'
    BY <2>1, <2>2 DEF WorkerTypeOK, Tasks
  <2>5. Len(tasks') <= posted'
    BY <2>1, <2>2 DEF WorkerTypeOK
  <2>9. Fifo'
    <3> SUFFICES ASSUME NEW i \in 1 .. Len(tasks') PROVE tasks'[i] = Taken' + i
      BY DEF Fifo
    <3>1. i \in 1 .. Len(tasks) - 1 /\ i + 1 \in 1 .. Len(tasks)
      BY <2>2
    <3> QED BY <3>1, <2>2, <2>3 DEF Fifo
  <2>6. JobsOwned'
    <3>1. /\ job'[w] = Taken + 1 /\ job'[w] # 0 /\ job \in [Workers -> Nat]
          /\ \A v \in Workers : job[v] <= Taken
      BY <2>1, <2>2, <2>3 DEF JobsOwned, WorkerTypeOK, Tasks
    <3>2. \A v \in Workers \ {w} : pc'[v] = pc[v] /\ job'[v] = job[v] /\ job'[v] # job'[w]
      BY <3>1, <2>1, <2>3
    <3>3. \A v \in Workers : (pc'[v] = "run" <=> job'[v] # 0) /\ job'[v] <= Taken'
      BY <3>1, <3>2, <2>1, <2>3 DEF JobsOwned, WorkerTypeOK
    <3>4. \A v, x \in Workers : job'[v] = job'[x] /\ job'[v] # 0 => v = x
      BY <3>2, <2>1 DEF JobsOwned
    <3> QED BY <3>3, <3>4 DEF JobsOwned
  <2>7. Accounted'
    <3> SUFFICES ASSUME NEW t \in Tasks
                 PROVE  runs[t] = 1 <=> t <= Taken + 1 /\ \A v \in Workers : job'[v] # t
      BY <2>1, <2>3 DEF Accounted, Tasks
    <3>1. job[w] = 0 /\ job'[w] = Taken + 1 /\ \A v \in Workers \ {w} : job'[v] = job[v] /\ job[v] <= Taken
      BY <2>1, <2>3 DEF JobsOwned, WorkerTypeOK
    <3>2. runs[t] = 1 <=> t <= Taken /\ \A v \in Workers : job[v] # t
      BY DEF Accounted
    <3>3. t \in Nat \ {0}
      BY DEF Tasks
    <3>4. CASE t = Taken + 1
      BY <3>1, <3>2, <3>3, <3>4, <2>3
    <3>5. CASE t # Taken + 1
      BY <3>1, <3>2, <3>3, <3>5, <2>3
    <3> QED BY <3>4, <3>5
  <2>8. Emptied'
    BY <2>1 DEF Emptied
  <2> QED BY <2>4, <2>5, <2>9, <2>6, <2>7, <2>8
<1>3. ASSUME NEW w \in Workers, RunTask(w) PROVE WorkerIInv'
  <2>1. /\ pc[w] = "run" /\ pc' = [pc EXCEPT ![w] = "top"] /\ job' = [job EXCEPT ![w] = 0]
        /\ runs' = [runs EXCEPT ![job[w]] = runs[job[w]] + 1]
        /\ UNCHANGED <<tasks, stop, owner, posted>>
    BY <1>3 DEF RunTask, Go
  <2>2. /\ job[w] \in Tasks /\ job[w] <= Taken
        /\ \A v \in Workers \ {w} : job[v] # job[w]
    BY <2>1 DEF JobsOwned, WorkerTypeOK
  <2>3. runs[job[w]] = 0
    BY <2>2 DEF Accounted, WorkerTypeOK
  <2>4. WorkerTypeOK'
    BY <2>1, <2>2, <2>3 DEF WorkerTypeOK, Tasks
  <2>5. Fifo'
    BY <2>1 DEF Fifo, Taken
  <2>6. JobsOwned'
    BY <2>1, <2>2 DEF JobsOwned, WorkerTypeOK, Taken
  <2>7. Accounted'
    BY <2>1, <2>2, <2>3 DEF Accounted, WorkerTypeOK, Taken, Tasks
  <2>8. Emptied'
    BY <2>1 DEF Emptied
  <2> QED BY <2>1, <2>4, <2>5, <2>6, <2>7, <2>8
<1>4. CASE PostTask
  <2>1. /\ owner = "open" /\ posted < MaxPosts /\ posted' = posted + 1
        /\ tasks' = Append(tasks, posted + 1) /\ owner' = "notifyPost"
        /\ UNCHANGED <<stop, pc, job, runs>>
    BY <1>4 DEF PostTask
  <2>2. posted' \in 1 .. MaxPosts /\ tasks \in Seq(1 .. posted')
    BY <2>1 DEF WorkerTypeOK
  <2>3. tasks' \in Seq(1 .. posted') /\ Len(tasks') = Len(tasks) + 1 /\ Len(tasks) \in Nat
    BY <2>1, <2>2 DEF WorkerTypeOK
  <2>4. WorkerTypeOK'
    BY <2>1, <2>2, <2>3 DEF WorkerTypeOK, Tasks
  <2>5. Taken' = Taken /\ Len(tasks') <= posted'
    BY <2>1, <2>3 DEF Taken, WorkerTypeOK
  <2>6. Fifo'
    <3> SUFFICES ASSUME NEW i \in 1 .. Len(tasks') PROVE tasks'[i] = Taken + i
      BY <2>5 DEF Fifo
    <3>1. CASE i \in 1 .. Len(tasks)
      BY <3>1, <2>1, <2>2 DEF Fifo
    <3>2. CASE i = Len(tasks) + 1
      BY <3>2, <2>1, <2>2 DEF Taken, WorkerTypeOK
    <3> QED BY <3>1, <3>2, <2>3
  <2> QED BY <2>1, <2>4, <2>5, <2>6 DEF JobsOwned, Accounted, Emptied, Tasks
<1>5. CASE NotifyPost \/ NotifyStop
  <2>1. /\ UNCHANGED <<tasks, stop, job, posted, runs>> /\ pc' = NotifyAll
        /\ owner' \in {"open", "joining"}
    BY <1>5 DEF NotifyPost, NotifyStop
  <2>2. WorkerTypeOK'
    BY <2>1, NotifyType DEF WorkerTypeOK, Tasks
  <2>3. JobsOwned'
    BY <2>1 DEF JobsOwned, NotifyAll, Taken
  <2> QED BY <2>1, <2>2, <2>3 DEF Fifo, Accounted, Emptied, Taken, Tasks
<1>6. CASE SetStop \/ Join
  <2>1. /\ UNCHANGED <<tasks, pc, job, posted, runs>> /\ stop' \in BOOLEAN
        /\ \/ owner' = "notifyStop"
           \/ owner' = "drain" /\ \A w \in Workers : pc[w] = "left"
    BY <1>6 DEF SetStop, Join, AfterJoin, WorkerTypeOK
  <2> QED BY <2>1 DEF WorkerTypeOK, Fifo, JobsOwned, Accounted, Emptied, Taken, Tasks
<1>7. CASE Drain
  <2>1. CASE tasks = <<>>
    BY <1>7, <2>1 DEF Drain, WorkerTypeOK, Fifo, JobsOwned, Accounted, Emptied, Taken, Tasks
  <2>2. CASE tasks # <<>>
    <3>1. /\ owner = "drain" /\ runs' = [runs EXCEPT ![Head(tasks)] = runs[Head(tasks)] + 1]
          /\ tasks' = Tail(tasks) /\ UNCHANGED <<owner, stop, pc, job, posted>>
      BY <1>7, <2>2 DEF Drain
    <3>2. /\ Head(tasks) \in 1 .. posted /\ Head(tasks) = tasks[1] /\ Len(tasks) \in Nat \ {0}
          /\ tasks' \in Seq(1 .. posted) /\ Len(tasks') = Len(tasks) - 1
          /\ \A i \in 1 .. Len(tasks) - 1 : tasks'[i] = tasks[i + 1]
      BY <3>1, <2>2, TailOfQueue DEF WorkerTypeOK
    <3>3. /\ posted \in 0 .. MaxPosts /\ Taken \in 0 .. MaxPosts
          /\ Taken' = Taken + 1 /\ Head(tasks) = Taken + 1
      BY <3>1, <3>2 DEF WorkerTypeOK, Taken, Fifo
    <3>4. \A w \in Workers : job[w] = 0
      BY <3>1 DEF Emptied, JobsOwned
    <3>5. Head(tasks) \in Tasks /\ runs[Head(tasks)] = 0
      BY <3>2, <3>3 DEF Accounted, WorkerTypeOK, Tasks
    <3>6. WorkerTypeOK'
      BY <3>1, <3>2, <3>5 DEF WorkerTypeOK, Tasks
    <3>7. Len(tasks') <= posted' /\ Fifo'
      BY <3>1, <3>2, <3>3 DEF Fifo
    <3>8. JobsOwned'
      BY <3>1, <3>3, <3>4 DEF JobsOwned
    <3>9. Accounted'
      BY <3>1, <3>3, <3>4, <3>5 DEF Accounted, WorkerTypeOK, Tasks
    <3> QED BY <3>1, <3>6, <3>7, <3>8, <3>9 DEF Emptied
  <2> QED BY <2>1, <2>2
<1>8. CASE Gone \/ UNCHANGED workerVars
  BY <1>8 DEF Gone, workerVars, WorkerTypeOK, Fifo, JobsOwned, Accounted, Emptied, Taken, Tasks
<1> QED BY <1>1, <1>2, <1>3, <1>4, <1>5, <1>6, <1>7, <1>8 DEF WorkerNext, Work, Own

\* When the destructor has returned, every task posted was called exactly once:
\* by a worker, by the worker that had it when mStop was set, or by the
\* destructor itself (WorkerThread.cpp:12-27, 30-46).
THEOREM EveryTaskOnce == WorkerSpec => []DoneWhenGone
<1>1. WorkerIInv => DoneWhenGone
  <2> SUFFICES ASSUME WorkerIInv, owner = "gone", NEW t \in 1 .. posted PROVE runs[t] = 1
    BY DEF WorkerIInv, DoneWhenGone
  <2>1. Taken = posted /\ t \in Tasks /\ \A w \in Workers : job[w] = 0
    BY WorkerAssumption DEF WorkerIInv, Emptied, Taken, WorkerTypeOK, Tasks, JobsOwned
  <2> QED BY <2>1 DEF WorkerIInv, Accounted, WorkerTypeOK
<1> QED BY <1>1, InitWorkerIInv, StepWorkerIInv, PTL DEF WorkerSpec
=============================================================================
