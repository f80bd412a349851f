-------------------------- MODULE ResizeCacheProofs --------------------------
(* Proofs about the resize cache, for any network of any length, any shapes *)
(* and contents, and any calls.                                             *)
EXTENDS MCResizeCache, FiniteSetTheorems, SequenceTheorems, TLAPS

Fields == {"shape", "content", "mem", "group", "fresh", "kept", "need", "dirty",
           "built", "exe", "cmdGroup", "cache", "release", "code"}
Codes  == {"NO_ERROR", "COMPUTE_SIZE_ERROR", "OUT_OF_MEMORY"}

CacheOK(c) == /\ DOMAIN c = {"can", "computed", "pass", "info"}
              /\ c.can \in BOOLEAN /\ c.computed \in BOOLEAN /\ c.pass \in BOOLEAN

\* A pipeline.  What commands were built from is nested as deep as the network,
\* so that no set of records holds all pipelines.
IsState(q) ==
    /\ DOMAIN q = Fields
    /\ q.shape \in [Tensors -> Sizes] /\ q.content \in [Tensors -> Sizes]
    /\ q.mem \in [Tensors -> Sizes \cup {0}] /\ q.group \in [Tensors -> {0, 1}]
    /\ q.fresh \in [Tensors -> BOOLEAN] /\ q.kept \in [Tensors -> BOOLEAN]
    /\ q.need \in [Ops -> BOOLEAN] /\ q.dirty \in [Ops -> BOOLEAN]
    /\ q.exe \in [Ops -> BOOLEAN] /\ q.cmdGroup \in [Ops -> {0, 1}]
    /\ DOMAIN q.built = Ops /\ DOMAIN q.cache = Ops
    /\ \A i \in Ops : CacheOK(q.cache[i])
    /\ q.release \in BOOLEAN /\ q.code \in Codes

Open(q, i) == q.cache[i].can /\ q.cache[i].computed

\* The content of an operator's output.
ContentOf(q, i) == CASE Op(i).kind = "shapeOf" -> q.shape[Op(i).in[1]]
                     [] Op(i).kind = "copy" -> q.content[Op(i).in[1]]
                     [] OTHER -> 1

\* The inputs of q are a, and the tensors that nothing writes are as they were.
Given(q, a) ==
    /\ q.shape[X] = a[X] /\ q.shape[Y] = a[Y] /\ q.shape[C] = 1
    /\ q.content[X] = 1 /\ q.content[Y] = 1 /\ q.content[C] = a[C]

\* The output of operator i is right, if its inputs are, and so are its commands.
Valued(q, i) == /\ q.shape[Out(i)] = OutputSize(q, i) /\ ~ShapeFails(q, i)
                /\ q.content[Out(i)] = ContentOf(q, i)
Solved(q, i) == Valued(q, i) /\ (~IsConst(i) => q.built[i] = Basis(q, i))

Solves(q, a) == Given(q, a) /\ \A i \in Ops : Solved(q, i)

\* The pipeline that the inputs a determine.
Tr(a) == Resize(SetInputs(EmptyPipeline, a), FALSE, <<"none", 0>>)

\* The copy i reads the output of the operator j, the other ones the input C.
Copies(i, j) == Op(i).kind = "copy" /\ Op(i).in[1] = Out(j)

\* What a cache says of its operator.
SizeFrom(i, info) == CASE Op(i).kind \in {"same", "match"} -> info[1][1]
                       [] Op(i).kind = "interp" -> info[2][2]
                       [] OTHER -> 1
BasisFrom(q, i, info) ==
    <<SizeFrom(i, info),
      [k \in DOMAIN Op(i).in |->
          LET t == Op(i).in[k] IN <<info[k][1], IF IsVirtual(t) THEN q.built[t - 3] ELSE None>>]>>

\* What holds whatever has failed.
Sound(q) ==
    /\ IsState(q)
    /\ q.shape[C] = 1 /\ q.content[X] = 1 /\ q.content[Y] = 1
    /\ \A i \in Ops : /\ ~IsConst(i) => q.content[Out(i)] = 1
                      /\ ~Commands(i) => q.mem[Out(i)] = 0
                      /\ Op(i).kind = "shapeOf" => q.built[i] = None

\* An open cache knows its operator.
Known(q, i) ==
    LET info == q.cache[i].info
    IN  /\ info # None
        /\ q.shape[Out(i)] = SizeFrom(i, info)
        /\ Op(i).kind = "match" => info[1][1] = info[2][1]
        /\ Op(i).kind = "shapeOf" => q.content[Out(i)] = info[1][1]
        /\ Op(i).kind # "shapeOf" => q.built[i] = BasisFrom(q, i, info)
        /\ Op(i).kind \notin {"shapeOf", "crop"} => q.exe[i]
        /\ \A j \in Ops : Copies(i, j) /\ q.cache[j].can =>
              q.cache[j].computed /\ q.content[Out(i)] = q.content[Out(j)]

Ungrouped(q) == /\ \A t \in Tensors : q.group[t] = 0
                /\ \A i \in Ops : q.cmdGroup[i] = 0

PlainOK(q) == /\ Ungrouped(q)
              /\ \A i \in Ops : ~q.cache[i].can /\ ~q.cache[i].pass /\ ~q.cache[i].computed

Informed(q) == \A i \in Ops : /\ ~q.cache[i].can => ~q.cache[i].pass
                              /\ Open(q, i) => Known(q, i)

CheckOK(q) == Ungrouped(q) /\ ~q.release /\ Informed(q)

\* What an open cache knows is the same for all inputs that were shown.
ShownOK(q, S) ==
    \A i \in Ops : q.cache[i].can =>
        /\ q.cache[i].computed
        /\ \A a \in S : /\ q.cache[i].info = Snapshot(Tr(a), i)
                        /\ ~IsConst(i) => q.built[i] = Tr(a).built[i]

\* What the last resize leaves for the fix.
Settled(q) ==
    \A i \in Ops : IF q.cache[i].can
                   THEN /\ q.cache[i].info = Snapshot(q, i)
                        /\ Op(i).kind = "copy" /\ ~q.dirty[i] =>
                              \E j \in Ops : Copies(i, j) /\ q.cache[j].can
                   ELSE q.need[i]

\* What passes is the same for all inputs that were shown, but for the content
\* of a copy that is run again.
Passes(q, i, S) ==
    /\ \A a \in S : /\ q.shape[Out(i)] = Tr(a).shape[Out(i)]
                    /\ Op(i).kind = "shapeOf" => q.content[Out(i)] = Tr(a).content[Out(i)]
                    /\ ~IsConst(i) => q.built[i] = Tr(a).built[i]
    /\ Commands(i) => q.exe[i]
    /\ ~IsConst(i) => q.cmdGroup[i] = 1 /\ q.group[Out(i)] = 1
    /\ Op(i).kind = "copy" /\ q.built[i] = None =>
          /\ \E j \in Ops : Copies(i, j) /\ q.cache[j].pass
          /\ \A a \in S : q.content[Out(i)] = Tr(a).content[Out(i)]
    /\ \A j \in Ops : Copies(i, j) /\ q.cache[j].pass =>
          \A a \in S : q.content[Out(i)] = Tr(a).content[Out(i)]

\* The output of the network may have lost its memory.
Bare(q, i) == i = NumOps /\ q.mem[Out(i)] = 0

FixedOK(q, S) ==
    /\ ~q.release
    /\ q.group[Out(NumOps)] = 1 => q.cache[NumOps].pass
    /\ \A i \in Ops : /\ ~q.cache[i].can
                      /\ q.cache[i].pass => Passes(q, i, S)
                      /\ q.cmdGroup[i] = 1 => ~IsConst(i) /\ (q.cache[i].pass \/ Bare(q, i))
                      /\ Commands(i) /\ q.group[Out(i)] = 1 =>
                            Bare(q, i) \/ \A a \in S : q.mem[Out(i)] = Tr(a).shape[Out(i)]

\* The last resize succeeded.
Done(q, late) ==
    \A i \in Ops : Commands(i) =>
        /\ q.exe[i]
        /\ q.mem[Out(i)] = q.shape[Out(i)] \/ Bare(q, i) \/ (late /\ q.cmdGroup[i] = 0)

TypeInv == /\ Sound(p) /\ net \in Nets /\ lost \in BOOLEAN
           /\ needResize \in BOOLEAN /\ pending \in BOOLEAN /\ spoiled \in BOOLEAN
           /\ phase \in {"plain", "check", "fixed"}
           /\ shown \subseteq Assignments

Sane == /\ phase = "plain" => PlainOK(p) /\ shown = {} /\ ~pending
        /\ phase = "check" => /\ CheckOK(p) /\ ~pending
                              /\ shown # {} => ShownOK(p, shown) /\ (Ran => Settled(p))
        /\ phase = "fixed" => FixedOK(p, shown)
        /\ \A a \in shown : Solves(Tr(a), a)
        /\ Ran => Solves(p, Present) /\ Done(p, pending)

\* The output has no memory only where it was lost, or the next resize plans it.
Unplanned(q, ran) == ~ran /\ q.group[Out(NumOps)] = 0
Accounted == p.mem[Out(NumOps)] = 0 => lost \/ Unplanned(p, Ran)

IInv == TypeInv /\ Accounted /\ (~spoiled => Sane)

-----------------------------------------------------------------------------
(* Recursive definitions, by the smallest counterexample.                   *)

\* A set of natural numbers has a smallest one.
LEMMA LeastNat ==
  ASSUME NEW T \in SUBSET Nat, T # {}
  PROVE  \E x \in T : \A y \in T : x <= y
<1>1. PICK m \in T : TRUE
  OBVIOUS
<1> DEFINE B == {0..n : n \in {x \in T : x <= m}}
<1>2. B \subseteq FiniteSubsetsOf(Nat) /\ B # {}
  <2>1. \A n \in Nat : 0..n \in FiniteSubsetsOf(Nat)
    BY FS_Interval DEF FiniteSubsetsOf
  <2>2. 0..m \in B
    BY <1>1
  <2> QED BY <2>1, <2>2
<1>3. PICK b \in B : \A c \in B : ~(<<c, b>> \in StrictSubsetOrdering(Nat))
  <2> HIDE DEF B
  <2> QED BY <1>2, FS_StrictSubsetOrderingWellFounded, WFMin
<1>4. PICK x \in T : x <= m /\ b = 0..x
  BY <1>3
<1>5. ASSUME NEW y \in T, y < x PROVE FALSE
  <2>1. 0..y \in B
    BY <1>4, <1>5
  <2>2. <<0..y, b>> \in StrictSubsetOrdering(Nat)
    BY <1>4, <1>5 DEF StrictSubsetOrdering
  <2> QED BY <1>3, <2>1, <2>2
<1> QED BY <1>4, <1>5

\* A set that holds 0 and with a number the next one holds all up to N.
LEMMA UpTo ==
  ASSUME NEW N \in Nat, NEW S, 0 \in S, \A i \in 1..N : i - 1 \in S => i \in S
  PROVE  0..N \subseteq S
<1> DEFINE T == (0..N) \ S
<1>1. ASSUME T # {} PROVE FALSE
  <2>1. PICK x \in T : \A y \in T : x <= y
    <3>1. T \in SUBSET Nat
      OBVIOUS
    <3> HIDE DEF T
    <3> QED BY <1>1, <3>1, LeastNat
  <2>2. x \in 1..N /\ x - 1 \in 0..N /\ x - 1 \notin T
    BY <2>1
  <2> QED BY <2>1, <2>2
<1> QED BY <1>1

\* What a loop over the operators does for operator i, and the values before
\* and after each.
Step(k, q, i, held, fail) ==
    IF k = "shape" THEN ShapeStep(q, i, held, fail)
    ELSE IF k = "geometry" THEN GeometryStep(q, i)
    ELSE UNION {{Append(n, c) : c \in Choices(n, i)} : n \in q}
Course(f, k, q, m, held, fail) ==
    [i \in 0..m |-> IF i = 0 THEN q ELSE Step(k, f[i - 1], i, held, fail)]
HasCourse(k, q, m, held, fail) == \E f : f = Course(f, k, q, m, held, fail)

LEMMA CourseExists ==
  ASSUME NEW k, NEW q, NEW n \in Nat, NEW held, NEW fail
  PROVE  HasCourse(k, q, n, held, fail)
<1> DEFINE F(f, m) == Course(f, k, q, m, held, fail)
           D(r, i) == Step(k, r, i, held, fail)
           T == {m \in Nat : ~\E f : f = F(f, m)}
<1> SUFFICES ASSUME T # {} PROVE FALSE
  BY DEF HasCourse
<1>0. ASSUME NEW f, NEW m PROVE F(f, m) = [i \in 0..m |-> IF i = 0 THEN q ELSE D(f[i - 1], i)]
  BY DEF Course
<1>1. PICK m \in T : \A y \in T : m <= y
  <2>1. T \in SUBSET Nat
    OBVIOUS
  <2> HIDE DEF T
  <2> QED BY <2>1, LeastNat
<1>2. m \in Nat /\ ~\E f : f = F(f, m)
  BY <1>1
<1> HIDE DEF F, D
<1>3. CASE m = 0
  <2> DEFINE f == [i \in 0..m |-> q]
  <2>1. \A i \in 0..m : i = 0
    BY <1>3
  <2>2. f = [i \in 0..m |-> IF i = 0 THEN q ELSE D(f[i - 1], i)]
    BY <2>1
  <2>3. f = F(f, m)
    <3> HIDE DEF f
    <3> QED BY <1>0, <2>2
  <2> QED BY <1>2, <2>3
<1>4. CASE m # 0
  <2>1. m - 1 \in Nat /\ ~(m <= m - 1)
    BY <1>2, <1>4
  <2>2. PICK f : f = F(f, m - 1)
    BY <1>1, <2>1
  <2>3. f = [i \in 0..m - 1 |-> IF i = 0 THEN q ELSE D(f[i - 1], i)]
    BY <1>0, <2>2
  <2> DEFINE h == [i \in 0..m |-> IF i < m THEN f[i] ELSE D(f[m - 1], m)]
  <2>4. ASSUME NEW i \in 0..m PROVE h[i] = IF i = 0 THEN q ELSE D(h[i - 1], i)
    <3>1. CASE i = m
      <4>1. h[i] = D(f[m - 1], m)
        BY <1>2, <3>1
      <4>2. h[i - 1] = f[m - 1]
        BY <1>2, <1>4, <3>1
      <4> QED BY <1>4, <3>1, <4>1, <4>2
    <3>2. CASE i < m
      <4>1. i \in 0..m - 1
        BY <1>2, <3>2
      <4>2. f[i] = IF i = 0 THEN q ELSE D(f[i - 1], i)
        BY <2>3, <4>1
      <4>3. h[i] = f[i]
        BY <3>2
      <4>4. i # 0 => h[i - 1] = f[i - 1]
        BY <1>2, <3>2
      <4> QED BY <4>2, <4>3, <4>4
    <3> QED BY <1>2, <3>1, <3>2
  <2>5. h = [i \in 0..m |-> IF i = 0 THEN q ELSE D(h[i - 1], i)]
    <3>1. h = [i \in 0..m |-> h[i]]
      OBVIOUS
    <3> HIDE DEF h
    <3> QED BY <2>4, <3>1
  <2>6. h = F(h, m)
    <3> HIDE DEF h
    <3> QED BY <1>0, <2>5
  <2> QED BY <1>2, <2>6
<1> QED BY <1>3, <1>4

\* The operators are numbered from 1.
LEMMA Numbers ==
  /\ NumOps \in Nat /\ NumOps >= 1 /\ NumOps \in Ops /\ Ops \subseteq Nat
  /\ \A i \in Ops : i \in 0..NumOps /\ i # 0 /\ i - 1 \in 0..NumOps /\ i \in Int /\ 1 <= i /\ i <= NumOps
  BY ResizeAssumption DEF Ops

\* Encoding is a loop over the operators, and another one.
LEMMA EncodeRuns ==
  ASSUME NEW q, NEW held, NEW fail
  PROVE  \E f, g : /\ f[0] = q /\ \A i \in Ops : f[i] = ShapeStep(f[i - 1], i, held, fail)
                   /\ g[0] = f[NumOps] /\ \A i \in Ops : g[i] = GeometryStep(g[i - 1], i)
                   /\ Encode(q, held, fail) = g[NumOps]
<1> DEFINE P(r, i) == ShapeStep(r, i, held, fail)
           f == CHOOSE h : h = [i \in 0..NumOps |-> IF i = 0 THEN q ELSE P(h[i - 1], i)]
           s == f[NumOps]
           g == CHOOSE h : h = [i \in 0..NumOps |-> IF i = 0 THEN s ELSE GeometryStep(h[i - 1], i)]
<1>1. Encode(q, held, fail) = g[NumOps]
  BY DEF Encode
<1>2. ASSUME NEW r, NEW i PROVE Step("shape", r, i, held, fail) = P(r, i) /\ Step("geometry", r, i, held, fail) = GeometryStep(r, i)
  BY DEF Step
<1> HIDE DEF P
<1>3. f[0] = q /\ \A i \in Ops : f[i] = P(f[i - 1], i)
  <2>0. HasCourse("shape", q, NumOps, held, fail)
    BY Numbers, CourseExists
  <2>1. PICK h : h = Course(h, "shape", q, NumOps, held, fail)
    BY <2>0 DEF HasCourse
  <2>2. h = [i \in 0..NumOps |-> IF i = 0 THEN q ELSE P(h[i - 1], i)]
    BY <1>2, <2>1 DEF Course
  <2>3. f = [i \in 0..NumOps |-> IF i = 0 THEN q ELSE P(f[i - 1], i)]
    BY <2>2
  <2> HIDE DEF f
  <2> QED BY <2>3, Numbers
<1> HIDE DEF f
<1>4. g[0] = s /\ \A i \in Ops : g[i] = GeometryStep(g[i - 1], i)
  <2> HIDE DEF s
  <2>0. HasCourse("geometry", s, NumOps, held, fail)
    BY Numbers, CourseExists
  <2>1. PICK h : h = Course(h, "geometry", s, NumOps, held, fail)
    BY <2>0 DEF HasCourse
  <2>2. h = [i \in 0..NumOps |-> IF i = 0 THEN s ELSE GeometryStep(h[i - 1], i)]
    BY <1>2, <2>1 DEF Course
  <2>3. g = [i \in 0..NumOps |-> IF i = 0 THEN s ELSE GeometryStep(g[i - 1], i)]
    BY <2>2
  <2> HIDE DEF g
  <2> QED BY <2>3, Numbers
<1> HIDE DEF g
<1> QED BY <1>1, <1>3, <1>4 DEF P, s

-----------------------------------------------------------------------------
(* The networks.                                                            *)

\* Where operator i of a network of this specification gets its operands.
Wired(i) ==
    /\ Op(i).kind \in Kinds
    /\ DOMAIN Op(i).in = IF Op(i).kind \in {"match", "interp"} THEN {1, 2} ELSE {1}
    /\ \A k \in DOMAIN Op(i).in :
          LET t == Op(i).in[k]
          IN  /\ t \in Inputs \/ \E j \in Ops : j < i /\ t = Out(j)
              /\ IF Op(i).kind = "copy" \/ (Op(i).kind = "interp" /\ k = 2)
                 THEN t = C \/ \E j \in Ops : j < i /\ t = Out(j) /\ IsConst(j)
                 ELSE t \in {X, Y} \/ \E j \in Ops : j < i /\ t = Out(j) /\ ~IsConst(j)

NetOK == /\ net \in Nets
         /\ \A i \in Ops : Wired(i)
         /\ \A i, j \in Ops : Op(i).kind = Op(j).kind /\ i # j => Op(i).kind = "crop"
         /\ Commands(NumOps)

\* An operator chooses its operands by the kinds of those before it.
LEMMA ChoicesLocal ==
  ASSUME NEW n, NEW m, NEW i \in Nat \ {0}, \A j \in 1..i - 1 : m[j] = n[j]
  PROVE  Choices(m, i) = Choices(n, i)
<1>1. \A t \in 1..2 + i : t \notin Inputs => t - 3 \in 1..i - 1
  BY DEF Inputs, X, Y, C
<1>2. Operands(m, i, TRUE) = Operands(n, i, TRUE) /\ Operands(m, i, FALSE) = Operands(n, i, FALSE)
  BY <1>1 DEF Operands
<1> DEFINE G(data, size) ==
        {[kind |-> k, in |-> <<t>>] : k \in {"same", "crop", "shapeOf"}, t \in data \ {Y}}
        \cup {[kind |-> "copy", in |-> <<t>>] : t \in size}
        \cup {[kind |-> "match", in |-> <<t, u>>] : t \in data \ {Y}, u \in data \ {X}}
        \cup {[kind |-> "interp", in |-> <<t, u>>] : t \in data \ {Y}, u \in size}
<1>3. \A k : Choices(k, i) = G(Operands(k, i, FALSE), Operands(k, i, TRUE))
  BY DEF Choices
<1> HIDE DEF G
<1> QED BY <1>2, <1>3

\* What the recursive definition of the networks says of each operator.
LEMMA ChosenFrom ==
  ASSUME NEW n \in Nets
  PROVE  WellUsed(n) /\ \A i \in Ops : n[i] \in Choices(n, i)
<1> DEFINE G(s, i) == UNION {{Append(m, c) : c \in Choices(m, i)} : m \in s}
           one == {<<>>}
           f == CHOOSE h : h = [i \in 0..NumOps |-> IF i = 0 THEN one ELSE G(h[i - 1], i)]
           Chosen(m, i) == /\ (\E T : m \in Seq(T)) /\ Len(m) = i
                           /\ \A j \in 1..i : m[j] \in Choices(m, j)
<1>1. n \in f[NumOps] /\ WellUsed(n)
  BY DEF Nets
<1>2. ASSUME NEW s, NEW i PROVE Step("networks", s, i, FALSE, 0) = G(s, i)
  BY DEF Step
<1>3. ASSUME NEW s, NEW i, NEW m \in G(s, i) PROVE \E k \in s : \E c \in Choices(k, i) : m = Append(k, c)
  OBVIOUS
<1> HIDE DEF G
<1>4. f[0] = one /\ \A i \in Ops : f[i] = G(f[i - 1], i)
  <2> HIDE DEF one
  <2>0. HasCourse("networks", one, NumOps, FALSE, 0)
    BY Numbers, CourseExists
  <2>1. PICK h : h = Course(h, "networks", one, NumOps, FALSE, 0)
    BY <2>0 DEF HasCourse
  <2>2. h = [i \in 0..NumOps |-> IF i = 0 THEN one ELSE G(h[i - 1], i)]
    BY <1>2, <2>1 DEF Course
  <2>3. f = [i \in 0..NumOps |-> IF i = 0 THEN one ELSE G(f[i - 1], i)]
    BY <2>2
  <2> HIDE DEF f
  <2> QED BY <2>3, Numbers
<1> HIDE DEF f
<1> DEFINE S == {i \in 0..NumOps : \A m \in f[i] : Chosen(m, i)}
<1>5. 0..NumOps \subseteq S
  <2>1. 0 \in S
    <3>1. Chosen(<<>>, 0)
      <4>1. <<>> \in Seq({})
        OBVIOUS
      <4> QED BY <4>1
    <3>2. \A m \in f[0] : m = <<>>
      BY <1>4
    <3> HIDE DEF f, Chosen
    <3>3. \A m \in f[0] : Chosen(m, 0)
      BY <3>1, <3>2
    <3> QED BY <3>3, Numbers
  <2>2. ASSUME NEW i \in 1..NumOps, i - 1 \in S PROVE i \in S
    <3> SUFFICES ASSUME NEW m \in f[i] PROVE Chosen(m, i)
      BY Numbers DEF Ops
    <3>1. i \in Ops /\ i \in Nat \ {0} /\ i - 1 \in Nat
      BY DEF Ops
    <3>2. PICK k \in f[i - 1] : \E c \in Choices(k, i) : m = Append(k, c)
      BY <1>3, <1>4, <3>1
    <3>3. PICK c \in Choices(k, i) : m = Append(k, c)
      BY <3>2
    <3>4. Chosen(k, i - 1)
      BY <2>2
    <3>5. /\ Len(m) = i /\ m[i] = c /\ \A j \in 1..i - 1 : m[j] = k[j]
          /\ \E T : m \in Seq(T)
      <4>1. PICK T : k \in Seq(T)
        BY <3>4
      <4>2. k \in Seq(T \cup {c}) /\ c \in T \cup {c}
        BY <4>1
      <4>3. /\ m \in Seq(T \cup {c}) /\ Len(m) = Len(k) + 1 /\ m[Len(k) + 1] = c
            /\ \A j \in 1..Len(k) : m[j] = k[j]
        BY <3>3, <4>2, AppendProperties
      <4>4. Len(k) = i - 1 /\ Len(k) + 1 = i
        BY <3>1, <3>4
      <4> QED BY <4>3, <4>4
    <3>7. ASSUME NEW j \in 1..i PROVE m[j] \in Choices(m, j)
      <4>1. j \in Nat \ {0} /\ \A l \in 1..j - 1 : m[l] = k[l]
        BY <3>1, <3>5
      <4>2. Choices(m, j) = Choices(k, j)
        BY <4>1, ChoicesLocal
      <4>3. j # i => j \in 1..i - 1
        BY <3>1
      <4> QED BY <3>4, <3>5, <4>2, <4>3
    <3> HIDE DEF S
    <3> QED BY <3>5, <3>7
  <2> HIDE DEF S
  <2> QED BY <2>1, <2>2, Numbers, UpTo
<1>6. Chosen(n, NumOps)
  BY <1>1, <1>5, Numbers
<1> QED BY <1>1, <1>6 DEF Ops

LEMMA NetShape ==
  ASSUME net \in Nets
  PROVE  NetOK
<1>1. WellUsed(net) /\ \A i \in Ops : net[i] \in Choices(net, i)
  BY ChosenFrom
<1>2. ASSUME NEW i \in Ops PROVE Wired(i)
  <2> DEFINE size == Operands(net, i, TRUE)
             data == Operands(net, i, FALSE)
  <2>1. ASSUME NEW t \in 1..2 + i PROVE t \in Inputs \/ (t - 3 \in Ops /\ t - 3 < i /\ t = Out(t - 3))
    BY Numbers DEF Ops, Out, Inputs, X, Y, C
  <2>2. ASSUME NEW t \in size PROVE t = C \/ \E j \in Ops : j < i /\ t = Out(j) /\ IsConst(j)
    BY <2>1 DEF Operands, IsConst, Op
  <2>3. ASSUME NEW t \in data PROVE t \in {X, Y} \/ \E j \in Ops : j < i /\ t = Out(j) /\ ~IsConst(j)
    BY <2>1 DEF Operands, IsConst, Op, Inputs
  <2>4. \/ \E k \in {"same", "crop", "shapeOf"}, t \in data : net[i] = [kind |-> k, in |-> <<t>>]
        \/ \E t \in size : net[i] = [kind |-> "copy", in |-> <<t>>]
        \/ \E t, u \in data : net[i] = [kind |-> "match", in |-> <<t, u>>]
        \/ \E t \in data, u \in size : net[i] = [kind |-> "interp", in |-> <<t, u>>]
    <3>1. net[i] \in Choices(net, i)
      BY <1>1
    <3>2. Choices(net, i) = {[kind |-> k, in |-> <<t>>] : k \in {"same", "crop", "shapeOf"}, t \in data \ {Y}}
                            \cup {[kind |-> "copy", in |-> <<t>>] : t \in size}
                            \cup {[kind |-> "match", in |-> <<t, u>>] : t \in data \ {Y}, u \in data \ {X}}
                            \cup {[kind |-> "interp", in |-> <<t, u>>] : t \in data \ {Y}, u \in size}
      BY DEF Choices
    <3> DEFINE c  == net[i]
               s1 == {[kind |-> k, in |-> <<t>>] : k \in {"same", "crop", "shapeOf"}, t \in data \ {Y}}
               s2 == {[kind |-> "copy", in |-> <<t>>] : t \in size}
               s3 == {[kind |-> "match", in |-> <<t, u>>] : t \in data \ {Y}, u \in data \ {X}}
               s4 == {[kind |-> "interp", in |-> <<t, u>>] : t \in data \ {Y}, u \in size}
    <3> HIDE DEF size, data, c
    <3>3. c \in s1 \cup s2 \cup s3 \cup s4
      BY <3>1, <3>2 DEF c
    <3> HIDE DEF s1, s2, s3, s4
    <3>4. c \in s1 \/ c \in s2 \/ c \in s3 \/ c \in s4
      BY <3>3
    <3>5. c \in s1 => \E k \in {"same", "crop", "shapeOf"}, t \in data : c = [kind |-> k, in |-> <<t>>]
      BY DEF s1
    <3>6. c \in s2 => \E t \in size : c = [kind |-> "copy", in |-> <<t>>]
      BY DEF s2
    <3>7. c \in s3 => \E t, u \in data : c = [kind |-> "match", in |-> <<t, u>>]
      BY DEF s3
    <3>8. c \in s4 => \E t \in data, u \in size : c = [kind |-> "interp", in |-> <<t, u>>]
      BY DEF s4
    <3> QED BY <3>4, <3>5, <3>6, <3>7, <3>8 DEF c
  <2> HIDE DEF size, data
  <2>5. CASE \E k \in {"same", "crop", "shapeOf"}, t \in data : net[i] = [kind |-> k, in |-> <<t>>]
    BY <2>3, <2>5 DEF Wired, Kinds, Op, Inputs
  <2>6. CASE \E t \in size : net[i] = [kind |-> "copy", in |-> <<t>>]
    BY <2>2, <2>6 DEF Wired, Kinds, Op, Inputs
  <2>7. CASE \E t, u \in data : net[i] = [kind |-> "match", in |-> <<t, u>>]
    BY <2>3, <2>7 DEF Wired, Kinds, Op, Inputs
  <2>8. CASE \E t \in data, u \in size : net[i] = [kind |-> "interp", in |-> <<t, u>>]
    BY <2>2, <2>3, <2>8 DEF Wired, Kinds, Op, Inputs
  <2> QED BY <2>4, <2>5, <2>6, <2>7, <2>8
<1>3. \A i, j \in Ops : Op(i).kind = Op(j).kind /\ i # j => Op(i).kind = "crop"
  <2> SUFFICES ASSUME NEW i \in Ops, NEW j \in Ops, Op(i).kind = Op(j).kind, i # j PROVE Op(i).kind = "crop"
    OBVIOUS
  <2>1. i < j \/ j < i
    BY Numbers
  <2> QED BY <1>1, <2>1 DEF WellUsed, Op
<1>4. Commands(NumOps)
  BY <1>1 DEF WellUsed, Commands, Op
<1> QED BY <1>2, <1>3, <1>4 DEF NetOK

-----------------------------------------------------------------------------
(* What one operator changes.                                               *)

TFields == {"shape", "content", "mem", "group", "fresh", "kept"}
OFields == {"need", "dirty", "built", "exe", "cache"}

\* Between q and r only the fields F have changed, those of operator i and those
\* of its output.
Changes(q, r, i, F) ==
    /\ r.cmdGroup = q.cmdGroup /\ r.release = q.release
    /\ \A f \in TFields, t \in Tensors : f \notin F \/ t # Out(i) => r[f][t] = q[f][t]
    /\ \A f \in OFields, j \in Ops : f \notin F \/ j # i => r[f][j] = q[f][j]
    /\ "code" \notin F => r.code = q.code

\* The output of the operator j is a tensor of its own.
LEMMA Places ==
  /\ \A i \in Ops : Out(i) \in Tensors /\ Out(i) \notin Inputs /\ Out(i) - 3 = i
  /\ \A i, j \in Ops : Out(i) = Out(j) => i = j
  /\ Inputs \subseteq Tensors /\ X \in Inputs /\ Y \in Inputs /\ C \in Inputs
  /\ X # Y /\ X # C /\ Y # C
  /\ \A t \in Tensors : t \in Inputs \/ \E j \in Ops : t = Out(j)
<1>1. \A t \in Tensors : t \notin Inputs => t - 3 \in Ops /\ t = Out(t - 3)
  BY Numbers DEF Ops, Out, Tensors, Inputs, X, Y, C
<1>2. \A i \in Ops : Out(i) \in Tensors /\ Out(i) \notin Inputs /\ Out(i) - 3 = i
  BY Numbers DEF Ops, Out, Tensors, Inputs, X, Y, C
<1>3. Inputs \subseteq Tensors /\ X \in Inputs /\ Y \in Inputs /\ C \in Inputs /\ X # Y /\ X # C /\ Y # C
  BY Numbers DEF Ops, Out, Tensors, Inputs, X, Y, C
<1> QED BY <1>1, <1>2, <1>3

LEMMA ChangesTwice ==
  ASSUME NEW q, NEW r, NEW s, NEW i, NEW F, NEW G, Changes(q, r, i, F), Changes(r, s, i, G)
  PROVE  Changes(q, s, i, F \cup G)
  BY DEF Changes

\* The fields of a pipeline.
LEMMA StateFields ==
  ASSUME NEW q, IsState(q)
  PROVE  /\ \A f \in TFields : DOMAIN q[f] = Tensors
         /\ \A f \in OFields : DOMAIN q[f] = Ops
<1>1. DOMAIN q.shape = Tensors /\ DOMAIN q.content = Tensors /\ DOMAIN q.mem = Tensors
  BY DEF IsState
<1>2. DOMAIN q.group = Tensors /\ DOMAIN q.fresh = Tensors /\ DOMAIN q.kept = Tensors
  BY DEF IsState
<1>3. DOMAIN q.need = Ops /\ DOMAIN q.dirty = Ops /\ DOMAIN q.built = Ops /\ DOMAIN q.exe = Ops /\ DOMAIN q.cache = Ops
  BY DEF IsState
<1> QED BY <1>1, <1>2, <1>3 DEF TFields, OFields

\* Setting a field of an operator or its output.
LEMMA SetShape ==
  ASSUME NEW q, IsState(q), NEW i \in Ops, NEW v \in Sizes
  PROVE  LET r == [q EXCEPT !.shape[Out(i)] = v]
         IN  IsState(r) /\ Changes(q, r, i, {"shape"}) /\ r.shape[Out(i)] = v
  BY Places, StateFields DEF IsState, Fields, Changes, TFields, OFields

LEMMA SetContent ==
  ASSUME NEW q, IsState(q), NEW i \in Ops, NEW v \in Sizes
  PROVE  LET r == [q EXCEPT !.content[Out(i)] = v]
         IN  IsState(r) /\ Changes(q, r, i, {"content"}) /\ r.content[Out(i)] = v
  BY Places, StateFields DEF IsState, Fields, Changes, TFields, OFields

LEMMA SetMem ==
  ASSUME NEW q, IsState(q), NEW i \in Ops
  PROVE  LET r == [q EXCEPT !.mem[Out(i)] = 0]
         IN  IsState(r) /\ Changes(q, r, i, {"mem"}) /\ r.mem[Out(i)] = 0
  BY Places, StateFields DEF IsState, Fields, Changes, TFields, OFields

LEMMA SetGroup ==
  ASSUME NEW q, IsState(q), NEW i \in Ops
  PROVE  LET r == [q EXCEPT !.group[Out(i)] = 0]
         IN  IsState(r) /\ Changes(q, r, i, {"group"}) /\ r.group[Out(i)] = 0
  BY Places, StateFields DEF IsState, Fields, Changes, TFields, OFields

LEMMA SetFresh ==
  ASSUME NEW q, IsState(q), NEW i \in Ops, NEW v \in BOOLEAN
  PROVE  LET r == [q EXCEPT !.fresh[Out(i)] = v]
         IN  IsState(r) /\ Changes(q, r, i, {"fresh"}) /\ r.fresh[Out(i)] = v
  BY Places, StateFields DEF IsState, Fields, Changes, TFields, OFields

LEMMA SetKept ==
  ASSUME NEW q, IsState(q), NEW i \in Ops, NEW v \in BOOLEAN
  PROVE  LET r == [q EXCEPT !.kept[Out(i)] = v]
         IN  IsState(r) /\ Changes(q, r, i, {"kept"}) /\ r.kept[Out(i)] = v
  BY Places, StateFields DEF IsState, Fields, Changes, TFields, OFields

LEMMA SetNeed ==
  ASSUME NEW q, IsState(q), NEW i \in Ops, NEW v \in BOOLEAN
  PROVE  LET r == [q EXCEPT !.need[i] = v]
         IN  IsState(r) /\ Changes(q, r, i, {"need"}) /\ r.need[i] = v
  BY Places, StateFields DEF IsState, Fields, Changes, TFields, OFields

LEMMA SetDirty ==
  ASSUME NEW q, IsState(q), NEW i \in Ops, NEW v \in BOOLEAN
  PROVE  LET r == [q EXCEPT !.dirty[i] = v]
         IN  IsState(r) /\ Changes(q, r, i, {"dirty"}) /\ r.dirty[i] = v
  BY Places, StateFields DEF IsState, Fields, Changes, TFields, OFields

LEMMA SetBuilt ==
  ASSUME NEW q, IsState(q), NEW i \in Ops, NEW v
  PROVE  LET r == [q EXCEPT !.built[i] = v]
         IN  IsState(r) /\ Changes(q, r, i, {"built"}) /\ r.built[i] = v
  BY Places, StateFields DEF IsState, Fields, Changes, TFields, OFields

LEMMA SetExe ==
  ASSUME NEW q, IsState(q), NEW i \in Ops, NEW v \in BOOLEAN
  PROVE  LET r == [q EXCEPT !.exe[i] = v]
         IN  IsState(r) /\ Changes(q, r, i, {"exe"}) /\ r.exe[i] = v
  BY Places, StateFields DEF IsState, Fields, Changes, TFields, OFields

LEMMA SetCache ==
  ASSUME NEW q, IsState(q), NEW i \in Ops, NEW v, CacheOK(v)
  PROVE  LET r == [q EXCEPT !.cache[i] = v]
         IN  IsState(r) /\ Changes(q, r, i, {"cache"}) /\ r.cache[i] = v
  BY Places, StateFields DEF IsState, Fields, Changes, TFields, OFields

LEMMA SetCode ==
  ASSUME NEW q, IsState(q), NEW i \in Ops, NEW v \in Codes
  PROVE  LET r == [q EXCEPT !.code = v]
         IN  IsState(r) /\ Changes(q, r, i, {"code"}) /\ r.code = v
  BY DEF IsState, Fields, Changes, TFields, OFields

\* What operator i reads is the same in q and r.
Alike(q, r, i) ==
    \A k \in DOMAIN Op(i).in :
        LET t == Op(i).in[k]
        IN  /\ r.shape[t] = q.shape[t] /\ r.content[t] = q.content[t]
            /\ IsVirtual(t) => r.built[t - 3] = q.built[t - 3]

LEMMA AlikeReads ==
  ASSUME NEW q, NEW r, NEW i \in Ops, Wired(i), Alike(q, r, i)
  PROVE  /\ Snapshot(r, i) = Snapshot(q, i) /\ OutputSize(r, i) = OutputSize(q, i)
         /\ ShapeFails(r, i) <=> ShapeFails(q, i)
         /\ ContentOf(r, i) = ContentOf(q, i)
         /\ r.shape[Out(i)] = q.shape[Out(i)] => Basis(r, i) = Basis(q, i)
<1>1. 1 \in DOMAIN Op(i).in /\ (Op(i).kind \in {"match", "interp"} => 2 \in DOMAIN Op(i).in)
  BY DEF Wired
<1>2. Snapshot(r, i) = Snapshot(q, i)
  BY DEF Snapshot, Alike
<1>3. OutputSize(r, i) = OutputSize(q, i)
  BY <1>1 DEF OutputSize, Alike
<1>4. ShapeFails(r, i) <=> ShapeFails(q, i)
  BY <1>1 DEF ShapeFails, Alike
<1>5. ContentOf(r, i) = ContentOf(q, i)
  BY <1>1 DEF ContentOf, Alike
<1>6. r.shape[Out(i)] = q.shape[Out(i)] => Basis(r, i) = Basis(q, i)
  BY DEF Basis, Alike
<1> QED BY <1>2, <1>3, <1>4, <1>5, <1>6

\* The tensors that operator i reads, and the operators that it reads through
\* virtual ones, come before it.
LEMMA ReadsBefore ==
  ASSUME NetOK, NEW i \in Ops, NEW k \in DOMAIN Op(i).in
  PROVE  LET t == Op(i).in[k]
         IN  /\ t \in Tensors /\ \A m \in Ops : i <= m => t # Out(m)
             /\ IsVirtual(t) => t - 3 \in Ops /\ t = Out(t - 3) /\ t - 3 < i /\ Op(t - 3).kind = "crop"
<1> DEFINE t == Op(i).in[k]
<1>1. t \in Inputs \/ \E j \in Ops : j < i /\ t = Out(j)
  BY DEF NetOK, Wired
<1>2. CASE t \in Inputs
  BY <1>2, Places DEF IsVirtual
<1>3. ASSUME NEW j \in Ops, j < i, t = Out(j) PROVE t \in Tensors /\ t - 3 = j /\ \A m \in Ops : i <= m => t # Out(m)
  <2>1. \A m \in Ops : i <= m => m # j
    BY <1>3, Numbers
  <2> QED BY <1>3, <2>1, Places
<1> HIDE DEF t
<1>4. ASSUME NEW j \in Ops, j < i, t = Out(j), IsVirtual(t) PROVE Op(j).kind = "crop"
  BY <1>3, <1>4 DEF IsVirtual
<1> QED BY <1>1, <1>2, <1>3, <1>4 DEF t

LEMMA ChangesAlike ==
  ASSUME NetOK, NEW q, NEW r, NEW F, NEW m \in Ops, Changes(q, r, m, F), NEW i \in Ops, i <= m
  PROVE  Alike(q, r, i)
<1> SUFFICES ASSUME NEW k \in DOMAIN Op(i).in
             PROVE  LET t == Op(i).in[k]
                    IN  /\ r.shape[t] = q.shape[t] /\ r.content[t] = q.content[t]
                        /\ IsVirtual(t) => r.built[t - 3] = q.built[t - 3]
  BY DEF Alike
<1> DEFINE t == Op(i).in[k]
<1>1. t \in Tensors /\ t # Out(m) /\ (IsVirtual(t) => t - 3 \in Ops /\ t - 3 # m)
  <2>1. \A j \in Ops : j < i => j # m
    BY Numbers
  <2> QED BY <2>1, ReadsBefore
<1> HIDE DEF t
<1>2. r.shape[t] = q.shape[t] /\ r.content[t] = q.content[t] /\ (IsVirtual(t) => r.built[t - 3] = q.built[t - 3])
  BY <1>1 DEF Changes, TFields, OFields
<1> QED BY <1>2 DEF t

\* Sizes and contents are what the model says.
LEMMA ReadSizes ==
  ASSUME NetOK, NEW q, IsState(q), NEW i \in Ops
  PROVE  /\ OutputSize(q, i) \in Sizes /\ ContentOf(q, i) \in Sizes
         /\ Op(i).kind = "shapeOf" => q.shape[Op(i).in[1]] \in Sizes
         /\ q.content[Op(i).in[1]] \in Sizes
<1>1. 1 \in DOMAIN Op(i).in /\ (Op(i).kind \in {"match", "interp"} => 2 \in DOMAIN Op(i).in)
  BY DEF NetOK, Wired
<1>2. \A k \in DOMAIN Op(i).in : Op(i).in[k] \in Tensors
  BY ReadsBefore
<1>3. 1 \in Sizes /\ q.shape \in [Tensors -> Sizes] /\ q.content \in [Tensors -> Sizes]
  BY ResizeAssumption DEF IsState
<1> QED BY <1>1, <1>2, <1>3 DEF OutputSize, ContentOf

-----------------------------------------------------------------------------
(* OpResizeCache and the steps of Pipeline::encode.                         *)

\* The cache c0 was closed.
Shut(c0, c) == /\ CacheOK(c) /\ ~c.can /\ ~c.pass /\ c.info = None /\ c.computed = c0.computed

LEMMA CloseIs ==
  ASSUME NEW q, IsState(q), NEW i \in Ops
  PROVE  LET r == Close(q, i, FALSE)
         IN  IsState(r) /\ Changes(q, r, i, {"cache"}) /\ Shut(q.cache[i], r.cache[i])
<1> DEFINE c == [[[q.cache[i] EXCEPT !.can = FALSE] EXCEPT !.pass = FALSE] EXCEPT !.info = None]
<1>1. CacheOK(q.cache[i])
  BY DEF IsState
<1>2. Shut(q.cache[i], c)
  BY <1>1 DEF Shut, CacheOK
<1>3. Close(q, i, FALSE) = [q EXCEPT !.cache[i] = c]
  BY DEF Close
<1> HIDE DEF c
<1> DEFINE r == Close(q, i, FALSE)
<1>4. CacheOK(c) /\ r = [q EXCEPT !.cache[i] = c]
  BY <1>2, <1>3 DEF Shut
<1> HIDE DEF r
<1>5. IsState(r) /\ Changes(q, r, i, {"cache"}) /\ r.cache[i] = c
  BY <1>4, SetCache
<1> QED BY <1>2, <1>5 DEF r

\* What becomes of the plan and the cache of an output that is dropped.
DroppedIs(q, r, i, held) ==
    IF held /\ i = NumOps
    THEN r.group[Out(i)] = 0 /\ r.mem[Out(i)] = 0 /\ Shut(q.cache[i], r.cache[i])
    ELSE /\ r.group[Out(i)] = q.group[Out(i)] /\ r.cache[i] = q.cache[i]
         /\ r.mem[Out(i)] = IF q.group[Out(i)] = 0 /\ ~IsConst(i) THEN 0 ELSE q.mem[Out(i)]

LEMMA DropIs ==
  ASSUME NEW q, IsState(q), NEW i \in Ops, NEW held \in BOOLEAN
  PROVE  LET r == [DropOutput(q, i, held) EXCEPT !.fresh[Out(i)] = FALSE]
         IN  /\ IsState(r) /\ Changes(q, r, i, {"group", "mem", "kept", "cache", "fresh"})
             /\ r.fresh[Out(i)] = FALSE /\ DroppedIs(q, r, i, held)
<1> DEFINE d == DropOutput(q, i, held)
           t == Out(i)
<1>1. /\ IsState(d) /\ Changes(q, d, i, {"group", "mem", "kept", "cache"})
      /\ DroppedIs(q, d, i, held)
  <2>1. CASE held /\ i = NumOps
    <3> DEFINE a == [q EXCEPT !.group[t] = 0]
               b == [a EXCEPT !.mem[t] = 0]
               c == [b EXCEPT !.kept[t] = FALSE]
    <3>1. IsState(a) /\ Changes(q, a, i, {"group"}) /\ a.group[t] = 0
      BY SetGroup
    <3>2. d = Close(c, i, FALSE)
      <4>1. d = Close([q EXCEPT !.group[t] = 0, !.mem[t] = 0, !.kept[t] = FALSE], i, FALSE)
        BY <2>1 DEF DropOutput
      <4>2. [q EXCEPT !.group[t] = 0, !.mem[t] = 0, !.kept[t] = FALSE] = c
        BY DEF IsState, Fields
      <4> HIDE DEF c, d
      <4> QED BY <4>1, <4>2
    <3>3. IsState(b) /\ Changes(a, b, i, {"mem"}) /\ b.mem[t] = 0
      <4> HIDE DEF a
      <4> QED BY <3>1, SetMem
    <3>4. IsState(c) /\ Changes(b, c, i, {"kept"})
      <4> HIDE DEF b
      <4> QED BY <3>3, SetKept
    <3>5. IsState(d) /\ Changes(c, d, i, {"cache"}) /\ Shut(c.cache[i], d.cache[i])
      <4> HIDE DEF c
      <4> QED BY <3>2, <3>4, CloseIs
    <3> HIDE DEF a, b, c, d
    <3>6. d.group[t] = 0 /\ d.mem[t] = 0 /\ c.cache[i] = q.cache[i]
      BY <3>1, <3>3, <3>4, <3>5, Places DEF Changes, TFields, OFields
    <3>7. Changes(q, d, i, {"group", "mem", "kept", "cache"})
      BY <3>1, <3>3, <3>4, <3>5 DEF Changes
    <3> QED BY <2>1, <3>5, <3>6, <3>7 DEF DroppedIs
  <2>2. CASE ~(held /\ i = NumOps) /\ q.group[t] = 0 /\ ~IsConst(i)
    <3>1. d = [q EXCEPT !.mem[t] = 0]
      BY <2>2 DEF DropOutput
    <3>2. IsState(d) /\ Changes(q, d, i, {"mem"}) /\ d.mem[t] = 0
      BY <3>1, SetMem
    <3> HIDE DEF d
    <3> QED BY <2>2, <3>2, Places DEF Changes, TFields, OFields, DroppedIs
  <2>3. CASE ~(held /\ i = NumOps) /\ ~(q.group[t] = 0 /\ ~IsConst(i))
    <3>1. d = q
      BY <2>3 DEF DropOutput
    <3> HIDE DEF d
    <3> QED BY <2>3, <3>1 DEF Changes, DroppedIs
  <2> QED BY <2>1, <2>2, <2>3
<1> DEFINE r == [d EXCEPT !.fresh[t] = FALSE]
<1> HIDE DEF d
<1>2. IsState(r) /\ Changes(d, r, i, {"fresh"}) /\ r.fresh[t] = FALSE
  BY <1>1, SetFresh
<1> HIDE DEF r
<1>3. r.group[t] = d.group[t] /\ r.mem[t] = d.mem[t] /\ r.cache[i] = d.cache[i]
  BY <1>2, Places DEF Changes, TFields, OFields
<1>4. Changes(q, r, i, {"group", "mem", "kept", "cache", "fresh"})
  BY <1>1, <1>2 DEF Changes
<1> QED BY <1>1, <1>2, <1>3, <1>4 DEF r, d, DroppedIs

\* A cache that the inputs differ from is closed.
LEMMA CloseVaryingIs ==
  ASSUME NEW q, IsState(q), NEW i \in Ops
  PROVE  LET r == CloseVarying(q, i)
         IN  /\ IsState(r) /\ Changes(q, r, i, {"cache"})
             /\ IF Compared(q, i) THEN Shut(q.cache[i], r.cache[i]) ELSE r.cache[i] = q.cache[i]
<1>1. CASE Compared(q, i)
  BY <1>1, CloseIs DEF CloseVarying
<1>2. CASE ~Compared(q, i)
  BY <1>2 DEF CloseVarying, Changes
<1> QED BY <1>1, <1>2

\* What an operator's cache is after its shape was computed.
Inserted(q, c0, c, i) ==
    IF c0.can THEN c.can /\ c.computed /\ c.pass = c0.pass /\ c.info = Snapshot(q, i) ELSE c = c0

LEMMA InferIs ==
  ASSUME NetOK, NEW q, IsState(q), NEW i \in Ops
  PROVE  LET r == Infer(q, i)
         IN  /\ IsState(r) /\ Changes(q, r, i, {"shape", "fresh", "kept", "cache"})
             /\ r.shape[Out(i)] = OutputSize(q, i) /\ r.fresh[Out(i)] = TRUE /\ r.kept[Out(i)] = FALSE
             /\ Inserted(q, q.cache[i], r.cache[i], i)
<1> DEFINE t == Out(i)
           a == [q EXCEPT !.shape[t] = OutputSize(q, i)]
           b == [a EXCEPT !.fresh[t] = TRUE]
           n == [b EXCEPT !.kept[t] = FALSE]
           r == Insert(n, i)
<1>1. IsState(a) /\ Changes(q, a, i, {"shape"}) /\ a.shape[t] = OutputSize(q, i)
  <2>1. OutputSize(q, i) \in Sizes
    BY ReadSizes
  <2> QED BY <2>1, SetShape
<1>2. Infer(q, i) = r
  <2>1. [q EXCEPT !.shape[t] = OutputSize(q, i), !.fresh[t] = TRUE, !.kept[t] = FALSE] = n
    BY DEF IsState, Fields
  <2>2. Infer(q, i) = Insert([q EXCEPT !.shape[t] = OutputSize(q, i), !.fresh[t] = TRUE, !.kept[t] = FALSE], i)
    BY DEF Infer
  <2> HIDE DEF n
  <2> QED BY <2>1, <2>2
<1>3. IsState(b) /\ Changes(a, b, i, {"fresh"}) /\ b.fresh[t] = TRUE
  <2> HIDE DEF a
  <2> QED BY <1>1, SetFresh
<1>4. IsState(n) /\ Changes(b, n, i, {"kept"}) /\ n.kept[t] = FALSE
  <2> HIDE DEF b
  <2> QED BY <1>3, SetKept
<1> HIDE DEF a, b, n
<1>5. /\ Changes(q, n, i, {"shape", "fresh", "kept"}) /\ n.cache[i] = q.cache[i]
      /\ n.shape[t] = OutputSize(q, i) /\ n.fresh[t] = TRUE /\ n.kept[t] = FALSE
  <2>1. Changes(q, n, i, {"shape", "fresh", "kept"})
    BY <1>1, <1>3, <1>4 DEF Changes
  <2>2. n.shape[t] = b.shape[t] /\ b.shape[t] = a.shape[t] /\ n.fresh[t] = b.fresh[t]
    BY <1>3, <1>4, Places DEF Changes, TFields
  <2>3. n.cache[i] = q.cache[i]
    BY <2>1 DEF Changes, OFields
  <2> QED BY <1>1, <1>3, <1>4, <2>1, <2>2, <2>3
<1>6. CASE ~n.cache[i].can
  <2>1. r = n
    BY <1>6 DEF Insert
  <2> QED BY <1>2, <1>4, <1>5, <1>6, <2>1 DEF Inserted, Changes
<1>7. CASE n.cache[i].can
  <2> DEFINE c == [[n.cache[i] EXCEPT !.computed = TRUE] EXCEPT !.info = Snapshot(n, i)]
  <2>1. CacheOK(n.cache[i])
    BY <1>4 DEF IsState
  <2>2. CacheOK(c) /\ c.can = n.cache[i].can /\ c.computed /\ c.pass = n.cache[i].pass /\ c.info = Snapshot(n, i)
    BY <2>1 DEF CacheOK
  <2>3. r = [n EXCEPT !.cache[i] = c]
    BY <1>4, <1>7, <2>1 DEF Insert, IsState, Fields, CacheOK
  <2> HIDE DEF c, r
  <2>4. IsState(r) /\ Changes(n, r, i, {"cache"}) /\ r.cache[i] = c
    BY <1>4, <2>2, <2>3, SetCache
  <2>5. Snapshot(n, i) = Snapshot(q, i)
    <3>1. Alike(q, n, i) /\ Wired(i)
      BY <1>5, ChangesAlike, Numbers DEF NetOK
    <3> QED BY <3>1, AlikeReads
  <2>6. r.shape[t] = n.shape[t] /\ r.fresh[t] = n.fresh[t] /\ r.kept[t] = n.kept[t]
    BY <2>4, Places DEF Changes, TFields
  <2>7. Changes(q, r, i, {"shape", "fresh", "kept", "cache"})
    BY <1>5, <2>4 DEF Changes
  <2> QED BY <1>2, <1>5, <1>7, <2>2, <2>4, <2>5, <2>6, <2>7 DEF Inserted
<1> QED BY <1>6, <1>7

\* What is left of a constant operator that was built and run, or not, from its
\* state b before.
ConstRun(b, q, i) ==
    LET t == Out(i)
        u == Op(i).in[1]
    IN  /\ Op(i).kind = "shapeOf" =>
              /\ q.built[i] = None /\ q.kept[t] = ~q.need[i]
              /\ q.content[t] = IF q.need[i] THEN q.shape[u] ELSE b.content[t]
        /\ Op(i).kind = "copy" =>
              IF q.need[i]
              THEN /\ q.exe[i] = TRUE /\ q.dirty[i] = TRUE /\ q.content[t] = q.content[u]
                   /\ q.built[i] = IF b.release THEN None ELSE Basis(q, i)
              ELSE /\ q.exe[i] = b.exe[i]
                   /\ b.built[i] = None => /\ q.built[i] = None
                                           /\ q.content[t] = b.content[t] /\ q.dirty[i] = b.dirty[i]
                   /\ b.built[i] # None =>
                         /\ q.dirty[i] = (u \in Inputs \/ ~q.kept[u])
                         /\ q.content[t] = IF q.dirty[i] THEN q.content[u] ELSE b.content[t]
                         /\ q.built[i] = IF b.release THEN None ELSE b.built[i]

LEMMA ReleaseIs ==
  ASSUME NEW q, IsState(q), Ok(q), NEW i \in Ops
  PROVE  LET r == ReleaseConst(q, i)
         IN  /\ IsState(r) /\ Changes(q, r, i, {"built"})
             /\ r.built[i] = IF q.release THEN None ELSE q.built[i]
<1>1. CASE q.release
  BY <1>1, SetBuilt DEF ReleaseConst
<1>2. CASE ~q.release
  BY <1>2 DEF ReleaseConst, Changes
<1> QED BY <1>1, <1>2

\* The fields of an operator that a constant changes when it is run.
ConstFields == {"kept", "content", "built", "exe", "dirty"}

CopyFields == ConstFields \cup {"code"}

LEMMA ShapeOfIs ==
  ASSUME NetOK, NEW n, IsState(n), Ok(n), NEW i \in Ops, NEW fail, Op(i).kind = "shapeOf",
         n.built[i] = None, n.need[i] => ~n.kept[Out(i)]
  PROVE  LET r == ConstStep(n, i, n.need[i], fail)
         IN  IsState(r) /\ Changes(n, r, i, ConstFields) /\ ConstRun(n, r, i)
<1> DEFINE t == Out(i)
           need == n.need[i]
           a == IF need THEN n ELSE [n EXCEPT !.kept[t] = TRUE]
           b == BuildConst(a, i, need, fail)
           r == ReleaseConst(RunConst(b, i, need), i)
<1>0. need \in BOOLEAN /\ n.kept[t] \in BOOLEAN
  BY Places DEF IsState
<1>1. IsState(a) /\ Changes(n, a, i, {"kept"}) /\ a.kept[t] = ~need
  <2>1. CASE need
    BY <1>0, <2>1 DEF Changes
  <2>2. CASE ~need
    BY <2>2, SetKept
  <2> QED BY <2>1, <2>2
<1> HIDE DEF a
<1>2. /\ IsState(b) /\ Changes(a, b, i, {"content"})
      /\ b.content[t] = IF need THEN a.shape[Op(i).in[1]] ELSE a.content[t]
  <2>1. CASE need
    <3>1. b = [a EXCEPT !.content[t] = a.shape[Op(i).in[1]]]
      BY <2>1 DEF BuildConst
    <3>2. a.shape[Op(i).in[1]] \in Sizes
      BY <1>1, ReadSizes
    <3> HIDE DEF b
    <3> QED BY <1>1, <2>1, <3>1, <3>2, SetContent
  <2>2. CASE ~need
    BY <1>1, <2>2 DEF BuildConst, Changes
  <2> QED BY <2>1, <2>2
<1> HIDE DEF b
<1>3. b.built[i] = None /\ Ok(b)
  BY <1>1, <1>2 DEF Changes, OFields, Ok
<1>4. r = ReleaseConst(b, i)
  BY <1>3 DEF RunConst
<1>5. IsState(r) /\ Changes(b, r, i, {"built"}) /\ r.built[i] = None
  <2> HIDE DEF r
  <2> QED BY <1>2, <1>3, <1>4, ReleaseIs
<1>6. ConstStep(n, i, need, fail) = r
  BY DEF ConstStep, a, b
<1> HIDE DEF r
<1>7. Changes(n, r, i, ConstFields)
  BY <1>1, <1>2, <1>5 DEF Changes, ConstFields, CopyFields
<1>8. r.content[t] = b.content[t] /\ r.kept[t] = a.kept[t] /\ a.content[t] = n.content[t] /\ r.need[i] = n.need[i]
  <2>1. r.content[t] = b.content[t] /\ r.kept[t] = b.kept[t] /\ r.need[i] = b.need[i]
    BY <1>5, Places DEF Changes, TFields, OFields
  <2>2. b.kept[t] = a.kept[t] /\ b.need[i] = a.need[i]
    BY <1>2, Places DEF Changes, TFields, OFields
  <2>3. a.content[t] = n.content[t] /\ a.need[i] = n.need[i]
    BY <1>1, Places DEF Changes, TFields, OFields
  <2> QED BY <2>1, <2>2, <2>3
<1>9. r.shape[Op(i).in[1]] = a.shape[Op(i).in[1]]
  <2>1. Op(i).in[1] \in Tensors
    BY ReadsBefore DEF NetOK, Wired
  <2> QED BY <1>2, <1>5, <2>1 DEF Changes, TFields
<1>10. ConstRun(n, r, i)
  BY <1>1, <1>2, <1>5, <1>8, <1>9 DEF ConstRun
<1> QED BY <1>5, <1>6, <1>7, <1>10

\* The copy's command, if it has one, is run or not.
LEMMA RunCopyIs ==
  ASSUME NetOK, NEW b, IsState(b), Ok(b), NEW i \in Ops, Op(i).kind = "copy", NEW need \in BOOLEAN
  PROVE  LET r == ReleaseConst(RunConst(b, i, need), i)
             t == Out(i)
             u == Op(i).in[1]
             d == need \/ u \in Inputs \/ ~b.kept[u]
         IN  /\ IsState(r) /\ Changes(b, r, i, {"kept", "content", "built", "dirty"})
             /\ b.built[i] = None => r.built[i] = None /\ r.content[t] = b.content[t] /\ r.dirty[i] = b.dirty[i]
             /\ b.built[i] # None => /\ r.built[i] = IF b.release THEN None ELSE b.built[i]
                                     /\ r.content[t] = IF d THEN b.content[u] ELSE b.content[t]
                                     /\ r.dirty[i] = d
<1> DEFINE t == Out(i)
           u == Op(i).in[1]
           d == need \/ u \in Inputs \/ ~b.kept[u]
           x == [b EXCEPT !.dirty[i] = d]
           y == [x EXCEPT !.kept[t] = ~d]
           z == [y EXCEPT !.content[t] = IF d THEN b.content[u] ELSE b.content[t]]
           m == RunConst(b, i, need)
           r == ReleaseConst(m, i)
<1>0. DOMAIN Op(i).in = {1} /\ u \in Tensors /\ b.kept[u] \in BOOLEAN /\ d \in BOOLEAN
  <2>1. DOMAIN Op(i).in = {1}
    BY DEF NetOK, Wired
  <2>2. u \in Tensors
    BY <2>1, ReadsBefore
  <2>3. b.kept[u] \in BOOLEAN
    BY <2>2 DEF IsState
  <2> QED BY <2>1, <2>2, <2>3
<1>1. CASE b.built[i] = None
  <2>1. m = b
    BY <1>1 DEF RunConst
  <2> HIDE DEF m
  <2>2. IsState(r) /\ Changes(b, r, i, {"built"}) /\ r.built[i] = None
    BY <1>1, <2>1, ReleaseIs
  <2> HIDE DEF r
  <2>3. r.content[t] = b.content[t] /\ r.dirty[i] = b.dirty[i] /\ Changes(b, r, i, {"kept", "content", "built", "dirty"})
    BY <2>2, Places DEF Changes, TFields, OFields
  <2> QED BY <1>1, <2>2, <2>3 DEF r, m
<1>2. CASE b.built[i] # None
  <2>1. Dirty(b, i, need) = d
    BY <1>0 DEF Dirty
  <2>2. m = z
    <3>1. m = [b EXCEPT !.dirty[i] = d, !.kept[t] = ~d, !.content[t] = IF d THEN b.content[u] ELSE @]
      BY <1>2, <2>1 DEF RunConst
    <3>2. b.content \in [Tensors -> Sizes] /\ t \in Tensors /\ DOMAIN b = Fields
      BY Places DEF IsState
    <3>3. [b EXCEPT !.dirty[i] = d, !.kept[t] = ~d, !.content[t] = IF d THEN b.content[u] ELSE @] = z
      BY <3>2 DEF Fields
    <3> HIDE DEF m, z
    <3> QED BY <3>1, <3>3
  <2>3. IsState(x) /\ Changes(b, x, i, {"dirty"}) /\ x.dirty[i] = d
    <3> HIDE DEF d
    <3> QED BY <1>0, SetDirty
  <2>4. IsState(y) /\ Changes(x, y, i, {"kept"})
    <3>1. (~d) \in BOOLEAN
      BY <1>0
    <3> HIDE DEF x, d
    <3> QED BY <2>3, <3>1, SetKept
  <2>5. /\ IsState(z) /\ Changes(y, z, i, {"content"})
        /\ z.content[t] = IF d THEN b.content[u] ELSE b.content[t]
    <3>1. (IF d THEN b.content[u] ELSE b.content[t]) \in Sizes
      BY <1>0, Places DEF IsState
    <3> HIDE DEF y, d
    <3> QED BY <2>4, <3>1, SetContent
  <2> HIDE DEF x, y, z, d
  <2>6. Changes(b, z, i, {"kept", "content", "dirty"}) /\ z.dirty[i] = d /\ Ok(z)
    <3>1. Changes(b, z, i, {"kept", "content", "dirty"})
      BY <2>3, <2>4, <2>5 DEF Changes
    <3>2. z.dirty[i] = y.dirty[i] /\ y.dirty[i] = x.dirty[i]
      BY <2>4, <2>5 DEF Changes, OFields
    <3> QED BY <2>3, <3>1, <3>2 DEF Changes, Ok
  <2> HIDE DEF m
  <2>7. /\ IsState(r) /\ Changes(z, r, i, {"built"})
        /\ r.built[i] = IF z.release THEN None ELSE z.built[i]
    BY <2>2, <2>5, <2>6, ReleaseIs
  <2> HIDE DEF r
  <2>8. /\ r.content[t] = z.content[t] /\ r.dirty[i] = z.dirty[i]
        /\ z.release = b.release /\ z.built[i] = b.built[i]
    BY <2>6, <2>7, Places DEF Changes, TFields, OFields
  <2>9. Changes(b, r, i, {"kept", "content", "built", "dirty"})
    BY <2>6, <2>7 DEF Changes
  <2> QED BY <1>2, <2>5, <2>6, <2>7, <2>8, <2>9 DEF r, m, d
<1> QED BY <1>1, <1>2

\* The copy was gone through, or no memory was left for its execution.
CopyEnds(n, r, i, fail) ==
    \/ Ok(r) /\ ConstRun(n, r, i)
    \/ /\ r.code = "OUT_OF_MEMORY" /\ fail = <<"const", i>> /\ n.need[i] /\ ~r.exe[i]
       /\ r.content[Out(i)] = n.content[Out(i)]

LEMMA CopyIs ==
  ASSUME NetOK, NEW n, IsState(n), Ok(n), NEW i \in Ops, NEW fail, Op(i).kind = "copy"
  PROVE  LET r == ConstStep(n, i, n.need[i], fail)
         IN  IsState(r) /\ Changes(n, r, i, CopyFields) /\ CopyEnds(n, r, i, fail)
<1> DEFINE t == Out(i)
           u == Op(i).in[1]
           need == n.need[i]
           a == IF need THEN n ELSE [n EXCEPT !.kept[t] = TRUE]
           b == BuildConst(a, i, need, fail)
           r == ReleaseConst(RunConst(b, i, need), i)
<1>0. need \in BOOLEAN /\ u \in Tensors /\ u # t
  <2>1. 1 \in DOMAIN Op(i).in
    BY DEF NetOK, Wired
  <2>2. u \in Tensors /\ \A m \in Ops : i <= m => u # Out(m)
    BY <2>1, ReadsBefore
  <2>3. i <= i
    BY Numbers
  <2>4. need \in BOOLEAN
    BY DEF IsState
  <2> QED BY <2>2, <2>3, <2>4
<1>1. ConstStep(n, i, need, fail) = r
  BY DEF ConstStep
<1>2. CASE need
  <2> DEFINE ok == fail # <<"const", i>>
             v == Basis(n, i)
             x == [n EXCEPT !.built[i] = v]
             y == [x EXCEPT !.exe[i] = ok]
             z == [y EXCEPT !.code = "OUT_OF_MEMORY"]
  <2>1. b = IF ok THEN y ELSE z
    <3>1. [n EXCEPT !.built[i] = v, !.exe[i] = ok] = y
      BY DEF IsState, Fields
    <3>2. b = LET m == [n EXCEPT !.built[i] = v, !.exe[i] = ok]
              IN  IF fail = <<"const", i>> THEN [m EXCEPT !.code = "OUT_OF_MEMORY"] ELSE m
      BY <1>2 DEF BuildConst
    <3> HIDE DEF y, b
    <3> QED BY <3>1, <3>2
  <2>2. IsState(x) /\ Changes(n, x, i, {"built"}) /\ x.built[i] = v
    <3> HIDE DEF v
    <3> QED BY SetBuilt
  <2>3. IsState(y) /\ Changes(x, y, i, {"exe"}) /\ y.exe[i] = ok
    <3>1. ok \in BOOLEAN
      OBVIOUS
    <3> HIDE DEF x, ok
    <3> QED BY <2>2, <3>1, SetExe
  <2>4. IsState(z) /\ Changes(y, z, i, {"code"}) /\ z.code = "OUT_OF_MEMORY"
    <3>1. "OUT_OF_MEMORY" \in Codes
      BY DEF Codes
    <3> HIDE DEF y
    <3> QED BY <2>3, <3>1, SetCode
  <2>5. v # None
    BY DEF Basis, None
  <2> HIDE DEF x, y, z, b, v
  <2>6. CASE ok
    <3>1. b = y /\ Ok(b) /\ b.built[i] = v /\ b.exe[i] = TRUE /\ Changes(n, b, i, {"built", "exe"})
      <4>1. Changes(n, y, i, {"built", "exe"})
        BY <2>2, <2>3 DEF Changes
      <4>2. y.built[i] = x.built[i]
        BY <2>3 DEF Changes, OFields
      <4> QED BY <2>1, <2>2, <2>3, <2>6, <4>1, <4>2 DEF Changes, Ok
    <3>2. /\ IsState(r) /\ Changes(b, r, i, {"kept", "content", "built", "dirty"})
          /\ r.built[i] = IF b.release THEN None ELSE v
          /\ r.content[t] = b.content[u] /\ r.dirty[i] = TRUE
      <4> DEFINE d == need \/ u \in Inputs \/ ~b.kept[u]
      <4>1. d = TRUE
        BY <1>2
      <4>2. IsState(b) /\ b.built[i] # None
        BY <2>1, <2>3, <2>5, <2>6, <3>1
      <4>3. /\ IsState(r) /\ Changes(b, r, i, {"kept", "content", "built", "dirty"})
            /\ r.built[i] = IF b.release THEN None ELSE b.built[i]
            /\ r.content[t] = IF d THEN b.content[u] ELSE b.content[t]
            /\ r.dirty[i] = d
        BY <1>0, <3>1, <4>2, RunCopyIs
      <4> QED BY <3>1, <4>1, <4>3
    <3> HIDE DEF r
    <3>3. Changes(n, r, i, ConstFields)
      BY <3>1, <3>2 DEF Changes, ConstFields, CopyFields
    <3>4. /\ r.exe[i] = TRUE /\ b.content[u] = n.content[u] /\ r.content[u] = n.content[u]
          /\ b.release = n.release /\ r.need[i] = need /\ r.shape[t] = n.shape[t] /\ Ok(r)
      BY <1>0, <3>1, <3>2, <3>3, Places DEF Changes, TFields, OFields, ConstFields, Ok
    <3>5. Basis(r, i) = v
      <4>1. Alike(n, r, i) /\ Wired(i)
        BY <3>3, ChangesAlike, Numbers DEF NetOK
      <4> QED BY <3>4, <4>1, AlikeReads DEF v
    <3>6. ConstRun(n, r, i)
      BY <1>2, <3>2, <3>4, <3>5 DEF ConstRun
    <3>7. Changes(n, r, i, CopyFields)
      BY <3>3 DEF Changes, CopyFields
    <3> QED BY <1>1, <3>2, <3>4, <3>6, <3>7 DEF CopyEnds
  <2>7. CASE ~ok
    <3>1. b = z /\ ~Ok(b)
      BY <2>1, <2>4, <2>7 DEF Ok
    <3>2. r = b
      BY <3>1 DEF RunConst, ReleaseConst
    <3> HIDE DEF r
    <3>3. Changes(n, z, i, CopyFields)
      BY <2>2, <2>3, <2>4 DEF Changes, ConstFields, CopyFields
    <3>4. z.exe[i] = y.exe[i] /\ z.content[t] = n.content[t]
      <4>1. z.content[t] = y.content[t] /\ y.content[t] = x.content[t] /\ x.content[t] = n.content[t]
        BY <2>2, <2>3, <2>4, Places DEF Changes, TFields, OFields
      <4> QED BY <2>4, <4>1 DEF Changes, OFields
    <3> QED BY <1>1, <1>2, <2>3, <2>4, <2>7, <3>1, <3>2, <3>3, <3>4 DEF CopyEnds
  <2> QED BY <2>6, <2>7
<1>3. CASE ~need
  <2>1. IsState(a) /\ Changes(n, a, i, {"kept"})
    BY <1>3, SetKept
  <2>2. b = a
    BY <1>3 DEF BuildConst
  <2> HIDE DEF a, b
  <2>3. /\ Ok(b) /\ b.built[i] = n.built[i] /\ b.content = n.content /\ b.dirty[i] = n.dirty[i] /\ b.kept[u] = n.kept[u]
        /\ b.release = n.release
    <3>1. \A w \in Tensors : b.content[w] = n.content[w]
      BY <2>1, <2>2 DEF Changes, TFields
    <3>2. b.content = n.content
      BY <2>1, <2>2, <3>1 DEF IsState
    <3> QED BY <1>0, <2>1, <2>2, <3>2 DEF Changes, TFields, OFields, Ok
  <2>4. LET d == u \in Inputs \/ ~b.kept[u]
        IN  /\ IsState(r) /\ Changes(b, r, i, {"kept", "content", "built", "dirty"})
            /\ b.built[i] = None => r.built[i] = None /\ r.content[t] = b.content[t] /\ r.dirty[i] = b.dirty[i]
            /\ b.built[i] # None => /\ r.built[i] = IF b.release THEN None ELSE b.built[i]
                                    /\ r.content[t] = IF d THEN b.content[u] ELSE b.content[t]
                                    /\ r.dirty[i] = d
    BY <1>0, <1>3, <2>1, <2>2, <2>3, RunCopyIs
  <2> HIDE DEF r
  <2>5. Changes(n, r, i, {"kept", "content", "built", "dirty"})
    BY <2>1, <2>2, <2>4 DEF Changes
  <2>6. Changes(n, r, i, CopyFields)
    BY <2>5 DEF Changes, ConstFields, CopyFields
  <2>7. r.need[i] = need /\ r.exe[i] = n.exe[i] /\ r.kept[u] = n.kept[u] /\ r.content[u] = n.content[u] /\ Ok(r)
    BY <1>0, <2>5 DEF Changes, TFields, OFields, Ok
  <2>8. ConstRun(n, r, i)
    <3>1. r.need[i] = FALSE /\ Op(i).kind # "shapeOf"
      BY <1>0, <1>3, <2>7
    <3> QED BY <2>3, <2>4, <2>7, <3>1 DEF ConstRun
  <2> QED BY <1>1, <2>4, <2>6, <2>7, <2>8 DEF CopyEnds
<1> QED BY <1>2, <1>3

\* The output of operator i lost its place, whatever was planned for it.
Vacated(q0, q, i, held) ==
    LET t == Out(i)
        H == held /\ i = NumOps
    IN  /\ q.group[t] = IF H THEN 0 ELSE q0.group[t]
        /\ q.mem[t] = IF H \/ (q0.group[t] = 0 /\ ~IsConst(i)) THEN 0 ELSE q0.mem[t]

\* The cache of operator i knew its inputs.
Knew(q0, i) == q0.cache[i].can /\ q0.cache[i].computed /\ q0.cache[i].info # None

\* Operator i was gone through, from its state q0 before; what it reads does not
\* change afterwards.
Passed(q0, q, i, held) ==
    LET t  == Out(i)
        c0 == q0.cache[i]
        c  == q.cache[i]
        H  == held /\ i = NumOps
    IN  /\ q.group[t] = IF H THEN 0 ELSE q0.group[t]
        /\ q.need[i] =>
              /\ H \/ c0.can \/ ~c0.pass
              /\ q.shape[t] = OutputSize(q, i) /\ ~ShapeFails(q, i)
              /\ IF c0.can /\ ~H /\ ~Knew(q0, i)
                 THEN c.can /\ c.computed /\ c.pass = c0.pass /\ c.info = Snapshot(q, i)
                 ELSE ~c.can /\ ~c.pass /\ (~c0.can => c.computed = c0.computed)
        /\ ~q.need[i] =>
              /\ ~H /\ c = c0 /\ q.shape[t] = q0.shape[t]
              /\ c0.can => /\ Knew(q0, i) /\ c0.info = Snapshot(q, i)
                           /\ \A k \in DOMAIN Op(i).in :
                                 IsVirtual(Op(i).in[k]) => ~q.need[Op(i).in[k] - 3]
              /\ ~c0.can => c0.pass
        /\ IF IsConst(i) THEN ConstRun(q0, q, i)
           ELSE q.content[t] = q0.content[t] /\ q.dirty[i] = q0.dirty[i]

\* What the geometry has not come to yet.
Shaped(q0, q, i, held) ==
    /\ q.fresh[Out(i)] = q.need[i]
    /\ Vacated(q0, q, i, held)
    /\ ~IsConst(i) => q.built[i] = q0.built[i] /\ q.exe[i] = q0.exe[i]

\* The resize failed at operator i.
Broken(q0, q, i, held, fail) ==
    LET t  == Out(i)
        c0 == q0.cache[i]
        c  == q.cache[i]
        H  == held /\ i = NumOps
    IN  /\ Vacated(q0, q, i, held)
        /\ H \/ c0.can \/ ~c0.pass
        /\ c.can \/ ~c.pass
        /\ ~c0.can => ~c.can /\ c.computed = c0.computed
        /\ q.content[t] = q0.content[t]
        /\ ~IsConst(i) => q.built[i] = q0.built[i] /\ q.exe[i] = q0.exe[i]
        /\ \/ /\ q.code = "COMPUTE_SIZE_ERROR" /\ ShapeFails(q, i)
              /\ q.shape[t] = q0.shape[t] /\ (c.can => c = c0 /\ ~Knew(q0, i))
           \/ /\ q.code = "OUT_OF_MEMORY" /\ fail = <<"const", i>> /\ Op(i).kind = "copy"
              /\ ~q.exe[i] /\ (c.can => c.computed /\ ~Knew(q0, i))

AllFields == TFields \cup OFields \cup {"code"}

LEMMA ChangesMore ==
  ASSUME NEW q, NEW r, NEW i, NEW F, NEW G, Changes(q, r, i, F), F \subseteq G
  PROVE  Changes(q, r, i, G)
  BY DEF Changes

LEMMA ShapeStepIs ==
  ASSUME NetOK, NEW q, IsState(q), Ok(q), NEW i \in Ops, NEW held \in BOOLEAN, NEW fail,
         Op(i).kind = "shapeOf" => q.built[i] = None,
         \A k \in DOMAIN Op(i).in :
            LET t == Op(i).in[k] IN IsVirtual(t) => q.fresh[t] = q.need[t - 3]
  PROVE  LET r == ShapeStep(q, i, held, fail)
         IN  /\ IsState(r) /\ Changes(q, r, i, AllFields)
             /\ \/ Ok(r) /\ Passed(q, r, i, held) /\ Shaped(q, r, i, held)
                \/ Broken(q, r, i, held, fail)
<1> DEFINE t == Out(i)
           H == held /\ i = NumOps
           d == [DropOutput(q, i, held) EXCEPT !.fresh[t] = FALSE]
           need == ~Match(d, i)
           e == IF need THEN CloseVarying(d, i) ELSE d
           m == IF need THEN Infer(e, i) ELSE e
           n == [m EXCEPT !.need[i] = need]
           r == ShapeStep(q, i, held, fail)
<1>0. Wired(i) /\ i <= i /\ t \in Tensors
  BY Numbers, Places DEF NetOK
<1>1. /\ IsState(d) /\ Changes(q, d, i, {"group", "mem", "kept", "cache", "fresh"})
      /\ d.fresh[t] = FALSE /\ DroppedIs(q, d, i, held)
  BY DropIs
<1>2. r = IF need /\ ShapeFails(e, i) THEN [e EXCEPT !.code = "COMPUTE_SIZE_ERROR"]
          ELSE IF IsConst(i) THEN ConstStep(n, i, need, fail) ELSE n
  BY DEF ShapeStep
<1> HIDE DEF d, r
<1>3. need \in BOOLEAN
  OBVIOUS
\* What the comparison has found.
<1>4. /\ need => H \/ q.cache[i].can \/ ~q.cache[i].pass
      /\ ~need => /\ ~H /\ d.cache[i] = q.cache[i]
                  /\ q.cache[i].can => /\ Knew(q, i) /\ q.cache[i].info = Snapshot(d, i)
                                       /\ \A k \in DOMAIN Op(i).in :
                                             IsVirtual(Op(i).in[k]) => ~d.fresh[Op(i).in[k]]
                  /\ ~q.cache[i].can => q.cache[i].pass
      /\ Compared(d, i) <=> ~H /\ Knew(q, i)
  <2>1. CacheOK(d.cache[i]) /\ CacheOK(q.cache[i])
    BY <1>1 DEF IsState
  <2>2. CASE H
    BY <1>1, <2>1, <2>2 DEF DroppedIs, Shut, Match, Compared, Knew
  <2>3. CASE ~H
    <3>1. d.cache[i] = q.cache[i]
      BY <1>1, <2>3 DEF DroppedIs
    <3> QED BY <2>1, <2>3, <3>1 DEF Match, Compared, Same, Knew, CacheOK
  <2> QED BY <2>2, <2>3
<1> HIDE DEF need
<1>5. /\ IsState(e) /\ Changes(d, e, i, {"cache"}) /\ (~need => e = d)
      /\ need => IF ~H /\ Knew(q, i) THEN Shut(d.cache[i], e.cache[i]) ELSE e.cache[i] = d.cache[i]
  <2>1. CASE need
    BY <1>1, <1>4, <2>1, CloseVaryingIs
  <2>2. CASE ~need
    BY <1>1, <2>2 DEF Changes
  <2> QED BY <2>1, <2>2
<1> HIDE DEF e
<1>6. Alike(q, d, i) /\ Alike(d, e, i)
  BY <1>0, <1>1, <1>5, ChangesAlike
\* The cache, when it was closed or left open.
<1>7. need => /\ CacheOK(e.cache[i]) /\ (e.cache[i].can <=> q.cache[i].can /\ ~H /\ ~Knew(q, i))
              /\ e.cache[i].can => e.cache[i] = q.cache[i]
              /\ ~e.cache[i].can => ~e.cache[i].pass
              /\ ~q.cache[i].can => e.cache[i].computed = q.cache[i].computed
  <2>1. CacheOK(e.cache[i])
    BY <1>5 DEF IsState
  <2> QED BY <1>1, <1>4, <1>5, <2>1 DEF DroppedIs, Shut, Knew
<1>8. /\ e.group[t] = d.group[t] /\ e.mem[t] = d.mem[t] /\ e.fresh[t] = FALSE
      /\ \A f \in {"shape", "content"} : e[f][t] = q[f][t]
      /\ \A f \in {"need", "dirty", "built", "exe"} : e[f][i] = q[f][i]
      /\ e.release = q.release /\ e.code = q.code
  BY <1>0, <1>1, <1>5 DEF Changes, TFields, OFields
<1>9. Vacated(q, e, i, held)
  BY <1>1, <1>8 DEF DroppedIs, Vacated
<1>10. Changes(q, e, i, AllFields)
  BY <1>1, <1>5 DEF Changes, AllFields, TFields, OFields
<1>11. CASE need /\ ShapeFails(e, i)
  <2>1. IsState(r) /\ Changes(e, r, i, {"code"}) /\ r.code = "COMPUTE_SIZE_ERROR"
    <3>1. "COMPUTE_SIZE_ERROR" \in Codes
      BY DEF Codes
    <3> QED BY <1>2, <1>5, <1>11, <3>1, SetCode
  <2>2. ShapeFails(r, i)
    <3>1. Alike(e, r, i)
      BY <1>0, <2>1, ChangesAlike
    <3> QED BY <1>0, <1>11, <3>1, AlikeReads
  <2>3. /\ \A f \in TFields : r[f][t] = e[f][t]
        /\ \A f \in OFields : r[f][i] = e[f][i]
    BY <1>0, <2>1 DEF Changes, TFields, OFields
  <2>4. /\ r.group[t] = e.group[t] /\ r.mem[t] = e.mem[t] /\ r.content[t] = q.content[t] /\ r.shape[t] = q.shape[t]
        /\ r.built[i] = q.built[i] /\ r.exe[i] = q.exe[i] /\ r.cache[i] = e.cache[i]
    BY <1>8, <2>3 DEF TFields, OFields
  <2>5. Vacated(q, r, i, held)
    BY <1>9, <2>4 DEF Vacated
  <2>6. Changes(q, r, i, AllFields)
    BY <1>10, <2>1 DEF Changes, AllFields
  <2>7. Broken(q, r, i, held, fail)
    BY <1>4, <1>7, <1>11, <2>1, <2>2, <2>4, <2>5 DEF Broken
  <2> QED BY <2>1, <2>6, <2>7 DEF r
<1>12. CASE ~(need /\ ShapeFails(e, i))
  <2>1. /\ IsState(m) /\ Changes(e, m, i, {"shape", "fresh", "kept", "cache"})
        /\ need => /\ m.shape[t] = OutputSize(e, i) /\ m.fresh[t] = TRUE /\ m.kept[t] = FALSE
                   /\ Inserted(e, e.cache[i], m.cache[i], i)
        /\ ~need => m = e
    <3>1. CASE need
      BY <1>5, <3>1, InferIs
    <3>2. CASE ~need
      BY <1>5, <3>2 DEF Changes
    <3> QED BY <3>1, <3>2
  <2> HIDE DEF m
  <2>2. IsState(n) /\ Changes(m, n, i, {"need"}) /\ n.need[i] = need
    BY <1>3, <2>1, SetNeed
  <2> HIDE DEF n
  <2>3. /\ IsState(r) /\ Changes(n, r, i, CopyFields)
        /\ \/ Ok(r) /\ (IF IsConst(i) THEN ConstRun(n, r, i)
                        ELSE r = n)
           \/ /\ r.code = "OUT_OF_MEMORY" /\ fail = <<"const", i>> /\ need /\ ~r.exe[i]
              /\ Op(i).kind = "copy" /\ r.content[t] = n.content[t]
    <3>1. Ok(n) /\ n.built[i] = q.built[i]
      <4>1. n.code = m.code /\ m.code = e.code /\ n.built[i] = m.built[i] /\ m.built[i] = e.built[i]
        BY <2>1, <2>2 DEF Changes, OFields
      <4> QED BY <1>8, <4>1 DEF Ok
    <3>2. CASE ~IsConst(i)
      BY <1>2, <1>12, <2>2, <3>1, <3>2 DEF Changes
    <3>3. CASE Op(i).kind = "shapeOf"
      <4>1. r = ConstStep(n, i, n.need[i], fail)
        BY <1>2, <1>12, <2>2, <3>3 DEF IsConst, ConstKinds
      <4>2. n.need[i] => ~n.kept[t]
        BY <1>0, <2>1, <2>2 DEF Changes, TFields
      <4>3. IsState(r) /\ Changes(n, r, i, ConstFields) /\ ConstRun(n, r, i)
        BY <2>2, <3>1, <3>3, <4>1, <4>2, ShapeOfIs
      <4>4. IsConst(i) /\ Ok(r) /\ Changes(n, r, i, CopyFields)
        BY <3>1, <3>3, <4>3 DEF IsConst, ConstKinds, Changes, ConstFields, CopyFields, Ok
      <4> QED BY <4>3, <4>4
    <3>4. CASE Op(i).kind = "copy"
      <4>1. r = ConstStep(n, i, n.need[i], fail) /\ IsConst(i)
        BY <1>2, <1>12, <2>2, <3>4 DEF IsConst, ConstKinds
      <4>2. IsState(r) /\ Changes(n, r, i, CopyFields) /\ CopyEnds(n, r, i, fail)
        BY <2>2, <3>1, <3>4, <4>1, CopyIs
      <4> QED BY <2>2, <3>4, <4>1, <4>2 DEF CopyEnds
    <3> QED BY <3>2, <3>3, <3>4 DEF IsConst, ConstKinds
  <2>4. /\ Changes(q, n, i, AllFields) /\ Changes(q, r, i, AllFields)
    <3>1. Changes(q, n, i, AllFields)
      BY <1>10, <2>1, <2>2 DEF Changes, AllFields, TFields, OFields
    <3> QED BY <2>3, <3>1 DEF Changes, AllFields, TFields, OFields, ConstFields, CopyFields
  <2>5. /\ r.need[i] = need /\ n.shape[t] = m.shape[t] /\ r.shape[t] = m.shape[t] /\ r.cache[i] = m.cache[i]
        /\ r.fresh[t] = m.fresh[t] /\ r.group[t] = e.group[t] /\ r.mem[t] = e.mem[t]
        /\ n.content[t] = q.content[t] /\ n.dirty[i] = q.dirty[i] /\ n.built[i] = q.built[i] /\ n.exe[i] = q.exe[i]
        /\ n.release = q.release
    <3>1. /\ r.need[i] = n.need[i] /\ r.shape[t] = n.shape[t] /\ r.cache[i] = n.cache[i] /\ r.fresh[t] = n.fresh[t]
          /\ r.group[t] = n.group[t] /\ r.mem[t] = n.mem[t]
      BY <1>0, <2>3 DEF Changes, TFields, OFields, ConstFields, CopyFields
    <3>2. /\ n.shape[t] = m.shape[t] /\ n.cache[i] = m.cache[i] /\ n.fresh[t] = m.fresh[t] /\ n.group[t] = m.group[t]
          /\ n.mem[t] = m.mem[t] /\ n.content[t] = m.content[t] /\ n.dirty[i] = m.dirty[i] /\ n.built[i] = m.built[i]
          /\ n.exe[i] = m.exe[i] /\ n.release = m.release
      BY <1>0, <2>2 DEF Changes, TFields, OFields
    <3>3. /\ m.group[t] = e.group[t] /\ m.mem[t] = e.mem[t] /\ m.content[t] = e.content[t] /\ m.dirty[i] = e.dirty[i]
          /\ m.built[i] = e.built[i] /\ m.exe[i] = e.exe[i] /\ m.release = e.release
      BY <1>0, <2>1 DEF Changes, TFields, OFields
    <3>4. e.content[t] = q.content[t] /\ e.dirty[i] = q.dirty[i] /\ e.built[i] = q.built[i] /\ e.exe[i] = q.exe[i]
      BY <1>8
    <3> QED BY <1>8, <2>2, <3>1, <3>2, <3>3, <3>4
  <2>6. Vacated(q, r, i, held)
    BY <1>9, <2>5 DEF Vacated
  <2>7. /\ Snapshot(r, i) = Snapshot(e, i) /\ OutputSize(r, i) = OutputSize(e, i) /\ (ShapeFails(r, i) <=> ShapeFails(e, i))
        /\ Snapshot(r, i) = Snapshot(d, i)
        /\ \A k \in DOMAIN Op(i).in : LET u == Op(i).in[k] IN
              IsVirtual(u) => d.fresh[u] = q.fresh[u] /\ r.need[u - 3] = q.need[u - 3]
    <3>1. Alike(e, r, i)
      <4>1. Changes(e, r, i, AllFields)
        BY <2>1, <2>2, <2>3 DEF Changes, AllFields, TFields, OFields, ConstFields, CopyFields
      <4> QED BY <1>0, <4>1, ChangesAlike
    <3>2. Snapshot(r, i) = Snapshot(e, i) /\ OutputSize(r, i) = OutputSize(e, i) /\ (ShapeFails(r, i) <=> ShapeFails(e, i))
      BY <1>0, <3>1, AlikeReads
    <3>3. Snapshot(e, i) = Snapshot(d, i)
      BY <1>0, <1>6, AlikeReads
    <3>4. ASSUME NEW k \in DOMAIN Op(i).in, IsVirtual(Op(i).in[k])
          PROVE  d.fresh[Op(i).in[k]] = q.fresh[Op(i).in[k]] /\ r.need[Op(i).in[k] - 3] = q.need[Op(i).in[k] - 3]
      <4> DEFINE u == Op(i).in[k]
      <4>1. u \in Tensors /\ u # t /\ u - 3 \in Ops /\ u - 3 # i
        BY <1>0, <3>4, ReadsBefore, Numbers
      <4> HIDE DEF u
      <4>2. d.fresh[u] = q.fresh[u] /\ r.need[u - 3] = q.need[u - 3]
        BY <1>1, <2>4, <4>1 DEF Changes, TFields, OFields
      <4> QED BY <4>2 DEF u
    <3> QED BY <3>2, <3>3, <3>4
  <2>8. CASE Ok(r) /\ (IF IsConst(i) THEN ConstRun(n, r, i) ELSE r = n)
    <3>1. Shaped(q, r, i, held)
      <4>1. r.fresh[t] = r.need[i]
        BY <1>3, <1>8, <2>1, <2>5
      <4>2. ~IsConst(i) => r.built[i] = q.built[i] /\ r.exe[i] = q.exe[i]
        BY <2>5, <2>8
      <4> QED BY <2>6, <4>1, <4>2 DEF Shaped
    <3>2. ASSUME need
          PROVE  /\ H \/ q.cache[i].can \/ ~q.cache[i].pass
                 /\ r.shape[t] = OutputSize(r, i) /\ ~ShapeFails(r, i)
                 /\ IF q.cache[i].can /\ ~H /\ ~Knew(q, i)
                    THEN r.cache[i].can /\ r.cache[i].computed /\ r.cache[i].pass = q.cache[i].pass /\ r.cache[i].info = Snapshot(r, i)
                    ELSE ~r.cache[i].can /\ ~r.cache[i].pass /\ (~q.cache[i].can => r.cache[i].computed = q.cache[i].computed)
      BY <1>4, <1>7, <1>12, <2>1, <2>5, <2>7, <3>2 DEF Inserted
    <3>3. ASSUME ~need
          PROVE  /\ ~H /\ r.cache[i] = q.cache[i] /\ r.shape[t] = q.shape[t]
                 /\ q.cache[i].can => /\ Knew(q, i) /\ q.cache[i].info = Snapshot(r, i)
                                      /\ \A k \in DOMAIN Op(i).in :
                                            IsVirtual(Op(i).in[k]) => ~r.need[Op(i).in[k] - 3]
                 /\ ~q.cache[i].can => q.cache[i].pass
      <4>1. r.cache[i] = q.cache[i] /\ r.shape[t] = q.shape[t]
        BY <1>4, <1>5, <1>8, <2>1, <2>5, <3>3
      <4>2. q.cache[i].can => \A k \in DOMAIN Op(i).in : IsVirtual(Op(i).in[k]) => ~r.need[Op(i).in[k] - 3]
        BY <1>4, <2>7, <3>3
      <4> QED BY <1>4, <2>7, <3>3, <4>1, <4>2
    <3>4. IF IsConst(i) THEN ConstRun(q, r, i) ELSE r.content[t] = q.content[t] /\ r.dirty[i] = q.dirty[i]
      BY <2>5, <2>8 DEF ConstRun
    <3>5. r.group[t] = IF H THEN 0 ELSE q.group[t]
      BY <2>6 DEF Vacated
    <3>6. Passed(q, r, i, held)
      BY <2>5, <3>2, <3>3, <3>4, <3>5 DEF Passed
    <3> QED BY <2>3, <2>4, <2>8, <3>1, <3>6 DEF r
  <2>9. CASE /\ r.code = "OUT_OF_MEMORY" /\ fail = <<"const", i>> /\ need /\ ~r.exe[i]
             /\ Op(i).kind = "copy" /\ r.content[t] = n.content[t]
    <3>1. IsConst(i)
      BY <2>9 DEF IsConst, ConstKinds
    <3>2. /\ r.cache[i].can \/ ~r.cache[i].pass
          /\ ~q.cache[i].can => ~r.cache[i].can /\ r.cache[i].computed = q.cache[i].computed
          /\ r.cache[i].can => r.cache[i].computed /\ ~Knew(q, i)
      BY <1>7, <2>1, <2>5, <2>9 DEF Inserted
    <3>3. Broken(q, r, i, held, fail)
      BY <1>4, <2>5, <2>6, <2>9, <3>1, <3>2 DEF Broken
    <3> QED BY <2>3, <2>4, <3>3 DEF r
  <2> QED BY <2>3, <2>8, <2>9
<1> QED BY <1>11, <1>12

-----------------------------------------------------------------------------
(* The loop over the shapes.                                                *)

\* Operator i and its output are the same in q and r.
Untouched(q, r, i) == /\ \A f \in TFields : r[f][Out(i)] = q[f][Out(i)]
                      /\ \A f \in OFields : r[f][i] = q[f][i]

\* ... and so is what operator i reads, and what was done for it.
Watched(q, r, i) ==
    /\ Alike(q, r, i)
    /\ \A k \in DOMAIN Op(i).in :
          LET t == Op(i).in[k]
          IN  r.kept[t] = q.kept[t] /\ (IsVirtual(t) => r.need[t - 3] = q.need[t - 3])

LEMMA ChangesWatched ==
  ASSUME NetOK, NEW q, NEW r, NEW F, NEW m \in Ops, Changes(q, r, m, F), NEW i \in Ops, i <= m
  PROVE  Watched(q, r, i)
<1>1. Alike(q, r, i)
  BY ChangesAlike
<1> SUFFICES ASSUME NEW k \in DOMAIN Op(i).in
             PROVE  LET t == Op(i).in[k]
                    IN  r.kept[t] = q.kept[t] /\ (IsVirtual(t) => r.need[t - 3] = q.need[t - 3])
  BY <1>1 DEF Watched
<1> DEFINE t == Op(i).in[k]
<1>2. t \in Tensors /\ t # Out(m) /\ (IsVirtual(t) => t - 3 \in Ops /\ t - 3 # m)
  <2>1. \A j \in Ops : j < i => j # m
    BY Numbers
  <2> QED BY <2>1, ReadsBefore
<1> HIDE DEF t
<1>3. r.kept[t] = q.kept[t] /\ (IsVirtual(t) => r.need[t - 3] = q.need[t - 3])
  BY <1>2 DEF Changes, TFields, OFields
<1> QED BY <1>3 DEF t

LEMMA ChangesOthers ==
  ASSUME NEW q, NEW r, NEW F, NEW m \in Ops, Changes(q, r, m, F), NEW i \in Ops, i # m
  PROVE  Untouched(q, r, i)
  BY Places DEF Changes, Untouched

\* What untouched means for each field.
LEMMA UntouchedFields ==
  ASSUME NEW q, NEW r, NEW i, Untouched(q, r, i)
  PROVE  LET t == Out(i)
         IN  /\ r.shape[t] = q.shape[t] /\ r.content[t] = q.content[t] /\ r.mem[t] = q.mem[t]
             /\ r.group[t] = q.group[t] /\ r.fresh[t] = q.fresh[t] /\ r.kept[t] = q.kept[t]
             /\ r.need[i] = q.need[i] /\ r.dirty[i] = q.dirty[i] /\ r.built[i] = q.built[i]
             /\ r.exe[i] = q.exe[i] /\ r.cache[i] = q.cache[i]
  BY DEF Untouched, TFields, OFields

\* What was found of an operator stays found.
LEMMA PassedStays ==
  ASSUME NetOK, NEW q0, NEW q, NEW r, NEW i \in Ops, NEW held, Untouched(q, r, i), Watched(q, r, i),
         Passed(q0, q, i, held)
  PROVE  Passed(q0, r, i, held)
<1> DEFINE t == Out(i)
<1>1. /\ r.shape[t] = q.shape[t] /\ r.content[t] = q.content[t]
      /\ r.group[t] = q.group[t] /\ r.kept[t] = q.kept[t]
      /\ r.need[i] = q.need[i] /\ r.dirty[i] = q.dirty[i] /\ r.built[i] = q.built[i]
      /\ r.exe[i] = q.exe[i] /\ r.cache[i] = q.cache[i]
  BY UntouchedFields
<1>2. /\ Snapshot(r, i) = Snapshot(q, i) /\ OutputSize(r, i) = OutputSize(q, i)
      /\ ShapeFails(r, i) <=> ShapeFails(q, i)
      /\ Basis(r, i) = Basis(q, i)
  BY <1>1, AlikeReads DEF Watched, NetOK
<1>3. \A k \in DOMAIN Op(i).in : IsVirtual(Op(i).in[k]) => r.need[Op(i).in[k] - 3] = q.need[Op(i).in[k] - 3]
  BY DEF Watched
<1>4. IsConst(i) => ConstRun(q0, r, i)
  <2>1. LET u == Op(i).in[1] IN r.shape[u] = q.shape[u] /\ r.content[u] = q.content[u] /\ r.kept[u] = q.kept[u]
    BY DEF Watched, Alike, NetOK, Wired
  <2>2. IsConst(i) => ConstRun(q0, q, i)
    BY DEF Passed
  <2> QED BY <1>1, <1>2, <2>1, <2>2 DEF ConstRun
<1> QED BY <1>1, <1>2, <1>3, <1>4 DEF Passed

LEMMA ShapedStays ==
  ASSUME NEW q0, NEW q, NEW r, NEW i, NEW held, Untouched(q, r, i), Shaped(q0, q, i, held)
  PROVE  Shaped(q0, r, i, held)
  BY UntouchedFields DEF Shaped, Vacated

\* The operator was untouched before it was gone through.
LEMMA PassedFrom ==
  ASSUME NEW q0, NEW q, NEW r, NEW i, NEW held, Untouched(q0, q, i), q.release = q0.release
  PROVE  /\ Passed(q, r, i, held) => Passed(q0, r, i, held)
         /\ Shaped(q, r, i, held) => Shaped(q0, r, i, held)
         /\ \A fail : Broken(q, r, i, held, fail) => Broken(q0, r, i, held, fail)
<1> DEFINE t == Out(i)
<1>1. /\ q.shape[t] = q0.shape[t] /\ q.content[t] = q0.content[t] /\ q.mem[t] = q0.mem[t] /\ q.group[t] = q0.group[t]
      /\ q.need[i] = q0.need[i] /\ q.dirty[i] = q0.dirty[i] /\ q.built[i] = q0.built[i]
      /\ q.exe[i] = q0.exe[i] /\ q.cache[i] = q0.cache[i]
  BY UntouchedFields
<1>2. ConstRun(q, r, i) => ConstRun(q0, r, i)
  BY <1>1 DEF ConstRun
<1>3. Knew(q, i) <=> Knew(q0, i)
  BY <1>1 DEF Knew
<1>4. Passed(q, r, i, held) => Passed(q0, r, i, held)
  BY <1>1, <1>2, <1>3 DEF Passed
<1>5. Vacated(q, r, i, held) => Vacated(q0, r, i, held)
  BY <1>1 DEF Vacated
<1>6. Shaped(q, r, i, held) => Shaped(q0, r, i, held)
  BY <1>1, <1>5 DEF Shaped
<1>7. \A fail : Broken(q, r, i, held, fail) => Broken(q0, r, i, held, fail)
  BY <1>1, <1>3, <1>5 DEF Broken
<1> QED BY <1>4, <1>6, <1>7

\* Nothing writes the inputs of the network.
SameInputs(q, r) == /\ r.cmdGroup = q.cmdGroup /\ r.release = q.release
                    /\ \A f \in TFields, t \in Inputs : r[f][t] = q[f][t]

\* The operators up to m were gone through.
Through(q0, q, m, held) ==
    /\ IsState(q) /\ SameInputs(q0, q)
    /\ \A i \in Ops : IF i <= m THEN Passed(q0, q, i, held) /\ Shaped(q0, q, i, held)
                      ELSE Untouched(q0, q, i)

\* The loop has stopped at operator m.
Stopped(q0, q, m, held, fail) ==
    /\ IsState(q) /\ SameInputs(q0, q)
    /\ Broken(q0, q, m, held, fail)
    /\ \A i \in Ops : /\ i < m => Passed(q0, q, i, held) /\ Shaped(q0, q, i, held)
                      /\ i > m => Untouched(q0, q, i)

\* Constants that are not built, before the loop.
Unbuilt(q) == \A i \in Ops : Op(i).kind = "shapeOf" => q.built[i] = None

LEMMA ThroughNext ==
  ASSUME NetOK, NEW q0, Unbuilt(q0), NEW q, NEW m \in Ops, NEW held \in BOOLEAN, NEW fail,
         Ok(q), Through(q0, q, m - 1, held)
  PROVE  LET r == ShapeStep(q, m, held, fail)
         IN  \/ Ok(r) /\ Through(q0, r, m, held)
             \/ Stopped(q0, r, m, held, fail)
<1> DEFINE r == ShapeStep(q, m, held, fail)
<1>1. IsState(q) /\ SameInputs(q0, q) /\ Untouched(q0, q, m) /\ q.release = q0.release
  <2>1. ~(m <= m - 1)
    BY Numbers
  <2> QED BY <2>1 DEF Through, SameInputs
<1>2. Op(m).kind = "shapeOf" => q.built[m] = None
  BY <1>1, UntouchedFields DEF Unbuilt
<1>3. \A k \in DOMAIN Op(m).in :
         LET t == Op(m).in[k] IN IsVirtual(t) => q.fresh[t] = q.need[t - 3]
  <2> SUFFICES ASSUME NEW k \in DOMAIN Op(m).in, IsVirtual(Op(m).in[k])
               PROVE  q.fresh[Op(m).in[k]] = q.need[Op(m).in[k] - 3]
    OBVIOUS
  <2> DEFINE t == Op(m).in[k]
  <2>1. t - 3 \in Ops /\ t = Out(t - 3) /\ t - 3 < m
    BY ReadsBefore
  <2> DEFINE j == t - 3
  <2>2. j <= m - 1
    <3>1. j \in Ops /\ j < m
      BY <2>1
    <3> HIDE DEF j
    <3> QED BY <3>1, Numbers
  <2> HIDE DEF t
  <2>3. Shaped(q0, q, j, held)
    BY <2>1, <2>2 DEF Through
  <2>4. q.fresh[t] = q.need[j]
    BY <2>1, <2>3 DEF Shaped
  <2> QED BY <2>4 DEF t
<1>4. /\ IsState(r) /\ Changes(q, r, m, AllFields)
      /\ \/ Ok(r) /\ Passed(q, r, m, held) /\ Shaped(q, r, m, held)
         \/ Broken(q, r, m, held, fail)
  BY <1>1, <1>2, <1>3, ShapeStepIs
<1> HIDE DEF r
<1>5. SameInputs(q0, r)
  BY <1>1, <1>4, Places DEF SameInputs, Changes
<1>6. ASSUME NEW i \in Ops, i < m PROVE Passed(q0, r, i, held) /\ Shaped(q0, r, i, held)
  <2>1. i <= m - 1 /\ i <= m /\ i # m
    BY <1>6, Numbers
  <2>2. Passed(q0, q, i, held) /\ Shaped(q0, q, i, held)
    BY <2>1 DEF Through
  <2>3. Untouched(q, r, i) /\ Watched(q, r, i)
    BY <1>4, <2>1, ChangesOthers, ChangesWatched
  <2> QED BY <2>2, <2>3, PassedStays, ShapedStays
<1>7. ASSUME NEW i \in Ops, i > m PROVE Untouched(q0, r, i)
  <2>1. ~(i <= m - 1) /\ i # m
    BY <1>7, Numbers
  <2>2. Untouched(q0, q, i) /\ Untouched(q, r, i)
    BY <1>4, <2>1, ChangesOthers DEF Through
  <2> QED BY <2>2 DEF Untouched
<1>8. CASE Ok(r) /\ Passed(q, r, m, held) /\ Shaped(q, r, m, held)
  <2>1. Passed(q0, r, m, held) /\ Shaped(q0, r, m, held)
    BY <1>1, <1>8, PassedFrom
  <2>2. \A i \in Ops : (i <= m => i < m \/ i = m) /\ (~(i <= m) => i > m)
    BY Numbers
  <2>3. Through(q0, r, m, held)
    BY <1>4, <1>5, <1>6, <1>7, <2>1, <2>2 DEF Through
  <2> QED BY <1>8, <2>3 DEF r
<1>9. CASE Broken(q, r, m, held, fail)
  <2>1. Broken(q0, r, m, held, fail)
    BY <1>1, <1>9, PassedFrom
  <2> QED BY <1>4, <1>5, <1>6, <1>7, <2>1 DEF Stopped, r
<1> QED BY <1>4, <1>8, <1>9

LEMMA ShapeLoop ==
  ASSUME NetOK, NEW q0, IsState(q0), Ok(q0), Unbuilt(q0), NEW held \in BOOLEAN, NEW fail,
         NEW f, f[0] = q0, \A i \in Ops : f[i] = ShapeStep(f[i - 1], i, held, fail)
  PROVE  \/ Ok(f[NumOps]) /\ Through(q0, f[NumOps], NumOps, held)
         \/ \E m \in Ops : Stopped(q0, f[NumOps], m, held, fail)
<1> DEFINE Good(i) == \/ Ok(f[i]) /\ Through(q0, f[i], i, held)
                      \/ \E m \in Ops : Stopped(q0, f[i], m, held, fail)
           S == {i \in 0..NumOps : Good(i)}
<1>1. 0 \in S
  <2>1. \A i \in Ops : ~(i <= 0)
    BY Numbers
  <2>2. Through(q0, q0, 0, held)
    BY <2>1 DEF Through, SameInputs, Untouched
  <2>3. Good(0)
    BY <2>2
  <2> HIDE DEF Good
  <2> QED BY <2>3, Numbers
<1>2. ASSUME NEW i \in 1..NumOps, i - 1 \in S PROVE i \in S
  <2>1. i \in Ops /\ i \in 0..NumOps
    BY Numbers DEF Ops
  <2> DEFINE q == f[i - 1]
  <2>2. f[i] = ShapeStep(q, i, held, fail) /\ Good(i - 1)
    BY <1>2, <2>1
  <2>3. CASE Ok(q) /\ Through(q0, q, i - 1, held)
    <3> HIDE DEF q
    <3>1. \/ Ok(f[i]) /\ Through(q0, f[i], i, held)
          \/ Stopped(q0, f[i], i, held, fail)
      BY <2>1, <2>2, <2>3, ThroughNext
    <3>2. Good(i)
      BY <2>1, <3>1
    <3> HIDE DEF Good
    <3> QED BY <2>1, <3>2
  <2>4. CASE \E m \in Ops : Stopped(q0, q, m, held, fail)
    <3> HIDE DEF q
    <3>1. ~Ok(q)
      BY <2>4 DEF Stopped, Broken, Ok
    <3>2. f[i] = q
      BY <2>2, <3>1 DEF ShapeStep
    <3>3. Good(i)
      BY <2>4, <3>2
    <3> HIDE DEF Good
    <3> QED BY <2>1, <3>3
  <2> QED BY <2>2, <2>3, <2>4
<1>3. NumOps \in S
  <2> HIDE DEF S
  <2> QED BY <1>1, <1>2, Numbers, UpTo
<1> QED BY <1>3

-----------------------------------------------------------------------------
(* The loop over the geometry, and Pipeline::allocMemory.                   *)

\* q and r differ in the fields F only.
Differ(q, r, F) == \A f \in Fields \ F : r[f] = q[f]

\* The commands of operator i are new, or as they were.
Rebuilt(s, r, i) ==
    IF ~IsConst(i) /\ s.need[i]
    THEN r.built[i] = Basis(r, i) /\ r.cmdGroup[i] = 0
    ELSE r.built[i] = s.built[i] /\ r.exe[i] = s.exe[i] /\ r.cmdGroup[i] = s.cmdGroup[i]

Rebuild(q, i, v) == [q EXCEPT !.built[i] = v, !.exe[i] = FALSE, !.cmdGroup[i] = 0]

LEMMA RebuildIs ==
  ASSUME NEW q, IsState(q), NEW i \in Ops, NEW v
  PROVE  LET r == Rebuild(q, i, v)
         IN  /\ IsState(r) /\ Differ(q, r, {"built", "exe", "cmdGroup"})
             /\ r.built[i] = v /\ r.cmdGroup[i] = 0
             /\ \A j \in Ops : j # i => r.built[j] = q.built[j] /\ r.exe[j] = q.exe[j] /\ r.cmdGroup[j] = q.cmdGroup[j]
<1> DEFINE x == [q EXCEPT !.built[i] = v]
           y == [x EXCEPT !.exe[i] = FALSE]
           r == [y EXCEPT !.cmdGroup[i] = 0]
<1>1. Rebuild(q, i, v) = r
  BY DEF IsState, Fields, Rebuild
<1>2. IsState(x) /\ Differ(q, x, {"built"}) /\ x.built = [q.built EXCEPT ![i] = v]
  BY DEF IsState, Fields, Differ
<1> HIDE DEF x
<1>3. IsState(y) /\ Differ(x, y, {"exe"}) /\ y.exe = [x.exe EXCEPT ![i] = FALSE]
  BY <1>2 DEF IsState, Fields, Differ
<1> HIDE DEF y
<1>4. IsState(r) /\ Differ(y, r, {"cmdGroup"}) /\ r.cmdGroup = [y.cmdGroup EXCEPT ![i] = 0]
  BY <1>3 DEF IsState, Fields, Differ
<1> HIDE DEF r
<1>5. r.built = [q.built EXCEPT ![i] = v] /\ r.exe = [q.exe EXCEPT ![i] = FALSE] /\ r.cmdGroup = [q.cmdGroup EXCEPT ![i] = 0]
  BY <1>2, <1>3, <1>4 DEF Differ, Fields
<1>6. DOMAIN q.built = Ops /\ DOMAIN q.exe = Ops /\ DOMAIN q.cmdGroup = Ops
  BY DEF IsState
<1>7. Differ(q, r, {"built", "exe", "cmdGroup"})
  BY <1>2, <1>3, <1>4 DEF Differ
<1> QED BY <1>1, <1>4, <1>5, <1>6, <1>7

LEMMA GeometryLoop ==
  ASSUME NetOK, NEW s, IsState(s), NEW g, g[0] = s, \A i \in Ops : g[i] = GeometryStep(g[i - 1], i)
  PROVE  LET r == g[NumOps]
         IN  IF Ok(s)
             THEN IsState(r) /\ Differ(s, r, {"built", "exe", "cmdGroup"}) /\ \A i \in Ops : Rebuilt(s, r, i)
             ELSE r = s
<1> DEFINE Good(m) ==
             IF Ok(s)
             THEN /\ IsState(g[m]) /\ Differ(s, g[m], {"built", "exe", "cmdGroup"})
                  /\ \A i \in Ops : IF i <= m THEN Rebuilt(s, g[m], i)
                                    ELSE g[m].built[i] = s.built[i] /\ g[m].exe[i] = s.exe[i] /\ g[m].cmdGroup[i] = s.cmdGroup[i]
             ELSE g[m] = s
           S == {m \in 0..NumOps : Good(m)}
<1>1. 0 \in S
  <2>1. \A i \in Ops : ~(i <= 0)
    BY Numbers
  <2>2. Good(0)
    BY <2>1 DEF Differ
  <2> HIDE DEF Good
  <2> QED BY <2>2, Numbers
<1>2. ASSUME NEW m \in 1..NumOps, m - 1 \in S PROVE m \in S
  <2>1. m \in Ops /\ m \in 0..NumOps
    BY Numbers DEF Ops
  <2> DEFINE q == g[m - 1]
             r == g[m]
  <2>2. r = GeometryStep(q, m) /\ Good(m - 1)
    BY <1>2, <2>1
  <2>3. CASE ~Ok(s)
    <3>1. Good(m)
      BY <2>2, <2>3 DEF GeometryStep
    <3> HIDE DEF Good
    <3> QED BY <2>1, <3>1
  <2>4. CASE Ok(s)
    <3>1. /\ IsState(q) /\ Differ(s, q, {"built", "exe", "cmdGroup"})
          /\ \A i \in Ops : IF i <= m - 1 THEN Rebuilt(s, q, i)
                            ELSE q.built[i] = s.built[i] /\ q.exe[i] = s.exe[i] /\ q.cmdGroup[i] = s.cmdGroup[i]
      BY <2>2, <2>4
    <3> HIDE DEF q, r
    <3>2. q.code = s.code /\ q.need = s.need /\ q.shape = s.shape /\ q.content = s.content
      BY <3>1 DEF Differ, Fields
    <3>3. q.built[m] = s.built[m] /\ q.exe[m] = s.exe[m] /\ q.cmdGroup[m] = s.cmdGroup[m]
      <4>1. ~(m <= m - 1)
        BY <2>1, Numbers
      <4> QED BY <2>1, <3>1, <4>1
    <3>4. /\ IsState(r) /\ Differ(q, r, {"built", "exe", "cmdGroup"})
          /\ \A j \in Ops : j # m => r.built[j] = q.built[j] /\ r.exe[j] = q.exe[j] /\ r.cmdGroup[j] = q.cmdGroup[j]
          /\ IF ~IsConst(m) /\ s.need[m] THEN r.built[m] = Basis(q, m) /\ r.cmdGroup[m] = 0
             ELSE r.built[m] = q.built[m] /\ r.exe[m] = q.exe[m] /\ r.cmdGroup[m] = q.cmdGroup[m]
      <4>1. CASE ~IsConst(m) /\ s.need[m]
        <5>1. r = [q EXCEPT !.built[m] = Basis(q, m), !.exe[m] = FALSE, !.cmdGroup[m] = 0]
          BY <2>2, <2>4, <3>2, <4>1 DEF GeometryStep, Ok
        <5> DEFINE v == Basis(q, m)
        <5>2. r = Rebuild(q, m, v)
          BY <5>1 DEF Rebuild
        <5> HIDE DEF v
        <5>4. IsState(q) /\ m \in Ops
          BY <2>1, <3>1
        <5>3. /\ IsState(r) /\ Differ(q, r, {"built", "exe", "cmdGroup"})
              /\ r.built[m] = v /\ r.cmdGroup[m] = 0
              /\ \A j \in Ops : j # m => r.built[j] = q.built[j] /\ r.exe[j] = q.exe[j] /\ r.cmdGroup[j] = q.cmdGroup[j]
          BY <5>2, <5>4, RebuildIs
        <5> QED BY <4>1, <5>3 DEF v
      <4>2. CASE ~(~IsConst(m) /\ s.need[m])
        <5>1. r = q
          BY <2>2, <3>2, <4>2 DEF GeometryStep
        <5> QED BY <3>1, <4>2, <5>1 DEF Differ
      <4> QED BY <4>1, <4>2
    <3>5. Differ(s, r, {"built", "exe", "cmdGroup"}) /\ r.shape = q.shape /\ r.content = q.content
      BY <3>1, <3>4 DEF Differ, Fields
    <3>6. ASSUME NEW i \in Ops, i <= m PROVE Basis(r, i) = Basis(q, i)
      <4>1. Alike(q, r, i)
        <5> SUFFICES ASSUME NEW k \in DOMAIN Op(i).in, IsVirtual(Op(i).in[k])
                     PROVE  r.built[Op(i).in[k] - 3] = q.built[Op(i).in[k] - 3]
          BY <3>5 DEF Alike
        <5> DEFINE t == Op(i).in[k]
        <5>1. t - 3 \in Ops /\ t - 3 < i
          BY ReadsBefore
        <5> DEFINE j == t - 3
        <5>2. j \in Ops /\ j # m
          <6>1. j \in Ops /\ j < i
            BY <5>1
          <6> HIDE DEF j
          <6> QED BY <2>1, <3>6, <6>1, Numbers
        <5> QED BY <3>4, <5>2
      <4>2. Wired(i) /\ r.shape[Out(i)] = q.shape[Out(i)]
        BY <3>5 DEF NetOK
      <4> QED BY <4>1, <4>2, AlikeReads
    <3>7. ASSUME NEW i \in Ops, i <= m PROVE Rebuilt(s, r, i)
      <4>1. CASE i = m
        BY <2>1, <3>3, <3>4, <3>6, <3>7, <4>1 DEF Rebuilt
      <4>2. CASE i # m
        <5>1. i <= m - 1
          BY <2>1, <3>7, <4>2, Numbers
        <5>2. Rebuilt(s, q, i)
          BY <3>1, <5>1
        <5> QED BY <3>4, <3>6, <3>7, <4>2, <5>2 DEF Rebuilt
      <4> QED BY <4>1, <4>2
    <3>8. ASSUME NEW i \in Ops, ~(i <= m)
          PROVE  r.built[i] = s.built[i] /\ r.exe[i] = s.exe[i] /\ r.cmdGroup[i] = s.cmdGroup[i]
      <4>1. ~(i <= m - 1) /\ i # m
        BY <2>1, <3>8, Numbers
      <4> QED BY <3>1, <3>4, <4>1
    <3>9. Good(m)
      BY <2>4, <3>4, <3>5, <3>7, <3>8 DEF r
    <3> HIDE DEF Good
    <3> QED BY <2>1, <3>9
  <2> QED BY <2>3, <2>4
<1>3. NumOps \in S
  <2> HIDE DEF S
  <2> QED BY <1>1, <1>2, Numbers, UpTo
<1>4. \A i \in Ops : i <= NumOps
  BY Numbers
<1> QED BY <1>3, <1>4

LEMMA CreateIs ==
  ASSUME NEW q, IsState(q), Ok(q), NEW fail
  PROVE  LET r == CreateExecutions(q, fail)
         IN  /\ IsState(r) /\ Differ(q, r, {"exe", "code"})
             /\ \A i \in Ops : IsConst(i) \/ ~q.need[i] => r.exe[i] = q.exe[i]
             /\ IF Ok(r) THEN \A i \in Ops : ~IsConst(i) /\ q.need[i] => r.exe[i] = TRUE
                ELSE fail # <<"none", 0>>
<1> DEFINE failed(i) == \E j \in 1..i : fail = <<"create", j>> /\ q.need[j] /\ ~IsConst(j)
           exe == [i \in Ops |-> IF IsConst(i) \/ ~q.need[i] THEN q.exe[i] ELSE ~failed(i)]
           code == IF failed(NumOps) THEN "OUT_OF_MEMORY" ELSE q.code
           x == [q EXCEPT !.exe = exe]
           r == [x EXCEPT !.code = code]
<1>1. CreateExecutions(q, fail) = r
  <2>1. CreateExecutions(q, fail) = [q EXCEPT !.exe = exe, !.code = code]
    BY DEF CreateExecutions
  <2>2. [q EXCEPT !.exe = exe, !.code = code] = r
    <3> HIDE DEF exe, code
    <3> QED BY DEF IsState, Fields
  <2> QED BY <2>1, <2>2
<1>2. exe \in [Ops -> BOOLEAN] /\ code \in Codes
  <2>1. q.exe \in [Ops -> BOOLEAN] /\ q.code \in Codes /\ \A i : failed(i) \in BOOLEAN
    BY DEF IsState
  <2> HIDE DEF failed
  <2> QED BY <2>1 DEF Codes
<1>3. \A i \in Ops : failed(i) => failed(NumOps)
  BY Numbers
<1>4. failed(NumOps) => fail # <<"none", 0>>
  OBVIOUS
<1>5. \A i \in Ops : exe[i] = IF IsConst(i) \/ ~q.need[i] THEN q.exe[i] ELSE ~failed(i)
  OBVIOUS
<1>6. code = IF failed(NumOps) THEN "OUT_OF_MEMORY" ELSE q.code
  OBVIOUS
<1> HIDE DEF exe, code, failed
<1>7. IsState(x) /\ Differ(q, x, {"exe"}) /\ x.exe = exe
  BY <1>2 DEF IsState, Fields, Differ
<1> HIDE DEF x
<1>8. IsState(r) /\ Differ(x, r, {"code"}) /\ r.code = code /\ r.exe = x.exe
  BY <1>2, <1>7 DEF IsState, Fields, Differ
<1> HIDE DEF r
<1>9. Differ(q, r, {"exe", "code"}) /\ r.exe = exe
  BY <1>7, <1>8 DEF Differ
<1>10. CASE failed(NumOps)
  BY <1>1, <1>4, <1>5, <1>6, <1>8, <1>9, <1>10 DEF Ok
<1>11. CASE ~failed(NumOps)
  <2>1. Ok(r) /\ \A i \in Ops : ~failed(i)
    BY <1>3, <1>6, <1>8, <1>11 DEF Ok
  <2> QED BY <1>1, <1>5, <1>8, <1>9, <2>1
<1> QED BY <1>10, <1>11

LEMMA PlanIs ==
  ASSUME NetOK, NEW q, IsState(q), NEW n \in {0, 1}
  PROVE  LET r == PlanTensors(q, n)
         IN  /\ IsState(r) /\ Differ(q, r, {"mem"})
             /\ \A i \in Ops : r.mem[Out(i)] = IF Commands(i) /\ q.group[Out(i)] = n /\ q.mem[Out(i)] = 0
                                               THEN q.shape[Out(i)] ELSE q.mem[Out(i)]
<1> DEFINE mem == [t \in Tensors |-> IF t \notin Inputs /\ Commands(t - 3) /\ q.group[t] = n /\ q.mem[t] = 0
                                     THEN q.shape[t] ELSE q.mem[t]]
           r == [q EXCEPT !.mem = mem]
<1>1. PlanTensors(q, n) = r
  BY DEF PlanTensors
<1>2. mem \in [Tensors -> Sizes \cup {0}]
  BY DEF IsState
<1>3. \A i \in Ops : mem[Out(i)] = IF Commands(i) /\ q.group[Out(i)] = n /\ q.mem[Out(i)] = 0
                                   THEN q.shape[Out(i)] ELSE q.mem[Out(i)]
  BY Places
<1> HIDE DEF mem
<1>4. IsState(r) /\ Differ(q, r, {"mem"}) /\ r.mem = mem
  BY <1>2 DEF IsState, Fields, Differ
<1> HIDE DEF r
<1> QED BY <1>1, <1>3, <1>4

LEMMA AllocIs ==
  ASSUME NetOK, NEW q, IsState(q), Ok(q), NEW fail
  PROVE  LET r == AllocTensors(q, fail)
         IN  /\ IsState(r) /\ Differ(q, r, {"mem", "code"})
             /\ IF Ok(r)
                THEN \A i \in Ops : r.mem[Out(i)] = IF Commands(i) /\ q.group[Out(i)] = 0 /\ q.mem[Out(i)] = 0
                                                    THEN q.shape[Out(i)] ELSE q.mem[Out(i)]
                ELSE r.mem = q.mem /\ fail # <<"none", 0>>
<1> DEFINE r == AllocTensors(q, fail)
<1>1. CASE fail = <<"plan", 0>>
  <2>1. r = [q EXCEPT !.code = "OUT_OF_MEMORY"]
    BY <1>1 DEF AllocTensors
  <2> HIDE DEF r
  <2>2. IsState(r) /\ Differ(q, r, {"code"}) /\ ~Ok(r)
    BY <2>1 DEF IsState, Fields, Differ, Ok, Codes
  <2>3. Differ(q, r, {"mem", "code"}) /\ r.mem = q.mem
    BY <2>2 DEF Differ, Fields
  <2>4. fail # <<"none", 0>>
    BY <1>1
  <2> QED BY <2>2, <2>3, <2>4 DEF r
<1>2. CASE fail # <<"plan", 0>>
  <2>1. r = PlanTensors(q, 0)
    BY <1>2 DEF AllocTensors
  <2> HIDE DEF r
  <2>2. /\ IsState(r) /\ Differ(q, r, {"mem"})
        /\ \A i \in Ops : r.mem[Out(i)] = IF Commands(i) /\ q.group[Out(i)] = 0 /\ q.mem[Out(i)] = 0
                                          THEN q.shape[Out(i)] ELSE q.mem[Out(i)]
    BY <2>1, PlanIs
  <2>3. Differ(q, r, {"mem", "code"}) /\ Ok(r)
    BY <2>2 DEF Differ, Fields, Ok
  <2> QED BY <2>2, <2>3 DEF r
<1> QED BY <1>1, <1>2

-----------------------------------------------------------------------------
(* A resize as a whole.                                                     *)

Base(q, r) == /\ IsState(r) /\ r.release = q.release
              /\ \A t \in Inputs : r.shape[t] = q.shape[t] /\ r.content[t] = q.content[t] /\ r.group[t] = q.group[t]
              /\ \A i \in Ops : ~Commands(i) /\ q.mem[Out(i)] = 0 => r.mem[Out(i)] = 0

\* Every operator was gone through, and has the commands that it needs.
Encoded(q, r, held) ==
    \A i \in Ops :
        /\ Passed(q, r, i, held)
        /\ ~IsConst(i) => IF r.need[i] THEN r.built[i] = Basis(r, i) /\ r.cmdGroup[i] = 0
                          ELSE r.built[i] = q.built[i] /\ r.exe[i] = q.exe[i] /\ r.cmdGroup[i] = q.cmdGroup[i]
        /\ IsConst(i) => r.cmdGroup[i] = q.cmdGroup[i]

\* ... and can run.
Complete(q, r, held) ==
    /\ Encoded(q, r, held)
    /\ \A i \in Ops : ~IsConst(i) /\ r.need[i] => r.exe[i]
    /\ \A i \in Ops : Commands(i) =>
          r.mem[Out(i)] = IF r.group[Out(i)] = 0 THEN r.shape[Out(i)] ELSE q.mem[Out(i)]

\* Operator i is as it was before.
Remains(q, r, i) == /\ \A f \in TFields \ {"fresh"} : r[f][Out(i)] = q[f][Out(i)]
                    /\ \A f \in OFields : r[f][i] = q[f][i]
                    /\ r.cmdGroup[i] = q.cmdGroup[i]

\* The resize has failed before the geometry, at operator m.
Aborted(q, r, m, held, fail) ==
    /\ Broken(q, r, m, held, fail)
    /\ r.cmdGroup = q.cmdGroup
    /\ \A i \in Ops : /\ i < m => Passed(q, r, i, held)
                      /\ i > m => Remains(q, r, i)
                      /\ ~IsConst(i) => r.built[i] = q.built[i] /\ r.exe[i] = q.exe[i]

\* A failed resize leaves the memory of group 1 alone.
Failed(q, r, held, fail) ==
    /\ \A i \in Ops : Commands(i) /\ r.group[Out(i)] = 1 => r.mem[Out(i)] = q.mem[Out(i)]
    /\ \/ Encoded(q, r, held) /\ fail # <<"none", 0>>
       \/ \E m \in Ops : Aborted(q, r, m, held, fail)

LEMMA PassedLater ==
  ASSUME NetOK, NEW q0, NEW s, NEW r, NEW i \in Ops, NEW held,
         r.shape = s.shape, r.content = s.content, r.group = s.group, r.kept = s.kept,
         r.need = s.need, r.dirty = s.dirty, r.cache = s.cache,
         IsConst(i) => r.built[i] = s.built[i] /\ r.exe[i] = s.exe[i],
         Passed(q0, s, i, held)
  PROVE  Passed(q0, r, i, held)
<1>1. Snapshot(r, i) = Snapshot(s, i) /\ OutputSize(r, i) = OutputSize(s, i) /\ (ShapeFails(r, i) <=> ShapeFails(s, i))
  BY DEF Snapshot, OutputSize, ShapeFails
<1>2. ASSUME IsConst(i) PROVE ConstRun(q0, r, i)
  <2>1. ConstRun(q0, s, i)
    BY <1>2 DEF Passed
  <2>2. Op(i).kind = "copy" => Basis(r, i) = Basis(s, i)
    <3> SUFFICES ASSUME Op(i).kind = "copy" PROVE Basis(r, i) = Basis(s, i)
      OBVIOUS
    <3>1. ASSUME NEW k \in DOMAIN Op(i).in PROVE ~IsVirtual(Op(i).in[k])
      <4> DEFINE t == Op(i).in[k]
      <4>1. t = C \/ \E j \in Ops : t = Out(j) /\ IsConst(j)
        BY DEF NetOK, Wired
      <4>2. ASSUME NEW j \in Ops, t = Out(j), IsConst(j) PROVE ~IsVirtual(t)
        BY <4>2, Places DEF IsVirtual, IsConst, ConstKinds
      <4>3. t = C => ~IsVirtual(t)
        BY Places DEF IsVirtual
      <4> QED BY <4>1, <4>2, <4>3
    <3> QED BY <3>1 DEF Basis
  <2> QED BY <1>2, <2>1, <2>2 DEF ConstRun
<1> QED BY <1>1, <1>2 DEF Passed

\* The operators that run in an execution are not constant.
LEMMA CommandsRun == \A i : Commands(i) => ~IsConst(i)
  BY DEF Commands, IsConst, ConstKinds

LEMMA ResizeIs ==
  ASSUME NetOK, NEW q, IsState(q), Unbuilt(q), NEW held \in BOOLEAN, NEW fail
  PROVE  LET r == Resize(q, held, fail)
         IN  /\ Base(q, r) /\ \A t \in Tensors : r.fresh[t] = FALSE
             /\ IF Ok(r) THEN Complete(q, r, held) ELSE Failed(q, r, held, fail)
<1> DEFINE q0 == [q EXCEPT !.code = "NO_ERROR"]
<1>1. IsState(q0) /\ Ok(q0) /\ Differ(q, q0, {"code"})
  BY DEF IsState, Fields, Ok, Codes, Differ
<1> HIDE DEF q0
<1>2. /\ q0.release = q.release /\ q0.cmdGroup = q.cmdGroup
      /\ \A f \in TFields \cup OFields : q0[f] = q[f]
  BY <1>1 DEF Differ, Fields, TFields, OFields
<1>3. Unbuilt(q0) /\ \A i \in Ops : Untouched(q, q0, i)
  BY <1>2 DEF Unbuilt, Untouched, OFields
<1>4. PICK f, g : /\ f[0] = q0 /\ \A i \in Ops : f[i] = ShapeStep(f[i - 1], i, held, fail)
                  /\ g[0] = f[NumOps] /\ \A i \in Ops : g[i] = GeometryStep(g[i - 1], i)
                  /\ Encode(q0, held, fail) = g[NumOps]
  BY EncodeRuns
<1> DEFINE s == f[NumOps]
           e == g[NumOps]
           c == CreateExecutions(e, fail)
           n == AllocTensors(c, fail)
           z == [t \in Tensors |-> FALSE]
           r == [n EXCEPT !.fresh = z]
<1>5. \/ Ok(s) /\ Through(q0, s, NumOps, held)
      \/ \E m \in Ops : Stopped(q0, s, m, held, fail)
  BY <1>1, <1>3, <1>4, ShapeLoop
<1>6. IsState(s)
  BY <1>5 DEF Through, Stopped
<1>7. IF Ok(s) THEN IsState(e) /\ Differ(s, e, {"built", "exe", "cmdGroup"}) /\ \A i \in Ops : Rebuilt(s, e, i)
      ELSE e = s
  BY <1>4, <1>6, GeometryLoop
<1>8. Resize(q, held, fail) = r
  BY <1>4 DEF Resize, q0
<1> HIDE DEF s, e, c, n, r
\* From a state after allocation, r forgets only what is fresh.
<1>9. ASSUME IsState(n)
      PROVE  IsState(r) /\ Differ(n, r, {"fresh"}) /\ \A t \in Tensors : r.fresh[t] = FALSE
  <2>1. z \in [Tensors -> BOOLEAN] /\ \A t \in Tensors : z[t] = FALSE
    OBVIOUS
  <2> HIDE DEF z
  <2>2. IsState(r) /\ Differ(n, r, {"fresh"}) /\ r.fresh = z
    BY <1>9, <2>1 DEF IsState, Fields, Differ, r
  <2> QED BY <2>1, <2>2
<1>10. CASE Ok(s) /\ Through(q0, s, NumOps, held)
  <2>1. IsState(e) /\ Differ(s, e, {"built", "exe", "cmdGroup"}) /\ \A i \in Ops : Rebuilt(s, e, i)
    BY <1>7, <1>10
  <2>2. Ok(e)
    BY <1>10, <2>1 DEF Differ, Fields, Ok
  <2>3. /\ IsState(c) /\ Differ(e, c, {"exe", "code"})
        /\ \A i \in Ops : IsConst(i) \/ ~e.need[i] => c.exe[i] = e.exe[i]
        /\ IF Ok(c) THEN \A i \in Ops : ~IsConst(i) /\ e.need[i] => c.exe[i] = TRUE
           ELSE fail # <<"none", 0>>
    BY <2>1, <2>2, CreateIs DEF c
  <2>4. /\ IsState(n) /\ Differ(c, n, {"mem", "code"})
        /\ IF Ok(n)
           THEN /\ Ok(c)
                /\ \A i \in Ops : n.mem[Out(i)] = IF Commands(i) /\ c.group[Out(i)] = 0 /\ c.mem[Out(i)] = 0
                                                  THEN c.shape[Out(i)] ELSE c.mem[Out(i)]
           ELSE n.mem = c.mem /\ fail # <<"none", 0>>
    <3>1. CASE Ok(c)
      BY <2>3, <3>1, AllocIs DEF n
    <3>2. CASE ~Ok(c)
      <4>1. n = c
        BY <3>2 DEF n, AllocTensors
      <4> QED BY <2>3, <3>2, <4>1 DEF Differ
    <3> QED BY <3>1, <3>2
  <2>5. IsState(r) /\ Differ(n, r, {"fresh"}) /\ \A t \in Tensors : r.fresh[t] = FALSE
    BY <1>9, <2>4
  <2>6. /\ r.shape = s.shape /\ r.content = s.content /\ r.group = s.group /\ r.kept = s.kept
        /\ r.need = s.need /\ r.dirty = s.dirty /\ r.cache = s.cache /\ r.release = s.release
        /\ r.built = e.built /\ r.exe = c.exe /\ r.cmdGroup = e.cmdGroup /\ r.mem = n.mem /\ r.code = n.code
        /\ c.mem = s.mem /\ c.group = s.group /\ c.shape = s.shape /\ e.need = s.need
    BY <2>1, <2>3, <2>4, <2>5 DEF Differ, Fields
  <2>7. /\ SameInputs(q0, s)
        /\ \A i \in Ops : Passed(q0, s, i, held) /\ Shaped(q0, s, i, held)
    BY <1>10, Numbers DEF Through
  <2>8. Base(q, r)
    <3>1. \A t \in Inputs : s.shape[t] = q0.shape[t] /\ s.content[t] = q0.content[t] /\ s.group[t] = q0.group[t]
      BY <2>7 DEF SameInputs, TFields
    <3>2. q0.shape = q.shape /\ q0.content = q.content /\ q0.group = q.group
      BY <1>2 DEF TFields
    <3>3. ASSUME NEW i \in Ops, ~Commands(i), q.mem[Out(i)] = 0 PROVE r.mem[Out(i)] = 0
      <4>1. s.mem[Out(i)] = 0
        <5>1. Vacated(q0, s, i, held)
          BY <2>7 DEF Shaped
        <5> QED BY <1>2, <3>3, <5>1 DEF Vacated, TFields
      <4> QED BY <2>4, <2>6, <3>3, <4>1
    <3> QED BY <1>2, <2>5, <2>6, <2>7, <3>1, <3>2, <3>3 DEF Base, SameInputs
  <2>9. ASSUME NEW i \in Ops
        PROVE  /\ Passed(q, r, i, held)
               /\ ~IsConst(i) => IF r.need[i] THEN r.built[i] = Basis(r, i) /\ r.cmdGroup[i] = 0
                                 ELSE r.built[i] = q.built[i] /\ r.exe[i] = q.exe[i] /\ r.cmdGroup[i] = q.cmdGroup[i]
               /\ IsConst(i) => r.cmdGroup[i] = q.cmdGroup[i]
    <3>1. Rebuilt(s, e, i)
      BY <2>1
    <3>2. IsConst(i) => r.built[i] = s.built[i] /\ r.exe[i] = s.exe[i]
      BY <2>3, <2>6, <3>1 DEF Rebuilt
    <3>3. Passed(q0, r, i, held)
      BY <2>6, <2>7, <3>2, PassedLater
    <3>4. Passed(q, r, i, held)
      BY <1>2, <1>3, <3>3, PassedFrom
    <3>5. s.cmdGroup = q.cmdGroup /\ (~IsConst(i) => s.built[i] = q.built[i] /\ s.exe[i] = q.exe[i])
      <4>1. q0.built = q.built /\ q0.exe = q.exe
        BY <1>2 DEF OFields
      <4> QED BY <1>2, <2>7, <4>1 DEF SameInputs, Shaped
    <3>6. Basis(e, i) = Basis(r, i)
      <4>1. e.shape = r.shape
        BY <2>1, <2>6 DEF Differ, Fields
      <4> QED BY <2>6, <4>1 DEF Basis
    <3> QED BY <2>3, <2>6, <3>1, <3>4, <3>5, <3>6 DEF Rebuilt
  <2>10. Encoded(q, r, held)
    BY <2>9 DEF Encoded
  <2>11. ASSUME NEW i \in Ops, Commands(i)
         PROVE  s.mem[Out(i)] = IF s.group[Out(i)] = 0 THEN 0 ELSE q.mem[Out(i)]
    <3>1. Vacated(q0, s, i, held) /\ ~IsConst(i)
      BY <2>7, <2>11, CommandsRun DEF Shaped
    <3>2. q0.mem = q.mem /\ q0.group = q.group
      BY <1>2 DEF TFields
    <3> QED BY <3>1, <3>2 DEF Vacated
  <2>12. CASE Ok(n)
    <3>1. \A i \in Ops : ~IsConst(i) /\ r.need[i] => r.exe[i]
      BY <2>3, <2>4, <2>6, <2>12
    <3>2. \A i \in Ops : Commands(i) =>
             r.mem[Out(i)] = IF r.group[Out(i)] = 0 THEN r.shape[Out(i)] ELSE q.mem[Out(i)]
      BY <2>4, <2>6, <2>11, <2>12
    <3>3. Ok(r) /\ Complete(q, r, held)
      BY <2>6, <2>10, <2>12, <3>1, <3>2 DEF Complete, Ok
    <3> QED BY <1>8, <2>5, <2>8, <3>3
  <2>13. CASE ~Ok(n)
    <3>1. \A i \in Ops : Commands(i) /\ r.group[Out(i)] = 1 => r.mem[Out(i)] = q.mem[Out(i)]
      BY <2>4, <2>6, <2>11, <2>13
    <3>2. ~Ok(r) /\ fail # <<"none", 0>>
      BY <2>4, <2>6, <2>13 DEF Ok
    <3>3. Failed(q, r, held, fail)
      BY <2>10, <3>1, <3>2 DEF Failed
    <3> QED BY <1>8, <2>5, <2>8, <3>2, <3>3
  <2> QED BY <2>12, <2>13
<1>11. ASSUME NEW m \in Ops, Stopped(q0, s, m, held, fail)
       PROVE  /\ Base(q, r) /\ \A t \in Tensors : r.fresh[t] = FALSE
              /\ ~Ok(r) /\ Failed(q, r, held, fail)
  <2>1. ~Ok(s) /\ Broken(q0, s, m, held, fail) /\ SameInputs(q0, s)
    BY <1>11 DEF Stopped, Broken, Ok
  <2>2. n = s
    BY <1>7, <2>1 DEF n, c, CreateExecutions, AllocTensors
  <2>3. IsState(r) /\ Differ(s, r, {"fresh"}) /\ \A t \in Tensors : r.fresh[t] = FALSE
    BY <1>6, <1>9, <2>2
  <2>4. /\ r.shape = s.shape /\ r.content = s.content /\ r.group = s.group /\ r.kept = s.kept
        /\ r.need = s.need /\ r.dirty = s.dirty /\ r.cache = s.cache /\ r.release = s.release
        /\ r.built = s.built /\ r.exe = s.exe /\ r.cmdGroup = s.cmdGroup /\ r.mem = s.mem /\ r.code = s.code
    BY <2>3 DEF Differ, Fields
  <2>5. Base(q, r)
    <3>1. \A t \in Inputs : s.shape[t] = q0.shape[t] /\ s.content[t] = q0.content[t] /\ s.group[t] = q0.group[t]
      BY <2>1 DEF SameInputs, TFields
    <3>2. q0.shape = q.shape /\ q0.content = q.content /\ q0.group = q.group
      BY <1>2 DEF TFields
    <3>3. ASSUME NEW i \in Ops, ~Commands(i), q.mem[Out(i)] = 0 PROVE r.mem[Out(i)] = 0
      <4>1. q0.mem = q.mem
        BY <1>2 DEF TFields
      <4>2. i > m => s.mem[Out(i)] = q0.mem[Out(i)]
        BY <1>11, UntouchedFields DEF Stopped
      <4>3. i < m => Vacated(q0, s, i, held)
        BY <1>11 DEF Stopped, Shaped
      <4>4. i = m => Vacated(q0, s, i, held)
        BY <2>1 DEF Broken
      <4>5. i < m \/ i = m \/ i > m
        BY Numbers
      <4> QED BY <2>4, <3>3, <4>1, <4>2, <4>3, <4>4, <4>5 DEF Vacated
    <3> QED BY <1>2, <2>1, <2>3, <2>4, <3>1, <3>2, <3>3 DEF Base, SameInputs
  <2>6. Broken(q, r, m, held, fail)
    <3>1. Broken(q, s, m, held, fail)
      BY <1>2, <1>3, <2>1, PassedFrom
    <3>2. ShapeFails(r, m) <=> ShapeFails(s, m)
      BY <2>4 DEF ShapeFails
    <3> QED BY <2>4, <3>1, <3>2 DEF Broken, Vacated
  <2>7. ASSUME NEW i \in Ops
        PROVE  /\ i < m => Passed(q, r, i, held)
               /\ i > m => Remains(q, r, i)
               /\ ~IsConst(i) => r.built[i] = q.built[i] /\ r.exe[i] = q.exe[i]
               /\ Commands(i) /\ r.group[Out(i)] = 1 => r.mem[Out(i)] = q.mem[Out(i)]
    <3>1. q0.built = q.built /\ q0.exe = q.exe /\ q0.mem = q.mem /\ q0.group = q.group
      BY <1>2 DEF OFields, TFields
    <3>2. CASE i < m
      <4>1. Passed(q0, s, i, held) /\ Shaped(q0, s, i, held)
        BY <1>11, <3>2 DEF Stopped
      <4>2. Passed(q0, r, i, held)
        BY <2>4, <4>1, PassedLater
      <4>3. Passed(q, r, i, held)
        BY <1>2, <1>3, <4>2, PassedFrom
      <4>4. ~(i > m)
        BY <3>2, Numbers
      <4> QED BY <2>4, <3>1, <4>1, <4>3, <4>4 DEF Shaped, Vacated
    <3>3. CASE i > m
      <4>1. Untouched(q0, s, i)
        BY <1>11, <3>3 DEF Stopped
      <4>2. Remains(q, r, i)
        <5>1. r.cmdGroup = q.cmdGroup
          BY <1>2, <2>1, <2>4 DEF SameInputs
        <5> QED BY <1>2, <2>4, <4>1, <5>1 DEF Untouched, Remains, TFields, OFields
      <4>3. ~(i < m)
        BY <3>3, Numbers
      <4> QED BY <2>4, <3>1, <4>1, <4>2, <4>3, UntouchedFields
    <3>4. CASE i = m
      <4>1. ~(i < m) /\ ~(i > m)
        BY <3>4, Numbers
      <4> QED BY <2>6, <3>4, <4>1 DEF Broken, Vacated
    <3> QED BY <3>2, <3>3, <3>4, Numbers
  <2>8. r.cmdGroup = q.cmdGroup
    BY <1>2, <2>1, <2>4 DEF SameInputs
  <2>9. Aborted(q, r, m, held, fail)
    BY <2>6, <2>7, <2>8 DEF Aborted
  <2>10. ~Ok(r)
    BY <2>1, <2>4 DEF Ok
  <2> QED BY <2>3, <2>5, <2>7, <2>9, <2>10 DEF Failed
<1> QED BY <1>5, <1>8, <1>10, <1>11

-----------------------------------------------------------------------------
(* The inputs determine the pipeline.                                       *)

\* What holds for an operator when it holds for the ones before it.
LEMMA Along ==
  ASSUME NEW M \in 0..NumOps, NEW S,
         \A i \in Ops : i <= M /\ (\A j \in Ops : j < i => j \in S) => i \in S
  PROVE  \A i \in Ops : i <= M => i \in S
<1> SUFFICES ASSUME NEW x \in Ops, x <= M, x \notin S PROVE FALSE
  OBVIOUS
<1> DEFINE T == {i \in Ops : i <= M /\ i \notin S}
<1>1. PICK i \in T : \A j \in T : i <= j
  <2>1. T \in SUBSET Nat /\ T # {}
    BY DEF Ops
  <2> HIDE DEF T
  <2> QED BY <2>1, LeastNat
<1>2. ASSUME NEW j \in Ops, j < i PROVE j \in S
  <2>1. j <= M /\ ~(i <= j)
    BY <1>1, <1>2, Numbers DEF Ops
  <2> QED BY <1>1, <2>1
<1> QED BY <1>1, <1>2

\* The same shape and content of a tensor; and the same commands of operator i.
Equal(q, r, t)  == r.shape[t] = q.shape[t] /\ r.content[t] = q.content[t]
Agrees(q, r, i) == Equal(q, r, Out(i)) /\ (~IsConst(i) => r.built[i] = q.built[i])

\* An operator reads inputs of the network and outputs of operators before it.
LEMMA ReadsWhat ==
  ASSUME NetOK, NEW i \in Ops, NEW k \in DOMAIN Op(i).in
  PROVE  LET t == Op(i).in[k] IN t \in Inputs \/ \E j \in Ops : j < i /\ t = Out(j)
  BY DEF NetOK, Wired

LEMMA EqualBelow ==
  ASSUME NetOK, NEW q, NEW r, NEW i \in Ops,
         \A t \in Inputs : Equal(q, r, t), \A j \in Ops : j < i => Equal(q, r, Out(j))
  PROVE  /\ \A k \in DOMAIN Op(i).in : Equal(q, r, Op(i).in[k])
         /\ Snapshot(r, i) = Snapshot(q, i) /\ OutputSize(r, i) = OutputSize(q, i)
         /\ ShapeFails(r, i) <=> ShapeFails(q, i)
         /\ ContentOf(r, i) = ContentOf(q, i)
<1>1. ASSUME NEW k \in DOMAIN Op(i).in PROVE Equal(q, r, Op(i).in[k])
  BY ReadsWhat
<1>2. /\ Op(i).kind \in Kinds
      /\ DOMAIN Op(i).in = IF Op(i).kind \in {"match", "interp"} THEN {1, 2} ELSE {1}
  BY DEF NetOK, Wired
<1>3. Snapshot(r, i) = Snapshot(q, i)
  BY <1>1 DEF Snapshot, Equal
<1>4. OutputSize(r, i) = OutputSize(q, i)
  BY <1>1, <1>2 DEF OutputSize, Equal
<1>5. ShapeFails(r, i) <=> ShapeFails(q, i)
  BY <1>1, <1>2 DEF ShapeFails, Equal
<1>6. ContentOf(r, i) = ContentOf(q, i)
  BY <1>1, <1>2 DEF ContentOf, Equal
<1> QED BY <1>1, <1>3, <1>4, <1>5, <1>6

LEMMA AgreesBelow ==
  ASSUME NetOK, NEW q, NEW r, NEW i \in Ops,
         \A t \in Inputs : Equal(q, r, t), \A j \in Ops : j < i => Agrees(q, r, j)
  PROVE  Alike(q, r, i)
<1>1. ASSUME NEW k \in DOMAIN Op(i).in
      PROVE  LET t == Op(i).in[k] IN Equal(q, r, t) /\ (IsVirtual(t) => r.built[t - 3] = q.built[t - 3])
  <2> DEFINE t == Op(i).in[k]
  <2>1. Equal(q, r, t)
    BY ReadsWhat DEF Agrees
  <2>2. IsVirtual(t) => r.built[t - 3] = q.built[t - 3]
    BY ReadsBefore DEF Agrees, IsConst, ConstKinds
  <2> QED BY <2>1, <2>2
<1> QED BY <1>1 DEF Alike, Equal

\* Two pipelines whose first operators are right, with the same inputs, agree.
LEMMA Unique ==
  ASSUME NetOK, NEW q, NEW r, NEW M \in 0..NumOps, \A t \in Inputs : Equal(q, r, t),
         \A i \in Ops : i <= M => Valued(q, i) /\ Valued(r, i)
  PROVE  \A i \in Ops : i <= M => Equal(q, r, Out(i))
<1> DEFINE S == {i \in Ops : Equal(q, r, Out(i))}
<1>1. ASSUME NEW i \in Ops, i <= M, \A j \in Ops : j < i => j \in S PROVE i \in S
  <2>1. OutputSize(r, i) = OutputSize(q, i) /\ ContentOf(r, i) = ContentOf(q, i)
    BY <1>1, EqualBelow
  <2> QED BY <1>1, <2>1 DEF Valued, Equal
<1> HIDE DEF S
<1>2. \A i \in Ops : i <= M => i \in S
  BY <1>1, Along
<1> QED BY <1>2 DEF S

LEMMA GivenEqual ==
  ASSUME NEW q, NEW r, NEW a, Given(q, a), Given(r, a)
  PROVE  \A t \in Inputs : Equal(q, r, t)
  BY DEF Given, Equal, Inputs

LEMMA SolvesUnique ==
  ASSUME NetOK, NEW q, NEW r, NEW a, Solves(q, a), Solves(r, a)
  PROVE  /\ \A t \in Inputs : Equal(q, r, t)
         /\ \A i \in Ops : Agrees(q, r, i)
<1>1. \A t \in Inputs : Equal(q, r, t)
  BY GivenEqual DEF Solves
<1> DEFINE S == {i \in Ops : Agrees(q, r, i)}
<1>2. ASSUME NEW i \in Ops, i <= NumOps, \A j \in Ops : j < i => j \in S PROVE i \in S
  <2>1. Alike(q, r, i) /\ Wired(i)
    BY <1>1, <1>2, AgreesBelow DEF NetOK
  <2>2. OutputSize(r, i) = OutputSize(q, i) /\ ContentOf(r, i) = ContentOf(q, i)
    BY <2>1, AlikeReads
  <2>3. Equal(q, r, Out(i))
    BY <2>2 DEF Solves, Solved, Valued, Equal
  <2>4. Basis(r, i) = Basis(q, i)
    BY <2>1, <2>3, AlikeReads DEF Equal
  <2> QED BY <2>3, <2>4 DEF Solves, Solved, Agrees
<1> HIDE DEF S
<1>3. \A i \in Ops : i <= NumOps => i \in S
  BY <1>2, Along, Numbers
<1> QED BY <1>1, <1>3, Numbers DEF S

\* An operator that was computed again is right.
LEMMA NeedValued ==
  ASSUME NEW q, NEW r, NEW i \in Ops, NEW held, NetOK, Sound(q), Passed(q, r, i, held), r.need[i]
  PROVE  Valued(r, i)
<1>1. r.shape[Out(i)] = OutputSize(r, i) /\ ~ShapeFails(r, i)
  BY DEF Passed
<1>2. CASE ~IsConst(i)
  BY <1>1, <1>2 DEF Passed, Sound, Valued, ContentOf, IsConst, ConstKinds
<1>3. CASE IsConst(i)
  BY <1>1, <1>3 DEF Passed, ConstRun, Valued, ContentOf, IsConst, ConstKinds
<1> QED BY <1>2, <1>3

\* The pipeline with inputs that are set.
LEMMA InputsSet ==
  ASSUME NEW q, Sound(q), NEW a \in [Inputs -> Sizes]
  PROVE  LET r == SetInputs(q, a)
         IN  /\ Sound(r) /\ Given(r, a) /\ Differ(q, r, {"shape", "content"})
             /\ \A i \in Ops : Equal(q, r, Out(i))
<1> DEFINE shape == [t \in Tensors |-> IF t \in {X, Y} THEN a[t] ELSE q.shape[t]]
           content == [t \in Tensors |-> IF t = C THEN a[t] ELSE q.content[t]]
           x == [q EXCEPT !.shape = shape]
           r == [x EXCEPT !.content = content]
<1>0. IsState(q)
  BY DEF Sound
<1>1. shape \in [Tensors -> Sizes] /\ content \in [Tensors -> Sizes]
  BY <1>0, Places DEF IsState, Inputs
<1>2. \A i \in Ops : shape[Out(i)] = q.shape[Out(i)] /\ content[Out(i)] = q.content[Out(i)]
  BY Places DEF Inputs
<1>3. /\ shape[X] = a[X] /\ shape[Y] = a[Y] /\ shape[C] = q.shape[C]
      /\ content[X] = q.content[X] /\ content[Y] = q.content[Y] /\ content[C] = a[C]
  BY Places
<1>4. SetInputs(q, a) = r
  <2>1. SetInputs(q, a) = [q EXCEPT !.shape = shape, !.content = content]
    BY DEF SetInputs
  <2> HIDE DEF shape, content
  <2> QED BY <1>0, <2>1 DEF IsState, Fields
<1> HIDE DEF shape, content
<1>5. IsState(x) /\ Differ(q, x, {"shape"}) /\ x.shape = shape
  BY <1>0, <1>1 DEF IsState, Fields, Differ
<1> HIDE DEF x
<1>6. IsState(r) /\ Differ(x, r, {"content"}) /\ r.content = content
  BY <1>1, <1>5 DEF IsState, Fields, Differ
<1> HIDE DEF r
<1>7. Differ(q, r, {"shape", "content"}) /\ r.shape = shape /\ r.content = content /\ r.built = q.built /\ r.mem = q.mem
  BY <1>5, <1>6 DEF Differ, Fields
<1>8. Sound(r) /\ Given(r, a)
  BY <1>2, <1>3, <1>6, <1>7 DEF Sound, Given
<1> QED BY <1>2, <1>4, <1>7, <1>8 DEF Equal

LEMMA EmptySound == Sound(EmptyPipeline)
<1>1. IsState(EmptyPipeline)
  <2>1. DOMAIN EmptyPipeline = Fields
    BY DEF EmptyPipeline, Fields
  <2>2. \A i \in Ops : CacheOK(EmptyPipeline.cache[i])
    BY DEF EmptyPipeline, CacheOK, ClosedCache
  <2> QED BY <2>1, <2>2, ResizeAssumption DEF IsState, EmptyPipeline, Codes
<1> QED BY <1>1, Places DEF Sound, EmptyPipeline

LEMMA SoundUnbuilt ==
  ASSUME NEW q, Sound(q)
  PROVE  IsState(q) /\ Unbuilt(q)
  BY DEF Sound, Unbuilt

\* What a resize goes through, operator by operator: all were gone through, or
\* those before the one that it has failed at.
LEMMA Ways ==
  ASSUME NetOK, NEW q, Sound(q), NEW held \in BOOLEAN, NEW fail
  PROVE  LET r == Resize(q, held, fail)
         IN  /\ Base(q, r)
             /\ \/ Ok(r) /\ Complete(q, r, held)
                \/ ~Ok(r) /\ Failed(q, r, held, fail)
  BY SoundUnbuilt, ResizeIs

\* Whatever fails, a resize leaves what no operator writes.
LEMMA SoundStays ==
  ASSUME NetOK, NEW q, Sound(q), NEW held \in BOOLEAN, NEW fail
  PROVE  Sound(Resize(q, held, fail))
<1> DEFINE r == Resize(q, held, fail)
<1>1. Base(q, r) /\ (Encoded(q, r, held) \/ \E m \in Ops : Aborted(q, r, m, held, fail))
  BY Ways DEF Complete, Failed
<1> HIDE DEF r
<1>2. ASSUME NEW i \in Ops
      PROVE  /\ ~IsConst(i) => r.content[Out(i)] = q.content[Out(i)]
             /\ Op(i).kind = "shapeOf" => r.built[i] = None
  <2>0. Op(i).kind = "shapeOf" => IsConst(i) /\ q.built[i] = None
    BY DEF IsConst, ConstKinds, Sound
  <2>1. ASSUME Passed(q, r, i, held)
        PROVE  /\ ~IsConst(i) => r.content[Out(i)] = q.content[Out(i)]
               /\ Op(i).kind = "shapeOf" => r.built[i] = None
    BY <2>0, <2>1 DEF Passed, ConstRun
  <2>2. CASE Encoded(q, r, held)
    BY <2>1, <2>2 DEF Encoded
  <2>3. ASSUME NEW m \in Ops, Aborted(q, r, m, held, fail)
        PROVE  /\ ~IsConst(i) => r.content[Out(i)] = q.content[Out(i)]
               /\ Op(i).kind = "shapeOf" => r.built[i] = None
    <3>1. CASE i < m
      BY <2>1, <2>3, <3>1 DEF Aborted
    <3>2. CASE i > m
      BY <2>0, <2>3, <3>2 DEF Aborted, Remains, TFields, OFields
    <3>3. CASE i = m
      <4>1. Op(i).kind # "shapeOf"
        BY <2>3, <3>3 DEF Aborted, Broken, ShapeFails
      <4> QED BY <2>3, <3>3, <4>1 DEF Aborted, Broken
    <3> QED BY <3>1, <3>2, <3>3, Numbers
  <2> QED BY <1>1, <2>2, <2>3
<1>3. IsState(r) /\ r.shape[C] = 1 /\ r.content[X] = 1 /\ r.content[Y] = 1
  BY <1>1, Places DEF Base, Sound
<1>4. \A i \in Ops : ~Commands(i) => r.mem[Out(i)] = 0
  BY <1>1 DEF Base, Sound
<1> QED BY <1>2, <1>3, <1>4 DEF Sound, r

LEMMA BaseGiven ==
  ASSUME NEW q, NEW r, NEW a, Given(q, a), Base(q, r)
  PROVE  Given(r, a)
  BY Places DEF Given, Base

\* If the inputs have a solution at all, a new pipeline finds it.
LEMMA TruthSolves ==
  ASSUME NetOK, NEW a \in [Inputs -> Sizes], NEW s, Solves(s, a)
  PROVE  /\ Solves(Tr(a), a) /\ Sound(Tr(a))
         /\ \A t \in Inputs : Equal(s, Tr(a), t)
         /\ \A i \in Ops : Agrees(s, Tr(a), i)
<1> DEFINE e == SetInputs(EmptyPipeline, a)
           r == Tr(a)
           fail == <<"none", 0>>
<1>1. Sound(e) /\ Given(e, a) /\ Differ(EmptyPipeline, e, {"shape", "content"})
  BY InputsSet, EmptySound
<1>2. \A i \in Ops : e.cache[i] = ClosedCache(FALSE)
  <2>1. e.cache = EmptyPipeline.cache
    BY <1>1 DEF Differ, Fields
  <2> HIDE DEF e
  <2> QED BY <2>1 DEF EmptyPipeline
<1> PICK held \in BOOLEAN : held = FALSE
  OBVIOUS
<1>3. r = Resize(e, held, fail)
  BY DEF Tr
<1> HIDE DEF e, r, fail
<1>4. Base(e, r) /\ (Complete(e, r, held) \/ Failed(e, r, held, fail))
  <2>1. Sound(e) /\ held \in BOOLEAN
    BY <1>1
  <2>2. /\ Base(e, Resize(e, held, fail))
        /\ Complete(e, Resize(e, held, fail), held) \/ Failed(e, Resize(e, held, fail), held, fail)
    BY <2>1, Ways
  <2> QED BY <1>3, <2>2
<1>5. Given(r, a) /\ Sound(r)
  BY <1>1, <1>3, <1>4, BaseGiven, SoundStays
<1>6. ASSUME NEW i \in Ops, Passed(e, r, i, held) PROVE r.need[i] /\ Valued(r, i)
  <2>1. r.need[i]
    <3>1. r.need[i] \in BOOLEAN
      BY <1>5 DEF Sound, IsState
    <3> QED BY <1>2, <1>6, <3>1 DEF Passed, ClosedCache
  <2> QED BY <1>1, <1>6, <2>1, NeedValued
<1>7. ~\E m \in Ops : Aborted(e, r, m, held, fail)
  <2> SUFFICES ASSUME NEW m \in Ops, Aborted(e, r, m, held, fail) PROVE FALSE
    OBVIOUS
  <2>1. ShapeFails(r, m)
    BY DEF Aborted, Broken, fail
  <2>2. \A i \in Ops : i < m => Valued(r, i) /\ Valued(s, i)
    BY <1>6 DEF Aborted, Solves, Solved
  <2>3. \A t \in Inputs : Equal(s, r, t)
    BY <1>5, GivenEqual DEF Solves
  <2>4. \A i \in Ops : i <= m - 1 => Equal(s, r, Out(i))
    <3>1. m - 1 \in 0..NumOps /\ \A i \in Ops : i <= m - 1 => i < m
      BY Numbers DEF Ops
    <3> QED BY <2>2, <2>3, <3>1, Unique
  <2>5. \A i \in Ops : i < m => i <= m - 1
    BY Numbers
  <2>6. ShapeFails(s, m)
    BY <2>1, <2>3, <2>4, <2>5, EqualBelow
  <2> QED BY <2>6 DEF Solves, Solved, Valued
<1>8. Complete(e, r, held)
  BY <1>4, <1>7 DEF Failed, fail
<1>9. Solves(r, a)
  BY <1>5, <1>6, <1>8 DEF Solves, Solved, Complete, Encoded
<1> QED BY <1>5, <1>9, SolvesUnique DEF r

-----------------------------------------------------------------------------
(* A resize while the check is open, or before.                             *)

\* What a cache that keeps the present inputs says of them.
LEMMA SnapshotSays ==
  ASSUME NetOK, NEW q, NEW i \in Ops
  PROVE  LET s == Snapshot(q, i)
         IN  /\ s # None /\ SizeFrom(i, s) = OutputSize(q, i)
             /\ ShapeFails(q, i) <=> Op(i).kind = "match" /\ s[1][1] # s[2][1]
             /\ Op(i).kind = "shapeOf" => s[1][1] = q.shape[Op(i).in[1]]
             /\ \A k \in DOMAIN Op(i).in : s[k][1] = q.shape[Op(i).in[k]]
             /\ q.shape[Out(i)] = OutputSize(q, i) => BasisFrom(q, i, s) = Basis(q, i)
<1> DEFINE s == Snapshot(q, i)
<1>1. /\ Op(i).kind \in Kinds
      /\ DOMAIN Op(i).in = IF Op(i).kind \in {"match", "interp"} THEN {1, 2} ELSE {1}
  BY DEF NetOK, Wired
<1>2. /\ DOMAIN s = DOMAIN Op(i).in
      /\ \A k \in DOMAIN Op(i).in :
            LET t == Op(i).in[k]
            IN  s[k][1] = q.shape[t] /\ (ContentInput(i, k) => s[k][2] = q.content[t])
  BY DEF Snapshot
<1> HIDE DEF s
<1>3. s # None
  <2>1. 1 \in DOMAIN s /\ DOMAIN None = {}
    BY <1>1, <1>2 DEF None
  <2> QED BY <2>1
<1>4. SizeFrom(i, s) = OutputSize(q, i)
  <2>1. CASE Op(i).kind \in {"same", "match"}
    BY <1>1, <1>2, <2>1 DEF SizeFrom, OutputSize
  <2>2. CASE Op(i).kind = "interp"
    BY <1>1, <1>2, <2>2 DEF SizeFrom, OutputSize, ContentInput
  <2>3. CASE Op(i).kind \notin {"same", "match", "interp"}
    BY <2>3 DEF SizeFrom, OutputSize
  <2> QED BY <2>1, <2>2, <2>3
<1>5. ShapeFails(q, i) <=> Op(i).kind = "match" /\ s[1][1] # s[2][1]
  BY <1>1, <1>2 DEF ShapeFails
<1>6. Op(i).kind = "shapeOf" => s[1][1] = q.shape[Op(i).in[1]]
  BY <1>1, <1>2
<1>7. q.shape[Out(i)] = OutputSize(q, i) => BasisFrom(q, i, s) = Basis(q, i)
  BY <1>2, <1>4 DEF BasisFrom, Basis
<1> QED BY <1>2, <1>3, <1>4, <1>5, <1>6, <1>7 DEF s

\* Commands were built from something.
LEMMA SomeBasis == \A q, i, s : BasisFrom(q, i, s) # None
<1> SUFFICES ASSUME NEW q, NEW i, NEW s PROVE BasisFrom(q, i, s) # None
  OBVIOUS
<1>1. \A x, y : <<x, y>> # <<>>
  <2>1. \A x, y : DOMAIN <<x, y>> = {1, 2} /\ DOMAIN <<>> = {}
    OBVIOUS
  <2> QED BY <2>1
<1> QED BY <1>1 DEF BasisFrom, None

LEMMA KnownKnew ==
  ASSUME NEW q, NEW i, Open(q, i), Known(q, i)
  PROVE  Knew(q, i)
  BY DEF Open, Known, Knew

\* A copy reads C or the output of an operator that has the content of a shape.
LEMMA CopyReads ==
  ASSUME NetOK, NEW i \in Ops, Op(i).kind = "copy"
  PROVE  /\ IsConst(i) /\ 1 \in DOMAIN Op(i).in /\ ~IsVirtual(Op(i).in[1])
         /\ DOMAIN Op(i).in = {1}
         /\ \/ Op(i).in[1] = C
            \/ \E j \in Ops : j < i /\ Copies(i, j) /\ Op(j).kind = "shapeOf"
         /\ \A j \in Ops : Copies(i, j) => j < i /\ Op(j).kind = "shapeOf" /\ IsConst(j)
<1>1. /\ DOMAIN Op(i).in = {1}
      /\ Op(i).in[1] = C \/ \E j \in Ops : j < i /\ Op(i).in[1] = Out(j) /\ IsConst(j)
  BY DEF NetOK, Wired
<1>2. ASSUME NEW j \in Ops, Op(i).in[1] = Out(j), j < i, IsConst(j) PROVE Op(j).kind = "shapeOf"
  <2>1. j # i
    BY <1>2, Numbers
  <2>2. Op(j).kind # "copy"
    BY <2>1 DEF NetOK
  <2> QED BY <1>2, <2>2 DEF IsConst, ConstKinds
<1>3. ~IsVirtual(Op(i).in[1])
  BY <1>1, <1>2, Places DEF IsVirtual
<1>4. ASSUME NEW j \in Ops, Copies(i, j) PROVE j < i /\ Op(j).kind = "shapeOf"
  BY <1>1, <1>2, <1>4, Places DEF Copies
<1> QED BY <1>1, <1>2, <1>3, <1>4 DEF IsConst, ConstKinds, Copies

\* A copy that was not computed again is run again, or what it copies is the
\* content of a shape that was not computed again.
CopiedFrom(q, r, i) ==
    IF r.dirty[i] THEN r.content[Out(i)] = r.content[Op(i).in[1]]
    ELSE \E j \in Ops : /\ j < i /\ Copies(i, j) /\ Op(j).kind = "shapeOf" /\ ~r.need[j]
                        /\ r.content[Out(i)] = q.content[Out(i)] /\ r.content[Out(j)] = q.content[Out(j)]

LEMMA CopyPassed ==
  ASSUME NetOK, NEW q, NEW r, NEW i \in Ops, NEW held, Op(i).kind = "copy", Passed(q, r, i, held),
         ~r.need[i], q.built[i] # None, \A j \in Ops : j < i => Passed(q, r, j, held)
  PROVE  CopiedFrom(q, r, i)
<1> DEFINE u == Op(i).in[1]
<1>1. ConstRun(q, r, i)
  BY CopyReads DEF Passed
<1>2. /\ r.dirty[i] = (u \in Inputs \/ ~r.kept[u])
      /\ r.content[Out(i)] = IF r.dirty[i] THEN r.content[u] ELSE q.content[Out(i)]
  BY <1>1 DEF ConstRun
<1>3. ASSUME NEW j \in Ops, Copies(i, j)
      PROVE  /\ j < i /\ Op(j).kind = "shapeOf" /\ u = Out(j) /\ u \notin Inputs
             /\ r.kept[u] = ~r.need[j]
             /\ ~r.need[j] => r.content[Out(j)] = q.content[Out(j)]
  <2>1. j < i /\ Op(j).kind = "shapeOf" /\ IsConst(j) /\ u = Out(j)
    BY <1>3, CopyReads DEF Copies
  <2>2. ConstRun(q, r, j)
    BY <2>1 DEF Passed
  <2> QED BY <2>1, <2>2, Places DEF ConstRun
<1>4. u = C \/ \E j \in Ops : Copies(i, j)
  BY CopyReads
<1>5. C \in Inputs
  BY Places
<1> HIDE DEF u
<1>6. CASE r.dirty[i]
  BY <1>2, <1>6 DEF u, CopiedFrom
<1>7. CASE ~r.dirty[i]
  BY <1>2, <1>3, <1>4, <1>5, <1>7 DEF u, CopiedFrom
<1> QED BY <1>6, <1>7

LEMMA CopyUnmoved ==
  ASSUME NetOK, NEW q, NEW r, NEW i \in Ops, NEW held, Op(i).kind = "copy", Passed(q, r, i, held), ~r.need[i],
         NEW j \in Ops, Copies(i, j), Passed(q, r, j, held), ~r.need[j]
  PROVE  r.content[Out(i)] = q.content[Out(i)]
<1>1. Op(j).kind = "shapeOf" /\ IsConst(j) /\ IsConst(i) /\ Op(i).in[1] = Out(j) /\ Out(j) \notin Inputs
  BY CopyReads, Places DEF Copies
<1>2. ConstRun(q, r, i) /\ ConstRun(q, r, j)
  BY <1>1 DEF Passed
<1>3. r.kept[Out(j)] = TRUE
  BY <1>1, <1>2 DEF ConstRun
<1> QED BY <1>1, <1>2, <1>3 DEF ConstRun

\* An operator that was not computed again was known, to have these inputs.
LEMMA Recognised ==
  ASSUME NEW q, NEW r, NEW i \in Ops, NEW held, Passed(q, r, i, held), ~r.need[i], Informed(q)
  PROVE  /\ q.cache[i].can /\ Knew(q, i) /\ Open(q, i) /\ Known(q, i)
         /\ r.cache[i] = q.cache[i] /\ q.cache[i].info = Snapshot(r, i)
<1>1. q.cache[i].can
  BY DEF Passed, Informed
<1>2. Knew(q, i) /\ r.cache[i] = q.cache[i] /\ q.cache[i].info = Snapshot(r, i)
  BY <1>1 DEF Passed
<1> QED BY <1>1, <1>2 DEF Knew, Open, Informed

LEMMA CheckedValued ==
  ASSUME NetOK, NEW q, NEW r, NEW i \in Ops, NEW held, Sound(q), Informed(q),
         \A j \in Ops : j <= i => Passed(q, r, j, held)
  PROVE  Valued(r, i)
<1>0. Passed(q, r, i, held)
  BY Numbers
<1>1. CASE r.need[i]
  BY <1>0, <1>1, NeedValued
<1>2. CASE ~r.need[i]
  <2> DEFINE s == Snapshot(r, i)
  <2>1. q.cache[i].info = s /\ Known(q, i)
    BY <1>0, <1>2, Recognised
  <2>2. /\ SizeFrom(i, s) = OutputSize(r, i)
        /\ ShapeFails(r, i) <=> Op(i).kind = "match" /\ s[1][1] # s[2][1]
        /\ Op(i).kind = "shapeOf" => s[1][1] = r.shape[Op(i).in[1]]
    BY SnapshotSays
  <2> HIDE DEF s
  <2>3. r.shape[Out(i)] = OutputSize(r, i) /\ ~ShapeFails(r, i)
    BY <1>0, <1>2, <2>1, <2>2 DEF Passed, Known
  <2>4. CASE ~IsConst(i)
    BY <1>0, <2>3, <2>4 DEF Passed, Sound, Valued, ContentOf, IsConst, ConstKinds
  <2>5. CASE Op(i).kind = "shapeOf"
    <3>1. r.content[Out(i)] = q.content[Out(i)]
      BY <1>0, <1>2, <2>5 DEF Passed, ConstRun, IsConst, ConstKinds
    <3> QED BY <2>1, <2>2, <2>3, <2>5, <3>1 DEF Valued, ContentOf, Known
  <2>6. CASE Op(i).kind = "copy"
    <3>1. q.built[i] # None
      BY <2>1, <2>6, SomeBasis DEF Known
    <3>2. \A j \in Ops : j < i => Passed(q, r, j, held)
      BY Numbers
    <3>3. r.content[Out(i)] = r.content[Op(i).in[1]]
      <4>1. \/ r.content[Out(i)] = r.content[Op(i).in[1]]
            \/ /\ r.content[Out(i)] = q.content[Out(i)]
               /\ \E j \in Ops : /\ j < i /\ Copies(i, j) /\ ~r.need[j]
                                 /\ r.content[Out(j)] = q.content[Out(j)]
        BY <1>0, <1>2, <2>6, <3>1, <3>2, CopyPassed, ZenonT(40) DEF CopiedFrom
      <4>2. ASSUME NEW j \in Ops, j < i, Copies(i, j), ~r.need[j] PROVE q.content[Out(i)] = q.content[Out(j)]
        <5>1. q.cache[j].can
          BY <3>2, <4>2, Recognised
        <5> QED BY <2>1, <4>2, <5>1 DEF Known
      <4>3. \A j \in Ops : Copies(i, j) => Op(i).in[1] = Out(j)
        BY DEF Copies
      <4> QED BY <4>1, <4>2, <4>3
    <3> QED BY <2>3, <2>6, <3>3 DEF Valued, ContentOf
  <2> QED BY <2>4, <2>5, <2>6 DEF IsConst, ConstKinds
<1> QED BY <1>1, <1>2

\* A resize that succeeds is right.
LEMMA CheckedSolves ==
  ASSUME NetOK, NEW q, NEW r, NEW held, NEW a, Sound(q), Informed(q), Given(q, a), Base(q, r), Complete(q, r, held)
  PROVE  Solves(r, a)
<1>1. \A i \in Ops : Passed(q, r, i, held)
  BY DEF Complete, Encoded
<1>2. ASSUME NEW i \in Ops PROVE Valued(r, i)
  BY <1>1, CheckedValued
<1>3. ASSUME NEW i \in Ops, ~IsConst(i) PROVE r.built[i] = Basis(r, i)
  <2>1. CASE r.need[i]
    BY <1>3, <2>1 DEF Complete, Encoded
  <2>2. CASE ~r.need[i]
    <3> DEFINE s == Snapshot(r, i)
    <3>1. q.cache[i].info = s /\ Known(q, i) /\ q.cache[i].can
      BY <1>1, <2>2, Recognised
    <3>2. r.built[i] = BasisFrom(q, i, s)
      BY <1>3, <2>2, <3>1 DEF Complete, Encoded, Known, IsConst, ConstKinds
    <3>3. BasisFrom(r, i, s) = Basis(r, i)
      BY <1>2, SnapshotSays DEF Valued
    <3>4. BasisFrom(q, i, s) = BasisFrom(r, i, s)
      <4> SUFFICES ASSUME NEW k \in DOMAIN Op(i).in, IsVirtual(Op(i).in[k])
                   PROVE  q.built[Op(i).in[k] - 3] = r.built[Op(i).in[k] - 3]
        BY DEF BasisFrom
      <4> DEFINE j == Op(i).in[k] - 3
      <4>1. j \in Ops /\ Op(j).kind = "crop"
        BY ReadsBefore
      <4>2. ~r.need[j]
        BY <1>1, <2>2, <3>1 DEF Passed
      <4> HIDE DEF j
      <4>3. q.built[j] = r.built[j]
        BY <4>1, <4>2 DEF Complete, Encoded, IsConst, ConstKinds
      <4> QED BY <4>3 DEF j
    <3> QED BY <3>2, <3>3, <3>4
  <2> QED BY <2>1, <2>2
<1> QED BY <1>2, <1>3, BaseGiven DEF Solves, Solved

\* A resize has gone through all operators or has failed at one.
Gone(q, r, held, fail) == Encoded(q, r, held) \/ \E m \in Ops : Aborted(q, r, m, held, fail)

\* The commands of operator i are as they were.
Kept(q, r, i) == r.built[i] = q.built[i] /\ r.exe[i] = q.exe[i] /\ r.cmdGroup[i] = q.cmdGroup[i]

\* What it has made of each operator.
Fate(q, r, i, held, fail) ==
    \/ Passed(q, r, i, held) /\ \A j \in Ops : j < i => Passed(q, r, j, held)
    \/ Broken(q, r, i, held, fail) /\ \A j \in Ops : j < i => Passed(q, r, j, held)
    \/ Remains(q, r, i)

LEMMA Fates ==
  ASSUME NEW q, NEW r, NEW held, NEW fail, Gone(q, r, held, fail), NEW i \in Ops
  PROVE  /\ Fate(q, r, i, held, fail)
         /\ IsConst(i) => r.cmdGroup[i] = q.cmdGroup[i]
         /\ ~IsConst(i) => \/ Kept(q, r, i) /\ (~r.need[i] \/ ~Encoded(q, r, held))
                           \/ Encoded(q, r, held) /\ r.need[i] /\ r.built[i] = Basis(r, i) /\ r.cmdGroup[i] = 0
<1>1. CASE Encoded(q, r, held)
  BY <1>1 DEF Encoded, Fate, Kept
<1>2. ASSUME ~Encoded(q, r, held), NEW m \in Ops, Aborted(q, r, m, held, fail)
      PROVE  /\ Fate(q, r, i, held, fail) /\ r.cmdGroup[i] = q.cmdGroup[i]
             /\ ~IsConst(i) => Kept(q, r, i)
  <2>1. \A j \in Ops : j < m => Passed(q, r, j, held)
    BY <1>2 DEF Aborted
  <2>2. Fate(q, r, i, held, fail)
    <3>1. CASE i < m
      <4>1. \A j \in Ops : j < i => j < m
        BY <3>1, Numbers
      <4> QED BY <2>1, <3>1, <4>1 DEF Fate
    <3>2. CASE i > m
      BY <1>2, <3>2 DEF Aborted, Fate
    <3>3. CASE i = m
      BY <1>2, <2>1, <3>3 DEF Aborted, Fate
    <3> QED BY <3>1, <3>2, <3>3, Numbers
  <2> QED BY <1>2, <2>2 DEF Aborted, Kept
<1> QED BY <1>1, <1>2 DEF Gone

LEMMA UngroupedStays ==
  ASSUME NetOK, NEW q, NEW r, NEW held, NEW fail, Base(q, r), Gone(q, r, held, fail), Ungrouped(q)
  PROVE  Ungrouped(r)
<1>1. ASSUME NEW i \in Ops PROVE r.group[Out(i)] = 0 /\ r.cmdGroup[i] = 0
  <2>1. q.group[Out(i)] = 0 /\ q.cmdGroup[i] = 0
    BY Places DEF Ungrouped
  <2>2. r.group[Out(i)] = 0
    <3>1. Fate(q, r, i, held, fail)
      BY Fates
    <3> QED BY <2>1, <3>1 DEF Fate, Passed, Broken, Vacated, Remains, TFields
  <2>3. r.cmdGroup[i] = 0
    BY <2>1, Fates DEF Kept
  <2> QED BY <2>2, <2>3
<1>2. \A t \in Inputs : r.group[t] = 0
  BY Places DEF Base, Ungrouped
<1> QED BY <1>1, <1>2, Places DEF Ungrouped

\* A cache that is open after the resize keeps the present inputs.
LEMMA OpenSnapshot ==
  ASSUME NEW q, NEW r, NEW i \in Ops, NEW held, Passed(q, r, i, held), Informed(q), r.cache[i].can
  PROVE  /\ q.cache[i].can /\ Open(r, i) /\ r.cache[i].info = Snapshot(r, i)
         /\ r.need[i] => ~Knew(q, i)
<1>1. CASE r.need[i]
  BY <1>1 DEF Passed, Open
<1>2. CASE ~r.need[i]
  <2>1. q.cache[i].can /\ Open(q, i) /\ r.cache[i] = q.cache[i] /\ q.cache[i].info = Snapshot(r, i)
    BY <1>2, Recognised
  <2> QED BY <1>2, <2>1 DEF Open
<1> QED BY <1>1, <1>2

LEMMA OpenKnown ==
  ASSUME NetOK, NEW q, NEW r, NEW i \in Ops, NEW held, Sound(q), Informed(q),
         \A j \in Ops : j <= i => Passed(q, r, j, held), r.cache[i].can,
         Op(i).kind # "shapeOf" => r.built[i] = Basis(r, i),
         Op(i).kind \notin {"shapeOf", "crop"} => r.exe[i]
  PROVE  Known(r, i)
<1> DEFINE s == Snapshot(r, i)
<1>1. r.cache[i].info = s
  BY OpenSnapshot, Numbers
<1>2. Valued(r, i)
  BY CheckedValued
<1>3. /\ s # None /\ SizeFrom(i, s) = OutputSize(r, i)
      /\ ShapeFails(r, i) <=> Op(i).kind = "match" /\ s[1][1] # s[2][1]
      /\ Op(i).kind = "shapeOf" => s[1][1] = r.shape[Op(i).in[1]]
      /\ r.shape[Out(i)] = OutputSize(r, i) => BasisFrom(r, i, s) = Basis(r, i)
  BY SnapshotSays
<1> HIDE DEF s
<1>4. ASSUME NEW j \in Ops, Copies(i, j), r.cache[j].can
      PROVE  r.cache[j].computed /\ r.content[Out(i)] = r.content[Out(j)]
  <2>1. j <= i
    BY <1>4, CopyReads, Numbers DEF Copies
  <2>2. Open(r, j)
    BY <1>4, <2>1, OpenSnapshot
  <2>3. r.content[Out(i)] = r.content[Out(j)]
    BY <1>2, <1>4 DEF Valued, ContentOf, Copies
  <2> QED BY <2>2, <2>3 DEF Open
<1>5. /\ Op(i).kind = "match" => s[1][1] = s[2][1]
      /\ Op(i).kind = "shapeOf" => r.content[Out(i)] = s[1][1]
  BY <1>2, <1>3 DEF Valued, ContentOf
<1>6. r.shape[Out(i)] = SizeFrom(i, s) /\ (Op(i).kind # "shapeOf" => r.built[i] = BasisFrom(r, i, s))
  BY <1>2, <1>3 DEF Valued
<1> QED BY <1>1, <1>3, <1>4, <1>5, <1>6 DEF Known

LEMMA ClosedFails ==
  ASSUME NEW q, NEW r, NEW held, NEW fail, Gone(q, r, held, fail), Informed(q), NEW i \in Ops, ~r.cache[i].can
  PROVE  ~r.cache[i].pass
<1>1. CASE Passed(q, r, i, held)
  <2>1. r.need[i]
    BY <1>1, Recognised
  <2> QED BY <1>1, <2>1 DEF Passed
<1>2. CASE Broken(q, r, i, held, fail)
  BY <1>2 DEF Broken
<1>3. CASE Remains(q, r, i)
  BY <1>3 DEF Remains, OFields, Informed
<1> QED BY <1>1, <1>2, <1>3, Fates DEF Fate

\* The commands of an operator whose cache has been filled, or has matched.
LEMMA FilledBuilt ==
  ASSUME NetOK, NEW q, NEW r, NEW i \in Ops, NEW held, NEW fail, ~q.release, Gone(q, r, held, fail),
         Passed(q, r, i, held), r.need[i], r.cache[i].can, r.cache[i].computed, ~q.cache[i].computed,
         ~HalfBuilt(q, r, i, fail)
  PROVE  /\ Op(i).kind # "shapeOf" => r.built[i] = Basis(r, i)
         /\ Op(i).kind \notin {"shapeOf", "crop"} => r.exe[i]
<1>1. /\ ~IsConst(i) => r.code # "COMPUTE_SIZE_ERROR" /\ fail[1] # "const"
      /\ Commands(i) => r.exe[i]
  BY DEF HalfBuilt
<1>2. CASE IsConst(i)
  <2>1. ConstRun(q, r, i)
    BY <1>2 DEF Passed
  <2> QED BY <1>2, <2>1 DEF ConstRun, IsConst, ConstKinds
<1>3. CASE ~IsConst(i)
  <2>1. \A m \in Ops : ~Aborted(q, r, m, held, fail)
    BY <1>1, <1>3 DEF Aborted, Broken
  <2>2. r.built[i] = Basis(r, i)
    BY <1>3, <2>1 DEF Gone, Encoded
  <2>3. Op(i).kind # "crop" => Commands(i)
    BY <1>3 DEF NetOK, Wired, Kinds, Commands, IsConst, ConstKinds
  <2> QED BY <1>1, <2>2, <2>3
<1> QED BY <1>2, <1>3

LEMMA KeptBuilt ==
  ASSUME NetOK, NEW q, NEW r, NEW i \in Ops, NEW held, NEW fail, Informed(q), ~q.release,
         Gone(q, r, held, fail), Passed(q, r, i, held), ~r.need[i], Valued(r, i)
  PROVE  /\ Op(i).kind # "shapeOf" => r.built[i] = Basis(r, i)
         /\ Op(i).kind \notin {"shapeOf", "crop"} => r.exe[i]
<1> DEFINE s == Snapshot(r, i)
<1>1. Known(q, i) /\ q.cache[i].info = s /\ q.cache[i].can
  BY Recognised
<1>2. BasisFrom(r, i, s) = Basis(r, i)
  BY SnapshotSays DEF Valued
<1> HIDE DEF s
<1>3. ASSUME NEW k \in DOMAIN Op(i).in, IsVirtual(Op(i).in[k])
      PROVE  q.built[Op(i).in[k] - 3] = r.built[Op(i).in[k] - 3]
  <2> DEFINE j == Op(i).in[k] - 3
  <2>1. j \in Ops /\ Op(j).kind = "crop"
    BY <1>3, ReadsBefore
  <2>2. ~r.need[j]
    BY <1>1, <1>3 DEF Passed
  <2> HIDE DEF j
  <2>3. ~IsConst(j)
    BY <2>1 DEF IsConst, ConstKinds
  <2>4. q.built[j] = r.built[j]
    BY <2>1, <2>2, <2>3, Fates DEF Kept
  <2> QED BY <2>4 DEF j
<1>4. BasisFrom(q, i, s) = BasisFrom(r, i, s)
  BY <1>3 DEF BasisFrom
<1>5. CASE ~IsConst(i)
  <2>1. r.built[i] = q.built[i] /\ r.exe[i] = q.exe[i]
    BY <1>5, Fates DEF Kept
  <2> QED BY <1>1, <1>2, <1>4, <1>5, <2>1 DEF Known, IsConst, ConstKinds
<1>6. CASE Op(i).kind = "copy"
  <2>1. IsConst(i) /\ ConstRun(q, r, i)
    BY <1>6, CopyReads DEF Passed
  <2>2. q.exe[i] /\ q.built[i] = BasisFrom(q, i, s)
    BY <1>1, <1>6 DEF Known
  <2>3. q.built[i] # None
    BY <2>2, SomeBasis
  <2>4. r.exe[i] = q.exe[i] /\ r.built[i] = q.built[i]
    BY <1>6, <2>1, <2>3 DEF ConstRun
  <2> QED BY <1>2, <1>4, <2>2, <2>4
<1>7. CASE Op(i).kind = "shapeOf"
  BY <1>7
<1> QED BY <1>5, <1>6, <1>7 DEF IsConst, ConstKinds

\* A resize that fails leaves open caches that know their operators, unless it
\* leaves one of them half built.
LEMMA FailedInformed ==
  ASSUME NetOK, NEW q, NEW r, NEW held, NEW fail, Sound(q), Informed(q), Gone(q, r, held, fail),
         ~q.release, \A i \in Ops : ~HalfBuilt(q, r, i, fail)
  PROVE  Informed(r)
<1> SUFFICES ASSUME NEW i \in Ops, Open(r, i) PROVE Known(r, i)
  BY ClosedFails DEF Informed
<1>0. r.cache[i].can /\ r.cache[i].computed
  BY DEF Open
<1>1. q.cache[i].can /\ ~Knew(q, i) => ~q.cache[i].computed
  BY KnownKnew DEF Informed, Open
<1>2. CASE Passed(q, r, i, held) /\ \A j \in Ops : j < i => Passed(q, r, j, held)
  <2>1. \A j \in Ops : j <= i => j < i \/ j = i
    BY Numbers
  <2>2. \A j \in Ops : j <= i => Passed(q, r, j, held)
    BY <1>2, <2>1
  <2>3. Valued(r, i)
    BY <2>2, CheckedValued
  <2>4. q.cache[i].can /\ (r.need[i] => ~q.cache[i].computed)
    BY <1>0, <1>1, <1>2, OpenSnapshot
  <2>5. /\ Op(i).kind # "shapeOf" => r.built[i] = Basis(r, i)
        /\ Op(i).kind \notin {"shapeOf", "crop"} => r.exe[i]
    BY <1>0, <1>2, <2>3, <2>4, FilledBuilt, KeptBuilt
  <2> QED BY <1>0, <2>2, <2>5, OpenKnown
<1>3. CASE Broken(q, r, i, held, fail)
  <2>1. q.cache[i].can /\ ~Knew(q, i)
    BY <1>0, <1>3 DEF Broken
  <2>2. r.cache[i] = q.cache[i] \/ fail = <<"const", i>>
    BY <1>0, <1>3 DEF Broken
  <2> QED BY <1>0, <1>1, <2>1, <2>2 DEF HalfBuilt
<1>4. CASE Remains(q, r, i)
  <2>1. /\ r.cache[i] = q.cache[i] /\ r.shape[Out(i)] = q.shape[Out(i)] /\ r.content[Out(i)] = q.content[Out(i)]
        /\ r.built[i] = q.built[i] /\ r.exe[i] = q.exe[i]
    BY <1>4 DEF Remains, TFields, OFields
  <2>2. Known(q, i)
    BY <2>1 DEF Open, Informed
  <2> DEFINE s == q.cache[i].info
  <2>3. BasisFrom(r, i, s) = BasisFrom(q, i, s)
    <3> SUFFICES ASSUME NEW k \in DOMAIN Op(i).in, IsVirtual(Op(i).in[k])
                 PROVE  q.built[Op(i).in[k] - 3] = r.built[Op(i).in[k] - 3]
      BY DEF BasisFrom
    <3> DEFINE j == Op(i).in[k] - 3
    <3>1. j \in Ops /\ Op(j).kind = "crop" /\ Op(i).in[k] = Out(j)
      BY ReadsBefore
    <3>5. ~IsConst(j)
      BY <3>1 DEF IsConst, ConstKinds
    <3> HIDE DEF j
    <3>2. CASE Kept(q, r, j)
      BY <3>2 DEF Kept, j
    <3>3. CASE Encoded(q, r, held)
      \* What remains in a resize that has gone through all passed all the same.
      <4>1. Passed(q, r, i, held) /\ r.cache[i].can /\ q.cache[i].can /\ Knew(q, i)
        BY <1>0, <2>1, <2>2, <3>3, KnownKnew DEF Encoded, Open
      <4>2. ~r.need[i]
        BY <4>1, OpenSnapshot
      <4>3. ~r.need[j]
        BY <4>1, <4>2 DEF Passed, j
      <4>4. Kept(q, r, j)
        BY <3>1, <3>3, <3>5, <4>3 DEF Encoded, Kept
      <4> QED BY <3>2, <4>4
    <3> QED BY <3>1, <3>2, <3>3, <3>5, Fates
  <2>4. ASSUME NEW j \in Ops, Copies(i, j), r.cache[j].can
        PROVE  r.cache[j].computed /\ r.content[Out(i)] = r.content[Out(j)]
    <3>0. Op(j).kind = "shapeOf" /\ IsConst(j)
      BY <2>4, CopyReads DEF Copies
    <3>1. CASE Passed(q, r, j, held)
      <4>1. q.cache[j].can /\ Open(r, j) /\ (r.need[j] => ~Knew(q, j))
        BY <2>4, <3>1, OpenSnapshot
      <4>2. q.cache[j].computed /\ q.content[Out(i)] = q.content[Out(j)]
        BY <2>2, <2>4, <4>1 DEF Known
      <4>3. Knew(q, j)
        BY <4>1, <4>2, KnownKnew DEF Open, Informed
      <4>4. r.content[Out(j)] = q.content[Out(j)]
        <5>1. ConstRun(q, r, j) /\ ~r.need[j]
          BY <3>0, <3>1, <4>1, <4>3 DEF Passed
        <5> QED BY <3>0, <5>1 DEF ConstRun
      <4> QED BY <2>1, <4>1, <4>2, <4>4 DEF Open
    <3>2. CASE Broken(q, r, j, held, fail)
      BY <3>0, <3>2 DEF Broken, ShapeFails
    <3>3. CASE Remains(q, r, j)
      <4>1. r.cache[j] = q.cache[j] /\ r.content[Out(j)] = q.content[Out(j)]
        BY <3>3 DEF Remains, TFields, OFields
      <4> QED BY <2>1, <2>2, <2>4, <4>1 DEF Known
    <3> QED BY <3>1, <3>2, <3>3, Fates DEF Fate
  <2> HIDE DEF s
  <2> QED BY <2>1, <2>2, <2>3, <2>4 DEF Known, s
<1> QED BY <1>2, <1>3, <1>4, Fates DEF Fate

\* The commands and executions that a resize that succeeds leaves.
LEMMA CompleteBuilt ==
  ASSUME NetOK, NEW q, NEW r, NEW held, Sound(q), Informed(q), ~q.release, Complete(q, r, held),
         \A i \in Ops : Solved(r, i), NEW i \in Ops
  PROVE  /\ Commands(i) => r.exe[i]
         /\ r.cache[i].can => /\ Op(i).kind # "shapeOf" => r.built[i] = Basis(r, i)
                              /\ Op(i).kind \notin {"shapeOf", "crop"} => r.exe[i]
<1>0. \A j \in Ops : Passed(q, r, j, held)
  BY DEF Complete, Encoded
<1>1. CASE ~IsConst(i)
  <2>1. ASSUME ~r.need[i] PROVE Known(q, i) /\ r.exe[i] = q.exe[i]
    BY <1>0, <1>1, <2>1, Recognised DEF Complete, Encoded
  <2>2. Op(i).kind # "crop" => r.exe[i]
    BY <1>1, <2>1 DEF Complete, Known, IsConst, ConstKinds
  <2> QED BY <1>1, <2>2 DEF Solved, Commands
<1>2. CASE Op(i).kind = "copy"
  <2>1. IsConst(i) /\ ~Commands(i) /\ ConstRun(q, r, i)
    BY <1>0, <1>2 DEF IsConst, ConstKinds, Commands, Passed
  <2>2. CASE r.need[i]
    BY <1>2, <2>1, <2>2 DEF ConstRun
  <2>3. CASE ~r.need[i]
    <3>1. Gone(q, r, held, <<"none", 0>>) /\ Valued(r, i)
      BY DEF Complete, Gone, Solved
    <3> QED BY <1>0, <1>2, <2>1, <2>3, <3>1, KeptBuilt
  <2> QED BY <2>2, <2>3
<1>3. CASE Op(i).kind = "shapeOf"
  BY <1>3 DEF Commands
<1> QED BY <1>1, <1>2, <1>3 DEF IsConst, ConstKinds

LEMMA CompleteInformed ==
  ASSUME NetOK, NEW q, NEW r, NEW held, Sound(q), Informed(q), ~q.release, Complete(q, r, held),
         \A i \in Ops : Solved(r, i)
  PROVE  Informed(r)
<1> SUFFICES ASSUME NEW i \in Ops PROVE (~r.cache[i].can => ~r.cache[i].pass) /\ (Open(r, i) => Known(r, i))
  BY DEF Informed
<1>1. Gone(q, r, held, <<"none", 0>>) /\ \A j \in Ops : Passed(q, r, j, held)
  BY DEF Complete, Encoded, Gone
<1>2. ~r.cache[i].can => ~r.cache[i].pass
  BY <1>1, ClosedFails
<1>3. ASSUME Open(r, i) PROVE Known(r, i)
  <2>1. r.cache[i].can
    BY <1>3 DEF Open
  <2>2. /\ Op(i).kind # "shapeOf" => r.built[i] = Basis(r, i)
        /\ Op(i).kind \notin {"shapeOf", "crop"} => r.exe[i]
    BY <2>1, CompleteBuilt
  <2> QED BY <1>1, <2>1, <2>2, OpenKnown
<1> QED BY <1>2, <1>3

\* What was the same for all inputs that were shown is the same still, or its
\* cache is closed.
LEMMA ShownStays ==
  ASSUME NEW q, NEW r, NEW held, NEW fail, Informed(q), Informed(r), Gone(q, r, held, fail),
         NEW S, ShownOK(q, S)
  PROVE  ShownOK(r, S)
<1> SUFFICES ASSUME NEW i \in Ops, r.cache[i].can
             PROVE  /\ r.cache[i].computed
                    /\ \A a \in S : /\ r.cache[i].info = Snapshot(Tr(a), i)
                                    /\ ~IsConst(i) => r.built[i] = Tr(a).built[i]
  BY DEF ShownOK
<1>1. ASSUME q.cache[i].can
      PROVE  /\ q.cache[i].computed /\ Knew(q, i)
             /\ \A a \in S : /\ q.cache[i].info = Snapshot(Tr(a), i)
                             /\ ~IsConst(i) => q.built[i] = Tr(a).built[i]
  <2>1. q.cache[i].computed
    BY <1>1 DEF ShownOK
  <2>2. Knew(q, i)
    BY <1>1, <2>1, KnownKnew DEF Informed, Open
  <2> QED BY <1>1, <2>1, <2>2 DEF ShownOK
<1>2. CASE Passed(q, r, i, held)
  <2>1. q.cache[i].can /\ (r.need[i] => ~Knew(q, i))
    BY <1>2, OpenSnapshot
  <2>2. ~r.need[i]
    BY <1>1, <2>1
  <2>3. r.cache[i] = q.cache[i]
    BY <1>2, <2>2 DEF Passed
  <2>4. ~IsConst(i) => r.built[i] = q.built[i]
    BY <2>2, Fates DEF Kept
  <2> QED BY <1>1, <2>1, <2>3, <2>4
<1>3. CASE Broken(q, r, i, held, fail)
  <2>1. q.cache[i].can
    BY <1>3 DEF Broken
  <2>2. ~Knew(q, i)
    BY <1>3 DEF Broken
  <2> QED BY <1>1, <2>1, <2>2
<1>4. CASE Remains(q, r, i)
  <2>1. r.cache[i] = q.cache[i] /\ r.built[i] = q.built[i]
    BY <1>4 DEF Remains, OFields
  <2> QED BY <1>1, <2>1
<1> QED BY <1>2, <1>3, <1>4, Fates DEF Fate

LEMMA ShownMore ==
  ASSUME NetOK, NEW q, NEW r, NEW held, Informed(q), Informed(r), Complete(q, r, held),
         NEW S, S # {} => ShownOK(q, S), NEW a, Solves(r, a), Solves(Tr(a), a)
  PROVE  ShownOK(r, S \cup {a})
<1>1. /\ \A t \in Inputs : Equal(r, Tr(a), t)
      /\ \A i \in Ops : Agrees(r, Tr(a), i)
  BY SolvesUnique
<1>2. Gone(q, r, held, <<"none", 0>>) /\ \A i \in Ops : Passed(q, r, i, held)
  BY DEF Complete, Encoded, Gone
<1>3. S # {} => ShownOK(r, S)
  BY <1>2, ShownStays
<1> SUFFICES ASSUME NEW i \in Ops, r.cache[i].can
             PROVE  /\ r.cache[i].computed
                    /\ \A b \in S \cup {a} : /\ r.cache[i].info = Snapshot(Tr(b), i)
                                             /\ ~IsConst(i) => r.built[i] = Tr(b).built[i]
  BY DEF ShownOK
<1>4. r.cache[i].computed /\ r.cache[i].info = Snapshot(r, i)
  BY <1>2, OpenSnapshot DEF Open
<1>5. Snapshot(Tr(a), i) = Snapshot(r, i)
  BY <1>1, EqualBelow DEF Agrees
<1>6. ~IsConst(i) => r.built[i] = Tr(a).built[i]
  BY <1>1 DEF Agrees
<1>7. ASSUME NEW b \in S PROVE r.cache[i].info = Snapshot(Tr(b), i) /\ (~IsConst(i) => r.built[i] = Tr(b).built[i])
  BY <1>3 DEF ShownOK
<1> QED BY <1>4, <1>5, <1>6, <1>7

LEMMA Settles ==
  ASSUME NetOK, NEW q, NEW r, NEW held, Informed(q), Complete(q, r, held)
  PROVE  Settled(r)
<1>1. \A i \in Ops : Passed(q, r, i, held)
  BY DEF Complete, Encoded
<1>2. ASSUME NEW i \in Ops, ~r.cache[i].can PROVE r.need[i]
  BY <1>1, <1>2, Recognised
<1>3. ASSUME NEW i \in Ops, r.cache[i].can PROVE r.cache[i].info = Snapshot(r, i)
  BY <1>1, <1>3, OpenSnapshot
<1>4. ASSUME NEW i \in Ops, r.cache[i].can, Op(i).kind = "copy", ~r.dirty[i]
      PROVE  \E j \in Ops : Copies(i, j) /\ r.cache[j].can
  <2>1. ConstRun(q, r, i)
    BY <1>1, <1>4, CopyReads DEF Passed
  <2>2. ~r.need[i]
    BY <1>4, <2>1 DEF ConstRun
  <2>3. q.built[i] # None
    <3>1. Known(q, i)
      BY <1>1, <2>2, Recognised
    <3> QED BY <1>4, <3>1, SomeBasis DEF Known
  <2>4. \E j \in Ops : Copies(i, j) /\ ~r.need[j]
    BY <1>1, <1>4, <2>2, <2>3, CopyPassed DEF CopiedFrom
  <2>5. \A j \in Ops : ~r.need[j] => r.cache[j].can
    BY <1>1, Recognised
  <2> QED BY <2>4, <2>5
<1> QED BY <1>2, <1>3, <1>4 DEF Settled

\* The memory of a resize that succeeds, as long as nothing is fixed.
LEMMA CompleteDone ==
  ASSUME NetOK, NEW q, NEW r, NEW held, Complete(q, r, held), Ungrouped(r),
         \A i \in Ops : Commands(i) => r.exe[i]
  PROVE  Done(r, FALSE)
<1>1. \A i \in Ops : Out(i) \in Tensors
  BY Places
<1> QED BY <1>1 DEF Done, Complete, Ungrouped

-----------------------------------------------------------------------------
(* The network never changes: what the definitions say of a pipeline is the *)
(* same before and after a step.                                            *)

LEMMA OpStays ==
  ASSUME net' = net
  PROVE  /\ \A i : Op(i)' = Op(i) /\ IsConst(i)' = IsConst(i) /\ Commands(i)' = Commands(i)
         /\ \A t : IsVirtual(t)' = IsVirtual(t)
         /\ \A i, k : ContentInput(i, k)' = ContentInput(i, k)
         /\ \A i, j : Copies(i, j)' = Copies(i, j)
<1>1. \A i : Op(i)' = Op(i)
  BY DEF Op
<1> QED BY <1>1 DEF IsConst, Commands, IsVirtual, ContentInput, Copies

LEMMA ReadsStay ==
  ASSUME net' = net
  PROVE  /\ \A q, i : Snapshot(q, i)' = Snapshot(q, i)
         /\ \A q, i : Basis(q, i)' = Basis(q, i)
         /\ \A q, i : OutputSize(q, i)' = OutputSize(q, i)
         /\ \A q, i : ShapeFails(q, i)' = ShapeFails(q, i)
         /\ \A q, i : ContentOf(q, i)' = ContentOf(q, i)
         /\ \A i, s : SizeFrom(i, s)' = SizeFrom(i, s)
         /\ \A q, i, s : BasisFrom(q, i, s)' = BasisFrom(q, i, s)
<1>1. \A q, i : Snapshot(q, i)' = Snapshot(q, i)
  BY OpStays DEF Snapshot
<1>2. \A q, i : Basis(q, i)' = Basis(q, i)
  BY OpStays DEF Basis
<1>3. \A q, i : OutputSize(q, i)' = OutputSize(q, i)
  BY OpStays DEF OutputSize
<1>4. \A q, i : ShapeFails(q, i)' = ShapeFails(q, i)
  BY OpStays DEF ShapeFails
<1>5. \A q, i : ContentOf(q, i)' = ContentOf(q, i)
  BY OpStays DEF ContentOf
<1>6. \A i, s : SizeFrom(i, s)' = SizeFrom(i, s)
  BY OpStays DEF SizeFrom
<1>7. \A q, i, s : BasisFrom(q, i, s)' = BasisFrom(q, i, s)
  BY <1>6, OpStays DEF BasisFrom
<1> QED BY <1>1, <1>2, <1>3, <1>4, <1>5, <1>6, <1>7

LEMMA StepsStay ==
  ASSUME net' = net
  PROVE  /\ \A q, i, held, fail : ShapeStep(q, i, held, fail)' = ShapeStep(q, i, held, fail)
         /\ \A q, i : GeometryStep(q, i)' = GeometryStep(q, i)
<1>1. \A q, i : Match(q, i)' = Match(q, i)
  <2>1. \A q, i : Same(q, i)' = Same(q, i)
    BY OpStays, ReadsStay DEF Same
  <2> QED BY <2>1 DEF Match
<1>2. \A q, i : Infer(q, i)' = Infer(q, i)
  <2>1. \A q, i : Insert(q, i)' = Insert(q, i)
    <3> SUFFICES ASSUME NEW q, NEW i PROVE Insert(q, i)' = Insert(q, i)
      OBVIOUS
    <3>1. Snapshot(q, i)' = Snapshot(q, i)
      BY ReadsStay
    <3> QED BY <3>1 DEF Insert
  <2> QED BY <2>1, ReadsStay DEF Infer
<1>3. \A q, i, held : DropOutput(q, i, held)' = DropOutput(q, i, held)
  <2> SUFFICES ASSUME NEW q, NEW i, NEW held PROVE DropOutput(q, i, held)' = DropOutput(q, i, held)
    OBVIOUS
  <2>1. IsConst(i)' = IsConst(i)
    BY OpStays
  <2> QED BY <2>1, Zenon DEF DropOutput, Close, Out
<1>4. \A q, i, need, fail : ConstStep(q, i, need, fail)' = ConstStep(q, i, need, fail)
  <2>1. \A q, i, need : Dirty(q, i, need)' = Dirty(q, i, need)
    BY OpStays DEF Dirty
  <2>2. \A q, i, need, fail : BuildConst(q, i, need, fail)' = BuildConst(q, i, need, fail)
    <3> SUFFICES ASSUME NEW q, NEW i, NEW need, NEW fail PROVE BuildConst(q, i, need, fail)' = BuildConst(q, i, need, fail)
      OBVIOUS
    <3>1. Op(i)' = Op(i) /\ Basis(q, i)' = Basis(q, i)
      BY OpStays, ReadsStay
    <3> QED BY <3>1, Zenon DEF BuildConst
  <2>3. \A q, i, need : RunConst(q, i, need)' = RunConst(q, i, need)
    <3> SUFFICES ASSUME NEW q, NEW i, NEW need PROVE RunConst(q, i, need)' = RunConst(q, i, need)
      OBVIOUS
    <3>1. Op(i)' = Op(i) /\ Dirty(q, i, need)' = Dirty(q, i, need)
      BY <2>1, OpStays
    <3> QED BY <3>1, Zenon DEF RunConst
  <2> QED BY <2>2, <2>3 DEF ConstStep
<1>5. \A q, i, held, fail : ShapeStep(q, i, held, fail)' = ShapeStep(q, i, held, fail)
  <2> SUFFICES ASSUME NEW q, NEW i, NEW held, NEW fail PROVE ShapeStep(q, i, held, fail)' = ShapeStep(q, i, held, fail)
    OBVIOUS
  <2> DEFINE d == [DropOutput(q, i, held) EXCEPT !.fresh[Out(i)] = FALSE]
             need == ~Match(d, i)
             e == IF need THEN CloseVarying(d, i) ELSE d
             n == [IF need THEN Infer(e, i) ELSE e EXCEPT !.need[i] = need]
  <2>1. ShapeStep(q, i, held, fail) =
           IF ~Ok(q) THEN q
           ELSE IF need /\ ShapeFails(e, i) THEN [e EXCEPT !.code = "COMPUTE_SIZE_ERROR"]
           ELSE IF IsConst(i) THEN ConstStep(n, i, need, fail) ELSE n
    BY DEF ShapeStep
  <2>2. ShapeStep(q, i, held, fail)' =
           IF ~Ok(q) THEN q
           ELSE IF need' /\ ShapeFails(e, i)' THEN [e' EXCEPT !.code = "COMPUTE_SIZE_ERROR"]
           ELSE IF IsConst(i)' THEN ConstStep(n, i, need, fail)' ELSE n'
    BY DEF ShapeStep
  <2>3. d' = d
    <3>1. DropOutput(q, i, held)' = DropOutput(q, i, held)
      BY <1>3
    <3> QED BY <3>1, Zenon DEF Out
  <2> HIDE DEF d
  <2>4. Match(d, i)' = Match(d, i)
    BY <1>1, <2>3
  <2> HIDE DEF need, e, n
  <2>5. need' = need
    BY <2>4, Zenon DEF need
  <2>6. e' = e
    BY <2>3, <2>5, Zenon DEF e, CloseVarying, Compared, Close
  <2>7. Infer(e, i)' = Infer(e, i) /\ ShapeFails(e, i)' = ShapeFails(e, i)
    BY <1>2, <2>6, ReadsStay
  <2>8. n' = n
    BY <2>5, <2>6, <2>7, Zenon DEF n
  <2>9. ConstStep(n, i, need, fail)' = ConstStep(n, i, need, fail) /\ IsConst(i)' = IsConst(i)
    BY <1>4, <2>5, <2>8, OpStays
  <2> DEFINE Choice(y, z, fails, const, end, m) ==
                IF ~Ok(q) THEN q
                ELSE IF y /\ fails THEN [z EXCEPT !.code = "COMPUTE_SIZE_ERROR"]
                ELSE IF const THEN end ELSE m
  <2>10. ShapeStep(q, i, held, fail) = Choice(need, e, ShapeFails(e, i), IsConst(i), ConstStep(n, i, need, fail), n)
    BY <2>1
  <2>11. ShapeStep(q, i, held, fail)' =
            Choice(need', e', ShapeFails(e, i)', IsConst(i)', ConstStep(n, i, need, fail)', n')
    BY <2>2
  <2> HIDE DEF Choice
  <2> QED BY <2>5, <2>6, <2>7, <2>8, <2>9, <2>10, <2>11
<1>6. \A q, i : GeometryStep(q, i)' = GeometryStep(q, i)
  <2> SUFFICES ASSUME NEW q, NEW i PROVE GeometryStep(q, i)' = GeometryStep(q, i)
    OBVIOUS
  <2>1. IsConst(i)' = IsConst(i) /\ Basis(q, i)' = Basis(q, i)
    BY OpStays, ReadsStay
  <2> QED BY <2>1, Zenon DEF GeometryStep
<1> QED BY <1>5, <1>6

LEMMA ResizeStays ==
  ASSUME net' = net
  PROVE  /\ \A q, n : PlanTensors(q, n)' = PlanTensors(q, n)
         /\ \A q, held, fail : Resize(q, held, fail)' = Resize(q, held, fail)
         /\ \A a : Tr(a)' = Tr(a)
<1>1. \A q, held, fail : Encode(q, held, fail)' = Encode(q, held, fail)
  <2> SUFFICES ASSUME NEW q, NEW held, NEW fail PROVE Encode(q, held, fail)' = Encode(q, held, fail)
    OBVIOUS
  <2> DEFINE s == CHOOSE f : f = [i \in 0..NumOps |-> IF i = 0 THEN q ELSE ShapeStep(f[i - 1], i, held, fail)]
             t == CHOOSE f : f = [i \in 0..NumOps |-> IF i = 0 THEN q ELSE ShapeStep(f[i - 1], i, held, fail)']
             g(x) == CHOOSE f : f = [i \in 0..NumOps |-> IF i = 0 THEN x ELSE GeometryStep(f[i - 1], i)]
             h(x) == CHOOSE f : f = [i \in 0..NumOps |-> IF i = 0 THEN x ELSE GeometryStep(f[i - 1], i)']
  <2>1. s = t /\ \A x : g(x) = h(x)
    BY StepsStay
  <2>2. Encode(q, held, fail) = g(s[NumOps])[NumOps]
    BY DEF Encode
  <2>3. Encode(q, held, fail)' = h(t[NumOps])[NumOps]
    BY DEF Encode
  <2> HIDE DEF s, t, g, h
  <2> QED BY <2>1, <2>2, <2>3
<1>2. \A q, fail : CreateExecutions(q, fail)' = CreateExecutions(q, fail)
  BY OpStays DEF CreateExecutions
<1>3. \A q, n : PlanTensors(q, n)' = PlanTensors(q, n)
  BY OpStays DEF PlanTensors
<1>4. \A q, fail : AllocTensors(q, fail)' = AllocTensors(q, fail)
  BY <1>3 DEF AllocTensors
<1>5. \A q, held, fail : Resize(q, held, fail)' = Resize(q, held, fail)
  BY <1>1, <1>2, <1>4 DEF Resize
<1>6. \A a : Tr(a)' = Tr(a)
  BY <1>5 DEF Tr
<1> QED BY <1>3, <1>5, <1>6

LEMMA InvariantsStay ==
  ASSUME net' = net
  PROVE  /\ \A q : Sound(q)' = Sound(q) /\ CheckOK(q)' = CheckOK(q) /\ Settled(q)' = Settled(q)
         /\ \A q, S : ShownOK(q, S)' = ShownOK(q, S) /\ FixedOK(q, S)' = FixedOK(q, S)
         /\ \A q, a : Solves(q, a)' = Solves(q, a)
         /\ \A q, late : Done(q, late)' = Done(q, late)
         /\ Assignments' = Assignments
<1>1. \A q : Sound(q)' = Sound(q)
  BY OpStays DEF Sound
<1>2. \A q : CheckOK(q)' = CheckOK(q)
  <2>1. \A q, i : Known(q, i)' = Known(q, i)
    BY OpStays, ReadsStay DEF Known
  <2>2. \A q : Informed(q)' = Informed(q)
    BY <2>1 DEF Informed
  <2> QED BY <2>2 DEF CheckOK
<1>3. \A q : Settled(q)' = Settled(q)
  BY OpStays, ReadsStay DEF Settled
<1>4. \A q, S : ShownOK(q, S)' = ShownOK(q, S)
  BY OpStays, ReadsStay, ResizeStays DEF ShownOK
<1>5. \A q, S : FixedOK(q, S)' = FixedOK(q, S)
  <2>1. \A q, i, S : Passes(q, i, S)' = Passes(q, i, S)
    BY OpStays, ResizeStays DEF Passes
  <2>2. \A q, i : Bare(q, i)' = Bare(q, i)
    BY DEF Bare
  <2> QED BY <2>1, <2>2, OpStays, ResizeStays DEF FixedOK
<1>6. \A q, a : Solves(q, a)' = Solves(q, a)
  <2>1. \A q, i : Solved(q, i)' = Solved(q, i)
    BY OpStays, ReadsStay DEF Solved, Valued
  <2> QED BY <2>1 DEF Solves
<1>7. \A q, late : Done(q, late)' = Done(q, late)
  BY OpStays DEF Done, Bare
<1>8. Assignments' = Assignments
  <2>1. \A t : Reads(t)' = Reads(t)
    BY OpStays DEF Reads
  <2> QED BY <2>1 DEF Assignments
<1> QED BY <1>1, <1>2, <1>3, <1>4, <1>5, <1>6, <1>7, <1>8

-----------------------------------------------------------------------------
(* The calls, before the check and while it is open.                        *)

\* Setting the inputs, or the result of a call, changes nothing of operators.
Aside(q, r) == /\ Differ(q, r, {"shape", "content", "code"})
               /\ \A i \in Ops : Equal(q, r, Out(i))

LEMMA AsideFields ==
  ASSUME NEW q, NEW r, Aside(q, r)
  PROVE  /\ r.mem = q.mem /\ r.group = q.group /\ r.built = q.built /\ r.exe = q.exe /\ r.cmdGroup = q.cmdGroup
         /\ r.cache = q.cache /\ r.release = q.release
         /\ \A i \in Ops : r.shape[Out(i)] = q.shape[Out(i)] /\ r.content[Out(i)] = q.content[Out(i)]
  BY DEF Aside, Equal, Differ, Fields

LEMMA AsideKeeps ==
  ASSUME NEW q, NEW r, Aside(q, r)
  PROVE  /\ PlainOK(q) => PlainOK(r)
         /\ Informed(q) => Informed(r)
         /\ CheckOK(q) => CheckOK(r)
         /\ \A S : ShownOK(q, S) => ShownOK(r, S)
         /\ \A S : FixedOK(q, S) => FixedOK(r, S)
         /\ \A late : Done(q, late) => Done(r, late)
<1>1. /\ r.mem = q.mem /\ r.group = q.group /\ r.built = q.built /\ r.exe = q.exe /\ r.cmdGroup = q.cmdGroup
      /\ r.cache = q.cache /\ r.release = q.release
      /\ \A i \in Ops : r.shape[Out(i)] = q.shape[Out(i)] /\ r.content[Out(i)] = q.content[Out(i)]
  BY AsideFields
<1>2. Ungrouped(q) => Ungrouped(r)
  BY <1>1 DEF Ungrouped
<1>3. \A i \in Ops : Known(q, i) => Known(r, i)
  <2>1. \A i, s : BasisFrom(r, i, s) = BasisFrom(q, i, s)
    BY <1>1 DEF BasisFrom
  <2> QED BY <1>1, <2>1 DEF Known
<1>4. Informed(q) => Informed(r)
  BY <1>1, <1>3 DEF Informed, Open
<1>5. PlainOK(q) => PlainOK(r)
  BY <1>1, <1>2 DEF PlainOK
<1>6. CheckOK(q) => CheckOK(r)
  BY <1>1, <1>2, <1>4 DEF CheckOK
<1>7. \A S : ShownOK(q, S) => ShownOK(r, S)
  BY <1>1 DEF ShownOK
<1>8. \A S : FixedOK(q, S) => FixedOK(r, S)
  <2>1. \A i \in Ops : \A S : Passes(q, i, S) => Passes(r, i, S)
    BY <1>1 DEF Passes
  <2>2. \A i \in Ops : (Bare(q, i) => Bare(r, i)) /\ r.mem[Out(i)] = q.mem[Out(i)] /\ r.group[Out(i)] = q.group[Out(i)]
    BY <1>1 DEF Bare
  <2> QED BY <1>1, <2>1, <2>2 DEF FixedOK
<1>9. \A late : Done(q, late) => Done(r, late)
  BY <1>1 DEF Done, Bare
<1> QED BY <1>4, <1>5, <1>6, <1>7, <1>8, <1>9

\* The invariant, for any state of the variables.
SaneOf(q, ran, ph, S, pend, a) ==
    /\ ph = "plain" => PlainOK(q) /\ S = {} /\ ~pend
    /\ ph = "check" => /\ CheckOK(q) /\ ~pend
                       /\ S # {} => ShownOK(q, S) /\ (ran => Settled(q))
    /\ ph = "fixed" => FixedOK(q, S)
    /\ \A b \in S : Solves(Tr(b), b)
    /\ ran => Solves(q, a) /\ Done(q, pend)

LEMMA SaneIs == Sane <=> SaneOf(p, Ran, phase, shown, pending, Present)
  BY DEF Sane, SaneOf

LEMMA SaneNext ==
  ASSUME net' = net
  PROVE  Sane' <=> SaneOf(p', Ran', phase', shown', pending', Present')
<1>1. PlainOK(p)' <=> PlainOK(p')
  BY DEF PlainOK, Ungrouped
<1>2. \A b : Tr(b)' = Tr(b)
  BY ResizeStays
<1>3. \A b : Solves(Tr(b), b)' <=> Solves(Tr(b), b)
  BY <1>2, InvariantsStay
<1>4. CheckOK(p)' <=> CheckOK(p')
  BY InvariantsStay
<1>5. Settled(p)' <=> Settled(p')
  BY InvariantsStay
<1>6. ShownOK(p, shown)' <=> ShownOK(p', shown')
  BY InvariantsStay
<1>7. FixedOK(p, shown)' <=> FixedOK(p', shown')
  BY InvariantsStay
<1>8. Solves(p, Present)' <=> Solves(p', Present')
  BY InvariantsStay
<1>9. Done(p, pending)' <=> Done(p', pending')
  BY InvariantsStay
<1> QED BY <1>1, <1>3, <1>4, <1>5, <1>6, <1>7, <1>8, <1>9 DEF Sane, SaneOf

\* Before the check every operator is computed again.
LEMMA PlainResize ==
  ASSUME NetOK, NEW q, NEW r, NEW held, NEW fail, NEW a, Sound(q), PlainOK(q), Given(q, a), Base(q, r),
         Gone(q, r, held, fail)
  PROVE  /\ PlainOK(r)
         /\ Complete(q, r, held) => Solves(r, a) /\ Done(r, FALSE)
<1>1. Ungrouped(r)
  BY UngroupedStays DEF PlainOK
<1>2. ASSUME NEW i \in Ops PROVE ~r.cache[i].can /\ ~r.cache[i].pass /\ ~r.cache[i].computed
  <2>1. ~q.cache[i].can /\ ~q.cache[i].pass /\ ~q.cache[i].computed
    BY DEF PlainOK
  <2>2. CASE Passed(q, r, i, held)
    BY <2>1, <2>2 DEF Passed
  <2>3. CASE Broken(q, r, i, held, fail)
    BY <2>1, <2>3 DEF Broken
  <2>4. CASE Remains(q, r, i)
    BY <2>1, <2>4 DEF Remains, OFields
  <2> QED BY <2>2, <2>3, <2>4, Fates DEF Fate
<1>3. ASSUME Complete(q, r, held) PROVE Solves(r, a) /\ Done(r, FALSE)
  <2>1. Informed(q)
    BY DEF PlainOK, Informed, Open
  <2>2. Solves(r, a)
    BY <1>3, <2>1, CheckedSolves
  <2>3. ASSUME NEW i \in Ops, Commands(i) PROVE r.exe[i]
    <3>1. Passed(q, r, i, held) /\ ~q.cache[i].can
      BY <1>3 DEF Complete, Encoded, PlainOK
    <3>2. r.need[i] /\ ~IsConst(i)
      BY <2>1, <2>3, <3>1, Recognised, CommandsRun
    <3> QED BY <1>3, <3>2 DEF Complete
  <2> QED BY <1>1, <1>3, <2>2, <2>3, CompleteDone
<1> QED BY <1>1, <1>2, <1>3 DEF PlainOK

\* While the check is open.
LEMMA CheckResize ==
  ASSUME NetOK, NEW q, NEW r, NEW held, NEW fail, NEW a, Sound(q), CheckOK(q), Given(q, a), Base(q, r),
         NEW S, S # {} => ShownOK(q, S), Gone(q, r, held, fail)
  PROVE  /\ Complete(q, r, held) =>
              /\ CheckOK(r) /\ Settled(r) /\ Solves(r, a) /\ Done(r, FALSE)
              /\ Solves(Tr(a), a) => ShownOK(r, S \cup {a})
         /\ (\A i \in Ops : ~HalfBuilt(q, r, i, fail)) => CheckOK(r) /\ (S # {} => ShownOK(r, S))
<1>0. Informed(q) /\ ~q.release
  BY DEF CheckOK
<1>1. Ungrouped(r) /\ ~r.release
  BY UngroupedStays DEF CheckOK, Base
<1>2. ASSUME Complete(q, r, held)
      PROVE  /\ CheckOK(r) /\ Settled(r) /\ Solves(r, a) /\ Done(r, FALSE)
             /\ Solves(Tr(a), a) => ShownOK(r, S \cup {a})
  <2>1. Solves(r, a)
    BY <1>0, <1>2, CheckedSolves
  <2>2. \A i \in Ops : Solved(r, i)
    BY <2>1 DEF Solves
  <2>3. Informed(r)
    BY <1>0, <1>2, <2>2, CompleteInformed
  <2>4. Settled(r)
    BY <1>0, <1>2, Settles
  <2>5. \A i \in Ops : Commands(i) => r.exe[i]
    BY <1>0, <1>2, <2>2, CompleteBuilt
  <2>6. Done(r, FALSE)
    BY <1>1, <1>2, <2>5, CompleteDone
  <2>7. Solves(Tr(a), a) => ShownOK(r, S \cup {a})
    BY <1>0, <1>2, <2>1, <2>3, ShownMore
  <2> QED BY <1>1, <2>1, <2>3, <2>4, <2>6, <2>7 DEF CheckOK
<1>3. ASSUME \A i \in Ops : ~HalfBuilt(q, r, i, fail) PROVE CheckOK(r) /\ (S # {} => ShownOK(r, S))
  <2>1. Informed(r)
    BY <1>0, <1>3, FailedInformed
  <2>2. S # {} => ShownOK(r, S)
    BY <1>0, <2>1, ShownStays
  <2> QED BY <1>1, <2>1, <2>2 DEF CheckOK
<1> QED BY <1>2, <1>3

-----------------------------------------------------------------------------
(* The calls after the fix.                                                 *)

LEMMA FixedPassed ==
  ASSUME NEW q, NEW r, NEW i \in Ops, NEW held, NEW S, Passed(q, r, i, held), FixedOK(q, S)
  PROVE  /\ ~r.cache[i].can
         /\ r.need[i] => ~r.cache[i].pass /\ (q.cache[i].pass => i = NumOps)
         /\ ~r.need[i] => q.cache[i].pass /\ r.cache[i] = q.cache[i] /\ Passes(q, i, S)
                          /\ r.shape[Out(i)] = q.shape[Out(i)] /\ r.group[Out(i)] = q.group[Out(i)]
<1>1. ~q.cache[i].can /\ (q.cache[i].pass => Passes(q, i, S))
  BY DEF FixedOK
<1>2. CASE r.need[i]
  BY <1>1, <1>2 DEF Passed
<1>3. CASE ~r.need[i]
  BY <1>1, <1>3 DEF Passed
<1> QED BY <1>2, <1>3

\* What a copy passes on, that is not computed again.
CopyHeld(q, r, i, S) ==
    /\ r.built[i] = None => q.built[i] = None
    /\ q.built[i] = None => r.content[Out(i)] = q.content[Out(i)]
    /\ r.content[Out(i)] # r.content[Op(i).in[1]] => \A a \in S : r.content[Out(i)] = Tr(a).content[Out(i)]

LEMMA FixedCopy ==
  ASSUME NetOK, NEW q, NEW r, NEW i \in Ops, NEW held, NEW S, FixedOK(q, S), Op(i).kind = "copy",
         \A j \in Ops : j <= i => Passed(q, r, j, held), ~r.need[i]
  PROVE  CopyHeld(q, r, i, S)
<1>1. Passed(q, r, i, held) /\ ~q.release /\ (\A j \in Ops : j < i => Passed(q, r, j, held)) /\ IsConst(i)
  BY Numbers, CopyReads DEF FixedOK
<1>2. Passes(q, i, S) /\ q.cache[i].pass
  BY <1>1, FixedPassed
<1>3. ConstRun(q, r, i)
  BY <1>1 DEF Passed
<1>4. CASE q.built[i] = None
  <2>1. r.content[Out(i)] = q.content[Out(i)]
    BY <1>3, <1>4 DEF ConstRun
  <2>2. \A a \in S : q.content[Out(i)] = Tr(a).content[Out(i)]
    BY <1>2, <1>4 DEF Passes
  <2> QED BY <1>4, <2>1, <2>2 DEF CopyHeld
<1>5. CASE q.built[i] # None
  <2>1. r.built[i] = q.built[i]
    BY <1>1, <1>3, <1>5 DEF ConstRun
  <2>2. \A j \in Ops : Copies(i, j) /\ ~r.need[j] => r.content[Out(i)] = q.content[Out(i)]
    BY <1>1, CopyReads, CopyUnmoved
  <2>3. \/ r.content[Out(i)] = r.content[Op(i).in[1]]
        \/ \E j \in Ops : j < i /\ Copies(i, j) /\ ~r.need[j]
    BY <1>1, <1>5, CopyPassed DEF CopiedFrom
  <2>4. ASSUME NEW j \in Ops, j < i, Copies(i, j), ~r.need[j], NEW a \in S
        PROVE  r.content[Out(i)] = Tr(a).content[Out(i)]
    <3>1. q.cache[j].pass
      BY <1>1, <2>4, FixedPassed
    <3>2. q.content[Out(i)] = Tr(a).content[Out(i)]
      BY <1>2, <2>4, <3>1 DEF Passes
    <3> QED BY <2>2, <2>4, <3>2
  <2> QED BY <1>5, <2>1, <2>3, <2>4 DEF CopyHeld
<1> QED BY <1>4, <1>5

LEMMA FixedEqual ==
  ASSUME NetOK, NEW q, NEW r, NEW held, NEW S, NEW a \in S, Sound(q), FixedOK(q, S), Given(r, a),
         Solves(Tr(a), a), NEW M \in 0..NumOps, \A i \in Ops : i <= M => Passed(q, r, i, held)
  PROVE  \A i \in Ops : i <= M => Equal(Tr(a), r, Out(i))
<1> DEFINE T == Tr(a)
           D == {i \in Ops : Equal(T, r, Out(i))}
<1> HIDE DEF T
<1>0. Solves(T, a)
  BY DEF T
<1>1. \A t \in Inputs : Equal(T, r, t)
  BY <1>0, GivenEqual DEF Solves
<1>2. ASSUME NEW i \in Ops, i <= M, \A j \in Ops : j < i => j \in D PROVE i \in D
  <2>1. /\ \A k \in DOMAIN Op(i).in : Equal(T, r, Op(i).in[k])
        /\ OutputSize(r, i) = OutputSize(T, i) /\ ContentOf(r, i) = ContentOf(T, i)
    BY <1>1, <1>2, EqualBelow
  <2>2. /\ \A j \in Ops : j <= i => Passed(q, r, j, held)
        /\ Passed(q, r, i, held)
    BY <1>2, Numbers
  <2>3. Valued(T, i)
    BY <1>0 DEF Solves, Solved
  <2>4. CASE r.need[i]
    <3>1. Valued(r, i)
      BY <2>2, <2>4, NeedValued
    <3> QED BY <2>1, <2>3, <3>1 DEF Valued, Equal
  <2>5. CASE ~r.need[i]
    <3>1. Passes(q, i, S) /\ r.shape[Out(i)] = q.shape[Out(i)]
      BY <2>2, <2>5, FixedPassed
    <3>2. r.shape[Out(i)] = T.shape[Out(i)]
      BY <3>1 DEF Passes, T
    <3>3. CASE ~IsConst(i)
      <4>1. r.content[Out(i)] = 1
        BY <2>2, <3>3 DEF Passed, Sound
      <4>2. ContentOf(T, i) = 1
        BY <3>3 DEF ContentOf, IsConst, ConstKinds
      <4> QED BY <2>3, <3>2, <4>1, <4>2 DEF Valued, Equal
    <3>4. CASE Op(i).kind = "shapeOf"
      <4>1. r.content[Out(i)] = q.content[Out(i)]
        BY <2>2, <2>5, <3>4 DEF Passed, ConstRun, IsConst, ConstKinds
      <4>2. q.content[Out(i)] = T.content[Out(i)]
        BY <3>1, <3>4 DEF Passes, T
      <4> QED BY <3>2, <4>1, <4>2 DEF Equal
    <3>5. CASE Op(i).kind = "copy"
      <4>1. r.content[Out(i)] # r.content[Op(i).in[1]] =>
               \A b \in S : r.content[Out(i)] = Tr(b).content[Out(i)]
        <5>1. CopyHeld(q, r, i, S)
          BY <2>2, <2>5, <3>5, FixedCopy
        <5> QED BY <5>1 DEF CopyHeld
      <4>2. r.content[Op(i).in[1]] = T.content[Op(i).in[1]]
        BY <2>1, <3>5, CopyReads DEF Equal
      <4>3. T.content[Out(i)] = T.content[Op(i).in[1]]
        BY <2>3, <3>5 DEF Valued, ContentOf
      <4>4. r.content[Out(i)] = T.content[Out(i)]
        BY <4>1, <4>2, <4>3 DEF T
      <4> QED BY <3>2, <4>4 DEF Equal
    <3> QED BY <3>3, <3>4, <3>5 DEF IsConst, ConstKinds
  <2> QED BY <2>4, <2>5
<1> HIDE DEF D
<1>3. \A i \in Ops : i <= M => i \in D
  BY <1>2, Along
<1> QED BY <1>3 DEF D, T

\* A resize that succeeds is right: what passes is what the inputs determine.
LEMMA FixedSolves ==
  ASSUME NetOK, NEW q, NEW r, NEW held, NEW S, NEW a \in S, Sound(q), FixedOK(q, S), Given(r, a),
         Solves(Tr(a), a), Complete(q, r, held)
  PROVE  Solves(r, a)
<1> DEFINE T == Tr(a)
           D == {i \in Ops : Agrees(T, r, i)}
<1>0. \A i \in Ops : Passed(q, r, i, held)
  BY DEF Complete, Encoded
<1>1. \A i \in Ops : Equal(T, r, Out(i))
  BY <1>0, FixedEqual, Numbers
<1> HIDE DEF T
<1>2. Solves(T, a) /\ \A t \in Inputs : Equal(T, r, t)
  BY GivenEqual DEF Solves, T
<1>3. ASSUME NEW i \in Ops, \A j \in Ops : j < i => j \in D PROVE i \in D /\ Alike(T, r, i)
  <2>1. Alike(T, r, i) /\ Wired(i)
    BY <1>2, <1>3, AgreesBelow DEF NetOK
  <2>2. Basis(r, i) = Basis(T, i)
    BY <1>1, <2>1, AlikeReads DEF Equal
  <2>3. ~IsConst(i) => T.built[i] = Basis(T, i)
    BY <1>2 DEF Solves, Solved
  <2>4. ASSUME ~IsConst(i) PROVE r.built[i] = T.built[i]
    <3>1. CASE r.need[i]
      BY <2>2, <2>3, <2>4, <3>1 DEF Complete, Encoded
    <3>2. CASE ~r.need[i]
      <4>1. Passes(q, i, S)
        BY <1>0, <3>2, FixedPassed
      <4>2. r.built[i] = q.built[i]
        BY <2>4, <3>2 DEF Complete, Encoded
      <4> QED BY <2>4, <4>1, <4>2 DEF Passes, T
    <3> QED BY <3>1, <3>2
  <2> QED BY <1>1, <2>1, <2>4 DEF Agrees
<1>4. \A i \in Ops : i <= NumOps => i \in D
  <2> HIDE DEF D
  <2> QED BY <1>3, Along, Numbers
<1>5. ASSUME NEW i \in Ops PROVE Solved(r, i)
  <2>1. Alike(T, r, i) /\ Wired(i) /\ Agrees(T, r, i)
    BY <1>3, <1>4, Numbers DEF NetOK
  <2>2. /\ OutputSize(r, i) = OutputSize(T, i) /\ (ShapeFails(r, i) <=> ShapeFails(T, i))
        /\ ContentOf(r, i) = ContentOf(T, i) /\ Basis(r, i) = Basis(T, i)
    BY <2>1, AlikeReads DEF Agrees, Equal
  <2>3. Solved(T, i)
    BY <1>2 DEF Solves
  <2> QED BY <2>1, <2>2, <2>3 DEF Solved, Valued, Agrees, Equal
<1> QED BY <1>5 DEF Solves

\* No shape fails after the fix.
LEMMA FixedShapes ==
  ASSUME NetOK, NEW q, NEW r, NEW held, NEW fail, NEW S, NEW a \in S, Sound(q), FixedOK(q, S), Given(r, a),
         Solves(Tr(a), a), NEW m \in Ops, Aborted(q, r, m, held, fail)
  PROVE  Op(m).kind = "copy"
<1> SUFFICES ASSUME ShapeFails(r, m) PROVE FALSE
  BY DEF Aborted, Broken
<1>1. m - 1 \in 0..NumOps /\ \A i \in Ops : i <= m - 1 <=> i < m
  BY Numbers DEF Ops
<1>2. \A i \in Ops : i <= m - 1 => Passed(q, r, i, held)
  BY <1>1 DEF Aborted
<1>3. \A i \in Ops : i < m => Equal(Tr(a), r, Out(i))
  BY <1>1, <1>2, FixedEqual
<1>4. \A t \in Inputs : Equal(Tr(a), r, t)
  BY GivenEqual DEF Solves
<1>5. ShapeFails(Tr(a), m)
  BY <1>3, <1>4, EqualBelow
<1> QED BY <1>5 DEF Solves, Solved, Valued

\* A constant operator passes as before.
LEMMA PassKept ==
  ASSUME NetOK, NEW q, NEW r, NEW held, NEW fail, NEW S, FixedOK(q, S), Gone(q, r, held, fail),
         NEW i \in Ops, IsConst(i)
  PROVE  r.cache[i].pass <=> q.cache[i].pass
<1>1. i # NumOps
  BY CommandsRun DEF NetOK
<1>2. CASE Passed(q, r, i, held)
  BY <1>1, <1>2, FixedPassed
<1>3. CASE Broken(q, r, i, held, fail)
  <2>1. ~q.cache[i].can
    BY DEF FixedOK
  <2> QED BY <1>1, <1>3, <2>1 DEF Broken
<1>4. CASE Remains(q, r, i)
  BY <1>4 DEF Remains, OFields
<1> QED BY <1>2, <1>3, <1>4, Fates DEF Fate

\* What passes after a resize has passed before, and is the same still.
LEMMA PassesStay ==
  ASSUME NetOK, NEW q, NEW r, NEW held, NEW fail, NEW S, FixedOK(q, S), Gone(q, r, held, fail),
         NEW i \in Ops, r.cache[i].pass
  PROVE  q.cache[i].pass /\ Passes(r, i, S)
<1>1. \A j \in Ops : Copies(i, j) => (r.cache[j].pass <=> q.cache[j].pass)
  BY PassKept, CopyReads DEF Copies
<1>2. CASE Passed(q, r, i, held) /\ \A j \in Ops : j < i => Passed(q, r, j, held)
  <2>1. /\ ~r.need[i] /\ q.cache[i].pass /\ Passes(q, i, S)
        /\ r.shape[Out(i)] = q.shape[Out(i)] /\ r.group[Out(i)] = q.group[Out(i)]
    BY <1>2, FixedPassed
  <2>2. ~IsConst(i) => Kept(q, r, i)
    BY <2>1, Fates
  <2>3. CASE ~IsConst(i)
    <3>1. Op(i).kind # "shapeOf" /\ Op(i).kind # "copy"
      BY <2>3 DEF IsConst, ConstKinds
    <3>2. \A j \in Ops : ~Copies(i, j)
      BY <3>1 DEF Copies
    <3> QED BY <2>1, <2>2, <2>3, <3>1, <3>2 DEF Passes, Kept
  <2>4. CASE Op(i).kind = "shapeOf"
    <3>1. IsConst(i) /\ ~Commands(i) /\ \A j \in Ops : ~Copies(i, j)
      BY <2>4 DEF IsConst, ConstKinds, Commands, Copies
    <3>2. r.content[Out(i)] = q.content[Out(i)]
      BY <1>2, <2>1, <2>4, <3>1 DEF Passed, ConstRun
    <3> QED BY <2>1, <2>4, <3>1, <3>2 DEF Passes
  <2>5. CASE Op(i).kind = "copy"
    <3>1. IsConst(i) /\ ~Commands(i)
      BY <2>5 DEF IsConst, ConstKinds, Commands
    <3>2. \A j \in Ops : j <= i => Passed(q, r, j, held)
      <4>1. \A j \in Ops : j <= i => j < i \/ j = i
        BY Numbers
      <4> QED BY <1>2, <4>1
    <3>3. /\ r.built[i] = None => q.built[i] = None
          /\ q.built[i] = None => r.content[Out(i)] = q.content[Out(i)]
      <4>1. CopyHeld(q, r, i, S)
        BY <2>1, <2>5, <3>2, FixedCopy
      <4> QED BY <4>1 DEF CopyHeld
    <3>4. ASSUME NEW j \in Ops, Copies(i, j), r.cache[j].pass PROVE r.content[Out(i)] = q.content[Out(i)]
      <4>1. Passed(q, r, j, held)
        BY <1>2, <2>5, <3>4, CopyReads
      <4>2. ~r.need[j]
        BY <3>4, <4>1, FixedPassed
      <4> QED BY <1>2, <2>1, <2>5, <3>4, <4>1, <4>2, CopyUnmoved
    <3> QED BY <1>1, <2>1, <2>5, <3>1, <3>3, <3>4 DEF Passes
  <2> QED BY <2>1, <2>3, <2>4, <2>5 DEF IsConst, ConstKinds
<1>3. CASE Broken(q, r, i, held, fail)
  <2>1. ~q.cache[i].can
    BY DEF FixedOK
  <2> QED BY <1>3, <2>1 DEF Broken
<1>4. CASE Remains(q, r, i)
  <2>1. /\ r.shape[Out(i)] = q.shape[Out(i)] /\ r.content[Out(i)] = q.content[Out(i)]
        /\ r.group[Out(i)] = q.group[Out(i)] /\ r.cache[i] = q.cache[i]
        /\ r.built[i] = q.built[i] /\ r.exe[i] = q.exe[i] /\ r.cmdGroup[i] = q.cmdGroup[i]
    <3>1. \A f \in {"shape", "content", "group"} : r[f][Out(i)] = q[f][Out(i)]
      BY <1>4 DEF Remains, TFields
    <3>2. \A f \in {"cache", "built", "exe"} : r[f][i] = q[f][i]
      BY <1>4 DEF Remains, OFields
    <3> QED BY <1>4, <3>1, <3>2 DEF Remains
  <2>2. q.cache[i].pass /\ Passes(q, i, S)
    BY <2>1 DEF FixedOK
  <2> QED BY <1>1, <2>1, <2>2 DEF Passes
<1> QED BY <1>2, <1>3, <1>4, Fates DEF Fate

\* The memory of group 1 stays.
GroupKept(q, r) == \A i \in Ops : Commands(i) /\ r.group[Out(i)] = 1 => r.mem[Out(i)] = q.mem[Out(i)]

\* Nothing moves to group 1 in a resize.
LEMMA GroupStays ==
  ASSUME NEW q, NEW r, NEW held, NEW fail, Gone(q, r, held, fail), NEW i \in Ops, r.group[Out(i)] = 1
  PROVE  q.group[Out(i)] = 1
<1>1. Fate(q, r, i, held, fail)
  BY Fates
<1>2. Passed(q, r, i, held) \/ Vacated(q, r, i, held) => r.group[Out(i)] = 0 \/ r.group[Out(i)] = q.group[Out(i)]
  BY DEF Passed, Vacated
<1>3. Remains(q, r, i) => r.group[Out(i)] = q.group[Out(i)]
  BY DEF Remains, TFields
<1>4. Broken(q, r, i, held, fail) => Vacated(q, r, i, held)
  BY DEF Broken
<1> QED BY <1>1, <1>2, <1>3, <1>4 DEF Fate

\* The output stays in group 1 only if it passes.
LEMMA GroupPass ==
  ASSUME NEW q, NEW r, NEW held, NEW fail, NEW S, FixedOK(q, S), Gone(q, r, held, fail), NumOps \in Ops,
         r.group[Out(NumOps)] = 1
  PROVE  r.cache[NumOps].pass
<1>1. q.cache[NumOps].pass /\ ~q.cache[NumOps].can
  BY GroupStays DEF FixedOK
<1>2. CASE Passed(q, r, NumOps, held)
  <2>1. ~held /\ ~r.need[NumOps]
    BY <1>1, <1>2 DEF Passed
  <2> QED BY <1>1, <1>2, <2>1 DEF Passed
<1>3. CASE Broken(q, r, NumOps, held, fail)
  BY <1>1, <1>3 DEF Broken, Vacated
<1>4. CASE Remains(q, r, NumOps)
  BY <1>1, <1>4 DEF Remains, OFields
<1> QED BY <1>2, <1>3, <1>4, Fates DEF Fate

LEMMA FixedResize ==
  ASSUME NetOK, NEW q, NEW r, NEW held, NEW fail, NEW S, FixedOK(q, S), Gone(q, r, held, fail),
         Base(q, r), GroupKept(q, r)
  PROVE  FixedOK(r, S)
<1>1. ~r.release /\ (r.group[Out(NumOps)] = 1 => r.cache[NumOps].pass)
  <2>1. NumOps \in Ops
    BY Numbers
  <2>2. r.group[Out(NumOps)] = 1 => r.cache[NumOps].pass
    BY <2>1, GroupPass
  <2> QED BY <2>2 DEF FixedOK, Base
<1> SUFFICES ASSUME NEW i \in Ops
             PROVE  /\ ~r.cache[i].can
                    /\ r.cache[i].pass => Passes(r, i, S)
                    /\ r.cmdGroup[i] = 1 => ~IsConst(i) /\ (r.cache[i].pass \/ Bare(r, i))
                    /\ Commands(i) /\ r.group[Out(i)] = 1 =>
                          Bare(r, i) \/ \A a \in S : r.mem[Out(i)] = Tr(a).shape[Out(i)]
  BY <1>1 DEF FixedOK
<1>2. /\ ~q.cache[i].can
      /\ q.cmdGroup[i] = 1 => ~IsConst(i) /\ (q.cache[i].pass \/ Bare(q, i))
      /\ Commands(i) /\ q.group[Out(i)] = 1 =>
            Bare(q, i) \/ \A a \in S : q.mem[Out(i)] = Tr(a).shape[Out(i)]
  BY DEF FixedOK
<1>3. Fate(q, r, i, held, fail)
  BY Fates
<1>4. ~r.cache[i].can
  BY <1>2, <1>3, FixedPassed DEF Fate, Broken, Remains, OFields
<1>5. r.cache[i].pass => Passes(r, i, S)
  BY PassesStay
<1>6. r.group[Out(i)] = 1 => q.group[Out(i)] = 1
  BY GroupStays
<1>7. Commands(i) /\ r.group[Out(i)] = 1 => Bare(r, i) \/ \A a \in S : r.mem[Out(i)] = Tr(a).shape[Out(i)]
  BY <1>2, <1>6 DEF GroupKept, Bare
<1>8. ASSUME r.cmdGroup[i] = 1 PROVE ~IsConst(i) /\ (r.cache[i].pass \/ Bare(r, i))
  <2>1. q.cmdGroup[i] = 1 /\ ~IsConst(i) /\ (~r.need[i] \/ ~Encoded(q, r, held)) /\ (q.cache[i].pass \/ Bare(q, i))
    BY <1>2, <1>8, Fates DEF Kept
  <2>2. CASE Encoded(q, r, held)
    <3>1. Passed(q, r, i, held) /\ ~r.need[i]
      BY <2>1, <2>2 DEF Encoded
    <3> QED BY <2>1, <3>1, FixedPassed
  <2>3. ASSUME NEW m \in Ops, Aborted(q, r, m, held, fail) PROVE r.cache[i].pass \/ Bare(r, i)
    <3>1. CASE i < m
      <4>1. ~(NumOps < m) /\ i # NumOps
        BY <3>1, Numbers
      <4>2. Passed(q, r, i, held) /\ q.cache[i].pass
        BY <2>1, <2>3, <3>1, <4>1 DEF Aborted, Bare
      <4>3. ~r.need[i] /\ r.cache[i] = q.cache[i]
        BY <4>1, <4>2, FixedPassed
      <4> QED BY <4>2, <4>3
    <3>2. CASE i = m
      <4>1. Broken(q, r, i, held, fail)
        BY <2>3, <3>2 DEF Aborted
      <4>2. CASE ~(held /\ i = NumOps)
        <5>1. ~q.cache[i].pass
          BY <1>2, <4>1, <4>2 DEF Broken
        <5>2. Bare(q, i) /\ (q.group[Out(i)] = 1 => q.cache[i].pass)
          BY <2>1, <5>1 DEF Bare, FixedOK
        <5> QED BY <4>1, <5>2 DEF Broken, Vacated, Bare
      <4>3. CASE held /\ i = NumOps
        BY <4>1, <4>3 DEF Broken, Vacated, Bare
      <4> QED BY <4>2, <4>3
    <3>3. CASE i > m
      <4>1. Remains(q, r, i)
        BY <2>3, <3>3 DEF Aborted
      <4>2. r.mem[Out(i)] = q.mem[Out(i)] /\ r.cache[i] = q.cache[i]
        BY <4>1 DEF Remains, TFields, OFields
      <4> QED BY <2>1, <4>2 DEF Bare
    <3> QED BY <3>1, <3>2, <3>3, Numbers
  <2> QED BY <2>1, <2>2, <2>3 DEF Gone
<1> QED BY <1>4, <1>5, <1>7, <1>8

LEMMA FixedDone ==
  ASSUME NetOK, NEW q, NEW r, NEW held, NEW S, NEW a \in S, Sound(q), FixedOK(q, S), FixedOK(r, S), Sound(r),
         Complete(q, r, held), Solves(r, a), Solves(Tr(a), a)
  PROVE  Done(r, FALSE)
<1> SUFFICES ASSUME NEW i \in Ops, Commands(i) PROVE r.exe[i] /\ (r.mem[Out(i)] = r.shape[Out(i)] \/ Bare(r, i))
  BY DEF Done
<1>1. Passed(q, r, i, held) /\ ~IsConst(i)
  BY CommandsRun DEF Complete, Encoded
<1>2. r.exe[i]
  <2>1. CASE r.need[i]
    BY <1>1, <2>1 DEF Complete
  <2>2. CASE ~r.need[i]
    <3>1. Passes(q, i, S) /\ r.exe[i] = q.exe[i]
      BY <1>1, <2>2, FixedPassed DEF Complete, Encoded
    <3> QED BY <3>1 DEF Passes
  <2> QED BY <2>1, <2>2
<1>3. r.mem[Out(i)] = r.shape[Out(i)] \/ Bare(r, i)
  <2>1. r.group[Out(i)] \in {0, 1}
    BY Places DEF Sound, IsState
  <2>2. CASE r.group[Out(i)] = 0
    BY <2>2 DEF Complete
  <2>3. CASE r.group[Out(i)] = 1
    <3>1. r.mem[Out(i)] = Tr(a).shape[Out(i)] \/ Bare(r, i)
      BY <2>3 DEF FixedOK
    <3>2. r.shape[Out(i)] = Tr(a).shape[Out(i)]
      BY SolvesUnique DEF Agrees, Equal
    <3> QED BY <3>1, <3>2
  <2> QED BY <2>1, <2>2, <2>3
<1> QED BY <1>2, <1>3

-----------------------------------------------------------------------------
(* The invariant of every call.                                             *)

\* A resize, to any inputs that the phase allows.
LEMMA ResizeSane ==
  ASSUME NetOK, NEW q0, Sound(q0), NEW a \in [Inputs -> Sizes], NEW held \in BOOLEAN, NEW fail,
         NEW ran, NEW ph \in {"plain", "check", "fixed"}, NEW S, NEW pend, NEW b,
         SaneOf(q0, ran, ph, S, pend, b), ph = "fixed" => a \in S,
         NEW r, r = Resize(SetInputs(q0, a), held, fail), Ok(r) \/ \A i \in Ops : ~HalfBuilt(q0, r, i, fail)
  PROVE  SaneOf(r, Ok(r), ph, IF ph = "check" /\ Ok(r) THEN S \cup {a} ELSE S, pend /\ ~Ok(r), a)
<1> DEFINE q == SetInputs(q0, a)
           T == IF ph = "check" /\ Ok(r) THEN S \cup {a} ELSE S
           Proper == Complete(q, r, held) /\ Ok(r)
<1>1. Sound(q) /\ Given(q, a) /\ Aside(q0, q)
  BY InputsSet DEF Aside, Differ
<1>0. r = Resize(q, held, fail)
  OBVIOUS
<1> HIDE DEF q
<1>2. Sound(r) /\ Base(q, r) /\ (Proper \/ (~Ok(r) /\ Failed(q, r, held, fail)))
  <2>1. Sound(Resize(q, held, fail))
    BY <1>1, SoundStays
  <2>2. LET n == Resize(q, held, fail)
        IN  Base(q, n) /\ ((Ok(n) /\ Complete(q, n, held)) \/ (~Ok(n) /\ Failed(q, n, held, fail)))
    BY <1>1, Ways
  <2> QED BY <1>0, <2>1, <2>2
<1>3. GroupKept(q, r) /\ Gone(q, r, held, fail)
  BY <1>2 DEF GroupKept, Gone, Failed, Complete
<1>4. \A c \in S : Solves(Tr(c), c)
  BY DEF SaneOf
<1>5. CASE ph = "plain"
  <2>1. PlainOK(q) /\ S = {} /\ ~pend
    BY <1>1, <1>5, AsideKeeps DEF SaneOf
  <2>2. PlainOK(r) /\ (Proper => Solves(r, a) /\ Done(r, FALSE))
    BY <1>1, <1>2, <1>3, <2>1, PlainResize
  <2> QED BY <1>2, <1>5, <2>1, <2>2 DEF SaneOf
<1>6. CASE ph = "check"
  <2>1. CheckOK(q) /\ (S # {} => ShownOK(q, S)) /\ ~pend
    BY <1>1, <1>6, AsideKeeps DEF SaneOf
  <2>0. ~Ok(r) => \A i \in Ops : ~HalfBuilt(q, r, i, fail)
    BY <1>1, AsideFields DEF HalfBuilt
  <2>2. /\ Proper => /\ CheckOK(r) /\ Settled(r) /\ Solves(r, a) /\ Done(r, FALSE)
                     /\ Solves(Tr(a), a) => ShownOK(r, S \cup {a})
        /\ ~Ok(r) => CheckOK(r) /\ (S # {} => ShownOK(r, S))
    BY <1>1, <1>2, <1>3, <2>0, <2>1, CheckResize
  <2>3. CASE Proper
    <3>1. Solves(Tr(a), a)
      BY <2>2, <2>3, TruthSolves
    <3> QED BY <1>4, <1>6, <2>1, <2>2, <2>3, <3>1 DEF SaneOf
  <2>4. CASE ~Ok(r)
    BY <1>4, <1>6, <2>1, <2>2, <2>4 DEF SaneOf
  <2> QED BY <1>2, <2>3, <2>4
<1>7. CASE ph = "fixed"
  <2>1. FixedOK(q, S) /\ a \in S
    BY <1>1, <1>7, AsideKeeps DEF SaneOf
  <2>2. FixedOK(r, S)
    BY <1>2, <1>3, <2>1, FixedResize
  <2>3. CASE Proper
    <3>1. Given(r, a) /\ Solves(Tr(a), a)
      BY <1>1, <1>2, <1>4, <2>1, BaseGiven
    <3>2. Solves(r, a)
      BY <1>1, <2>1, <2>3, <3>1, FixedSolves
    <3>3. Done(r, FALSE)
      BY <1>1, <1>2, <2>1, <2>2, <2>3, <3>1, <3>2, FixedDone
    <3> QED BY <1>4, <1>7, <2>2, <2>3, <3>2, <3>3 DEF SaneOf
  <2>4. CASE ~Ok(r)
    BY <1>4, <1>7, <2>2, <2>4 DEF SaneOf
  <2> QED BY <1>2, <2>3, <2>4
<1> QED BY <1>5, <1>6, <1>7

\* The pipeline of a call that needs no resize.
LEMMA CodeIs ==
  ASSUME NEW q, Sound(q)
  PROVE  LET r == [q EXCEPT !.code = "NO_ERROR"]
         IN  Sound(r) /\ Ok(r) /\ Differ(q, r, {"code"})
<1> DEFINE r == [q EXCEPT !.code = "NO_ERROR"]
<1>1. IsState(r) /\ Ok(r) /\ Differ(q, r, {"code"})
  BY DEF Sound, IsState, Fields, Ok, Codes, Differ
<1> HIDE DEF r
<1>2. r.shape = q.shape /\ r.content = q.content /\ r.built = q.built /\ r.mem = q.mem
  BY <1>1 DEF Differ, Fields
<1> QED BY <1>1, <1>2 DEF Sound, r

\* Pipelines with the same tensors and commands.
LEMMA SolvesSame ==
  ASSUME NEW q, NEW r, r.shape = q.shape, r.content = q.content,
         \A i \in Ops : ~IsConst(i) => r.built[i] = q.built[i], NEW a, Solves(q, a), NetOK
  PROVE  Solves(r, a)
<1>1. Given(r, a)
  BY DEF Solves, Given
<1>2. ASSUME NEW i \in Ops PROVE Solved(r, i)
  <2>1. Alike(q, r, i) /\ Wired(i)
    <3>1. \A t \in Inputs : Equal(q, r, t)
      BY DEF Equal
    <3>2. \A j \in Ops : j < i => Agrees(q, r, j)
      BY DEF Equal, Agrees
    <3> QED BY <3>1, <3>2, AgreesBelow DEF NetOK
  <2>2. /\ OutputSize(r, i) = OutputSize(q, i) /\ (ShapeFails(r, i) <=> ShapeFails(q, i))
        /\ ContentOf(r, i) = ContentOf(q, i) /\ Basis(r, i) = Basis(q, i)
    BY <2>1, AlikeReads
  <2>3. Solved(q, i)
    BY DEF Solves
  <2> QED BY <2>2, <2>3 DEF Solved, Valued
<1> QED BY <1>1, <1>2 DEF Solves

\* Opening the check: no cache is computed yet.
LEMMA OpenedIs ==
  ASSUME NEW q, Sound(q)
  PROVE  LET r == Opened(q)
         IN  /\ Sound(r) /\ Differ(q, r, {"cache", "release"}) /\ r.release = FALSE
             /\ \A i \in Ops : r.cache[i].can /\ r.cache[i].pass = q.cache[i].pass
                               /\ r.cache[i].computed = q.cache[i].computed
<1> DEFINE f == [i \in Ops |-> [q.cache[i] EXCEPT !.can = TRUE]]
           x == [q EXCEPT !.release = FALSE]
           r == [x EXCEPT !.cache = f]
<1>1. IsState(q) /\ DOMAIN q.cache = Ops
  BY DEF Sound, IsState
<1>2. ASSUME NEW i \in Ops
      PROVE  CacheOK(f[i]) /\ f[i].can /\ f[i].pass = q.cache[i].pass /\ f[i].computed = q.cache[i].computed
  <2>1. CacheOK(q.cache[i])
    BY <1>1 DEF IsState
  <2> QED BY <2>1 DEF CacheOK
<1>3. Opened(q) = r
  <2>1. f = [i \in Ops |-> [q.cache[i] EXCEPT !.can = TRUE]]
    OBVIOUS
  <2> HIDE DEF f
  <2>2. Opened(q) = [q EXCEPT !.release = FALSE, !.cache = f]
    BY <1>1, <2>1 DEF Opened, IsState, Fields
  <2> QED BY <1>1, <2>2 DEF IsState, Fields
<1>4. DOMAIN f = Ops
  OBVIOUS
<1> HIDE DEF f
<1>5. IsState(x) /\ Differ(q, x, {"release"}) /\ x.release = FALSE
  BY <1>1 DEF IsState, Fields, Differ
<1> HIDE DEF x
<1>6. IsState(r) /\ Differ(x, r, {"cache"}) /\ r.cache = f
  BY <1>2, <1>4, <1>5 DEF IsState, Fields, Differ
<1> HIDE DEF r
<1>7. Differ(q, r, {"cache", "release"}) /\ r.cache = f /\ r.release = FALSE
  BY <1>5, <1>6 DEF Differ, Fields
<1>8. Sound(r)
  BY <1>6, <1>7 DEF Sound, Differ, Fields
<1> QED BY <1>2, <1>3, <1>7, <1>8

LEMMA CheckSane ==
  ASSUME NetOK, NEW q, Sound(q), NEW ran, NEW S, NEW pend, NEW a, SaneOf(q, ran, "plain", S, pend, a)
  PROVE  Sound(Opened(q)) /\ SaneOf(Opened(q), ran, "check", S, pend, a)
<1> DEFINE r == Opened(q)
<1>1. PlainOK(q) /\ S = {} /\ ~pend
  BY DEF SaneOf
<1>2. /\ Sound(r) /\ Differ(q, r, {"cache", "release"}) /\ r.release = FALSE
      /\ \A i \in Ops : r.cache[i].can /\ ~r.cache[i].computed
  <2>1. \A i \in Ops : ~q.cache[i].computed
    BY <1>1 DEF PlainOK
  <2>2. /\ Sound(r) /\ Differ(q, r, {"cache", "release"}) /\ r.release = FALSE
        /\ \A i \in Ops : r.cache[i].can /\ r.cache[i].computed = q.cache[i].computed
    BY OpenedIs
  <2> HIDE DEF r
  <2> QED BY <2>1, <2>2
<1> HIDE DEF r
<1>3. /\ r.shape = q.shape /\ r.content = q.content /\ r.built = q.built /\ r.exe = q.exe /\ r.mem = q.mem
      /\ r.group = q.group /\ r.cmdGroup = q.cmdGroup
  BY <1>2 DEF Differ, Fields
<1>4. CheckOK(r)
  BY <1>1, <1>2, <1>3 DEF CheckOK, Informed, Ungrouped, PlainOK, Open
<1>5. ran => Solves(r, a) /\ Done(r, pend)
  <2>1. Solves(q, a) => Solves(r, a)
    BY <1>3, SolvesSame
  <2>2. Done(q, pend) => Done(r, pend)
    BY <1>3 DEF Done, Bare
  <2> QED BY <2>1, <2>2 DEF SaneOf
<1> QED BY <1>1, <1>2, <1>4, <1>5 DEF SaneOf, r

\* The output has new memory, or was to have.
Renewed(q, r) ==
    LET t == Out(NumOps)
    IN  /\ Differ(q, r, {"code", "mem"})
        /\ \A i \in Ops : i # NumOps => r.mem[Out(i)] = q.mem[Out(i)]
        /\ \/ Ok(r) /\ r.mem[t] = q.mem[t]
           \/ q.mem[t] # 0 /\ r.mem[t] = IF Ok(r) THEN q.shape[t] ELSE 0

LEMMA RenewedFields ==
  ASSUME NEW q, NEW r, Renewed(q, r)
  PROVE  /\ r.shape = q.shape /\ r.content = q.content /\ r.built = q.built /\ r.cache = q.cache /\ r.need = q.need
         /\ r.dirty = q.dirty /\ r.group = q.group /\ r.exe = q.exe /\ r.cmdGroup = q.cmdGroup /\ r.release = q.release
  BY DEF Renewed, Differ, Fields

LEMMA RenewIs ==
  ASSUME NetOK, NEW q, Sound(q), Ok(q), NEW held, NEW fail
  PROVE  LET r == RenewOutput(q, held, fail) IN Sound(r) /\ Renewed(q, r)
<1> DEFINE t == Out(NumOps)
           r == RenewOutput(q, held, fail)
<1>0. IsState(q) /\ t \in Tensors /\ (\A i \in Ops : i # NumOps => Out(i) # t) /\ Commands(NumOps)
  BY Places, Numbers DEF Sound, NetOK
<1>1. CASE ~held \/ q.mem[t] = 0
  <2>1. r = q
    BY <1>1 DEF RenewOutput
  <2> HIDE DEF r
  <2>2. Sound(r) /\ Renewed(q, r)
    BY <2>1 DEF Renewed, Differ
  <2> QED BY <2>2 DEF r
<1>2. CASE ~(~held \/ q.mem[t] = 0)
  <2> DEFINE v == IF fail = <<"output", 0>> THEN 0 ELSE q.shape[t]
             c == IF fail = <<"output", 0>> THEN "OUT_OF_MEMORY" ELSE q.code
             mem == [q.mem EXCEPT ![t] = v]
             x == [q EXCEPT !.mem = mem]
             y == [x EXCEPT !.code = c]
  <2>1. r = y
    <3>1. CASE fail = <<"output", 0>>
      BY <1>0, <1>2, <3>1 DEF RenewOutput, IsState, Fields
    <3>2. CASE fail # <<"output", 0>>
      BY <1>0, <1>2, <3>2 DEF RenewOutput, IsState, Fields
    <3> QED BY <3>1, <3>2
  <2>2. v \in Sizes \cup {0} /\ c \in Codes /\ v = (IF c = "NO_ERROR" THEN q.shape[t] ELSE 0)
    BY <1>0 DEF IsState, Codes, Ok
  <2> HIDE DEF r, v, c
  <2>3. mem \in [Tensors -> Sizes \cup {0}] /\ mem[t] = v /\ \A u \in Tensors : u # t => mem[u] = q.mem[u]
    BY <1>0, <2>2 DEF IsState
  <2> HIDE DEF mem
  <2>4. IsState(x) /\ Differ(q, x, {"mem"}) /\ x.mem = mem
    BY <1>0, <2>3 DEF IsState, Fields, Differ
  <2> HIDE DEF x
  <2>5. IsState(y) /\ Differ(x, y, {"code"}) /\ y.code = c
    BY <2>2, <2>4 DEF IsState, Fields, Differ
  <2> HIDE DEF y
  <2>6. Differ(q, y, {"code", "mem"}) /\ y.mem = mem
    BY <2>4, <2>5 DEF Differ, Fields
  <2>7. Renewed(q, y)
    BY <1>0, <1>2, <2>2, <2>3, <2>5, <2>6, Places DEF Renewed, Ok
  <2>8. \A i \in Ops : ~Commands(i) => y.mem[Out(i)] = 0
    BY <1>0, <2>7 DEF Renewed, Sound
  <2>9. Sound(y)
    BY <2>5, <2>7, <2>8, RenewedFields DEF Sound
  <2>10. Sound(r) /\ Renewed(q, r)
    BY <2>1, <2>7, <2>9
  <2> QED BY <2>10 DEF r
<1> QED BY <1>1, <1>2

\* What the invariant says of the output: once it is fixed it passes, and the
\* memory that it has is that of the present shape.
LEMMA FixedOutput ==
  ASSUME NetOK, NEW q, NEW S, FixedOK(q, S), NEW a \in S, q.group[Out(NumOps)] = 1 \/ q.cmdGroup[NumOps] = 1,
         q.mem[Out(NumOps)] # 0
  PROVE  q.shape[Out(NumOps)] = Tr(a).shape[Out(NumOps)] /\ q.mem[Out(NumOps)] = q.shape[Out(NumOps)]
<1>1. NumOps \in Ops /\ Commands(NumOps) /\ ~Bare(q, NumOps)
  BY Numbers DEF NetOK, Bare
<1>2. q.cache[NumOps].pass
  BY <1>1 DEF FixedOK
<1>3. Passes(q, NumOps, S)
  BY <1>1, <1>2 DEF FixedOK
<1>4. q.group[Out(NumOps)] = 1 /\ \A b \in S : q.shape[Out(NumOps)] = Tr(b).shape[Out(NumOps)]
  BY <1>1, <1>3, CommandsRun DEF Passes
<1>5. \A b \in S : q.mem[Out(NumOps)] = Tr(b).shape[Out(NumOps)]
  BY <1>1, <1>4 DEF FixedOK
<1> QED BY <1>4, <1>5

\* The invariant does not notice.
LEMMA RenewedSane ==
  ASSUME NetOK, NEW q, NEW r, Sound(r), Renewed(q, r), NEW ran, NEW ph, NEW S, NEW pend, NEW a,
         SaneOf(q, ran, ph, S, pend, a)
  PROVE  SaneOf(r, ran, ph, S, pend, a)
<1> DEFINE t == Out(NumOps)
<1>1. /\ r.shape = q.shape /\ r.content = q.content /\ r.built = q.built /\ r.cache = q.cache /\ r.need = q.need
      /\ r.dirty = q.dirty /\ r.group = q.group /\ r.exe = q.exe /\ r.cmdGroup = q.cmdGroup /\ r.release = q.release
  BY RenewedFields
<1>2. /\ \A i \in Ops : i # NumOps => r.mem[Out(i)] = q.mem[Out(i)] /\ (Bare(q, i) <=> Bare(r, i))
      /\ Bare(q, NumOps) => Bare(r, NumOps)
      /\ r.mem[t] = q.mem[t] \/ Bare(r, NumOps) \/ (q.mem[t] # 0 /\ r.mem[t] = q.shape[t])
  BY DEF Renewed, Bare
<1>3. /\ \A i \in Ops : Known(q, i) => Known(r, i)
      /\ \A i : Snapshot(r, i) = Snapshot(q, i)
  <2>1. \A i, s : BasisFrom(r, i, s) = BasisFrom(q, i, s)
    BY <1>1 DEF BasisFrom
  <2> QED BY <1>1, <2>1 DEF Known, Snapshot
<1>4. /\ PlainOK(q) => PlainOK(r)
      /\ CheckOK(q) => CheckOK(r)
      /\ ShownOK(q, S) => ShownOK(r, S)
      /\ Settled(q) => Settled(r)
  <2>1. PlainOK(q) => PlainOK(r)
    BY <1>1 DEF PlainOK, Ungrouped
  <2>2. CheckOK(q) => CheckOK(r)
    BY <1>1, <1>3 DEF CheckOK, Ungrouped, Informed, Open
  <2>3. ShownOK(q, S) => ShownOK(r, S)
    BY <1>1 DEF ShownOK
  <2>4. Settled(q) => Settled(r)
    BY <1>1, <1>3 DEF Settled
  <2> QED BY <2>1, <2>2, <2>3, <2>4
<1>5. Solves(q, a) => Solves(r, a)
  BY <1>1, SolvesSame
<1>6. Done(q, pend) => Done(r, pend)
  BY <1>1, <1>2 DEF Done, Bare
<1>7. ASSUME FixedOK(q, S) PROVE FixedOK(r, S)
  <2>1. ASSUME NEW i \in Ops
        PROVE  /\ ~r.cache[i].can
               /\ r.cache[i].pass => Passes(r, i, S)
               /\ r.cmdGroup[i] = 1 => ~IsConst(i) /\ (r.cache[i].pass \/ Bare(r, i))
               /\ Commands(i) /\ r.group[Out(i)] = 1 => Bare(r, i) \/ \A b \in S : r.mem[Out(i)] = Tr(b).shape[Out(i)]
    <3>1. ~r.cache[i].can /\ (r.cache[i].pass => Passes(r, i, S))
      <4>1. ~q.cache[i].can /\ (q.cache[i].pass => Passes(q, i, S))
        BY <1>7 DEF FixedOK
      <4> QED BY <1>1, <4>1 DEF Passes
    <3>2. r.cmdGroup[i] = 1 => ~IsConst(i) /\ (r.cache[i].pass \/ Bare(r, i))
      <4>1. q.cmdGroup[i] = 1 => ~IsConst(i) /\ (q.cache[i].pass \/ Bare(q, i))
        BY <1>7 DEF FixedOK
      <4>2. Bare(q, i) => Bare(r, i)
        BY <1>2
      <4> QED BY <1>1, <4>1, <4>2
    <3>3. ASSUME Commands(i), r.group[Out(i)] = 1, ~Bare(r, i), NEW b \in S
          PROVE  r.mem[Out(i)] = Tr(b).shape[Out(i)]
      <4>1. ~Bare(q, i) => q.mem[Out(i)] = Tr(b).shape[Out(i)]
        BY <1>1, <1>7, <3>3 DEF FixedOK
      <4>2. CASE i # NumOps
        BY <1>2, <3>3, <4>1, <4>2
      <4>3. CASE i = NumOps
        <5>1. ~Bare(q, i) /\ q.mem[t] # 0
          BY <1>2, <3>3, <4>3 DEF Bare
        <5>2. q.shape[t] = Tr(b).shape[t]
          BY <1>1, <1>7, <3>3, <4>3, <5>1, FixedOutput
        <5> QED BY <1>2, <3>3, <4>1, <4>3, <5>1, <5>2
      <4> QED BY <4>2, <4>3
    <3> QED BY <3>1, <3>2, <3>3
  <2>2. ~r.release /\ (r.group[Out(NumOps)] = 1 => r.cache[NumOps].pass)
    BY <1>1, <1>7 DEF FixedOK
  <2> QED BY <2>1, <2>2 DEF FixedOK
<1> QED BY <1>4, <1>5, <1>6, <1>7 DEF SaneOf

-----------------------------------------------------------------------------
(* The fix.                                                                 *)

Stays(q, i) == Fixes(q, i) /\ ~IsConst(i)
Touched(q) == UNION {{Out(i)} \cup {Op(i).in[k] : k \in DOMAIN Op(i).in} : i \in {j \in Ops : Stays(q, j)}}
FixBuilt(q) == [i \in Ops |-> IF IsConst(i) /\ ~KeepsConst(q, i) THEN None ELSE q.built[i]]
FixCache(q) == [i \in Ops |-> [q.cache[i] EXCEPT !.can = FALSE, !.info = None, !.pass = Fixes(q, i)]]
FixCmd(q)   == [i \in Ops |-> IF Stays(q, i) THEN 1 ELSE q.cmdGroup[i]]
FixGroup(q) == [t \in Tensors |-> IF t \in Touched(q) THEN 1 ELSE q.group[t]]
FixMem(q)   == [t \in Tensors |-> IF t = Out(NumOps) THEN q.mem[t] ELSE 0]
FixOf(q) == [q EXCEPT !.built = FixBuilt(q), !.cache = FixCache(q), !.cmdGroup = FixCmd(q),
                      !.group = FixGroup(q), !.mem = FixMem(q)]

LEMMA FixStep ==
  ASSUME Fix
  PROVE  /\ p' = PlanTensors(FixOf(p), 1)
         /\ phase = "check" /\ Ran /\ shown # {} /\ phase' = "fixed" /\ pending' = TRUE
         /\ lost' = (lost /\ p'.mem[Out(NumOps)] = 0)
         /\ UNCHANGED <<net, needResize, shown, spoiled>>
<1> DEFINE fixed == {i \in Ops : Fixes(p, i)}
           inGroup == {i \in fixed : ~IsConst(i)}
           touched == UNION {{Out(i)} \cup {Op(i).in[k] : k \in DOMAIN Op(i).in} : i \in inGroup}
           q == [p EXCEPT
                !.built = [i \in Ops |-> IF IsConst(i) /\ ~KeepsConst(p, i) THEN None ELSE @[i]],
                !.cache = [i \in Ops |-> [@[i] EXCEPT !.can = FALSE, !.info = None, !.pass = i \in fixed]],
                !.cmdGroup = [i \in Ops |-> IF i \in inGroup THEN 1 ELSE @[i]],
                !.group = [t \in Tensors |-> IF t \in touched THEN 1 ELSE @[t]],
                !.mem = [t \in Tensors |-> IF t = Out(NumOps) THEN @[t] ELSE 0]]
<1>1. /\ p' = PlanTensors(q, 1)
      /\ phase = "check" /\ Ran /\ shown # {} /\ phase' = "fixed" /\ pending' = TRUE
      /\ lost' = (lost /\ p'.mem[Out(NumOps)] = 0)
      /\ UNCHANGED <<net, needResize, shown, spoiled>>
  BY DEF Fix, Ran
<1>2. inGroup = {j \in Ops : Stays(p, j)}
  BY DEF Stays
<1>3. touched = Touched(p)
  BY <1>2 DEF Touched
<1>4. \A i \in Ops : (i \in fixed <=> Fixes(p, i)) /\ (i \in inGroup <=> Stays(p, i))
  BY DEF Stays
<1>5. q = FixOf(p)
  <2>1. [i \in Ops |-> [p.cache[i] EXCEPT !.can = FALSE, !.info = None, !.pass = i \in fixed]] = FixCache(p)
    <3>1. \A i \in Ops : (i \in fixed) = Fixes(p, i)
      BY <1>4 DEF Fixes
    <3> HIDE DEF fixed
    <3> QED BY <3>1 DEF FixCache
  <2>2. [i \in Ops |-> IF i \in inGroup THEN 1 ELSE p.cmdGroup[i]] = FixCmd(p)
    <3> HIDE DEF inGroup
    <3> QED BY <1>4 DEF FixCmd
  <2>3. [t \in Tensors |-> IF t \in touched THEN 1 ELSE p.group[t]] = FixGroup(p)
    BY <1>3 DEF FixGroup
  <2>4. q = [p EXCEPT
                !.built = [i \in Ops |-> IF IsConst(i) /\ ~KeepsConst(p, i) THEN None ELSE p.built[i]],
                !.cache = [i \in Ops |-> [p.cache[i] EXCEPT !.can = FALSE, !.info = None, !.pass = i \in fixed]],
                !.cmdGroup = [i \in Ops |-> IF i \in inGroup THEN 1 ELSE p.cmdGroup[i]],
                !.group = [t \in Tensors |-> IF t \in touched THEN 1 ELSE p.group[t]],
                !.mem = [t \in Tensors |-> IF t = Out(NumOps) THEN p.mem[t] ELSE 0]]
    <3> HIDE DEF fixed, inGroup, touched
    <3> QED BY Zenon
  <2> HIDE DEF fixed, inGroup, touched, q
  <2> QED BY <2>1, <2>2, <2>3, <2>4, Zenon DEF FixOf, FixBuilt, FixMem
<1> QED BY <1>1, <1>5

LEMMA FixIs ==
  ASSUME NetOK, NEW q, Sound(q)
  PROVE  LET r == FixOf(q)
         IN  /\ IsState(r) /\ Differ(q, r, {"built", "cache", "cmdGroup", "group", "mem"})
             /\ \A i \in Ops :
                   /\ r.built[i] = IF IsConst(i) /\ ~q.dirty[i] THEN None ELSE q.built[i]
                   /\ r.cache[i].can = FALSE /\ (r.cache[i].pass <=> Fixes(q, i))
                   /\ r.cmdGroup[i] = IF Stays(q, i) THEN 1 ELSE q.cmdGroup[i]
                   /\ r.group[Out(i)] = IF Out(i) \in Touched(q) THEN 1 ELSE q.group[Out(i)]
                   /\ r.mem[Out(i)] = IF i = NumOps THEN q.mem[Out(i)] ELSE 0
<1> DEFINE v == [q EXCEPT !.built = FixBuilt(q)]
           w == [v EXCEPT !.cache = FixCache(q)]
           x == [w EXCEPT !.cmdGroup = FixCmd(q)]
           y == [x EXCEPT !.group = FixGroup(q)]
           r == [y EXCEPT !.mem = FixMem(q)]
<1>0. IsState(q)
  BY DEF Sound
<1>1. FixOf(q) = r
  BY <1>0 DEF FixOf, IsState, Fields
<1>2. DOMAIN FixBuilt(q) = Ops /\ \A i \in Ops : FixBuilt(q)[i] = IF IsConst(i) /\ ~q.dirty[i] THEN None ELSE q.built[i]
  BY DEF FixBuilt, KeepsConst
<1>3. /\ DOMAIN FixCache(q) = Ops
      /\ \A i \in Ops : LET c == FixCache(q)[i] IN CacheOK(c) /\ c.can = FALSE /\ (c.pass <=> Fixes(q, i))
  <2>1. DOMAIN FixCache(q) = Ops
    BY DEF FixCache
  <2>2. ASSUME NEW i \in Ops
        PROVE  LET c == FixCache(q)[i] IN CacheOK(c) /\ c.can = FALSE /\ (c.pass <=> Fixes(q, i))
    <3> DEFINE d == q.cache[i]
               b == Fixes(q, i)
               c == [d EXCEPT !.can = FALSE, !.info = None, !.pass = b]
    <3>1. CacheOK(d) /\ b \in BOOLEAN
      BY <1>0 DEF IsState, Fixes
    <3>2. FixCache(q)[i] = c
      BY DEF FixCache
    <3> HIDE DEF d, b
    <3>3. CacheOK(c) /\ c.can = FALSE /\ c.pass = b
      BY <3>1 DEF CacheOK
    <3> HIDE DEF c
    <3> QED BY <3>2, <3>3 DEF b
  <2> QED BY <2>1, <2>2
<1>4. FixCmd(q) \in [Ops -> {0, 1}] /\ \A i \in Ops : FixCmd(q)[i] = IF Stays(q, i) THEN 1 ELSE q.cmdGroup[i]
  BY <1>0 DEF IsState, FixCmd
<1>5. /\ FixGroup(q) \in [Tensors -> {0, 1}]
      /\ \A i \in Ops : FixGroup(q)[Out(i)] = IF Out(i) \in Touched(q) THEN 1 ELSE q.group[Out(i)]
  BY <1>0, Places DEF IsState, FixGroup
<1>6. /\ FixMem(q) \in [Tensors -> Sizes \cup {0}]
      /\ \A i \in Ops : FixMem(q)[Out(i)] = IF i = NumOps THEN q.mem[Out(i)] ELSE 0
  <2>1. \A i \in Ops : Out(i) = Out(NumOps) <=> i = NumOps
    BY Places, Numbers
  <2> QED BY <1>0, <2>1, Places DEF IsState, FixMem
<1>7. IsState(v) /\ Differ(q, v, {"built"}) /\ v.built = FixBuilt(q)
  BY <1>0, <1>2 DEF IsState, Fields, Differ
<1> HIDE DEF v
<1>8. IsState(w) /\ Differ(v, w, {"cache"}) /\ w.cache = FixCache(q)
  BY <1>3, <1>7 DEF IsState, Fields, Differ
<1> HIDE DEF w
<1>9. IsState(x) /\ Differ(w, x, {"cmdGroup"}) /\ x.cmdGroup = FixCmd(q)
  BY <1>4, <1>8 DEF IsState, Fields, Differ
<1> HIDE DEF x
<1>10. IsState(y) /\ Differ(x, y, {"group"}) /\ y.group = FixGroup(q)
  BY <1>5, <1>9 DEF IsState, Fields, Differ
<1> HIDE DEF y
<1>11. IsState(r) /\ Differ(y, r, {"mem"}) /\ r.mem = FixMem(q)
  BY <1>6, <1>10 DEF IsState, Fields, Differ
<1> HIDE DEF r
<1>12. /\ Differ(q, r, {"built", "cache", "cmdGroup", "group", "mem"})
       /\ r.built = FixBuilt(q) /\ r.cache = FixCache(q) /\ r.cmdGroup = FixCmd(q) /\ r.group = FixGroup(q)
  BY <1>7, <1>8, <1>9, <1>10, <1>11 DEF Differ, Fields
<1> QED BY <1>1, <1>2, <1>3, <1>4, <1>5, <1>6, <1>11, <1>12

\* The pipeline that the fix leaves.
LEMMA FixSound ==
  ASSUME NetOK, NEW q, Sound(q)
  PROVE  Sound(PlanTensors(FixOf(q), 1))
<1> DEFINE n == FixOf(q)
           r == PlanTensors(n, 1)
<1>1. /\ IsState(n) /\ Differ(q, n, {"built", "cache", "cmdGroup", "group", "mem"})
      /\ \A i \in Ops : /\ n.built[i] = IF IsConst(i) /\ ~q.dirty[i] THEN None ELSE q.built[i]
                        /\ n.mem[Out(i)] = IF i = NumOps THEN q.mem[Out(i)] ELSE 0
  BY FixIs, ZenonT(40)
<1> HIDE DEF n
<1>2. /\ IsState(r) /\ Differ(n, r, {"mem"})
      /\ \A i \in Ops : r.mem[Out(i)] = IF Commands(i) /\ n.group[Out(i)] = 1 /\ n.mem[Out(i)] = 0
                                        THEN n.shape[Out(i)] ELSE n.mem[Out(i)]
  BY <1>1, PlanIs
<1> HIDE DEF r
<1>3. r.shape = q.shape /\ r.content = q.content /\ r.built = n.built
  BY <1>1, <1>2 DEF Differ, Fields
<1>4. ASSUME NEW i \in Ops, ~Commands(i) PROVE r.mem[Out(i)] = 0
  <2>1. q.mem[Out(i)] = 0
    BY <1>4 DEF Sound
  <2> QED BY <1>1, <1>2, <1>4, <2>1
<1>5. ASSUME NEW i \in Ops PROVE (~IsConst(i) => r.content[Out(i)] = 1) /\ (Op(i).kind = "shapeOf" => r.built[i] = None)
  BY <1>1, <1>3 DEF Sound
<1>6. Sound(r)
  BY <1>2, <1>3, <1>4, <1>5 DEF Sound
<1> QED BY <1>6 DEF r, n

\* What is fixed is the same for all inputs that were shown.
LEMMA FixSame ==
  ASSUME NetOK, NEW q, NEW S, NEW b, ShownOK(q, S), Settled(q), Solves(q, b),
         \A a \in S : Solves(Tr(a), a), NEW i \in Ops, Fixes(q, i), NEW a \in S
  PROVE  /\ q.cache[i].can /\ q.cache[i].computed
         /\ q.shape[Out(i)] = Tr(a).shape[Out(i)]
         /\ \A k \in DOMAIN Op(i).in : q.shape[Op(i).in[k]] = Tr(a).shape[Op(i).in[k]]
         /\ Op(i).kind = "shapeOf" => q.content[Out(i)] = Tr(a).content[Out(i)]
         /\ ~IsConst(i) => q.built[i] = Tr(a).built[i]
<1>1. q.cache[i].can
  BY DEF Settled, Fixes
<1>2. /\ q.cache[i].computed /\ q.cache[i].info = Snapshot(Tr(a), i) /\ q.cache[i].info = Snapshot(q, i)
      /\ ~IsConst(i) => q.built[i] = Tr(a).built[i]
  BY <1>1 DEF ShownOK, Settled
<1> DEFINE T == Tr(a)
<1>3. Valued(q, i) /\ Valued(T, i)
  BY DEF Solves, Solved
<1> HIDE DEF T
<1> DEFINE s == Snapshot(q, i)
<1>4. /\ SizeFrom(i, s) = OutputSize(q, i)
      /\ Op(i).kind = "shapeOf" => s[1][1] = q.shape[Op(i).in[1]]
      /\ \A k \in DOMAIN Op(i).in : s[k][1] = q.shape[Op(i).in[k]]
  BY SnapshotSays
<1>5. s = Snapshot(T, i)
  BY <1>2 DEF T
<1>6. /\ SizeFrom(i, Snapshot(T, i)) = OutputSize(T, i)
      /\ Op(i).kind = "shapeOf" => Snapshot(T, i)[1][1] = T.shape[Op(i).in[1]]
      /\ \A k \in DOMAIN Op(i).in : Snapshot(T, i)[k][1] = T.shape[Op(i).in[k]]
  BY SnapshotSays
<1> HIDE DEF s
<1>7. q.shape[Out(i)] = T.shape[Out(i)]
  BY <1>3, <1>4, <1>5, <1>6 DEF Valued
<1>8. \A k \in DOMAIN Op(i).in : q.shape[Op(i).in[k]] = T.shape[Op(i).in[k]]
  BY <1>4, <1>5, <1>6
<1>9. Op(i).kind = "shapeOf" => q.content[Out(i)] = T.content[Out(i)]
  <2> HAVE Op(i).kind = "shapeOf"
  <2>1. q.shape[Op(i).in[1]] = T.shape[Op(i).in[1]]
    BY <1>4, <1>5, <1>6
  <2> QED BY <1>3, <2>1 DEF Valued, ContentOf
<1> QED BY <1>1, <1>2, <1>7, <1>8, <1>9 DEF T

\* ... and a copy of what is fixed, with it.
LEMMA FixCopied ==
  ASSUME NetOK, NEW q, NEW S, NEW b, ShownOK(q, S), Settled(q), Solves(q, b),
         \A a \in S : Solves(Tr(a), a), NEW i \in Ops, NEW j \in Ops, Copies(i, j), Fixes(q, j), NEW a \in S
  PROVE  q.content[Out(i)] = Tr(a).content[Out(i)]
<1> DEFINE T == Tr(a)
<1>1. Op(i).kind = "copy" /\ Op(i).in[1] = Out(j) /\ Op(j).kind = "shapeOf"
  BY CopyReads DEF Copies
<1>2. q.content[Out(j)] = T.content[Out(j)]
  BY <1>1, FixSame
<1>3. Valued(q, i) /\ Valued(T, i)
  BY DEF Solves, Solved
<1> HIDE DEF T
<1>4. q.content[Out(i)] = q.content[Out(j)] /\ T.content[Out(i)] = T.content[Out(j)]
  BY <1>1, <1>3 DEF Valued, ContentOf
<1> QED BY <1>2, <1>4 DEF T

LEMMA FixSane ==
  ASSUME NetOK, NEW q, Sound(q), NEW S, NEW pend, NEW b, SaneOf(q, TRUE, "check", S, pend, b), S # {}
  PROVE  LET r == PlanTensors(FixOf(q), 1)
         IN  SaneOf(r, TRUE, "fixed", S, TRUE, b)
<1> DEFINE n == FixOf(q)
           r == PlanTensors(n, 1)
<1>1. /\ CheckOK(q) /\ Informed(q) /\ Ungrouped(q) /\ ~q.release /\ ShownOK(q, S) /\ Settled(q) /\ ~pend
      /\ Solves(q, b) /\ Done(q, pend) /\ \A a \in S : Solves(Tr(a), a)
  BY DEF SaneOf, CheckOK
<1>2. /\ IsState(n) /\ Differ(q, n, {"built", "cache", "cmdGroup", "group", "mem"})
      /\ \A i \in Ops :
            /\ n.built[i] = IF IsConst(i) /\ ~q.dirty[i] THEN None ELSE q.built[i]
            /\ n.cache[i].can = FALSE /\ (n.cache[i].pass <=> Fixes(q, i))
            /\ n.cmdGroup[i] = IF Stays(q, i) THEN 1 ELSE q.cmdGroup[i]
            /\ n.group[Out(i)] = IF Out(i) \in Touched(q) THEN 1 ELSE q.group[Out(i)]
            /\ n.mem[Out(i)] = IF i = NumOps THEN q.mem[Out(i)] ELSE 0
  BY FixIs
<1> HIDE DEF n
<1>3. /\ IsState(r) /\ Differ(n, r, {"mem"})
      /\ \A i \in Ops : r.mem[Out(i)] = IF Commands(i) /\ n.group[Out(i)] = 1 /\ n.mem[Out(i)] = 0
                                        THEN n.shape[Out(i)] ELSE n.mem[Out(i)]
  BY <1>2, PlanIs
<1> HIDE DEF r
<1>4. /\ r.shape = q.shape /\ r.content = q.content /\ r.exe = q.exe /\ r.release = q.release
      /\ n.shape = q.shape /\ r.built = n.built /\ r.cache = n.cache /\ r.cmdGroup = n.cmdGroup /\ r.group = n.group
  BY <1>2, <1>3 DEF Differ, Fields
<1>5. ASSUME NEW i \in Ops
      PROVE  /\ r.built[i] = IF IsConst(i) /\ ~q.dirty[i] THEN None ELSE q.built[i]
             /\ r.cache[i].can = FALSE /\ (r.cache[i].pass <=> Fixes(q, i))
             /\ r.cmdGroup[i] = IF Stays(q, i) THEN 1 ELSE 0
             /\ r.cmdGroup[i] = 1 <=> Stays(q, i)
             /\ r.group[Out(i)] = IF Out(i) \in Touched(q) THEN 1 ELSE 0
             /\ r.group[Out(i)] = 1 <=> Out(i) \in Touched(q)
  <2>1. /\ n.built[i] = IF IsConst(i) /\ ~q.dirty[i] THEN None ELSE q.built[i]
        /\ n.cache[i].can = FALSE /\ (n.cache[i].pass <=> Fixes(q, i))
        /\ n.cmdGroup[i] = IF Stays(q, i) THEN 1 ELSE q.cmdGroup[i]
        /\ n.group[Out(i)] = IF Out(i) \in Touched(q) THEN 1 ELSE q.group[Out(i)]
    BY <1>2
  <2>2. q.cmdGroup[i] = 0 /\ q.group[Out(i)] = 0
    BY <1>1, Places DEF Ungrouped
  <2>3. n.cmdGroup[i] = 1 <=> Stays(q, i)
    BY <2>1, <2>2
  <2>4. n.group[Out(i)] = 1 <=> Out(i) \in Touched(q)
    BY <2>1, <2>2
  <2> QED BY <1>4, <2>1, <2>2, <2>3, <2>4
<1>6. ASSUME NEW i \in Ops, Commands(i) PROVE q.exe[i] /\ (q.mem[Out(i)] = q.shape[Out(i)] \/ Bare(q, i))
  BY <1>1, <1>6 DEF Done
<1>7. ASSUME NEW i \in Ops, Commands(i), r.group[Out(i)] = 1 PROVE r.mem[Out(i)] = q.shape[Out(i)]
  <2>1. r.mem[Out(i)] = IF n.mem[Out(i)] = 0 THEN q.shape[Out(i)] ELSE n.mem[Out(i)]
    BY <1>3, <1>4, <1>7
  <2>2. n.mem[Out(i)] = 0 \/ n.mem[Out(i)] = q.shape[Out(i)]
    BY <1>2, <1>6, <1>7 DEF Bare
  <2> QED BY <2>1, <2>2
<1>8. \A i \in Ops : Stays(q, i) => Out(i) \in Touched(q)
  BY DEF Touched
<1>9. ASSUME NEW i \in Ops, Fixes(q, i) PROVE Passes(r, i, S)
  <2>1. Fixes(q, i) /\ q.cache[i].can /\ q.cache[i].computed
    BY <1>1, <1>9, FixSame
  <2>2. ASSUME NEW a \in S
        PROVE  /\ r.shape[Out(i)] = Tr(a).shape[Out(i)]
               /\ Op(i).kind = "shapeOf" => r.content[Out(i)] = Tr(a).content[Out(i)]
               /\ ~IsConst(i) => r.built[i] = Tr(a).built[i]
    <3>1. /\ q.shape[Out(i)] = Tr(a).shape[Out(i)]
          /\ Op(i).kind = "shapeOf" => q.content[Out(i)] = Tr(a).content[Out(i)]
          /\ ~IsConst(i) => q.built[i] = Tr(a).built[i]
      BY <1>1, <1>9, FixSame
    <3>2. ~IsConst(i) => r.built[i] = q.built[i]
      BY <1>5
    <3> QED BY <1>4, <3>1, <3>2
  <2>3. Commands(i) => r.exe[i]
    BY <1>4, <1>6
  <2>4. ~IsConst(i) => r.cmdGroup[i] = 1 /\ r.group[Out(i)] = 1
    BY <1>5, <1>8, <1>9 DEF Stays
  <2>5. ASSUME NEW j \in Ops, Copies(i, j), r.cache[j].pass, NEW a \in S PROVE r.content[Out(i)] = Tr(a).content[Out(i)]
    <3>1. Fixes(q, j)
      BY <1>5, <2>5
    <3>2. q.content[Out(i)] = Tr(a).content[Out(i)]
      BY <1>1, <2>5, <3>1, FixCopied
    <3> QED BY <1>4, <3>2
  <2>6. ASSUME Op(i).kind = "copy", r.built[i] = None
        PROVE  \E j \in Ops : Copies(i, j) /\ r.cache[j].pass
    <3>1. q.built[i] # None
      <4>1. Known(q, i)
        BY <1>1, <2>1 DEF Informed, Open
      <4> QED BY <2>6, <4>1, SomeBasis DEF Known
    <3>2. ~q.dirty[i]
      BY <1>5, <2>6, <3>1
    <3>3. PICK j \in Ops : Copies(i, j) /\ q.cache[j].can
      BY <1>1, <2>1, <2>6, <3>2 DEF Settled
    <3> QED BY <1>5, <3>3 DEF Fixes
  <2>7. Op(i).kind = "copy" /\ r.built[i] = None =>
           /\ \E j \in Ops : Copies(i, j) /\ r.cache[j].pass
           /\ \A a \in S : r.content[Out(i)] = Tr(a).content[Out(i)]
    BY <2>5, <2>6
  <2> QED BY <2>2, <2>3, <2>4, <2>5, <2>7 DEF Passes
<1>10. ASSUME NEW i \in Ops, r.group[Out(i)] = 1, NEW a \in S PROVE q.shape[Out(i)] = Tr(a).shape[Out(i)]
  <2>1. Out(i) \in Touched(q)
    BY <1>5, <1>10
  <2>2. PICK j \in Ops : Stays(q, j) /\ Out(i) \in {Out(j)} \cup {Op(j).in[k] : k \in DOMAIN Op(j).in}
    BY <2>1 DEF Touched
  <2>3. /\ q.shape[Out(j)] = Tr(a).shape[Out(j)]
        /\ \A k \in DOMAIN Op(j).in : q.shape[Op(j).in[k]] = Tr(a).shape[Op(j).in[k]]
    BY <1>1, <2>2, FixSame DEF Stays
  <2> QED BY <2>2, <2>3
<1>11. FixedOK(r, S)
  <2>1. ~r.release
    BY <1>1, <1>4
  <2>3. r.group[Out(NumOps)] = 1 => r.cache[NumOps].pass
    <3> SUFFICES ASSUME NumOps \in Ops, Out(NumOps) \in Touched(q) PROVE Fixes(q, NumOps)
      BY <1>5, Numbers
    <3>1. PICK j \in Ops : Stays(q, j) /\ Out(NumOps) \in {Out(j)} \cup {Op(j).in[k] : k \in DOMAIN Op(j).in}
      BY DEF Touched
    <3>2. \A k \in DOMAIN Op(j).in : Op(j).in[k] # Out(NumOps)
      <4>1. \A i \in Ops : i < j => i # NumOps
        BY Numbers
      <4> QED BY <4>1, ReadsWhat, Places
    <3> QED BY <3>1, <3>2, Places DEF Stays
  <2>2. ASSUME NEW i \in Ops
        PROVE  /\ ~r.cache[i].can
               /\ r.cache[i].pass => Passes(r, i, S)
               /\ r.cmdGroup[i] = 1 => ~IsConst(i) /\ r.cache[i].pass
               /\ Commands(i) /\ r.group[Out(i)] = 1 => \A a \in S : r.mem[Out(i)] = Tr(a).shape[Out(i)]
    <3>1. ~r.cache[i].can /\ (r.cache[i].pass => Passes(r, i, S))
      BY <1>5, <1>9
    <3>2. r.cmdGroup[i] = 1 => ~IsConst(i) /\ r.cache[i].pass
      BY <1>5 DEF Stays
    <3>3. Commands(i) /\ r.group[Out(i)] = 1 => \A a \in S : r.mem[Out(i)] = Tr(a).shape[Out(i)]
      BY <1>7, <1>10
    <3> QED BY <3>1, <3>2, <3>3
  <2> QED BY <2>1, <2>2, <2>3 DEF FixedOK
<1>12. Done(r, TRUE)
  <2>1. \A i \in Ops : r.cmdGroup[i] # 0 => r.group[Out(i)] = 1
    BY <1>5, <1>8
  <2> QED BY <1>4, <1>6, <1>7, <2>1 DEF Done
<1>13. Solves(r, b)
  <2>1. \A i \in Ops : ~IsConst(i) => r.built[i] = q.built[i]
    BY <1>5
  <2> QED BY <1>1, <1>4, <2>1, SolvesSame
<1>14. SaneOf(r, TRUE, "fixed", S, TRUE, b)
  BY <1>1, <1>11, <1>12, <1>13 DEF SaneOf
<1> QED BY <1>14 DEF r, n

-----------------------------------------------------------------------------
(* The invariant.                                                           *)

\* The pipeline of a call before its resize, and whether it has one.
Called == [p EXCEPT !.code = "NO_ERROR"]
Changed(a) == UsesContent(net) \/ (a[X] # p.shape[X] \/ a[Y] # p.shape[Y])
Ready(a, held, fail) == IF Changed(a) THEN Called ELSE RenewOutput(Called, held, fail)
Resizes(a, held, fail) == Ok(Ready(a, held, fail)) /\ (needResize \/ Changed(a))

LEMMA ForwardIs ==
  ASSUME NEW a, NEW held, NEW fail, Forward(a, held, fail)
  PROVE  LET n == Ready(a, held, fail)
             z == Resizes(a, held, fail)
         IN  /\ phase = "fixed" => a \in shown
             /\ p' = IF z THEN Resize(SetInputs(n, a), held, fail) ELSE n
             /\ needResize' = IF z THEN ~Ok(p') ELSE needResize
             /\ shown' = IF phase = "check" /\ z /\ Ok(p') THEN shown \cup {a} ELSE shown
             /\ pending' = (pending /\ ~(z /\ Ok(p')))
             /\ lost' = ((lost \/ ~Ok(n)) /\ p'.mem[Out(NumOps)] = 0)
             /\ spoiled' = (spoiled \/ (z /\ ~Ok(p') /\ \E i \in Ops : HalfBuilt(n, p', i, fail)))
             /\ net' = net /\ phase' = phase
  BY DEF Forward, Ready, Resizes, Called, Changed

LEMMA ReadyIs ==
  ASSUME NetOK, Sound(p), NEW a, NEW held, NEW fail
  PROVE  LET n == Ready(a, held, fail) IN Sound(n) /\ Renewed(p, n)
<1> DEFINE n == Ready(a, held, fail)
           c == Called
<1>1. Sound(c) /\ Ok(c) /\ Differ(p, c, {"code"})
  BY CodeIs DEF Called
<1>2. n = IF Changed(a) THEN c ELSE RenewOutput(c, held, fail)
  BY DEF Ready
<1> HIDE DEF n, c
<1>3. Renewed(c, c)
  BY <1>1 DEF Renewed, Differ
<1>4. Sound(n) /\ Renewed(c, n)
  BY <1>1, <1>2, <1>3, RenewIs
<1>5. c.mem = p.mem /\ c.shape = p.shape
  BY <1>1 DEF Differ, Fields
<1>6. Differ(p, n, {"code", "mem"})
  BY <1>1, <1>4 DEF Differ, Renewed
<1>7. Renewed(p, n)
  BY <1>4, <1>5, <1>6 DEF Renewed
<1> QED BY <1>4, <1>7 DEF n

\* The output has no memory where a call has not got any for it, and stays so
\* in group 1; a resize that succeeds plans it in group 0.
LEMMA ForwardAccounted ==
  ASSUME NetOK, Sound(p), Accounted, NEW a \in [Inputs -> Sizes], NEW held \in BOOLEAN, NEW fail,
         Forward(a, held, fail)
  PROVE  Accounted'
<1> DEFINE n == Ready(a, held, fail)
           z == Resizes(a, held, fail)
           t == Out(NumOps)
<1>0. NumOps \in Ops /\ Commands(NumOps) /\ t \in Tensors /\ \A s \in Sizes : s # 0
  BY Places, Numbers, ResizeAssumption DEF NetOK
<1>1. Sound(n) /\ Renewed(p, n)
  BY ReadyIs
<1>2. /\ p' = IF z THEN Resize(SetInputs(n, a), held, fail) ELSE n
      /\ needResize' = IF z THEN ~Ok(p') ELSE needResize
      /\ lost' = ((lost \/ ~Ok(n)) /\ p'.mem[t] = 0)
      /\ z <=> Ok(n) /\ (needResize \/ Changed(a))
  BY ForwardIs DEF Resizes
<1> HIDE DEF n, z, t
<1> SUFFICES ASSUME p'.mem[t] = 0, Ok(n), ~lost PROVE ~Ran' /\ p'.group[t] = 0
  BY <1>2 DEF Accounted, Unplanned, t
<1>3. n.group = p.group
  BY <1>1, RenewedFields
<1>4. n.mem[t] = 0 => p.group[t] = 0 /\ needResize
  <2>1. p.shape[t] # 0
    BY <1>0 DEF Sound, IsState
  <2>2. n.mem[t] = 0 => p.mem[t] = 0
    BY <1>1, <2>1 DEF Renewed, t
  <2> QED BY <2>2 DEF Accounted, Unplanned, Ran, t
<1>5. z
  BY <1>2, <1>4
<1> DEFINE q == SetInputs(n, a)
<1>6. Sound(q) /\ Differ(n, q, {"shape", "content"})
  BY <1>1, InputsSet
<1>7. p' = Resize(q, held, fail)
  BY <1>2, <1>5
<1> HIDE DEF q
<1> DEFINE r == Resize(q, held, fail)
<1>8. Sound(r) /\ ((Ok(r) /\ Complete(q, r, held)) \/ (~Ok(r) /\ Failed(q, r, held, fail)))
  BY <1>6, Ways, SoundStays
<1>9. p' = r
  BY <1>7
<1> HIDE DEF r
<1>10. q.mem = n.mem /\ q.group = n.group
  BY <1>6 DEF Differ, Fields
<1>11. r.group[t] \in {0, 1} /\ r.shape[t] # 0
  BY <1>0, <1>8 DEF Sound, IsState
<1>12. r.group[t] # 1
  <2> SUFFICES ASSUME r.group[t] = 1 PROVE FALSE
    OBVIOUS
  <2>1. r.mem[t] = q.mem[t]
    BY <1>0, <1>8 DEF Complete, Failed, t
  <2>2. Gone(q, r, held, fail)
    BY <1>8 DEF Gone, Failed, Complete
  <2>3. q.group[t] = 1
    BY <1>0, <2>2, GroupStays DEF t
  <2> QED BY <1>3, <1>4, <1>9, <1>10, <2>1, <2>3
<1>13. ~Ok(r)
  BY <1>0, <1>8, <1>9, <1>11, <1>12 DEF Complete, t
<1> QED BY <1>2, <1>5, <1>9, <1>11, <1>12, <1>13 DEF Ran

LEMMA GivenPresent ==
  ASSUME NEW a \in [Inputs -> Sizes], NEW q, Given(q, a)
  PROVE  [t \in Inputs |-> IF t = C THEN q.content[t] ELSE q.shape[t]] = a
<1>1. \A t \in Inputs : a[t] = IF t = C THEN q.content[t] ELSE q.shape[t]
  BY Places DEF Given, Inputs
<1> QED BY <1>1

LEMMA InitIInv == Init => IInv
<1> SUFFICES ASSUME Init PROVE IInv
  OBVIOUS
<1>1. TypeInv
  BY EmptySound DEF Init, TypeInv
<1>2. PlainOK(p)
  BY DEF Init, EmptyPipeline, PlainOK, Ungrouped, ClosedCache
<1>3. Accounted
  <2>1. Out(NumOps) \in Tensors
    BY Places, Numbers
  <2> QED BY <2>1 DEF Init, EmptyPipeline, Accounted, Unplanned, Ran
<1> QED BY <1>1, <1>2, <1>3 DEF Init, IInv, Sane, Ran

LEMMA ForwardIInv ==
  ASSUME IInv, NEW a \in Assignments, NEW held \in BOOLEAN, NEW fail, Forward(a, held, fail)
  PROVE  IInv'
<1> DEFINE n == Ready(a, held, fail)
           z == Resizes(a, held, fail)
<1>1. NetOK /\ TypeInv /\ Sound(p) /\ net' = net /\ a \in [Inputs -> Sizes]
  BY NetShape, ForwardIs DEF IInv, TypeInv, Assignments
<1>0. Sound(n) /\ Renewed(p, n)
  BY <1>1, ReadyIs
<1>a. /\ phase = "fixed" => a \in shown
      /\ p' = IF z THEN Resize(SetInputs(n, a), held, fail) ELSE n
      /\ needResize' = IF z THEN ~Ok(p') ELSE needResize
      /\ shown' = IF phase = "check" /\ z /\ Ok(p') THEN shown \cup {a} ELSE shown
      /\ pending' = (pending /\ ~(z /\ Ok(p')))
      /\ lost' = ((lost \/ ~Ok(n)) /\ p'.mem[Out(NumOps)] = 0)
      /\ spoiled' = (spoiled \/ (z /\ ~Ok(p') /\ \E i \in Ops : HalfBuilt(n, p', i, fail)))
      /\ net' = net /\ phase' = phase
  BY ForwardIs
<1> HIDE DEF n, z
<1>2. Sound(p') /\ (z => Given(p', a))
  <2>1. CASE z
    <3> DEFINE q == SetInputs(n, a)
    <3>1. Sound(q) /\ Given(q, a)
      BY <1>0, <1>1, InputsSet
    <3>2. p' = Resize(q, held, fail)
      BY <1>a, <2>1
    <3> HIDE DEF q
    <3>3. Base(q, p') /\ Sound(p')
      BY <1>1, <3>1, <3>2, Ways, SoundStays
    <3> QED BY <3>1, <3>3, BaseGiven
  <2>2. CASE ~z
    BY <1>0, <1>a, <2>2
  <2> QED BY <2>1, <2>2
<1>3. TypeInv'
  <2>1. Sound(p)' /\ Assignments' = Assignments
    BY <1>1, <1>2, InvariantsStay
  <2>2. shown' \subseteq Assignments /\ pending' \in BOOLEAN /\ needResize' \in BOOLEAN /\ lost' \in BOOLEAN
        /\ spoiled' \in BOOLEAN /\ phase' \in {"plain", "check", "fixed"} /\ net' \in Nets'
    <3>1. Nets' = Nets
      BY DEF Nets, Choices, Operands, WellUsed
    <3> QED BY <1>1, <1>a, <3>1 DEF TypeInv, Ok
  <2> QED BY <2>1, <2>2 DEF TypeInv
<1>4. ASSUME ~spoiled' PROVE SaneOf(p', Ran', phase', shown', pending', Present')
  <2>1. ~spoiled /\ (z => Ok(p') \/ \A i \in Ops : ~HalfBuilt(n, p', i, fail))
    BY <1>1, <1>4, <1>a DEF TypeInv
  <2>2. SaneOf(n, Ran, phase, shown, pending, Present)
    <3>1. SaneOf(p, Ran, phase, shown, pending, Present)
      BY <2>1, SaneIs DEF IInv
    <3> QED BY <1>0, <1>1, <3>1, RenewedSane
  <2>4. CASE z
    <3>1. Present' = a
      BY <1>1, <1>2, <2>4, GivenPresent DEF Present
    <3>2. /\ shown' = IF phase = "check" /\ Ok(p') THEN shown \cup {a} ELSE shown
          /\ pending' = (pending /\ ~Ok(p')) /\ phase' = phase
          /\ p' = Resize(SetInputs(n, a), held, fail) /\ (phase = "fixed" => a \in shown)
          /\ Ok(p') \/ \A i \in Ops : ~HalfBuilt(n, p', i, fail)
      BY <1>a, <2>1, <2>4
    <3>3. Ran' = Ok(p')
      BY <1>a, <2>4 DEF Ran, Ok
    <3>4. SaneOf(p', Ok(p'), phase, IF phase = "check" /\ Ok(p') THEN shown \cup {a} ELSE shown, pending /\ ~Ok(p'), a)
      <4>1. phase \in {"plain", "check", "fixed"}
        BY <1>1 DEF TypeInv
      <4> QED BY <1>0, <1>1, <2>2, <3>2, <4>1, ResizeSane
    <3> QED BY <3>1, <3>2, <3>3, <3>4
  <2>5. CASE ~z
    <3>1. shown' = shown /\ pending' = pending /\ phase' = phase /\ p' = n /\ needResize' = needResize
      BY <1>1, <1>a, <2>5 DEF TypeInv
    <3>2. Present' = Present
      BY <1>0, <3>1, RenewedFields DEF Present
    <3>3. Ran' = Ran
      BY <3>1 DEF Ran
    <3> QED BY <2>2, <3>1, <3>2, <3>3
  <2> QED BY <2>4, <2>5
<1>5. Accounted'
  BY <1>1, ForwardAccounted DEF IInv
<1> QED BY <1>1, <1>3, <1>4, <1>5, SaneNext DEF IInv

LEMMA CheckIInv ==
  ASSUME IInv, Check
  PROVE  IInv'
<1>1. NetOK /\ TypeInv /\ Sound(p) /\ p' = Opened(p) /\ phase = "plain" /\ phase' = "check"
      /\ UNCHANGED <<net, needResize, shown, pending, lost, spoiled>>
  BY NetShape DEF IInv, TypeInv, Check
<1>2. Sound(p') /\ Differ(p, p', {"cache", "release"})
  BY <1>1, OpenedIs
<1>3. Present' = Present
  BY <1>2 DEF Present, Differ, Fields
<1>4. TypeInv'
  <2>1. Sound(p)' /\ Assignments' = Assignments
    BY <1>1, <1>2, InvariantsStay
  <2>2. Nets' = Nets
    BY DEF Nets, Choices, Operands, WellUsed
  <2> QED BY <1>1, <2>1, <2>2 DEF TypeInv
<1>5. ASSUME ~spoiled' PROVE SaneOf(p', Ran', phase', shown', pending', Present')
  <2>1. SaneOf(p, Ran, "plain", shown, pending, Present)
    BY <1>1, <1>5, SaneIs DEF IInv
  <2>2. SaneOf(p', Ran, "check", shown, pending, Present)
    BY <1>1, <2>1, CheckSane
  <2>3. Ran' = Ran
    BY <1>1 DEF Ran
  <2> QED BY <1>1, <1>3, <2>2, <2>3
<1>6. Accounted'
  <2>1. p'.mem = p.mem /\ p'.group = p.group /\ Ran' = Ran /\ lost' = lost
    BY <1>1, <1>2 DEF Differ, Fields, Ran
  <2> QED BY <2>1 DEF IInv, Accounted, Unplanned
<1> QED BY <1>1, <1>4, <1>5, <1>6, SaneNext DEF IInv

LEMMA FixIInv ==
  ASSUME IInv, Fix
  PROVE  IInv'
<1>1. NetOK /\ TypeInv /\ Sound(p) /\ IsState(p)
  BY NetShape DEF IInv, TypeInv, Sound
<1>2. /\ p' = PlanTensors(FixOf(p), 1) /\ phase = "check" /\ Ran /\ shown # {} /\ phase' = "fixed" /\ pending' = TRUE
      /\ lost' = (lost /\ p'.mem[Out(NumOps)] = 0)
      /\ UNCHANGED <<net, needResize, shown, spoiled>>
  BY FixStep
<1>3. p'.shape = p.shape /\ p'.content = p.content /\ IsState(p') /\ Ran' = TRUE
  <2> DEFINE n == FixOf(p)
  <2>1. IsState(n) /\ Differ(p, n, {"built", "cache", "cmdGroup", "group", "mem"})
    BY <1>1, FixIs
  <2> HIDE DEF n
  <2>2. IsState(PlanTensors(n, 1)) /\ Differ(n, PlanTensors(n, 1), {"mem"})
    BY <1>1, <2>1, PlanIs
  <2>3. p' = PlanTensors(n, 1)
    BY <1>2 DEF n
  <2>4. Ran' = TRUE
    BY <1>2 DEF Ran
  <2> QED BY <2>1, <2>2, <2>3, <2>4 DEF Differ, Fields
<1>4. Present' = Present
  BY <1>3 DEF Present
<1>5. Sound(p')
  BY <1>1, <1>2, FixSound
<1>6. TypeInv'
  <2>1. Sound(p)' /\ Assignments' = Assignments
    BY <1>2, <1>5, InvariantsStay
  <2>2. Nets' = Nets
    BY DEF Nets, Choices, Operands, WellUsed
  <2> QED BY <1>1, <1>2, <2>1, <2>2 DEF TypeInv
<1>7. ASSUME ~spoiled' PROVE SaneOf(p', Ran', phase', shown', pending', Present')
  <2>1. SaneOf(p, TRUE, "check", shown, pending, Present)
    <3>1. SaneOf(p, Ran, phase, shown, pending, Present)
      BY <1>2, <1>7, SaneIs DEF IInv
    <3>2. Ran = TRUE
      BY <1>2 DEF Ran
    <3> QED BY <1>2, <3>1, <3>2
  <2>2. SaneOf(p', TRUE, "fixed", shown, TRUE, Present)
    BY <1>1, <1>2, <2>1, FixSane
  <2> QED BY <1>2, <1>3, <1>4, <2>2
<1>8. Accounted'
  <2> DEFINE t == Out(NumOps)
             n == FixOf(p)
  <2>1. NumOps \in Ops /\ t \in Tensors /\ \A s \in Sizes : s # 0
    BY Places, Numbers, ResizeAssumption
  <2>2. IsState(n) /\ n.shape = p.shape /\ n.mem[t] = p.mem[t]
    <3>1. IsState(n) /\ Differ(p, n, {"built", "cache", "cmdGroup", "group", "mem"}) /\ n.mem[t] = p.mem[t]
      <4>1. n.mem[Out(NumOps)] = IF NumOps = NumOps THEN p.mem[Out(NumOps)] ELSE 0
        BY <1>1, <2>1, FixIs
      <4> QED BY <1>1, <4>1, FixIs
    <3> HIDE DEF n
    <3> QED BY <3>1 DEF Differ, Fields
  <2> HIDE DEF n
  <2>3. PlanTensors(n, 1).mem[t] \in {n.shape[t], n.mem[t]}
    BY <1>1, <2>1, <2>2, PlanIs
  <2>4. p' = PlanTensors(n, 1)
    BY <1>2 DEF n
  <2>5. p'.mem[t] = 0 => p.mem[t] = 0
    BY <1>1, <2>1, <2>2, <2>3, <2>4 DEF IsState
  <2>6. p.mem[t] = 0 => lost
    BY <1>2 DEF IInv, Accounted, Unplanned
  <2> QED BY <1>2, <2>5, <2>6 DEF Accounted
<1> QED BY <1>2, <1>6, <1>7, <1>8, SaneNext DEF IInv

LEMMA NextIInv == IInv /\ [Next]_vars => IInv'
<1> SUFFICES ASSUME IInv, [Next]_vars PROVE IInv'
  OBVIOUS
<1>1. ASSUME NEW a \in Assignments, NEW held \in BOOLEAN, NEW fail \in FailPoints, Forward(a, held, fail) PROVE IInv'
  BY <1>1, ForwardIInv
<1>2. CASE Check
  BY <1>2, CheckIInv
<1>3. CASE Fix
  BY <1>3, FixIInv
<1>4. CASE UNCHANGED vars
  <2>1. /\ net' = net /\ p' = p /\ needResize' = needResize /\ phase' = phase /\ shown' = shown
        /\ pending' = pending /\ lost' = lost /\ spoiled' = spoiled
    BY <1>4 DEF vars
  <2>2. NetOK
    BY NetShape DEF IInv, TypeInv
  <2>3. TypeInv'
    <3>1. Sound(p)' /\ Assignments' = Assignments
      BY <2>1, InvariantsStay DEF IInv, TypeInv
    <3>2. Nets' = Nets
      BY DEF Nets, Choices, Operands, WellUsed
    <3> QED BY <2>1, <3>1, <3>2 DEF IInv, TypeInv
  <2>4. ~spoiled' => SaneOf(p', Ran', phase', shown', pending', Present')
    <3>1. Ran' = Ran /\ Present' = Present
      BY <2>1 DEF Ran, Present
    <3>2. ~spoiled => SaneOf(p, Ran, phase, shown, pending, Present)
      BY SaneIs DEF IInv
    <3> QED BY <2>1, <3>1, <3>2
  <2>5. Accounted'
    BY <2>1 DEF IInv, Accounted, Unplanned, Ran
  <2> QED BY <2>1, <2>3, <2>4, <2>5, SaneNext DEF IInv
<1> QED BY <1>1, <1>2, <1>3, <1>4 DEF Next

LEMMA Invariant == Spec => []IInv
  BY InitIInv, NextIInv, PTL DEF Spec

\* The pipeline after a resize that succeeded, and the one that its inputs
\* determine.
LEMMA IsTruth ==
  ASSUME IInv, Ran, ~spoiled
  PROVE  /\ NetOK /\ IsState(p) /\ IsState(Truth) /\ Done(p, pending)
         /\ \A t \in Inputs : Equal(p, Truth, t)
         /\ \A i \in Ops : Agrees(p, Truth, i)
<1>1. NetOK /\ Sound(p) /\ Solves(p, Present) /\ Done(p, pending)
  BY NetShape DEF IInv, TypeInv, Sane
<1>2. Present \in [Inputs -> Sizes]
  BY <1>1, Places DEF Present, Sound, IsState
<1>3. Truth = Tr(Present)
  BY DEF Truth, Tr
<1>4. /\ Sound(Tr(Present))
      /\ \A t \in Inputs : Equal(p, Tr(Present), t)
      /\ \A i \in Ops : Agrees(p, Tr(Present), i)
  BY <1>1, <1>2, TruthSolves
<1> QED BY <1>1, <1>3, <1>4 DEF Sound

\* In any network, whatever calls, phases and failures came before, a forward
\* that succeeds has the shapes and the contents that its inputs determine
\* (Schedule.cpp:39-78, GeometryComputerUtils.cpp:192-224, 295-334), with one
\* exception: "spoiled", after a resize that has failed with an operator's
\* cache filled and its commands not built, or without executions (README,
\* finding 5).  Any other failure is covered.
THEOREM ShapesAlwaysCurrent == Spec => []ShapesCurrent
<1>1. IInv => ShapesCurrent
  <2> SUFFICES ASSUME IInv, Ran, ~spoiled PROVE p.shape = Truth.shape /\ p.content = Truth.content
    BY DEF ShapesCurrent
  <2> DEFINE T == Truth
  <2>1. /\ IsState(p) /\ IsState(T)
        /\ \A t \in Inputs : Equal(p, T, t)
        /\ \A i \in Ops : Equal(p, T, Out(i))
    BY IsTruth DEF Agrees
  <2> HIDE DEF T
  <2>2. \A t \in Tensors : Equal(p, T, t)
    BY <2>1, Places
  <2>3. p.shape = T.shape /\ p.content = T.content
    BY <2>1, <2>2 DEF Equal, IsState
  <2> QED BY <2>3 DEF T
<1> QED BY <1>1, Invariant, PTL

\* ... and commands that were built for them, with executions
\* (GeometryComputerUtils.cpp:355-399, Pipeline.cpp:585-633), with the same
\* exception: where finding 5 has struck ("spoiled"), commands may be missing.
THEOREM CommandsAlwaysCurrent == Spec => []CommandsCurrent
<1>1. IInv => CommandsCurrent
  <2> SUFFICES ASSUME IInv, Ran, ~spoiled, NEW i \in Ops, ~IsConst(i)
               PROVE  p.built[i] = Truth.built[i] /\ (Commands(i) => p.exe[i])
    BY DEF CommandsCurrent
  <2>1. Agrees(p, Truth, i) /\ Done(p, pending)
    BY IsTruth
  <2> QED BY <2>1 DEF Agrees, Done
<1> QED BY <1>1, Invariant, PTL

\* ... in memory planned for their shape (Pipeline.cpp:900-966), with the same
\* exception and two more: what is not fixed, until the first resize after the
\* fix ("pending", CPUBackend.cpp:558-562), and an output for which there was
\* no memory when it was to be renewed ("lost", StaticModule.cpp:486-506;
\* README, finding 15).
THEOREM MemoryAlwaysFits == Spec => []MemoryFits
<1>1. IInv => MemoryFits
  <2> SUFFICES ASSUME IInv PROVE MemoryFits
    OBVIOUS
  <2>1. TypeOK
    BY DEF IInv, TypeInv, Sound, IsState, Codes, TypeOK, Assignments
  <2>2. Ran /\ ~spoiled => \A i \in Ops : Commands(i) =>
           \/ p.mem[Out(i)] = p.shape[Out(i)]
           \/ pending /\ p.cmdGroup[i] = 0
           \/ lost /\ i = NumOps
    <3>1. Ran => ~Unplanned(p, Ran)
      BY DEF Unplanned
    <3> QED BY <3>1, IsTruth DEF Done, Bare, IInv, Accounted
  <2> QED BY <2>1, <2>2 DEF MemoryFits
<1> QED BY <1>1, Invariant, PTL

\* A resize leaves the commands and the memory of what is fixed.
LEMMA FixedHeld ==
  ASSUME NetOK, NEW q, NEW r, NEW held, NEW fail, NEW S, NEW a \in S, Sound(q), Sound(r), FixedOK(q, S), Given(r, a),
         Solves(Tr(a), a), Gone(q, r, held, fail), GroupKept(q, r),
         NEW i \in Ops, q.cmdGroup[i] = 1, i = NumOps => ~r.need[i]
  PROVE  Kept(q, r, i) /\ r.mem[Out(i)] = q.mem[Out(i)]
<1>1. ~IsConst(i) /\ (q.cache[i].pass \/ i = NumOps)
  BY DEF FixedOK, Bare
<1>2. CASE Passed(q, r, i, held)
  <2>1. ~r.need[i]
    BY <1>1, <1>2, FixedPassed
  <2>2. Kept(q, r, i)
    BY <1>1, <2>1, Fates
  <2>3. Passes(q, i, S) /\ r.group[Out(i)] = q.group[Out(i)]
    BY <1>2, <2>1, FixedPassed
  <2>4. Commands(i) => r.mem[Out(i)] = q.mem[Out(i)]
    BY <1>1, <2>3 DEF Passes, GroupKept
  <2>5. ~Commands(i) => r.mem[Out(i)] = q.mem[Out(i)]
    BY DEF Sound
  <2> QED BY <2>2, <2>4, <2>5
<1>3. ASSUME NEW m \in Ops, Aborted(q, r, m, held, fail), ~(i < m) PROVE Kept(q, r, i) /\ r.mem[Out(i)] = q.mem[Out(i)]
  <2>1. i # m
    <3>1. Op(m).kind = "copy"
      BY <1>3, FixedShapes
    <3> QED BY <1>1, <3>1 DEF IsConst, ConstKinds
  <2>2. Remains(q, r, i)
    BY <1>3, <2>1, Numbers DEF Aborted
  <2> QED BY <2>2 DEF Remains, Kept, TFields, OFields
<1>4. \/ Passed(q, r, i, held)
      \/ \E m \in Ops : Aborted(q, r, m, held, fail) /\ ~(i < m)
  BY DEF Gone, Encoded, Aborted
<1> QED BY <1>2, <1>3, <1>4

\* What is fixed is not planned or built again, in any resize and however it
\* fails (Pipeline.cpp:919-960), unless an operator was left half built
\* ("spoiled", README, finding 5).  The output is excepted where its caller
\* holds it and a resize computes it again, or there is no memory to renew it.
THEOREM FixedAlwaysStay == Spec => FixedStay
<1> DEFINE A == phase = "fixed" /\ ~spoiled => \A i \in Ops :
              p.cmdGroup[i] = 1 /\ (i = NumOps => ~p'.need[i])
                  => /\ p'.built[i] = p.built[i] /\ p'.cmdGroup[i] = 1
                     /\ p'.mem[Out(i)] = p.mem[Out(i)] \/ (i = NumOps /\ lost')
<1>1. IInv /\ [Next]_vars => [A]_vars
  <2> SUFFICES ASSUME IInv, Next, phase = "fixed", ~spoiled, NEW i \in Ops, p.cmdGroup[i] = 1, i = NumOps => ~p'.need[i]
               PROVE  /\ p'.built[i] = p.built[i] /\ p'.cmdGroup[i] = 1
                      /\ p'.mem[Out(i)] = p.mem[Out(i)] \/ (i = NumOps /\ lost')
    OBVIOUS
  <2>1. PICK a \in Assignments, held \in BOOLEAN, fail \in FailPoints : Forward(a, held, fail)
    BY DEF Next, Check, Fix
  <2> DEFINE n == Ready(a, held, fail)
             z == Resizes(a, held, fail)
  <2>2. NetOK /\ Sound(p) /\ a \in [Inputs -> Sizes] /\ a \in shown /\ FixedOK(p, shown) /\ Solves(Tr(a), a)
    BY <2>1, NetShape, ForwardIs DEF IInv, TypeInv, Sane, Assignments
  <2>3. Sound(n) /\ Renewed(p, n)
    BY <2>2, ReadyIs
  <2>4. /\ p' = IF z THEN Resize(SetInputs(n, a), held, fail) ELSE n
        /\ lost' = ((lost \/ ~Ok(n)) /\ p'.mem[Out(NumOps)] = 0)
        /\ z => Ok(n)
    BY <2>1, ForwardIs DEF Resizes
  <2> HIDE DEF n, z
  <2>5. n.built = p.built /\ n.cmdGroup = p.cmdGroup /\ FixedOK(n, shown)
    <3>1. SaneOf(p, Ran, phase, shown, pending, Present)
      BY SaneIs DEF IInv
    <3>2. SaneOf(n, Ran, phase, shown, pending, Present)
      BY <2>2, <2>3, <3>1, RenewedSane
    <3> QED BY <2>3, <3>2, RenewedFields DEF SaneOf
  <2>6. Ok(n) => n.mem[Out(i)] = p.mem[Out(i)]
    <3>1. CASE i # NumOps
      BY <2>3, <3>1 DEF Renewed
    <3>2. CASE i = NumOps
      <4>1. p.mem[Out(i)] # 0 => p.mem[Out(i)] = p.shape[Out(i)]
        BY <2>2, <3>2, FixedOutput
      <4> QED BY <2>3, <3>2, <4>1 DEF Renewed
    <3> QED BY <3>1, <3>2
  <2>7. CASE z
    <3> DEFINE q == SetInputs(n, a)
    <3>1. Sound(q) /\ Given(q, a) /\ Aside(n, q)
      BY <2>2, <2>3, InputsSet DEF Aside, Differ
    <3>2. p' = Resize(q, held, fail)
      BY <2>4, <2>7
    <3> HIDE DEF q
    <3> DEFINE r == Resize(q, held, fail)
    <3>3. Sound(r) /\ Base(q, r) /\ (Complete(q, r, held) \/ Failed(q, r, held, fail))
      BY <2>2, <3>1, Ways, SoundStays
    <3>4. p' = r
      BY <3>2
    <3> HIDE DEF r
    <3>5. GroupKept(q, r) /\ Gone(q, r, held, fail)
      BY <3>3 DEF GroupKept, Gone, Failed, Complete
    <3>6. Given(r, a) /\ FixedOK(q, shown)
      BY <2>5, <3>1, <3>3, BaseGiven, AsideKeeps
    <3>7. q.cmdGroup = p.cmdGroup /\ q.built = p.built /\ q.mem = n.mem
      BY <2>5, <3>1, AsideFields
    <3>8. Kept(q, r, i) /\ r.mem[Out(i)] = q.mem[Out(i)]
      <4>1. q.cmdGroup[i] = 1 /\ (i = NumOps => ~r.need[i])
        BY <3>4, <3>7
      <4> QED BY <2>2, <3>1, <3>3, <3>5, <3>6, <4>1, FixedHeld
    <3> QED BY <2>4, <2>6, <2>7, <3>4, <3>7, <3>8 DEF Kept
  <2>8. CASE ~z
    <3>1. p' = n
      BY <2>4, <2>8
    <3>2. ~Ok(n) /\ i = NumOps => lost'
      BY <2>3, <2>4, <3>1 DEF Renewed
    <3>3. ~Ok(n) /\ i # NumOps => n.mem[Out(i)] = p.mem[Out(i)]
      BY <2>3 DEF Renewed
    <3> QED BY <2>5, <2>6, <3>1, <3>2, <3>3
  <2> QED BY <2>7, <2>8
<1>2. IInv /\ [Next]_vars => [A]_vars
  BY <1>1
<1>3. Spec => [][A]_vars
  BY <1>2, Invariant, PTL DEF Spec
<1> QED BY <1>3 DEF FixedStay
=============================================================================
