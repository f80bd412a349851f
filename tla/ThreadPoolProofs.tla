-------------------------- MODULE ThreadPoolProofs --------------------------
(* Proofs about the thread pool, for any number of clients, threads, slots   *)
(* and iterations: who owns a slot and whose task it holds, and from these   *)
(* and an account of which iterations have run, that the pool runs loops as  *)
(* its kernels expect.                                                       *)
EXTENDS ThreadPoolProps, FiniteSetTheorems, TLAPS

\* Chunking never makes more parts than the pool has threads.
LEMMA PartsBound == ASSUME NEW n \in Nat PROVE Parts(n) \in 0 .. NumThread /\ Parts(n) <= n
  BY PoolAssumption DEF Parts

\* The loop sizes are natural numbers.
LEMMA SizesNat == Sizes \cup {0} \subseteq Nat
  BY PoolAssumption DEF Sizes

\* Counting a set of iterations once more keeps the counters' type.
LEMMA RanType ==
  ASSUME runs \in [Clients -> [Items -> Nat]], NEW c \in Clients, NEW S
  PROVE  Ran(c, S) \in [Clients -> [Items -> Nat]]
  BY DEF Ran

\* Updating one place of a function keeps its type.
LEMMA UpdateType ==
  ASSUME NEW D, NEW R, NEW f \in [D -> R], NEW a, NEW v \in R
  PROVE  [f EXCEPT ![a] = v] \in [D -> R]
  OBVIOUS

\* The flags keep their type when one of them changes.
LEMMA FlagType ==
  ASSUME flag \in [Slots -> [Workers -> BOOLEAN]], NEW s, NEW w, NEW b \in BOOLEAN
  PROVE  [flag EXCEPT ![s][w] = b] \in [Slots -> [Workers -> BOOLEAN]]
<1>1. CASE s \in Slots
  <2>1. flag[s] \in [Workers -> BOOLEAN]
    BY <1>1
  <2>2. [flag[s] EXCEPT ![w] = b] \in [Workers -> BOOLEAN]
    BY <2>1, UpdateType
  <2> QED BY <1>1, <2>2, Zenon
<1>2. CASE s \notin Slots
  BY <1>2
<1> QED BY <1>1, <1>2

\* The program counters of the clients.
PcType == pc \in [Clients -> {"user", "activate", "notify", "bind", "bindNotify", "unbind",
                              "enqueue", "raise", "spin", "deactivate"}]

\* The type invariant is inductive.
LEMMA TypeStep == TypeOK /\ [Next]_vars => TypeOK'
<1> SUFFICES ASSUME TypeOK, [Next]_vars PROVE TypeOK'
  OBVIOUS
<1> USE PoolAssumption DEF poolVars, workerVars, clientVars
<1>1. ASSUME NEW c \in Clients, ClientCall(c) PROVE TypeOK'
  <2>1. CASE Reset(c)
    <3>1. AllFree \in [Slots -> BOOLEAN] /\ AllDown \in [Slots -> [Workers -> BOOLEAN]]
      BY Zenon DEF AllFree, AllDown
    <3>2. NoTasks \in [Slots -> [by : Clients \cup {NoClient}, size : Sizes \cup {0}]]
      BY DEF NoTasks, TypeOK
    <3>3. attached' \in [Clients -> BOOLEAN]
      BY <2>1, UpdateType DEF Reset, TypeOK
    <3>4. available' \in [Slots -> BOOLEAN] /\ flag' \in [Slots -> [Workers -> BOOLEAN]]
      BY <2>1, <3>1 DEF Reset, TypeOK
    <3>5. task' \in [Slots -> [by : Clients \cup {NoClient}, size : Sizes \cup {0}]]
      BY <2>1, <3>2 DEF Reset, TypeOK
    <3>6. /\ phase' \in {"none", "up", "stopping", "joining"}
          /\ activeCount' \in Int
      BY <2>1 DEF Reset, TypeOK
    <3>9. stop' \in BOOLEAN
      BY <2>1, Zenon DEF Reset, TypeOK
    <3>8. wpc' \in [Workers -> {"top", "active", "scan", "exec", "clear", "wait", "asleep", "exited"}]
      BY <2>1 DEF Reset, TypeOK
    <3>7. bound' \in [Clients -> {"no", "busy", "yes"}]
      BY <2>1 DEF Reset, TypeOK
    <3> QED BY <2>1, <3>3, <3>4, <3>5, <3>6, <3>7, <3>8, <3>9 DEF Reset, TypeOK
  <2>2. CASE Release(c)
    BY <2>2 DEF Release, TypeOK
  <2>3. CASE Begin(c)
    <3>0. /\ \E s \in Slots \cup {-1} : index' = [index EXCEPT ![c] = s] \/ index' = index
          /\ open' = open \/ open' = [open EXCEPT ![c] = @ + 1]
          /\ depth[c] < MaxDepth /\ depth' = [depth EXCEPT ![c] = @ + 1]
          /\ \E p \in {"activate", "bind"} : pc' = [pc EXCEPT ![c] = p]
      BY <2>3 DEF Begin
    <3>1. available' \in [Slots -> BOOLEAN]
      BY <2>3, UpdateType DEF Begin, TypeOK
    <3> USE DEF TypeOK
    <3>2. index' \in [Clients -> Slots \cup {-1}]
      BY <3>0, UpdateType
    <3>5. open[c] + 1 \in Nat /\ depth[c] + 1 \in 0 .. MaxDepth
      BY <3>0
    <3>3. depth' \in [Clients -> 0 .. MaxDepth] /\ open' \in [Clients -> Nat]
      BY <3>0, <3>5, UpdateType
    <3>4. PcType'
      BY <3>0 DEF PcType
    <3> QED BY <2>3, <3>1, <3>2, <3>3, <3>4 DEF Begin, PcType, TypeOK
  <2>4. CASE Enqueue(c)
    BY <2>4 DEF Enqueue, EnqueueEntry, Sizes, TypeOK
  <2>5. CASE End(c)
    <3>1. available' \in [Slots -> BOOLEAN]
      BY <2>5, UpdateType DEF End, TypeOK
    <3>2. depth' \in [Clients -> 0 .. MaxDepth] /\ open' \in [Clients -> Nat]
      BY <2>5 DEF End, TypeOK
    <3>3. PcType'
      BY <2>5 DEF End, PcType, TypeOK
    <3> QED BY <2>5, <3>1, <3>2, <3>3 DEF End, PcType, TypeOK
  <2> QED BY <1>1, <2>1, <2>2, <2>3, <2>4, <2>5 DEF ClientCall
<1>2. ASSUME NEW c \in Clients, ClientStep(c) PROVE TypeOK'
  <2>0. size[c] \in Nat /\ Parts(size[c]) \in 0 .. NumThread
    BY SizesNat, PartsBound DEF TypeOK
  <2>1. CASE Activate(c)
    BY <2>1 DEF Activate, TypeOK
  <2>2. CASE Notify(c)
    BY <2>2 DEF Notify, Woken, TypeOK
  <2>3. CASE Bind(c)
    <3>0. /\ bound' = bound \/ bound' = [bound EXCEPT ![c] = "busy"]
          /\ activeCount' \in {activeCount, activeCount + 1}
          /\ \E p \in {"user", "bindNotify"} : pc' = [pc EXCEPT ![c] = p]
      BY <2>3, Zenon DEF Bind
    <3> USE DEF TypeOK
    <3>1. bound' \in [Clients -> {"no", "busy", "yes"}]
      BY <3>0, UpdateType
    <3>3. activeCount' \in Int
      BY <3>0
    <3>2. PcType'
      BY <3>0 DEF PcType
    <3> QED BY <2>3, <3>1, <3>2, <3>3 DEF Bind, PcType, TypeOK
  <2>4. CASE BindNotify(c)
    BY <2>4 DEF BindNotify, EnqueueEntry, Woken, Sizes, TypeOK
  <2>5. CASE Unbind(c)
    BY <2>5 DEF Unbind, TypeOK
  <2>6. CASE RunInline(c)
    BY <2>6, RanType DEF RunInline, Return, TypeOK
  <2>7. CASE WriteTask(c)
    <3>1. task' \in [Slots -> [by : Clients \cup {NoClient}, size : Sizes \cup {0}]]
      BY <2>7 DEF WriteTask, TypeOK
    <3> QED BY <2>7, <3>1 DEF WriteTask, TypeOK
  <2>8. CASE RaiseFlag(c)
    <3>1. flag' \in [Slots -> [Workers -> BOOLEAN]]
      BY <2>8, FlagType DEF RaiseFlag, TypeOK
    <3>2. k' \in [Clients -> 1 .. NumThread]
      BY <2>0, <2>8 DEF RaiseFlag, TypeOK
    <3> QED BY <2>8, <3>1, <3>2 DEF RaiseFlag, TypeOK
  <2>9. CASE RunOwnPart(c)
    BY <2>9, RanType DEF RunOwnPart, TypeOK
  <2>10. CASE Spin(c)
    BY <2>0, <2>10 DEF Spin, TypeOK
  <2>11. CASE SpinDone(c)
    BY <2>11 DEF SpinDone, Return, TypeOK
  <2>12. CASE Deactivate(c)
    BY <2>12 DEF Deactivate, TypeOK
  <2> QED BY <1>2, <2>1, <2>2, <2>3, <2>4, <2>5, <2>6, <2>7, <2>8, <2>9, <2>10, <2>11, <2>12
          DEF ClientStep
<1>3. ASSUME NEW w \in Workers, WorkerStep(w) \/ SpuriousWake(w) PROVE TypeOK'
  <2>1. CASE TestStop(w) \/ Wait(w) \/ SpuriousWake(w)
    BY <2>1 DEF TestStop, Wait, SpuriousWake, Go, TypeOK
  <2>2. CASE TestActive(w)
    BY <2>2 DEF TestActive, Go, Slots, TypeOK
  <2>3. ASSUME NextSlot(w)
        PROVE  /\ scan' \in [Workers -> Slots]
               /\ wpc' \in [Workers -> {"top", "active", "scan", "exec", "clear", "wait", "asleep", "exited"}]
    <3>1. (scan[w] + 1) % MaxTasks \in Slots
      BY DEF Slots, TypeOK
    <3>2. wpc' = [wpc EXCEPT ![w] = "active"] \/ wpc' = [wpc EXCEPT ![w] = "scan"]
      BY <2>3 DEF NextSlot
    <3>3. scan' \in [Workers -> Slots]
      BY <2>3, <3>1 DEF NextSlot, TypeOK
    <3> QED BY <3>2, <3>3 DEF TypeOK
  <2>4. CASE ReadFlag(w)
    BY <2>3, <2>4 DEF ReadFlag, Go, TypeOK
  <2>5. CASE RunPart(w)
    BY <2>5, RanType DEF RunPart, Go, TypeOK
  <2>6. CASE ClearFlag(w)
    <3>1. flag' \in [Slots -> [Workers -> BOOLEAN]]
      BY <2>6, FlagType DEF ClearFlag, TypeOK
    <3> QED BY <2>3, <2>6, <3>1 DEF ClearFlag, TypeOK
  <2> QED BY <1>3, <2>1, <2>2, <2>4, <2>5, <2>6 DEF WorkerStep
<1>4. CASE Destroy \/ DestroyNotify \/ Join
  BY <1>4 DEF Destroy, DestroyNotify, Join, Woken, TypeOK
<1>5. CASE UNCHANGED vars
  BY <1>5 DEF vars, TypeOK
<1> QED BY <1>1, <1>2, <1>3, <1>4, <1>5 DEF Next

\* The initial state is well typed.
LEMMA TypeInit == Init => TypeOK
<1> SUFFICES ASSUME Init PROVE TypeOK
  OBVIOUS
<1>1. available \in [Slots -> BOOLEAN] /\ flag \in [Slots -> [Workers -> BOOLEAN]]
  BY Zenon DEF Init, AllFree, AllDown
<1>2. task \in [Slots -> [by : Clients \cup {NoClient}, size : Sizes \cup {0}]]
  BY DEF Init, NoTasks
<1>3. scan \in [Workers -> Slots]
  BY PoolAssumption DEF Init, Slots
<1>4. attached \in [Clients -> BOOLEAN] /\ runs \in [Clients -> [Items -> Nat]]
  BY DEF Init
<1>5. /\ index \in [Clients -> Slots \cup {-1}]
      /\ depth \in [Clients -> 0 .. MaxDepth]
      /\ open \in [Clients -> Nat]
      /\ size \in [Clients -> Sizes \cup {0}]
      /\ k \in [Clients -> 1 .. NumThread]
  BY PoolAssumption DEF Init
<1>6. /\ pc \in [Clients -> {"user", "activate", "notify", "bind", "bindNotify", "unbind",
                               "enqueue", "raise", "spin", "deactivate"}]
      /\ bound \in [Clients -> {"no", "busy", "yes"}]
      /\ wpc \in [Workers -> {"top", "active", "scan", "exec", "clear", "wait", "asleep", "exited"}]
  BY DEF Init
<1>7. phase \in {"none", "up", "stopping", "joining"} /\ activeCount \in Int
  BY DEF Init
<1>8. stop \in BOOLEAN
  BY Zenon DEF Init
<1> QED BY <1>1, <1>2, <1>3, <1>4, <1>5, <1>6, <1>7, <1>8 DEF TypeOK

\* Every reachable state of the pool and its clients is well typed.
THEOREM TypeCorrect == Spec => []TypeOK
  BY TypeInit, TypeStep, PTL DEF Spec

-----------------------------------------------------------------------------
(* Slot ownership.                                                          *)

\* A step of one client that leaves the slots, its runtime's counters and the
\* fact that it is on the way in or out alone keeps the ownership invariant.
LEMMA OwnFrame ==
  ASSUME OwnInv, UNCHANGED <<phase, available, attached, depth, index, open>>,
         \A d \in Clients : /\ pc'[d] = pc[d] \/ (attached[d] /\ pc[d] # "activate" /\ pc[d] # "deactivate"
                                                    /\ pc'[d] # "activate" /\ pc'[d] # "deactivate")
                            /\ index[d] < 0 => pc'[d] \notin {"activate", "notify", "raise", "spin", "deactivate"}
  PROVE  OwnInv'
<1>1. \A d \in Clients : Owner(d)' <=> Owner(d)
  BY DEF Owner
<1>2. SlotOwnership'
  BY <1>1 DEF OwnInv, SlotOwnership
<1>3. \A d \in Clients : RuntimeInv(d)'
  BY <1>1 DEF OwnInv, RuntimeInv
<1> QED BY <1>2, <1>3 DEF OwnInv, PoolInUse

\* The ownership invariant is inductive relative to the types.
LEMMA OwnStep == TypeOK /\ TypeOK' /\ OwnInv /\ [Next]_vars => OwnInv'
<1> SUFFICES ASSUME TypeOK, TypeOK', OwnInv, [Next]_vars PROVE OwnInv'
  OBVIOUS
<1> USE DEF poolVars, workerVars, clientVars
<1>t. /\ index \in [Clients -> Slots \cup {-1}] /\ open \in [Clients -> Nat]
      /\ depth \in [Clients -> Nat] /\ Slots \subseteq Nat
  BY PoolAssumption DEF TypeOK, Slots
<1>p. pc \in [Clients -> {"user", "activate", "notify", "bind", "bindNotify", "unbind",
                          "enqueue", "raise", "spin", "deactivate"}]
  BY DEF TypeOK
<1>i. \A d \in Clients : /\ index[d] \in Int /\ open[d] \in Nat /\ depth[d] \in Nat
                         /\ index[d] >= 0 <=> index[d] \in Slots
                         /\ index[d] < 0 <=> index[d] = -1
  <2> SUFFICES ASSUME NEW d \in Clients
               PROVE  /\ index[d] \in Int /\ open[d] \in Nat /\ depth[d] \in Nat
                      /\ index[d] >= 0 <=> index[d] \in Slots
                      /\ index[d] < 0 <=> index[d] = -1
    OBVIOUS
  <2>1. index[d] \in Slots \/ index[d] = -1
    BY <1>t
  <2>2. open[d] \in Nat /\ depth[d] \in Nat
    BY <1>t
  <2>3. \A s \in Slots : s \in Int /\ s >= 0
    BY PoolAssumption DEF Slots
  <2>4. -1 \notin Slots
    BY <2>3
  <2> QED BY <2>1, <2>2, <2>3, <2>4
<1>r. \A d \in Clients : RuntimeInv(d)
  BY DEF OwnInv
<1>n. \A d \in Clients : ~attached[d] => index[d] = -1 /\ open[d] = 0
  BY <1>i, <1>r DEF RuntimeInv, Owner
<1>1. ASSUME NEW c \in Clients, Reset(c) PROVE OwnInv'
  <2>1. /\ UNCHANGED <<depth, index, open, pc>>
        /\ attached' = [attached EXCEPT ![c] = TRUE]
        /\ phase' = "up"
        /\ \/ phase = "up" /\ available' = available
           \/ phase = "none" /\ available' = AllFree
    BY <1>1 DEF Reset
  <2>2. \A d \in Clients : Owner(d)' <=> Owner(d)
    BY <2>1 DEF Owner
  <2>3. phase = "none" => \A d \in Clients : ~Owner(d)
    BY <1>n, <1>i DEF OwnInv, PoolInUse, Owner
  <2>4. SlotOwnership'
    <3>1. CASE phase = "up"
      BY <2>1, <2>2, <3>1 DEF OwnInv, SlotOwnership
    <3>2. CASE phase = "none"
      BY <2>1, <2>2, <2>3, <3>2 DEF SlotOwnership, AllFree
    <3> QED BY <2>1, <3>1, <3>2
  <2>5. \A d \in Clients : ~attached'[d] => ~attached[d]
    BY <2>1 DEF TypeOK
  <2>6. \A d \in Clients : RuntimeInv(d)'
    BY <2>1, <2>2, <2>5, <1>r DEF RuntimeInv
  <2> QED BY <2>1, <2>4, <2>6 DEF OwnInv, PoolInUse
<1>2. ASSUME NEW c \in Clients, Release(c) PROVE OwnInv'
  <2>1. /\ UNCHANGED <<phase, available, depth, index, open, pc>>
        /\ attached' = [attached EXCEPT ![c] = FALSE]
        /\ pc[c] = "user" /\ depth[c] = 0
    BY <1>2 DEF Release
  <2>2. \A d \in Clients : Owner(d)' <=> Owner(d)
    BY <2>1 DEF Owner
  <2>3. \A d \in Clients : ~attached'[d] => ~attached[d] \/ d = c
    BY <2>1 DEF TypeOK
  <2>4. \A d \in Clients : RuntimeInv(d)'
    BY <2>1, <2>2, <2>3, <1>r DEF RuntimeInv
  <2>5. PoolInUse'
    BY <2>1 DEF OwnInv, PoolInUse, TypeOK
  <2> QED BY <2>1, <2>2, <2>4, <2>5 DEF OwnInv, SlotOwnership
<1>3. ASSUME NEW c \in Clients, Begin(c) PROVE OwnInv'
  <2>0. /\ UNCHANGED <<phase, attached>>
        /\ pc[c] = "user" /\ attached[c] /\ depth' = [depth EXCEPT ![c] = @ + 1]
    BY <1>3 DEF Begin
  <2>1. CASE index[c] >= 0
    <3>1. /\ UNCHANGED <<available, index>>
          /\ open' = [open EXCEPT ![c] = @ + 1] /\ pc' = [pc EXCEPT ![c] = "bind"]
      BY <1>3, <2>1, <1>i DEF Begin
    <3>2. \A d \in Clients : Owner(d)' <=> Owner(d)
      BY <2>0, <3>1, <1>p DEF Owner
    <3>3. \A d \in Clients : d # c => RuntimeInv(d)'
      BY <2>0, <3>1, <3>2, <1>r, <1>i, <1>p DEF RuntimeInv
    <3>4. RuntimeInv(c)'
      BY <2>0, <2>1, <3>1, <3>2, <1>r, <1>i, <1>p, <1>t DEF RuntimeInv
    <3> QED BY <2>0, <3>1, <3>2, <3>3, <3>4 DEF OwnInv, SlotOwnership, PoolInUse
  <2>2. CASE index[c] < 0 /\ \E s \in Slots : FirstFree(s)
    <3>1. PICK s \in Slots : /\ available[s] /\ available' = [available EXCEPT ![s] = FALSE]
                             /\ index' = [index EXCEPT ![c] = s]
                             /\ pc' = [pc EXCEPT ![c] = "activate"] /\ open' = open
      BY <1>3, <2>2, <1>i DEF Begin, FirstFree
    <3>2. Owner(c)' /\ ~Owner(c) /\ index'[c] = s /\ \A d \in Clients : d # c => (Owner(d)' <=> Owner(d)) /\ index'[d] = index[d]
      BY <2>2, <3>1, <1>p, <1>t, <1>i DEF Owner
    <3>3. \A d \in Clients : Owner(d) => index[d] # s
      BY <3>1 DEF OwnInv, SlotOwnership
    <3>4. SlotOwnership'
      <4>1. \A a, b \in Clients : Owner(a)' /\ Owner(b)' /\ index'[a] = index'[b] => a = b
        BY <3>2, <3>3 DEF OwnInv, SlotOwnership
      <4>2. \A t \in Slots : ~available'[t] <=> t = s \/ ~available[t]
        BY <3>1 DEF TypeOK
      <4>3. \A t \in Slots : ~available[t] <=> \E d \in Clients : Owner(d) /\ index[d] = t
        BY DEF OwnInv, SlotOwnership
      <4>4. \A t \in Slots : (\E d \in Clients : Owner(d)' /\ index'[d] = t)
                               <=> t = s \/ \E d \in Clients : Owner(d) /\ index[d] = t
        BY <3>2
      <4> QED BY <4>1, <4>2, <4>3, <4>4 DEF SlotOwnership
    <3>5. \A d \in Clients : d # c => RuntimeInv(d)'
      BY <2>0, <3>1, <3>2, <1>r, <1>i, <1>p DEF RuntimeInv
    <3>6. RuntimeInv(c)'
      BY <2>0, <2>2, <3>1, <3>2, <1>r, <1>i, <1>p, <1>t DEF RuntimeInv
    <3> QED BY <2>0, <3>4, <3>5, <3>6 DEF OwnInv, PoolInUse
  <2>3. CASE index[c] < 0 /\ ~\E s \in Slots : FirstFree(s)
    <3>1. UNCHANGED <<available, index, open>> /\ pc' = [pc EXCEPT ![c] = "bind"]
      BY <1>3, <2>3, <1>i DEF Begin
    <3>2. \A d \in Clients : Owner(d)' <=> Owner(d)
      BY <2>0, <3>1, <1>p DEF Owner
    <3>3. \A d \in Clients : RuntimeInv(d)'
      BY <2>0, <2>3, <3>1, <3>2, <1>r, <1>i, <1>p, <1>t DEF RuntimeInv
    <3> QED BY <2>0, <3>1, <3>2, <3>3 DEF OwnInv, SlotOwnership, PoolInUse
  <2> QED BY <2>1, <2>2, <2>3, <1>i
<1>4. ASSUME NEW c \in Clients, End(c) PROVE OwnInv'
  <2>0. /\ UNCHANGED <<phase, attached, index>> /\ attached[c]
        /\ pc[c] = "user" /\ depth[c] > 0 /\ depth' = [depth EXCEPT ![c] = @ - 1]
    BY <1>4, <1>r DEF End, RuntimeInv
  <2>1. CASE index[c] < 0 \/ open[c] > 1
    <3>1. /\ UNCHANGED <<available, pc>>
          /\ \/ index[c] < 0 /\ open' = open
             \/ index[c] >= 0 /\ open[c] > 1 /\ open' = [open EXCEPT ![c] = @ - 1]
      BY <1>4, <2>1, <1>i DEF End
    <3>2. \A d \in Clients : Owner(d)' <=> Owner(d)
      BY <2>0, <3>1 DEF Owner
    <3>3. \A d \in Clients : d # c => RuntimeInv(d)'
      BY <2>0, <3>1, <3>2, <1>r, <1>i, <1>t DEF RuntimeInv
    <3>4. RuntimeInv(c)'
      BY <2>0, <3>1, <3>2, <1>r, <1>i, <1>t DEF RuntimeInv
    <3> QED BY <2>0, <3>1, <3>2, <3>3, <3>4 DEF OwnInv, SlotOwnership, PoolInUse
  <2>2. CASE index[c] >= 0 /\ open[c] <= 1
    <3>1. /\ open' = [open EXCEPT ![c] = 0]
          /\ available' = [available EXCEPT ![index[c]] = TRUE]
          /\ pc' = [pc EXCEPT ![c] = "deactivate"]
      BY <1>4, <2>2, <1>i DEF End
    <3>2. Owner(c) /\ ~Owner(c)' /\ \A d \in Clients : d # c => (Owner(d)' <=> Owner(d))
      BY <2>0, <2>2, <3>1, <1>p DEF Owner
    <3>3. SlotOwnership'
      <4>1. \A d \in Clients : d # c /\ Owner(d) => index[d] # index[c]
        BY <3>2 DEF OwnInv, SlotOwnership
      <4>2. \A t \in Slots : ~available'[t] <=> t # index[c] /\ ~available[t]
        BY <3>1 DEF TypeOK
      <4>3. \A t \in Slots : ~available[t] <=> \E d \in Clients : Owner(d) /\ index[d] = t
        BY DEF OwnInv, SlotOwnership
      <4>4. \A t \in Slots : (\E d \in Clients : Owner(d)' /\ index[d] = t)
                               <=> t # index[c] /\ \E d \in Clients : Owner(d) /\ index[d] = t
        BY <3>2, <4>1
      <4>5. \A a, b \in Clients : Owner(a)' /\ Owner(b)' /\ index[a] = index[b] => a = b
        BY <3>2 DEF OwnInv, SlotOwnership
      <4> QED BY <2>0, <4>2, <4>3, <4>4, <4>5 DEF SlotOwnership
    <3>4. \A d \in Clients : d # c => RuntimeInv(d)'
      BY <2>0, <3>1, <3>2, <1>r, <1>i, <1>p DEF RuntimeInv
    <3>5. RuntimeInv(c)'
      BY <2>0, <2>2, <3>1, <3>2, <1>r, <1>i, <1>p, <1>t DEF RuntimeInv
    <3> QED BY <2>0, <3>3, <3>4, <3>5 DEF OwnInv, PoolInUse
  <2> QED BY <2>1, <2>2, <1>i
<1>5. ASSUME NEW c \in Clients, Activate(c) PROVE OwnInv'
  <2>1. /\ UNCHANGED <<phase, available, attached, depth, index>>
        /\ pc[c] = "activate" /\ pc' = [pc EXCEPT ![c] = "notify"]
        /\ open' = [open EXCEPT ![c] = @ + 1]
    BY <1>5 DEF Activate
  <2>2. \A d \in Clients : Owner(d)' <=> Owner(d)
    BY <2>1, <1>p DEF Owner
  <2>3. \A d \in Clients : d # c => RuntimeInv(d)'
    BY <2>1, <2>2, <1>r, <1>i, <1>p DEF RuntimeInv
  <2>4. RuntimeInv(c)'
    BY <2>1, <2>2, <1>r, <1>i, <1>p, <1>t DEF RuntimeInv
  <2> QED BY <2>1, <2>2, <2>3, <2>4 DEF OwnInv, SlotOwnership, PoolInUse
<1>6. ASSUME NEW c \in Clients, Deactivate(c) PROVE OwnInv'
  <2>1. /\ UNCHANGED <<phase, available, attached, depth, open>>
        /\ pc[c] = "deactivate" /\ pc' = [pc EXCEPT ![c] = "user"]
        /\ index' = [index EXCEPT ![c] = -1]
    BY <1>6 DEF Deactivate
  <2>2. ~Owner(c) /\ ~Owner(c)' /\ \A d \in Clients : d # c => (Owner(d)' <=> Owner(d)) /\ index'[d] = index[d]
    BY <2>1, <1>p, <1>t DEF Owner
  <2>3. \A d \in Clients : d # c => RuntimeInv(d)'
    BY <2>1, <2>2, <1>r, <1>i, <1>p DEF RuntimeInv
  <2>4. RuntimeInv(c)'
    BY <2>1, <2>2, <1>r, <1>i, <1>p, <1>t DEF RuntimeInv
  <2>5. SlotOwnership'
    BY <2>1, <2>2 DEF OwnInv, SlotOwnership
  <2> QED BY <2>1, <2>3, <2>4, <2>5 DEF OwnInv, PoolInUse
<1>7. ASSUME NEW c \in Clients,
             \/ Enqueue(c) \/ Notify(c) \/ Bind(c) \/ BindNotify(c) \/ Unbind(c) \/ RunInline(c)
             \/ WriteTask(c) \/ RaiseFlag(c) \/ RunOwnPart(c) \/ Spin(c) \/ SpinDone(c)
      PROVE  OwnInv'
  <2>1. UNCHANGED <<phase, available, attached, depth, index, open>>
    BY <1>7 DEF Enqueue, Notify, Bind, BindNotify, Unbind, RunInline, WriteTask, RaiseFlag,
                RunOwnPart, Spin, SpinDone
  <2>2. pc[c] \notin {"activate", "deactivate"}
    BY <1>7 DEF Enqueue, Notify, Bind, BindNotify, Unbind, RunInline, WriteTask, RaiseFlag,
                RunOwnPart, Spin, SpinDone
  <2>3. attached[c]
    BY <1>7 DEF Enqueue, Notify, Bind, BindNotify, Unbind, RunInline, WriteTask, RaiseFlag,
                RunOwnPart, Spin, SpinDone, OwnInv, RuntimeInv
  <2>4. \E p \in {"user", "bind", "bindNotify", "enqueue", "unbind", "raise", "spin"} :
           /\ pc' = [pc EXCEPT ![c] = p]
           /\ p \in {"raise", "spin"} => index[c] >= 0
    <3>1. CASE Enqueue(c) \/ Notify(c) \/ Bind(c) \/ BindNotify(c) \/ Unbind(c)
      BY <3>1 DEF Enqueue, Notify, Bind, BindNotify, Unbind, EnqueueEntry
    <3>2. CASE RunInline(c) \/ SpinDone(c)
      BY <3>2 DEF RunInline, SpinDone, Return
    <3>3. CASE WriteTask(c)
      BY <3>3, <1>i DEF WriteTask, Inline
    <3>4. CASE RaiseFlag(c) \/ RunOwnPart(c) \/ Spin(c)
      <4>1. pc[c] \in {"raise", "spin"} /\ (pc' = [pc EXCEPT ![c] = "spin"] \/ pc' = pc)
        BY <3>4 DEF RaiseFlag, RunOwnPart, Spin
      <4>2. index[c] >= 0
        BY <4>1, <1>i, <1>r DEF RuntimeInv
      <4>3. pc = [pc EXCEPT ![c] = pc[c]]
        BY <1>p
      <4> QED BY <4>1, <4>2, <4>3
    <3> QED BY <1>7, <3>1, <3>2, <3>3, <3>4
  <2>5. \A d \in Clients : index[d] < 0 => pc[d] \notin {"activate", "notify", "raise", "spin", "deactivate"}
    BY DEF OwnInv, RuntimeInv
  <2>6. PICK p \in {"user", "bind", "bindNotify", "enqueue", "unbind", "raise", "spin"} :
           /\ pc' = [pc EXCEPT ![c] = p]
           /\ p \in {"raise", "spin"} => index[c] >= 0
    BY <2>4
  <2>7. pc'[c] = p /\ \A d \in Clients : d # c => pc'[d] = pc[d]
    BY <2>6, <1>p
  <2>8. \A d \in Clients : index[d] < 0 => pc'[d] \notin {"activate", "notify", "raise", "spin", "deactivate"}
    BY <2>5, <2>6, <2>7, <1>i
  <2> QED BY <2>1, <2>2, <2>3, <2>7, <2>8, OwnFrame
<1>8. ASSUME NEW w \in Workers, WorkerStep(w) \/ SpuriousWake(w) PROVE OwnInv'
  <2>1. UNCHANGED <<phase, available, attached, depth, index, open, pc>>
    BY <1>8 DEF WorkerStep, TestStop, TestActive, ReadFlag, RunPart, ClearFlag, Wait, SpuriousWake
  <2> QED BY <2>1, OwnFrame DEF OwnInv, RuntimeInv
<1>9. CASE Destroy \/ DestroyNotify \/ Join
  <2>1. UNCHANGED <<available, attached, depth, index, open, pc>>
    BY <1>9 DEF Destroy, DestroyNotify, Join
  <2>2. PoolInUse'
    BY <1>9 DEF Destroy, DestroyNotify, Join, OwnInv, PoolInUse
  <2> QED BY <2>1, <2>2 DEF OwnInv, SlotOwnership, RuntimeInv, Owner
<1>10. CASE UNCHANGED vars
  BY <1>10, OwnFrame DEF vars, OwnInv, RuntimeInv
<1> QED BY <1>1, <1>2, <1>3, <1>4, <1>5, <1>6, <1>7, <1>8, <1>9, <1>10
        DEF Next, ClientCall, ClientStep

\* The initial state satisfies the ownership invariant.
LEMMA OwnInit == Init => OwnInv
<1> SUFFICES ASSUME Init PROVE OwnInv
  OBVIOUS
<1>1. \A c \in Clients : /\ index[c] = -1 /\ pc[c] = "user" /\ ~attached[c]
                         /\ depth[c] = 0 /\ open[c] = 0
  BY DEF Init
<1>2. SlotOwnership
  BY <1>1 DEF Init, AllFree, SlotOwnership, Owner
<1> QED BY <1>1, <1>2 DEF OwnInv, RuntimeInv, PoolInUse, Owner

\* However the clients' Begin and End interleave, a slot is never handed to
\* two runtimes at a time and never lost.
THEOREM SlotsExclusive == Spec => []SlotOwnership
<1>1. TypeOK /\ OwnInv /\ [Next]_vars => TypeOK' /\ OwnInv'
  BY TypeStep, OwnStep
<1>2. Init => TypeOK /\ OwnInv
  BY TypeInit, OwnInit
<1>3. OwnInv => SlotOwnership
  BY DEF OwnInv
<1> QED BY <1>1, <1>2, <1>3, PTL DEF Spec

-----------------------------------------------------------------------------
(* The task of a slot outlives every worker that may run it.                *)

\* A step that leaves the flags alone and, for every waiting client, its
\* place in enqueueInternal and the task in its slot.
LEMMA AliveFrame ==
  ASSUME AliveInv, UNCHANGED flag,
         \A c \in Clients : /\ Waiting(c)' => Waiting(c)
                            /\ Waiting(c) => /\ pc'[c] = pc[c] /\ index'[c] = index[c]
                                             /\ size'[c] = size[c] /\ k'[c] = k[c]
                                             /\ task'[index[c]] = task[index[c]]
  PROVE  TaskInv' /\ FlagInv'
<1>1. \A c \in Clients : Waiting(c) => Waiting(c)' /\ Parts(size'[c]) = Parts(size[c])
  BY DEF Waiting, Parts
<1>2. TaskInv'
  BY DEF AliveInv, TaskInv
<1>3. FlagInv'
  BY <1>1 DEF AliveInv, FlagInv
<1> QED BY <1>2, <1>3

\* Waking workers up does not disturb one at work.
LEMMA WorkFrame ==
  ASSUME TypeOK, AliveInv, UNCHANGED <<flag, scan>>, wpc' = wpc \/ wpc' = Woken
  PROVE  WorkInv'
  BY DEF TypeOK, AliveInv, WorkInv, Woken

\* The invariant is inductive relative to types and ownership.
LEMMA AliveStep == TypeOK /\ TypeOK' /\ OwnInv /\ AliveInv /\ [Next]_vars => AliveInv'
<1> SUFFICES ASSUME TypeOK, TypeOK', OwnInv, AliveInv, [Next]_vars PROVE AliveInv'
  OBVIOUS
<1> USE DEF poolVars, workerVars, clientVars
<1>p. /\ pc \in [Clients -> {"user", "activate", "notify", "bind", "bindNotify", "unbind",
                             "enqueue", "raise", "spin", "deactivate"}]
      /\ index \in [Clients -> Slots \cup {-1}] /\ k \in [Clients -> 1 .. NumThread]
  BY DEF TypeOK
<1>s. \A c \in Clients : size[c] \in Nat /\ Parts(size[c]) \in Nat
  <2>1. \A c \in Clients : size[c] \in Nat
    BY SizesNat DEF TypeOK
  <2>2. \A c \in Clients : Parts(size[c]) \in 0 .. NumThread
    BY <2>1, PartsBound
  <2> QED BY <2>1, <2>2
<1>w. \A c \in Clients : Waiting(c) => index[c] \in Slots
  <2>1. \A c \in Clients : index[c] = -1 => ~Waiting(c)
    BY DEF OwnInv, RuntimeInv, Waiting
  <2> QED BY <2>1, <1>p
<1>o. \A c, d \in Clients : Waiting(c) /\ Waiting(d) /\ index[c] = index[d] => c = d
  <2>1. \A c \in Clients : Waiting(c) => Owner(c)
    BY <1>w, PoolAssumption DEF Waiting, Owner, Slots
  <2> QED BY <2>1 DEF OwnInv, SlotOwnership
<1>1. ASSUME NEW c \in Clients,
             \/ Release(c) \/ Begin(c) \/ Enqueue(c) \/ End(c) \/ Activate(c) \/ Notify(c)
             \/ Bind(c) \/ BindNotify(c) \/ Unbind(c) \/ RunInline(c) \/ Deactivate(c)
      PROVE  AliveInv'
  <2>1. UNCHANGED <<task, flag, scan>>
    BY <1>1 DEF Release, Begin, Enqueue, End, Activate, Notify, Bind, BindNotify, Unbind,
                RunInline, Deactivate
  <2>2. \A d \in Clients : d # c => /\ pc'[d] = pc[d] /\ index'[d] = index[d]
                                    /\ size'[d] = size[d] /\ k'[d] = k[d]
    <3>1. CASE Release(c) \/ Enqueue(c) \/ End(c) \/ Activate(c) \/ Notify(c) \/ Deactivate(c)
      BY <3>1, <1>p DEF Release, Enqueue, End, Activate, Notify, Deactivate, EnqueueEntry, TypeOK
    <3>2. CASE Begin(c)
      BY <3>2, <1>p DEF Begin
    <3>3. CASE Bind(c) \/ BindNotify(c) \/ Unbind(c) \/ RunInline(c)
      BY <3>3, <1>p DEF Bind, BindNotify, Unbind, RunInline, EnqueueEntry, Return, TypeOK
    <3> QED BY <1>1, <3>1, <3>2, <3>3
  <2>3. ~Waiting(c)
    BY <1>1 DEF Release, Begin, Enqueue, End, Activate, Notify, Bind, BindNotify, Unbind,
                RunInline, Deactivate, Waiting
  <2>4. ~Waiting(c)'
    BY <1>1, <1>p DEF Release, Begin, Enqueue, End, Activate, Notify, Bind, BindNotify, Unbind,
                RunInline, Deactivate, EnqueueEntry, Return, Waiting
  <2>5. wpc' = wpc \/ wpc' = Woken
    BY <1>1 DEF Release, Begin, Enqueue, End, Activate, Notify, Bind, BindNotify, Unbind,
                RunInline, Deactivate
  <2>6. \A d \in Clients : /\ Waiting(d)' => Waiting(d)
                           /\ Waiting(d) => /\ pc'[d] = pc[d] /\ index'[d] = index[d]
                                            /\ size'[d] = size[d] /\ k'[d] = k[d]
                                            /\ task'[index[d]] = task[index[d]]
    BY <2>1, <2>2, <2>3, <2>4 DEF Waiting
  <2>7. TaskInv' /\ FlagInv'
    BY <2>1, <2>6, AliveFrame
  <2>8. WorkInv'
    BY <2>1, <2>5, WorkFrame
  <2> QED BY <2>7, <2>8 DEF AliveInv
<1>2. ASSUME NEW c \in Clients, Reset(c) PROVE AliveInv'
  <2>1. UNCHANGED <<pc, index, size, k, scan>>
    BY <1>2 DEF Reset
  <2>2. CASE phase = "up"
    <3>1. UNCHANGED <<flag, task, wpc>>
      BY <1>2, <2>2 DEF Reset
    <3>2. TaskInv' /\ FlagInv'
      BY <2>1, <3>1, AliveFrame DEF Waiting
    <3> QED BY <2>1, <3>1, <3>2, WorkFrame DEF AliveInv
  <2>3. CASE phase = "none"
    <3>1. flag' = AllDown /\ wpc' = [w \in Workers |-> "top"]
      BY <1>2, <2>3 DEF Reset
    <3>2. \A d \in Clients : ~Waiting(d)'
      BY <2>1, <2>3 DEF Waiting, OwnInv, PoolInUse, RuntimeInv
    <3> QED BY <3>1, <3>2 DEF AliveInv, TaskInv, FlagInv, WorkInv, AllDown
  <2> QED BY <1>2, <2>2, <2>3 DEF Reset
<1>3. ASSUME NEW c \in Clients, WriteTask(c) PROVE AliveInv'
  <2>1. /\ UNCHANGED <<flag, scan, wpc, index, size>>
        /\ task' = [task EXCEPT ![index[c]] = [by |-> c, size |-> size[c]]]
        /\ k' = [k EXCEPT ![c] = 1]
        /\ pc[c] = "enqueue" /\ pc' = [pc EXCEPT ![c] = "raise"]
    BY <1>3 DEF WriteTask
  <2>2. index[c] \in Slots
    BY <1>3, <1>p DEF WriteTask, Inline
  <2>3. ~Waiting(c) /\ Waiting(c)'
    BY <2>1, <1>p DEF Waiting
  <2>4. \A d \in Clients : Waiting(d) => index[d] # index[c]
    <3>1. Owner(c) /\ \A d \in Clients : Waiting(d) => Owner(d)
      BY <1>w, <2>1, <2>2, PoolAssumption DEF Waiting, Owner, Slots
    <3> QED BY <2>3, <3>1 DEF OwnInv, SlotOwnership
  <2>5. \A d \in Clients : d # c => (Waiting(d)' <=> Waiting(d)) /\ pc'[d] = pc[d] /\ k'[d] = k[d]
    BY <2>1 DEF Waiting, TypeOK
  <2>6. TaskInv'
    BY <2>1, <2>2, <2>4, <2>5, <1>w DEF AliveInv, TaskInv, TypeOK
  <2>7. FlagInv'
    BY <2>1, <2>3, <2>5 DEF AliveInv, FlagInv
  <2> QED BY <2>1, <2>6, <2>7, WorkFrame DEF AliveInv
<1>4. ASSUME NEW c \in Clients, RaiseFlag(c) PROVE AliveInv'
  <2>1. /\ UNCHANGED <<task, scan, wpc, index, size, pc>>
        /\ pc[c] = "raise" /\ k[c] < Parts(size[c])
        /\ flag' = [flag EXCEPT ![index[c]][k[c]] = TRUE]
        /\ k' = [k EXCEPT ![c] = @ + 1]
    BY <1>4 DEF RaiseFlag
  <2>2. \A d \in Clients : Waiting(d)' <=> Waiting(d)
    BY <2>1 DEF Waiting
  <2>3. TaskInv'
    BY <2>1, <2>2 DEF AliveInv, TaskInv
  <2>4. FlagInv'
    <3> SUFFICES ASSUME NEW s \in Slots, NEW w \in Workers, flag'[s][w]
                 PROVE  \E d \in Clients : /\ Waiting(d) /\ index[d] = s
                                           /\ w < Parts(size[d])
                                           /\ pc[d] = "raise" => w < k'[d]
                                           /\ pc[d] = "spin" => w >= k'[d]
      BY <2>1, <2>2 DEF FlagInv
    <3>1. k'[c] = k[c] + 1 /\ \A d \in Clients : d # c => k'[d] = k[d]
      BY <2>1, <1>p
    <3>2. CASE s = index[c] /\ w = k[c]
      BY <2>1, <3>1, <3>2, <1>p DEF Waiting
    <3>3. CASE ~(s = index[c] /\ w = k[c])
      <4>1. flag[s][w]
        BY <2>1, <3>3 DEF TypeOK
      <4>2. PICK d \in Clients : /\ Waiting(d) /\ index[d] = s /\ w < Parts(size[d])
                                 /\ pc[d] = "raise" => w < k[d]
                                 /\ pc[d] = "spin" => w >= k[d]
        BY <4>1 DEF AliveInv, FlagInv
      <4>3. w \in Int /\ k[d] \in Int
        BY <1>p, PoolAssumption DEF Workers
      <4> QED BY <2>1, <3>1, <4>2, <4>3
    <3> QED BY <3>2, <3>3
  <2>5. WorkInv'
    <3>1. \A s \in Slots, w \in Workers : flag[s][w] => flag'[s][w]
      BY <2>1 DEF TypeOK
    <3> QED BY <2>1, <3>1 DEF AliveInv, WorkInv, TypeOK
  <2> QED BY <2>3, <2>4, <2>5 DEF AliveInv
<1>5. ASSUME NEW c \in Clients, RunOwnPart(c) PROVE AliveInv'
  <2>1. /\ UNCHANGED <<task, flag, scan, wpc, index, size>>
        /\ pc[c] = "raise" /\ pc' = [pc EXCEPT ![c] = "spin"]
        /\ k' = [k EXCEPT ![c] = 1]
    BY <1>5 DEF RunOwnPart
  <2>2. /\ \A d \in Clients : Waiting(d)' <=> Waiting(d)
        /\ \A d \in Clients : d # c => pc'[d] = pc[d] /\ k'[d] = k[d]
        /\ pc'[c] = "spin" /\ k'[c] = 1
    BY <2>1, <1>p DEF Waiting
  <2>3. TaskInv'
    BY <2>1, <2>2 DEF AliveInv, TaskInv
  <2>4. FlagInv'
    <3>1. \A w \in Workers : w >= 1
      BY PoolAssumption DEF Workers
    <3> QED BY <2>1, <2>2, <3>1 DEF AliveInv, FlagInv
  <2> QED BY <2>1, <2>3, <2>4, WorkFrame DEF AliveInv
<1>6. ASSUME NEW c \in Clients, Spin(c) PROVE AliveInv'
  <2>1. /\ UNCHANGED <<task, flag, scan, wpc, index, size, pc>>
        /\ pc[c] = "spin" /\ k[c] < Parts(size[c])
        /\ k' = [k EXCEPT ![c] = IF flag[index[c]][k[c]] THEN 1 ELSE @ + 1]
    BY <1>6 DEF Spin
  <2>2. \A d \in Clients : Waiting(d)' <=> Waiting(d)
    BY <2>1 DEF Waiting
  <2>3. TaskInv'
    BY <2>1, <2>2 DEF AliveInv, TaskInv
  <2>4. FlagInv'
    <3> SUFFICES ASSUME NEW s \in Slots, NEW w \in Workers, flag[s][w]
                 PROVE  \E d \in Clients : /\ Waiting(d) /\ index[d] = s
                                           /\ w < Parts(size[d])
                                           /\ pc[d] = "raise" => w < k'[d]
                                           /\ pc[d] = "spin" => w >= k'[d]
      BY <2>1, <2>2 DEF FlagInv
    <3>1. PICK d \in Clients : /\ Waiting(d) /\ index[d] = s /\ w < Parts(size[d])
                               /\ pc[d] = "raise" => w < k[d]
                               /\ pc[d] = "spin" => w >= k[d]
      BY DEF AliveInv, FlagInv
    <3>2. w \in Int /\ w >= 1 /\ k[d] \in Int
      BY <1>p, PoolAssumption DEF Workers
    <3>3. CASE d # c
      BY <2>1, <3>1, <3>3
    <3>4. CASE d = c
      <4>1. k'[c] = IF flag[index[c]][k[c]] THEN 1 ELSE k[c] + 1
        BY <2>1, <1>p
      <4>2. ~flag[index[c]][k[c]] => w # k[c]
        BY <3>1, <3>4
      <4> QED BY <2>1, <3>1, <3>2, <3>4, <4>1, <4>2
    <3> QED BY <3>3, <3>4
  <2> QED BY <2>1, <2>3, <2>4, WorkFrame DEF AliveInv
<1>7. ASSUME NEW c \in Clients, SpinDone(c) PROVE AliveInv'
  <2>1. /\ UNCHANGED <<task, flag, scan, wpc, index, size, k>>
        /\ pc[c] = "spin" /\ k[c] = Parts(size[c])
        /\ \E q \in {"unbind", "user"} : pc' = [pc EXCEPT ![c] = q]
    BY <1>7 DEF SpinDone, Return
  <2>2. /\ ~Waiting(c)'
        /\ \A d \in Clients : d # c => (Waiting(d)' <=> Waiting(d)) /\ pc'[d] = pc[d]
    BY <2>1, <1>p DEF Waiting
  <2>3. TaskInv'
    BY <2>1, <2>2 DEF AliveInv, TaskInv
  <2>4. FlagInv'
    <3> SUFFICES ASSUME NEW s \in Slots, NEW w \in Workers, flag[s][w]
                 PROVE  \E d \in Clients : /\ Waiting(d)' /\ index[d] = s
                                           /\ w < Parts(size[d])
                                           /\ pc'[d] = "raise" => w < k[d]
                                           /\ pc'[d] = "spin" => w >= k[d]
      BY <2>1 DEF FlagInv
    <3>1. PICK d \in Clients : /\ Waiting(d) /\ index[d] = s /\ w < Parts(size[d])
                               /\ pc[d] = "raise" => w < k[d]
                               /\ pc[d] = "spin" => w >= k[d]
      BY DEF AliveInv, FlagInv
    <3>2. d # c
      BY <2>1, <3>1, <1>s, PoolAssumption DEF Workers
    <3> QED BY <2>2, <3>1, <3>2
  <2> QED BY <2>1, <2>3, <2>4, WorkFrame DEF AliveInv
<1>8. ASSUME NEW w \in Workers, WorkerStep(w) \/ SpuriousWake(w) PROVE AliveInv'
  <2>1. UNCHANGED <<task, pc, index, size, k>>
    BY <1>8 DEF WorkerStep, TestStop, TestActive, ReadFlag, RunPart, ClearFlag, Wait, SpuriousWake
  <2>2. CASE ~ClearFlag(w)
    <3>1. UNCHANGED flag
      BY <1>8, <2>2 DEF WorkerStep, TestStop, TestActive, ReadFlag, RunPart, Wait, SpuriousWake
    <3>2. TaskInv' /\ FlagInv'
      BY <2>1, <3>1, AliveFrame DEF Waiting
    <3>3. /\ \A x \in Workers : x # w => wpc'[x] = wpc[x] /\ scan'[x] = scan[x]
          /\ wpc'[w] \in {"exec", "clear"} => flag[scan[w]][w] /\ scan'[w] = scan[w]
      <4>1. CASE TestStop(w) \/ TestActive(w) \/ Wait(w) \/ SpuriousWake(w)
        BY <4>1 DEF TestStop, TestActive, Wait, SpuriousWake, Go, TypeOK
      <4>2. CASE ReadFlag(w)
        BY <4>2 DEF ReadFlag, Go, NextSlot, TypeOK
      <4>3. CASE RunPart(w)
        BY <4>3 DEF RunPart, Go, TypeOK, AliveInv, WorkInv
      <4> QED BY <1>8, <2>2, <4>1, <4>2, <4>3 DEF WorkerStep
    <3> QED BY <3>1, <3>2, <3>3 DEF AliveInv, WorkInv
  <2>3. CASE ClearFlag(w)
    <3>1. /\ flag' = [flag EXCEPT ![scan[w]][w] = FALSE]
          /\ \A x \in Workers : x # w => wpc'[x] = wpc[x] /\ scan'[x] = scan[x]
          /\ wpc'[w] \notin {"exec", "clear"}
      BY <2>3 DEF ClearFlag, NextSlot, TypeOK
    <3>2. \A s \in Slots, x \in Workers : flag'[s][x] => flag[s][x]
      BY <3>1 DEF TypeOK
    <3>3. \A s \in Slots, x \in Workers : x # w => flag'[s][x] = flag[s][x]
      BY <3>1 DEF TypeOK
    <3>4. TaskInv' /\ FlagInv'
      BY <2>1, <3>2 DEF AliveInv, TaskInv, FlagInv, Waiting
    <3>5. WorkInv'
      BY <3>1, <3>3 DEF AliveInv, WorkInv, TypeOK
    <3> QED BY <3>4, <3>5 DEF AliveInv
  <2> QED BY <2>2, <2>3
<1>9. CASE Destroy \/ DestroyNotify \/ Join \/ UNCHANGED vars
  <2>1. UNCHANGED <<flag, task, scan, pc, index, size, k>> /\ (wpc' = wpc \/ wpc' = Woken)
    BY <1>9 DEF Destroy, DestroyNotify, Join, vars
  <2>2. TaskInv' /\ FlagInv'
    BY <2>1, AliveFrame DEF Waiting
  <2> QED BY <2>1, <2>2, WorkFrame DEF AliveInv
<1> QED BY <1>1, <1>2, <1>3, <1>4, <1>5, <1>6, <1>7, <1>8, <1>9
        DEF Next, ClientCall, ClientStep

\* No worker ever runs a closure whose client has left enqueue, and no slot
\* is rewritten under a worker: a raised flag keeps its task alive.
THEOREM TasksStayAlive == Spec => []TaskAlive
<1>1. Init => TypeOK /\ OwnInv /\ AliveInv
  <2>1. Init => AliveInv
    BY DEF Init, AliveInv, TaskInv, FlagInv, WorkInv, Waiting, AllDown
  <2> QED BY <2>1, TypeInit, OwnInit
<1>2. TypeOK /\ OwnInv /\ AliveInv /\ [Next]_vars => TypeOK' /\ OwnInv' /\ AliveInv'
  BY TypeStep, OwnStep, AliveStep
<1>3. TypeOK /\ OwnInv /\ AliveInv => TaskAlive
  <2> SUFFICES ASSUME TypeOK, OwnInv, AliveInv, NEW s \in Slots, NEW w \in Workers,
                      flag[s][w] \/ (wpc[w] \in {"exec", "clear"} /\ scan[w] = s)
               PROVE  \E c \in Clients : /\ Waiting(c) /\ Owner(c) /\ index[c] = s
                                         /\ task[s] = [by |-> c, size |-> size[c]]
    BY DEF TaskAlive
  <2>1. flag[s][w]
    BY DEF AliveInv, WorkInv
  <2>2. PICK c \in Clients : Waiting(c) /\ index[c] = s
    BY <2>1 DEF AliveInv, FlagInv
  <2>3. Owner(c)
    BY <2>2, PoolAssumption DEF Owner, Waiting, Slots
  <2> QED BY <2>2, <2>3 DEF AliveInv, TaskInv
<1> QED BY <1>1, <1>2, <1>3, PTL DEF Spec

-----------------------------------------------------------------------------
(* Which iterations have run.                                               *)

\* The worker that runs iteration v, 0: the client.
PartOf(v) == v % NumThread

\* Iteration v of the loop that client c is in has not run yet.
Pending(c, v) ==
    \/ pc[c] = "enqueue"
    \/ pc[c] = "raise" /\ (PartOf(v) = 0 \/ PartOf(v) >= k[c])
    \/ /\ pc[c] \in {"raise", "spin"} /\ PartOf(v) # 0
       /\ flag[index[c]][PartOf(v)]
       /\ ~(wpc[PartOf(v)] = "clear" /\ scan[PartOf(v)] = index[c])

\* Every iteration of the last loop of a client that is not pending has run once.
RunsInv == \A c \in Clients, v \in Items :
              runs[c][v] = IF v < size[c] /\ ~Pending(c, v) THEN 1 ELSE 0

\* A client is bound to its cores while it runs the affinity task.
BindInv == \A c \in Clients :
              /\ bound[c] = "busy" => pc[c] \in {"bindNotify", "enqueue", "raise", "spin", "unbind"}
              /\ pc[c] \in {"bindNotify", "unbind"} => bound[c] = "busy"

IInv == TypeOK /\ OwnInv /\ AliveInv /\ RunsInv /\ BindInv /\ ActiveAccounting

-----------------------------------------------------------------------------
(* Iterations and their parts.                                              *)

\* Every iteration belongs to the client or to a worker that has a part.
LEMMA PartOfBound ==
  ASSUME NEW v \in Nat
  PROVE  /\ PartOf(v) \in 0..NumThread - 1
         /\ PartOf(v) # 0 => PartOf(v) \in Workers
         /\ \A n \in Nat : v < n => PartOf(v) < Parts(n)
<1> DEFINE q == v \div NumThread
<1>1. NumThread \in Nat \ {0, 1} /\ q \in Nat /\ PartOf(v) \in 0..NumThread - 1
  BY PoolAssumption DEF PartOf
<1>2. v = q * NumThread + PartOf(v)
  BY PoolAssumption DEF PartOf
<1>3. PartOf(v) <= v
  <2>1. q * NumThread \in Nat
    BY <1>1
  <2> HIDE DEF q
  <2> QED BY <1>1, <1>2, <2>1
<1>4. PartOf(v) # 0 => PartOf(v) \in Workers
  BY <1>1 DEF Workers
<1> QED BY <1>1, <1>3, <1>4 DEF Parts

\* The iterations of a loop are among those that are counted.
LEMMA ItemsOfLoop ==
  ASSUME TypeOK, NEW c \in Clients
  PROVE  /\ Items \subseteq Nat /\ size[c] \in Nat /\ 0..size[c] - 1 \subseteq Items
         /\ \A v \in Items : v \in 0..size[c] - 1 <=> v < size[c]
<1>1. \A n \in Sizes : n \in Nat
  BY SizesNat
<1>2. Items \subseteq Nat
  BY <1>1 DEF Items
<1>3. size[c] \in Sizes \/ size[c] = 0
  BY DEF TypeOK
<1>4. 0..size[c] - 1 \subseteq Items
  BY <1>1, <1>3 DEF Items
<1> QED BY <1>1, <1>2, <1>3, <1>4

\* What running a set of iterations changes.
LEMMA RanAt ==
  ASSUME TypeOK, NEW c \in Clients, NEW S, NEW d \in Clients, NEW v \in Items
  PROVE  Ran(c, S)[d][v] = IF d = c /\ v \in S THEN runs[d][v] + 1 ELSE runs[d][v]
  BY DEF TypeOK, Ran

\* A client that waits owns a slot of its own, which holds its task.
LEMMA WaitingFacts ==
  ASSUME TypeOK, OwnInv, AliveInv
  PROVE  /\ \A c \in Clients : Waiting(c) => /\ index[c] \in Slots /\ Owner(c)
                                             /\ task[index[c]] = [by |-> c, size |-> size[c]]
         /\ \A c, d \in Clients : Owner(c) /\ Owner(d) /\ index[c] = index[d] => c = d
<1>1. \A c \in Clients : index[c] = -1 => ~Waiting(c)
  BY DEF OwnInv, RuntimeInv, Waiting
<1>2. \A c \in Clients : Waiting(c) => index[c] \in Slots
  BY <1>1 DEF TypeOK
<1>3. \A c \in Clients : Waiting(c) => Owner(c)
  BY <1>2, PoolAssumption DEF Waiting, Owner, Slots
<1> QED BY <1>2, <1>3 DEF AliveInv, TaskInv, OwnInv, SlotOwnership

-----------------------------------------------------------------------------
(* What has run.                                                            *)

\* What is pending of a client that does not move, if no worker of its slot does.
LEMMA PendingFrame ==
  ASSUME NEW d \in Clients, NEW v \in Nat,
         pc'[d] = pc[d], index'[d] = index[d], k'[d] = k[d],
         Waiting(d) => \A w \in Workers :
             /\ flag'[index[d]][w] <=> flag[index[d]][w]
             /\ flag[index[d]][w] => (   wpc'[w] = "clear" /\ scan'[w] = index[d]
                                     <=> wpc[w] = "clear" /\ scan[w] = index[d])
  PROVE  Pending(d, v)' <=> Pending(d, v)
<1>1. PartOf(v)' = PartOf(v) /\ (PartOf(v) # 0 => PartOf(v) \in Workers)
  BY PartOfBound DEF PartOf
<1>2. CASE PartOf(v) = 0
  BY <1>1, <1>2 DEF Pending
<1>3. CASE PartOf(v) # 0
  BY <1>1, <1>3 DEF Pending, Waiting
<1> QED BY <1>2, <1>3

\* A step that runs nothing, and after which as much is pending as before.
LEMMA RunsFrame ==
  ASSUME TypeOK, RunsInv, UNCHANGED <<runs, size>>,
         \A c \in Clients, v \in Items : v < size[c] => (Pending(c, v)' <=> Pending(c, v))
  PROVE  RunsInv'
  BY DEF RunsInv

\* Sleeping workers that wake up, and nothing else.
LEMMA WokenClear ==
  ASSUME TypeOK, wpc' = wpc \/ wpc' = Woken
  PROVE  \A w \in Workers : wpc'[w] = "clear" <=> wpc[w] = "clear"
  BY DEF TypeOK, Woken

\* A step of a client outside of loops.
LEMMA RunsOutside ==
  ASSUME TypeOK, OwnInv, AliveInv, RunsInv, NEW c \in Clients,
         \/ Release(c) \/ Begin(c) \/ End(c) \/ Activate(c) \/ Notify(c)
         \/ Bind(c) \/ Unbind(c) \/ Deactivate(c) \/ Reset(c)
  PROVE  RunsInv'
<1> USE DEF poolVars, workerVars, clientVars
<1>1. UNCHANGED <<runs, size, scan, k>>
  BY DEF Release, Begin, End, Activate, Notify, Bind, Unbind, Deactivate, Reset
<1>2. ~InLoop(c) /\ ~InLoop(c)'
  BY DEF Release, Begin, End, Activate, Notify, Bind, Unbind, Deactivate, Reset, InLoop, TypeOK
<1>3. \A d \in Clients \ {c} : pc'[d] = pc[d] /\ index'[d] = index[d]
  <2>1. CASE Begin(c)
    BY <2>1 DEF Begin, TypeOK
  <2>2. CASE ~Begin(c)
    BY <2>2 DEF Release, End, Activate, Notify, Bind, Unbind, Deactivate, Reset, TypeOK
  <2> QED BY <2>1, <2>2
<1>4. CASE UNCHANGED flag /\ (wpc' = wpc \/ wpc' = Woken)
  <2>1. \A w \in Workers : wpc'[w] = "clear" <=> wpc[w] = "clear"
    BY <1>4, WokenClear
  <2>2. ASSUME NEW d \in Clients, NEW v \in Items PROVE Pending(d, v)' <=> Pending(d, v)
    <3>1. CASE d = c
      BY <1>2, <3>1 DEF Pending, InLoop
    <3>2. CASE d # c
      BY <1>1, <1>3, <1>4, <2>1, <3>2, ItemsOfLoop, PendingFrame
    <3> QED BY <3>1, <3>2
  <2> QED BY <1>1, <2>2, RunsFrame
<1>5. CASE Reset(c) /\ phase = "none"
  <2>1. \A d \in Clients : ~InLoop(d) /\ pc' = pc
    BY <1>5 DEF OwnInv, PoolInUse, RuntimeInv, InLoop, Reset
  <2>2. \A d \in Clients, v \in Items : ~Pending(d, v) /\ ~Pending(d, v)'
    BY <2>1 DEF InLoop, Pending
  <2> QED BY <1>1, <2>2, RunsFrame
<1> QED BY <1>4, <1>5 DEF Release, Begin, End, Activate, Notify, Bind, Unbind, Deactivate, Reset

\* A loop begins: nothing of it has run.
LEMMA RunsEntry ==
  ASSUME TypeOK, RunsInv, NEW c \in Clients, Enqueue(c) \/ BindNotify(c)
  PROVE  RunsInv'
<1> USE DEF poolVars, workerVars, clientVars
<1>1. /\ UNCHANGED <<flag, scan, index, k>> /\ (wpc' = wpc \/ wpc' = Woken)
      /\ pc' = [pc EXCEPT ![c] = "enqueue"] /\ runs' = [runs EXCEPT ![c] = [v \in Items |-> 0]]
      /\ \E n \in Sizes : size' = [size EXCEPT ![c] = n]
  BY DEF Enqueue, BindNotify, EnqueueEntry, Sizes
<1>2. \A w \in Workers : wpc'[w] = "clear" <=> wpc[w] = "clear"
  BY <1>1, WokenClear
<1>3. ASSUME NEW d \in Clients, NEW v \in Items
      PROVE  runs'[d][v] = IF v < size'[d] /\ ~Pending(d, v)' THEN 1 ELSE 0
  <2>1. CASE d = c
    BY <1>1, <2>1 DEF Pending, TypeOK
  <2>2. CASE d # c
    <3>1. /\ pc'[d] = pc[d] /\ runs'[d] = runs[d] /\ size'[d] = size[d]
      BY <1>1, <2>2 DEF TypeOK
    <3>2. Pending(d, v)' <=> Pending(d, v)
      BY <1>1, <1>2, <3>1, ItemsOfLoop, PendingFrame
    <3> QED BY <3>1, <3>2 DEF RunsInv
  <2> QED BY <2>1, <2>2
<1> QED BY <1>3 DEF RunsInv

\* The other clients, when client c moves and touches at most its own slot.
LEMMA OthersKeep ==
  ASSUME TypeOK, OwnInv, AliveInv, NEW c \in Clients,
         RunInline(c) \/ WriteTask(c) \/ RaiseFlag(c) \/ RunOwnPart(c) \/ Spin(c) \/ SpinDone(c),
         NEW d \in Clients \ {c}, NEW v \in Nat
  PROVE  size'[d] = size[d] /\ (Pending(d, v)' <=> Pending(d, v))
<1> USE DEF poolVars, workerVars, clientVars
<1>1. /\ UNCHANGED <<wpc, scan, index, size>> /\ pc'[d] = pc[d] /\ k'[d] = k[d]
      /\ flag' = flag \/ (Waiting(c) /\ flag' = [flag EXCEPT ![index[c]][k[c]] = TRUE])
  <2>1. CASE RunInline(c) \/ SpinDone(c)
    BY <2>1 DEF RunInline, SpinDone, Return, TypeOK
  <2>2. CASE WriteTask(c) \/ RaiseFlag(c) \/ RunOwnPart(c) \/ Spin(c)
    BY <2>2 DEF WriteTask, RaiseFlag, RunOwnPart, Spin, Waiting, TypeOK
  <2> QED BY <2>1, <2>2
<1>2. Waiting(d) => \A w \in Workers : flag'[index[d]][w] <=> flag[index[d]][w]
  <2>1. Waiting(d) /\ Waiting(c) => index[d] \in Slots /\ index[d] # index[c]
    BY WaitingFacts
  <2> QED BY <1>1, <2>1 DEF TypeOK
<1> QED BY <1>1, <1>2, PendingFrame

\* A client's own steps inside a loop.
LEMMA RunsInLoop ==
  ASSUME TypeOK, OwnInv, AliveInv, RunsInv, NEW c \in Clients,
         RunInline(c) \/ WriteTask(c) \/ RaiseFlag(c) \/ RunOwnPart(c) \/ Spin(c) \/ SpinDone(c)
  PROVE  RunsInv'
<1> USE DEF poolVars, workerVars, clientVars
<1> SUFFICES ASSUME NEW d \in Clients, NEW v \in Items
             PROVE  runs'[d][v] = IF v < size'[d] /\ ~Pending(d, v)' THEN 1 ELSE 0
  BY DEF RunsInv
<1>1. v \in Nat /\ (v \in 0..size[c] - 1 <=> v < size[c]) /\ size[c] \in Nat /\ 0 \notin Workers
  BY ItemsOfLoop DEF Workers
<1>2. /\ PartOf(v) \in Nat /\ (PartOf(v) # 0 => PartOf(v) \in Workers)
      /\ v < size[c] => PartOf(v) < Parts(size[c])
  BY <1>1, PartOfBound
<1>3. runs[d][v] = IF v < size[d] /\ ~Pending(d, v) THEN 1 ELSE 0
  BY DEF RunsInv
<1>4. k[c] \in Nat /\ runs[c][v] \in Nat
  BY DEF TypeOK
<1>5. CASE d # c
  <2>1. size'[d] = size[d] /\ (Pending(d, v)' <=> Pending(d, v))
    BY <1>1, <1>5, OthersKeep
  <2>2. runs'[d][v] = runs[d][v]
    BY <1>5, RanAt DEF RunInline, WriteTask, RaiseFlag, RunOwnPart, Spin, SpinDone
  <2> QED BY <1>3, <2>1, <2>2
<1>6. CASE d = c /\ RunInline(c)
  <2>1. Pending(c, v) /\ ~Pending(c, v)' /\ size' = size
    BY <1>6 DEF RunInline, Return, Pending, TypeOK
  <2>2. runs'[c][v] = IF v \in 0..size[c] - 1 THEN runs[c][v] + 1 ELSE runs[c][v]
    <3>1. runs' = Ran(c, 0..size[c] - 1)
      BY <1>6 DEF RunInline
    <3>2. \A S : Ran(c, S)[c][v] = IF v \in S THEN runs[c][v] + 1 ELSE runs[c][v]
      BY RanAt
    <3> HIDE DEF poolVars, workerVars, clientVars
    <3> QED BY <3>1, <3>2, Zenon
  <2> QED BY <1>1, <1>3, <1>6, <2>1, <2>2
<1>7. CASE d = c /\ WriteTask(c)
  <2>1. Pending(c, v) /\ runs' = runs /\ size' = size /\ pc'[c] = "raise" /\ k'[c] = 1
    BY <1>7 DEF WriteTask, Pending, TypeOK
  <2>2. Pending(c, v)'
    BY <1>2, <2>1 DEF Pending, PartOf
  <2> QED BY <1>3, <1>7, <2>1, <2>2
<1>8. CASE d = c /\ RaiseFlag(c)
  <2>1. /\ UNCHANGED <<wpc, scan, index, size, pc, runs>> /\ pc[c] = "raise"
        /\ flag' = [flag EXCEPT ![index[c]][k[c]] = TRUE] /\ k'[c] = k[c] + 1
    BY <1>8 DEF RaiseFlag, TypeOK
  <2>2. index[c] \in Slots /\ Waiting(c)
    BY <2>1, WaitingFacts DEF Waiting
  <2>3. \A w \in Workers : flag'[index[c]][w] <=> flag[index[c]][w] \/ w = k[c]
    BY <2>1, <2>2 DEF TypeOK
  <2>4. k[c] \in Workers => ~(wpc[k[c]] = "clear" /\ scan[k[c]] = index[c])
    <3> SUFFICES ASSUME k[c] \in Workers, wpc[k[c]] = "clear", scan[k[c]] = index[c] PROVE FALSE
      OBVIOUS
    <3>1. flag[index[c]][k[c]]
      BY DEF AliveInv, WorkInv
    <3>2. PICK e \in Clients : Waiting(e) /\ index[e] = index[c] /\ (pc[e] = "raise" => k[c] < k[e])
      BY <2>2, <3>1 DEF AliveInv, FlagInv
    <3>3. e = c
      BY <2>2, <3>2, WaitingFacts
    <3> QED BY <1>4, <2>1, <3>2, <3>3
  <2>5. Pending(c, v)' <=> Pending(c, v)
    <3>1. PartOf(v) >= k[c] + 1 <=> PartOf(v) >= k[c] /\ PartOf(v) # k[c]
      BY <1>2, <1>4
    <3>2. PartOf(v)' = PartOf(v)
      BY DEF PartOf
    <3>3. CASE PartOf(v) = 0
      BY <2>1, <3>2, <3>3 DEF Pending
    <3>4. CASE PartOf(v) # 0 /\ PartOf(v) = k[c]
      BY <1>2, <1>4, <2>1, <2>3, <2>4, <3>2, <3>4 DEF Pending
    <3>5. CASE PartOf(v) # 0 /\ PartOf(v) # k[c]
      BY <1>2, <2>1, <2>3, <3>1, <3>2, <3>5 DEF Pending
    <3> QED BY <3>3, <3>4, <3>5
  <2> QED BY <1>3, <1>8, <2>1, <2>5
<1>9. CASE d = c /\ RunOwnPart(c)
  <2>1. /\ UNCHANGED <<wpc, scan, index, size, flag>> /\ pc[c] = "raise" /\ k[c] = Parts(size[c])
        /\ pc'[c] = "spin" /\ runs' = Ran(c, Part(0, size[c]))
    BY <1>9 DEF RunOwnPart, TypeOK
  <2>2. v \in Part(0, size[c]) <=> v < size[c] /\ PartOf(v) = 0
    BY <1>1 DEF Part, PartOf
  <2>3. runs'[c][v] = IF v \in Part(0, size[c]) THEN runs[c][v] + 1 ELSE runs[c][v]
    BY <2>1, RanAt
  <2>4. v < size[c] => ~(PartOf(v) >= k[c])
    BY <1>2, <1>4, <2>1
  <2>5. PartOf(v)' = PartOf(v)
    BY DEF PartOf
  <2>6. v < size[c] => (Pending(c, v)' <=> Pending(c, v) /\ PartOf(v) # 0)
    BY <2>1, <2>4, <2>5 DEF Pending
  <2>7. PartOf(v) = 0 => Pending(c, v)
    BY <2>1 DEF Pending
  <2> QED BY <1>3, <1>9, <2>1, <2>2, <2>3, <2>6, <2>7
<1>10. CASE d = c /\ Spin(c)
  <2>1. /\ UNCHANGED <<wpc, scan, index, size, flag, pc, runs>> /\ pc[c] = "spin"
    BY <1>10 DEF Spin
  <2>2. Pending(c, v)' <=> Pending(c, v)
    BY <2>1 DEF Pending, PartOf
  <2> QED BY <1>3, <1>10, <2>1, <2>2
<1>11. CASE d = c /\ SpinDone(c)
  <2>1. /\ UNCHANGED <<size, runs>> /\ pc[c] = "spin" /\ k[c] = Parts(size[c])
        /\ pc'[c] \in {"unbind", "user"}
    BY <1>11 DEF SpinDone, Return, TypeOK
  <2>2. ~Pending(c, v)'
    BY <2>1 DEF Pending
  <2>3. v < size[c] => ~Pending(c, v)
    <3> SUFFICES ASSUME v < size[c], PartOf(v) \in Workers, flag[index[c]][PartOf(v)] PROVE FALSE
      BY <1>2, <2>1 DEF Pending
    <3>1. index[c] \in Slots /\ Waiting(c)
      BY <2>1, WaitingFacts DEF Waiting
    <3>2. PICK e \in Clients : /\ Waiting(e) /\ index[e] = index[c]
                               /\ pc[e] = "spin" => PartOf(v) >= k[e]
      BY <3>1 DEF AliveInv, FlagInv
    <3>3. e = c
      BY <3>1, <3>2, WaitingFacts
    <3> QED BY <1>2, <1>4, <2>1, <3>2, <3>3
  <2> QED BY <1>3, <1>11, <2>1, <2>2, <2>3
<1> QED BY <1>5, <1>6, <1>7, <1>8, <1>9, <1>10, <1>11

\* A worker runs its part of the loop in the slot it looks at.
LEMMA RunsPart ==
  ASSUME TypeOK, OwnInv, AliveInv, RunsInv, NEW w \in Workers, RunPart(w)
  PROVE  RunsInv'
<1> USE DEF poolVars, workerVars, clientVars
<1> SUFFICES ASSUME NEW d \in Clients, NEW v \in Items
             PROVE  runs'[d][v] = IF v < size'[d] /\ ~Pending(d, v)' THEN 1 ELSE 0
  BY DEF RunsInv
<1>1. v \in Nat /\ (v \in 0..size[d] - 1 <=> v < size[d]) /\ size[d] \in Nat
  BY ItemsOfLoop
<1>2. /\ PartOf(v) \in Nat /\ (PartOf(v) # 0 => PartOf(v) \in Workers) /\ w # 0
      /\ PartOf(v)' = PartOf(v)
  BY <1>1, PartOfBound DEF PartOf, Workers
<1>3. runs[d][v] = IF v < size[d] /\ ~Pending(d, v) THEN 1 ELSE 0
  BY DEF RunsInv
<1>4. /\ wpc[w] = "exec" /\ wpc'[w] = "clear" /\ \A x \in Workers : x # w => wpc'[x] = wpc[x]
      /\ UNCHANGED <<scan, flag, pc, index, k, size, task>> /\ scan[w] \in Slots
  BY DEF RunPart, Go, TypeOK
<1>5. PICK c \in Clients : /\ Waiting(c) /\ index[c] = scan[w] /\ flag[scan[w]][w]
                           /\ pc[c] = "raise" => w < k[c]
  BY <1>4 DEF AliveInv, WorkInv, FlagInv
<1>6. runs' = Ran(c, Part(w, size[c]))
  <2>1. task[scan[w]] = [by |-> c, size |-> size[c]]
    BY <1>5, WaitingFacts
  <2>2. task[scan[w]].by = c /\ task[scan[w]].size = size[c]
    BY <2>1
  <2> QED BY <2>2 DEF RunPart
<1>7. runs'[d][v] = IF d = c /\ v \in Part(w, size[c]) THEN runs[d][v] + 1 ELSE runs[d][v]
  BY <1>6, RanAt
<1>8. CASE d # c
  <2>1. Waiting(d) => index[d] # scan[w]
    BY <1>5, <1>8, WaitingFacts
  <2>2. Pending(d, v)' <=> Pending(d, v)
    BY <1>1, <1>4, <2>1, PendingFrame
  <2> QED BY <1>3, <1>4, <1>7, <1>8, <2>2
<1>9. CASE d = c
  <2>1. v \in Part(w, size[c]) <=> v < size[c] /\ PartOf(v) = w
    BY <1>1, <1>9 DEF Part, PartOf
  <2>2. k[c] \in Nat /\ w \in Nat
    BY DEF TypeOK, Workers
  <2>3. CASE PartOf(v) = w
    <3>1. Pending(c, v)
      BY <1>2, <1>4, <1>5, <2>3 DEF Pending, Waiting
    <3>2. ~Pending(c, v)'
      BY <1>2, <1>4, <1>5, <2>2, <2>3 DEF Pending, Waiting
    <3> QED BY <1>3, <1>4, <1>7, <1>9, <2>1, <2>3, <3>1, <3>2
  <2>4. CASE PartOf(v) # w
    <3>1. Pending(c, v)' <=> Pending(c, v)
      BY <1>2, <1>4, <2>4 DEF Pending
    <3> QED BY <1>3, <1>4, <1>7, <1>9, <2>1, <2>4, <3>1
  <2> QED BY <2>3, <2>4
<1> QED BY <1>8, <1>9

\* Every other step of a worker.
LEMMA RunsWorker ==
  ASSUME TypeOK, RunsInv, NEW w \in Workers,
         TestStop(w) \/ TestActive(w) \/ ReadFlag(w) \/ ClearFlag(w) \/ Wait(w) \/ SpuriousWake(w)
  PROVE  RunsInv'
<1> USE DEF poolVars, workerVars, clientVars
<1>1. /\ UNCHANGED <<runs, size, pc, index, k>> /\ wpc'[w] # "clear"
      /\ \A x \in Workers : x # w => wpc'[x] = wpc[x] /\ scan'[x] = scan[x]
  <2>1. CASE TestStop(w) \/ TestActive(w) \/ Wait(w) \/ SpuriousWake(w)
    BY <2>1 DEF TestStop, TestActive, Wait, SpuriousWake, Go, TypeOK
  <2>2. CASE ReadFlag(w) \/ ClearFlag(w)
    BY <2>2 DEF ReadFlag, ClearFlag, Go, NextSlot, TypeOK
  <2> QED BY <2>1, <2>2
<1>2. CASE ~ClearFlag(w)
  <2>1. flag' = flag /\ wpc[w] # "clear"
    BY <1>2 DEF TestStop, TestActive, ReadFlag, Wait, SpuriousWake, Go
  <2>2. ASSUME NEW d \in Clients, NEW v \in Items PROVE Pending(d, v)' <=> Pending(d, v)
    BY <1>1, <2>1, ItemsOfLoop, PendingFrame
  <2> QED BY <1>1, <2>2, RunsFrame
<1>3. CASE ClearFlag(w)
  <2>1. wpc[w] = "clear" /\ flag' = [flag EXCEPT ![scan[w]][w] = FALSE] /\ scan[w] \in Slots
    BY <1>3 DEF ClearFlag, TypeOK
  <2>2. ASSUME NEW s, NEW x \in Workers
        PROVE  flag'[s][x] /\ ~(wpc'[x] = "clear" /\ scan'[x] = s)
                 <=> flag[s][x] /\ ~(wpc[x] = "clear" /\ scan[x] = s)
    <3>1. CASE s \in Slots
      BY <1>1, <2>1, <3>1 DEF TypeOK
    <3>2. CASE s \notin Slots
      BY <1>1, <2>1, <3>2 DEF TypeOK
    <3> QED BY <3>1, <3>2
  <2>3. ASSUME NEW d \in Clients, NEW v \in Items PROVE Pending(d, v)' <=> Pending(d, v)
    <3>1. PartOf(v)' = PartOf(v) /\ (PartOf(v) # 0 => PartOf(v) \in Workers)
      BY ItemsOfLoop, PartOfBound DEF PartOf
    <3>2. PartOf(v) # 0 =>
            (flag'[index[d]][PartOf(v)] /\ ~(wpc'[PartOf(v)] = "clear" /\ scan'[PartOf(v)] = index[d])
             <=> flag[index[d]][PartOf(v)] /\ ~(wpc[PartOf(v)] = "clear" /\ scan[PartOf(v)] = index[d]))
      BY <2>2, <3>1
    <3> QED BY <1>1, <3>1, <3>2 DEF Pending
  <2> QED BY <1>1, <2>3, RunsFrame
<1> QED BY <1>2, <1>3

\* The account of iterations is kept by every step.
LEMMA RunsStep == TypeOK /\ OwnInv /\ AliveInv /\ RunsInv /\ [Next]_vars => RunsInv'
<1> SUFFICES ASSUME TypeOK, OwnInv, AliveInv, RunsInv, [Next]_vars PROVE RunsInv'
  OBVIOUS
<1>1. CASE \E c \in Clients : ClientCall(c) \/ ClientStep(c)
  BY <1>1, RunsOutside, RunsEntry, RunsInLoop DEF ClientCall, ClientStep
<1>2. CASE \E w \in Workers : WorkerStep(w) \/ SpuriousWake(w)
  BY <1>2, RunsPart, RunsWorker DEF WorkerStep
<1>3. CASE Destroy \/ DestroyNotify \/ Join \/ UNCHANGED vars
  <2>1. UNCHANGED <<runs, size, pc, index, k, flag, scan>> /\ (wpc' = wpc \/ wpc' = Woken)
    BY <1>3 DEF Destroy, DestroyNotify, Join, vars, poolVars, workerVars, clientVars
  <2>2. \A w \in Workers : wpc'[w] = "clear" <=> wpc[w] = "clear"
    BY <2>1, WokenClear
  <2>3. ASSUME NEW d \in Clients, NEW v \in Items PROVE Pending(d, v)' <=> Pending(d, v)
    BY <2>1, <2>2, ItemsOfLoop, PendingFrame
  <2> QED BY <2>1, <2>3, RunsFrame
<1> QED BY <1>1, <1>2, <1>3 DEF Next
-----------------------------------------------------------------------------
(* The count of those that keep the pool active.                            *)

\* The runtimes that the pool counts as active, and those that bind.
Holders == {c \in Clients : index[c] >= 0 /\ pc[c] # "activate"}
Binders == {c \in Clients : bound[c] = "busy"}

\* A client is bound to its cores exactly from activation to deactivation of its affinity task.
LEMMA BindStep == TypeOK /\ BindInv /\ [Next]_vars => BindInv'
<1> SUFFICES ASSUME TypeOK, BindInv, [Next]_vars PROVE BindInv'
  OBVIOUS
<1> USE DEF poolVars, workerVars, clientVars
<1>1. ASSUME NEW c \in Clients, ClientCall(c) PROVE BindInv'
  <2>1. CASE Reset(c)
    BY <2>1 DEF Reset, BindInv, TypeOK
  <2>2. CASE Release(c) \/ Enqueue(c)
    BY <2>2 DEF Release, Enqueue, EnqueueEntry, BindInv, TypeOK
  <2>3. CASE Begin(c)
    <3>1. pc[c] = "user" /\ bound' = bound /\ \E p \in {"activate", "bind"} : pc' = [pc EXCEPT ![c] = p]
      BY <2>3 DEF Begin
    <3> QED BY <3>1 DEF BindInv, TypeOK
  <2>4. CASE End(c)
    <3>1. pc[c] = "user" /\ bound' = bound /\ \E p \in {"user", "deactivate"} : pc' = [pc EXCEPT ![c] = p]
      BY <2>4 DEF End, TypeOK
    <3> QED BY <3>1 DEF BindInv, TypeOK
  <2> QED BY <1>1, <2>1, <2>2, <2>3, <2>4 DEF ClientCall
<1>2. ASSUME NEW c \in Clients, ClientStep(c) PROVE BindInv'
  <2>1. CASE Activate(c) \/ Notify(c) \/ Deactivate(c)
    BY <2>1 DEF Activate, Notify, Deactivate, BindInv, TypeOK
  <2>2. CASE Bind(c) \/ BindNotify(c) \/ Unbind(c)
    BY <2>2 DEF Bind, BindNotify, EnqueueEntry, Unbind, BindInv, TypeOK
  <2>3. CASE RunInline(c) \/ SpinDone(c)
    BY <2>3 DEF RunInline, SpinDone, Return, BindInv, TypeOK
  <2>4. CASE WriteTask(c) \/ RaiseFlag(c) \/ RunOwnPart(c) \/ Spin(c)
    BY <2>4 DEF WriteTask, RaiseFlag, RunOwnPart, Spin, BindInv, TypeOK
  <2> QED BY <1>2, <2>1, <2>2, <2>3, <2>4 DEF ClientStep
<1>3. CASE \E w \in Workers : WorkerStep(w) \/ SpuriousWake(w)
  BY <1>3 DEF WorkerStep, TestStop, TestActive, ReadFlag, RunPart, ClearFlag, Wait, SpuriousWake, BindInv
<1>4. CASE Destroy \/ DestroyNotify \/ Join \/ UNCHANGED vars
  BY <1>4 DEF Destroy, DestroyNotify, Join, vars, BindInv
<1> QED BY <1>1, <1>2, <1>3, <1>4 DEF Next

\* A set of clients counts one more when a client joins it and one less when it leaves.
LEMMA CountClient ==
  ASSUME NEW S \in SUBSET Clients, NEW c \in Clients
  PROVE  /\ Cardinality(S) \in Nat
         /\ c \notin S => Cardinality(S \cup {c}) = Cardinality(S) + 1
         /\ c \in S => Cardinality(S \ {c}) = Cardinality(S) - 1
<1>1. IsFiniteSet(S)
  BY PoolAssumption, FS_Subset
<1> QED BY <1>1, FS_CardinalityType, FS_AddElement, FS_RemoveElement

\* mActiveCount follows the two sets.
LEMMA CountStep == TypeOK /\ OwnInv /\ BindInv /\ ActiveAccounting /\ [Next]_vars => ActiveAccounting'
<1> SUFFICES ASSUME TypeOK, OwnInv, BindInv, ActiveAccounting, [Next]_vars PROVE ActiveAccounting'
  OBVIOUS
<1> USE DEF poolVars, workerVars, clientVars
<1>0. /\ activeCount = Cardinality(Holders) + Cardinality(Binders)
      /\ Holders \in SUBSET Clients /\ Binders \in SUBSET Clients
  BY DEF ActiveAccounting, Holders, Binders
<1>i. \A c \in Clients : /\ index[c] \in Int /\ (index[c] >= 0 <=> index[c] \in Slots)
                         /\ index[c] < 0 <=> index[c] = -1
  BY PoolAssumption DEF TypeOK, Slots
<1>q. SUFFICES activeCount' = Cardinality(Holders') + Cardinality(Binders')
  BY DEF ActiveAccounting, Holders, Binders
<1>f. ASSUME activeCount' = activeCount,
             \A d \in Clients : /\ index'[d] >= 0 /\ pc'[d] # "activate"
                                     <=> index[d] >= 0 /\ pc[d] # "activate"
                                /\ bound'[d] = "busy" <=> bound[d] = "busy"
      PROVE  activeCount' = Cardinality(Holders') + Cardinality(Binders')
  <2>1. Holders' = Holders /\ Binders' = Binders
    BY <1>f DEF Holders, Binders
  <2> QED BY <1>0, <1>f, <2>1
<1>1. ASSUME NEW c \in Clients, ClientCall(c) PROVE activeCount' = Cardinality(Holders') + Cardinality(Binders')
  <2>1. CASE Reset(c) /\ phase = "none"
    <3>1. \A d \in Clients : index[d] = -1 /\ pc[d] = "user"
      <4>1. \A d \in Clients : pc[d] = "user" /\ depth[d] = 0 /\ RuntimeInv(d)
        BY <2>1 DEF OwnInv, PoolInUse, RuntimeInv
      <4>2. ASSUME NEW d \in Clients PROVE index[d] < 0
        <5>1. depth[d] = 0 /\ open[d] \in Nat /\ pc[d] = "user" /\ RuntimeInv(d)
          BY <4>1 DEF TypeOK
        <5>2. ~Owner(d)
          BY <5>1 DEF RuntimeInv
        <5> QED BY <1>i, <5>1, <5>2 DEF Owner
      <4> QED BY <4>1, <4>2, <1>i
    <3>2. Holders' = {}
      BY <2>1, <3>1 DEF Holders, Reset
    <3>3. Binders' = {}
      BY <2>1, <3>1 DEF Binders, Reset, BindInv, TypeOK
    <3> QED BY <2>1, <3>2, <3>3, FS_EmptySet DEF Reset
  <2>2. CASE Reset(c) /\ phase # "none"
    <3>1. UNCHANGED <<activeCount, index, pc>>
      BY <2>2 DEF Reset
    <3>2. \A d \in Clients : bound'[d] = "busy" <=> bound[d] = "busy"
      BY <2>2 DEF Reset, BindInv, TypeOK
    <3> QED BY <1>f, <3>1, <3>2
  <2>3. CASE Release(c) \/ Enqueue(c)
    <3>1. UNCHANGED <<activeCount, index, bound>> /\ \A d \in Clients : pc'[d] = "activate" <=> pc[d] = "activate"
      BY <2>3 DEF Release, Enqueue, EnqueueEntry, TypeOK
    <3> QED BY <1>f, <3>1
  <2>4. CASE Begin(c)
    <3>1. /\ UNCHANGED <<activeCount, bound>> /\ pc[c] = "user"
          /\ \/ index' = index /\ pc' = [pc EXCEPT ![c] = "bind"]
             \/ /\ index[c] < 0 /\ pc' = [pc EXCEPT ![c] = "activate"]
                /\ \E s \in Slots : index' = [index EXCEPT ![c] = s]
      BY <2>4 DEF Begin
    <3>2. \A d \in Clients : index'[d] >= 0 /\ pc'[d] # "activate" <=> index[d] >= 0 /\ pc[d] # "activate"
      BY <1>i, <3>1 DEF TypeOK
    <3> QED BY <1>f, <3>1, <3>2
  <2>5. CASE End(c)
    <3>1. UNCHANGED <<activeCount, index, bound>> /\ \A d \in Clients : pc'[d] = "activate" <=> pc[d] = "activate"
      BY <2>5 DEF End, TypeOK
    <3> QED BY <1>f, <3>1
  <2> QED BY <1>1, <2>1, <2>2, <2>3, <2>4, <2>5 DEF ClientCall
<1>2. ASSUME NEW c \in Clients, ClientStep(c) PROVE activeCount' = Cardinality(Holders') + Cardinality(Binders')
  <2>0. RuntimeInv(c)
    BY DEF OwnInv
  <2>1. CASE Activate(c)
    <3>1. index[c] >= 0 /\ c \notin Holders
      BY <2>0, <2>1, <1>i DEF Activate, RuntimeInv, Holders
    <3>2. Holders' = Holders \cup {c} /\ Binders' = Binders
      BY <2>1, <3>1 DEF Activate, Holders, Binders, TypeOK
    <3>3. /\ Cardinality(Holders') = Cardinality(Holders) + 1
          /\ Cardinality(Holders) \in Nat /\ Cardinality(Binders) \in Nat
      BY <1>0, <3>1, <3>2, CountClient
    <3>4. activeCount' = activeCount + 1
      BY <2>1 DEF Activate
    <3> QED BY <1>0, <3>2, <3>3, <3>4
  <2>2. CASE Deactivate(c)
    <3>1. c \in Holders
      BY <2>0, <2>2, <1>i DEF Deactivate, RuntimeInv, Holders
    <3>2. Holders' = Holders \ {c} /\ Binders' = Binders
      BY <2>2 DEF Deactivate, Holders, Binders, TypeOK
    <3>3. /\ Cardinality(Holders') = Cardinality(Holders) - 1
          /\ Cardinality(Holders) \in Nat /\ Cardinality(Binders) \in Nat
      BY <1>0, <3>1, <3>2, CountClient
    <3>4. activeCount' = activeCount - 1
      BY <2>2 DEF Deactivate
    <3> QED BY <1>0, <3>2, <3>3, <3>4
  <2>3. CASE Bind(c) /\ bound[c] = "no"
    <3>1. c \notin Binders
      BY <2>3 DEF Binders
    <3>2. Binders' = Binders \cup {c} /\ Holders' = Holders
      BY <2>3 DEF Bind, Holders, Binders, TypeOK
    <3>3. /\ Cardinality(Binders') = Cardinality(Binders) + 1
          /\ Cardinality(Holders) \in Nat /\ Cardinality(Binders) \in Nat
      BY <1>0, <3>1, <3>2, CountClient
    <3>4. activeCount' = activeCount + 1
      BY <2>3 DEF Bind
    <3> QED BY <1>0, <3>2, <3>3, <3>4
  <2>4. CASE Unbind(c)
    <3>1. c \in Binders
      BY <2>4 DEF Unbind, BindInv, Binders
    <3>2. Binders' = Binders \ {c} /\ Holders' = Holders
      BY <2>4 DEF Unbind, Holders, Binders, TypeOK
    <3>3. /\ Cardinality(Binders') = Cardinality(Binders) - 1
          /\ Cardinality(Holders) \in Nat /\ Cardinality(Binders) \in Nat
      BY <1>0, <3>1, <3>2, CountClient
    <3>4. activeCount' = activeCount - 1
      BY <2>4 DEF Unbind
    <3> QED BY <1>0, <3>2, <3>3, <3>4
  <2>5. CASE (Bind(c) /\ bound[c] # "no") \/ Notify(c) \/ BindNotify(c)
    <3>1. UNCHANGED <<activeCount, index, bound>> /\ \A d \in Clients : pc'[d] = "activate" <=> pc[d] = "activate"
      BY <2>5 DEF Bind, Notify, BindNotify, EnqueueEntry, TypeOK
    <3> QED BY <1>f, <3>1
  <2>6. CASE RunInline(c) \/ WriteTask(c) \/ RaiseFlag(c) \/ RunOwnPart(c) \/ Spin(c) \/ SpinDone(c)
    <3>1. UNCHANGED <<activeCount, index, bound>> /\ \A d \in Clients : pc'[d] = "activate" <=> pc[d] = "activate"
      BY <2>6 DEF RunInline, WriteTask, RaiseFlag, RunOwnPart, Spin, SpinDone, Return, TypeOK
    <3> QED BY <1>f, <3>1
  <2> QED BY <1>2, <2>1, <2>2, <2>3, <2>4, <2>5, <2>6 DEF ClientStep
<1>3. CASE \E w \in Workers : WorkerStep(w) \/ SpuriousWake(w)
  <2>1. UNCHANGED <<activeCount, index, bound, pc>>
    BY <1>3 DEF WorkerStep, TestStop, TestActive, ReadFlag, RunPart, ClearFlag, Wait, SpuriousWake
  <2> QED BY <1>f, <2>1
<1>4. CASE Destroy \/ DestroyNotify \/ Join \/ UNCHANGED vars
  <2>1. UNCHANGED <<activeCount, index, bound, pc>>
    BY <1>4 DEF Destroy, DestroyNotify, Join, vars
  <2> QED BY <1>f, <2>1
<1> QED BY <1>1, <1>2, <1>3, <1>4 DEF Next
-----------------------------------------------------------------------------
(* The theorems.                                                            *)

\* The strengthened invariant is inductive.
LEMMA InvInductive == (Init => IInv) /\ (IInv /\ [Next]_vars => IInv')
<1>1. ASSUME Init PROVE IInv
  <2>1. TypeOK /\ OwnInv
    BY <1>1, TypeInit, OwnInit
  <2>2. AliveInv
    BY <1>1 DEF Init, AliveInv, TaskInv, FlagInv, WorkInv, Waiting, AllDown
  <2>3. RunsInv
    <3>1. \A c \in Clients, v \in Items : runs[c][v] = 0 /\ size[c] = 0 /\ v \in Nat
      BY <1>1, <2>1, ItemsOfLoop DEF Init
    <3> QED BY <3>1 DEF RunsInv
  <2>4. BindInv
    BY <1>1 DEF Init, BindInv
  <2>5. Holders = {} /\ Binders = {} /\ activeCount = 0
    BY <1>1 DEF Init, Holders, Binders
  <2>6. ActiveAccounting
    BY <2>5, FS_EmptySet DEF ActiveAccounting, Holders, Binders
  <2> QED BY <2>1, <2>2, <2>3, <2>4, <2>6 DEF IInv
<1>2. IInv /\ [Next]_vars => IInv'
  BY TypeStep, OwnStep, AliveStep, RunsStep, BindStep, CountStep DEF IInv
<1> QED BY <1>1, <1>2

\* Every iteration of every loop runs exactly once before enqueue returns,
\* whichever threads run it and however they are scheduled.
THEOREM IterationsOnce == Spec => []ExactlyOnce
<1>1. IInv => ExactlyOnce
  <2> SUFFICES ASSUME IInv, NEW c \in Clients, NEW v \in Items
               PROVE  runs[c][v] <= 1 /\ (~InLoop(c) /\ v < size[c] => runs[c][v] = 1)
    BY DEF ExactlyOnce
  <2>1. runs[c][v] = IF v < size[c] /\ ~Pending(c, v) THEN 1 ELSE 0
    BY DEF IInv, RunsInv
  <2>2. ~InLoop(c) => ~Pending(c, v)
    BY DEF InLoop, Pending
  <2> QED BY <2>1, <2>2
<1> QED BY <1>1, InvInductive, PTL DEF Spec

\* mActiveCount is the number of runtimes and affinity tasks that need the workers awake.
THEOREM ActiveCounted == Spec => []ActiveAccounting
<1>1. IInv => ActiveAccounting
  BY DEF IInv
<1> QED BY <1>1, InvInductive, PTL DEF Spec

\* A runtime outside of every Begin .. End pair holds no slot and no nesting count.
THEOREM RuntimeBalanced == Spec => []BalancedRuntime
<1>1. IInv => BalancedRuntime
  <2> SUFFICES ASSUME IInv, NEW c \in Clients, depth[c] = 0, pc[c] = "user"
               PROVE  index[c] = -1 /\ open[c] = 0
    BY DEF BalancedRuntime
  <2>1. RuntimeInv(c) /\ TypeOK
    BY DEF IInv, OwnInv
  <2>2. open[c] = 0
    BY <2>1 DEF RuntimeInv, TypeOK
  <2>3. ~(index[c] >= 0)
    BY <2>1, <2>2 DEF RuntimeInv, Owner
  <2> QED BY <2>1, <2>2, <2>3, PoolAssumption DEF TypeOK, Slots
<1> QED BY <1>1, InvInductive, PTL DEF Spec

-----------------------------------------------------------------------------
(* The pool implements the parallel loop.                                   *)

\* Entering enqueue is the abstract Call.
LEMMA EntryIsCall ==
  ASSUME TypeOK, NEW c \in Clients, Enqueue(c) \/ BindNotify(c)
  PROVE  Loop!Call(c)
<1>1. PICK n \in Sizes : /\ size' = [size EXCEPT ![c] = n] /\ pc' = [pc EXCEPT ![c] = "enqueue"]
                         /\ runs' = [runs EXCEPT ![c] = [v \in Items |-> 0]]
                         /\ pc[c] \in {"user", "bindNotify"}
  BY DEF Enqueue, BindNotify, EnqueueEntry, Sizes
<1>2. \A d \in Clients : /\ InLoop(d)' <=> IF d = c THEN TRUE ELSE InLoop(d)
                         /\ {v \in Items : runs'[d][v] > 0}
                              = IF d = c THEN {} ELSE {v \in Items : runs[d][v] > 0}
  BY <1>1 DEF InLoop, TypeOK
<1>3. [d \in Clients |-> InLoop(d)'] = [[d \in Clients |-> InLoop(d)] EXCEPT ![c] = TRUE]
  <2>1. \A d \in Clients : InLoop(d) \in BOOLEAN /\ InLoop(d)' \in BOOLEAN
    BY DEF InLoop
  <2>2. \A d \in Clients : InLoop(d)' = IF d = c THEN TRUE ELSE InLoop(d)
    BY <1>2, <2>1
  <2> QED BY <2>2
<1>4. [d \in Clients |-> {v \in Items : runs'[d][v] > 0}]
        = [[d \in Clients |-> {v \in Items : runs[d][v] > 0}] EXCEPT ![c] = {}]
  BY <1>2
<1>5. ~InLoop(c)
  BY <1>1 DEF InLoop
<1> QED BY <1>1, <1>3, <1>4, <1>5 DEF Loop!Call

\* A group of iterations that runs once more is one that had not run.
LEMMA GroupIsRun ==
  ASSUME TypeOK, TypeOK', RunsInv', NEW c \in Clients, NEW S \in SUBSET (0..size[c] - 1),
         InLoop(c), runs' = Ran(c, S), size' = size,
         \A d \in Clients \ {c} : InLoop(d)' <=> InLoop(d)
  PROVE  Loop!Run(c)
<1> DEFINE RanOf(d) == {v \in Items : runs[d][v] > 0}
           After(d) == {v \in Items : runs'[d][v] > 0}
<1>1. S \subseteq Items /\ \A v \in Items : v \in 0..size[c] - 1 <=> v < size[c]
  BY ItemsOfLoop
<1>2. ASSUME NEW d \in Clients, NEW v \in Items
      PROVE  /\ runs'[d][v] = IF d = c /\ v \in S THEN runs[d][v] + 1 ELSE runs[d][v]
             /\ runs'[d][v] <= 1 /\ runs[d][v] \in Nat
  <2>1. runs'[d][v] = IF d = c /\ v \in S THEN runs[d][v] + 1 ELSE runs[d][v]
    BY RanAt
  <2>2. runs'[d][v] <= 1
    BY DEF RunsInv
  <2>3. runs[d][v] \in Nat
    BY DEF TypeOK
  <2> QED BY <2>1, <2>2, <2>3
<1>3. After(c) = RanOf(c) \cup S /\ \A d \in Clients \ {c} : After(d) = RanOf(d)
  <2>1. ASSUME NEW d \in Clients, NEW v \in Items
        PROVE  runs'[d][v] > 0 <=> runs[d][v] > 0 \/ (d = c /\ v \in S)
    <3>1. CASE d = c /\ v \in S
      BY <1>2, <3>1
    <3>2. CASE ~(d = c /\ v \in S)
      BY <1>2, <3>2
    <3> QED BY <3>1, <3>2
  <2>2. After(c) = RanOf(c) \cup S
    BY <1>1, <2>1
  <2>3. \A d \in Clients \ {c} : After(d) = RanOf(d)
    BY <2>1
  <2> QED BY <2>2, <2>3
<1>4. S \in SUBSET ((0..size[c] - 1) \ RanOf(c))
  <2>1. ASSUME NEW v \in S PROVE ~(runs[c][v] > 0)
    BY <1>1, <1>2
  <2> QED BY <2>1
<1>5. ~InLoop(c)' => After(c) = 0..size[c] - 1
  <2> SUFFICES ASSUME ~InLoop(c)' PROVE After(c) = 0..size[c] - 1
    OBVIOUS
  <2>1. \A v \in Items : ~Pending(c, v)'
    BY DEF Pending, InLoop
  <2>2. \A v \in Items : runs'[c][v] > 0 <=> v < size[c]
    BY <2>1 DEF RunsInv
  <2>3. 0..size[c] - 1 \subseteq Items
    BY ItemsOfLoop
  <2> QED BY <1>1, <2>2, <2>3
<1>6. [d \in Clients |-> After(d)] = [[d \in Clients |-> RanOf(d)] EXCEPT ![c] = @ \cup S]
  <2> HIDE DEF After, RanOf
  <2> QED BY <1>3
<1>7. \/ [d \in Clients |-> InLoop(d)'] = [d \in Clients |-> InLoop(d)]
      \/ /\ ~InLoop(c)'
         /\ [d \in Clients |-> InLoop(d)'] = [[d \in Clients |-> InLoop(d)] EXCEPT ![c] = FALSE]
  <2>0. \A d \in Clients : InLoop(d) \in BOOLEAN /\ InLoop(d)' \in BOOLEAN
    BY DEF InLoop
  <2>1. CASE InLoop(c)'
    <3>1. \A d \in Clients : InLoop(d)' = InLoop(d)
      BY <2>0, <2>1
    <3> QED BY <3>1
  <2>2. CASE ~InLoop(c)'
    <3>1. \A d \in Clients : InLoop(d)' = IF d = c THEN FALSE ELSE InLoop(d)
      BY <2>0, <2>2
    <3> QED BY <2>2, <3>1
  <2> QED BY <2>1, <2>2
<1> QED BY <1>4, <1>5, <1>6, <1>7, Zenon DEF Loop!Run

\* Steps that neither enter nor leave a loop nor run anything stutter.
LEMMA QuietIsStutter ==
  ASSUME UNCHANGED <<size, runs>>, \A d \in Clients : InLoop(d)' <=> InLoop(d)
  PROVE  UNCHANGED Loop!vars
<1>1. \A d \in Clients : InLoop(d) \in BOOLEAN /\ InLoop(d)' \in BOOLEAN
  BY DEF InLoop
<1>2. \A d \in Clients : InLoop(d)' = InLoop(d)
  BY <1>1
<1>3. [d \in Clients |-> InLoop(d)'] = [d \in Clients |-> InLoop(d)]
  BY <1>2
<1> QED BY <1>3 DEF Loop!vars
\* Every step of the pool, its workers and its clients is a step of the
\* abstract loop or stutters.
LEMMA StepRefines == IInv /\ IInv' /\ [Next]_vars => [Loop!Next]_Loop!vars
<1> SUFFICES ASSUME IInv, IInv', [Next]_vars PROVE [Loop!Next]_Loop!vars
  OBVIOUS
<1> USE DEF poolVars, workerVars, clientVars
<1>0. TypeOK /\ OwnInv /\ AliveInv /\ TypeOK' /\ RunsInv'
  BY DEF IInv
<1>1. ASSUME NEW c \in Clients, ClientCall(c) PROVE [Loop!Next]_Loop!vars
  <2>1. CASE Enqueue(c)
    BY <1>0, <2>1, EntryIsCall DEF Loop!Next
  <2>2. CASE Reset(c) \/ Release(c) \/ Begin(c) \/ End(c)
    <3>1. UNCHANGED <<size, runs>> /\ pc[c] = "user"
          /\ \E p \in {"user", "activate", "bind", "deactivate"} : pc' = [pc EXCEPT ![c] = p]
      BY <1>0, <2>2 DEF Reset, Release, Begin, End, TypeOK
    <3>2. \A d \in Clients : InLoop(d)' <=> InLoop(d)
      BY <1>0, <3>1 DEF InLoop, TypeOK
    <3> QED BY <3>1, <3>2, QuietIsStutter
  <2> QED BY <1>1, <2>1, <2>2 DEF ClientCall
<1>2. ASSUME NEW c \in Clients, ClientStep(c) PROVE [Loop!Next]_Loop!vars
  <2>1. CASE BindNotify(c)
    BY <1>0, <2>1, EntryIsCall DEF Loop!Next
  <2>2. CASE Activate(c) \/ Notify(c) \/ Bind(c) \/ Unbind(c) \/ Deactivate(c)
             \/ WriteTask(c) \/ RaiseFlag(c) \/ Spin(c)
    <3>1. UNCHANGED <<size, runs>> /\ \A d \in Clients : InLoop(d)' <=> InLoop(d)
      <4>1. CASE Activate(c) \/ Notify(c) \/ Bind(c) \/ Unbind(c) \/ Deactivate(c)
        BY <1>0, <4>1 DEF Activate, Notify, Bind, Unbind, Deactivate, InLoop, TypeOK
      <4>2. CASE WriteTask(c) \/ RaiseFlag(c) \/ Spin(c)
        BY <1>0, <4>2 DEF WriteTask, RaiseFlag, Spin, InLoop, TypeOK
      <4> QED BY <2>2, <4>1, <4>2
    <3> QED BY <3>1, QuietIsStutter
  <2>3. CASE RunInline(c)
    <3>1. InLoop(c) /\ size' = size /\ \A d \in Clients \ {c} : InLoop(d)' <=> InLoop(d)
      BY <1>0, <2>3 DEF RunInline, Return, InLoop, TypeOK
    <3>2. runs' = Ran(c, 0..size[c] - 1)
      BY <2>3 DEF RunInline
    <3>3. Loop!Run(c)
      BY <1>0, <3>1, <3>2, GroupIsRun
    <3> QED BY <3>3 DEF Loop!Next
  <2>4. CASE RunOwnPart(c)
    <3>1. InLoop(c) /\ size' = size /\ \A d \in Clients \ {c} : InLoop(d)' <=> InLoop(d)
      BY <1>0, <2>4 DEF RunOwnPart, InLoop, TypeOK
    <3>2. runs' = Ran(c, Part(0, size[c])) /\ Part(0, size[c]) \in SUBSET (0..size[c] - 1)
      BY <2>4 DEF RunOwnPart, Part
    <3>3. Loop!Run(c)
      BY <1>0, <3>1, <3>2, GroupIsRun
    <3> QED BY <3>3 DEF Loop!Next
  <2>5. CASE SpinDone(c)
    <3>1. InLoop(c) /\ size' = size /\ \A d \in Clients \ {c} : InLoop(d)' <=> InLoop(d)
      BY <1>0, <2>5 DEF SpinDone, Return, InLoop, TypeOK
    <3>2. runs' = Ran(c, {}) /\ {} \in SUBSET (0..size[c] - 1)
      BY <1>0, <2>5 DEF SpinDone, Ran, TypeOK
    <3>3. Loop!Run(c)
      BY <1>0, <3>1, <3>2, GroupIsRun
    <3> QED BY <3>3 DEF Loop!Next
  <2> QED BY <1>2, <2>1, <2>2, <2>3, <2>4, <2>5 DEF ClientStep
<1>3. ASSUME NEW w \in Workers, RunPart(w) PROVE [Loop!Next]_Loop!vars
  <2>1. /\ wpc[w] = "exec" /\ UNCHANGED <<pc, size>>
        /\ scan[w] \in Slots
    BY <1>0, <1>3 DEF RunPart, Go, TypeOK
  <2>2. PICK c \in Clients : Waiting(c) /\ index[c] = scan[w]
    BY <1>0, <2>1 DEF AliveInv, WorkInv, FlagInv
  <2>3. task[scan[w]] = [by |-> c, size |-> size[c]]
    BY <1>0, <2>2, WaitingFacts
  <2>4. task[scan[w]].by = c /\ task[scan[w]].size = size[c]
    BY <2>3
  <2>5. runs' = Ran(c, Part(w, size[c])) /\ Part(w, size[c]) \in SUBSET (0..size[c] - 1)
    BY <1>3, <2>4 DEF RunPart, Part
  <2>6. InLoop(c) /\ \A d \in Clients \ {c} : InLoop(d)' <=> InLoop(d)
    BY <2>1, <2>2 DEF InLoop, Waiting
  <2>7. Loop!Run(c)
    BY <1>0, <2>1, <2>5, <2>6, GroupIsRun
  <2> QED BY <2>7 DEF Loop!Next
<1>4. ASSUME NEW w \in Workers,
             TestStop(w) \/ TestActive(w) \/ ReadFlag(w) \/ ClearFlag(w) \/ Wait(w) \/ SpuriousWake(w)
      PROVE  [Loop!Next]_Loop!vars
  <2>1. UNCHANGED <<size, runs, pc>>
    BY <1>4 DEF TestStop, TestActive, ReadFlag, ClearFlag, Wait, SpuriousWake
  <2> QED BY <2>1, QuietIsStutter DEF InLoop
<1>5. CASE Destroy \/ DestroyNotify \/ Join \/ UNCHANGED vars
  <2>1. UNCHANGED <<size, runs, pc>>
    BY <1>5 DEF Destroy, DestroyNotify, Join, vars
  <2> QED BY <2>1, QuietIsStutter DEF InLoop
<1> QED BY <1>1, <1>2, <1>3, <1>4, <1>5 DEF Next, WorkerStep

\* The pool, with any number of clients, threads and slots, is the parallel
\* loop the kernels are written against: a loop returns only after all of its
\* iterations, none of which has run before.
THEOREM PoolImplementsLoop == Spec => ImplementsParallelFor
<1>1. Init => Loop!Init
  <2> SUFFICES ASSUME Init PROVE Loop!Init
    OBVIOUS
  <2>1. [c \in Clients |-> InLoop(c)] = [c \in Clients |-> FALSE]
    <3>1. \A c \in Clients : InLoop(c) = FALSE
      BY DEF Init, InLoop
    <3> QED BY <3>1
  <2>2. [c \in Clients |-> {v \in Items : runs[c][v] > 0}] = [c \in Clients |-> {}]
    BY DEF Init
  <2> QED BY <2>1, <2>2 DEF Init, Loop!Init
<1> QED BY <1>1, InvInductive, StepRefines, PTL DEF Spec, ImplementsParallelFor, Loop!Spec
=============================================================================
