----------------------------- MODULE Maps_proofs -----------------------------
(***************************************************************************)
(* Proofs about the maps for any keys, maps, goroutines and times.  About  *)
(* ConcurrentMap:                                                          *)
(*   MapTypeCorrect     types, and who holds which mutex;                  *)
(*   LockOrderCorrect   mutexes are taken in the order of the addresses;   *)
(*   SnapshotCorrect    a merge copies the source as it is.                *)
(* About ExpirationMap:                                                    *)
(*   ImplementsMap      the map with the values is a ConcurrentMap, so     *)
(*   MergesInOrder      what is proved of ConcurrentMap                    *)
(*   MergesAreSnapshots holds of it;                                       *)
(*   NeverEarlyCorrect  the cleaner removes nothing before its deadline,   *)
(*                      save what is renewed while it removes it;          *)
(*   ExpirationCorrect  the type invariant, and: what SetExpired stored    *)
(*                      keeps its deadline, so that it is removed one day. *)
(***************************************************************************)
EXTENDS ExpirationMap, TLAPS, SequenceTheorems

-----------------------------------------------------------------------------
\* The mutexes.  A call takes its mutexes in the order of the addresses and
\* holds those it needs for what it does.

Planned(c, l) == \E i \in 1..Len(plan[c]) : plan[c][i] = l

LockTypes ==
  /\ writer \in [Addrs -> Clients \cup {None}]
  /\ readers \in [Addrs -> SUBSET Clients]
  /\ plan \in [Clients -> Seq(Locks)]
  /\ DOMAIN job = Clients

PlanOrder ==
  \A c \in Clients :
    /\ \A i, j \in 1..Len(plan[c]) : i < j => plan[c][i].map < plan[c][j].map
    /\ \A i \in 1..Len(plan[c]), a \in Addrs : Holds(c, a) => a < plan[c][i].map

IdleClean ==
  \A c \in Clients : Idle(c) => plan[c] = <<>> /\ \A a \in Addrs : ~Holds(c, a)

LockInv == LockTypes /\ PlanOrder /\ IdleClean

\* Every call of the maps begins in one of three ways.
Begins(c, j, locks) ==
  \/ \E a \in Addrs :
        /\ locks = <<Lock(a)>> /\ j.dst = a /\ j.src = None /\ j.copied = {}
  \/ \E a, b \in Addrs :
        /\ a # b /\ j.dst = a /\ j.src = b /\ j.copied = {}
        /\ locks = IF a < b THEN <<Lock(a), RLock(b)>> ELSE <<RLock(b), Lock(a)>>

LEMMA CallShape ==
  ASSUME NEW c \in Clients, StartCall(c)
  PROVE  \E j, locks : Begins(c, j, locks) /\ Call(c, j, locks)
<1>1. PICK a \in Addrs :
        \/ \E k \in Keys : Delete(c, a, k) \/ \E v \in Vals : Set(c, a, k, v)
        \/ \E m \in Batches : MergeMap(c, a, m)
        \/ \E src \in Addrs : Merge(c, a, src) \/ MergeCopy(c, a, src)
  BY DEF StartCall
<1>3. ASSUME NEW k \in Keys, Delete(c, a, k)
      PROVE  \E j, locks : Begins(c, j, locks) /\ Call(c, j, locks)
  <2> DEFINE j == [NoJob EXCEPT !.dst = a, !.del = {k}]
  <2>1. j.dst = a /\ j.src = None /\ j.copied = {}
    BY DEF NoJob
  <2>2. Call(c, j, <<Lock(a)>>)
    BY <1>3 DEF Delete
  <2> QED
    BY <2>1, <2>2 DEF Begins
<1>4. ASSUME NEW k \in Keys, NEW v \in Vals, Set(c, a, k, v)
      PROVE  \E j, locks : Begins(c, j, locks) /\ Call(c, j, locks)
  <2> DEFINE j == [NoJob EXCEPT !.dst = a, !.data = MapSet(EmptyMap, k, v)]
  <2>1. j.dst = a /\ j.src = None /\ j.copied = {}
    BY DEF NoJob
  <2>2. Call(c, j, <<Lock(a)>>)
    BY <1>4 DEF Set
  <2> QED
    BY <2>1, <2>2 DEF Begins
<1>5. ASSUME NEW m \in Batches, MergeMap(c, a, m)
      PROVE  \E j, locks : Begins(c, j, locks) /\ Call(c, j, locks)
  <2> DEFINE j == [NoJob EXCEPT !.dst = a, !.data = m]
  <2>1. j.dst = a /\ j.src = None /\ j.copied = {}
    BY DEF NoJob
  <2>2. Call(c, j, <<Lock(a)>>)
    BY <1>5 DEF MergeMap
  <2> QED
    BY <2>1, <2>2 DEF Begins
<1>6. ASSUME NEW src \in Addrs, MergeCopy(c, a, src)
      PROVE  \E j, locks : Begins(c, j, locks) /\ Call(c, j, locks)
  <2> DEFINE j == [NoJob EXCEPT !.dst = a, !.data = content[src]]
  <2>1. j.dst = a /\ j.src = None /\ j.copied = {}
    BY DEF NoJob
  <2>2. Call(c, j, <<Lock(a)>>)
    BY <1>6 DEF MergeCopy
  <2> QED
    BY <2>1, <2>2 DEF Begins
<1>7. ASSUME NEW src \in Addrs, Merge(c, a, src)
      PROVE  \E j, locks : Begins(c, j, locks) /\ Call(c, j, locks)
  <2> DEFINE j == [NoJob EXCEPT !.dst = a, !.src = src]
  <2>1. j.dst = a /\ j.src = src /\ j.copied = {}
    BY DEF NoJob
  <2>2. a # src /\ Call(c, j, MergeLocks(a, src))
    BY <1>7 DEF Merge
  <2> QED
    BY <2>1, <2>2 DEF Begins, MergeLocks
<1> QED
  BY <1>1, <1>3, <1>4, <1>5, <1>6, <1>7

LEMMA LockInit == MapInit => LockInv
<1> SUFFICES ASSUME MapInit
             PROVE  LockInv
  OBVIOUS
<1>1. \A c \in Clients : plan[c] = <<>> /\ \A a \in Addrs : ~Holds(c, a)
  BY MapAssumption DEF MapInit, Holds
<1>2. \A c \in Clients : Len(plan[c]) = 0
  BY <1>1
<1> QED
  BY <1>1, <1>2 DEF MapInit, LockInv, LockTypes, PlanOrder, IdleClean

\* A call begins: it holds nothing yet, and its plan is in order.
LEMMA LockBegin ==
  ASSUME LockInv, NEW c \in Clients, NEW j, NEW locks, Begins(c, j, locks), Call(c, j, locks)
  PROVE  LockInv'
<1>1. plan[c] = <<>> /\ (\A a \in Addrs : ~Holds(c, a)) /\ UNCHANGED <<writer, readers>>
      /\ plan' = [plan EXCEPT ![c] = locks] /\ job' = [job EXCEPT ![c] = j]
  BY DEF LockInv, IdleClean, Call, lockVars
<1>2. locks \in Seq(Locks)
      /\ \A i, k \in 1..Len(locks) : i < k => locks[i].map < locks[k].map
  <2>1. ASSUME NEW a \in Addrs, locks = <<Lock(a)>>
        PROVE  <1>2!1 /\ <1>2!2
    BY <2>1 DEF Locks
  <2>2. ASSUME NEW a \in Addrs, NEW b \in Addrs, a # b,
               locks = IF a < b THEN <<Lock(a), RLock(b)>> ELSE <<RLock(b), Lock(a)>>
        PROVE  <1>2!1 /\ <1>2!2
    <3>1. a \in Nat /\ b \in Nat
      BY MapAssumption
    <3>2. CASE a < b
      <4>1. locks = <<Lock(a), RLock(b)>> /\ Lock(a) \in Locks /\ RLock(b) \in Locks
        BY <2>2, <3>1, <3>2 DEF Locks
      <4>2. Len(locks) = 2 /\ locks[1] = Lock(a) /\ locks[2] = RLock(b) /\ locks \in Seq(Locks)
        BY <4>1
      <4>3. Lock(a).map < RLock(b).map
        BY <3>1, <3>2 DEF Lock, RLock
      <4>4. \A i, k \in 1..Len(locks) : i < k => i = 1 /\ k = 2
        BY <4>2
      <4> QED
        BY <4>2, <4>3, <4>4
    <3>3. CASE b < a
      <4>1. locks = <<RLock(b), Lock(a)>> /\ RLock(b) \in Locks /\ Lock(a) \in Locks
        BY <2>2, <3>1, <3>3 DEF Locks
      <4>2. Len(locks) = 2 /\ locks[1] = RLock(b) /\ locks[2] = Lock(a) /\ locks \in Seq(Locks)
        BY <4>1
      <4>3. RLock(b).map < Lock(a).map
        BY <3>1, <3>3 DEF Lock, RLock
      <4>4. \A i, k \in 1..Len(locks) : i < k => i = 1 /\ k = 2
        BY <4>2
      <4> QED
        BY <4>2, <4>3, <4>4
    <3> QED
      BY <2>2, <3>1, <3>2, <3>3
  <2> QED
    BY <2>1, <2>2 DEF Begins
<1>3. LockTypes'
  BY <1>1, <1>2 DEF LockInv, LockTypes
<1>4. \A d \in Clients, a \in Addrs : Holds(d, a)' <=> Holds(d, a)
  BY <1>1 DEF Holds
<1>5. \A d \in Clients : d # c => plan'[d] = plan[d] /\ job'[d] = job[d]
  BY <1>1 DEF LockInv, LockTypes
<1>6. plan'[c] = locks
  BY <1>1 DEF LockInv, LockTypes
<1>7. j # NoJob
  BY MapAssumption DEF Begins, NoJob
<1>8. IdleClean'
  BY <1>1, <1>4, <1>5, <1>7 DEF LockInv, LockTypes, IdleClean, Idle
<1>9. PlanOrder'
  BY <1>1, <1>2, <1>4, <1>5, <1>6 DEF LockInv, PlanOrder
<1> QED
  BY <1>3, <1>8, <1>9 DEF LockInv

\* A mutex is taken: it is the next of the plan, below the others.
LEMMA LockTake ==
  ASSUME LockInv, NEW c \in Clients, plan[c] # <<>>,
         plan' = [plan EXCEPT ![c] = Tail(@)], UNCHANGED job,
         \/ /\ writer' = [writer EXCEPT ![Head(plan[c]).map] = c] /\ UNCHANGED readers
         \/ /\ readers' = [readers EXCEPT ![Head(plan[c]).map] = @ \cup {c}] /\ UNCHANGED writer,
         writer[Head(plan[c]).map] = None
  PROVE  LockInv'
<1> DEFINE l == Head(plan[c])
<1>1. plan[c] \in Seq(Locks) /\ Len(plan[c]) \in Nat
  BY DEF LockInv, LockTypes
<1>2. /\ l = plan[c][1] /\ 1 \in 1..Len(plan[c]) /\ Tail(plan[c]) \in Seq(Locks)
      /\ \A i \in 1..Len(Tail(plan[c])) :
            i + 1 \in 1..Len(plan[c]) /\ Tail(plan[c])[i] = plan[c][i + 1]
  BY <1>1, HeadTailProperties
<1>3. l.map \in Addrs /\ l.map \in Nat
  <2>1. l \in Locks
    BY <1>1, <1>2, ElementOfSeq
  <2> QED
    BY <2>1, MapAssumption DEF Locks, Lock, RLock
<1>4. \A i \in 1..Len(Tail(plan[c])) : l.map < Tail(plan[c])[i].map
  BY <1>1, <1>2 DEF LockInv, PlanOrder
<1>5. plan'[c] = Tail(plan[c]) /\ \A d \in Clients : d # c => plan'[d] = plan[d]
  BY DEF LockInv, LockTypes
<1> HIDE DEF l
<1>6. LockTypes'
  <2>1. plan' \in [Clients -> Seq(Locks)] /\ DOMAIN job' = Clients
    BY <1>2 DEF LockInv, LockTypes
  <2>2. writer' \in [Addrs -> Clients \cup {None}]
    BY <1>3 DEF LockInv, LockTypes, l
  <2>3. readers' \in [Addrs -> SUBSET Clients]
    <3>1. readers[l.map] \cup {c} \in SUBSET Clients
      BY <1>3 DEF LockInv, LockTypes
    <3> QED
      BY <1>3, <3>1 DEF LockInv, LockTypes, l
  <2> QED
    BY <2>1, <2>2, <2>3 DEF LockTypes
<1>7. \A d \in Clients, a \in Addrs :
        Holds(d, a)' => Holds(d, a) \/ (d = c /\ a = Head(plan[c]).map)
  BY <1>3, MapAssumption DEF Holds, LockInv, LockTypes, l
<1>8. PlanOrder'
  <2>1. ASSUME NEW d \in Clients, NEW i \in 1..Len(plan'[d]), NEW k \in 1..Len(plan'[d]), i < k
        PROVE  plan'[d][i].map < plan'[d][k].map
    <3>1. CASE d # c
      BY <1>5, <2>1, <3>1 DEF LockInv, PlanOrder
    <3>2. CASE d = c
      <4>1. i \in 1..Len(Tail(plan[c])) /\ k \in 1..Len(Tail(plan[c]))
        BY <1>5, <2>1, <3>2
      <4>2. i + 1 \in 1..Len(plan[c]) /\ k + 1 \in 1..Len(plan[c])
            /\ plan'[d][i] = plan[c][i + 1] /\ plan'[d][k] = plan[c][k + 1]
        BY <1>2, <1>5, <3>2, <4>1
      <4>a. i + 1 < k + 1
        BY <2>1, <4>1
      <4>3. plan[c][i + 1].map < plan[c][k + 1].map
        BY <4>2, <4>a DEF LockInv, PlanOrder
      <4> QED
        BY <4>2, <4>3
    <3> QED
      BY <3>1, <3>2
  <2>2. ASSUME NEW d \in Clients, NEW i \in 1..Len(plan'[d]), NEW a \in Addrs, Holds(d, a)'
        PROVE  a < plan'[d][i].map
    <3>1. CASE d # c
      BY <1>5, <1>7, <2>2, <3>1 DEF LockInv, PlanOrder
    <3>2. CASE d = c /\ Holds(d, a)
      BY <1>2, <1>5, <2>2, <3>2 DEF LockInv, PlanOrder
    <3>3. CASE d = c /\ a = Head(plan[c]).map
      BY <1>4, <1>5, <2>2, <3>3 DEF l
    <3> QED
      BY <1>7, <2>2, <3>1, <3>2, <3>3
  <2> QED
    BY <2>1, <2>2 DEF PlanOrder
<1>9. IdleClean'
  <2>1. ~Idle(c)
    BY DEF LockInv, IdleClean
  <2> QED
    BY <1>5, <1>7, <2>1 DEF LockInv, IdleClean, Idle
<1> QED
  BY <1>6, <1>8, <1>9 DEF LockInv

\* Anything that keeps the mutexes and the plans keeps the invariant.
LEMMA LockKeep ==
  ASSUME LockInv, UNCHANGED <<writer, readers, plan>>, DOMAIN job' = Clients,
         \A c \in Clients : ~Idle(c) => ~Idle(c)'
  PROVE  LockInv'
<1>1. \A d \in Clients, a \in Addrs : Holds(d, a)' <=> Holds(d, a)
  BY DEF Holds
<1>2. LockTypes' /\ PlanOrder'
  BY <1>1 DEF LockInv, LockTypes, PlanOrder
<1>3. IdleClean'
  BY <1>1 DEF LockInv, IdleClean
<1> QED
  BY <1>2, <1>3 DEF LockInv

LEMMA LockStep == LockInv /\ [MapNext]_mapVars => LockInv'
<1> SUFFICES ASSUME LockInv, [MapNext]_mapVars
             PROVE  LockInv'
  OBVIOUS
<1>0. DOMAIN job = Clients
  BY DEF LockInv, LockTypes
<1>1. ASSUME NEW c \in Clients, StartCall(c) PROVE LockInv'
  BY <1>1, CallShape, LockBegin
<1>2. ASSUME NEW c \in Clients, Announce(c) PROVE LockInv'
  <2>1. UNCHANGED <<writer, readers, plan, job>>
    BY <1>2 DEF Announce
  <2> QED
    BY <1>0, <2>1, LockKeep DEF Idle
<1>3. ASSUME NEW c \in Clients, AcquireLock(c) PROVE LockInv'
  <2>1. /\ plan[c] # <<>> /\ plan' = [plan EXCEPT ![c] = Tail(@)] /\ UNCHANGED <<job, readers>>
        /\ writer' = [writer EXCEPT ![Head(plan[c]).map] = c] /\ writer[Head(plan[c]).map] = None
    BY <1>3 DEF AcquireLock
  <2> QED
    BY <2>1, LockTake
<1>4. ASSUME NEW c \in Clients, AcquireRLock(c) PROVE LockInv'
  <2>1. /\ plan[c] # <<>> /\ plan' = [plan EXCEPT ![c] = Tail(@)] /\ UNCHANGED <<job, writer>>
        /\ readers' = [readers EXCEPT ![Head(plan[c]).map] = @ \cup {c}]
        /\ writer[Head(plan[c]).map] = None
    BY <1>4 DEF AcquireRLock, Readable
  <2> QED
    BY <2>1, LockTake
<1>5. ASSUME NEW c \in Clients, CopyKey(c) PROVE LockInv'
  <2>1. UNCHANGED <<writer, readers, plan>> /\ ~Idle(c)
        /\ \E k : job' = [job EXCEPT ![c].copied = @ \cup {k}]
    BY <1>5 DEF CopyKey, lockVars
  <2>2. DOMAIN job' = Clients /\ job'[c].dst = job[c].dst /\ job'[c].src = job[c].src
        /\ \A d \in Clients : d # c => job'[d] = job[d]
    BY <1>0, <2>1
  <2>3. ~Idle(c)'
    BY <1>5, <2>2 DEF CopyKey, Idle, NoJob
  <2> QED
    BY <2>1, <2>2, <2>3, LockKeep DEF Idle
<1>6. ASSUME NEW c \in Clients, Finish(c) PROVE LockInv'
  <2>1. /\ plan' = plan /\ plan[c] = <<>> /\ job' = [job EXCEPT ![c] = NoJob]
        /\ writer' = [a \in Addrs |-> IF writer[a] = c THEN None ELSE writer[a]]
        /\ readers' = [a \in Addrs |-> readers[a] \ {c}]
    BY <1>6 DEF Finish, Release
  <2>2. LockTypes'
    BY <1>0, <2>1 DEF LockInv, LockTypes
  <2>3. \A d \in Clients, a \in Addrs : Holds(d, a)' => Holds(d, a) /\ d # c
    BY <2>1, MapAssumption DEF Holds, LockInv, LockTypes
  <2>4. \A d \in Clients : d # c => job'[d] = job[d]
    BY <1>0, <2>1
  <2>5. PlanOrder'
    BY <2>1, <2>3 DEF LockInv, PlanOrder
  <2>6. IdleClean'
    BY <2>1, <2>3, <2>4 DEF LockInv, IdleClean, Idle
  <2> QED
    BY <2>2, <2>5, <2>6 DEF LockInv
<1>7. CASE UNCHANGED mapVars
  BY <1>0, <1>7, LockKeep DEF mapVars, lockVars, Idle
<1> QED
  BY <1>1, <1>2, <1>3, <1>4, <1>5, <1>6, <1>7 DEF MapNext, Proceed

LEMMA LockOrderHolds == LockInv => LockOrder
<1> SUFFICES ASSUME LockInv, NEW c \in Clients, plan[c] # <<>>, NEW a \in Addrs, Holds(c, a)
             PROVE  a < Head(plan[c]).map
  BY DEF LockOrder
<1>1. plan[c] \in Seq(Locks)
  BY DEF LockInv, LockTypes
<1>2. Head(plan[c]) = plan[c][1] /\ 1 \in 1..Len(plan[c])
  BY <1>1, HeadTailProperties
<1> QED
  BY <1>2 DEF LockInv, PlanOrder

\* Merges of any maps into each other never wait in a circle: whoever waits
\* for a mutex waits above all it holds (mergeOther, map.go:104-127).
THEOREM LockOrderCorrect == MapSpec => []LockOrder
  BY LockInit, LockStep, LockOrderHolds, PTL DEF MapSpec

-----------------------------------------------------------------------------
\* Types.

LEMMA MapsOfIntro ==
  ASSUME NEW Ks, NEW Vs, NEW m, m = [x \in DOMAIN m |-> m[x]], DOMAIN m \subseteq Ks,
         \A x \in DOMAIN m : m[x] \in Vs
  PROVE  m \in MapsOf(Ks, Vs)
<1>1. m \in [DOMAIN m -> Vs]
  OBVIOUS
<1> QED
  BY <1>1 DEF MapsOf

LEMMA MapsOfElim ==
  ASSUME NEW Ks, NEW Vs, NEW m \in MapsOf(Ks, Vs)
  PROVE  /\ m = [x \in DOMAIN m |-> m[x]] /\ DOMAIN m \subseteq Ks
         /\ \A x \in DOMAIN m : m[x] \in Vs
<1>1. PICK D \in SUBSET Ks : m \in [D -> Vs]
  BY DEF MapsOf
<1> QED
  BY <1>1

LEMMA EmptyMapType ==
  ASSUME NEW Ks, NEW Vs
  PROVE  EmptyMap \in MapsOf(Ks, Vs)
<1>1. DOMAIN EmptyMap = {} /\ EmptyMap = [x \in DOMAIN EmptyMap |-> EmptyMap[x]]
  BY DEF EmptyMap
<1> QED
  BY <1>1, MapsOfIntro

LEMMA MapSetType ==
  ASSUME NEW Ks, NEW Vs, NEW m \in MapsOf(Ks, Vs), NEW k \in Ks, NEW v \in Vs
  PROVE  MapSet(m, k, v) \in MapsOf(Ks, Vs)
<1> DEFINE n == MapSet(m, k, v)
<1>1. DOMAIN n = DOMAIN m \cup {k} /\ n = [x \in DOMAIN n |-> n[x]]
      /\ \A x \in DOMAIN n : n[x] = IF x = k THEN v ELSE m[x]
  BY DEF MapSet
<1>2. DOMAIN m \subseteq Ks /\ \A x \in DOMAIN m : m[x] \in Vs
  BY MapsOfElim
<1> HIDE DEF n
<1>3. n \in MapsOf(Ks, Vs)
  BY <1>1, <1>2, MapsOfIntro
<1> QED
  BY <1>3 DEF n

LEMMA MapMergeType ==
  ASSUME NEW Ks, NEW Vs, NEW m \in MapsOf(Ks, Vs), NEW o \in MapsOf(Ks, Vs), NEW X
  PROVE  [k \in DOMAIN MapMerge(m, o) \ X |-> MapMerge(m, o)[k]] \in MapsOf(Ks, Vs)
<1> DEFINE n == [k \in DOMAIN MapMerge(m, o) \ X |-> MapMerge(m, o)[k]]
<1>1. DOMAIN n = (DOMAIN m \cup DOMAIN o) \ X /\ n = [x \in DOMAIN n |-> n[x]]
      /\ \A x \in DOMAIN n : n[x] = IF x \in DOMAIN o THEN o[x] ELSE m[x]
  BY DEF MapMerge
<1>2. DOMAIN m \subseteq Ks /\ \A x \in DOMAIN m : m[x] \in Vs
  BY MapsOfElim
<1>3. DOMAIN o \subseteq Ks /\ \A x \in DOMAIN o : o[x] \in Vs
  BY MapsOfElim
<1> HIDE DEF n
<1>4. n \in MapsOf(Ks, Vs)
  BY <1>1, <1>2, <1>3, MapsOfIntro
<1> QED
  BY <1>4 DEF n

\* Who waits in Lock waits for the next mutex of its plan.
PendingNext ==
  \A c \in Clients, a \in Addrs :
    c \in pending[a] => plan[c] # <<>> /\ Head(plan[c]) = Lock(a)

MapInv == MapTypeOK /\ LockInv /\ PendingNext

LEMMA NoJobType == NoJob \in Jobs
  BY EmptyMapType DEF NoJob, Jobs

LEMMA MapTypeInit == MapInit => MapInv
<1> SUFFICES ASSUME MapInit
             PROVE  MapInv
  OBVIOUS
<1>1. content \in [Addrs -> MapsOf(Keys, Vals)]
  BY MapAssumption DEF MapInit
<1>2. LockInv
  BY LockInit
<1>3. pending \in [Addrs -> SUBSET Clients] /\ \A a \in Addrs : pending[a] = {}
  BY DEF MapInit
<1>4. job \in [Clients -> Jobs]
  BY NoJobType DEF MapInit
<1>5. \A a \in Addrs : \A c \in Clients :
        writer[a] = c \/ c \in readers[a] \cup pending[a] => ~Idle(c)
  BY <1>2, <1>3 DEF LockInv, IdleClean, Holds
<1> QED
  BY <1>1, <1>2, <1>3, <1>4, <1>5 DEF MapInv, MapTypeOK, LockInv, LockTypes, PendingNext

\* What is left to show of the types once the mutexes are in order.
LEMMA MapTypeFrom ==
  ASSUME LockInv', PendingNext', content' \in [Addrs -> MapsOf(Keys, Vals)],
         pending' \in [Addrs -> SUBSET Clients], job' \in [Clients -> Jobs]
  PROVE  MapInv'
<1>1. \A a \in Addrs, c \in Clients : (Holds(c, a) \/ c \in pending[a])' => ~Idle(c)'
  BY DEF LockInv, IdleClean, PendingNext
<1>2. (\A a \in Addrs : \A c \in Clients :
        writer[a] = c \/ c \in readers[a] \cup pending[a] => ~Idle(c))'
  BY <1>1 DEF Holds
<1> QED
  BY <1>2 DEF MapInv, MapTypeOK, LockInv, LockTypes

LEMMA CallJob ==
  ASSUME MapInv, NEW c \in Clients, StartCall(c)
  PROVE  job' \in [Clients -> Jobs]
<1> DEFINE M == MapsOf(Keys, Vals)
<1>1. job \in [Clients -> Jobs] /\ content \in [Addrs -> M]
  BY DEF MapInv, MapTypeOK
<1>2. PICK a \in Addrs :
        \/ \E k \in Keys : Delete(c, a, k) \/ \E v \in Vals : Set(c, a, k, v)
        \/ \E m \in Batches : MergeMap(c, a, m)
        \/ \E src \in Addrs : Merge(c, a, src) \/ MergeCopy(c, a, src)
  BY DEF StartCall
<1>3. ASSUME NEW j \in Jobs, NEW locks, Call(c, j, locks) PROVE job' \in [Clients -> Jobs]
  BY <1>1, <1>3 DEF Call
<1>4. \A k \in Keys : [NoJob EXCEPT !.dst = a, !.del = {k}] \in Jobs
  BY NoJobType DEF Jobs
<1>5. ASSUME NEW d \in M PROVE [NoJob EXCEPT !.dst = a, !.data = d] \in Jobs
  BY <1>5, NoJobType DEF Jobs
<1>6. \A b \in Addrs : [NoJob EXCEPT !.dst = a, !.src = b] \in Jobs
  BY NoJobType DEF Jobs
<1>7. \A k \in Keys, v \in Vals : MapSet(EmptyMap, k, v) \in M
  BY EmptyMapType, MapSetType
<1>8. \A m \in Batches : m \in M
  BY MapAssumption
<1> HIDE DEF M
<1>9. ASSUME NEW k \in Keys, Delete(c, a, k) PROVE job' \in [Clients -> Jobs]
  BY <1>3, <1>4, <1>9 DEF Delete
<1>10. ASSUME NEW k \in Keys, NEW v \in Vals, Set(c, a, k, v) PROVE job' \in [Clients -> Jobs]
  BY <1>3, <1>5, <1>7, <1>10 DEF Set
<1>11. ASSUME NEW m \in Batches, MergeMap(c, a, m) PROVE job' \in [Clients -> Jobs]
  BY <1>3, <1>5, <1>8, <1>11 DEF MergeMap
<1>12. ASSUME NEW src \in Addrs, Merge(c, a, src) PROVE job' \in [Clients -> Jobs]
  BY <1>3, <1>6, <1>12 DEF Merge
<1>13. ASSUME NEW src \in Addrs, MergeCopy(c, a, src) PROVE job' \in [Clients -> Jobs]
  <2>1. content[src] \in M
    BY <1>1
  <2> QED
    BY <1>3, <1>5, <1>13, <2>1 DEF MergeCopy
<1> QED
  BY <1>2, <1>9, <1>10, <1>11, <1>12, <1>13

LEMMA MapTypeStep == MapInv /\ [MapNext]_mapVars => MapInv'
<1> SUFFICES ASSUME MapInv, [MapNext]_mapVars
             PROVE  MapInv'
  OBVIOUS
<1>0. /\ content \in [Addrs -> MapsOf(Keys, Vals)] /\ pending \in [Addrs -> SUBSET Clients]
      /\ job \in [Clients -> Jobs] /\ DOMAIN plan = Clients
  BY DEF MapInv, MapTypeOK
<1>a. LockInv'
  BY LockStep DEF MapInv
<1>b. \A c \in Clients, a \in Addrs :
        c \in pending[a] => plan[c] # <<>> /\ Head(plan[c]) = Lock(a) /\ ~Idle(c)
  BY DEF MapInv, PendingNext, MapTypeOK
<1>1. ASSUME NEW c \in Clients, StartCall(c) PROVE MapInv'
  <2>1. PICK j, locks : Call(c, j, locks)
    BY <1>1, CallShape
  <2>2. UNCHANGED <<content, pending>> /\ Idle(c) /\ plan' = [plan EXCEPT ![c] = locks]
    BY <2>1 DEF Call, lockVars
  <2>3. PendingNext'
    BY <1>0, <1>b, <2>2 DEF PendingNext
  <2> QED
    BY <1>0, <1>1, <1>a, <2>2, <2>3, CallJob, MapTypeFrom
<1>2. ASSUME NEW c \in Clients, Announce(c) PROVE MapInv'
  <2> DEFINE a == Head(plan[c]).map
  <2>1. /\ plan[c] # <<>> /\ Head(plan[c]).kind = "Lock" /\ UNCHANGED <<content, plan, job>>
        /\ pending' = [pending EXCEPT ![a] = @ \cup {c}]
    BY <1>2 DEF Announce
  <2>2. Head(plan[c]) \in Locks
    BY <2>1, HeadTailProperties DEF MapInv, MapTypeOK
  <2>3. Head(plan[c]) = Lock(a) /\ a \in Addrs
    BY <2>1, <2>2 DEF Locks, Lock, RLock
  <2> HIDE DEF a
  <2>4. pending' \in [Addrs -> SUBSET Clients]
    BY <1>0, <2>1, <2>3
  <2>5. PendingNext'
    BY <1>0, <1>b, <2>1, <2>3 DEF PendingNext
  <2> QED
    BY <1>0, <1>a, <2>1, <2>4, <2>5, MapTypeFrom
<1>3. ASSUME NEW c \in Clients, AcquireLock(c) PROVE MapInv'
  <2> DEFINE a == Head(plan[c]).map
  <2>1. /\ plan[c] # <<>> /\ UNCHANGED <<content, job>>
        /\ pending' = [pending EXCEPT ![a] = @ \ {c}]
        /\ plan' = [plan EXCEPT ![c] = Tail(@)]
    BY <1>3 DEF AcquireLock
  <2>2. ASSUME NEW b \in Addrs, c \in pending[b] PROVE b = a
    <3>1. Head(plan[c]) = Lock(b)
      BY <1>b, <2>2
    <3> QED
      BY <3>1 DEF Lock
  <2> HIDE DEF a
  <2>3. pending' \in [Addrs -> SUBSET Clients]
    BY <1>0, <2>1
  <2>4. ASSUME NEW d \in Clients, NEW b \in Addrs, d \in pending'[b]
        PROVE  plan'[d] # <<>> /\ Head(plan'[d]) = Lock(b)
    <3>0. d \in pending[b] /\ (d = c => b # a)
      BY <1>0, <2>1, <2>2, <2>4
    <3>1. d # c /\ plan'[d] = plan[d]
      BY <1>0, <2>1, <2>2, <3>0
    <3> QED
      BY <1>b, <3>0, <3>1
  <2>p. PendingNext'
    BY <2>4 DEF PendingNext
  <2> QED
    BY <1>0, <1>a, <2>1, <2>3, <2>p, MapTypeFrom
<1>4. ASSUME NEW c \in Clients, AcquireRLock(c) PROVE MapInv'
  <2>1. /\ plan[c] # <<>> /\ Head(plan[c]).kind = "RLock" /\ UNCHANGED <<content, job, pending>>
        /\ plan' = [plan EXCEPT ![c] = Tail(@)]
    BY <1>4 DEF AcquireRLock
  <2>2. ASSUME NEW b \in Addrs, c \in pending[b] PROVE FALSE
    <3>1. Head(plan[c]) = Lock(b)
      BY <1>b, <2>2
    <3> QED
      BY <2>1, <3>1 DEF Lock
  <2>3. ASSUME NEW d \in Clients, NEW b \in Addrs, d \in pending'[b]
        PROVE  plan'[d] # <<>> /\ Head(plan'[d]) = Lock(b)
    <3>0. d \in pending[b] /\ (d = c => b # b)
      BY <1>0, <2>1, <2>2, <2>3
    <3>1. d # c /\ plan'[d] = plan[d]
      BY <1>0, <2>1, <2>2, <3>0
    <3> QED
      BY <1>b, <3>0, <3>1
  <2>p. PendingNext'
    BY <2>3 DEF PendingNext
  <2> QED
    BY <1>0, <1>a, <2>1, <2>p, MapTypeFrom
<1>5. ASSUME NEW c \in Clients, CopyKey(c) PROVE MapInv'
  <2>1. PICK k \in DOMAIN Source(c) :
          /\ content' = [content EXCEPT ![job[c].dst] = MapSet(@, k, Source(c)[k])]
          /\ job' = [job EXCEPT ![c].copied = @ \cup {k}]
    BY <1>5 DEF CopyKey
  <2>2. job[c] \in Jobs
    BY <1>0
  <2>3. Source(c) \in MapsOf(Keys, Vals)
    <3>1. job[c].data \in MapsOf(Keys, Vals) /\ job[c].src \in Addrs \cup {None}
      BY <2>2 DEF Jobs
    <3> QED
      BY <1>0, <3>1 DEF Source
  <2>4. k \in Keys /\ Source(c)[k] \in Vals
    BY <2>3, MapsOfElim
  <2>5. content' \in [Addrs -> MapsOf(Keys, Vals)]
    BY <1>0, <2>1, <2>4, MapSetType
  <2>6. [job[c] EXCEPT !.copied = @ \cup {k}] \in Jobs
    BY <2>2, <2>4 DEF Jobs
  <2>7. job' \in [Clients -> Jobs]
    BY <1>0, <2>1, <2>6
  <2>8. PendingNext' /\ UNCHANGED pending
    BY <1>5 DEF CopyKey, lockVars, MapInv, PendingNext
  <2> QED
    BY <1>0, <1>a, <2>5, <2>7, <2>8, MapTypeFrom
<1>6. ASSUME NEW c \in Clients, Finish(c) PROVE MapInv'
  <2>1. UNCHANGED <<pending, plan>> /\ job' = [job EXCEPT ![c] = NoJob]
    BY <1>6 DEF Finish
  <2>2. job[c].data \in MapsOf(Keys, Vals)
    BY <1>0 DEF Jobs
  <2>3. \/ content' = content
        \/ content' = [content EXCEPT ![job[c].dst] =
              [k \in DOMAIN MapMerge(@, job[c].data) \ job[c].del |-> MapMerge(@, job[c].data)[k]]]
    BY <1>6 DEF Finish
  <2>4. content' \in [Addrs -> MapsOf(Keys, Vals)]
    <3> DEFINE F(m) == [k \in DOMAIN MapMerge(m, job[c].data) \ job[c].del |-> MapMerge(m, job[c].data)[k]]
    <3>1. \A m \in MapsOf(Keys, Vals) : F(m) \in MapsOf(Keys, Vals)
      BY <2>2, MapMergeType
    <3>2. content' = content \/ content' = [content EXCEPT ![job[c].dst] = F(content[job[c].dst])]
      BY <2>3
    <3> HIDE DEF F
    <3> QED
      BY <1>0, <3>1, <3>2
  <2>5. job' \in [Clients -> Jobs] /\ PendingNext'
    BY <1>0, <2>1, NoJobType DEF MapInv, PendingNext
  <2> QED
    BY <1>0, <1>a, <2>1, <2>4, <2>5, MapTypeFrom
<1>7. CASE UNCHANGED mapVars
  BY <1>0, <1>7, <1>a, MapTypeFrom DEF mapVars, lockVars, MapInv, PendingNext
<1> QED
  BY <1>1, <1>2, <1>3, <1>4, <1>5, <1>6, <1>7 DEF MapNext, Proceed

\* Every reachable state is well typed, and who holds a mutex or waits for one
\* is inside a call: no method returns with its mutex (the deferred Unlocks of
\* map.go).
THEOREM MapTypeCorrect == MapSpec => []MapTypeOK
<1>1. MapInv => MapTypeOK
  BY DEF MapInv
<1> QED
  BY <1>1, MapTypeInit, MapTypeStep, PTL DEF MapSpec

-----------------------------------------------------------------------------
\* Merges.  A call has the mutex it needs or has it in its plan, and nobody is
\* inside a mutex that is held for writing.

HasDst(c) == writer[job[c].dst] = c \/ Planned(c, Lock(job[c].dst))
HasSrc(c) == c \in readers[job[c].src] \/ Planned(c, RLock(job[c].src))

CopiedOK(c) ==
  \A k \in job[c].copied :
    /\ MapHas(content[job[c].src], k)
    /\ MapHas(content[job[c].dst], k)
    /\ content[job[c].dst][k] = content[job[c].src][k]

Guarded(c) ==
  /\ job[c].dst \in Addrs /\ HasDst(c)
  /\ job[c].src # None => /\ job[c].src \in Addrs /\ job[c].src # job[c].dst
                          /\ HasSrc(c) /\ CopiedOK(c)
  /\ plan[c] # <<>> => job[c].copied = {}

Exclusive == \A a \in Addrs : writer[a] # None => readers[a] = {}

SnapInv == Exclusive /\ \A c \in Clients : ~Idle(c) => Guarded(c)

LEMMA SnapInit == MapInit => SnapInv
  BY DEF MapInit, SnapInv, Exclusive, Idle

\* With an empty plan the mutexes are held.
LEMMA AtWork ==
  ASSUME SnapInv, NEW c \in Clients, ~Idle(c), plan[c] = <<>>
  PROVE  /\ job[c].dst \in Addrs /\ writer[job[c].dst] = c
         /\ job[c].src # None => job[c].src \in Addrs /\ c \in readers[job[c].src]
<1>1. \A l : ~Planned(c, l)
  BY DEF Planned
<1> QED
  BY <1>1 DEF SnapInv, Guarded, HasDst, HasSrc

LEMMA SnapshotHolds == SnapInv => MergeIsSnapshot
  BY DEF SnapInv, Guarded, CopiedOK, MergeIsSnapshot, Source

\* Nothing a client relies on is touched by the steps of another one that
\* leaves the maps this client holds alone.
LEMMA OthersKeep ==
  ASSUME NEW d \in Clients, Guarded(d), plan'[d] = plan[d], job'[d] = job[d],
         writer[job[d].dst] = d => writer'[job[d].dst] = d,
         d \in readers[job[d].src] => d \in readers'[job[d].src],
         plan[d] = <<>> => /\ content'[job[d].dst] = content[job[d].dst]
                           /\ job[d].src # None => content'[job[d].src] = content[job[d].src]
  PROVE  Guarded(d)'
<1>1. \A l : Planned(d, l)' <=> Planned(d, l)
  BY DEF Planned
<1>2. HasDst(d)' /\ (job[d].src # None => HasSrc(d)')
  BY <1>1 DEF Guarded, HasDst, HasSrc
<1>3. job[d].src # None => CopiedOK(d)'
  BY DEF Guarded, CopiedOK, MapHas
<1> QED
  BY <1>2, <1>3 DEF Guarded

\* The next mutex of a plan is taken, the others stay planned.
LEMMA PlanTail ==
  ASSUME NEW c, plan[c] \in Seq(Locks), plan[c] # <<>>, plan'[c] = Tail(plan[c]),
         NEW l, Planned(c, l)
  PROVE  l = Head(plan[c]) \/ Planned(c, l)'
<1>1. PICK i \in 1..Len(plan[c]) : plan[c][i] = l
  BY DEF Planned
<1>2. Head(plan[c]) = plan[c][1] /\ Len(plan'[c]) = Len(plan[c]) - 1
      /\ \A k \in 1..Len(plan'[c]) : plan'[c][k] = plan[c][k + 1]
  BY HeadTailProperties
<1>3. CASE i = 1
  BY <1>1, <1>2, <1>3
<1>4. CASE i # 1
  <2>1. i - 1 \in 1..Len(plan'[c]) /\ plan'[c][i - 1] = l
    BY <1>1, <1>2, <1>4
  <2> QED
    BY <2>1 DEF Planned
<1> QED
  BY <1>3, <1>4

LEMMA SnapStep == MapInv /\ SnapInv /\ [MapNext]_mapVars => SnapInv'
<1> SUFFICES ASSUME MapInv, SnapInv, [MapNext]_mapVars
             PROVE  SnapInv'
  OBVIOUS
<1>0. /\ content \in [Addrs -> MapsOf(Keys, Vals)] /\ job \in [Clients -> Jobs]
      /\ plan \in [Clients -> Seq(Locks)] /\ writer \in [Addrs -> Clients \cup {None}]
      /\ readers \in [Addrs -> SUBSET Clients]
  BY DEF MapInv, MapTypeOK
<1>a. Exclusive /\ \A c \in Clients : ~Idle(c) => Guarded(c)
  BY DEF SnapInv
<1>1. ASSUME NEW c \in Clients, StartCall(c) PROVE SnapInv'
  <2>1. PICK j, locks : Begins(c, j, locks) /\ Call(c, j, locks)
    BY <1>1, CallShape
  <2>2. /\ UNCHANGED <<content, writer, readers>> /\ Idle(c)
        /\ plan' = [plan EXCEPT ![c] = locks] /\ job' = [job EXCEPT ![c] = j]
    BY <2>1 DEF Call, lockVars
  <2>3. plan'[c] = locks /\ job'[c] = j
        /\ \A d \in Clients : d # c => plan'[d] = plan[d] /\ job'[d] = job[d]
    BY <1>0, <2>2
  <2>4. Guarded(c)'
    <3>1. ASSUME NEW a \in Addrs, locks = <<Lock(a)>>, j.dst = a, j.src = None, j.copied = {}
          PROVE  Guarded(c)'
      <4>1. Planned(c, Lock(a))'
        BY <2>3, <3>1 DEF Planned
      <4> QED
        BY <2>3, <3>1, <4>1 DEF Guarded, HasDst
    <3>2. ASSUME NEW a \in Addrs, NEW b \in Addrs, a # b, j.dst = a, j.src = b, j.copied = {},
                 locks = IF a < b THEN <<Lock(a), RLock(b)>> ELSE <<RLock(b), Lock(a)>>
          PROVE  Guarded(c)'
      <4>1. Planned(c, Lock(a))' /\ Planned(c, RLock(b))'
        <5>1. locks = <<Lock(a), RLock(b)>> \/ locks = <<RLock(b), Lock(a)>>
          BY <3>2
        <5>2. Len(locks) = 2 /\ 1 \in 1..Len(locks) /\ 2 \in 1..Len(locks)
          BY <5>1
        <5>3. \/ locks[1] = Lock(a) /\ locks[2] = RLock(b)
              \/ locks[1] = RLock(b) /\ locks[2] = Lock(a)
          BY <5>1
        <5>4. plan'[c] = locks
          BY <2>3
        <5> QED
          BY <5>2, <5>3, <5>4 DEF Planned
      <4>2. CopiedOK(c)'
        BY <2>3, <3>2 DEF CopiedOK
      <4> QED
        BY <2>3, <3>2, <4>1, <4>2 DEF Guarded, HasDst, HasSrc
    <3> QED
      BY <2>1, <3>1, <3>2 DEF Begins
  <2>5. ASSUME NEW d \in Clients, d # c, ~Idle(d)' PROVE Guarded(d)'
    <3>1. ~Idle(d)
      BY <2>3, <2>5 DEF Idle
    <3> QED
      BY <1>a, <2>2, <2>3, <2>5, <3>1, OthersKeep
  <2> QED
    BY <1>a, <2>2, <2>4, <2>5 DEF SnapInv, Exclusive
<1>2. ASSUME NEW c \in Clients, AcquireLock(c) \/ AcquireRLock(c) PROVE SnapInv'
  <2> DEFINE l == Head(plan[c])
  <2>1. plan[c] # <<>> /\ plan' = [plan EXCEPT ![c] = Tail(@)] /\ UNCHANGED <<content, job>>
    BY <1>2 DEF AcquireLock, AcquireRLock
  <2>2. plan'[c] = Tail(plan[c]) /\ \A d \in Clients : d # c => plan'[d] = plan[d]
    BY <1>0, <2>1
  <2>3. \/ /\ l.kind = "Lock" /\ writer[l.map] = None /\ readers[l.map] = {}
           /\ writer' = [writer EXCEPT ![l.map] = c] /\ UNCHANGED readers
        \/ /\ l.kind = "RLock" /\ writer[l.map] = None
           /\ readers' = [readers EXCEPT ![l.map] = @ \cup {c}] /\ UNCHANGED writer
    BY <1>2 DEF AcquireLock, AcquireRLock, Readable
  <2>4. \A a \in Addrs : /\ l = Lock(a) => writer'[a] = c
                         /\ l = RLock(a) => c \in readers'[a]
    BY <1>0, <2>3 DEF Lock, RLock
  <2>5. \A d \in Clients, a \in Addrs : /\ writer[a] = d => writer'[a] = d
                                        /\ d \in readers[a] => d \in readers'[a]
    BY <1>0, <2>3, MapAssumption
  <2>6. Exclusive'
    BY <1>0, <1>a, <2>3 DEF Exclusive
  <2>7. ~Idle(c) /\ Guarded(c) /\ job[c].copied = {}
    BY <1>a, <2>1 DEF MapInv, LockInv, IdleClean, Guarded
  <2>8. \A x : Planned(c, x) => x = l \/ Planned(c, x)'
    BY <1>0, <2>1, <2>2, PlanTail
  <2> HIDE DEF l
  <2>9. job[c].dst \in Addrs /\ HasDst(c)'
    BY <2>1, <2>4, <2>5, <2>7, <2>8 DEF Guarded, HasDst
  <2>10. job[c].src # None => HasSrc(c)'
    BY <2>1, <2>4, <2>5, <2>7, <2>8 DEF Guarded, HasSrc
  <2>11. Guarded(c)'
    BY <2>1, <2>7, <2>9, <2>10 DEF Guarded, CopiedOK
  <2>12. ASSUME NEW d \in Clients, d # c, ~Idle(d)' PROVE Guarded(d)'
    <3>1. ~Idle(d) /\ Guarded(d)
      BY <1>a, <2>1, <2>12 DEF Idle
    <3>2. job[d].dst \in Addrs /\ (job[d].src # None => job[d].src \in Addrs)
      BY <3>1 DEF Guarded
    <3>3. job[d].src # None => Guarded(d)'
      BY <2>1, <2>2, <2>5, <2>12, <3>1, <3>2, OthersKeep
    <3>4. job[d].src = None => Guarded(d)'
      <4>1. \A x : Planned(d, x)' <=> Planned(d, x)
        BY <2>2, <2>12 DEF Planned
      <4> QED
        BY <2>1, <2>2, <2>5, <2>12, <3>1, <3>2, <4>1 DEF Guarded, HasDst
    <3> QED
      BY <3>3, <3>4
  <2> QED
    BY <2>6, <2>11, <2>12 DEF SnapInv
<1>3. ASSUME NEW c \in Clients, CopyKey(c) PROVE SnapInv'
  <2>1. /\ ~Idle(c) /\ plan[c] = <<>> /\ job[c].src # None
        /\ UNCHANGED <<writer, readers, plan>>
    BY <1>3 DEF CopyKey, lockVars
  <2>2. PICK k \in DOMAIN Source(c) :
          /\ content' = [content EXCEPT ![job[c].dst] = MapSet(@, k, Source(c)[k])]
          /\ job' = [job EXCEPT ![c].copied = @ \cup {k}]
    BY <1>3 DEF CopyKey
  <2>3. Guarded(c) /\ job[c].dst \in Addrs /\ writer[job[c].dst] = c
        /\ job[c].src \in Addrs /\ c \in readers[job[c].src] /\ job[c].src # job[c].dst
    BY <1>a, <2>1, AtWork DEF Guarded
  <2>4. Source(c) = content[job[c].src]
    BY <2>1 DEF Source
  <2>5. job[c] \in Jobs
    BY <1>0
  <2>6. /\ job'[c].dst = job[c].dst /\ job'[c].src = job[c].src
        /\ job'[c].copied = job[c].copied \cup {k}
    BY <1>0, <2>2, <2>5 DEF Jobs
  <2>7. \A d \in Clients : d # c => job'[d] = job[d]
    BY <1>0, <2>2
  <2>8. content'[job[c].dst] = MapSet(content[job[c].dst], k, content[job[c].src][k])
        /\ \A a \in Addrs : a # job[c].dst => content'[a] = content[a]
    BY <1>0, <2>2, <2>3, <2>4
  <2>9. CopiedOK(c)'
    <3>1. SUFFICES ASSUME NEW x \in job'[c].copied
                   PROVE  /\ MapHas(content'[job[c].src], x) /\ MapHas(content'[job[c].dst], x)
                          /\ content'[job[c].dst][x] = content'[job[c].src][x]
      BY <2>6 DEF CopiedOK
    <3>2. content'[job[c].src] = content[job[c].src]
      BY <2>3, <2>8
    <3>3. CASE x = k
      BY <2>2, <2>4, <2>8, <3>2, <3>3 DEF MapHas, MapSet
    <3>4. CASE x # k
      <4>1. /\ MapHas(content[job[c].src], x) /\ MapHas(content[job[c].dst], x)
            /\ content[job[c].dst][x] = content[job[c].src][x]
        BY <2>1, <2>3, <2>6, <3>1, <3>4 DEF Guarded, CopiedOK
      <4> QED
        BY <2>8, <3>2, <3>4, <4>1 DEF MapHas, MapSet
    <3> QED
      BY <3>3, <3>4
  <2>10. Guarded(c)'
    <3>1. HasDst(c)' /\ HasSrc(c)'
      BY <2>1, <2>3, <2>6 DEF HasDst, HasSrc
    <3> QED
      BY <2>1, <2>3, <2>6, <2>9, <3>1 DEF Guarded
  <2>11. ASSUME NEW d \in Clients, d # c, ~Idle(d)' PROVE Guarded(d)'
    <3>1. ~Idle(d) /\ Guarded(d) /\ job'[d] = job[d]
      BY <1>a, <2>7, <2>11 DEF Idle
    <3>2. ASSUME plan[d] = <<>>
          PROVE  /\ job[d].dst \in Addrs /\ job[d].dst # job[c].dst
                 /\ job[d].src # None => job[d].src \in Addrs /\ job[d].src # job[c].dst
      <4>1. /\ job[d].dst \in Addrs /\ writer[job[d].dst] = d
            /\ job[d].src # None => job[d].src \in Addrs /\ d \in readers[job[d].src]
        BY <3>1, <3>2, AtWork
      <4>2. readers[job[c].dst] = {}
        BY <1>a, <2>3, MapAssumption DEF Exclusive
      <4> QED
        BY <2>3, <2>11, <4>1, <4>2
    <3>3. plan[d] = <<>> => /\ content'[job[d].dst] = content[job[d].dst]
                            /\ job[d].src # None => content'[job[d].src] = content[job[d].src]
      BY <2>8, <3>2
    <3> QED
      BY <2>1, <3>1, <3>3, OthersKeep
  <2> QED
    BY <1>a, <2>1, <2>10, <2>11 DEF SnapInv, Exclusive
<1>4. ASSUME NEW c \in Clients, Finish(c) PROVE SnapInv'
  <2>1. /\ ~Idle(c) /\ plan[c] = <<>> /\ plan' = plan /\ job' = [job EXCEPT ![c] = NoJob]
        /\ writer' = [a \in Addrs |-> IF writer[a] = c THEN None ELSE writer[a]]
        /\ readers' = [a \in Addrs |-> readers[a] \ {c}]
    BY <1>4 DEF Finish, Release
  <2>2. job[c].dst \in Addrs /\ writer[job[c].dst] = c
    BY <2>1, AtWork
  <2>3. \A a \in Addrs : a # job[c].dst => content'[a] = content[a]
    BY <1>0, <1>4 DEF Finish
  <2>4. \A d \in Clients : d # c => job'[d] = job[d]
    BY <1>0, <2>1
  <2>5. Idle(c)'
    BY <1>0, <2>1 DEF Idle
  <2>6. ASSUME NEW d \in Clients, ~Idle(d)' PROVE Guarded(d)'
    <3>1. d # c /\ ~Idle(d) /\ Guarded(d) /\ job'[d] = job[d]
      BY <1>a, <2>4, <2>5, <2>6 DEF Idle
    <3>2. ASSUME plan[d] = <<>>
          PROVE  /\ job[d].dst \in Addrs /\ job[d].dst # job[c].dst
                 /\ job[d].src # None => job[d].src \in Addrs /\ job[d].src # job[c].dst
      <4>1. /\ job[d].dst \in Addrs /\ writer[job[d].dst] = d
            /\ job[d].src # None => job[d].src \in Addrs /\ d \in readers[job[d].src]
        BY <3>1, <3>2, AtWork
      <4>2. readers[job[c].dst] = {}
        BY <1>a, <2>2, MapAssumption DEF Exclusive
      <4> QED
        BY <2>2, <3>1, <4>1, <4>2
    <3>3. plan[d] = <<>> => /\ content'[job[d].dst] = content[job[d].dst]
                            /\ job[d].src # None => content'[job[d].src] = content[job[d].src]
      BY <2>3, <3>2
    <3>4. job[d].dst \in Addrs /\ (job[d].src # None => job[d].src \in Addrs)
      BY <3>1 DEF Guarded
    <3>5. writer[job[d].dst] = d => writer'[job[d].dst] = d
      BY <2>1, <3>1, <3>4
    <3>6. CASE job[d].src # None
      <4>1. d \in readers[job[d].src] => d \in readers'[job[d].src]
        BY <2>1, <3>1, <3>4, <3>6
      <4> QED
        BY <2>1, <3>1, <3>3, <3>5, <4>1, OthersKeep
    <3>7. CASE job[d].src = None
      <4>1. \A x : Planned(d, x)' <=> Planned(d, x)
        BY <2>1 DEF Planned
      <4> QED
        BY <2>1, <3>1, <3>5, <3>7, <4>1 DEF Guarded, HasDst
    <3> QED
      BY <3>6, <3>7
  <2>7. Exclusive'
    BY <1>a, <2>1 DEF Exclusive
  <2> QED
    BY <2>6, <2>7 DEF SnapInv
<1>5. ASSUME UNCHANGED <<content, writer, readers, plan, job>> PROVE SnapInv'
  BY <1>5 DEF SnapInv, Exclusive, Idle, Guarded, HasDst, HasSrc, CopiedOK, Planned, MapHas
<1> QED
  BY <1>1, <1>2, <1>3, <1>4, <1>5 DEF MapNext, Proceed, Announce, mapVars, lockVars

\* While a map is merged into another, nobody changes either of them, so that
\* the destination ends with the entries the source has (map.go:104-127).
THEOREM SnapshotCorrect == MapSpec => []MergeIsSnapshot
  BY MapTypeInit, MapTypeStep, SnapInit, SnapStep, SnapshotHolds, PTL DEF MapSpec


-----------------------------------------------------------------------------
\* The expiration map uses its map as a ConcurrentMap.

LEMMA MapStep == [Next]_vars => [MapNext]_mapVars
<1> SUFFICES ASSUME [Next]_vars
             PROVE  [MapNext]_mapVars
  OBVIOUS
<1>1. ASSUME NEW c \in users, UserStep(c) PROVE [MapNext]_mapVars
  <2>1. c \in Clients
    BY DEF users
  <2>2. ASSUME NEW k \in Keys, NEW v \in Vals, NEW d \in Durations, SetExpired(c, k, v, d)
        PROVE  MapNext
    <3>1. Set(c, Inner, k, v)
      BY <2>2 DEF SetExpired
    <3> QED
      BY <2>1, <3>1, ExpirationAssumption DEF MapNext, StartCall
  <2>3. CASE UserCall(c)
    BY <2>1, <2>3 DEF UserCall, MapNext
  <2>4. CASE Get(c) \/ Destroy(c)
    BY <2>4 DEF Get, Destroy
  <2> QED
    BY <1>1, <2>2, <2>3, <2>4 DEF UserStep
<1>2. ASSUME NEW c \in Clients, Inside(c) PROVE [MapNext]_mapVars
  BY <1>2 DEF Inside, MapNext
<1>3. ASSUME NEW k \in Keys, CleanerCheck(k) PROVE [MapNext]_mapVars
  <2>1. Delete(Cleaner, Inner, k) \/ UNCHANGED mapVars
    BY <1>3 DEF CleanerCheck
  <2> QED
    BY <2>1, ExpirationAssumption DEF MapNext, StartCall
<1>4. CASE Tick \/ CleanerTick \/ CleanerEnd \/ CleanerDeleted \/ CleanerForget \/ CleanerStop
  BY <1>4 DEF Tick, CleanerTick, CleanerEnd, CleanerDeleted, CleanerForget, CleanerStop
<1>5. CASE UNCHANGED vars
  BY <1>5 DEF vars
<1> QED
  BY <1>1, <1>2, <1>3, <1>4, <1>5 DEF Next, CleanerStep

\* The users and the cleaner use the map with the values only through the
\* methods of ConcurrentMap (expirationmap.go:57-67, 97-106).
THEOREM ImplementsMap == Spec => MapSpec
<1>1. Init => MapInit
  BY DEF Init
<1> QED
  BY <1>1, MapStep, PTL DEF Spec, MapSpec

\* The cleaner and the merges of the users take their mutexes in one order
\* (map.go:104-127 below expirationmap.go:104).
THEOREM MergesInOrder == Spec => []LockOrder
  BY ImplementsMap, LockOrderCorrect, PTL

\* The cleaner deletes nothing from under a merge (expirationmap.go:104 against
\* map.go:104-127).
THEOREM MergesAreSnapshots == Spec => []MergeIsSnapshot
  BY ImplementsMap, SnapshotCorrect, PTL

-----------------------------------------------------------------------------
\* The deadlines.  While the cleaner deletes a key, the deadline it has read is
\* the one of the key, or the key was renewed meanwhile.

DueInv ==
  /\ now \in Nat
  /\ ~Idle(Cleaner) => cleaner = "delete" /\ job[Cleaner].del = {current}
  /\ cleaner = "delete" /\ current \notin raced =>
        current \in DOMAIN expired /\ expired[current] \in Int /\ expired[current] <= now
  /\ \A k \in DOMAIN expired : expired[k] \in Nat

LEMMA DueInit == Init => DueInv
<1> SUFFICES ASSUME Init
             PROVE  DueInv
  OBVIOUS
<1>1. Idle(Cleaner)
  BY ExpirationAssumption DEF Init, MapInit, Idle
<1>2. DOMAIN expired = {}
  BY DEF Init, EmptyMap
<1> QED
  BY <1>1, <1>2 DEF Init, DueInv

\* What the users do with the map leaves the job of the cleaner alone.
LEMMA UserJob ==
  ASSUME MapInv, NEW c \in users, StartCall(c)
  PROVE  job'[Cleaner] = job[Cleaner]
<1>1. PICK j, locks : Call(c, j, locks)
  BY CallShape DEF users
<1> QED
  BY <1>1, ExpirationAssumption DEF Call, users, MapInv, MapTypeOK

LEMMA DueStep == MapInv /\ DueInv /\ [Next]_vars => DueInv'
<1> SUFFICES ASSUME MapInv, DueInv, [Next]_vars
             PROVE  DueInv'
  OBVIOUS
<1>0. job \in [Clients -> Jobs] /\ Cleaner \in Clients
  BY ExpirationAssumption DEF MapInv, MapTypeOK
<1>1. ASSUME NEW c \in users, UserStep(c) PROVE DueInv'
  <2>1. ASSUME NEW k \in Keys, NEW v \in Vals, NEW d \in Durations, SetExpired(c, k, v, d)
        PROVE  DueInv'
    <3>1. /\ UNCHANGED <<now, cleaner, current>> /\ expired' = MapSet(expired, k, now + d)
          /\ raced' = (IF current = k THEN raced \cup {k} ELSE raced \ {k})
      BY <2>1 DEF SetExpired, cleanVars
    <3>2. job'[Cleaner] = job[Cleaner]
      <4>1. StartCall(c)
        BY <2>1, ExpirationAssumption DEF SetExpired, StartCall
      <4> QED
        BY <4>1, UserJob
    <3>3. now + d \in Nat
      BY ExpirationAssumption DEF DueInv
    <3>4. DOMAIN expired' = DOMAIN expired \cup {k}
          /\ \A x \in DOMAIN expired' : expired'[x] = IF x = k THEN now + d ELSE expired[x]
      BY <3>1 DEF MapSet
    <3>5. cleaner = "delete" /\ current \notin raced' => current # k /\ current \notin raced
      BY <3>1
    <3>6. \A x \in DOMAIN expired' : expired'[x] \in Nat
      BY <3>3, <3>4 DEF DueInv
    <3> QED
      BY <3>1, <3>2, <3>4, <3>5, <3>6 DEF DueInv, Idle
  <2>2. CASE UserCall(c)
    <3>1. job'[Cleaner] = job[Cleaner] /\ UNCHANGED <<now, cleaner, current, expired, raced>>
      BY <2>2, UserJob DEF UserCall, cleanVars, histVars
    <3> QED
      BY <3>1 DEF DueInv, Idle
  <2>3. CASE Get(c) \/ Destroy(c)
    BY <2>3 DEF Get, Destroy, mapVars, cleanVars, histVars, DueInv, Idle
  <2> QED
    BY <1>1, <2>1, <2>2, <2>3 DEF UserStep
<1>2. ASSUME NEW c \in Clients, Inside(c) PROVE DueInv'
  <2>1. UNCHANGED <<now, cleaner, current, expired, raced>>
    BY <1>2 DEF Inside, cleanVars
  <2>2. job'[Cleaner] = job[Cleaner] \/ Idle(Cleaner)' \/ (~Idle(Cleaner) /\ job'[Cleaner].del = job[Cleaner].del)
    <3>1. CASE Announce(c) \/ AcquireLock(c) \/ AcquireRLock(c)
      BY <3>1 DEF Announce, AcquireLock, AcquireRLock
    <3>2. CASE CopyKey(c)
      <4>1. PICK k : job' = [job EXCEPT ![c].copied = @ \cup {k}]
        BY <3>2 DEF CopyKey
      <4>2. job[c] \in Jobs /\ ~Idle(c)
        BY <1>0, <3>2 DEF CopyKey
      <4>3. c # Cleaner => job'[Cleaner] = job[Cleaner]
        BY <1>0, <4>1
      <4>4. job'[c].del = job[c].del
        BY <1>0, <4>1, <4>2 DEF Jobs
      <4> QED
        BY <4>2, <4>3, <4>4
    <3>3. CASE Finish(c)
      BY <1>0, <3>3 DEF Finish, Idle
    <3> QED
      BY <1>2, <3>1, <3>2, <3>3 DEF Inside, Proceed
  <2> QED
    BY <2>1, <2>2 DEF DueInv, Idle
<1>3. CASE Tick
  BY <1>3 DEF Tick, mapVars, cleanVars, histVars, DueInv, Idle
<1>4. ASSUME NEW k \in Keys, CleanerCheck(k) PROVE DueInv'
  <2>1. CASE Due(k)
    <3>1. /\ current' = k /\ cleaner' = "delete" /\ UNCHANGED <<expired, now>>
          /\ Delete(Cleaner, Inner, k)
      BY <1>4, <2>1 DEF CleanerCheck
    <3>2. job' = [job EXCEPT ![Cleaner] = [NoJob EXCEPT !.dst = Inner, !.del = {k}]]
      BY <3>1 DEF Delete, Call
    <3>3. job'[Cleaner] = [NoJob EXCEPT !.dst = Inner, !.del = {k}]
      BY <1>0, <3>2
    <3>4. job'[Cleaner].del = {k}
      BY <3>3 DEF NoJob
    <3> QED
      BY <2>1, <3>1, <3>4 DEF Due, MapHas, DueInv
  <2>2. CASE ~Due(k)
    BY <1>4, <2>2 DEF CleanerCheck, mapVars, DueInv, Idle
  <2> QED
    BY <2>1, <2>2
<1>5. CASE CleanerTick \/ CleanerEnd \/ CleanerStop
  BY <1>5 DEF CleanerTick, CleanerEnd, CleanerStop, mapVars, histVars, DueInv, Idle
<1>6. CASE CleanerDeleted
  BY <1>6 DEF CleanerDeleted, mapVars, histVars, DueInv, Idle
<1>7. CASE CleanerForget
  <2>1. /\ cleaner = "forget" /\ cleaner' = "keys" /\ UNCHANGED <<mapVars, now>>
        /\ expired' = MapDelete(expired, current)
    BY <1>7 DEF CleanerForget
  <2>2. \A x \in DOMAIN expired' : x \in DOMAIN expired /\ expired'[x] = expired[x]
    BY <2>1 DEF MapDelete
  <2>3. Idle(Cleaner)'
    BY <2>1 DEF DueInv, Idle, mapVars
  <2> QED
    BY <2>1, <2>2, <2>3 DEF DueInv
<1>8. CASE UNCHANGED vars
  BY <1>8 DEF vars, mapVars, cleanVars, histVars, DueInv, Idle
<1> QED
  BY <1>1, <1>2, <1>3, <1>4, <1>5, <1>6, <1>7, <1>8 DEF Next, CleanerStep

EarlyStep ==
  \A k \in timed \ raced :
    k \notin timed' /\ job[Cleaner].del = {k} /\ job'[Cleaner] = NoJob => expired[k] <= now

LEMMA DueMeans == DueInv => EarlyStep
<1> SUFFICES ASSUME DueInv, NEW k \in timed \ raced, job[Cleaner].del = {k}
             PROVE  expired[k] <= now
  BY DEF EarlyStep
<1>1. job[Cleaner] # NoJob
  BY DEF NoJob
<1>2. cleaner = "delete" /\ current = k
  BY <1>1 DEF DueInv, Idle
<1> QED
  BY <1>2 DEF DueInv

\* What SetExpired stored does not disappear through the cleaner before its
\* deadline, unless its last SetExpired came between the cleaner's check of the
\* key and the end of its removal: then the code does remove a renewed value
\* early (expirationmap.go:57-67, 99-105).
THEOREM NeverEarlyCorrect == Spec => NeverEarly
<1>1. Spec => []MapInv
  BY ImplementsMap, MapTypeInit, MapTypeStep, PTL DEF MapSpec
<1>2. DueInv => [EarlyStep]_vars
  BY DueMeans
<1>3. Spec => [][EarlyStep]_vars
  BY <1>1, <1>2, DueInit, DueStep, PTL DEF Spec
<1> QED
  BY <1>3 DEF NeverEarly, EarlyStep

-----------------------------------------------------------------------------
\* The deadlines cover the values.

\* A key that SetExpired has written, or is about to write, has a deadline,
\* unless the cleaner was at work on it between the two writes: when the
\* cleaner takes the deadline away the value is gone.
OrphanInv ==
  /\ NoOrphan
  /\ \A c \in setting :
        /\ c \in users /\ ~Idle(c) /\ job[c].src = None
        /\ \A k \in DOMAIN job[c].data : k \in DOMAIN expired \cup raced
  /\ ~Idle(Cleaner) => job[Cleaner].dst = Inner /\ job[Cleaner].src = None
  /\ cleaner \in {"delete", "forget"} =>
        \A c \in setting : current \in DOMAIN job[c].data => current \in raced
  /\ (cleaner = "delete" /\ Idle(Cleaner)) \/ cleaner = "forget" => current \notin timed \ raced

LEMMA OrphanInit == Init => OrphanInv
<1> SUFFICES ASSUME Init
             PROVE  OrphanInv
  OBVIOUS
<1>1. Idle(Cleaner)
  BY ExpirationAssumption DEF Init, MapInit, Idle
<1> QED
  BY <1>1 DEF Init, OrphanInv, NoOrphan

\* What a step inside a method makes of the jobs: a round of a merge, the end
\* of the call, or nothing.
LEMMA InsideJob ==
  ASSUME job \in [Clients -> Jobs], NEW c \in Clients, Proceed(c)
  PROVE  /\ \A d \in Clients \ {c} : job'[d] = job[d]
         /\ job'[c] = job[c] \/ job'[c] = NoJob \/ job[c].src # None
<1>1. CASE Announce(c) \/ AcquireLock(c) \/ AcquireRLock(c)
  BY <1>1 DEF Announce, AcquireLock, AcquireRLock
<1>2. CASE CopyKey(c)
  <2>1. PICK k : job' = [job EXCEPT ![c].copied = @ \cup {k}]
    BY <1>2 DEF CopyKey
  <2> QED
    BY <1>2, <2>1 DEF CopyKey
<1>3. CASE Finish(c)
  BY <1>3 DEF Finish
<1> QED
  BY <1>1, <1>2, <1>3 DEF Proceed

\* What it makes of the keys that SetExpired wrote.
LEMMA InsideTimed ==
  ASSUME job \in [Clients -> Jobs], OrphanInv, NEW c \in Clients, Inside(c)
  PROVE  /\ timed' \subseteq timed \cup (IF c \in setting THEN DOMAIN job[c].data ELSE {})
         /\ setting' \subseteq setting
         /\ c \in setting' => job'[c] = job[c]
<1>1. CASE content' = content /\ job'[c] # NoJob
  <2>1. UNCHANGED <<timed, setting>>
    BY <1>1 DEF Inside
  <2>2. c \in setting => job[c].src = None
    BY DEF OrphanInv
  <2>3. c \in setting => job'[c] = job[c]
    BY <1>1, <2>2, InsideJob DEF Inside
  <2> QED
    BY <2>1, <2>3
<1>2. CASE ~(content' = content /\ job'[c] # NoJob)
  <2> DEFINE written == IF job[c].dst # Inner THEN {}
                        ELSE {k \in DOMAIN content'[Inner] :
                                 k \in DOMAIN job[c].data \/ k \in job'[c].copied \ job[c].copied}
  <2>1. /\ timed' = (IF c \in setting THEN timed \cup written ELSE timed \ written)
                       \cap DOMAIN content'[Inner]
        /\ setting' = IF job'[c] = NoJob THEN setting \ {c} ELSE setting
    BY <1>2, Zenon DEF Inside
  <2>2. c \in setting => job'[c] = job[c] \/ job'[c] = NoJob
    BY InsideJob DEF OrphanInv, Inside
  <2>3. NoJob.copied = {}
    BY DEF NoJob
  <2>4. ASSUME c \in setting PROVE written \subseteq DOMAIN job[c].data
    <3>1. job'[c].copied \ job[c].copied = {}
      BY <2>2, <2>3, <2>4
    <3> QED
      BY <3>1
  <2> HIDE DEF written
  <2> QED
    BY <2>1, <2>2, <2>4
<1> QED
  BY <1>1, <1>2

\* When the cleaner returns from Delete the value is gone.
LEMMA DeleteDone ==
  ASSUME MapInv, DueInv, OrphanInv, Inside(Cleaner), ~Idle(Cleaner), Idle(Cleaner)'
  PROVE  current \notin timed'
<1>0. job[Cleaner].del = {current} /\ job[Cleaner].dst = Inner /\ job[Cleaner].src = None
  BY DEF DueInv, OrphanInv
<1>1. content \in [Addrs -> MapsOf(Keys, Vals)] /\ Inner \in Addrs
  BY ExpirationAssumption DEF MapInv, MapTypeOK
<1>2. CASE Announce(Cleaner) \/ AcquireLock(Cleaner) \/ AcquireRLock(Cleaner)
  BY <1>2 DEF Announce, AcquireLock, AcquireRLock, Idle
<1>3. CASE CopyKey(Cleaner)
  BY <1>0, <1>3 DEF CopyKey
<1>4. CASE Finish(Cleaner)
  <2> DEFINE merged == MapMerge(content[Inner], job[Cleaner].data)
  <2>1. content' = [content EXCEPT ![Inner] = [k \in DOMAIN merged \ {current} |-> merged[k]]]
    BY <1>0, <1>4 DEF Finish
  <2> HIDE DEF merged
  <2>2. DOMAIN content'[Inner] = DOMAIN merged \ {current}
    BY <1>1, <2>1
  <2>3. timed' \subseteq DOMAIN content'[Inner]
    BY DEF Inside, Idle
  <2> QED
    BY <2>2, <2>3
<1> QED
  BY <1>2, <1>3, <1>4 DEF Inside, Proceed

\* Every step keeps it.
LEMMA OrphanStep ==
  ASSUME MapInv, DueInv, OrphanInv, setting \subseteq users, [Next]_vars
  PROVE  OrphanInv'
<1>0. job \in [Clients -> Jobs] /\ Cleaner \in Clients /\ Cleaner \notin setting /\ setting \subseteq Clients
  BY ExpirationAssumption DEF MapInv, MapTypeOK, users
<1>1. ASSUME NEW c \in users, NEW k \in Keys, NEW v \in Vals, NEW d \in Durations,
             SetExpired(c, k, v, d)
      PROVE  OrphanInv'
  <2>1. /\ expired' = MapSet(expired, k, now + d) /\ UNCHANGED <<cleaner, current, timed>>
        /\ setting' = setting \cup {c}
        /\ raced' = IF current = k THEN raced \cup {k} ELSE raced \ {k}
    BY <1>1 DEF SetExpired, cleanVars
  <2>2. Idle(c) /\ job' = [job EXCEPT ![c] = [NoJob EXCEPT !.dst = Inner, !.data = MapSet(EmptyMap, k, v)]]
    BY <1>1 DEF SetExpired, Set, Call
  <2>3. c \in Clients /\ c # Cleaner
    BY DEF users
  <2>4. \A x \in Clients : x # c => job'[x] = job[x]
    BY <1>0, <2>2
  <2>5. job'[c] = [NoJob EXCEPT !.dst = Inner, !.data = MapSet(EmptyMap, k, v)]
    BY <1>0, <2>2, <2>3
  <2>6. job'[c].src = None /\ DOMAIN job'[c].data = {k} /\ job'[c].dst = Inner
    <3>1. DOMAIN MapSet(EmptyMap, k, v) = {k}
      BY DEF MapSet, EmptyMap
    <3>2. job'[c].data = MapSet(EmptyMap, k, v) /\ job'[c].src = None /\ job'[c].dst = Inner
      BY <2>5 DEF NoJob
    <3> QED
      BY <3>1, <3>2
  <2>7. job'[c] # NoJob
    <3>1. DOMAIN NoJob.data = {}
      BY DEF NoJob, EmptyMap
    <3> QED
      BY <2>6, <3>1
  <2>8. DOMAIN expired' = DOMAIN expired \cup {k}
    BY <2>1 DEF MapSet
  <2>9. raced' \subseteq raced \cup {k} /\ raced \ {k} \subseteq raced' /\ (current = k => current \in raced')
    BY <2>1
  <2>10. NoOrphan'
    BY <2>1, <2>8, <2>9 DEF OrphanInv, NoOrphan, MapHas
  <2>11. \A x \in setting' :
            /\ x \in users /\ ~Idle(x)' /\ job'[x].src = None
            /\ \A y \in DOMAIN job'[x].data : y \in DOMAIN expired' \cup raced'
    BY <1>0, <2>1, <2>4, <2>6, <2>7, <2>8, <2>9 DEF OrphanInv, Idle
  <2>12. cleaner' \in {"delete", "forget"} =>
            \A x \in setting' : current' \in DOMAIN job'[x].data => current' \in raced'
    BY <1>0, <2>1, <2>4, <2>6, <2>9 DEF OrphanInv
  <2>13. job'[Cleaner] = job[Cleaner]
    BY <1>0, <2>3, <2>4
  <2> QED
    BY <2>1, <2>9, <2>10, <2>11, <2>12, <2>13 DEF OrphanInv, Idle
<1>2. ASSUME NEW c \in users, UserCall(c) PROVE OrphanInv'
  <2>1. /\ Idle(c) /\ c \in Clients /\ UNCHANGED <<expired, cleanVars, histVars>>
    BY <1>2, CallShape DEF UserCall, Call, users
  <2>2. PICK j, locks : Call(c, j, locks)
    BY <1>2, <2>1, CallShape DEF UserCall
  <2>3. \A x \in setting \cup {Cleaner} : job'[x] = job[x]
    BY <1>0, <2>1, <2>2 DEF Call, OrphanInv, users
  <2> QED
    BY <1>0, <2>1, <2>3 DEF OrphanInv, NoOrphan, MapHas, Idle, cleanVars, histVars
<1>3. ASSUME NEW c \in Clients, Inside(c) PROVE OrphanInv'
  <2>1. UNCHANGED <<expired, cleaner, current, raced>> /\ Proceed(c)
    BY <1>3 DEF Inside, cleanVars
  <2>2. /\ timed' \subseteq timed \cup (IF c \in setting THEN DOMAIN job[c].data ELSE {})
        /\ setting' \subseteq setting /\ \A x \in setting' : job'[x] = job[x]
    BY <1>0, <1>3, <2>1, InsideTimed, InsideJob
  <2>3. job'[Cleaner] = job[Cleaner] \/ job'[Cleaner] = NoJob
    <3>1. CASE Idle(Cleaner)
      <4>1. NoJob.src = None
        BY DEF NoJob
      <4> QED
        BY <1>0, <2>1, <3>1, <4>1, InsideJob DEF Idle
    <3>2. CASE ~Idle(Cleaner)
      BY <1>0, <2>1, <3>2, InsideJob DEF OrphanInv
    <3> QED
      BY <3>1, <3>2
  <2>4. NoOrphan'
    BY <2>1, <2>2 DEF OrphanInv, NoOrphan, MapHas
  <2>5. \A x \in setting' :
            /\ x \in users /\ ~Idle(x)' /\ job'[x].src = None
            /\ \A y \in DOMAIN job'[x].data : y \in DOMAIN expired' \cup raced'
    BY <2>1, <2>2 DEF OrphanInv, Idle
  <2>6. ~Idle(Cleaner)' => job'[Cleaner].dst = Inner /\ job'[Cleaner].src = None
    BY <2>3 DEF OrphanInv, Idle
  <2>7. cleaner' \in {"delete", "forget"} =>
            \A x \in setting' : current' \in DOMAIN job'[x].data => current' \in raced'
    BY <2>1, <2>2 DEF OrphanInv
  <2>8. ASSUME (cleaner = "delete" /\ Idle(Cleaner)') \/ cleaner = "forget"
        PROVE  current \notin timed' \ raced
    <3>1. CASE (cleaner = "delete" /\ Idle(Cleaner)) \/ cleaner = "forget"
      BY <2>2, <3>1 DEF OrphanInv
    <3>2. CASE ~Idle(Cleaner) /\ Idle(Cleaner)'
      <4>1. c = Cleaner
        BY <1>0, <2>1, <3>2, InsideJob DEF Idle
      <4> QED
        BY <1>3, <3>2, <4>1, DeleteDone
    <3> QED
      BY <2>8, <3>1, <3>2 DEF DueInv
  <2> QED
    BY <2>1, <2>4, <2>5, <2>6, <2>7, <2>8 DEF OrphanInv
<1>4. ASSUME NEW k \in Keys, CleanerCheck(k) PROVE OrphanInv'
  <2>1. CASE Due(k)
    <3>1. /\ current' = k /\ cleaner' = "delete" /\ UNCHANGED <<expired, setting, timed>>
          /\ raced' = (IF k \in SettingKeys THEN raced \cup {k} ELSE raced)
          /\ Delete(Cleaner, Inner, k)
      BY <1>4, <2>1 DEF CleanerCheck
    <3>2. job' = [job EXCEPT ![Cleaner] = [NoJob EXCEPT !.dst = Inner, !.del = {k}]]
      BY <3>1 DEF Delete, Call
    <3>3. job'[Cleaner] = [NoJob EXCEPT !.dst = Inner, !.del = {k}]
      BY <1>0, <3>2
    <3>4. job'[Cleaner].src = None /\ job'[Cleaner].dst = Inner /\ job'[Cleaner].del = {k}
      BY <3>3 DEF NoJob
    <3>5. ~Idle(Cleaner)'
      BY <3>4 DEF Idle, NoJob
    <3>6. \A x \in setting : job'[x] = job[x]
      BY <1>0, <3>2
    <3>7. \A x \in setting : k \in DOMAIN job[x].data => k \in raced'
      BY <3>1 DEF SettingKeys
    <3>8. raced \subseteq raced'
      BY <3>1
    <3>9. NoOrphan'
      BY <3>1, <3>8 DEF OrphanInv, NoOrphan, MapHas
    <3>10. \A x \in setting' :
              /\ x \in users /\ ~Idle(x)' /\ job'[x].src = None
              /\ \A y \in DOMAIN job'[x].data : y \in DOMAIN expired' \cup raced'
      BY <3>1, <3>6, <3>8 DEF OrphanInv, Idle
    <3>11. \A x \in setting' : current' \in DOMAIN job'[x].data => current' \in raced'
      BY <3>1, <3>6, <3>7
    <3> QED
      BY <3>1, <3>4, <3>5, <3>9, <3>10, <3>11 DEF OrphanInv
  <2>2. CASE ~Due(k)
    BY <1>4, <2>2 DEF CleanerCheck, mapVars, OrphanInv, NoOrphan, MapHas, Idle
  <2> QED
    BY <2>1, <2>2
<1>5. CASE CleanerForget
  <2>1. /\ cleaner = "forget" /\ cleaner' = "keys" /\ UNCHANGED <<mapVars, setting, timed, raced>>
        /\ expired' = MapDelete(expired, current)
    BY <1>5 DEF CleanerForget, histVars
  <2>2. DOMAIN expired' = DOMAIN expired \ {current}
    BY <2>1 DEF MapDelete
  <2>3. NoOrphan'
    BY <2>1, <2>2 DEF OrphanInv, NoOrphan, MapHas
  <2>4. job' = job
    BY <2>1 DEF mapVars
  <2>5. \A x \in setting : \A y \in DOMAIN job[x].data : y \in DOMAIN expired' \cup raced
    BY <2>1, <2>2 DEF OrphanInv
  <2> QED
    BY <2>1, <2>3, <2>4, <2>5 DEF OrphanInv, Idle
<1>6. CASE CleanerDeleted
  BY <1>6 DEF CleanerDeleted, mapVars, histVars, OrphanInv, NoOrphan, MapHas, Idle
<1>7. CASE CleanerTick \/ CleanerEnd \/ CleanerStop
  BY <1>7 DEF CleanerTick, CleanerEnd, CleanerStop, mapVars, histVars, OrphanInv, NoOrphan, MapHas, Idle
<1>8. ASSUME \/ Tick \/ UNCHANGED vars
             \/ \E c \in users : Get(c) \/ Destroy(c)
      PROVE  OrphanInv'
  <2>1. UNCHANGED <<mapVars, expired, cleanVars, histVars>>
    BY <1>8 DEF Tick, Get, Destroy, vars
  <2> QED
    BY <2>1 DEF mapVars, cleanVars, histVars, OrphanInv, NoOrphan, MapHas, Idle
<1> QED
  BY <1>1, <1>2, <1>3, <1>4, <1>5, <1>6, <1>7, <1>8 DEF Next, UserStep, CleanerStep

-----------------------------------------------------------------------------
\* Types.

\* The parts of TypeOK that are not about the maps.
ClockOK == /\ now \in 0..MaxTime /\ calls \in 0..MaxCalls
           /\ destroyed \in BOOLEAN /\ crashed \in BOOLEAN
DeadlinesOK == expired \in MapsOf(Keys, 0..MaxTime)
CleanerOK == /\ cleaner \in {"select", "keys", "delete", "forget", "exit"}
             /\ todo \subseteq Keys /\ current \in Keys \cup {None}
             /\ (cleaner \in {"delete", "forget"} <=> current # None)
UsersOK == setting \subseteq users /\ raced \subseteq Keys
TimedOK == timed \subseteq DOMAIN content[Inner]

TypeParts == ClockOK /\ DeadlinesOK /\ CleanerOK /\ UsersOK /\ TimedOK

LEMMA TypePartsAre == TypeOK <=> (MapTypeOK /\ TypeParts)
  BY Zenon DEF TypeOK, TypeParts, ClockOK, DeadlinesOK, CleanerOK, UsersOK, TimedOK

LEMMA TypePartsInit == Init => TypeParts
<1> SUFFICES ASSUME Init
             PROVE  TypeParts
  OBVIOUS
<1>1. ClockOK
  <2>1. now \in 0..MaxTime /\ calls \in 0..MaxCalls
    BY ExpirationAssumption DEF Init
  <2>2. destroyed \in BOOLEAN /\ crashed \in BOOLEAN
    BY Zenon DEF Init
  <2> QED
    BY <2>1, <2>2 DEF ClockOK
<1>2. DeadlinesOK
  BY EmptyMapType DEF Init, DeadlinesOK
<1>3. CleanerOK /\ UsersOK /\ TimedOK
  BY DEF Init, CleanerOK, UsersOK, TimedOK
<1> QED
  BY <1>1, <1>2, <1>3 DEF TypeParts

\* A part holds as long as its variables keep their values.
LEMMA TypeFrame ==
  /\ ClockOK /\ UNCHANGED <<now, calls, destroyed, crashed>> => ClockOK'
  /\ DeadlinesOK /\ UNCHANGED expired => DeadlinesOK'
  /\ CleanerOK /\ UNCHANGED cleanVars => CleanerOK'
  /\ UsersOK /\ UNCHANGED <<setting, raced>> => UsersOK'
  /\ TimedOK /\ UNCHANGED <<timed, content>> => TimedOK'
  BY DEF ClockOK, DeadlinesOK, CleanerOK, cleanVars, UsersOK, TimedOK

\* A key that gets a deadline or is looked at is a key.
LEMMA TypePartsStep ==
  ASSUME MapInv, TypeParts, [Next]_vars
  PROVE  TypeParts'
<1> USE TypeFrame DEF TypeParts
<1>1. ASSUME NEW c \in users, NEW k \in Keys, NEW v \in Vals, NEW d \in Durations,
             SetExpired(c, k, v, d)
      PROVE  TypeParts'
  <2>1. ClockOK'
    BY <1>1, ExpirationAssumption DEF SetExpired, Counted, ClockOK
  <2>2. now + d \in 0..MaxTime
    BY <1>1, ExpirationAssumption DEF SetExpired, ClockOK
  <2>3. DeadlinesOK'
    BY <1>1, <2>2, MapSetType DEF SetExpired, DeadlinesOK
  <2>4. UsersOK'
    BY <1>1 DEF SetExpired, UsersOK
  <2> QED
    BY <1>1, <2>1, <2>3, <2>4 DEF SetExpired, Set, Call
<1>2. ASSUME NEW c \in users, UserCall(c) PROVE TypeParts'
  <2>1. ClockOK'
    BY <1>2, ExpirationAssumption DEF UserCall, Counted, ClockOK
  <2>2. content' = content
    BY <1>2, CallShape DEF UserCall, Call, users
  <2> QED
    BY <1>2, <2>1, <2>2 DEF UserCall, histVars
<1>3. ASSUME NEW c \in Clients, Inside(c) PROVE TypeParts'
  <2>1. UNCHANGED <<expired, now, destroyed, crashed, cleanVars, raced, calls>>
    BY <1>3 DEF Inside
  <2>2. CASE content' = content /\ job'[c] # NoJob
    <3>1. UNCHANGED <<timed, setting>>
      BY <1>3, <2>2 DEF Inside
    <3> QED
      BY <2>1, <2>2, <3>1
  <2>3. CASE ~(content' = content /\ job'[c] # NoJob)
    <3>1. timed' \subseteq DOMAIN content'[Inner]
      BY <1>3, <2>3, Zenon DEF Inside
    <3>2. setting' = IF job'[c] = NoJob THEN setting \ {c} ELSE setting
      BY <1>3, <2>3, Zenon DEF Inside
    <3>3. UsersOK' /\ TimedOK'
      BY <2>1, <3>1, <3>2 DEF UsersOK, TimedOK
    <3> QED
      BY <2>1, <3>3
  <2> QED
    BY <2>2, <2>3
<1>4. ASSUME NEW c \in users, Get(c) \/ Destroy(c) PROVE TypeParts'
  <2>1. ClockOK'
    <3>1. now' = now /\ calls' \in 0..MaxCalls
      BY <1>4, ExpirationAssumption DEF Get, Destroy, Counted, ClockOK
    <3>2. destroyed' \in BOOLEAN /\ crashed' \in BOOLEAN
      BY <1>4, Zenon DEF Get, Destroy, ClockOK
    <3> QED
      BY <3>1, <3>2 DEF ClockOK
  <2> QED
    BY <1>4, <2>1 DEF Get, Destroy, mapVars, histVars
<1>5. CASE Tick
  <2>1. ClockOK'
    BY <1>5, ExpirationAssumption DEF Tick, ClockOK
  <2> QED
    BY <1>5, <2>1 DEF Tick, mapVars, histVars
<1>6. CASE CleanerTick
  <2>1. todo' \subseteq Keys
    BY <1>6, MapsOfElim DEF CleanerTick, DeadlinesOK
  <2>2. CleanerOK'
    BY <1>6, <2>1 DEF CleanerTick, CleanerOK
  <2> QED
    BY <1>6, <2>2 DEF CleanerTick, mapVars, histVars
<1>7. CASE CleanerEnd \/ CleanerStop \/ CleanerDeleted
  <2>1. CleanerOK'
    BY <1>7 DEF CleanerEnd, CleanerStop, CleanerDeleted, CleanerOK
  <2> QED
    BY <1>7, <2>1 DEF CleanerEnd, CleanerStop, CleanerDeleted, mapVars, histVars
<1>8. ASSUME NEW k \in Keys, CleanerCheck(k) PROVE TypeParts'
  <2>1. k # None
    BY ExpirationAssumption
  <2>2. CleanerOK'
    BY <1>8, <2>1 DEF CleanerCheck, CleanerOK
  <2>3. UsersOK'
    BY <1>8 DEF CleanerCheck, UsersOK
  <2>4. content' = content
    BY <1>8 DEF CleanerCheck, Delete, Call, mapVars
  <2> QED
    BY <1>8, <2>2, <2>3, <2>4 DEF CleanerCheck
<1>9. CASE CleanerForget
  <2>1. CleanerOK'
    BY <1>9 DEF CleanerForget, CleanerOK
  <2>2. DeadlinesOK'
    <3>1. expired' = [x \in DOMAIN expired \ {current} |-> expired[x]]
      BY <1>9 DEF CleanerForget, MapDelete
    <3>2. DOMAIN expired \subseteq Keys /\ \A x \in DOMAIN expired : expired[x] \in 0..MaxTime
      BY MapsOfElim DEF DeadlinesOK
    <3>3. DOMAIN expired' = DOMAIN expired \ {current} /\ expired' = [x \in DOMAIN expired' |-> expired'[x]]
          /\ \A x \in DOMAIN expired' : expired'[x] = expired[x]
      BY <3>1
    <3>4. expired' \in MapsOf(Keys, 0..MaxTime)
      BY <3>2, <3>3, MapsOfIntro
    <3> QED
      BY <3>4 DEF DeadlinesOK
  <2> QED
    BY <1>9, <2>1, <2>2 DEF CleanerForget, mapVars, histVars
<1>10. CASE UNCHANGED vars
  BY <1>10 DEF vars, mapVars, histVars
<1> QED
  BY <1>1, <1>2, <1>3, <1>4, <1>5, <1>6, <1>7, <1>8, <1>9, <1>10 DEF Next, UserStep, CleanerStep

\* Every reachable state is well typed, and what SetExpired stored has a
\* deadline that the cleaner will see, so that it does not stay for ever: only
\* a SetExpired that the cleaner met between the two writes may be left without
\* one (expirationmap.go:57-67, 97-106).
THEOREM ExpirationCorrect == Spec => []ExpirationInv
<1>1. Spec => []MapInv
  BY ImplementsMap, MapTypeInit, MapTypeStep, PTL DEF MapSpec
<1>2. TypeParts => setting \subseteq users
  BY DEF TypeParts, UsersOK
<1>3. Spec => [](DueInv /\ TypeParts)
  BY <1>1, DueInit, DueStep, TypePartsInit, TypePartsStep, PTL DEF Spec
<1>4. MapInv /\ DueInv /\ TypeParts /\ OrphanInv /\ [Next]_vars => OrphanInv'
  BY <1>2, OrphanStep
<1>5. Spec => []OrphanInv
  BY <1>1, <1>3, <1>4, OrphanInit, PTL DEF Spec
<1>6. MapInv /\ TypeParts /\ OrphanInv => ExpirationInv
  BY TypePartsAre DEF MapInv, OrphanInv, ExpirationInv
<1> QED
  BY <1>1, <1>3, <1>5, <1>6, PTL

=============================================================================
