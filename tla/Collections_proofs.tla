-------------------------- MODULE Collections_proofs --------------------------
(***************************************************************************)
(* Proofs about the collections for any consumers, drainers, items and     *)
(* elements.  About BlockingQueue:                                         *)
(*   FifoCorrect        first in, first out, exactly once;                 *)
(*   WakeupCorrect      no wakeup of a consumer is lost;                   *)
(*   DrainedCorrect     a drained queue stays empty.                       *)
(* About DelayingQueue:                                                    *)
(*   ImplementsQueue    it is a BlockingQueue to those who use it as one,  *)
(*   DelayedInOrder     so that nothing is lost or doubled in it and no    *)
(*   DelayedWakeups     wakeup is lost, whoever pushes, and                *)
(*   DelayedDrained     no callback fills a queue that was drained;        *)
(*   DelayTypeCorrect   types, and: an item is pushed when it says so;     *)
(*   LateCorrect        a PushAfter after the shutdown is refused.         *)
(* About Containers:                                                       *)
(*   ContainersCorrect  nothing is lost or doubled, the priority queue     *)
(*                      shows a least element, and no pointer is kept.     *)
(* About SliceOps:                                                         *)
(*   SlicesCorrect      deleting in place keeps what should stay, early    *)
(*                      returns answer for the whole slice, grouping loses *)
(*                      nothing, integers are right within their type.     *)
(***************************************************************************)
EXTENDS DelayingQueue, Containers, SliceOps, TLAPS, FiniteSetTheorems, SequenceTheorems,
        WellFoundedInduction

-----------------------------------------------------------------------------
\* Type correctness.

\* A signal changes one program counter at most, from "waiting" to "woken".
LEMMA SignalOne ==
  ASSUME NEW before \in [Callers -> Pcs], NEW after, Signal(before, after)
  PROVE  \/ after = before /\ \A c \in Callers : before[c] # "waiting"
         \/ \E c \in Callers : before[c] = "waiting" /\ after = [before EXCEPT ![c] = "woken"]
  BY DEF Signal

LEMMA TypeStep == TypeOK /\ [Next]_vars => TypeOK'
<1> SUFFICES ASSUME TypeOK, [Next]_vars
             PROVE  TypeOK'
  OBVIOUS
<1> USE DEF TypeOK, Pcs
<1>1. ASSUME NEW e \in Items, Push(e) PROVE TypeOK'
  <2>1. CASE shutdown
    BY <1>1, <2>1 DEF Push
  <2>2. CASE ~shutdown
    <3>1. Signal(pc, pc')
      BY <1>1, <2>2 DEF Push
    <3>2. pc' \in [Callers -> Pcs]
      BY <3>1, SignalOne
    <3>3. queue' \in Seq(Items) /\ accepted' \in Seq(Items)
      <4>1. queue' = Append(queue, e) /\ accepted' = Append(accepted, e)
        BY <1>1, <2>2 DEF Push
      <4> QED
        BY <4>1, AppendProperties
    <3>4. UNCHANGED <<shutdown, popped, dropped>>
      BY <1>1, <2>2 DEF Push
    <3> QED
      BY <3>2, <3>3, <3>4
  <2> QED
    BY <2>1, <2>2
<1>2. ASSUME NEW c \in Consumers, PopWait(c) PROVE TypeOK'
  BY <1>2 DEF PopWait
<1>3. ASSUME NEW c \in Consumers, PopItem(c) PROVE TypeOK'
  <2>1. pc' \in [Callers -> Pcs]
    <3> DEFINE back == [pc EXCEPT ![c] = "idle"]
    <3>1. back \in [Callers -> Pcs]
      OBVIOUS
    <3>2. Signal(back, pc') \/ pc' = back
      BY <1>3 DEF PopItem
    <3> HIDE DEF back
    <3>3. CASE pc' = back
      BY <3>1, <3>3
    <3>4. CASE Signal(back, pc')
      <4>1. CASE pc' = back
        BY <3>1, <4>1
      <4>2. ASSUME NEW d \in Callers, pc' = [back EXCEPT ![d] = "woken"]
            PROVE  pc' \in [Callers -> Pcs]
        BY <3>1, <4>2
      <4> HIDE DEF Pcs
      <4> QED
        BY <3>1, <3>4, <4>1, <4>2, SignalOne
    <3> QED
      BY <3>2, <3>3, <3>4
  <2>2. Head(queue) \in Items /\ Tail(queue) \in Seq(Items)
    BY <1>3, HeadTailProperties DEF PopItem
  <2> QED
    BY <1>3, <2>1, <2>2 DEF PopItem
<1>4. ASSUME NEW c \in Consumers, PopEmpty(c) PROVE TypeOK'
  BY <1>4 DEF PopEmpty
<1>5. CASE Shutdown
  BY <1>5 DEF Shutdown, Broadcast
<1>6. ASSUME NEW d \in Drainers, DrainCall(d) PROVE TypeOK'
  BY <1>6 DEF DrainCall, Broadcast
<1>7. ASSUME NEW d \in Drainers, DrainWake(d) PROVE TypeOK'
  BY <1>7 DEF DrainWake
<1>8. CASE UNCHANGED vars
  BY <1>8 DEF vars
<1> QED
  BY <1>1, <1>2, <1>3, <1>4, <1>5, <1>6, <1>7, <1>8 DEF Next, Pop

\* Every reachable state is well typed.
THEOREM TypeCorrect == Spec => []TypeOK
<1>1. Init => TypeOK
  <2> SUFFICES ASSUME Init
               PROVE  TypeOK
    OBVIOUS
  <2>1. queue \in Seq(Items) /\ accepted \in Seq(Items) /\ popped \in Seq(Items)
    BY DEF Init
  <2>2. shutdown \in BOOLEAN /\ dropped \subseteq Items
    BY Zenon DEF Init
  <2>3. pc \in [Callers -> Pcs]
    BY DEF Init, Pcs
  <2> QED
    BY <2>1, <2>2, <2>3 DEF TypeOK
<1> QED
  BY <1>1, TypeStep, PTL DEF Spec

-----------------------------------------------------------------------------
\* First in, first out.

\* A pop moves the head of the queue to the end of what was popped.
LEMMA MoveHead ==
  ASSUME NEW S, NEW s \in Seq(S), NEW t \in Seq(S), t # <<>>
  PROVE  s \o t = Append(s, Head(t)) \o Tail(t)
BY HeadTailProperties

LEMMA FifoStep ==
  ASSUME TypeOK, FirstInFirstOut, [Next]_vars
  PROVE  FirstInFirstOut'
<1>0. ASSUME NEW e \in Items
      PROVE  Append(popped \o queue, e) = popped \o Append(queue, e)
  <2>1. popped \in Seq(Items) /\ queue \in Seq(Items) /\ <<e>> \in Seq(Items)
    BY DEF TypeOK
  <2>2. popped \o queue \in Seq(Items)
    BY <2>1, ConcatProperties
  <2>3. Append(popped \o queue, e) = (popped \o queue) \o <<e>>
    BY <2>2, AppendIsConcat
  <2>4. Append(queue, e) = queue \o <<e>>
    BY <2>1, AppendIsConcat
  <2> QED
    BY <2>1, <2>3, <2>4, ConcatAssociative
<1> USE DEF TypeOK, FirstInFirstOut
<1>1. ASSUME NEW e \in Items, Push(e) PROVE FirstInFirstOut'
  <2>1. CASE shutdown
    BY <1>1, <2>1 DEF Push, Pushed
  <2>2. CASE ~shutdown
    <3>1. /\ accepted' = Append(accepted, e)
          /\ queue' = Append(queue, e)
          /\ popped' = popped
          /\ dropped' = dropped
          /\ e \notin dropped
      BY <1>1, <2>2 DEF Push, Pushed
    <3>2. accepted' = popped' \o queue'
      <4> QED
        BY <1>0, <3>1
    <3>3. \A x \in dropped' : \A i \in DOMAIN accepted' : accepted'[i] # x
      <4> SUFFICES ASSUME NEW x \in dropped, NEW i \in DOMAIN Append(accepted, e)
                   PROVE  Append(accepted, e)[i] # x
        BY <3>1
      <4>1. Len(accepted) \in Nat /\ DOMAIN accepted = 1..Len(accepted)
        BY LenProperties
      <4>2. i \in 1..Len(accepted) + 1
        BY <4>1, AppendProperties
      <4>3. Append(accepted, e)[i] = IF i = Len(accepted) + 1 THEN e ELSE accepted[i]
        BY <4>1, <4>2, AppendProperties
      <4>4. \A j \in 1..Len(accepted) : accepted[j] # x
        BY <4>1
      <4>5. e # x
        BY <3>1
      <4>6. CASE i = Len(accepted) + 1
        BY <4>3, <4>5, <4>6
      <4>7. CASE i # Len(accepted) + 1
        <5>1. i \in 1..Len(accepted)
          BY ONLY <4>1, <4>2, <4>7
        <5>2. Append(accepted, e)[i] = accepted[i] /\ accepted[i] # x
          BY <4>3, <4>4, <4>7, <5>1, Zenon
        <5> QED
          BY <5>2
      <4> QED
        BY <4>6, <4>7
    <3> QED
      BY <3>2, <3>3
  <2> QED
    BY <2>1, <2>2
<1>2. ASSUME NEW c \in Consumers, PopItem(c) PROVE FirstInFirstOut'
  <2>1. /\ queue # <<>>
        /\ queue' = Tail(queue)
        /\ popped' = Append(popped, Head(queue))
        /\ accepted' = accepted
        /\ dropped' = dropped
    BY <1>2 DEF PopItem
  <2>2. popped \o queue = Append(popped, Head(queue)) \o Tail(queue)
    <3>1. popped \in Seq(Items) /\ queue \in Seq(Items)
      OBVIOUS
    <3> HIDE DEF TypeOK, FirstInFirstOut
    <3> QED
      BY <2>1, <3>1, MoveHead
  <2> QED
    BY <2>1, <2>2
<1>3. ASSUME UNCHANGED <<queue, accepted, popped, dropped>>
      PROVE  FirstInFirstOut'
  BY <1>3
<1> QED
  BY <1>1, <1>2, <1>3
  DEF Next, Pop, PopWait, PopEmpty, Shutdown, DrainCall, DrainWake, vars

\* Every accepted item is popped once, in order, or still queued; no refused
\* item is ever returned.
THEOREM FifoCorrect == Spec => []FirstInFirstOut
<1>1. Init => FirstInFirstOut
  BY DEF Init, FirstInFirstOut
<1>2. TypeOK /\ FirstInFirstOut /\ [Next]_vars => FirstInFirstOut'
  BY FifoStep
<1> QED
  BY <1>1, <1>2, TypeCorrect, PTL DEF Spec

-----------------------------------------------------------------------------
\* No lost wakeup.

\* Nobody waits for the queue to drain before it is shut down.
DrainersInv == ~shutdown => \A d \in Drainers : pc[d] = "idle"

WakeupInv == DrainersInv /\ NoLostWakeup

\* One more element.
LEMMA AddOne ==
  ASSUME NEW S, NEW x, IsFiniteSet(S), x \notin S
  PROVE  Cardinality(S \cup {x}) = Cardinality(S) + 1
<1>1. IsFiniteSet(S \cup {x})
  BY FS_AddElement, Zenon
<1>2. Cardinality(S \cup {x}) - 1 = Cardinality((S \cup {x}) \ {x})
  BY <1>1, FS_RemoveElement
<1>3. (S \cup {x}) \ {x} = S
  OBVIOUS
<1>4. Cardinality(S \cup {x}) - 1 = Cardinality(S)
  BY <1>2, <1>3, Zenon
<1>5. Cardinality(S \cup {x}) \in Nat
  BY <1>1, FS_CardinalityType
<1> QED
  BY <1>4, <1>5

\* Sets of callers are finite, in particular the notified ones.
LEMMA CallersFinite ==
  ASSUME NEW S, S \subseteq Callers
  PROVE  IsFiniteSet(S) /\ Cardinality(S) \in Nat
<1>1. IsFiniteSet(Callers)
  BY QueueAssumption, FS_Union DEF Callers
<1>2. IsFiniteSet(S)
  BY <1>1, FS_Subset
<1> QED
  BY <1>2, FS_CardinalityType

LEMMA WokenFinite == IsFiniteSet(Woken) /\ Cardinality(Woken) \in Nat
<1>1. Woken \subseteq Callers
  BY DEF Woken
<1> QED
  BY <1>1, CallersFinite

LEMMA WokenFiniteNext == Cardinality(Woken') \in Nat
<1>1. Woken' \subseteq Callers
  BY DEF Woken
<1> QED
  BY <1>1, CallersFinite

LEMMA WakeupStep ==
  ASSUME TypeOK, TypeOK', WakeupInv, [Next]_vars
  PROVE  WakeupInv'
<1> USE QueueAssumption DEF Callers, Pcs
<1> DEFINE Blocked == Waiting \cap Consumers
<1>0. queue \in Seq(Items) /\ Len(queue) \in Nat /\ pc \in [Callers -> Pcs]
  BY LenProperties DEF TypeOK
<1>1. ASSUME NEW e \in Items, Push(e) PROVE WakeupInv'
  <2>1. CASE shutdown
    BY <1>1, <2>1 DEF Push, WakeupInv, DrainersInv, NoLostWakeup, Waiting, Woken
  <2>2. CASE ~shutdown
    <3>1. /\ Signal(pc, pc') /\ shutdown' = shutdown
          /\ Len(queue') = Len(queue) + 1
      BY <1>0, <1>1, <2>2 DEF Push
    <3>2. \A d \in Drainers : pc[d] = "idle"
      BY <2>2 DEF WakeupInv, DrainersInv
    <3>3. CASE pc' = pc /\ \A c \in Callers : pc[c] # "waiting"
      BY <2>2, <3>1, <3>2, <3>3 DEF WakeupInv, DrainersInv, NoLostWakeup, Waiting
    <3>4. ASSUME NEW c \in Callers, pc[c] = "waiting",
                 pc' = [pc EXCEPT ![c] = "woken"]
          PROVE  WakeupInv'
      <4>1. c \in Consumers
        BY <3>2, <3>4
      <4>2. Len(queue) <= Cardinality(Woken)
        BY <3>4, <4>1 DEF WakeupInv, NoLostWakeup, Waiting
      <4>3. c \notin Woken /\ Woken' = Woken \cup {c}
        BY <1>0, <3>4 DEF Woken
      <4>4. Cardinality(Woken') = Cardinality(Woken) + 1
        BY <4>3, WokenFinite, AddOne
      <4>5. Len(queue') <= Cardinality(Woken')
        BY <1>0, <3>1, <4>2, <4>4, WokenFinite
      <4>6. DrainersInv'
        BY <1>0, <3>1, <3>2, <3>4, <4>1 DEF DrainersInv
      <4> QED
        BY <2>2, <3>1, <4>5, <4>6 DEF WakeupInv, NoLostWakeup
    <3> QED
      BY <1>0, <3>1, <3>3, <3>4, SignalOne
  <2> QED
    BY <2>1, <2>2
<1>2. ASSUME NEW c \in Consumers, PopWait(c) PROVE WakeupInv'
  <2>1. /\ queue' = queue /\ shutdown' = shutdown /\ ~shutdown
        /\ Len(queue') = 0
    BY <1>2 DEF PopWait
  <2>2. DrainersInv'
    BY <1>0, <1>2, <2>1 DEF WakeupInv, DrainersInv, PopWait
  <2> QED
    BY <2>1, <2>2, WokenFiniteNext DEF WakeupInv, NoLostWakeup
<1>3. ASSUME NEW c \in Consumers, PopItem(c) PROVE WakeupInv'
  <2> DEFINE back == [pc EXCEPT ![c] = "idle"]
  <2>1. /\ shutdown' = shutdown
        /\ Len(queue') = Len(queue) - 1 /\ Len(queue) > 0
        /\ IF Len(queue) = 1 THEN Signal(back, pc') ELSE pc' = back
    BY <1>0, <1>3, HeadTailProperties DEF PopItem
  <2>2. back \in [Callers -> Pcs] /\ \A x \in Callers : x # c => back[x] = pc[x]
    BY <1>0
  <2>3. back[c] = "idle"
    BY <1>0
  <2>4. CASE Len(queue) = 1
    <3>1. \A x \in Callers : x # c => pc'[x] = pc[x] \/ (pc[x] = "waiting" /\ pc'[x] = "woken")
      <4>1. Signal(back, pc')
        BY <2>1, <2>4
      <4> HIDE DEF back
      <4> QED
        BY <2>2, <4>1, SignalOne
    <3>2. pc'[c] = "idle"
      <4>1. Signal(back, pc')
        BY <2>1, <2>4
      <4> HIDE DEF back
      <4>2. CASE pc' = back
        BY <2>3, <4>2
      <4>3. ASSUME NEW x \in Callers, back[x] = "waiting",
                   pc' = [back EXCEPT ![x] = "woken"]
            PROVE  pc'[c] = "idle"
        BY <2>2, <2>3, <4>3
      <4>4. \/ pc' = back
            \/ \E x \in Callers : back[x] = "waiting" /\ pc' = [back EXCEPT ![x] = "woken"]
        BY <2>2, <4>1, SignalOne
      <4> QED
        BY <4>2, <4>3, <4>4
    <3>3. Waiting' \subseteq Waiting
      BY <3>1, <3>2 DEF Waiting
    <3>4. DrainersInv'
      BY <2>1, <3>1, <3>2 DEF WakeupInv, DrainersInv
    <3> QED
      BY <2>1, <2>4, <3>3, <3>4, WokenFiniteNext DEF WakeupInv, NoLostWakeup
  <2>5. CASE Len(queue) # 1
    <3>1. pc' = back
      BY <2>1, <2>5
    <3>2. Waiting' \subseteq Waiting
      BY <1>0, <3>1 DEF Waiting
    <3>3. Woken' = Woken \ {c}
      BY <1>0, <3>1 DEF Woken
    <3>4. Cardinality(Woken') >= Cardinality(Woken) - 1
      <4>1. CASE c \in Woken
        <5>1. Cardinality(Woken') = Cardinality(Woken) - 1
          BY <3>3, <4>1, WokenFinite, FS_RemoveElement
        <5> QED
          BY <5>1, WokenFinite
      <4>2. CASE c \notin Woken
        <5>1. Woken' = Woken
          BY <3>3, <4>2
        <5> QED
          BY <5>1, WokenFinite
      <4> QED
        BY <4>1, <4>2
    <3>5. DrainersInv'
      BY <1>0, <2>1, <3>1 DEF WakeupInv, DrainersInv
    <3>6. Waiting # {} /\ Waiting \cap Consumers # {} => Len(queue') <= Cardinality(Woken')
      BY <1>0, <2>1, <3>4, WokenFinite, WokenFiniteNext DEF WakeupInv, NoLostWakeup
    <3> QED
      BY <2>1, <3>2, <3>5, <3>6 DEF WakeupInv, NoLostWakeup
  <2> QED
    BY <2>4, <2>5
<1>4. ASSUME NEW c \in Consumers, PopEmpty(c) PROVE WakeupInv'
  <2>1. shutdown /\ shutdown' = shutdown /\ Waiting \cap Consumers = {}
    BY <1>4 DEF PopEmpty, WakeupInv, NoLostWakeup
  <2>2. Waiting' \cap Consumers = {}
    BY <1>0, <1>4, <2>1 DEF PopEmpty, Waiting
  <2> QED
    BY <2>1, <2>2 DEF WakeupInv, NoLostWakeup, DrainersInv
<1>5. CASE Shutdown
  <2>1. shutdown' /\ Waiting' = {}
    BY <1>5 DEF Shutdown, Broadcast, Waiting
  <2> QED
    BY <2>1 DEF WakeupInv, NoLostWakeup, DrainersInv
<1>6. ASSUME NEW d \in Drainers, DrainCall(d) PROVE WakeupInv'
  <2>1. shutdown' /\ Waiting' \subseteq {d}
    BY <1>6 DEF DrainCall, Broadcast, Waiting
  <2> QED
    BY <2>1 DEF WakeupInv, NoLostWakeup, DrainersInv
<1>7. ASSUME NEW d \in Drainers, DrainWake(d) PROVE WakeupInv'
  <2>1. shutdown /\ shutdown' = shutdown
    BY <1>7 DEF DrainWake, WakeupInv, DrainersInv
  <2>2. Waiting \cap Consumers = {}
    BY <2>1 DEF WakeupInv, NoLostWakeup
  <2>3. Waiting' \cap Consumers = {}
    BY <1>0, <1>7, <2>2 DEF DrainWake, Waiting
  <2> QED
    BY <2>1, <2>3 DEF WakeupInv, NoLostWakeup, DrainersInv
<1>8. CASE UNCHANGED vars
  BY <1>8 DEF vars, WakeupInv, NoLostWakeup, DrainersInv, Waiting, Woken
<1> QED
  BY <1>1, <1>2, <1>3, <1>4, <1>5, <1>6, <1>7, <1>8 DEF Next, Pop

\* While a consumer waits, every queued element has a notified goroutine.
THEOREM WakeupCorrect == Spec => []NoLostWakeup
<1>1. Init => WakeupInv
  BY DEF Init, WakeupInv, DrainersInv, NoLostWakeup, Waiting, Callers
<1>2. TypeOK /\ TypeOK' /\ WakeupInv /\ [Next]_vars => WakeupInv'
  BY WakeupStep
<1>3. WakeupInv => NoLostWakeup
  BY DEF WakeupInv
<1> QED
  BY <1>1, <1>2, <1>3, TypeCorrect, PTL DEF Spec

-----------------------------------------------------------------------------
\* A drained queue stays empty.

\* A drainer that has returned left an empty queue, and the shutdown that it
\* began keeps it so.
EmptyInv == DrainersInv /\ \A d \in Drainers : pc[d] = "done" => queue = <<>>

\* Who has returned from ShutdownWithDrained: a signal adds nobody.
LEMMA SignalKeepsDone ==
  ASSUME NEW before \in [Callers -> Pcs], NEW after, Signal(before, after),
         NEW d \in Callers, after[d] = "done"
  PROVE  before[d] = "done"
<1>1. CASE after = before
  BY <1>1
<1>2. ASSUME NEW c \in Callers, after = [before EXCEPT ![c] = "woken"]
      PROVE  before[d] = "done"
  BY <1>2
<1> QED
  BY <1>1, <1>2, SignalOne

LEMMA EmptyStep ==
  ASSUME TypeOK, TypeOK', EmptyInv, [Next]_vars
  PROVE  /\ EmptyInv'
         /\ \A d \in Drainers : pc[d] = "done" => queue = <<>> /\ queue' = <<>>
<1> DEFINE Goal == /\ EmptyInv'
                   /\ \A d \in Drainers :
                        pc[d] = "done" => queue = <<>> /\ queue' = <<>>
<1> USE QueueAssumption
<1>0. pc \in [Callers -> Pcs] /\ queue \in Seq(Items)
  BY DEF TypeOK
<1>1. ASSUME NEW e \in Items, Push(e) PROVE Goal
  <2>1. CASE shutdown
    BY <1>1, <2>1 DEF Push, EmptyInv, DrainersInv
  <2>2. CASE ~shutdown
    <3>1. Signal(pc, pc') /\ shutdown' = shutdown
      BY <1>1, <2>2 DEF Push
    <3>2. \A d \in Drainers : pc[d] = "idle"
      BY <2>2 DEF EmptyInv, DrainersInv
    <3>3. pc' = pc \/ \E c \in Callers : /\ pc[c] = "waiting"
                                        /\ pc' = [pc EXCEPT ![c] = "woken"]
      BY <1>0, <3>1, SignalOne
    <3>4. \A d \in Drainers : pc'[d] = "idle"
      BY <1>0, <3>2, <3>3 DEF Callers
    <3> QED
      BY <3>1, <3>2, <3>4 DEF EmptyInv, DrainersInv
  <2> QED
    BY <2>1, <2>2
<1>2. ASSUME NEW c \in Consumers, PopWait(c) PROVE Goal
  BY <1>0, <1>2 DEF PopWait, EmptyInv, DrainersInv, Callers
<1>3. ASSUME NEW c \in Consumers, PopItem(c) PROVE Goal
  <2> DEFINE back == [pc EXCEPT ![c] = "idle"]
  <2>1. /\ back \in [Callers -> Pcs]
        /\ \A d \in Drainers : back[d] = pc[d]
    BY <1>0 DEF Callers, Pcs
  <2>2. Signal(back, pc') \/ pc' = back
    BY <1>3 DEF PopItem
  <2>3. queue # <<>> /\ shutdown' = shutdown
    BY <1>3 DEF PopItem
  <2>4. \A d \in Drainers : pc[d] # "done"
    BY <2>3 DEF EmptyInv
  <2> HIDE DEF back
  <2>5. \A d \in Drainers : pc'[d] # "done"
    BY <2>1, <2>2, <2>4, SignalKeepsDone DEF Callers
  <2>6. ASSUME ~shutdown, NEW d \in Drainers PROVE pc'[d] = "idle"
    <3>1. back[d] = "idle"
      BY <2>1, <2>6 DEF EmptyInv, DrainersInv
    <3> QED
      BY <2>1, <2>2, <3>1, SignalOne DEF Callers
  <2> QED
    BY <2>3, <2>4, <2>5, <2>6 DEF EmptyInv, DrainersInv
<1>4. ASSUME NEW c \in Consumers, PopEmpty(c) PROVE Goal
  BY <1>0, <1>4 DEF PopEmpty, EmptyInv, DrainersInv, Callers
<1>5. ASSUME Shutdown PROVE Goal
  BY <1>0, <1>5 DEF Shutdown, Broadcast, EmptyInv, DrainersInv, Callers
<1>6. ASSUME NEW d \in Drainers, DrainCall(d) PROVE Goal
  BY <1>0, <1>6 DEF DrainCall, Broadcast, EmptyInv, DrainersInv, Callers
<1>7. ASSUME NEW d \in Drainers, DrainWake(d) PROVE Goal
  BY <1>0, <1>7 DEF DrainWake, EmptyInv, DrainersInv, Callers
<1>8. CASE UNCHANGED vars
  BY <1>8 DEF vars, EmptyInv, DrainersInv
<1> QED
  BY <1>1, <1>2, <1>3, <1>4, <1>5, <1>6, <1>7, <1>8 DEF Next, Pop

\* Once ShutdownWithDrained has returned the queue is empty for good.
THEOREM DrainedCorrect == Spec => DrainedForGood
<1>1. Init => EmptyInv
  BY DEF Init, EmptyInv, DrainersInv, Callers
<1>2. TypeOK /\ TypeOK' /\ EmptyInv /\ [Next]_vars => EmptyInv'
  BY EmptyStep
<1>3. /\ TypeOK /\ TypeOK' /\ EmptyInv /\ [Next]_vars
      => [\A d \in Drainers : pc[d] = "done" => queue = <<>> /\ queue' = <<>>]_vars
  BY EmptyStep
<1> QED
  BY <1>1, <1>2, <1>3, TypeCorrect, PTL DEF Spec, DrainedForGood


-----------------------------------------------------------------------------
\* The delaying queue is a blocking queue.

LEMMA QueueStep == [DelayNext]_allVars => [Next]_vars
<1> SUFFICES ASSUME [DelayNext]_allVars
             PROVE  [Next]_vars
  OBVIOUS
<1>1. ASSUME NEW e \in Items, PushNow(e) \/ Callback(e) PROVE Next
  <2>1. Push(e)
    BY <1>1 DEF PushNow, Callback
  <2> QED
    BY <2>1 DEF Next
<1>2. ASSUME NEW e \in Items, PushAfterCheck(e) \/ PushAfterSet(e) \/ Expire(e)
      PROVE  UNCHANGED vars
  BY <1>2 DEF PushAfterCheck, PushAfterSet, Expire
<1>3. CASE ShutdownQueue
  BY <1>3 DEF ShutdownQueue, Next
<1>4. CASE ShutdownScheduler
  BY <1>4 DEF ShutdownScheduler
<1>5. ASSUME NEW c \in Consumers, Pop(c) PROVE Next
  BY <1>5 DEF Next
<1>6. ASSUME NEW d \in Drainers, DrainCall(d) \/ DrainWake(d) PROVE Next
  BY <1>6 DEF Next
<1>7. CASE UNCHANGED allVars
  BY <1>7 DEF allVars
<1> QED
  BY <1>1, <1>2, <1>3, <1>4, <1>5, <1>6, <1>7 DEF DelayNext

\* PushAfter, the callbacks of the timers and the scheduler's shutdown touch the
\* embedded queue only through its methods (delayingqueue.go:31-52).
THEOREM ImplementsQueue == DelaySpec => Spec
<1>1. DelayInit => Init
  BY DEF DelayInit
<1> QED
  BY <1>1, QueueStep, PTL DEF DelaySpec, Spec

\* Items that arrive from callbacks are popped once, in the order in which they
\* were pushed, or still queued (delayingqueue.go:45).
THEOREM DelayedInOrder == DelaySpec => []FirstInFirstOut
  BY ImplementsQueue, FifoCorrect, PTL

\* A consumer that waits is woken by a delayed push as by any other.
THEOREM DelayedWakeups == DelaySpec => []NoLostWakeup
  BY ImplementsQueue, WakeupCorrect, PTL

\* No callback of a delayed push brings an item into a queue that a caller of
\* ShutdownWithDrained has seen empty.
THEOREM DelayedDrained == DelaySpec => DrainedForGood
  BY ImplementsQueue, DrainedCorrect, PTL

-----------------------------------------------------------------------------
\* The way of an item.

\* Push makes its item a pushed one and no other.
LEMMA PushMarks ==
  ASSUME TypeOK, NEW e \in Items, Push(e)
  PROVE  ~Pushed(e) /\ \A x \in Items : Pushed(x)' <=> Pushed(x) \/ x = e
<1>1. CASE shutdown
  BY <1>1 DEF Push, Pushed
<1>2. CASE ~shutdown
  <2>1. accepted' = Append(accepted, e) /\ dropped' = dropped /\ accepted \in Seq(Items)
    BY <1>2 DEF Push, TypeOK
  <2>2. /\ Len(accepted') = Len(accepted) + 1 /\ accepted'[Len(accepted) + 1] = e
        /\ \A i \in 1..Len(accepted) : accepted'[i] = accepted[i]
        /\ DOMAIN accepted' = 1..Len(accepted) + 1 /\ DOMAIN accepted = 1..Len(accepted)
        /\ Len(accepted) \in Nat
    BY <2>1, AppendProperties
  <2>3. ASSUME NEW x \in Items
        PROVE  (\E i \in DOMAIN accepted' : accepted'[i] = x)
                  <=> (\E i \in DOMAIN accepted : accepted[i] = x) \/ x = e
    BY <2>2
  <2> QED
    BY <1>2, <2>1, <2>3 DEF Push, Pushed
<1> QED
  BY <1>1, <1>2

\* Nobody else marks an item.
LEMMA OthersMarkNothing ==
  ASSUME UNCHANGED <<accepted, dropped>>
  PROVE  \A x \in Items : Pushed(x)' <=> Pushed(x)
  BY DEF Pushed

LateInv == DelayTypeOK /\ LateIsRefused

LEMMA LateStep == TypeOK /\ LateInv /\ [DelayNext]_allVars => LateInv'
<1> SUFFICES ASSUME TypeOK, LateInv, [DelayNext]_allVars
             PROVE  LateInv'
  OBVIOUS
<1> USE DEF LateInv, DelayTypeOK, LateIsRefused, Becomes, Stages
<1>1. ASSUME NEW e \in Items, PushNow(e) \/ Callback(e) PROVE LateInv'
  <2>1. /\ stage[e] \in {"new", "running"} /\ Push(e) /\ stage' = [stage EXCEPT ![e] = "pushed"]
        /\ UNCHANGED <<late, schedDown, closer>>
    BY <1>1 DEF PushNow, Callback
  <2>2. \A x \in Items : Pushed(x)' <=> Pushed(x) \/ x = e
    BY <2>1, PushMarks
  <2>3. \A x \in Items : stage'[x] = "pushed" <=> Pushed(x)'
    BY <2>1, <2>2
  <2>4. \A x \in late' : stage'[x] = "refused"
    BY <2>1
  <2> QED
    BY <2>1, <2>3, <2>4
<1>2. ASSUME NEW e \in Items, PushAfterCheck(e) \/ PushAfterSet(e) \/ Expire(e)
      PROVE  LateInv'
  <2>1. /\ stage[e] \in {"new", "checked", "set"} /\ UNCHANGED <<vars, schedDown, closer>>
        /\ \E s \in {"refused", "checked", "panic", "set", "running", "lost"} :
              /\ stage' = [stage EXCEPT ![e] = s]
              /\ late' = late \/ (late' = late \cup {e} /\ s = "refused")
    BY <1>2 DEF PushAfterCheck, PushAfterSet, Expire
  <2>2. PICK s \in {"refused", "checked", "panic", "set", "running", "lost"} :
              /\ stage' = [stage EXCEPT ![e] = s]
              /\ late' = late \/ (late' = late \cup {e} /\ s = "refused")
    BY <2>1
  <2>3. \A x \in Items : Pushed(x)' <=> Pushed(x)
    BY <2>1, OthersMarkNothing DEF vars
  <2>4. stage' \in [Items -> Stages] /\ \A x \in Items : stage'[x] = "pushed" <=> Pushed(x)'
    BY <2>1, <2>2, <2>3
  <2>5. late' \subseteq Items /\ \A x \in late' : stage'[x] = "refused"
    BY <2>1, <2>2
  <2> QED
    BY <2>1, <2>4, <2>5
<1>3. ASSUME UNCHANGED <<stage, late, accepted, dropped>>, schedDown' \in BOOLEAN,
             closer' \in {"open", "queue", "done"}
      PROVE  LateInv'
  BY <1>3, OthersMarkNothing
<1>4. CASE ShutdownQueue
  BY <1>3, <1>4 DEF ShutdownQueue, Shutdown
<1>5. CASE ShutdownScheduler
  <2>1. UNCHANGED <<stage, late, accepted, dropped>> /\ schedDown' = TRUE
        /\ closer' \in {"open", "queue", "done"}
    BY <1>5 DEF ShutdownScheduler, vars
  <2> QED
    BY <1>3, <2>1
<1>6. ASSUME NEW c \in Consumers, Pop(c), UNCHANGED delayVars PROVE LateInv'
  BY <1>3, <1>6 DEF Pop, PopWait, PopItem, PopEmpty, delayVars
<1>7. ASSUME NEW d \in Drainers, DrainCall(d) \/ DrainWake(d), UNCHANGED delayVars
      PROVE  LateInv'
  BY <1>3, <1>7 DEF DrainCall, DrainWake, delayVars
<1>8. CASE UNCHANGED allVars
  BY <1>3, <1>8 DEF allVars, vars, delayVars
<1> QED
  BY <1>1, <1>2, <1>4, <1>5, <1>6, <1>7, <1>8 DEF DelayNext

LEMMA LateAlways == DelaySpec => []LateInv
<1>1. DelayInit => LateInv
  <2> SUFFICES ASSUME DelayInit
               PROVE  LateInv
    OBVIOUS
  <2>1. \A e \in Items : ~Pushed(e)
    BY DEF DelayInit, Init, Pushed
  <2> QED
    BY <2>1 DEF DelayInit, LateInv, DelayTypeOK, LateIsRefused, Stages
<1>2. DelaySpec => []TypeOK
  BY ImplementsQueue, TypeCorrect, PTL
<1> QED
  BY <1>1, <1>2, LateStep, PTL DEF DelaySpec

\* Types; an item counts as pushed exactly if Push has seen it, so that a
\* callback never pushes an item a second time.
THEOREM DelayTypeCorrect == DelaySpec => []DelayTypeOK
<1>1. LateInv => DelayTypeOK
  BY DEF LateInv
<1> QED
  BY <1>1, LateAlways, PTL

\* PushAfter that begins after the scheduler's shutdown returns without a timer: it
\* reaches SetTimer, which would panic, only in a race (delayingqueue.go:40).
THEOREM LateCorrect == DelaySpec => []LateIsRefused
<1>1. LateInv => LateIsRefused
  BY DEF LateInv
<1> QED
  BY <1>1, LateAlways, PTL

-----------------------------------------------------------------------------
\* The invariant of the containers.

SliceRecs == [back : Seq(Elements \cup {Zero}), lo : Nat, hi : Nat]

\* The elements of a slice.
Holds(s) == {s.back[c] : c \in (s.lo + 1)..s.hi}

\* A slice of elements, each in it once, over an array that is clear elsewhere.
SliceInv(s) ==
    /\ s \in SliceRecs
    /\ s.lo <= s.hi /\ s.hi <= Len(s.back)
    /\ \A c \in (s.lo + 1)..s.hi : s.back[c] \in Elements
    /\ \A c, d \in (s.lo + 1)..s.hi : s.back[c] = s.back[d] => c = d
    /\ \A c \in Outside(s) : s.back[c] = Zero

Key(h, k) == Priority[At(h, k)]

\* No element of the heap precedes its parent.
HeapOrder(h) == \A k \in 1..(Len_(h) - 1) : Key(h, (k - 1) \div 2) <= Key(h, k)

\* Every element is in one place.
PlacesInv ==
    /\ held \cup Holds(elems) \cup Holds(arr) = Elements
    /\ held \cap Holds(elems) = {}
    /\ held \cap Holds(arr) = {}
    /\ Holds(elems) \cap Holds(arr) = {}

ContInv ==
    /\ SliceInv(elems)
    /\ SliceInv(arr) /\ arr.lo = 0 /\ HeapOrder(arr)
    /\ PlacesInv

-----------------------------------------------------------------------------
\* The operations of slices.

LEMMA NilInv == SliceInv(Nil) /\ Holds(Nil) = {} /\ HeapOrder(Nil) /\ Nil.lo = 0
<1>1. <<>> \in Seq(Elements \cup {Zero}) /\ Len(<<>>) = 0 /\ DOMAIN <<>> = {}
  OBVIOUS
<1> QED BY <1>1 DEF SliceInv, SliceRecs, Nil, Holds, HeapOrder, Outside, Len_

LEMMA OnWindow ==
  ASSUME NEW b, NEW l \in Int, NEW h \in Int, NEW from \in Int, NEW to \in Int
  PROVE  Window([back |-> b, lo |-> l, hi |-> h], from, to) =
            [back |-> b, lo |-> l + from, hi |-> l + to]
<1> DEFINE s == [back |-> b, lo |-> l, hi |-> h]
<1>1. s.back = b /\ s.lo = l /\ s.hi = h
  OBVIOUS
<1>2. Window(s, from, to) = [[s EXCEPT !.lo = s.lo + from] EXCEPT !.hi = s.lo + to]
  BY DEF Window
<1>3. [s EXCEPT !.lo = s.lo + from] = [back |-> b, lo |-> l + from, hi |-> h]
  BY <1>1
<1> HIDE DEF s
<1>4. Window(s, from, to) = [[back |-> b, lo |-> l + from, hi |-> h] EXCEPT !.hi = l + to]
  BY <1>1, <1>2, <1>3
<1> QED BY <1>4 DEF s

\* An append in place or in a larger array adds one element behind the others.
LEMMA Appended ==
  ASSUME NEW s, SliceInv(s), NEW e \in Elements, e \notin Holds(s), NEW spare \in 0..1
  PROVE  LET t == AppendTo(s, e, spare) IN
         /\ SliceInv(t)
         /\ Holds(t) = Holds(s) \cup {e}
         /\ Len_(t) = Len_(s) + 1
         /\ s.lo = 0 => t.lo = 0
         /\ \A k \in 0..(Len_(s) - 1) : At(t, k) = At(s, k)
<1> DEFINE t == AppendTo(s, e, spare)
           V == Elements \cup {Zero}
<1>1. /\ s.back \in Seq(V) /\ s.lo \in Nat /\ s.hi \in Nat /\ s.lo <= s.hi
      /\ s.hi <= Len(s.back) /\ e \in V /\ DOMAIN s.back = 1..Len(s.back)
      /\ Len(s.back) \in Nat
  BY DEF SliceInv, SliceRecs
<1>2. CASE s.hi < Len(s.back)
  <2>1. t = [s EXCEPT !.back[s.hi + 1] = e, !.hi = @ + 1]
    BY <1>2 DEF AppendTo
  <2> HIDE DEF t
  <2>2. /\ t = [back |-> [s.back EXCEPT ![s.hi + 1] = e], lo |-> s.lo, hi |-> s.hi + 1]
        /\ t \in SliceRecs
    <3>1. [s.back EXCEPT ![s.hi + 1] = e] \in Seq(V)
      BY <1>1, <1>2
    <3>2. s = [back |-> s.back, lo |-> s.lo, hi |-> s.hi]
      BY DEF SliceInv, SliceRecs
    <3>3. t = [back |-> [s.back EXCEPT ![s.hi + 1] = e], lo |-> s.lo, hi |-> s.hi + 1]
      BY <2>1, <3>2
    <3> QED BY <3>1, <3>3, <1>1 DEF SliceRecs
  <2>3. /\ t.lo = s.lo /\ t.hi = s.hi + 1
        /\ Len(t.back) = Len(s.back) /\ DOMAIN t.back = DOMAIN s.back
        /\ \A c \in DOMAIN s.back : t.back[c] = IF c = s.hi + 1 THEN e ELSE s.back[c]
    BY <2>2, <1>1
  <2>c. \A c \in (s.lo + 1)..s.hi : c \in DOMAIN s.back /\ c # s.hi + 1
    BY <1>1, <1>2
  <2>d. \A c : c \in (t.lo + 1)..t.hi <=> c \in (s.lo + 1)..s.hi \/ c = s.hi + 1
    BY <2>3, <1>1
  <2>4. /\ \A c \in (s.lo + 1)..s.hi : t.back[c] = s.back[c]
        /\ t.back[s.hi + 1] = e
    <3>1. s.hi + 1 \in DOMAIN s.back
      BY <1>1, <1>2
    <3> QED BY <2>3, <2>c, <3>1
  <2>5. Holds(t) = Holds(s) \cup {e}
    BY <2>4, <2>d DEF Holds
  <2>6. \A c \in (t.lo + 1)..t.hi : t.back[c] \in Elements
    BY <2>4, <2>d DEF SliceInv
  <2>7. \A c, d \in (t.lo + 1)..t.hi : t.back[c] = t.back[d] => c = d
    <3>1. \A c \in (s.lo + 1)..s.hi : s.back[c] # e
      BY DEF Holds
    <3> QED BY <2>4, <2>d, <3>1 DEF SliceInv
  <2>8. \A c \in Outside(t) : t.back[c] = Zero
    <3>1. \A c \in Outside(s) : s.back[c] = Zero
      BY DEF SliceInv
    <3> QED BY <2>3, <3>1, <1>1, <1>2 DEF Outside
  <2>9. SliceInv(t)
    <3>1. t.lo <= t.hi /\ t.hi <= Len(t.back)
      BY <2>3, <1>1, <1>2
    <3> QED BY <2>2, <2>6, <2>7, <2>8, <3>1 DEF SliceInv
  <2>10. Len_(t) = Len_(s) + 1
    BY <2>3, <1>1 DEF Len_
  <2>11. \A k \in 0..(Len_(s) - 1) : At(t, k) = At(s, k)
    <3>1. \A k \in 0..(Len_(s) - 1) : s.lo + k + 1 \in (s.lo + 1)..s.hi
      BY <1>1 DEF Len_
    <3> QED BY <2>3, <2>4, <3>1 DEF At
  <2> QED BY <2>3, <2>5, <2>9, <2>10, <2>11 DEF t
<1>3. CASE s.hi = Len(s.back)
  <2> DEFINE b == Elems(s) \o <<e>> \o Zeros(spare)
             l == s.hi - s.lo
  <2>1. t = [back |-> b, lo |-> 0, hi |-> l + 1]
    BY <1>3, <1>1 DEF AppendTo, Len_
  <2>2. /\ Elems(s) \in Seq(V) /\ Len(Elems(s)) = l
        /\ \A c \in 1..l : Elems(s)[c] = s.back[s.lo + c]
    <3> DEFINE lo == s.lo
               hi == s.hi
               w == s.back
    <3>1. w \in Seq(V) /\ lo \in Nat /\ hi \in Nat /\ lo <= hi /\ hi <= Len(w) /\ l = hi - lo
      BY <1>1, <1>3
    <3>2. Elems(s) = SubSeq(w, lo + 1, hi)
      BY DEF Elems
    <3> HIDE DEF lo, hi, w, l
    <3>3. /\ SubSeq(w, lo + 1, hi) \in Seq(V) /\ Len(SubSeq(w, lo + 1, hi)) = l
          /\ \A c \in 1..l : SubSeq(w, lo + 1, hi)[c] = w[lo + c]
      BY <3>1
    <3> QED BY <3>2, <3>3 DEF lo, w
  <2>3. /\ Zeros(spare) \in Seq(V) /\ Len(Zeros(spare)) = spare
        /\ \A c \in 1..spare : Zeros(spare)[c] = Zero
    BY DEF Zeros
  <2> HIDE DEF t
  <2>4. /\ b \in Seq(V) /\ Len(b) = l + 1 + spare /\ l \in Nat
        /\ \A c \in 1..l : b[c] = s.back[s.lo + c]
        /\ b[l + 1] = e
        /\ \A c \in (l + 2)..(l + 1 + spare) : b[c] = Zero
    <3> DEFINE a == Elems(s) \o <<e>>
    <3>1. l \in Nat /\ <<e>> \in Seq(V) /\ Len(<<e>>) = 1 /\ <<e>>[1] = e
      BY <1>1
    <3> HIDE DEF l
    <3>2. /\ a \in Seq(V) /\ Len(a) = l + 1
          /\ \A c \in 1..l : a[c] = s.back[s.lo + c]
          /\ a[l + 1] = e
      BY <2>2, <3>1, ConcatProperties
    <3> HIDE DEF a
    <3>3. /\ a \o Zeros(spare) \in Seq(V) /\ Len(a \o Zeros(spare)) = l + 1 + spare
          /\ \A c \in 1..(l + 1 + spare) : (a \o Zeros(spare))[c] =
                IF c <= l + 1 THEN a[c] ELSE Zeros(spare)[c - (l + 1)]
      BY <2>3, <3>1, <3>2, ConcatProperties
    <3>4. \A c \in (l + 2)..(l + 1 + spare) : c - (l + 1) \in 1..spare /\ ~(c <= l + 1)
      BY <3>1
    <3>5. \A c \in (l + 2)..(l + 1 + spare) : (a \o Zeros(spare))[c] = Zero
      BY <3>3, <3>4, <2>3, <3>1
    <3>6. /\ \A c \in 1..l : (a \o Zeros(spare))[c] = s.back[s.lo + c]
          /\ (a \o Zeros(spare))[l + 1] = e
      BY <3>3, <3>2, <3>1
    <3>7. b = a \o Zeros(spare)
      BY DEF a
    <3> QED BY <3>1, <3>3, <3>5, <3>6, <3>7
  <2> HIDE DEF b
  <2>5. \A c \in 1..l : s.lo + c \in (s.lo + 1)..s.hi
    BY <1>1
  <2>6. t.back = b /\ t.lo = 0 /\ t.hi = l + 1 /\ t \in SliceRecs
    BY <2>1, <2>4 DEF SliceRecs
  <2>7. \A c \in 1..l : b[c] # e
    BY <2>4, <2>5 DEF Holds
  <2>8. Holds(t) = Holds(s) \cup {e}
    <3>1. \A c \in (s.lo + 1)..s.hi : c - s.lo \in 1..l /\ s.lo + (c - s.lo) = c
      BY <1>1
    <3>2. Holds(s) = {b[c] : c \in 1..l}
      <4>1. \A x \in Holds(s) : \E c \in 1..l : x = b[c]
        BY <3>1, <2>4 DEF Holds
      <4>2. \A c \in 1..l : b[c] \in Holds(s)
        BY <2>4, <2>5 DEF Holds
      <4> QED BY <4>1, <4>2
    <3>3. \A c : c \in (t.lo + 1)..t.hi <=> c \in 1..l \/ c = l + 1
      BY <2>4, <2>6
    <3>4. Holds(t) = {b[c] : c \in 1..l} \cup {b[l + 1]}
      BY <2>6, <3>3 DEF Holds
    <3> QED BY <3>2, <3>4, <2>4
  <2>9. SliceInv(t)
    <3>1. \A c \in 1..l : b[c] \in Elements
      BY <2>4, <2>5 DEF SliceInv
    <3>2. \A c, d \in 1..l : b[c] = b[d] => c = d
      <4> TAKE c, d \in 1..l
      <4> HAVE b[c] = b[d]
      <4>1. s.back[s.lo + c] = s.back[s.lo + d]
        BY <2>4
      <4>2. \A x, y \in (s.lo + 1)..s.hi : s.back[x] = s.back[y] => x = y
        BY DEF SliceInv
      <4>3. s.lo + c = s.lo + d
        BY <2>5, <4>1, <4>2
      <4> QED BY <4>3, <1>1
    <3>3. \A c : c \in (t.lo + 1)..t.hi <=> c \in 1..l \/ c = l + 1
      BY <2>4, <2>6
    <3>4. \A c \in Outside(t) : t.back[c] = Zero
      <4>1. DOMAIN b = 1..(l + 1 + spare)
        BY <2>4
      <4>2. \A c \in Outside(t) : c \in (l + 2)..(l + 1 + spare)
        BY <4>1, <2>4, <2>6 DEF Outside
      <4> QED BY <4>2, <2>4, <2>6
    <3>5. \A c \in (t.lo + 1)..t.hi : t.back[c] \in Elements
      BY <3>1, <3>3, <2>4, <2>6
    <3>6. \A c, d \in (t.lo + 1)..t.hi : t.back[c] = t.back[d] => c = d
      BY <3>2, <3>3, <2>4, <2>6, <2>7
    <3>7. t.lo <= t.hi /\ t.hi <= Len(t.back)
      BY <2>4, <2>6
    <3> QED BY <3>4, <3>5, <3>6, <3>7, <2>6 DEF SliceInv
  <2>10. Len_(s) = l /\ Len_(t) = l + 1
    BY <2>4, <2>6 DEF Len_
  <2>11. \A k \in 0..(l - 1) : At(t, k) = At(s, k)
    <3> TAKE k \in 0..(l - 1)
    <3>1. l \in Nat /\ s.lo \in Nat
      BY <2>4, <1>1
    <3> HIDE DEF l
    <3>2. k + 1 \in 1..l /\ s.lo + (k + 1) = s.lo + k + 1 /\ 0 + k + 1 = k + 1
      BY <3>1
    <3> QED BY <3>2, <2>4, <2>6 DEF At
  <2> QED BY <2>6, <2>8, <2>9, <2>10, <2>11 DEF t
<1> QED BY <1>1, <1>2, <1>3

\* A slice without its first element, whose cell is cleared.
LEMMA Shortened ==
  ASSUME NEW s, SliceInv(s), Len_(s) > 0
  PROVE  LET t == Window(Put(s, 0, Zero), 1, Len_(s)) IN
         SliceInv(t) /\ Holds(t) = Holds(s) \ {At(s, 0)} /\ At(s, 0) \in Holds(s)
<1> DEFINE t == Window(Put(s, 0, Zero), 1, Len_(s))
           V == Elements \cup {Zero}
<1>1. /\ s.back \in Seq(V) /\ s.lo \in Nat /\ s.hi \in Nat /\ s.lo < s.hi
      /\ s.hi <= Len(s.back) /\ Zero \in V /\ DOMAIN s.back = 1..Len(s.back)
      /\ Len(s.back) \in Nat
  BY DEF SliceInv, SliceRecs, Len_
<1>2. /\ t = [back |-> [s.back EXCEPT ![s.lo + 1] = Zero], lo |-> s.lo + 1, hi |-> s.hi]
      /\ t \in SliceRecs
  <2>1. [s.back EXCEPT ![s.lo + 1] = Zero] \in Seq(V)
    BY <1>1
  <2>2. s = [back |-> s.back, lo |-> s.lo, hi |-> s.hi]
    BY DEF SliceInv, SliceRecs
  <2>3. s.lo + 0 + 1 = s.lo + 1 /\ s.lo + (s.hi - s.lo) = s.hi
    BY <1>1
  <2>4. Put(s, 0, Zero) = [back |-> [s.back EXCEPT ![s.lo + 1] = Zero], lo |-> s.lo, hi |-> s.hi]
    BY <2>2, <2>3 DEF Put
  <2> HIDE DEF V
  <2>5. t = [back |-> [s.back EXCEPT ![s.lo + 1] = Zero], lo |-> s.lo + 1, hi |-> s.hi]
    <3> DEFINE b == [s.back EXCEPT ![s.lo + 1] = Zero]
    <3>1. Put(s, 0, Zero) = [back |-> b, lo |-> s.lo, hi |-> s.hi]
      BY <2>4
    <3>2. t = Window([back |-> b, lo |-> s.lo, hi |-> s.hi], 1, s.hi - s.lo)
      BY <3>1 DEF Len_
    <3> HIDE DEF b, t
    <3>3. t = [back |-> b, lo |-> s.lo + 1, hi |-> s.lo + (s.hi - s.lo)]
      BY <3>2, <1>1, OnWindow
    <3> QED BY <2>3, <3>3 DEF b
  <2> HIDE DEF t
  <2> QED BY <2>1, <2>5, <1>1 DEF SliceRecs, V
<1> HIDE DEF t
<1>3. /\ t.lo = s.lo + 1 /\ t.hi = s.hi
      /\ Len(t.back) = Len(s.back) /\ DOMAIN t.back = DOMAIN s.back
      /\ \A c \in DOMAIN s.back : t.back[c] = IF c = s.lo + 1 THEN Zero ELSE s.back[c]
  BY <1>1, <1>2
<1>4. At(s, 0) = s.back[s.lo + 1]
  BY <1>1 DEF At
<1>5. Holds(t) = Holds(s) \ {At(s, 0)}
  <2>1. \A c : c \in (t.lo + 1)..t.hi <=> c \in (s.lo + 1)..s.hi /\ c # s.lo + 1
    BY <1>1, <1>3
  <2>2. \A c \in (s.lo + 1)..s.hi : c # s.lo + 1 => s.back[c] # s.back[s.lo + 1]
    <3>1. s.lo + 1 \in (s.lo + 1)..s.hi
      BY <1>1
    <3> QED BY <3>1 DEF SliceInv
  <2>3. \A c \in (t.lo + 1)..t.hi : t.back[c] = s.back[c]
    BY <1>1, <1>3
  <2> QED BY <2>1, <2>2, <2>3, <1>4 DEF Holds
<1>6. At(s, 0) \in Holds(s)
  BY <1>1, <1>4 DEF Holds
<1>7. SliceInv(t)
  <2>1. \A c \in Outside(t) : t.back[c] = Zero
    <3>1. \A c \in Outside(s) : s.back[c] = Zero
      BY DEF SliceInv
    <3> QED BY <1>1, <1>3, <3>1 DEF Outside
  <2>2. \A c \in (t.lo + 1)..t.hi : c \in (s.lo + 1)..s.hi /\ t.back[c] = s.back[c]
    BY <1>1, <1>3
  <2>3. /\ \A c \in (t.lo + 1)..t.hi : t.back[c] \in Elements
        /\ \A c, d \in (t.lo + 1)..t.hi : t.back[c] = t.back[d] => c = d
    BY <2>2 DEF SliceInv
  <2>4. t.lo <= t.hi /\ t.hi <= Len(t.back)
    BY <1>1, <1>3
  <2> QED BY <2>1, <2>3, <2>4, <1>2 DEF SliceInv
<1> QED BY <1>5, <1>6, <1>7 DEF t
-----------------------------------------------------------------------------
\* Cells and swaps of the array of the heap, whose window starts at 0.

LEMMA PutCell ==
  ASSUME NEW s \in SliceRecs, s.lo = 0, NEW i \in 0..(Len(s.back) - 1),
         NEW v \in Elements \cup {Zero}
  PROVE  LET t == Put(s, i, v) IN
         /\ t \in SliceRecs /\ t.lo = 0 /\ t.hi = s.hi
         /\ Len(t.back) = Len(s.back) /\ DOMAIN t.back = DOMAIN s.back
         /\ \A c \in DOMAIN s.back : t.back[c] = IF c = i + 1 THEN v ELSE s.back[c]
<1> DEFINE b == [s.back EXCEPT ![i + 1] = v]
<1>1. s.back \in Seq(Elements \cup {Zero}) /\ DOMAIN s.back = 1..Len(s.back)
  BY DEF SliceRecs
<1>2. /\ b \in Seq(Elements \cup {Zero}) /\ Len(b) = Len(s.back) /\ DOMAIN b = DOMAIN s.back
      /\ \A c \in DOMAIN s.back : b[c] = IF c = i + 1 THEN v ELSE s.back[c]
  BY <1>1
<1>3. s = [back |-> s.back, lo |-> s.lo, hi |-> s.hi] /\ s.lo + i + 1 = i + 1
  BY DEF SliceRecs
<1>4. Put(s, i, v) = [back |-> b, lo |-> s.lo, hi |-> s.hi]
  BY <1>3 DEF Put
<1> HIDE DEF b
<1> QED BY <1>2, <1>4 DEF SliceRecs

LEMMA Swapped ==
  ASSUME NEW h \in SliceRecs, h.lo = 0,
         NEW a \in 0..(Len(h.back) - 1), NEW b \in 0..(Len(h.back) - 1)
  PROVE  LET g == Swap(h, a, b) IN
         /\ g \in SliceRecs /\ g.lo = 0 /\ g.hi = h.hi
         /\ Len(g.back) = Len(h.back) /\ DOMAIN g.back = DOMAIN h.back
         /\ \A c \in DOMAIN h.back : g.back[c] =
               IF c = a + 1 THEN h.back[b + 1]
               ELSE IF c = b + 1 THEN h.back[a + 1] ELSE h.back[c]
<1> DEFINE p == Put(h, a, At(h, b))
<1>1. DOMAIN h.back = 1..Len(h.back) /\ Len(h.back) \in Nat
  BY DEF SliceRecs
<1>2. /\ At(h, a) = h.back[a + 1] /\ At(h, b) = h.back[b + 1]
      /\ a + 1 \in DOMAIN h.back /\ b + 1 \in DOMAIN h.back
      /\ At(h, a) \in Elements \cup {Zero} /\ At(h, b) \in Elements \cup {Zero}
  BY <1>1 DEF At, SliceRecs
<1>3. /\ p \in SliceRecs /\ p.lo = 0 /\ p.hi = h.hi
      /\ Len(p.back) = Len(h.back) /\ DOMAIN p.back = DOMAIN h.back
      /\ \A c \in DOMAIN h.back : p.back[c] = IF c = a + 1 THEN h.back[b + 1] ELSE h.back[c]
  BY <1>2, PutCell
<1>4. Swap(h, a, b) = Put(p, b, At(h, a))
  BY DEF Swap
<1> HIDE DEF p
<1>5. LET g == Swap(h, a, b) IN
      /\ g \in SliceRecs /\ g.lo = 0 /\ g.hi = h.hi
      /\ Len(g.back) = Len(h.back) /\ DOMAIN g.back = DOMAIN h.back
      /\ \A c \in DOMAIN h.back : g.back[c] = IF c = b + 1 THEN h.back[a + 1] ELSE p.back[c]
  BY <1>2, <1>3, <1>4, PutCell
<1>6. a + 1 = b + 1 => h.back[a + 1] = h.back[b + 1]
  OBVIOUS
<1> QED BY <1>3, <1>5, <1>6

\* g is h with its first n cells, of different elements, in another order.
Rearranged(g, h, n) ==
    /\ g \in SliceRecs /\ g.lo = 0 /\ g.hi = h.hi
    /\ Len(g.back) = Len(h.back) /\ DOMAIN g.back = DOMAIN h.back
    /\ \A c \in DOMAIN h.back : c > n => g.back[c] = h.back[c]
    /\ \A c \in 1..n : \E d \in 1..n : g.back[c] = h.back[d]
    /\ \A d \in 1..n : \E c \in 1..n : g.back[c] = h.back[d]
    /\ \A c, d \in 1..n : g.back[c] = g.back[d] => c = d

LEMMA RearrangedStart ==
  ASSUME NEW h, SliceInv(h), h.lo = 0, NEW n \in 0..h.hi
  PROVE  Rearranged(h, h, n)
<1>1. 1..n \subseteq (h.lo + 1)..h.hi
  BY DEF SliceInv, SliceRecs
<1> QED BY <1>1 DEF Rearranged, SliceInv

LEMMA SwapRearranges ==
  ASSUME NEW h, SliceInv(h), h.lo = 0, NEW n \in 0..h.hi, NEW g, Rearranged(g, h, n),
         NEW a \in 0..(n - 1), NEW b \in 0..(n - 1)
  PROVE  Rearranged(Swap(g, a, b), h, n)
<1> DEFINE s == Swap(g, a, b)
           to == [c \in 1..n |-> IF c = a + 1 THEN b + 1 ELSE IF c = b + 1 THEN a + 1 ELSE c]
<1>1. /\ h.hi \in Nat /\ h.hi <= Len(h.back) /\ Len(h.back) \in Nat
      /\ DOMAIN h.back = 1..Len(h.back)
  BY DEF SliceInv, SliceRecs
<1>2. /\ s \in SliceRecs /\ s.lo = 0 /\ s.hi = h.hi
      /\ Len(s.back) = Len(h.back) /\ DOMAIN s.back = DOMAIN h.back
      /\ \A c \in DOMAIN h.back : s.back[c] =
            IF c = a + 1 THEN g.back[b + 1]
            ELSE IF c = b + 1 THEN g.back[a + 1] ELSE g.back[c]
  <2>1. a \in 0..(Len(g.back) - 1) /\ b \in 0..(Len(g.back) - 1)
    <3>1. Len(g.back) = Len(h.back)
      BY DEF Rearranged
    <3> QED BY <1>1, <3>1
  <2>2. g \in SliceRecs /\ g.lo = 0 /\ g.hi = h.hi /\ Len(g.back) = Len(h.back)
        /\ DOMAIN g.back = DOMAIN h.back
    BY DEF Rearranged
  <2>3. a \in 0..(Len(g.back) - 1) /\ b \in 0..(Len(g.back) - 1) => LET q == Swap(g, a, b) IN
        /\ q \in SliceRecs /\ q.lo = 0 /\ q.hi = g.hi
        /\ Len(q.back) = Len(g.back) /\ DOMAIN q.back = DOMAIN g.back
        /\ \A c \in DOMAIN g.back : q.back[c] =
              IF c = a + 1 THEN g.back[b + 1]
              ELSE IF c = b + 1 THEN g.back[a + 1] ELSE g.back[c]
    BY <2>2, Swapped
  <2> HIDE DEF s
  <2> QED BY <2>1, <2>2, <2>3 DEF s
<1> HIDE DEF s
<1>3. /\ \A c \in 1..n : to[c] \in 1..n
      /\ \A c \in 1..n : to[to[c]] = c
      /\ \A c \in 1..n : s.back[c] = g.back[to[c]]
  <2>1. \A c \in 1..n : to[c] \in 1..n /\ c \in DOMAIN h.back
    BY <1>1
  <2>2. \A c \in 1..n : to[to[c]] = c
    BY <1>1
  <2>3. \A c \in 1..n : s.back[c] = g.back[to[c]]
    BY <1>2, <2>1
  <2> QED BY <2>1, <2>2, <2>3
<1> HIDE DEF to
<1>4. /\ \A c \in 1..n : \E d \in 1..n : s.back[c] = h.back[d]
      /\ \A d \in 1..n : \E c \in 1..n : s.back[c] = h.back[d]
  <2>1. \A c \in 1..n : \E d \in 1..n : s.back[c] = h.back[d]
    <3>1. \A c \in 1..n : \E d \in 1..n : g.back[c] = h.back[d]
      BY DEF Rearranged
    <3> QED BY <1>3, <3>1
  <2>2. ASSUME NEW d \in 1..n PROVE \E c \in 1..n : s.back[c] = h.back[d]
    <3>1. PICK c \in 1..n : g.back[c] = h.back[d]
      BY DEF Rearranged
    <3>2. s.back[to[c]] = h.back[d] /\ to[c] \in 1..n
      BY <1>3, <3>1
    <3> QED BY <3>2
  <2> QED BY <2>1, <2>2
<1>5. \A c, d \in 1..n : s.back[c] = s.back[d] => c = d
  <2> TAKE c, d \in 1..n
  <2> HAVE s.back[c] = s.back[d]
  <2>1. to[c] \in 1..n /\ to[d] \in 1..n /\ g.back[to[c]] = g.back[to[d]]
    BY <1>3
  <2>2. to[c] = to[d]
    BY <2>1 DEF Rearranged
  <2> QED BY <1>3, <2>2
<1>6. \A c \in DOMAIN h.back : c > n => s.back[c] = h.back[c]
  <2>1. \A c \in DOMAIN h.back : c > n => c # a + 1 /\ c # b + 1
    BY <1>1
  <2> QED BY <1>2, <2>1 DEF Rearranged
<1> QED BY <1>2, <1>4, <1>5, <1>6 DEF Rearranged, s

LEMMA RearrangedEnd ==
  ASSUME NEW h, SliceInv(h), h.lo = 0, NEW n \in 0..h.hi, NEW g, Rearranged(g, h, n)
  PROVE  SliceInv(g) /\ Holds(g) = Holds(h)
<1>1. /\ h.hi \in Nat /\ h.hi <= Len(h.back) /\ Len(h.back) \in Nat
      /\ DOMAIN h.back = 1..Len(h.back) /\ g.lo + 1 = 1 /\ h.lo + 1 = 1 /\ g.hi = h.hi
      /\ DOMAIN g.back = DOMAIN h.back
  BY DEF SliceInv, SliceRecs, Rearranged
<1>2. \A c \in 1..h.hi : c \in 1..n \/ (c \in DOMAIN h.back /\ c > n)
  BY <1>1
<1>3. \A c \in 1..n : c \in 1..h.hi
  BY <1>1
<1>4. Holds(g) = Holds(h)
  <2>1. \A c \in 1..h.hi : g.back[c] \in Holds(h)
    <3> TAKE c \in 1..h.hi
    <3>1. CASE c \in 1..n
      <4>1. PICK d \in 1..n : g.back[c] = h.back[d]
        BY <3>1 DEF Rearranged
      <4> QED BY <4>1, <1>1, <1>3 DEF Holds
    <3>2. CASE c \in DOMAIN h.back /\ c > n
      <4>1. g.back[c] = h.back[c]
        BY <3>2 DEF Rearranged
      <4> QED BY <4>1, <1>1 DEF Holds
    <3> QED BY <3>1, <3>2, <1>2
  <2>2. \A c \in 1..h.hi : h.back[c] \in Holds(g)
    <3> TAKE c \in 1..h.hi
    <3>1. CASE c \in 1..n
      <4>1. PICK d \in 1..n : h.back[c] = g.back[d]
        BY <3>1 DEF Rearranged
      <4> QED BY <4>1, <1>1, <1>3 DEF Holds
    <3>2. CASE c \in DOMAIN h.back /\ c > n
      <4>1. g.back[c] = h.back[c]
        BY <3>2 DEF Rearranged
      <4> QED BY <4>1, <1>1 DEF Holds
    <3> QED BY <3>1, <3>2, <1>2
  <2>3. Holds(g) = {g.back[c] : c \in 1..h.hi} /\ Holds(h) = {h.back[c] : c \in 1..h.hi}
    BY <1>1 DEF Holds
  <2>4. Holds(g) \subseteq Holds(h)
    BY <2>1, <2>3
  <2>5. Holds(h) \subseteq Holds(g)
    BY <2>2, <2>3
  <2> QED BY <2>4, <2>5
<1>5. \A c, d \in 1..h.hi : g.back[c] = g.back[d] => c = d
  <2>1. \A c, d \in 1..h.hi : h.back[c] = h.back[d] => c = d
    BY <1>1 DEF SliceInv
  <2> TAKE c, d \in 1..h.hi
  <2> HAVE g.back[c] = g.back[d]
  <2>2. \A x \in 1..h.hi, y \in 1..h.hi : x \in 1..n /\ y > n /\ y \in DOMAIN h.back
            => g.back[x] # g.back[y]
    <3> TAKE x \in 1..h.hi, y \in 1..h.hi
    <3> HAVE x \in 1..n /\ y > n /\ y \in DOMAIN h.back
    <3>1. PICK z \in 1..n : g.back[x] = h.back[z]
      BY DEF Rearranged
    <3>2. z # y
      BY <1>1
    <3>3. g.back[y] = h.back[y]
      BY DEF Rearranged
    <3> QED BY <3>1, <3>2, <3>3, <2>1, <1>3
  <2>3. CASE c \in 1..n /\ d \in 1..n
    BY <2>3 DEF Rearranged
  <2>4. CASE ~(c \in 1..n) /\ ~(d \in 1..n)
    BY <2>1, <2>4, <1>2 DEF Rearranged
  <2> QED BY <2>2, <2>3, <2>4, <1>2
<1>6. \A c \in Outside(g) : g.back[c] = Zero
  <2>1. \A c \in Outside(g) : c \in Outside(h) /\ c \in DOMAIN h.back /\ c > n
    BY <1>1 DEF Outside
  <2> QED BY <2>1 DEF Rearranged, SliceInv
<1>7. \A c \in 1..h.hi : g.back[c] \in Elements
  <2>1. Holds(h) \subseteq Elements
    BY DEF Holds, SliceInv
  <2> QED BY <2>1, <1>4, <1>1 DEF Holds
<1> QED BY <1>1, <1>4, <1>5, <1>6, <1>7 DEF SliceInv, Rearranged

-----------------------------------------------------------------------------
\* Induction on the turns of a loop: the members of Nat that are not in S have no
\* least one.

LessThan == {xy \in Nat \X Nat : xy[1] < xy[2]}

LEMMA LessThanWellFounded == IsWellFoundedOn(LessThan, Nat)
BY NatLessThanWellFounded DEF OpToRel, LessThan

LEMMA NatInd ==
  ASSUME NEW S, 0 \in S, \A n \in Nat : n \in S => n + 1 \in S
  PROVE  Nat \subseteq S
<1> DEFINE T == Nat \ S
<1> SUFFICES ASSUME T # {} PROVE FALSE
  OBVIOUS
<1>1. PICK x \in T : \A y \in T : ~ (<<y, x>> \in LessThan)
  <2> HIDE DEF T
  <2>1. T \subseteq Nat
    BY DEF T
  <2> QED BY <2>1, LessThanWellFounded, WFMin
<1>2. x # 0 /\ x - 1 \in Nat /\ x - 1 < x /\ x = (x - 1) + 1
  OBVIOUS
<1>3. x - 1 \in T
  BY <1>2
<1>4. <<x - 1, x>> \in LessThan
  BY <1>2 DEF LessThan
<1> QED BY <1>1, <1>3, <1>4

\* The functions UpTurns and DownTurns define exist, so that they are what their
\* definitions say.
IsUpTurns(f, h, j, m) ==
    f = [k \in 0..m |-> IF k = 0 THEN [h |-> h, i |-> j] ELSE UpTurn(f[k - 1])]

IsDownTurns(f, h, n, m) ==
    f = [k \in 0..m |-> IF k = 0 THEN [h |-> h, i |-> 0] ELSE DownTurn(f[k - 1], n)]

LEMMA UpTurnsExist ==
  ASSUME NEW h, NEW j
  PROVE  \A m \in Nat : \E f : IsUpTurns(f, h, j, m)
<1> DEFINE S == {m \in Nat : \E f : IsUpTurns(f, h, j, m)}
<1>1. 0 \in S
  <2> DEFINE f == [k \in 0..0 |-> [h |-> h, i |-> j]]
  <2>1. IsUpTurns(f, h, j, 0)
    BY DEF IsUpTurns
  <2> QED BY <2>1
<1>2. ASSUME NEW m \in Nat, m \in S PROVE m + 1 \in S
  <2>1. PICK f : IsUpTurns(f, h, j, m)
    BY <1>2
  <2> DEFINE g == [k \in 0..(m + 1) |-> IF k \in 0..m THEN f[k] ELSE UpTurn(f[m])]
  <2>2. \A k \in 0..m : f[k] = IF k = 0 THEN [h |-> h, i |-> j] ELSE UpTurn(f[k - 1])
    BY <2>1 DEF IsUpTurns
  <2>3. \A k \in 0..(m + 1) : g[k] = IF k = 0 THEN [h |-> h, i |-> j] ELSE UpTurn(g[k - 1])
    <3> TAKE k \in 0..(m + 1)
    <3>1. CASE k = 0
      BY <3>1, <2>2
    <3>2. CASE k # 0
      <4>1. k - 1 \in 0..m /\ g[k - 1] = f[k - 1]
        BY <3>2
      <4>2. CASE k \in 0..m
        BY <3>2, <4>1, <4>2, <2>2
      <4>3. CASE k = m + 1
        BY <3>2, <4>1, <4>3
      <4> QED BY <4>2, <4>3
    <3> QED BY <3>1, <3>2
  <2>4. IsUpTurns(g, h, j, m + 1)
    BY <2>3 DEF IsUpTurns
  <2> QED BY <2>4
<1> QED
  <2> HIDE DEF S
  <2>1. Nat \subseteq S
    BY <1>1, <1>2, NatInd
  <2> QED BY <2>1 DEF S

LEMMA UpTurnsDef ==
  ASSUME NEW h, NEW j \in Nat
  PROVE  LET f == UpTurns(h, j) IN
         /\ f[0] = [h |-> h, i |-> j]
         /\ \A k \in 0..(j - 1) : f[k + 1] = UpTurn(f[k])
<1> DEFINE f == UpTurns(h, j)
<1>1. f = CHOOSE g : IsUpTurns(g, h, j, j)
  BY DEF UpTurns, IsUpTurns
<1>2. IsUpTurns(f, h, j, j)
  BY <1>1, UpTurnsExist
<1> HIDE DEF f
<1>3. \A k \in 0..j : f[k] = IF k = 0 THEN [h |-> h, i |-> j] ELSE UpTurn(f[k - 1])
  BY <1>2 DEF IsUpTurns
<1>4. \A k \in 0..(j - 1) : k + 1 \in 0..j /\ k + 1 # 0 /\ (k + 1) - 1 = k
  OBVIOUS
<1> QED BY <1>3, <1>4 DEF f

LEMMA DownTurnsExist ==
  ASSUME NEW h, NEW n
  PROVE  \A m \in Nat : \E f : IsDownTurns(f, h, n, m)
<1> DEFINE S == {m \in Nat : \E f : IsDownTurns(f, h, n, m)}
<1>1. 0 \in S
  <2> DEFINE f == [k \in 0..0 |-> [h |-> h, i |-> 0]]
  <2>1. IsDownTurns(f, h, n, 0)
    BY DEF IsDownTurns
  <2> QED BY <2>1
<1>2. ASSUME NEW m \in Nat, m \in S PROVE m + 1 \in S
  <2>1. PICK f : IsDownTurns(f, h, n, m)
    BY <1>2
  <2> DEFINE g == [k \in 0..(m + 1) |-> IF k \in 0..m THEN f[k] ELSE DownTurn(f[m], n)]
  <2>2. \A k \in 0..m : f[k] = IF k = 0 THEN [h |-> h, i |-> 0] ELSE DownTurn(f[k - 1], n)
    BY <2>1 DEF IsDownTurns
  <2>3. \A k \in 0..(m + 1) : g[k] = IF k = 0 THEN [h |-> h, i |-> 0] ELSE DownTurn(g[k - 1], n)
    <3> TAKE k \in 0..(m + 1)
    <3>1. CASE k = 0
      BY <3>1, <2>2
    <3>2. CASE k # 0
      <4>1. k - 1 \in 0..m /\ g[k - 1] = f[k - 1]
        BY <3>2
      <4>2. CASE k \in 0..m
        BY <3>2, <4>1, <4>2, <2>2
      <4>3. CASE k = m + 1
        BY <3>2, <4>1, <4>3
      <4> QED BY <4>2, <4>3
    <3> QED BY <3>1, <3>2
  <2>4. IsDownTurns(g, h, n, m + 1)
    BY <2>3 DEF IsDownTurns
  <2> QED BY <2>4
<1> QED
  <2> HIDE DEF S
  <2>1. Nat \subseteq S
    BY <1>1, <1>2, NatInd
  <2> QED BY <2>1 DEF S

LEMMA DownTurnsDef ==
  ASSUME NEW h, NEW n \in Nat
  PROVE  LET f == DownTurns(h, n) IN
         /\ f[0] = [h |-> h, i |-> 0]
         /\ \A k \in 0..(n - 1) : f[k + 1] = DownTurn(f[k], n)
<1> DEFINE f == DownTurns(h, n)
<1>1. f = CHOOSE g : IsDownTurns(g, h, n, n)
  BY DEF DownTurns, IsDownTurns
<1>2. IsDownTurns(f, h, n, n)
  BY <1>1, DownTurnsExist
<1> HIDE DEF f
<1>3. \A k \in 0..n : f[k] = IF k = 0 THEN [h |-> h, i |-> 0] ELSE DownTurn(f[k - 1], n)
  BY <1>2 DEF IsDownTurns
<1>4. \A k \in 0..(n - 1) : k + 1 \in 0..n /\ k + 1 # 0 /\ (k + 1) - 1 = k
  OBVIOUS
<1> QED BY <1>3, <1>4 DEF f

-----------------------------------------------------------------------------
\* The order of the heap.

\* The order of the keys K but at i, and around i without it.
UpOpen(K, j, i) ==
    /\ \A k \in 1..j : k # i => K[(k - 1) \div 2] <= K[k]
    /\ \A k \in 1..j : i > 0 /\ (k - 1) \div 2 = i => K[(i - 1) \div 2] <= K[k]

\* The order of the keys K but below i, and around i without it.
DownOpen(K, j, i) ==
    /\ \A k \in 1..j : (k - 1) \div 2 # i => K[(k - 1) \div 2] <= K[k]
    /\ \A k \in 1..j : i > 0 /\ (k - 1) \div 2 = i => K[(i - 1) \div 2] <= K[k]

Exchanged(L, K, j, a, b) ==
    L = [k \in 0..j |-> IF k = a THEN K[b] ELSE IF k = b THEN K[a] ELSE K[k]]

\* A turn up repairs the order at i and leaves it open at the parent only.
LEMMA UpKeys ==
  ASSUME NEW j \in Nat, NEW K \in [0..j -> Int], NEW i \in 1..j, NEW p, NEW L,
         p = (i - 1) \div 2, K[i] < K[p], Exchanged(L, K, j, p, i), UpOpen(K, j, i)
  PROVE  UpOpen(L, j, p)
<1> USE DEF UpOpen, Exchanged
<1>1. p \in 0..(i - 1)
  OBVIOUS
<1>2. \A k \in 1..j : (k - 1) \div 2 \in 0..(k - 1)
  OBVIOUS
<1>3. ASSUME NEW k \in 1..j, k # p PROVE L[(k - 1) \div 2] <= L[k]
  <2> DEFINE q == (k - 1) \div 2
  <2>1. q \in 0..j /\ k \in 0..j /\ p \in 0..j /\ p # i
    BY <1>1, <1>2
  <2>2. CASE k = i
    <3>1. q = p
      BY <2>2
    <3> QED BY <3>1, <2>1, <2>2
  <2>3. CASE k # i
    <3>1. L[k] = K[k] /\ K[q] <= K[k]
      BY <1>3, <2>1, <2>3
    <3>2. CASE q = p
      <4>1. K[q] \in Int /\ K[k] \in Int /\ K[i] \in Int
        BY <2>1
      <4>2. L[q] = K[i] /\ K[i] < K[q]
        BY <2>1, <3>2
      <4> HIDE DEF q
      <4> QED BY <3>1, <4>1, <4>2
    <3>3. CASE q = i
      BY <2>1, <3>1, <3>3
    <3>4. CASE q # i /\ q # p
      BY <2>1, <3>1, <3>4
    <3> QED BY <3>2, <3>3, <3>4
  <2> QED BY <2>2, <2>3
<1>4. ASSUME NEW k \in 1..j, p > 0, (k - 1) \div 2 = p PROVE L[(p - 1) \div 2] <= L[k]
  <2> DEFINE q == (p - 1) \div 2
  <2>1. p \in 1..j /\ q \in 0..(p - 1) /\ q # p /\ q # i /\ q \in 0..j /\ p # i /\ k # p
    BY <1>1, <1>2, <1>4
  <2>2. L[q] = K[q] /\ K[q] <= K[p]
    BY <2>1
  <2>3. CASE k = i
    BY <2>1, <2>2, <2>3
  <2>4. CASE k # i
    <3>1. K[(k - 1) \div 2] <= K[k] /\ K[(k - 1) \div 2] = K[p]
      BY <2>4, <1>4
    <3>3. L[k] = K[k] /\ K[p] <= K[k]
      BY <2>1, <2>4, <3>1
    <3>2. K[q] \in Int /\ K[p] \in Int /\ K[k] \in Int
      BY <2>1
    <3> QED BY <2>2, <3>2, <3>3
  <2> QED BY <2>3, <2>4
<1> QED BY <1>1, <1>3, <1>4

\* A turn down repairs the order below i and leaves it open below the child only.
LEMMA DownKeys ==
  ASSUME NEW j \in Nat, NEW K \in [0..j -> Int], NEW i \in 0..j, NEW c \in 1..j, NEW L,
         (c - 1) \div 2 = i, K[c] < K[i],
         \A k \in 1..j : (k - 1) \div 2 = i => K[c] <= K[k],
         Exchanged(L, K, j, i, c), DownOpen(K, j, i)
  PROVE  DownOpen(L, j, c)
<1> USE DEF DownOpen, Exchanged
<1>1. \A k \in 1..j : (k - 1) \div 2 \in 0..(k - 1)
  OBVIOUS
<1>2. ASSUME NEW k \in 1..j, (k - 1) \div 2 # c PROVE L[(k - 1) \div 2] <= L[k]
  <2> DEFINE q == (k - 1) \div 2
  <2>1. q \in 0..j /\ k \in 0..j /\ c \in 0..j /\ i < c
    BY <1>1
  <2>2. CASE q = i
    <3>1. K[c] <= K[k] /\ k # i
      BY <2>2, <1>1
    <3>2. K[c] \in Int /\ K[k] \in Int /\ K[i] \in Int
      BY <2>1
    <3> QED BY <2>1, <2>2, <3>1, <3>2
  <2>3. CASE q # i /\ k = i
    <3>1. i > 0 /\ K[q] <= K[c] /\ q # c
      BY <2>3, <1>2
    <3> QED BY <2>1, <2>3, <3>1
  <2>4. CASE q # i /\ k # i
    <3>1. K[q] <= K[k] /\ k # c
      BY <2>4
    <3> QED BY <2>1, <2>4, <3>1, <1>2
  <2> QED BY <2>2, <2>3, <2>4
<1>3. ASSUME NEW k \in 1..j, (k - 1) \div 2 = c PROVE L[(c - 1) \div 2] <= L[k]
  <2>1. c < k /\ i < c /\ k \in 0..j /\ c # i
    BY <1>1, <1>3
  <2>2. K[(k - 1) \div 2] <= K[k] /\ K[(k - 1) \div 2] = K[c]
    BY <2>1, <1>3
  <2>3. L[(c - 1) \div 2] = K[c] /\ L[k] = K[k]
    BY <2>1
  <2> QED BY <2>2, <2>3
<1> QED BY <1>2, <1>3

-----------------------------------------------------------------------------
\* The loops of the heap.

LEMMA KeysSwapped ==
  ASSUME NEW h, SliceInv(h), h.lo = 0, NEW n \in 0..h.hi, NEW g, Rearranged(g, h, n)
  PROVE  /\ \A k \in 0..(n - 1) : Key(g, k) \in Int
         /\ \A a, b, k \in 0..(n - 1) : Key(Swap(g, a, b), k) =
               IF k = a THEN Key(g, b) ELSE IF k = b THEN Key(g, a) ELSE Key(g, k)
<1>1. /\ h.hi \in Nat /\ h.hi <= Len(h.back) /\ Len(h.back) \in Nat
      /\ DOMAIN h.back = 1..Len(h.back) /\ h.lo + 1 = 1
  BY DEF SliceInv, SliceRecs
<1>2. \A c \in 1..n : g.back[c] \in Elements
  <2>1. \A d \in 1..n : h.back[d] \in Elements
    BY <1>1 DEF SliceInv
  <2> QED BY <2>1 DEF Rearranged
<1>3. \A k \in 0..(n - 1) : k + 1 \in 1..n /\ k + 1 \in DOMAIN h.back
  BY <1>1
<1>4. \A k \in 0..(n - 1) : At(g, k) = g.back[k + 1]
  BY <1>1 DEF At, Rearranged
<1>5. \A k \in 0..(n - 1) : Key(g, k) \in Int
  BY <1>2, <1>3, <1>4, ContainerAssumption DEF Key
<1>6. ASSUME NEW a \in 0..(n - 1), NEW b \in 0..(n - 1), NEW k \in 0..(n - 1)
      PROVE  Key(Swap(g, a, b), k) =
               IF k = a THEN Key(g, b) ELSE IF k = b THEN Key(g, a) ELSE Key(g, k)
  <2> DEFINE s == Swap(g, a, b)
  <2>1. /\ s.lo = 0
        /\ \A c \in DOMAIN g.back : s.back[c] =
             IF c = a + 1 THEN g.back[b + 1]
             ELSE IF c = b + 1 THEN g.back[a + 1] ELSE g.back[c]
    <3>1. a \in 0..(Len(g.back) - 1) /\ b \in 0..(Len(g.back) - 1)
      <4>1. Len(g.back) = Len(h.back)
        BY DEF Rearranged
      <4> QED BY <1>1, <4>1
    <3>2. g \in SliceRecs /\ g.lo = 0
      BY DEF Rearranged
    <3> QED BY <3>1, <3>2, Swapped
  <2> HIDE DEF s
  <2>2. k + 1 \in DOMAIN g.back
    BY <1>3 DEF Rearranged
  <2>3. At(s, k) = s.back[k + 1]
    BY <2>1 DEF At
  <2>4. (k + 1 = a + 1 <=> k = a) /\ (k + 1 = b + 1 <=> k = b)
    OBVIOUS
  <2>5. At(s, k) = IF k = a THEN At(g, b) ELSE IF k = b THEN At(g, a) ELSE At(g, k)
    BY <2>1, <2>2, <2>3, <2>4, <1>4
  <2> QED BY <2>5 DEF Key, s
<1> QED BY <1>5, <1>6

UpDone(t) == t.i = 0 \/ ~Less(t.h, t.i, (t.i - 1) \div 2)

\* After m turns up the order is open at t.i only, and around it in order.
UpInv(t, h, j, m) ==
    /\ t = [h |-> t.h, i |-> t.i]
    /\ Rearranged(t.h, h, j + 1)
    /\ t.i \in 0..j
    /\ \A k \in 1..j : k # t.i => Key(t.h, (k - 1) \div 2) <= Key(t.h, k)
    /\ \A k \in 1..j : t.i > 0 /\ (k - 1) \div 2 = t.i
            => Key(t.h, (t.i - 1) \div 2) <= Key(t.h, k)
    /\ t.i <= j - m \/ UpDone(t)

LEMMA UpStep ==
  ASSUME NEW h, SliceInv(h), h.lo = 0, NEW j \in Nat, h.hi = j + 1,
         NEW t, NEW m \in Nat, UpInv(t, h, j, m)
  PROVE  UpInv(UpTurn(t), h, j, m + 1)
<1>1. CASE UpDone(t)
  <2>1. UpTurn(t) = t
    BY <1>1 DEF UpDone, UpTurn
  <2> QED BY <1>1, <2>1 DEF UpInv
<1>2. CASE ~UpDone(t)
  <2> DEFINE i == t.i
             p == (i - 1) \div 2
             s == Swap(t.h, p, i)
             K == [k \in 0..j |-> Key(t.h, k)]
             L == [k \in 0..j |-> IF k = p THEN K[i] ELSE IF k = i THEN K[p] ELSE K[k]]
  <2>1. /\ i \in 1..j /\ p \in 0..(i - 1) /\ Less(t.h, i, p)
        /\ UpTurn(t) = [h |-> s, i |-> p]
    <3>1. i \in 0..j /\ i # 0
      BY <1>2 DEF UpInv, UpDone
    <3>2. i \in 1..j
      BY <3>1
    <3>3. p \in 0..(i - 1)
      BY <3>2
    <3> QED BY <1>2, <3>2, <3>3 DEF UpDone, UpTurn
  <2>2. j + 1 \in 0..h.hi /\ Rearranged(t.h, h, j + 1) /\ (j + 1) - 1 = j
    BY DEF UpInv
  <2>3. /\ \A k \in 0..j : Key(t.h, k) \in Int
        /\ \A k \in 0..j : Key(s, k) =
              IF k = p THEN Key(t.h, i) ELSE IF k = i THEN Key(t.h, p) ELSE Key(t.h, k)
    <3>1. p \in 0..j /\ i \in 0..j
      BY <2>1
    <3> HIDE DEF p, i
    <3> QED BY <2>2, <3>1, KeysSwapped
  <2>4. Rearranged(s, h, j + 1)
    <3>1. p \in 0..((j + 1) - 1) /\ i \in 0..((j + 1) - 1)
      BY <2>1
    <3> HIDE DEF p, i
    <3> QED BY <2>2, <3>1, SwapRearranges
  <2>5. \A k \in 1..j : (k - 1) \div 2 \in 0..j /\ k \in 0..j
    OBVIOUS
  <2>6. /\ K \in [0..j -> Int] /\ K[i] < K[p]
        /\ UpOpen(K, j, i)
    <3>1. K \in [0..j -> Int]
      BY <2>3
    <3>2. K[i] < K[p]
      BY <2>1 DEF Less, Key
    <3>3. \A k \in 1..j : k # i => K[(k - 1) \div 2] <= K[k]
      BY <2>5 DEF UpInv
    <3>4. ASSUME NEW k \in 1..j, i > 0, (k - 1) \div 2 = i PROVE K[p] <= K[k]
      <4>1. Key(t.h, p) <= Key(t.h, k)
        BY <2>1, <3>4 DEF UpInv
      <4>2. p \in 0..j /\ k \in 0..j
        BY <2>1
      <4> QED BY <4>1, <4>2
    <3> QED BY <3>1, <3>2, <3>3, <3>4 DEF UpOpen
  <2>7. \A k \in 0..j : L[k] = Key(s, k)
    <3>1. p \in 0..j /\ i \in 0..j
      BY <2>1
    <3> HIDE DEF p, i, s
    <3> QED BY <2>3, <3>1
  <2>8. p = (i - 1) \div 2
    OBVIOUS
  <2>9. Exchanged(L, K, j, p, i)
    BY DEF Exchanged
  <2> HIDE DEF K, L, p, i, s
  <2>10. UpOpen(L, j, p)
    <3>1. i \in 1..j
      BY <2>1
    <3> QED BY ONLY <3>1, <2>6, <2>8, <2>9, j \in Nat, UpKeys
  <2>11. /\ \A k \in 1..j : k # p => Key(s, (k - 1) \div 2) <= Key(s, k)
         /\ \A k \in 1..j : p > 0 /\ (k - 1) \div 2 = p
                => Key(s, (p - 1) \div 2) <= Key(s, k)
    <3>1. p > 0 => (p - 1) \div 2 \in 0..j
      BY <2>1
    <3> QED BY <2>5, <2>7, <2>10, <3>1 DEF UpOpen
  <2>12. p \in 0..j /\ p <= j - (m + 1)
    <3>1. t.i <= j - m
      BY <1>2 DEF UpInv
    <3>2. i <= j - m
      BY <3>1 DEF i
    <3> QED BY <2>1, <3>2
  <2>13. UpTurn(t).h = s /\ UpTurn(t).i = p
    BY <2>1
  <2> QED BY <2>1, <2>4, <2>11, <2>12, <2>13 DEF UpInv
<1> QED BY <1>1, <1>2

\* heap.Push ends with the heap in order again.
LEMMA SiftUpCorrect ==
  ASSUME NEW h, SliceInv(h), h.lo = 0, NEW j \in Nat, h.hi = j + 1,
         \A k \in 1..(j - 1) : Key(h, (k - 1) \div 2) <= Key(h, k)
  PROVE  LET g == SiftUp(h, j) IN
         SliceInv(g) /\ Holds(g) = Holds(h) /\ g.lo = 0 /\ HeapOrder(g)
<1> DEFINE f == UpTurns(h, j)
<1>1. /\ f[0] = [h |-> h, i |-> j]
      /\ \A k \in 0..(j - 1) : f[k + 1] = UpTurn(f[k])
  BY UpTurnsDef
<1> HIDE DEF f
<1>2. UpInv(f[0], h, j, 0)
  <2>1. Rearranged(h, h, j + 1)
    BY RearrangedStart
  <2>2. \A k \in 1..j : k # j => Key(h, (k - 1) \div 2) <= Key(h, k)
    OBVIOUS
  <2>3. \A k \in 1..j : (k - 1) \div 2 # j
    OBVIOUS
  <2> QED BY <1>1, <2>1, <2>2, <2>3 DEF UpInv
<1>3. UpInv(f[j], h, j, j)
  <2> DEFINE S == {m \in Nat : m <= j => UpInv(f[m], h, j, m)}
  <2>1. 0 \in S
    BY <1>2
  <2>2. ASSUME NEW m \in Nat, m \in S PROVE m + 1 \in S
    <3> SUFFICES ASSUME m + 1 <= j PROVE UpInv(f[m + 1], h, j, m + 1)
      OBVIOUS
    <3>1. f[m + 1] = UpTurn(f[m])
      BY <1>1
    <3>2. UpInv(f[m], h, j, m)
      BY <2>2
    <3> QED BY <3>1, <3>2, UpStep
  <2> HIDE DEF S
  <2>3. j \in S
    BY <2>1, <2>2, NatInd
  <2> QED BY <2>3 DEF S
<1> DEFINE t == f[j]
<1>4. SiftUp(h, j) = t.h
  BY DEF SiftUp, f
<1> HIDE DEF t
<1>5. UpInv(t, h, j, j)
  BY <1>3 DEF t
<1>6. Rearranged(t.h, h, j + 1)
  BY <1>5 DEF UpInv
<1>7. SliceInv(t.h) /\ Holds(t.h) = Holds(h) /\ t.h.lo = 0 /\ t.h.hi = j + 1
  <2>1. j + 1 \in 0..h.hi
    OBVIOUS
  <2>2. SliceInv(t.h) /\ Holds(t.h) = Holds(h)
    BY <1>6, <2>1, RearrangedEnd
  <2>3. t.h.lo = 0 /\ t.h.hi = j + 1
    BY <1>6 DEF Rearranged
  <2> QED BY <2>2, <2>3
<1>8. UpDone(t)
  BY <1>5 DEF UpInv, UpDone
<1>9. HeapOrder(t.h)
  <2>1. Len_(t.h) - 1 = j
    BY <1>7 DEF Len_
  <2>2. ASSUME NEW k \in 1..j PROVE Key(t.h, (k - 1) \div 2) <= Key(t.h, k)
    <3>1. CASE k # t.i
      BY <1>5, <3>1 DEF UpInv
    <3>2. CASE k = t.i
      <4>1. ~Less(t.h, k, (k - 1) \div 2)
        BY <1>8, <3>2 DEF UpDone
      <4>2. Key(t.h, k) \in Int /\ Key(t.h, (k - 1) \div 2) \in Int
        <5>1. k \in 0..((j + 1) - 1) /\ (k - 1) \div 2 \in 0..((j + 1) - 1) /\ j + 1 \in 0..h.hi
          OBVIOUS
        <5> QED BY <5>1, <1>6, KeysSwapped
      <4> QED BY <4>1, <4>2 DEF Less, Key
    <3> QED BY <3>1, <3>2
  <2> QED BY <2>1, <2>2 DEF HeapOrder
<1> QED BY <1>4, <1>7, <1>9

\* The child DownTurn compares with.
Child(t, n) ==
    IF 2 * t.i + 2 < n /\ Less(t.h, 2 * t.i + 2, 2 * t.i + 1) THEN 2 * t.i + 2 ELSE 2 * t.i + 1

DownDone(t, n) == 2 * t.i + 1 >= n \/ ~Less(t.h, Child(t, n), t.i)

\* After m turns down the order is open below t.i only, and around it in order.
DownInv(t, h, n, m) ==
    /\ t = [h |-> t.h, i |-> t.i]
    /\ Rearranged(t.h, h, n)
    /\ t.i \in Nat /\ (t.i = 0 \/ t.i < n)
    /\ \A k \in 1..(n - 1) : (k - 1) \div 2 # t.i => Key(t.h, (k - 1) \div 2) <= Key(t.h, k)
    /\ \A k \in 1..(n - 1) : t.i > 0 /\ (k - 1) \div 2 = t.i
            => Key(t.h, (t.i - 1) \div 2) <= Key(t.h, k)
    /\ t.i >= m \/ DownDone(t, n)

LEMMA Children ==
  ASSUME NEW i \in Nat, NEW k \in Nat \ {0}
  PROVE  (k - 1) \div 2 = i <=> k = 2 * i + 1 \/ k = 2 * i + 2
OBVIOUS

LEMMA ChildLeast ==
  ASSUME NEW h, SliceInv(h), h.lo = 0, NEW n \in 0..h.hi, NEW t, Rearranged(t.h, h, n),
         t.i \in Nat, 2 * t.i + 1 < n
  PROVE  /\ Child(t, n) \in 1..(n - 1) /\ (Child(t, n) - 1) \div 2 = t.i
         /\ Child(t, n) >= t.i + 1
         /\ \A k \in 1..(n - 1) : (k - 1) \div 2 = t.i => Key(t.h, Child(t, n)) <= Key(t.h, k)
<1>1. h.hi \in Nat /\ n \in Nat
  BY DEF SliceInv, SliceRecs
<1> DEFINE i == t.i
           c == Child(t, n)
           l == 2 * i + 1
<1>2. l \in 1..(n - 1) /\ 2 * i + 2 = l + 1
  BY <1>1
<1>3. c = IF l + 1 < n /\ Less(t.h, l + 1, l) THEN l + 1 ELSE l
  BY <1>2 DEF Child
<1> HIDE DEF c
<1>4. c \in 1..(n - 1) /\ (c - 1) \div 2 = i /\ c >= i + 1
  <2>1. c = l \/ (c = l + 1 /\ l + 1 < n)
    BY <1>3
  <2>2. c \in 1..(n - 1) /\ c >= i + 1 /\ c \in Nat \ {0}
    BY <1>1, <1>2, <2>1
  <2>3. c = 2 * i + 1 \/ c = 2 * i + 2
    BY <1>2, <2>1
  <2> HIDE DEF l, i
  <2>4. i \in Nat
    BY DEF i
  <2> QED BY <2>2, <2>3, <2>4, Children
<1>5. ASSUME NEW k \in 1..(n - 1), (k - 1) \div 2 = i PROVE Key(t.h, c) <= Key(t.h, k)
  <2>1. k = l \/ (k = l + 1 /\ l + 1 < n)
    <3>1. k \in Nat \ {0} /\ k < n /\ i \in Nat
      BY <1>1
    <3>2. k = 2 * i + 1 \/ k = 2 * i + 2
      BY <1>5, <3>1, Children
    <3> QED BY <1>2, <3>1, <3>2
  <2>2. /\ Key(t.h, l) \in Int
        /\ l + 1 < n => Key(t.h, l + 1) \in Int
    <3>1. l \in 0..(n - 1) /\ (l + 1 < n => l + 1 \in 0..(n - 1))
      BY <1>1, <1>2
    <3> HIDE DEF l
    <3> QED BY <3>1, KeysSwapped
  <2>3. Less(t.h, l + 1, l) <=> Key(t.h, l + 1) < Key(t.h, l)
    BY DEF Less, Key
  <2> HIDE DEF l
  <2> QED BY <1>3, <2>1, <2>2, <2>3
<1> QED BY <1>4, <1>5 DEF c

LEMMA DownStep ==
  ASSUME NEW h, SliceInv(h), h.lo = 0, NEW n \in 0..h.hi,
         NEW t, NEW m \in Nat, DownInv(t, h, n, m)
  PROVE  DownInv(DownTurn(t, n), h, n, m + 1)
<1>0. h.hi \in Nat /\ n \in Nat
  BY DEF SliceInv, SliceRecs
<1>1. DownTurn(t, n) = IF DownDone(t, n) THEN t
                       ELSE [h |-> Swap(t.h, t.i, Child(t, n)), i |-> Child(t, n)]
  <2>1. t.i \in Nat
    BY DEF DownInv
  <2>2. 2 * t.i + 1 + 1 = 2 * t.i + 2
    BY <2>1
  <2> QED BY <2>2 DEF DownTurn, DownDone, Child
<1>2. CASE DownDone(t, n)
  BY <1>1, <1>2 DEF DownInv
<1>3. CASE ~DownDone(t, n)
  <2> DEFINE i == t.i
             c == Child(t, n)
             s == Swap(t.h, i, c)
             j == n - 1
             K == [k \in 0..j |-> Key(t.h, k)]
             L == [k \in 0..j |-> IF k = i THEN K[c] ELSE IF k = c THEN K[i] ELSE K[k]]
  <2>1. /\ Rearranged(t.h, h, n) /\ t.i \in Nat /\ 2 * t.i + 1 < n
        /\ Less(t.h, c, i)
    BY <1>0, <1>3 DEF DownInv, DownDone
  <2>2. /\ c \in 1..j /\ (c - 1) \div 2 = i /\ c >= i + 1
        /\ \A k \in 1..j : (k - 1) \div 2 = i => Key(t.h, c) <= Key(t.h, k)
    BY <2>1, ChildLeast
  <2> HIDE DEF c
  <2>3. j \in Nat /\ i \in 0..j /\ c \in 0..j
    BY <1>0, <2>1, <2>2
  <2>4. /\ \A k \in 0..j : Key(t.h, k) \in Int
        /\ \A k \in 0..j : Key(s, k) =
              IF k = i THEN Key(t.h, c) ELSE IF k = c THEN Key(t.h, i) ELSE Key(t.h, k)
    BY <2>1, <2>3, KeysSwapped
  <2>5. Rearranged(s, h, n)
    BY <2>1, <2>3, SwapRearranges
  <2>6. \A k \in 1..j : (k - 1) \div 2 \in 0..j /\ k \in 0..j
    BY <2>3
  <2>7. K \in [0..j -> Int] /\ K[c] < K[i] /\ Exchanged(L, K, j, i, c)
    <3>1. K \in [0..j -> Int]
      BY <2>4
    <3>2. K[c] < K[i]
      BY <2>1, <2>3 DEF Less, Key
    <3> QED BY <3>1, <3>2 DEF Exchanged
  <2>8. \A k \in 1..j : (k - 1) \div 2 = i => K[c] <= K[k]
    BY <2>2, <2>3, <2>6
  <2>9. DownOpen(K, j, i)
    <3>1. \A k \in 1..j : (k - 1) \div 2 # i => K[(k - 1) \div 2] <= K[k]
      BY <2>6 DEF DownInv
    <3>2. ASSUME NEW k \in 1..j, i > 0, (k - 1) \div 2 = i PROVE K[(i - 1) \div 2] <= K[k]
      <4>1. Key(t.h, (i - 1) \div 2) <= Key(t.h, k)
        BY <3>2 DEF DownInv
      <4>2. (i - 1) \div 2 \in 0..j /\ k \in 0..j
        BY <2>3, <3>2
      <4> QED BY <4>1, <4>2
    <3> QED BY <3>1, <3>2 DEF DownOpen
  <2>10. \A k \in 0..j : L[k] = Key(s, k)
    <3> HIDE DEF i, j, s
    <3> QED BY <2>3, <2>4
  <2> HIDE DEF K, L, s, j, i
  <2>11. DownOpen(L, j, c)
    BY ONLY <2>2, <2>3, <2>7, <2>8, <2>9, DownKeys
  <2>12. /\ \A k \in 1..j : (k - 1) \div 2 # c => Key(s, (k - 1) \div 2) <= Key(s, k)
         /\ \A k \in 1..j : c > 0 /\ (k - 1) \div 2 = c
                => Key(s, (c - 1) \div 2) <= Key(s, k)
    BY <2>2, <2>3, <2>6, <2>10, <2>11 DEF DownOpen
  <2>13. DownTurn(t, n) = [h |-> s, i |-> c]
    BY <1>1, <1>3 DEF s, c, i
  <2>14. c >= m + 1 /\ c \in Nat /\ c < n
    <3>1. i >= m
      BY <1>3 DEF DownInv, i
    <3>2. c < n
      BY <2>3, <1>0 DEF j
    <3> QED BY <2>2, <2>3, <3>1, <3>2
  <2>15. DownTurn(t, n).h = s /\ DownTurn(t, n).i = c
    BY <2>13
  <2> QED BY <2>5, <2>12, <2>13, <2>14, <2>15 DEF DownInv, j
<1> QED BY <1>2, <1>3

\* heap.Pop orders what is before the element it takes.
LEMMA SiftDownCorrect ==
  ASSUME NEW h, SliceInv(h), h.lo = 0, NEW n \in Nat, h.hi = n + 1,
         \A k \in 1..(n - 1) : (k - 1) \div 2 # 0 => Key(h, (k - 1) \div 2) <= Key(h, k)
  PROVE  LET g == SiftDown(h, n) IN
         /\ SliceInv(g) /\ Holds(g) = Holds(h) /\ g.lo = 0 /\ g.hi = n + 1
         /\ \A k \in 1..(n - 1) : Key(g, (k - 1) \div 2) <= Key(g, k)
<1> DEFINE f == DownTurns(h, n)
<1>1. /\ f[0] = [h |-> h, i |-> 0]
      /\ \A k \in 0..(n - 1) : f[k + 1] = DownTurn(f[k], n)
  BY DownTurnsDef
<1> HIDE DEF f
<1>2. DownInv(f[0], h, n, 0)
  <2>1. n \in 0..h.hi
    OBVIOUS
  <2>2. Rearranged(h, h, n)
    BY <2>1, RearrangedStart
  <2> QED BY <1>1, <2>2 DEF DownInv
<1>3. DownInv(f[n], h, n, n)
  <2> DEFINE S == {m \in Nat : m <= n => DownInv(f[m], h, n, m)}
  <2>1. 0 \in S
    BY <1>2
  <2>2. ASSUME NEW m \in Nat, m \in S PROVE m + 1 \in S
    <3> SUFFICES ASSUME m + 1 <= n PROVE DownInv(f[m + 1], h, n, m + 1)
      OBVIOUS
    <3>1. f[m + 1] = DownTurn(f[m], n)
      BY <1>1
    <3>2. DownInv(f[m], h, n, m)
      BY <2>2
    <3>3. n \in 0..h.hi
      OBVIOUS
    <3> QED BY <3>1, <3>2, <3>3, DownStep
  <2> HIDE DEF S
  <2>3. n \in S
    BY <2>1, <2>2, NatInd
  <2> QED BY <2>3 DEF S
<1> DEFINE t == f[n]
<1>4. SiftDown(h, n) = t.h
  BY DEF SiftDown, f
<1> HIDE DEF t
<1>5. DownInv(t, h, n, n)
  BY <1>3 DEF t
<1>6. Rearranged(t.h, h, n) /\ t.i \in Nat /\ n \in 0..h.hi
  BY <1>5 DEF DownInv
<1>7. SliceInv(t.h) /\ Holds(t.h) = Holds(h) /\ t.h.lo = 0 /\ t.h.hi = n + 1
  <2>1. SliceInv(t.h) /\ Holds(t.h) = Holds(h)
    BY <1>6, RearrangedEnd
  <2>2. t.h.lo = 0 /\ t.h.hi = n + 1
    BY <1>6 DEF Rearranged
  <2> QED BY <2>1, <2>2
<1>8. DownDone(t, n)
  <2>1. t.i >= n => 2 * t.i + 1 >= n
    BY <1>6
  <2> QED BY <1>5, <2>1 DEF DownInv, DownDone
<1>9. ASSUME NEW k \in 1..(n - 1) PROVE Key(t.h, (k - 1) \div 2) <= Key(t.h, k)
  <2>1. CASE (k - 1) \div 2 # t.i
    BY <1>5, <2>1 DEF DownInv
  <2>2. CASE (k - 1) \div 2 = t.i
    <3> DEFINE c == Child(t, n)
    <3>1. 2 * t.i + 1 < n
      BY <1>6, <2>2
    <3>2. c \in 1..(n - 1) /\ Key(t.h, c) <= Key(t.h, k)
      BY <1>6, <2>2, <3>1, ChildLeast
    <3>3. ~Less(t.h, c, t.i)
      BY <1>6, <1>8, <3>1 DEF DownDone
    <3> HIDE DEF c
    <3>4. t.i \in 0..(n - 1) /\ c \in 0..(n - 1) /\ k \in 0..(n - 1)
      BY <1>6, <3>1, <3>2
    <3>5. Key(t.h, t.i) \in Int /\ Key(t.h, c) \in Int /\ Key(t.h, k) \in Int
      BY <1>6, <3>4, KeysSwapped
    <3>6. ~(Key(t.h, c) < Key(t.h, t.i))
      BY <3>3 DEF Less, Key
    <3>7. Key(t.h, t.i) <= Key(t.h, k)
      BY <3>2, <3>5, <3>6
    <3> QED BY <2>2, <3>7
  <2> QED BY <2>1, <2>2
<1> QED BY <1>4, <1>7, <1>9

LEMMA LastTaken ==
  ASSUME NEW g, SliceInv(g), g.lo = 0, NEW n \in Nat, g.hi = n + 1
  PROVE  LET r == HeapPop(g) IN
         /\ SliceInv(r.rest) /\ r.rest.lo = 0 /\ Len_(r.rest) = n
         /\ Holds(r.rest) = Holds(g) \ {r.item} /\ r.item \in Holds(g)
         /\ \A k \in 0..(n - 1) : Key(r.rest, k) = Key(g, k)
<1> DEFINE p == Put(g, n, Zero)
           w == Window(p, 0, n)
<1>1. /\ g \in SliceRecs /\ g.back \in Seq(Elements \cup {Zero}) /\ DOMAIN g.back = 1..Len(g.back)
      /\ Len(g.back) \in Nat /\ n + 1 <= Len(g.back) /\ g.lo + 1 = 1
  BY DEF SliceInv, SliceRecs
<1>2. HeapPop(g).item = g.back[n + 1] /\ HeapPop(g).rest = w
  BY DEF HeapPop, Len_, At
<1>3. /\ p \in SliceRecs /\ p.lo = 0 /\ p.hi = n + 1
      /\ Len(p.back) = Len(g.back) /\ DOMAIN p.back = DOMAIN g.back
      /\ \A c \in DOMAIN g.back : p.back[c] = IF c = n + 1 THEN Zero ELSE g.back[c]
  <2>1. n \in 0..(Len(g.back) - 1) /\ Zero \in Elements \cup {Zero}
    BY <1>1
  <2> QED BY <1>1, <2>1, PutCell
<1> HIDE DEF p
<1>4. w = [back |-> p.back, lo |-> 0, hi |-> n]
  <2> DEFINE b == p.back
  <2>1. p = [back |-> b, lo |-> 0, hi |-> n + 1]
    BY <1>3 DEF SliceRecs
  <2>2. w = Window([back |-> b, lo |-> 0, hi |-> n + 1], 0, n)
    BY <2>1
  <2> HIDE DEF w, b
  <2>3. w = [back |-> b, lo |-> 0 + 0, hi |-> 0 + n]
    BY <2>2, OnWindow
  <2> QED BY <2>3 DEF b
<1> HIDE DEF w
<1>5. /\ w \in SliceRecs /\ w.lo = 0 /\ w.hi = n /\ w.back = p.back /\ w.lo + 1 = 1
      /\ w.lo <= w.hi /\ w.hi <= Len(w.back)
  BY <1>1, <1>3, <1>4 DEF SliceRecs
<1>6. \A c \in 1..n : c \in 1..g.hi /\ c \in DOMAIN g.back /\ w.back[c] = g.back[c]
  BY <1>1, <1>3, <1>5
<1>7. \A c \in 1..g.hi : c \in 1..n \/ c = n + 1
  OBVIOUS
<1>8. \A c \in 1..n : g.back[c] # g.back[n + 1]
  <2>1. n + 1 \in 1..g.hi /\ \A c \in 1..n : c # n + 1
    OBVIOUS
  <2> QED BY <1>1, <1>6, <2>1 DEF SliceInv
<1>9. Holds(w) = Holds(g) \ {g.back[n + 1]} /\ g.back[n + 1] \in Holds(g)
  <2>1. n + 1 \in 1..g.hi
    OBVIOUS
  <2>2. Holds(g) = {g.back[c] : c \in 1..g.hi} /\ Holds(w) = {w.back[c] : c \in 1..n}
    BY <1>1, <1>5 DEF Holds
  <2> QED BY <1>6, <1>7, <1>8, <2>1, <2>2
<1>10. \A c \in Outside(w) : w.back[c] = Zero
  <2>1. \A c \in Outside(w) : c = n + 1 \/ c \in Outside(g)
    BY <1>1, <1>3, <1>5 DEF Outside
  <2>2. \A c \in Outside(w) : c \in DOMAIN g.back
    BY <1>3, <1>5 DEF Outside
  <2>3. \A c \in Outside(g) : g.back[c] = Zero
    BY DEF SliceInv
  <2> QED BY <1>3, <1>5, <2>1, <2>2, <2>3
<1>11. SliceInv(w)
  <2>1. \A c \in 1..n : w.back[c] \in Elements
    BY <1>1, <1>6 DEF SliceInv
  <2>2. \A c, d \in 1..n : w.back[c] = w.back[d] => c = d
    BY <1>1, <1>6 DEF SliceInv
  <2> QED BY <1>5, <1>10, <2>1, <2>2 DEF SliceInv
<1>12. \A k \in 0..(n - 1) : Key(w, k) = Key(g, k)
  <2>1. \A k \in 0..(n - 1) : k + 1 \in 1..n /\ 0 + k + 1 = k + 1
    OBVIOUS
  <2> QED BY <1>5, <1>6, <2>1 DEF Key, At
<1>13. Len_(w) = n
  BY <1>5 DEF Len_
<1> QED BY <1>2, <1>5, <1>9, <1>11, <1>12, <1>13

LEMMA SetOfElems ==
  ASSUME NEW s, SliceInv(s)
  PROVE  /\ ToSet(Elems(s)) = Holds(s)
         /\ Len_(s) \in Nat
         /\ \A k \in 1..Len_(s) : Elems(s)[k] = s.back[s.lo + k] /\ s.lo + k \in (s.lo + 1)..s.hi
<1>1. s.back \in Seq(Elements \cup {Zero}) /\ s.lo \in Nat /\ s.hi \in Nat /\ s.lo <= s.hi
      /\ s.hi <= Len(s.back) /\ Len(s.back) \in Nat
  BY DEF SliceInv, SliceRecs
<1> DEFINE l == s.hi - s.lo
<1>2. /\ Elems(s) \in Seq(Elements \cup {Zero}) /\ Len(Elems(s)) = l
      /\ \A k \in 1..l : Elems(s)[k] = s.back[s.lo + k]
  <2>1. SubSeq(s.back, s.lo + 1, s.hi) = Elems(s) /\ s.hi - (s.lo + 1) + 1 = l
    BY <1>1 DEF Elems
  <2>2. /\ Elems(s) \in Seq(Elements \cup {Zero})
        /\ Len(Elems(s)) = IF s.lo + 1 <= s.hi THEN s.hi - (s.lo + 1) + 1 ELSE 0
        /\ \A k \in 1..(s.hi - (s.lo + 1) + 1) : Elems(s)[k] = s.back[s.lo + 1 + k - 1]
    <3>1. /\ s.lo + 1 \in Int /\ s.hi \in Int
          /\ \A k \in (s.lo + 1)..s.hi : s.back[k] \in Elements \cup {Zero}
      BY <1>1
    <3>2. Elems(s) = SubSeq(s.back, s.lo + 1, s.hi)
      BY DEF Elems
    <3> QED BY ONLY <3>1, <3>2, SubSeqProperties
  <2>3. \A k \in 1..l : s.lo + 1 + k - 1 = s.lo + k
    BY <1>1
  <2>4. l = IF s.lo + 1 <= s.hi THEN l ELSE 0
    BY <1>1
  <2> HIDE DEF l
  <2> QED BY <2>1, <2>2, <2>3, <2>4
<1>3. DOMAIN Elems(s) = 1..l
  BY <1>2
<1>4. /\ \A k \in 1..l : s.lo + k \in (s.lo + 1)..s.hi
      /\ \A c \in (s.lo + 1)..s.hi : c - s.lo \in 1..l /\ s.lo + (c - s.lo) = c
  BY <1>1
<1>5. ToSet(Elems(s)) = Holds(s)
  <2>1. ToSet(Elems(s)) = {Elems(s)[k] : k \in 1..l}
    BY <1>3 DEF ToSet
  <2>2. \A k \in 1..l : Elems(s)[k] \in Holds(s)
    BY <1>2, <1>4 DEF Holds
  <2>3. \A c \in (s.lo + 1)..s.hi : s.back[c] = Elems(s)[c - s.lo]
    BY <1>2, <1>4
  <2> QED BY <2>1, <2>2, <2>3, <1>4 DEF Holds
<1> QED BY <1>1, <1>2, <1>4, <1>5 DEF Len_

-----------------------------------------------------------------------------
\* Every operation keeps the invariant.

LEMMA Primes ==
  /\ SliceInv(elems)' <=> SliceInv(elems')
  /\ SliceInv(arr)' <=> SliceInv(arr')
  /\ Holds(elems)' = Holds(elems')
  /\ Holds(arr)' = Holds(arr')
  /\ HeapOrder(arr)' <=> HeapOrder(arr')
<1>1. SliceInv(elems)' <=> SliceInv(elems')
  BY DEF SliceInv, SliceRecs, Outside
<1>2. SliceInv(arr)' <=> SliceInv(arr')
  BY DEF SliceInv, SliceRecs, Outside
<1>3. Holds(elems)' = Holds(elems')
  BY DEF Holds
<1>4. Holds(arr)' = Holds(arr')
  BY DEF Holds
<1>5. HeapOrder(arr)' <=> HeapOrder(arr')
  BY DEF HeapOrder, Key, At, Len_
<1> QED BY <1>1, <1>2, <1>3, <1>4, <1>5

LEMMA ContInvInit == ContInit => ContInv
BY NilInv DEF ContInit, ContInv, PlacesInv

LEMMA ElemsStep ==
  ASSUME ContInv,
         (\E e \in Elements : PushQueue(e)) \/ PopQueue \/ ClearQueue
  PROVE  ContInv'
<1> USE DEF ContInv
<1>1. ASSUME NEW e \in Elements, PushQueue(e) PROVE ContInv'
  <2>1. PICK spare \in 0..1 : elems' = AppendTo(elems, e, spare)
    BY <1>1 DEF PushQueue
  <2>2. e \in held /\ held' = held \ {e} /\ arr' = arr
    BY <1>1 DEF PushQueue
  <2>3. e \notin Holds(elems)
    BY <2>2 DEF PlacesInv
  <2>4. SliceInv(elems') /\ Holds(elems') = Holds(elems) \cup {e}
    BY <2>1, <2>3, Appended
  <2>5. SliceInv(elems)' /\ Holds(elems)' = Holds(elems) \cup {e} /\ Holds(arr)' = Holds(arr)
    BY <2>2, <2>4, Primes
  <2>6. PlacesInv'
    BY <2>2, <2>5 DEF PlacesInv
  <2> QED BY <2>2, <2>5, <2>6, Primes
<1>2. CASE PopQueue
  <2>1. elems' = Window(Put(elems, 0, Zero), 1, Len_(elems)) /\ Len_(elems) > 0
    BY <1>2 DEF PopQueue
  <2>2. held' = held \cup {At(elems, 0)} /\ arr' = arr
    BY <1>2 DEF PopQueue
  <2>3. /\ SliceInv(elems') /\ Holds(elems') = Holds(elems) \ {At(elems, 0)}
        /\ At(elems, 0) \in Holds(elems)
    BY <2>1, Shortened
  <2>4. /\ SliceInv(elems)' /\ Holds(elems)' = Holds(elems) \ {At(elems, 0)}
        /\ Holds(arr)' = Holds(arr)
    BY <2>2, <2>3, Primes
  <2>5. PlacesInv'
    BY <2>2, <2>3, <2>4 DEF PlacesInv
  <2> QED BY <2>2, <2>4, <2>5, Primes
<1>3. CASE ClearQueue
  <2>1. elems' = Nil /\ held' = held \cup Holds(elems) /\ arr' = arr
    BY <1>3, SetOfElems DEF ClearQueue
  <2>2. SliceInv(elems') /\ Holds(elems') = {}
    BY <2>1, NilInv
  <2>3. SliceInv(elems)' /\ Holds(elems)' = {} /\ Holds(arr)' = Holds(arr)
    BY <2>1, <2>2, Primes
  <2>4. PlacesInv'
    BY <2>1, <2>3 DEF PlacesInv
  <2> QED BY <2>1, <2>3, <2>4, Primes
<1> QED BY <1>1, <1>2, <1>3

LEMMA ArrStep ==
  ASSUME ContInv,
         (\E e \in Elements : PushPriority(e)) \/ PopPriority \/ ClearPriority
  PROVE  ContInv'
<1> USE DEF ContInv
<1>0. arr.hi = Len_(arr) /\ Len_(arr) \in Nat
  BY SetOfElems DEF SliceInv, SliceRecs, Len_
<1>1. ASSUME NEW e \in Elements, PushPriority(e) PROVE ContInv'
  <2>1. PICK spare \in 0..1 : arr' = SiftUp(AppendTo(arr, e, spare), Len_(arr))
    BY <1>1 DEF PushPriority
  <2>2. e \in held /\ held' = held \ {e} /\ elems' = elems
    BY <1>1 DEF PushPriority
  <2>3. e \notin Holds(arr)
    BY <2>2 DEF PlacesInv
  <2> DEFINE h == AppendTo(arr, e, spare)
             j == Len_(arr)
  <2>4. /\ SliceInv(h) /\ Holds(h) = Holds(arr) \cup {e} /\ Len_(h) = j + 1 /\ h.lo = 0
        /\ \A k \in 0..(j - 1) : At(h, k) = At(arr, k)
    BY <2>3, Appended
  <2>5. arr' = SiftUp(h, j)
    BY <2>1
  <2> HIDE DEF h
  <2>6. h.hi = j + 1 /\ j \in Nat
    <3>1. h.hi \in Nat
      BY <2>4 DEF SliceInv, SliceRecs
    <3> QED BY <1>0, <2>4, <3>1 DEF Len_
  <2>7. \A k \in 1..(j - 1) : Key(h, (k - 1) \div 2) <= Key(h, k)
    <3>1. \A k \in 1..(j - 1) : (k - 1) \div 2 \in 0..(j - 1) /\ k \in 0..(j - 1)
      BY <2>6
    <3> QED BY <2>4, <3>1 DEF HeapOrder, Key
  <2> HIDE DEF j
  <2>8. SliceInv(arr') /\ Holds(arr') = Holds(arr) \cup {e} /\ (arr').lo = 0 /\ HeapOrder(arr')
    BY <2>4, <2>5, <2>6, <2>7, SiftUpCorrect
  <2>9. Holds(elems)' = Holds(elems) /\ Holds(arr)' = Holds(arr) \cup {e}
    BY <2>2, <2>8, Primes
  <2>10. PlacesInv'
    BY <2>2, <2>9 DEF PlacesInv
  <2> QED BY <2>2, <2>8, <2>10, Primes
<1>2. CASE PopPriority
  <2> DEFINE n == Len_(arr) - 1
             h == Swap(arr, 0, n)
             g == SiftDown(h, n)
             r == HeapPop(g)
  <2>1. n \in Nat /\ arr.hi = n + 1
    BY <1>0, <1>2 DEF PopPriority
  <2>2. arr' = r.rest /\ held' = held \cup {r.item} /\ elems' = elems
    BY <1>2 DEF PopPriority
  <2> HIDE DEF r, n
  <2>3. Rearranged(arr, arr, n + 1) /\ n + 1 \in 0..arr.hi
    BY <2>1, RearrangedStart
  <2>4. n \in 0..((n + 1) - 1) /\ 0 \in 0..((n + 1) - 1)
    BY <2>1
  <2>5. Rearranged(h, arr, n + 1)
    BY <2>3, <2>4, SwapRearranges
  <2>6. \A k \in 0..((n + 1) - 1) : Key(h, k) =
          IF k = 0 THEN Key(arr, n) ELSE IF k = n THEN Key(arr, 0) ELSE Key(arr, k)
    BY <2>3, <2>4, KeysSwapped
  <2> HIDE DEF h
  <2>7. SliceInv(h) /\ Holds(h) = Holds(arr) /\ h.lo = 0 /\ h.hi = n + 1
    <3>1. SliceInv(h) /\ Holds(h) = Holds(arr)
      BY <2>3, <2>5, RearrangedEnd
    <3>2. h.lo = 0 /\ h.hi = n + 1
      BY <2>1, <2>5 DEF Rearranged
    <3> QED BY <3>1, <3>2
  <2>8. ASSUME NEW k \in 1..(n - 1), (k - 1) \div 2 # 0
        PROVE  Key(h, (k - 1) \div 2) <= Key(h, k)
    <3> DEFINE q == (k - 1) \div 2
    <3>1. /\ q \in 0..((n + 1) - 1) /\ q # 0 /\ q # n
          /\ k \in 0..((n + 1) - 1) /\ k # 0 /\ k # n /\ k \in 1..(Len_(arr) - 1)
      BY <2>1, <2>8 DEF n
    <3>2. Key(h, q) = Key(arr, q) /\ Key(h, k) = Key(arr, k)
      BY <2>6, <3>1
    <3>3. Key(arr, q) <= Key(arr, k)
      BY <3>1 DEF HeapOrder
    <3> QED BY <3>2, <3>3
  <2>9. /\ SliceInv(g) /\ Holds(g) = Holds(arr) /\ g.lo = 0 /\ g.hi = n + 1
        /\ \A k \in 1..(n - 1) : Key(g, (k - 1) \div 2) <= Key(g, k)
    BY <2>1, <2>7, <2>8, SiftDownCorrect
  <2> HIDE DEF g
  <2>10. /\ SliceInv(r.rest) /\ r.rest.lo = 0 /\ Len_(r.rest) = n
         /\ Holds(r.rest) = Holds(arr) \ {r.item} /\ r.item \in Holds(arr)
         /\ \A k \in 0..(n - 1) : Key(r.rest, k) = Key(g, k)
    BY <2>1, <2>9, LastTaken DEF r
  <2>11. HeapOrder(r.rest)
    <3>1. \A k \in 1..(n - 1) : (k - 1) \div 2 \in 0..(n - 1) /\ k \in 0..(n - 1)
      BY <2>1
    <3> QED BY <2>9, <2>10, <3>1 DEF HeapOrder
  <2>12. Holds(elems)' = Holds(elems) /\ Holds(arr)' = Holds(arr) \ {r.item}
    BY <2>2, <2>10, Primes
  <2>13. PlacesInv'
    BY <2>2, <2>10, <2>12 DEF PlacesInv
  <2> QED BY <2>2, <2>10, <2>11, <2>13, Primes
<1>3. CASE ClearPriority
  <2>1. arr' = Nil /\ held' = held \cup Holds(arr) /\ elems' = elems
    BY <1>3, SetOfElems DEF ClearPriority
  <2>2. SliceInv(arr') /\ Holds(arr') = {} /\ HeapOrder(arr') /\ (arr').lo = 0
    BY <2>1, NilInv
  <2>3. Holds(arr)' = {} /\ Holds(elems)' = Holds(elems)
    BY <2>1, <2>2, Primes
  <2>4. PlacesInv'
    BY <2>1, <2>3 DEF PlacesInv
  <2> QED BY <2>1, <2>2, <2>4, Primes
<1> QED BY <1>1, <1>2, <1>3

LEMMA ContInvStep == ContInv /\ [ContNext]_cvars => ContInv'
<1> SUFFICES ASSUME ContInv, [ContNext]_cvars PROVE ContInv'
  OBVIOUS
<1>1. CASE UNCHANGED cvars
  <2>1. elems' = elems /\ arr' = arr /\ held' = held
    BY <1>1 DEF cvars
  <2>2. PlacesInv'
    BY <2>1, Primes DEF ContInv, PlacesInv
  <2> QED BY <2>1, <2>2, Primes DEF ContInv
<1>2. CASE ContNext
  BY <1>2, ElemsStep, ArrStep DEF ContNext
<1> QED BY <1>1, <1>2

-----------------------------------------------------------------------------
\* The properties follow.

LEMMA PlaceCount ==
  ASSUME NEW s, SliceInv(s), NEW e
  PROVE  Cardinality({k \in 1..Len_(s) : Elems(s)[k] = e}) = IF e \in Holds(s) THEN 1 ELSE 0
<1> DEFINE P == {k \in 1..Len_(s) : Elems(s)[k] = e}
<1>1. /\ s.lo \in Nat /\ s.hi \in Nat /\ s.lo <= s.hi /\ Len_(s) = s.hi - s.lo
      /\ \A k \in 1..Len_(s) : Elems(s)[k] = s.back[s.lo + k] /\ s.lo + k \in (s.lo + 1)..s.hi
  BY SetOfElems DEF SliceInv, SliceRecs, Len_
<1>2. CASE e \in Holds(s)
  <2>1. PICK c \in (s.lo + 1)..s.hi : e = s.back[c]
    BY <1>2 DEF Holds
  <2>2. c - s.lo \in 1..Len_(s) /\ s.lo + (c - s.lo) = c
    BY <1>1
  <2>3. ASSUME NEW k \in 1..Len_(s), Elems(s)[k] = e PROVE k = c - s.lo
    <3>1. s.lo + k \in (s.lo + 1)..s.hi /\ s.back[s.lo + k] = s.back[c]
      BY <1>1, <2>1, <2>3
    <3>2. \A a, b \in (s.lo + 1)..s.hi : s.back[a] = s.back[b] => a = b
      BY DEF SliceInv
    <3>3. s.lo + k = c
      BY <3>1, <3>2, <2>1
    <3> QED BY <1>1, <3>3
  <2>4. P = {c - s.lo}
    BY <1>1, <2>1, <2>2, <2>3
  <2> QED BY <1>2, <2>4, FS_Singleton
<1>3. CASE e \notin Holds(s)
  <2>1. P = {}
    BY <1>1, <1>3 DEF Holds
  <2> QED BY <1>3, <2>1, FS_EmptySet
<1> QED BY <1>2, <1>3

\* In a heap no key is smaller than that of the root.
LEMMA RootLeast ==
  ASSUME NEW h, SliceInv(h), h.lo = 0, HeapOrder(h), NEW k \in 0..(Len_(h) - 1)
  PROVE  Key(h, 0) <= Key(h, k)
<1> DEFINE n == Len_(h)
           T == {m \in 0..(n - 1) : ~(Key(h, 0) <= Key(h, m))}
<1>1. n \in Nat /\ n = h.hi
  BY SetOfElems DEF SliceInv, SliceRecs, Len_
<1>2. \A m \in 0..(n - 1) : Key(h, m) \in Int
  <2>1. n \in 0..h.hi /\ Rearranged(h, h, n)
    BY <1>1, RearrangedStart
  <2> HIDE DEF n
  <2> QED BY <2>1, KeysSwapped
<1> SUFFICES ASSUME T # {} PROVE FALSE
  OBVIOUS
<1>3. PICK m \in T : \A y \in T : ~ (<<y, m>> \in LessThan)
  <2> HIDE DEF T
  <2>1. T \subseteq Nat
    BY <1>1 DEF T
  <2> QED BY <2>1, LessThanWellFounded, WFMin
<1>4. m \in 1..(n - 1)
  <2>1. 0 \in 0..(n - 1) /\ Key(h, 0) <= Key(h, 0)
    BY <1>1, <1>2
  <2>2. m # 0
    BY <2>1
  <2> QED BY <1>1, <2>2
<1> DEFINE q == (m - 1) \div 2
<1>5. q \in 0..(n - 1) /\ q < m /\ <<q, m>> \in LessThan
  BY <1>1, <1>4 DEF LessThan
<1>6. Key(h, q) <= Key(h, m)
  BY <1>4 DEF HeapOrder
<1>7. Key(h, 0) <= Key(h, q)
  BY <1>3, <1>5
<1>8. Key(h, 0) \in Int /\ Key(h, q) \in Int /\ Key(h, m) \in Int
  BY <1>1, <1>2, <1>4, <1>5
<1>9. ~(Key(h, 0) <= Key(h, m))
  OBVIOUS
<1> QED BY <1>6, <1>7, <1>8, <1>9

LEMMA ContInvProperties == ContInv => QueuesKeep
<1> SUFFICES ASSUME ContInv PROVE QueuesKeep
  OBVIOUS
<1> USE DEF ContInv
<1>1. ContTypeOK
  <2>1. \A s : SliceInv(s) => DOMAIN s = {"back", "lo", "hi"} /\ IsSlice(s)
    BY DEF SliceInv, SliceRecs, IsSlice
  <2> QED BY <2>1 DEF ContTypeOK, PlacesInv
<1>2. Conserved
  <2>1. ASSUME NEW e \in Elements
        PROVE  Cardinality({n \in 1..Len_(elems) : Elems(elems)[n] = e})
                 + Cardinality({n \in 1..Len_(arr) : Elems(arr)[n] = e})
                 + (IF e \in held THEN 1 ELSE 0) = 1
    <3>1. \/ e \in held /\ e \notin Holds(elems) /\ e \notin Holds(arr)
          \/ e \notin held /\ e \in Holds(elems) /\ e \notin Holds(arr)
          \/ e \notin held /\ e \notin Holds(elems) /\ e \in Holds(arr)
      BY DEF PlacesInv
    <3>2. /\ Cardinality({n \in 1..Len_(elems) : Elems(elems)[n] = e}) =
                IF e \in Holds(elems) THEN 1 ELSE 0
          /\ Cardinality({n \in 1..Len_(arr) : Elems(arr)[n] = e}) =
                IF e \in Holds(arr) THEN 1 ELSE 0
      BY PlaceCount
    <3> QED BY <3>1, <3>2
  <2> QED BY <2>1 DEF Conserved
<1>3. LeastFirst
  <2> SUFFICES ASSUME NEW n \in 1..Len_(arr)
               PROVE  Priority[At(arr, 0)] <= Priority[Elems(arr)[n]]
    BY DEF LeastFirst
  <2>1. Len_(arr) \in Nat /\ Elems(arr)[n] = arr.back[arr.lo + n]
    BY SetOfElems
  <2>2. n - 1 \in 0..(Len_(arr) - 1) /\ arr.lo + (n - 1) + 1 = arr.lo + n
    BY <2>1
  <2>3. Key(arr, 0) <= Key(arr, n - 1)
    BY <2>2, RootLeast
  <2> QED BY <2>1, <2>2, <2>3 DEF Key, At
<1>4. NoReferenceKept
  BY DEF NoReferenceKept, SliceInv
<1> QED BY <1>1, <1>2, <1>3, <1>4 DEF QueuesKeep

\* Queue and priority queue: whatever is pushed, popped and cleared, every element
\* is in one place once, the priority queue shows an element that none precedes, and
\* no array keeps a pointer to an element that left.
THEOREM ContainersCorrect == ContSpec => []QueuesKeep
<1>1. ContInit => ContInv
  BY ContInvInit
<1>2. ContInv /\ [ContNext]_cvars => ContInv'
  BY ContInvStep
<1>3. ContInv => QueuesKeep
  BY ContInvProperties
<1> QED BY <1>1, <1>2, <1>3, PTL DEF ContSpec

-----------------------------------------------------------------------------
\* SliceOps: what a loop over a slice computes.

\* Induction up to n, with a set in the place of a predicate.
LEMMA Upto ==
  ASSUME NEW n \in Nat, NEW S, 0 \in S, \A k \in 1..n : k - 1 \in S => k \in S
  PROVE  0..n \subseteq S
<1> DEFINE T == (0..n) \ S
<1> SUFFICES ASSUME T # {} PROVE FALSE
  OBVIOUS
<1>1. PICK x \in T : \A y \in T : ~ (<<y, x>> \in LessThan)
  <2> HIDE DEF T
  <2>1. T \subseteq Nat
    BY DEF T
  <2> QED BY <2>1, LessThanWellFounded, WFMin
<1>2. x \in 1..n /\ x - 1 \in Nat /\ x - 1 \in 0..n
  OBVIOUS
<1>3. x - 1 \in T /\ x \in Nat /\ x - 1 < x
  BY <1>2
<1>4. <<x - 1, x>> \in LessThan
  BY <1>2, <1>3 DEF LessThan
<1> QED BY <1>1, <1>3, <1>4

\* What each turn keeps holds after each turn.
LEMMA LoopIn ==
  ASSUME NEW X, NEW n \in Nat, NEW f, f[0] \in X, \A k \in 1..n : f[k - 1] \in X => f[k] \in X
  PROVE  \A k \in 0..n : f[k] \in X
<1> DEFINE S == {k \in 0..n : f[k] \in X}
<1>1. 0 \in S /\ \A k \in 1..n : k - 1 \in S => k \in S
  OBVIOUS
<1>2. 0..n \subseteq S
  <2> HIDE DEF S
  <2> QED BY <1>1, Upto
<1> QED BY <1>2

LoopOf(f, X, base, n, G) ==
    /\ f \in [0..n -> X] /\ f[0] = base
    /\ \A k \in 1..n : f[k] = G[k][f[k - 1]]

\* A loop of n turns in the values of X has the values that its turns give.
LEMMA Recursion ==
  ASSUME NEW X, NEW base \in X, NEW n \in Nat, NEW G \in [1..n -> [X -> X]]
  PROVE  \E f : LoopOf(f, X, base, n, G)
<1> DEFINE Upto_(m) == \E f \in [0..m -> X] :
                          f[0] = base /\ \A k \in 1..m : f[k] = G[k][f[k - 1]]
           S == {m \in 0..n : Upto_(m)}
<1>1. 0 \in S
  <2> DEFINE f == [k \in 0..0 |-> base]
  <2>1. f \in [0..0 -> X] /\ f[0] = base /\ \A k \in 1..0 : f[k] = G[k][f[k - 1]]
    OBVIOUS
  <2>2. Upto_(0)
    BY <2>1
  <2> QED BY <2>2
<1>2. ASSUME NEW m \in 1..n, m - 1 \in S PROVE m \in S
  <2>1. PICK f \in [0..(m - 1) -> X] :
            f[0] = base /\ \A k \in 1..(m - 1) : f[k] = G[k][f[k - 1]]
    BY <1>2
  <2> DEFINE g == [k \in 0..m |-> IF k = m THEN G[m][f[m - 1]] ELSE f[k]]
  <2>2. g \in [0..m -> X]
    <3>1. G[m] \in [X -> X] /\ f[m - 1] \in X
      BY <2>1
    <3> QED BY <2>1, <3>1
  <2>3. g[0] = base
    BY <2>1
  <2>4. ASSUME NEW k \in 1..m PROVE g[k] = G[k][g[k - 1]]
    <3>1. k - 1 \in 0..m /\ k - 1 # m /\ g[k - 1] = f[k - 1]
      OBVIOUS
    <3>2. CASE k = m
      BY <3>1, <3>2
    <3>3. CASE k # m
      <4>1. k \in 1..(m - 1) /\ g[k] = f[k]
        BY <3>3
      <4> QED BY <4>1, <3>1, <2>1
    <3> QED BY <3>2, <3>3
  <2>5. Upto_(m)
    BY <2>2, <2>3, <2>4
  <2>6. m \in 0..n
    OBVIOUS
  <2> QED BY ONLY <2>5, <2>6, Zenon
<1>3. 0..n \subseteq S
  <2> HIDE DEF S
  <2> QED BY <1>1, <1>2, Upto
<1>4. Upto_(n)
  BY <1>3
<1> QED BY <1>4 DEF LoopOf

\* The first m elements of a sequence, by their places.
LEMMA FirstPart ==
  ASSUME NEW X, NEW s \in Seq(X), NEW m \in 0..Len(s)
  PROVE  /\ SubSeq(s, 1, m) \in Seq(X) /\ Len(SubSeq(s, 1, m)) = m
         /\ \A i \in 1..m : SubSeq(s, 1, m)[i] = s[i]
OBVIOUS

\* The first m elements of a sequence.
LEMMA FirstOnes ==
  ASSUME NEW X, NEW s \in Seq(X), NEW m \in 1..Len(s)
  PROVE  /\ SubSeq(s, 1, m - 1) \in Seq(X) /\ Len(SubSeq(s, 1, m - 1)) = m - 1
         /\ s[m] \in X
         /\ SubSeq(s, 1, m) = Append(SubSeq(s, 1, m - 1), s[m])
<1>1. Len(s) \in Nat /\ m \in Int /\ s[m] \in X
  OBVIOUS
<1>2. SubSeq(s, 1, m - 1) \in Seq(X) /\ Len(SubSeq(s, 1, m - 1)) = m - 1
  OBVIOUS
<1>3. SubSeq(s, 1, m) \in Seq(X) /\ Len(SubSeq(s, 1, m)) = m
  OBVIOUS
<1>4. Append(SubSeq(s, 1, m - 1), s[m]) \in Seq(X)
      /\ Len(Append(SubSeq(s, 1, m - 1), s[m])) = m
  BY <1>2, <1>1, AppendProperties
<1>5. \A i \in 1..m : SubSeq(s, 1, m)[i] = Append(SubSeq(s, 1, m - 1), s[m])[i]
  <2> TAKE i \in 1..m
  <2>1. CASE i = m
    BY <2>1, <1>2
  <2>2. CASE i # m
    <3>1. i \in 1..(m - 1)
      BY <2>2
    <3> QED BY <3>1, <1>2
  <2> QED BY <2>1, <2>2
<1> QED BY <1>1, <1>2, <1>3, <1>4, <1>5, SeqEqual

\* The turns of a loop over s stay in Y, and f has what it has found after each.
StaysIn(turn, s, Y) == \A k \in 1..Len(s) : \A y \in Y : turn[s[k]][y] \in Y

Finds(f, turn, base, s, Y) ==
    /\ Loop(turn, base, s) = f[Len(s)]
    /\ f \in [0..Len(s) -> Y] /\ f[0] = base
    /\ \A k \in 1..Len(s) : f[k] = turn[s[k]][f[k - 1]]

\* The turns of a loop that stays in Y give its value.
LEMMA LoopDef ==
  ASSUME NEW Y, NEW base \in Y, NEW s, Len(s) \in Nat, NEW turn, StaysIn(turn, s, Y)
  PROVE  \E f : Finds(f, turn, base, s, Y)
<1> DEFINE n == Len(s)
           IsLoop(g) == g = [k \in 0..n |-> IF k = 0 THEN base ELSE turn[s[k]][g[k - 1]]]
           G == [k \in 1..n |-> [y \in Y |-> turn[s[k]][y]]]
<1>1. n \in Nat /\ 0 \in 0..n /\ \A k \in 1..n : k \in 0..n /\ k - 1 \in 0..n /\ k # 0
  OBVIOUS
<1>2. G \in [1..n -> [Y -> Y]]
  BY DEF StaysIn
<1>3. PICK h : LoopOf(h, Y, base, n, G)
  <2> HIDE DEF G, n
  <2> QED BY <1>1, <1>2, Recursion
<1> DEFINE f == CHOOSE g : IsLoop(g)
<1>4. Loop(turn, base, s) = f[n]
  BY DEF Loop
<1>5. \A k \in 1..n : h[k - 1] \in Y /\ h[k] = turn[s[k]][h[k - 1]]
  <2> TAKE k \in 1..n
  <2>1. h[k - 1] \in Y /\ h[k] = G[k][h[k - 1]]
    <3> HIDE DEF n, G
    <3> QED BY <1>1, <1>3 DEF LoopOf
  <2> QED BY <2>1
<1> HIDE DEF n, G
<1>6. IsLoop(h)
  BY <1>1, <1>3, <1>5 DEF LoopOf
<1>7. IsLoop(f)
  <2> HIDE DEF IsLoop
  <2> QED BY <1>6
<1> HIDE DEF f
<1>8. \A k \in 0..n : f[k] = IF k = 0 THEN base ELSE turn[s[k]][f[k - 1]]
  BY <1>7
<1>9. f[0] = base /\ \A k \in 1..n : f[k] = turn[s[k]][f[k - 1]]
  <2> HIDE DEF IsLoop
  <2> QED BY <1>1, <1>8
<1>10. \A k \in 1..n : f[k - 1] \in Y => f[k] \in Y
  BY <1>9 DEF n, StaysIn
<1>11. \A k \in 0..n : f[k] \in Y
  BY <1>1, <1>9, <1>10, LoopIn
<1>12. f \in [0..n -> Y]
  BY <1>7, <1>11
<1> QED BY <1>4, <1>9, <1>12 DEF n, Finds

\* The elements in p that Where has found after k turns.
WhereTurns(f, s, p) ==
    /\ Where(s, p) = f[Len(s)]
    /\ f \in [0..Len(s) -> Seq(Int)] /\ f[0] = <<>>
    /\ \A k \in 1..Len(s) :
          f[k] = IF s[k] \in p THEN Append(f[k - 1], s[k]) ELSE f[k - 1]

\* Where is such a loop.
LEMMA WhereLoop ==
  ASSUME NEW s \in Seq(Int), NEW p
  PROVE  \E f : WhereTurns(f, s, p)
<1> DEFINE Y == Seq(Int)
           turn == [e \in Int |-> [out \in Y |-> IF e \in p THEN Append(out, e) ELSE out]]
<1>1. <<>> \in Y /\ \A out \in Y : \A e \in Int : Append(out, e) \in Y
  BY AppendProperties
<1>2. \A e \in Int : \A out \in Y :
         turn[e][out] = (IF e \in p THEN Append(out, e) ELSE out) /\ turn[e][out] \in Y
  <2> HIDE DEF Y
  <2> QED BY <1>1
<1>3. Len(s) \in Nat /\ \A k \in 1..Len(s) : s[k] \in Int /\ k - 1 \in 0..Len(s)
  OBVIOUS
<1>4. Where(s, p) = Loop(turn, <<>>, s)
  BY DEF Where
<1> HIDE DEF turn, Y
<1>5. StaysIn(turn, s, Y)
  BY <1>2, <1>3 DEF StaysIn
<1>6. PICK f : Finds(f, turn, <<>>, s, Y)
  BY <1>1, <1>3, <1>5, LoopDef
<1>7. \A k \in 1..Len(s) :
         f[k] = IF s[k] \in p THEN Append(f[k - 1], s[k]) ELSE f[k - 1]
  BY <1>2, <1>3, <1>6 DEF Finds
<1>8. WhereTurns(f, s, p)
  BY <1>4, <1>6, <1>7 DEF Y, Finds, WhereTurns
<1> QED BY <1>8

-----------------------------------------------------------------------------
\* SliceOps: loops that return early, filter, map and group.

\* m is the place of the first element in stop, or the one behind the last.
FirstIn(m, s, stop, n) ==
    /\ m \in 1..(n + 1)
    /\ \A i \in 1..(m - 1) : s[i] \notin stop
    /\ m <= n => s[m] \in stop

\* There is a first place of stop, or the place behind the end.
LEMMA FirstExists ==
  ASSUME NEW n \in Nat, NEW s, NEW stop
  PROVE  \E m : FirstIn(m, s, stop, n)
<1> DEFINE S == {k \in 0..n : \E m : FirstIn(m, s, stop, k)}
<1>1. 0 \in S
  <2>1. FirstIn(1, s, stop, 0)
    BY DEF FirstIn
  <2> QED BY <2>1
<1>2. ASSUME NEW k \in 1..n, k - 1 \in S PROVE k \in S
  <2>1. PICK m : FirstIn(m, s, stop, k - 1)
    BY <1>2
  <2>2. CASE m <= k - 1
    <3>1. FirstIn(m, s, stop, k)
      BY <2>1, <2>2 DEF FirstIn
    <3> QED BY <3>1
  <2>3. CASE m = k /\ s[k] \in stop
    <3>1. FirstIn(m, s, stop, k)
      BY <2>1, <2>3 DEF FirstIn
    <3> QED BY <3>1
  <2>4. CASE m = k /\ s[k] \notin stop
    <3>1. \A i \in 1..k : i \in 1..(k - 1) \/ i = k
      OBVIOUS
    <3>2. FirstIn(k + 1, s, stop, k)
      BY <2>1, <2>4, <3>1 DEF FirstIn
    <3> QED BY <3>2
  <2>5. m <= k - 1 \/ m = k
    BY <2>1 DEF FirstIn
  <2> QED BY <2>2, <2>3, <2>4, <2>5
<1>3. 0..n \subseteq S
  <2> HIDE DEF S
  <2> QED BY <1>1, <1>2, Upto
<1> QED BY <1>3

\* UpTo ends there.
LEMMA UpToFirst ==
  ASSUME NEW s \in Seq(Int), NEW stop, NEW m, FirstIn(m, s, stop, Len(s))
  PROVE  /\ UpTo(s, stop) = SubSeq(s, 1, IF m <= Len(s) THEN m ELSE Len(s))
         /\ ToSet(s) \cap stop # {} <=> m <= Len(s)
<1> DEFINE n == Len(s)
           hits == {i \in DOMAIN s : s[i] \in stop}
<1>1. n \in Nat /\ DOMAIN s = 1..n /\ m \in 1..(n + 1)
  BY DEF FirstIn
<1>2. ToSet(s) \cap stop # {} <=> hits # {}
  BY DEF ToSet
<1>3. CASE m <= n
  <2>1. m \in hits /\ \A i \in hits : m <= i
    BY <1>1, <1>3 DEF FirstIn
  <2>2. \A x : x \in hits /\ (\A i \in hits : x <= i) => x = m
    <3> TAKE x
    <3> HAVE x \in hits /\ \A i \in hits : x <= i
    <3>1. x <= m /\ m <= x /\ x \in Int
      BY <2>1, <1>1
    <3> QED BY <3>1, <1>1
  <2>3. Min(hits) = m
    <3> HIDE DEF hits
    <3> QED BY <2>1, <2>2 DEF Min
  <2>4. UpTo(s, stop) = IF hits = {} THEN s ELSE SubSeq(s, 1, Min(hits))
    BY DEF UpTo
  <2> HIDE DEF hits
  <2> QED BY <2>1, <2>3, <2>4, <1>2, <1>3
<1>4. CASE m = n + 1
  <2>1. hits = {}
    BY <1>1, <1>4 DEF FirstIn
  <2>2. UpTo(s, stop) = s
    BY <2>1 DEF UpTo
  <2>3. SubSeq(s, 1, n) = s
    BY SubSeqFull
  <2>4. ~(m <= n)
    BY <1>1, <1>4
  <2> HIDE DEF hits
  <2>5. UpTo(s, stop) = SubSeq(s, 1, IF m <= n THEN m ELSE n)
    BY <2>2, <2>3, <2>4
  <2> QED BY <2>1, <2>4, <2>5, <1>2
<1> QED BY <1>1, <1>3, <1>4

\* A loop that returns early has looked at the elements up to the one it stops at.
LEMMA VisitedIs ==
  ASSUME NEW s \in Seq(Int), NEW stop
  PROVE  /\ Visited(s, stop) \in [out : Seq(Int), done : BOOLEAN]
         /\ Visited(s, stop).out = UpTo(s, stop)
         /\ Visited(s, stop).done <=> ToSet(s) \cap stop # {}
<1> DEFINE n == Len(s)
           Y == [out : Seq(Int), done : BOOLEAN]
           base == [out |-> <<>>, done |-> FALSE]
           turn == [e \in Int |-> [st \in Y |-> Visit(st, e, stop)]]
<1>1. base \in Y /\ base.out = <<>> /\ ~base.done
  OBVIOUS
<1>2. \A st \in Y : \A e \in Int : Visit(st, e, stop) \in Y
  <2> TAKE st \in Y
  <2> TAKE e \in Int
  <2>1. Append(st.out, e) \in Seq(Int) /\ (e \in stop) \in BOOLEAN
    BY AppendProperties
  <2> QED BY <2>1 DEF Visit
<1>a. \A st : \A e : st.done => Visit(st, e, stop) = st
  BY DEF Visit
<1>b. \A st : \A e :
         ~st.done => Visit(st, e, stop) = [out |-> Append(st.out, e), done |-> e \in stop]
  BY DEF Visit
<1>3. n \in Nat /\ 0 \in 0..n /\ \A k \in 1..n : s[k] \in Int /\ k \in 0..n /\ k - 1 \in 0..n
  OBVIOUS
<1>4. Visited(s, stop) = Loop(turn, base, s)
  BY DEF Visited
<1>5. \A e \in Int : \A st \in Y : turn[e][st] = Visit(st, e, stop)
  <2> HIDE DEF Y
  <2> QED OBVIOUS
<1> HIDE DEF turn, base, Y
<1>6. StaysIn(turn, s, Y)
  BY <1>2, <1>3, <1>5 DEF StaysIn
<1>7. PICK f : Finds(f, turn, base, s, Y)
  BY <1>1, <1>3, <1>6, LoopDef
<1>8. /\ Visited(s, stop) = f[n] /\ f[0] = base
      /\ \A k \in 0..n : f[k] \in Y
      /\ \A k \in 1..n : f[k] = Visit(f[k - 1], s[k], stop)
  BY <1>3, <1>4, <1>5, <1>7 DEF Finds
<1>9. PICK m : FirstIn(m, s, stop, n)
  BY <1>3, FirstExists
<1> DEFINE Part(k) == SubSeq(s, 1, IF k < m THEN k ELSE m)
           S == {k \in 0..n : f[k].out = Part(k) /\ (f[k].done <=> m <= k)}
<1>10. m \in Int /\ m >= 1
  BY <1>3, <1>9 DEF FirstIn
<1> HIDE DEF n
<1>11. 0 \in S
  <2>1. Part(0) = <<>> /\ ~(m <= 0)
    BY <1>10, SubSeqEmpty
  <2>2. f[0].out = Part(0) /\ ~f[0].done
    BY <2>1, <1>1, <1>8
  <2> HIDE DEF Part
  <2> QED BY <2>1, <2>2, <1>3
<1>12. ASSUME NEW k \in 1..n, k - 1 \in S PROVE k \in S
  <2>1. /\ f[k - 1] \in Y /\ f[k] = Visit(f[k - 1], s[k], stop) /\ s[k] \in Int
        /\ k \in 0..n /\ k \in Int
    BY <1>3, <1>8
  <2>2. f[k - 1].out = Part(k - 1) /\ (f[k - 1].done <=> m <= k - 1)
    BY <1>12
  <2>3. CASE m <= k - 1
    <3>1. f[k] = f[k - 1] /\ f[k - 1].done
      BY <1>a, <2>1, <2>2, <2>3
    <3>2. Part(k) = Part(k - 1) /\ m <= k
      BY <2>1, <2>3, <1>10
    <3> QED BY <3>1, <3>2, <2>1, <2>2
  <2>4. CASE m > k - 1
    <3>1. ~f[k - 1].done
      BY <2>1, <2>2, <2>4, <1>10
    <3>2. f[k].out = Append(f[k - 1].out, s[k]) /\ (f[k].done <=> s[k] \in stop)
      <4>1. f[k] = [out |-> Append(f[k - 1].out, s[k]), done |-> s[k] \in stop]
        BY <1>b, <2>1, <3>1
      <4>2. f[k].done = (s[k] \in stop) /\ f[k].out = Append(f[k - 1].out, s[k])
        BY <4>1
      <4> QED BY <4>2
    <3>3. Part(k - 1) = SubSeq(s, 1, k - 1) /\ Part(k) = SubSeq(s, 1, k)
      BY <2>1, <2>4, <1>10
    <3>4. SubSeq(s, 1, k) = Append(SubSeq(s, 1, k - 1), s[k])
      BY FirstOnes DEF n
    <3>5. s[k] \in stop <=> m <= k
      <4>1. CASE m = k
        BY <4>1, <2>1, <1>9 DEF FirstIn
      <4>2. CASE m # k
        <5>1. k \in 1..(m - 1) /\ ~(m <= k)
          BY <4>2, <2>4, <2>1, <1>10
        <5> QED BY <5>1, <1>9 DEF FirstIn
      <4> QED BY <4>1, <4>2
    <3> QED BY <3>2, <3>3, <3>4, <3>5, <2>1, <2>2
  <2> QED BY <2>1, <2>3, <2>4, <1>10
<1>13. 0..n \subseteq S
  <2> HIDE DEF S
  <2> QED BY <1>3, <1>11, <1>12, Upto
<1>14. n \in 0..n /\ n \in S
  BY <1>3, <1>13
<1>15. Part(n) = UpTo(s, stop) /\ (ToSet(s) \cap stop # {} <=> m <= n)
  <2>1. (IF n < m THEN n ELSE m) = (IF m <= n THEN m ELSE n)
    BY <1>3, <1>10
  <2> QED BY <2>1, <1>9, UpToFirst DEF n
<1> QED BY <1>8, <1>14, <1>15 DEF Y

\* Map doubles every element.
LEMMA MappedIs ==
  ASSUME NEW s \in Seq(Int)
  PROVE  Mapped(s) = [i \in DOMAIN s |-> 2 * s[i]]
<1> DEFINE n == Len(s)
           Y == Seq(Int)
           turn == [e \in Int |-> [out \in Y |-> Append(out, 2 * e)]]
<1>1. <<>> \in Y /\ \A out \in Y : \A e \in Int : Append(out, 2 * e) \in Y
  BY AppendProperties
<1>2. n \in Nat /\ 0 \in 0..n /\ \A k \in 1..n : s[k] \in Int /\ k \in 0..n /\ k - 1 \in 0..n
  OBVIOUS
<1>3. Mapped(s) = Loop(turn, <<>>, s)
  BY DEF Mapped
<1>4. \A e \in Int : \A out \in Y : turn[e][out] = Append(out, 2 * e)
  <2> HIDE DEF Y
  <2> QED OBVIOUS
<1>5. StaysIn(turn, s, Y)
  <2> HIDE DEF turn, Y
  <2> QED BY <1>1, <1>2, <1>4 DEF StaysIn
<1>6. PICK f : Finds(f, turn, <<>>, s, Y)
  <2> HIDE DEF turn, Y
  <2> QED BY <1>1, <1>2, <1>5, LoopDef
<1> HIDE DEF turn, Y
<1>7. /\ Mapped(s) = f[n] /\ f[0] = <<>>
      /\ \A k \in 0..n : f[k] \in Y
      /\ \A k \in 1..n : f[k] = Append(f[k - 1], 2 * s[k])
  BY <1>2, <1>3, <1>4, <1>6 DEF Finds
<1> DEFINE Good(k) == Len(f[k]) = k /\ \A i \in 1..k : f[k][i] = 2 * s[i]
           T == {k \in 0..n : Good(k)}
<1>8. 0 \in T
  <2>1. Good(0)
    BY <1>7
  <2> QED BY <2>1, <1>2
<1> HIDE DEF n
<1>9. ASSUME NEW k \in 1..n, k - 1 \in T PROVE k \in T
  <2> DEFINE g == f[k - 1]
             v == 2 * s[k]
  <2>0. Good(k - 1)
    BY <1>9
  <2>1. g \in Seq(Int) /\ Len(g) = k - 1 /\ \A i \in 1..(k - 1) : g[i] = 2 * s[i]
    <3>1. g \in Seq(Int)
      BY <1>2, <1>7 DEF Y
    <3>2. Len(g) = k - 1 /\ \A i \in 1..(k - 1) : g[i] = 2 * s[i]
      BY ONLY <2>0
    <3> HIDE DEF g
    <3> QED BY ONLY <3>1, <3>2
  <2>2. v \in Int /\ f[k] = Append(g, v) /\ k \in 0..n /\ v = 2 * s[k]
    <3>1. s[k] \in Int /\ k \in 0..n
      BY <1>2
    <3>2. f[k] = Append(g, v)
      BY <1>7, Zenon
    <3>3. v \in Int
      BY ONLY <3>1
    <3> HIDE DEF g
    <3> QED BY ONLY <3>1, <3>2, <3>3
  <2> HIDE DEF g, v
  <2>3. Len(f[k]) = k /\ f[k][k] = v /\ \A i \in 1..(k - 1) : f[k][i] = g[i]
    BY <2>1, <2>2, AppendProperties
  <2>4. \A i \in 1..k : i = k \/ i \in 1..(k - 1)
    OBVIOUS
  <2>5. Good(k)
    BY <2>1, <2>2, <2>3, <2>4
  <2> HIDE DEF Good
  <2> QED BY <2>2, <2>5
<1>10. 0..n \subseteq T
  <2> HIDE DEF T
  <2> QED BY <1>2, <1>8, <1>9, Upto
<1>11. Good(n) /\ f[n] \in Seq(Int)
  BY <1>2, <1>7, <1>10 DEF Y
<1>12. f[n] = [i \in 1..n |-> 2 * s[i]]
  <2> DEFINE g == f[n]
             h == [i \in 1..n |-> 2 * s[i]]
  <2>1. g \in Seq(Int) /\ Len(g) = n /\ \A i \in 1..n : g[i] = 2 * s[i]
    BY <1>11
  <2>2. \A i \in 1..n : 2 * s[i] \in Int
    BY <1>2
  <2>3. h \in Seq(Int) /\ Len(h) = n /\ \A i \in 1..n : h[i] = 2 * s[i]
    BY <2>2, <1>2
  <2> HIDE DEF g, h
  <2>4. g = h
    BY <2>1, <2>3, SeqEqual
  <2> QED BY <2>4 DEF g, h
<1>13. DOMAIN s = 1..n
  BY DEF n
<1> QED BY <1>7, <1>12, <1>13

\* Where finds all elements in p and no others.
LEMMA WhereIs ==
  ASSUME NEW s \in Seq(Int), NEW p
  PROVE  /\ Where(s, p) \in Seq(Int)
         /\ Where(s, p) = <<>> <=> ToSet(s) \cap p = {}
         /\ Where(s, p) # <<>> => Where(s, p)[1] \in p
<1> DEFINE n == Len(s)
<1>1. PICK f : WhereTurns(f, s, p)
  BY WhereLoop
<1>2. n \in Nat /\ 0 \in 0..n /\ DOMAIN s = 1..n
      /\ \A k \in 1..n : s[k] \in Int /\ k \in 0..n /\ k - 1 \in 0..n
  OBVIOUS
<1>3. /\ Where(s, p) = f[n] /\ f[0] = <<>>
      /\ \A k \in 0..n : f[k] \in Seq(Int)
      /\ \A k \in 1..n : f[k] = IF s[k] \in p THEN Append(f[k - 1], s[k]) ELSE f[k - 1]
  BY <1>1, <1>2 DEF WhereTurns
<1> HIDE DEF n
<1> DEFINE None(k) == \A i \in 1..k : s[i] \notin p
           S == {k \in 0..n : IF None(k) THEN f[k] = <<>> ELSE f[k] # <<>> /\ f[k][1] \in p}
<1>4. 0 \in S
  <2>1. None(0)
    OBVIOUS
  <2> HIDE DEF None
  <2> QED BY <2>1, <1>2, <1>3
<1>5. ASSUME NEW k \in 1..n, k - 1 \in S PROVE k \in S
  <2> DEFINE g == f[k - 1]
             e == s[k]
  <2>1. g \in Seq(Int) /\ e \in Int /\ k \in 0..n /\ f[k] = IF e \in p THEN Append(g, e) ELSE g
    BY <1>2, <1>3
  <2>2. IF None(k - 1) THEN g = <<>> ELSE g # <<>> /\ g[1] \in p
    BY <1>5
  <2>3. None(k) <=> None(k - 1) /\ e \notin p
    <3>1. \A i : i \in 1..k <=> i \in 1..(k - 1) \/ i = k
      OBVIOUS
    <3> QED BY <3>1
  <2> HIDE DEF g, e, None
  <2>4. CASE e \in p
    <3>1. f[k] = Append(g, e) /\ Append(g, e) # <<>>
      BY <2>1, <2>4, AppendProperties
    <3>2. Append(g, e)[1] = IF g = <<>> THEN e ELSE g[1]
      BY <2>1, AppendProperties
    <3>3. f[k] # <<>> /\ f[k][1] \in p
      BY <2>2, <2>4, <3>1, <3>2
    <3> QED BY <2>1, <2>3, <2>4, <3>3
  <2>5. CASE e \notin p
    BY <2>1, <2>2, <2>3, <2>5
  <2> QED BY <2>4, <2>5
<1>6. 0..n \subseteq S
  <2> HIDE DEF S
  <2> QED BY <1>2, <1>4, <1>5, Upto
<1>7. None(n) <=> ToSet(s) \cap p = {}
  BY <1>2 DEF ToSet
<1>8. n \in S
  BY <1>2, <1>6
<1> HIDE DEF None
<1> QED BY <1>2, <1>3, <1>7, <1>8

\* What Where finds is each element in p, from its place.
LEMMA WhereSelects ==
  ASSUME NEW s \in Seq(Int), NEW p
  PROVE  Selects(Where(s, p), s, p)
<1> DEFINE n == Len(s)
           hits(k) == {i \in 1..k : s[i] \in p}
<1>1. n \in Nat /\ n \in 0..n /\ 0 \in 0..n /\ DOMAIN s = 1..n
      /\ \A k \in 1..n : k \in 0..n /\ k - 1 \in 0..n /\ s[k] \in Int
  OBVIOUS
<1>2. PICK w : WhereTurns(w, s, p)
  BY WhereLoop
<1>3. /\ Where(s, p) = w[n] /\ w[0] = <<>>
      /\ \A k \in 0..n : w[k] \in Seq(Int)
      /\ \A k \in 1..n : w[k] = IF s[k] \in p THEN Append(w[k - 1], s[k]) ELSE w[k - 1]
  BY <1>1, <1>2 DEF WhereTurns
<1> HIDE DEF n
<1> DEFINE Placed(place, out, k) ==
              /\ place \in [1..Len(out) -> hits(k)]
              /\ \A i, j \in 1..Len(out) : i < j => place[i] < place[j]
              /\ \A h \in hits(k) : \E i \in 1..Len(out) : place[i] = h
              /\ \A i \in 1..Len(out) : out[i] = s[place[i]]
           S == {k \in 0..n : \E place : Placed(place, w[k], k)}
<1>4. 0 \in S
  <2> DEFINE place == [i \in 1..0 |-> 0]
  <2>1. Len(w[0]) = 0 /\ hits(0) = {} /\ 1..0 = {}
    BY <1>3
  <2>2. place \in [1..0 -> {}] /\ \A i \in 1..0 : FALSE
    OBVIOUS
  <2>3. Placed(place, w[0], 0)
    BY <2>1, <2>2
  <2> QED BY <1>1, <2>3
<1>5. ASSUME NEW k \in 1..n, k - 1 \in S PROVE k \in S
  <2> DEFINE out == w[k - 1]
             m == Len(out)
  <2>1. out \in Seq(Int) /\ k \in 0..n /\ m \in Nat /\ k \in Nat
    BY <1>1, <1>3
  <2>2. PICK place : Placed(place, out, k - 1)
    BY <1>5
  <2>3. \A h \in hits(k - 1) : h \in 1..(k - 1) /\ h \in 1..k /\ h < k /\ s[h] \in p
    BY <2>1
  <2>4. CASE s[k] \notin p
    <3>1. w[k] = out
      BY <1>3, <2>4
    <3>2. hits(k) = hits(k - 1)
      BY <2>1, <2>4
    <3>3. Placed(place, w[k], k)
      BY <2>2, <3>1, <3>2
    <3> QED BY <2>1, <3>3
  <2>5. CASE s[k] \in p
    <3> DEFINE next == [i \in 1..(m + 1) |-> IF i = m + 1 THEN k ELSE place[i]]
               new == w[k]
    <3>1. Len(new) = m + 1 /\ new[m + 1] = s[k] /\ \A i \in 1..m : new[i] = out[i]
      <4>1. new = Append(out, s[k]) /\ s[k] \in Int
        BY <1>1, <1>3, <2>5
      <4> HIDE DEF out, new
      <4> QED BY <2>1, <4>1, AppendProperties
    <3>2. hits(k) = hits(k - 1) \cup {k}
      BY <2>1, <2>5
    <3>3. /\ \A i \in 1..m : place[i] \in hits(k - 1) /\ out[i] = s[place[i]]
          /\ \A i, j \in 1..m : i < j => place[i] < place[j]
          /\ \A h \in hits(k - 1) : \E i \in 1..m : place[i] = h
      BY <2>2
    <3>4. m + 1 \in 1..(m + 1) /\ \A i \in 1..(m + 1) : i = m + 1 \/ i \in 1..m
      BY <2>1
    <3>5. next[m + 1] = k /\ \A i \in 1..m : i \in 1..(m + 1) /\ next[i] = place[i]
      BY <2>1
    <3> HIDE DEF m, new, hits
    <3>6. next \in [1..(m + 1) -> hits(k)]
      BY <3>2, <3>3, <3>4
    <3> HIDE DEF next
    <3>7. \A i, j \in 1..(m + 1) : i < j => next[i] < next[j]
      <4> SUFFICES ASSUME NEW i \in 1..(m + 1), NEW j \in 1..(m + 1), i < j
                   PROVE  next[i] < next[j]
        OBVIOUS
      <4>1. i \in 1..m /\ next[i] = place[i]
        BY <2>1, <3>4, <3>5
      <4>2. CASE j = m + 1
        <5>1. place[i] < k
          BY <2>3, <3>3, <4>1
        <5> QED BY <3>5, <4>1, <4>2, <5>1
      <4>3. CASE j # m + 1
        BY <3>3, <3>4, <3>5, <4>1, <4>3
      <4> QED BY <4>2, <4>3
    <3>8. \A h \in hits(k) : \E i \in 1..(m + 1) : next[i] = h
      <4> TAKE h \in hits(k)
      <4>1. CASE h = k
        BY <3>4, <3>5, <4>1
      <4>2. CASE h # k
        <5>1. PICK i \in 1..m : place[i] = h
          BY <3>2, <3>3, <4>2
        <5> QED BY <3>5, <5>1
      <4> QED BY <4>1, <4>2
    <3>9. \A i \in 1..(m + 1) : new[i] = s[next[i]]
      BY <3>1, <3>3, <3>4, <3>5
    <3>10. Placed(next, new, k)
      BY <3>1, <3>6, <3>7, <3>8, <3>9
    <3> QED BY <2>1, <3>10 DEF new
  <2> QED BY <2>4, <2>5
<1>6. 0..n \subseteq S
  <2> HIDE DEF S
  <2> QED BY <1>1, <1>4, <1>5, Upto
<1>7. PICK place : Placed(place, w[n], n)
  BY <1>1, <1>6
<1> DEFINE out == Where(s, p)
<1>8. out \in Seq(Int) /\ DOMAIN out = 1..Len(out) /\ hits(n) = {i \in DOMAIN s : s[i] \in p}
  BY <1>1, <1>3
<1>9. Placed(place, out, n)
  BY <1>3, <1>7
<1> HIDE DEF out
<1> QED BY <1>8, <1>9 DEF Selects, out

\* Grouping finds in each group what Where finds for it.
LEMMA GroupedIs ==
  ASSUME NEW s \in Seq(Int), NEW p
  PROVE  /\ Grouped(s, p) \in Maps
         /\ Grouped(s, p)["yes"] = Where(s, p)
         /\ Grouped(s, p)["no"] = Where(s, Int \ p)
<1> DEFINE n == Len(s)
           turn == [v \in Int |-> [m \in Maps |-> [m EXCEPT ![GroupOf(v, p)] = Append(@, v)]]]
<1>1. n \in Nat /\ 0 \in 0..n /\ \A k \in 1..n : s[k] \in Int /\ k \in 0..n /\ k - 1 \in 0..n
  OBVIOUS
<1>2. NoEntries \in Maps /\ NoEntries["yes"] = <<>> /\ NoEntries["no"] = <<>>
  BY DEF NoEntries, Maps, Groups
<1>3. Grouped(s, p) = Loop(turn, NoEntries, s)
  BY DEF Grouped
<1>4. \A e \in Int : \A m \in Maps :
         turn[e][m] = [m EXCEPT ![GroupOf(e, p)] = Append(m[GroupOf(e, p)], e)]
  <2> HIDE DEF Maps
  <2> QED OBVIOUS
<1> HIDE DEF turn
<1>5. ASSUME NEW e \in Int, NEW m \in Maps
      PROVE  /\ turn[e][m] \in Maps
             /\ turn[e][m]["yes"] = IF e \in p THEN Append(m["yes"], e) ELSE m["yes"]
             /\ turn[e][m]["no"] = IF e \in Int \ p THEN Append(m["no"], e) ELSE m["no"]
  <2>1. m["yes"] \in Seq(Int) /\ m["no"] \in Seq(Int)
    BY DEF Maps, Groups
  <2>2. /\ Append(m["yes"], e) \in Seq(Int)
        /\ Append(m["no"], e) \in Seq(Int)
    BY <2>1, AppendProperties
  <2>3. CASE e \in p
    <3>1. turn[e][m] = [m EXCEPT !["yes"] = Append(m["yes"], e)]
      BY <1>4, <2>3 DEF GroupOf
    <3> QED BY <2>2, <2>3, <3>1 DEF Maps, Groups
  <2>4. CASE e \notin p
    <3>1. turn[e][m] = [m EXCEPT !["no"] = Append(m["no"], e)]
      BY <1>4, <2>4 DEF GroupOf
    <3> QED BY <2>2, <2>4, <3>1 DEF Maps, Groups
  <2> QED BY <2>3, <2>4
<1>6. StaysIn(turn, s, Maps)
  BY <1>1, <1>5 DEF StaysIn
<1>7. PICK f : Finds(f, turn, NoEntries, s, Maps)
  BY <1>1, <1>2, <1>6, LoopDef
<1>8. PICK w : WhereTurns(w, s, p)
  BY WhereLoop
<1>9. PICK v : WhereTurns(v, s, Int \ p)
  BY WhereLoop
<1>10. /\ Grouped(s, p) = f[n] /\ f[0] = NoEntries
       /\ \A k \in 0..n : f[k] \in Maps
       /\ \A k \in 1..n : f[k] = turn[s[k]][f[k - 1]]
  BY <1>1, <1>3, <1>7 DEF Finds
<1>11. /\ Where(s, p) = w[n] /\ w[0] = <<>> /\ Where(s, Int \ p) = v[n] /\ v[0] = <<>>
       /\ \A k \in 1..n :
            /\ w[k - 1] \in Seq(Int) /\ v[k - 1] \in Seq(Int)
            /\ w[k] = IF s[k] \in p THEN Append(w[k - 1], s[k]) ELSE w[k - 1]
            /\ v[k] = IF s[k] \in Int \ p THEN Append(v[k - 1], s[k]) ELSE v[k - 1]
  BY <1>1, <1>8, <1>9 DEF WhereTurns
<1> HIDE DEF n
<1> DEFINE S == {k \in 0..n : f[k]["yes"] = w[k] /\ f[k]["no"] = v[k]}
<1>12. 0 \in S
  BY <1>1, <1>2, <1>10, <1>11
<1>13. ASSUME NEW k \in 1..n, k - 1 \in S PROVE k \in S
  <2> DEFINE e == s[k]
             m == f[k - 1]
             a == w[k - 1]
             b == v[k - 1]
  <2>1. e \in Int /\ m \in Maps /\ a \in Seq(Int) /\ b \in Seq(Int) /\ k \in 0..n
    BY <1>1, <1>10, <1>11
  <2>2. m["yes"] = a /\ m["no"] = b
    BY <1>13
  <2>3. /\ f[k] = turn[e][m]
        /\ w[k] = IF e \in p THEN Append(a, e) ELSE a
        /\ v[k] = IF e \in Int \ p THEN Append(b, e) ELSE b
    BY <1>10, <1>11
  <2>4. /\ f[k]["yes"] = IF e \in p THEN Append(m["yes"], e) ELSE m["yes"]
        /\ f[k]["no"] = IF e \in Int \ p THEN Append(m["no"], e) ELSE m["no"]
    BY <1>5, <2>1, <2>3
  <2> HIDE DEF e, m, a, b
  <2>5. f[k]["yes"] = w[k]
    BY <2>1, <2>2, <2>3, <2>4
  <2>6. f[k]["no"] = v[k]
    BY <2>1, <2>2, <2>3, <2>4
  <2> QED BY <2>1, <2>5, <2>6
<1>14. 0..n \subseteq S
  <2> HIDE DEF S
  <2> QED BY <1>1, <1>12, <1>13, Upto
<1>15. n \in S /\ f[n] \in Maps
  BY <1>1, <1>10, <1>14
<1> QED BY <1>10, <1>11, <1>15

\* The last element, if there is one: the one just appended, if one was.
Newest(x) == IF x = <<>> THEN <<>> ELSE <<Last(x)>>

LEMMA NewestOfAppend ==
  ASSUME NEW x \in Seq(Int), NEW e \in Int
  PROVE  Newest(Append(x, e)) = <<e>>
<1>1. Append(x, e) # <<>> /\ Last(Append(x, e)) = e
  BY AppendProperties DEF Last
<1> QED BY <1>1 DEF Newest

\* A map keeps the last element of each key.
LEMMA LatestIs ==
  ASSUME NEW s \in Seq(Int), NEW p
  PROVE  /\ Latest(s, p) \in Maps
         /\ Latest(s, p)["yes"] = Newest(Where(s, p))
         /\ Latest(s, p)["no"] = Newest(Where(s, Int \ p))
<1> DEFINE n == Len(s)
           turn == [v \in Int |-> [m \in Maps |-> [m EXCEPT ![GroupOf(v, p)] = <<v>>]]]
<1>1. n \in Nat /\ 0 \in 0..n /\ \A k \in 1..n : s[k] \in Int /\ k \in 0..n /\ k - 1 \in 0..n
  OBVIOUS
<1>2. NoEntries \in Maps /\ NoEntries["yes"] = <<>> /\ NoEntries["no"] = <<>>
  BY DEF NoEntries, Maps, Groups
<1>3. Latest(s, p) = Loop(turn, NoEntries, s)
  BY DEF Latest
<1>4. \A e \in Int : \A m \in Maps : turn[e][m] = [m EXCEPT ![GroupOf(e, p)] = <<e>>]
  <2> HIDE DEF Maps
  <2> QED OBVIOUS
<1> HIDE DEF turn
<1>5. ASSUME NEW e \in Int, NEW m \in Maps
      PROVE  /\ turn[e][m] \in Maps
             /\ turn[e][m]["yes"] = IF e \in p THEN <<e>> ELSE m["yes"]
             /\ turn[e][m]["no"] = IF e \in Int \ p THEN <<e>> ELSE m["no"]
  <2>1. m["yes"] \in Seq(Int) /\ m["no"] \in Seq(Int)
    BY DEF Maps, Groups
  <2>2. /\ <<e>> \in Seq(Int)
        /\ <<e>> \in Seq(Int)
    BY <2>1, AppendProperties
  <2>3. CASE e \in p
    <3>1. turn[e][m] = [m EXCEPT !["yes"] = <<e>>]
      BY <1>4, <2>3 DEF GroupOf
    <3> QED BY <2>2, <2>3, <3>1 DEF Maps, Groups
  <2>4. CASE e \notin p
    <3>1. turn[e][m] = [m EXCEPT !["no"] = <<e>>]
      BY <1>4, <2>4 DEF GroupOf
    <3> QED BY <2>2, <2>4, <3>1 DEF Maps, Groups
  <2> QED BY <2>3, <2>4
<1>6. StaysIn(turn, s, Maps)
  BY <1>1, <1>5 DEF StaysIn
<1>7. PICK f : Finds(f, turn, NoEntries, s, Maps)
  BY <1>1, <1>2, <1>6, LoopDef
<1>8. PICK w : WhereTurns(w, s, p)
  BY WhereLoop
<1>9. PICK v : WhereTurns(v, s, Int \ p)
  BY WhereLoop
<1>10. /\ Latest(s, p) = f[n] /\ f[0] = NoEntries
       /\ \A k \in 0..n : f[k] \in Maps
       /\ \A k \in 1..n : f[k] = turn[s[k]][f[k - 1]]
  BY <1>1, <1>3, <1>7 DEF Finds
<1>11. /\ Where(s, p) = w[n] /\ w[0] = <<>> /\ Where(s, Int \ p) = v[n] /\ v[0] = <<>>
       /\ \A k \in 1..n :
            /\ w[k - 1] \in Seq(Int) /\ v[k - 1] \in Seq(Int)
            /\ w[k] = IF s[k] \in p THEN Append(w[k - 1], s[k]) ELSE w[k - 1]
            /\ v[k] = IF s[k] \in Int \ p THEN Append(v[k - 1], s[k]) ELSE v[k - 1]
  BY <1>1, <1>8, <1>9 DEF WhereTurns
<1> HIDE DEF n
<1> DEFINE S == {k \in 0..n : f[k]["yes"] = Newest(w[k]) /\ f[k]["no"] = Newest(v[k])}
<1>12. 0 \in S
  BY <1>1, <1>2, <1>10, <1>11, NewestOfAppend DEF Newest
<1>13. ASSUME NEW k \in 1..n, k - 1 \in S PROVE k \in S
  <2> DEFINE e == s[k]
             m == f[k - 1]
             a == w[k - 1]
             b == v[k - 1]
  <2>1. e \in Int /\ m \in Maps /\ a \in Seq(Int) /\ b \in Seq(Int) /\ k \in 0..n
    BY <1>1, <1>10, <1>11
  <2>2. m["yes"] = Newest(a) /\ m["no"] = Newest(b)
    BY <1>13
  <2>3. /\ f[k] = turn[e][m]
        /\ w[k] = IF e \in p THEN Append(a, e) ELSE a
        /\ v[k] = IF e \in Int \ p THEN Append(b, e) ELSE b
    BY <1>10, <1>11
  <2>4. /\ f[k]["yes"] = IF e \in p THEN <<e>> ELSE m["yes"]
        /\ f[k]["no"] = IF e \in Int \ p THEN <<e>> ELSE m["no"]
    BY <1>5, <2>1, <2>3
  <2> HIDE DEF e, m, a, b
  <2>5. f[k]["yes"] = Newest(w[k])
    BY <2>1, <2>2, <2>3, <2>4, NewestOfAppend
  <2>6. f[k]["no"] = Newest(v[k])
    BY <2>1, <2>2, <2>3, <2>4, NewestOfAppend
  <2> QED BY <2>1, <2>5, <2>6
<1>14. 0..n \subseteq S
  <2> HIDE DEF S
  <2> QED BY <1>1, <1>12, <1>13, Upto
<1>15. n \in S /\ f[n] \in Maps
  BY <1>1, <1>10, <1>14
<1> QED BY <1>10, <1>11, <1>15

-----------------------------------------------------------------------------
\* SliceOps: deleting in place.

\* A slice within its array.
IsWindow(s) ==
    /\ s \in [back : Seq(Int), lo : Nat, hi : Nat]
    /\ s.lo <= s.hi /\ s.hi <= Len(s.back)

\* What a slice holds are the cells of its array between its bounds.
LEMMA ElemsAre ==
  ASSUME NEW s, IsWindow(s)
  PROVE  /\ Elems(s) \in Seq(Int) /\ Len_(s) \in Nat /\ Len(Elems(s)) = Len_(s)
         /\ \A i \in 1..Len_(s) : Elems(s)[i] = s.back[s.lo + i] /\ s.back[s.lo + i] \in Int
<1> DEFINE b == s.back
           lo == s.lo
           hi == s.hi
<1>1. b \in Seq(Int) /\ lo \in Nat /\ hi \in Nat /\ lo <= hi /\ hi <= Len(b) /\ Len(b) \in Nat
  BY DEF IsWindow
<1>2. Elems(s) = SubSeq(b, lo + 1, hi) /\ Len_(s) = hi - lo
  BY DEF Elems, Len_
<1> HIDE DEF b, lo, hi
<1>3. SubSeq(b, lo + 1, hi) \in Seq(Int) /\ Len(SubSeq(b, lo + 1, hi)) = hi - lo
  BY <1>1
<1>4. \A i \in 1..(hi - lo) : SubSeq(b, lo + 1, hi)[i] = b[lo + i] /\ b[lo + i] \in Int
  BY <1>1
<1>5. Elems(s) \in Seq(Int) /\ Len_(s) \in Nat /\ Len(Elems(s)) = Len_(s)
  BY <1>1, <1>2, <1>3
<1>6. \A i \in 1..Len_(s) : Elems(s)[i] = b[lo + i] /\ b[lo + i] \in Int
  BY <1>2, <1>4
<1> QED BY <1>5, <1>6 DEF b, lo

\* The slice of the other bounds holds the first elements.
LEMMA FirstElems ==
  ASSUME NEW s, NEW t, IsWindow(s), IsWindow(t), s.back = t.back, s.lo = t.lo, s.hi <= t.hi
  PROVE  SubSeq(Elems(t), 1, Len_(s)) = Elems(s)
<1>1. Len_(s) \in 0..Len_(t)
  BY DEF Len_, IsWindow
<1>2. /\ SubSeq(Elems(t), 1, Len_(s)) \in Seq(Int)
      /\ Len(SubSeq(Elems(t), 1, Len_(s))) = Len_(s)
      /\ \A i \in 1..Len_(s) : SubSeq(Elems(t), 1, Len_(s))[i] = Elems(t)[i]
  BY <1>1, ElemsAre, FirstPart
<1>3. \A i \in 1..Len_(s) : SubSeq(Elems(t), 1, Len_(s))[i] = Elems(s)[i]
  <2> TAKE i \in 1..Len_(s)
  <2>1. i \in 1..Len_(t)
    BY <1>1, ElemsAre
  <2> QED BY <1>2, <2>1, ElemsAre
<1> QED BY <1>2, <1>3, ElemsAre, SeqEqual

\* The first elements of a slice are a slice of the same array.
LEMMA WindowIs ==
  ASSUME NEW s, IsWindow(s), NEW to \in Nat, to <= Len_(s)
  PROVE  /\ IsWindow(Window(s, 0, to)) /\ Len_(Window(s, 0, to)) = to
         /\ Window(s, 0, to).back = s.back
         /\ Window(s, 0, to).lo = s.lo /\ Window(s, 0, to).hi = s.lo + to
<1> DEFINE w == Window(s, 0, to)
<1>1. s \in [back : Seq(Int), lo : Nat, hi : Nat] /\ s.lo \in Nat /\ s.hi \in Nat
      /\ s.lo + to <= s.hi /\ s.hi <= Len(s.back) /\ Len(s.back) \in Nat
  BY DEF IsWindow, Len_
<1>2. w = [s EXCEPT !.lo = s.lo, !.hi = s.lo + to]
  <2>1. s.lo + 0 = s.lo
    BY <1>1
  <2>2. w = [s EXCEPT !.lo = s.lo + 0, !.hi = s.lo + to]
    BY DEF Window
  <2> QED BY ONLY <2>1, <2>2
<1> HIDE DEF w
<1>3. w \in [back : Seq(Int), lo : Nat, hi : Nat]
      /\ w.back = s.back /\ w.lo = s.lo /\ w.hi = s.lo + to
  <2> DEFINE h == s.lo + to
  <2>1. h \in Nat
    BY <1>1
  <2> HIDE DEF h
  <2>2. w = [s EXCEPT !.lo = s.lo, !.hi = h]
    BY <1>2 DEF h
  <2>3. w \in [back : Seq(Int), lo : Nat, hi : Nat] /\ w.back = s.back /\ w.lo = s.lo /\ w.hi = h
    BY ONLY <2>1, <2>2, <1>1
  <2> QED BY <2>3 DEF h
<1>4. IsWindow(w) /\ Len_(w) = to
  BY <1>1, <1>3 DEF IsWindow, Len_
<1> QED BY <1>3, <1>4 DEF w

\* RemoveAt takes out the element after the first k.
LEMMA TakeOut ==
  ASSUME NEW E \in Seq(Int), NEW k \in Nat, k < Len(E)
  PROVE  /\ RemoveAt(E, k + 1) \in Seq(Int) /\ Len(RemoveAt(E, k + 1)) = Len(E) - 1
         /\ \A i \in 1..(Len(E) - 1) :
               RemoveAt(E, k + 1)[i] = IF i <= k THEN E[i] ELSE E[i + 1]
<1> DEFINE n == Len(E)
           R == RemoveAt(E, k + 1)
           A == SubSeq(E, 1, k)
           B == SubSeq(E, k + 2, n)
<1>1. n \in Nat /\ k \in 0..n /\ k < n
  OBVIOUS
<1>2. R = A \o B
  <2>1. (k + 1) - 1 = k /\ (k + 1) + 1 = k + 2
    OBVIOUS
  <2> QED BY <2>1 DEF RemoveAt
<1>3. A \in Seq(Int) /\ Len(A) = k /\ \A i \in 1..k : A[i] = E[i]
  BY <1>1, FirstPart
<1>4. B \in Seq(Int) /\ Len(B) = n - k - 1
  OBVIOUS
<1>5. \A i \in 1..(n - k - 1) : B[i] = E[i + k + 1]
  <2> TAKE i \in 1..(n - k - 1)
  <2>1. B[i] = E[(k + 2) + i - 1]
    <3>1. k + 2 \in Int /\ n \in Int /\ (\A j \in (k + 2)..n : E[j] \in Int)
          /\ i \in 1..(n - (k + 2) + 1)
      BY <1>1
    <3> DEFINE low == k + 2
    <3> HIDE DEF low, n
    <3>2. low \in Int /\ n \in Int /\ (\A j \in low..n : E[j] \in Int) /\ i \in 1..(n - low + 1)
      BY <3>1 DEF low
    <3>3. SubSeq(E, low, n)[i] = E[low + i - 1]
      BY ONLY <3>2, SubSeqProperties
    <3> QED BY <3>3 DEF low, n
  <2>2. (k + 2) + i - 1 = i + k + 1
    BY <1>1
  <2> QED BY <2>1, <2>2
<1> HIDE DEF A, B, n, R
<1>6. R \in Seq(Int) /\ Len(R) = n - 1
  BY <1>1, <1>2, <1>3, <1>4
<1>7. \A i \in 1..(n - 1) : R[i] = IF i <= k THEN E[i] ELSE E[i + 1]
  <2> TAKE i \in 1..(n - 1)
  <2>1. CASE i <= k
    <3>1. i \in 1..k /\ R[i] = A[i]
      BY <1>1, <1>2, <1>3, <1>4, <2>1
    <3> QED BY <1>3, <2>1, <3>1
  <2>2. CASE ~ i <= k
    <3>1. i - k \in 1..(n - k - 1) /\ (i - k) + k + 1 = i + 1 /\ R[i] = B[i - k]
      BY <1>1, <1>2, <1>3, <1>4, <2>2
    <3>2. B[i - k] = E[(i - k) + k + 1]
      BY <1>5, <3>1
    <3> QED BY <2>2, <3>1, <3>2
  <2> QED BY <2>1, <2>2
<1> QED BY <1>6, <1>7 DEF n, R

\* Moving the cells behind index down takes its element out.
LEMMA ShiftedIs ==
  ASSUME NEW s, IsWindow(s), NEW index \in Nat, index < Len_(s)
  PROVE  /\ IsWindow(Shifted(s, index))
         /\ Shifted(s, index).lo = s.lo /\ Shifted(s, index).hi = s.hi
         /\ IsWindow(Window(Shifted(s, index), 0, Len_(s) - 1))
         /\ Elems(Window(Shifted(s, index), 0, Len_(s) - 1)) = RemoveAt(Elems(s), index + 1)
<1> DEFINE b == s.back
           lo == s.lo
           hi == s.hi
           n == Len_(s)
           m == Shifted(s, index)
           w == Window(m, 0, n - 1)
           E == Elems(s)
           R == RemoveAt(E, index + 1)
           B == [c \in 1..Len(b) |-> IF c > lo + index /\ c < hi THEN b[c + 1] ELSE b[c]]
<1>1. b \in Seq(Int) /\ lo \in Nat /\ hi \in Nat /\ lo <= hi /\ hi <= Len(b) /\ Len(b) \in Nat
      /\ n = hi - lo /\ DOMAIN b = 1..Len(b)
  BY DEF IsWindow, Len_
<1>2. s \in [back : Seq(Int), lo : Nat, hi : Nat]
  BY DEF IsWindow
<1>3. B \in Seq(Int) /\ Len(B) = Len(b)
      /\ \A c \in 1..Len(b) : B[c] = IF c > lo + index /\ c < hi THEN b[c + 1] ELSE b[c]
  <2> HIDE DEF b, lo, hi, n
  <2> QED BY <1>1
<1>4. m = [s EXCEPT !.back = B]
  BY <1>1 DEF Shifted
<1> HIDE DEF B, m
<1>5. m \in [back : Seq(Int), lo : Nat, hi : Nat] /\ m.back = B /\ m.lo = lo /\ m.hi = hi
  BY <1>2, <1>3, <1>4
<1>6. IsWindow(m) /\ Len_(m) = n
  BY <1>1, <1>3, <1>5 DEF IsWindow, Len_
<1>7. n - 1 \in Nat /\ n - 1 <= n /\ index < n /\ n \in Nat
  <2> HIDE DEF b, lo, hi
  <2> QED BY <1>1 DEF n
<1> HIDE DEF b, lo, hi, n
<1>8. IsWindow(w) /\ Len_(w) = n - 1 /\ w.back = B /\ w.lo = lo
  BY <1>5, <1>6, <1>7, WindowIs
<1> HIDE DEF w, E
<1>9. Elems(w) \in Seq(Int) /\ Len(Elems(w)) = n - 1
      /\ \A i \in 1..(n - 1) : Elems(w)[i] = B[lo + i]
  BY <1>8, ElemsAre
<1>10. E \in Seq(Int) /\ Len(E) = n /\ \A i \in 1..n : E[i] = b[lo + i]
  BY ElemsAre DEF E, n, b, lo
<1>11. R \in Seq(Int) /\ Len(R) = n - 1
       /\ \A i \in 1..(n - 1) : R[i] = IF i <= index THEN E[i] ELSE E[i + 1]
  BY <1>7, <1>10, TakeOut
<1> HIDE DEF R
<1>12. \A i \in 1..(n - 1) : Elems(w)[i] = R[i]
  <2> TAKE i \in 1..(n - 1)
  <2>1. lo + i \in 1..Len(b) /\ lo + i < hi /\ i \in 1..n /\ i + 1 \in 1..n
        /\ (lo + i > lo + index <=> ~ i <= index) /\ (lo + i) + 1 = lo + (i + 1)
    BY <1>1, <1>7
  <2>2. Elems(w)[i] = IF lo + i > lo + index THEN b[lo + (i + 1)] ELSE b[lo + i]
    BY <1>3, <1>9, <2>1
  <2>3. R[i] = IF i <= index THEN b[lo + i] ELSE b[lo + (i + 1)]
    BY <1>10, <1>11, <2>1
  <2> QED BY <2>1, <2>2, <2>3
<1>13. Elems(w) = R
  BY <1>7, <1>9, <1>11, <1>12, SeqEqual
<1> QED BY <1>5, <1>6, <1>8, <1>13 DEF w, R, E, m, n, lo, hi

\* Writing a cell of a slice changes no other cell and no bound.
LEMMA PutIs ==
  ASSUME NEW s, IsWindow(s), NEW j \in Nat, NEW v \in Int
  PROVE  /\ IsWindow(Put(s, j, v))
         /\ Put(s, j, v).lo = s.lo /\ Put(s, j, v).hi = s.hi
         /\ Len(Put(s, j, v).back) = Len(s.back)
         /\ \A c \in 1..Len(s.back) :
               Put(s, j, v).back[c] = IF c = s.lo + j + 1 THEN v ELSE s.back[c]
<1> DEFINE b == s.back
           B == [b EXCEPT ![s.lo + j + 1] = v]
           w == Put(s, j, v)
<1>1. b \in Seq(Int) /\ Len(b) \in Nat /\ DOMAIN b = 1..Len(b)
      /\ s \in [back : Seq(Int), lo : Nat, hi : Nat]
  BY DEF IsWindow
<1>2. B \in Seq(Int) /\ Len(B) = Len(b)
      /\ \A c \in 1..Len(b) : B[c] = IF c = s.lo + j + 1 THEN v ELSE b[c]
  <2> DEFINE x == s.lo + j + 1
  <2> HIDE DEF b, x
  <2>1. [b EXCEPT ![x] = v] = [c \in 1..Len(b) |-> IF c = x THEN v ELSE b[c]]
    BY <1>1
  <2>2. \A c \in 1..Len(b) : (IF c = x THEN v ELSE b[c]) \in Int
    BY <1>1
  <2>3. /\ [c \in 1..Len(b) |-> IF c = x THEN v ELSE b[c]] \in Seq(Int)
        /\ Len([c \in 1..Len(b) |-> IF c = x THEN v ELSE b[c]]) = Len(b)
    BY <1>1, <2>2
  <2> QED BY <2>1, <2>3 DEF x
<1>3. w = [s EXCEPT !.back = B]
  BY DEF Put
<1> HIDE DEF B, w
<1>4. w \in [back : Seq(Int), lo : Nat, hi : Nat] /\ w.back = B /\ w.lo = s.lo /\ w.hi = s.hi
  BY <1>1, <1>2, <1>3
<1>5. IsWindow(w)
  BY <1>2, <1>4 DEF IsWindow
<1> QED BY <1>2, <1>4, <1>5 DEF w

\* The loop of DeleteFunc works in the slice it started with.
Compacting(s) ==
    {st \in [s : [back : Seq(Int), lo : Nat, hi : Nat], keepIndex : Nat] :
        /\ IsWindow(st.s) /\ Len(st.s.back) = Len(s.back)
        /\ st.s.lo = s.lo /\ st.s.hi = s.hi}

\* A turn keeps to the slice, reads a cell of it, and writes the next cell of what is
\* kept unless p accepts what it has read.
LEMMA KeepIs ==
  ASSUME NEW s, IsWindow(s), NEW p, NEW st \in Compacting(s), NEW i \in Nat, i < Len_(s)
  PROVE  /\ Keep(st, i, p) \in Compacting(s) /\ At(st.s, i) \in Int
         /\ Keep(st, i, p).keepIndex = IF At(st.s, i) \in p THEN st.keepIndex
                                                          ELSE st.keepIndex + 1
         /\ \A c \in 1..Len(s.back) : Keep(st, i, p).s.back[c] =
               IF At(st.s, i) \notin p /\ c = s.lo + st.keepIndex + 1 THEN At(st.s, i)
                                                                 ELSE st.s.back[c]
<1> DEFINE v == At(st.s, i)
           t == Put(st.s, st.keepIndex, v)
<1>1. /\ IsWindow(st.s) /\ Len(st.s.back) = Len(s.back) /\ st.s.lo = s.lo /\ st.s.hi = s.hi
      /\ st.keepIndex \in Nat /\ st.keepIndex + 1 \in Nat
      /\ st \in [s : [back : Seq(Int), lo : Nat, hi : Nat], keepIndex : Nat]
  BY DEF Compacting
<1>2. v \in Int
  <2> DEFINE u == st.s
  <2>1. IsWindow(u) /\ Len_(u) = Len_(s) /\ v = At(u, i)
    BY <1>1 DEF Len_
  <2> HIDE DEF u, v
  <2>2. i + 1 \in 1..Len_(u) /\ u.lo + i + 1 = u.lo + (i + 1)
    <3>1. Len_(u) \in Nat
      BY ONLY <2>1, ElemsAre
    <3>2. u.lo \in Nat
      BY ONLY <2>1 DEF IsWindow
    <3> QED BY <2>1, <3>1, <3>2
  <2>3. v = u.back[u.lo + (i + 1)]
    BY ONLY <2>1, <2>2 DEF At
  <2>4. \A k \in 1..Len_(u) : u.back[u.lo + k] \in Int
    BY ONLY <2>1, ElemsAre
  <2> QED BY ONLY <2>2, <2>3, <2>4
<1>3. /\ IsWindow(t) /\ Len(t.back) = Len(s.back) /\ t.lo = s.lo /\ t.hi = s.hi
      /\ t \in [back : Seq(Int), lo : Nat, hi : Nat]
      /\ \A c \in 1..Len(s.back) :
            t.back[c] = IF c = s.lo + st.keepIndex + 1 THEN v ELSE st.s.back[c]
  <2> HIDE DEF v, t
  <2>1. IsWindow(t) /\ Len(t.back) = Len(st.s.back) /\ t.lo = st.s.lo /\ t.hi = st.s.hi
        /\ \A c \in 1..Len(st.s.back) :
              t.back[c] = IF c = st.s.lo + st.keepIndex + 1 THEN v ELSE st.s.back[c]
    <3> DEFINE u == st.s
               j == st.keepIndex
    <3>1. IsWindow(u) /\ j \in Nat /\ v \in Int /\ t = Put(u, j, v)
      BY <1>1, <1>2 DEF t
    <3> HIDE DEF u, j
    <3>2. IsWindow(t) /\ Len(t.back) = Len(u.back) /\ t.lo = u.lo /\ t.hi = u.hi
          /\ \A c \in 1..Len(u.back) : t.back[c] = IF c = u.lo + j + 1 THEN v ELSE u.back[c]
      BY ONLY <3>1, PutIs
    <3> QED BY <3>2 DEF u, j
  <2> QED BY <1>1, <2>1 DEF IsWindow
<1>4. Keep(st, i, p) = IF v \in p THEN st ELSE [s |-> t, keepIndex |-> st.keepIndex + 1]
  BY DEF Keep
<1> HIDE DEF v, t
<1>5. CASE v \in p
  <2>1. Keep(st, i, p) = st
    BY <1>4, <1>5
  <2> QED BY <1>2, <1>5, <2>1 DEF v
<1>6. CASE v \notin p
  <2> DEFINE r == [s |-> t, keepIndex |-> st.keepIndex + 1]
  <2>1. Keep(st, i, p) = r
    BY <1>4, <1>6
  <2>2. r.s = t /\ r.keepIndex = st.keepIndex + 1
        /\ r \in [s : [back : Seq(Int), lo : Nat, hi : Nat], keepIndex : Nat]
    BY <1>1, <1>3
  <2> HIDE DEF r
  <2>3. r \in Compacting(s)
    BY <1>3, <2>2 DEF Compacting
  <2> QED BY <1>2, <1>3, <1>6, <2>1, <2>2, <2>3 DEF v
<1> QED BY <1>5, <1>6

\* After k turns the first cells hold what of the first k elements is not in p, and
\* the cells of the elements that are still to come are as they were.
LEMMA CompactedIs ==
  ASSUME NEW s, IsWindow(s), NEW p
  PROVE  /\ Compacted(s, p) \in Compacting(s)
         /\ Where(Elems(s), Int \ p) \in Seq(Int)
         /\ Compacted(s, p).keepIndex = Len(Where(Elems(s), Int \ p))
         /\ Compacted(s, p).keepIndex <= Len_(s)
         /\ \A i \in 1..Compacted(s, p).keepIndex :
               Compacted(s, p).s.back[s.lo + i] = Where(Elems(s), Int \ p)[i]
<1> DEFINE n == Len_(s)
           lo == s.lo
           b == s.back
           E == Elems(s)
           Y == Compacting(s)
           States == [s : [back : Seq(Int), lo : Nat, hi : Nat], keepIndex : Nat]
           turn == [i \in Nat |-> [st \in States |-> Keep(st, i, p)]]
           base == [s |-> s, keepIndex |-> 0]
           seq == [k \in 1..n |-> k - 1]
<1>1. /\ n \in Nat /\ lo \in Nat /\ Len(b) \in Nat /\ lo + n <= Len(b) /\ 0 \in 0..n
      /\ \A k \in 1..n : k \in 0..n /\ k - 1 \in 0..n /\ k - 1 \in Nat /\ k - 1 < n
  BY DEF IsWindow, Len_
<1>2. E \in Seq(Int) /\ Len(E) = n /\ \A k \in 1..n : E[k] = b[lo + k] /\ E[k] \in Int
  BY ElemsAre
<1>3. Len(seq) = n /\ \A k \in 1..n : seq[k] = k - 1
  <2> HIDE DEF n
  <2> QED BY <1>1
<1>4. base \in Y /\ base.s = s /\ base.keepIndex = 0
  BY DEF Compacting, IsWindow
<1>5. Compacted(s, p) = Loop(turn, base, seq)
  BY DEF Compacted
<1>6. \A i \in Nat : \A st \in Y : turn[i][st] = Keep(st, i, p)
  BY DEF Compacting
<1> HIDE DEF n, lo, b, E, Y, turn, base, seq
<1>7. StaysIn(turn, seq, Y)
  <2> SUFFICES ASSUME NEW k \in 1..n, NEW y \in Y PROVE turn[seq[k]][y] \in Y
    BY <1>3 DEF StaysIn
  <2> QED BY <1>1, <1>3, <1>6, KeepIs DEF Y, n
<1>8. PICK f : Finds(f, turn, base, seq, Y)
  BY <1>1, <1>3, <1>4, <1>7, LoopDef
<1>9. /\ Compacted(s, p) = f[n] /\ f[0] = base
      /\ \A k \in 0..n : f[k] \in Y
      /\ \A k \in 1..n : f[k] = Keep(f[k - 1], k - 1, p)
  <2>1. /\ Compacted(s, p) = f[n] /\ f[0] = base
        /\ \A k \in 0..n : f[k] \in Y
        /\ \A k \in 1..n : f[k] = turn[seq[k]][f[k - 1]]
    BY <1>1, <1>3, <1>5, <1>8 DEF Finds
  <2> QED BY <1>1, <1>3, <1>6, <2>1
<1>10. PICK w : WhereTurns(w, E, Int \ p)
  BY <1>2, WhereLoop
<1>11. /\ Where(E, Int \ p) = w[n] /\ w[0] = <<>>
       /\ \A k \in 0..n : w[k] \in Seq(Int)
       /\ \A k \in 1..n : w[k] = IF E[k] \in Int \ p THEN Append(w[k - 1], E[k]) ELSE w[k - 1]
  BY <1>1, <1>2, <1>10 DEF WhereTurns
<1> DEFINE Fits(k) ==
              /\ f[k].keepIndex = Len(w[k]) /\ Len(w[k]) <= k
              /\ \A i \in 1..Len(w[k]) : f[k].s.back[lo + i] = w[k][i]
              /\ \A c \in 1..Len(b) : c > lo + k => f[k].s.back[c] = b[c]
           S == {k \in 0..n : Fits(k)}
<1>12. 0 \in S
  <2>1. Len(<<>>) = 0
    OBVIOUS
  <2>2. Fits(0)
    BY <1>4, <1>9, <1>11, <2>1 DEF b
  <2> QED BY <1>1, <2>2
<1>13. ASSUME NEW k \in 1..n, k - 1 \in S PROVE k \in S
  <2> DEFINE st == f[k - 1]
             t == f[k]
             x == w[k - 1]
             y == w[k]
             e == E[k]
             j == st.keepIndex
  <2>1. st \in Y /\ k \in 0..n /\ x \in Seq(Int) /\ y \in Seq(Int) /\ e \in Int
    BY <1>1, <1>2, <1>9, <1>11
  <2>2. /\ j = Len(x) /\ Len(x) <= k - 1
        /\ \A i \in 1..Len(x) : st.s.back[lo + i] = x[i]
        /\ \A c \in 1..Len(b) : c > lo + (k - 1) => st.s.back[c] = b[c]
    BY <1>13
  <2>3. lo + k \in 1..Len(b) /\ lo + k > lo + (k - 1)
        /\ At(st.s, k - 1) = st.s.back[lo + k]
    <3>1. st.s.lo = lo
      BY <2>1 DEF Y, Compacting, lo
    <3>2. lo + (k - 1) + 1 = lo + k
      BY <1>1
    <3> QED BY <1>1, <3>1, <3>2 DEF At
  <2>4. At(st.s, k - 1) = e
    BY <1>2, <2>2, <2>3
  <2>5. t = Keep(st, k - 1, p)
    BY <1>9
  <2> HIDE DEF st, t
  <2>6. /\ t.keepIndex = IF e \in p THEN j ELSE j + 1
        /\ \A c \in 1..Len(b) : t.s.back[c] =
              IF e \notin p /\ c = lo + j + 1 THEN e ELSE st.s.back[c]
    <3>1. st \in Compacting(s) /\ k - 1 \in Nat /\ k - 1 < Len_(s)
      BY <1>1, <2>1 DEF st, Y, n
    <3>2. /\ t.keepIndex = IF At(st.s, k - 1) \in p THEN st.keepIndex ELSE st.keepIndex + 1
          /\ \A c \in 1..Len(s.back) : t.s.back[c] =
                IF At(st.s, k - 1) \notin p /\ c = s.lo + st.keepIndex + 1
                THEN At(st.s, k - 1) ELSE st.s.back[c]
      BY <2>5, <3>1, KeepIs
    <3> QED BY <2>4, <3>2 DEF b, lo
  <2>7. y = IF e \in p THEN x ELSE Append(x, e)
    BY <1>11, <2>1
  <2> HIDE DEF x, y, e, j
  <2>8. Len(x) \in Nat /\ j \in Nat /\ j <= k - 1
    BY <2>1, <2>2
  <2>9. CASE e \in p
    <3>1. y = x /\ t.keepIndex = j /\ \A c \in 1..Len(b) : t.s.back[c] = st.s.back[c]
      BY <2>6, <2>7, <2>9
    <3>2. \A i \in 1..Len(x) : lo + i \in 1..Len(b)
      BY <1>1, <2>2, <2>8
    <3>3. \A i \in 1..Len(y) : t.s.back[lo + i] = y[i]
      BY <2>2, <3>1, <3>2
    <3>4. \A c \in 1..Len(b) : c > lo + k => t.s.back[c] = b[c]
      BY <1>1, <2>2, <3>1
    <3>5. t.keepIndex = Len(y) /\ Len(y) <= k
      BY <2>2, <2>8, <3>1
    <3> QED BY <2>1, <3>3, <3>4, <3>5 DEF t, y
  <2>10. CASE e \notin p
    <3>1. /\ y = Append(x, e) /\ Len(y) = j + 1 /\ t.keepIndex = j + 1
          /\ y[j + 1] = e /\ \A i \in 1..j : y[i] = x[i]
      BY <2>1, <2>2, <2>6, <2>7, <2>8, <2>10, AppendProperties
    <3>2. ASSUME NEW i \in 1..Len(y) PROVE t.s.back[lo + i] = y[i]
      <4>0. i \in 1..(j + 1) /\ Len(b) \in Nat /\ lo \in Nat /\ n \in Nat /\ lo + n <= Len(b)
            /\ k \in 1..n
        BY <1>1, <3>1
      <4>1. lo + i \in 1..Len(b) /\ (lo + i = lo + j + 1 <=> i = j + 1)
            /\ (i # j + 1 => i \in 1..j)
        BY ONLY <2>8, <4>0
      <4>2. t.s.back[lo + i] = IF i = j + 1 THEN e ELSE st.s.back[lo + i]
        BY <2>6, <2>10, <4>1
      <4> QED BY <2>2, <3>1, <4>1, <4>2
    <3>3. ASSUME NEW c \in 1..Len(b), c > lo + k PROVE t.s.back[c] = b[c]
      <4>1. c # lo + j + 1 /\ c > lo + (k - 1)
        BY <1>1, <2>8, <3>3
      <4> QED BY <2>2, <2>6, <4>1
    <3>4. t.keepIndex = Len(y) /\ Len(y) <= k
      BY <2>8, <3>1
    <3> QED BY <2>1, <3>2, <3>3, <3>4 DEF t, y
  <2> QED BY <2>9, <2>10
<1>14. 0..n \subseteq S
  <2> HIDE DEF S
  <2> QED BY <1>1, <1>12, <1>13, Upto
<1>15. n \in S /\ f[n] \in Y /\ w[n] \in Seq(Int)
  BY <1>1, <1>9, <1>11, <1>14
<1>16. Fits(n)
  BY <1>15
<1> HIDE DEF S
<1> QED BY <1>9, <1>11, <1>15, <1>16 DEF Y, E, n, lo

\* Clearing what is left behind the first cells keeps them.
LEMMA ClearedIs ==
  ASSUME Zero \in Int, NEW s, IsWindow(s), NEW from \in Nat
  PROVE  /\ IsWindow(Cleared(s, from))
         /\ Cleared(s, from).lo = s.lo /\ Cleared(s, from).hi = s.hi
         /\ \A c \in 1..Len(s.back) : c <= s.lo + from => Cleared(s, from).back[c] = s.back[c]
<1> DEFINE b == s.back
           lo == s.lo
           hi == s.hi
           w == Cleared(s, from)
           B == [c \in 1..Len(b) |-> IF c > lo + from /\ c <= hi THEN Zero ELSE b[c]]
<1>1. b \in Seq(Int) /\ Len(b) \in Nat /\ DOMAIN b = 1..Len(b) /\ lo \in Nat /\ hi \in Nat
      /\ s \in [back : Seq(Int), lo : Nat, hi : Nat] /\ lo <= hi /\ hi <= Len(b)
  BY DEF IsWindow
<1>2. w = [s EXCEPT !.back = B]
  BY <1>1 DEF Cleared
<1>3. B \in Seq(Int) /\ Len(B) = Len(b)
      /\ \A c \in 1..Len(b) : B[c] = IF c > lo + from /\ c <= hi THEN Zero ELSE b[c]
  <2> HIDE DEF b, lo, hi
  <2>1. \A c \in 1..Len(b) : (IF c > lo + from /\ c <= hi THEN Zero ELSE b[c]) \in Int
    BY <1>1
  <2> QED BY <1>1, <2>1
<1> HIDE DEF B, w
<1>4. w \in [back : Seq(Int), lo : Nat, hi : Nat] /\ w.back = B /\ w.lo = lo /\ w.hi = hi
  BY <1>1, <1>2, <1>3
<1>5. IsWindow(w)
  BY <1>1, <1>3, <1>4 DEF IsWindow
<1> HIDE DEF lo, hi, b
<1>6. \A c \in 1..Len(b) : c <= lo + from => w.back[c] = b[c]
  BY <1>1, <1>3, <1>4
<1> QED BY <1>4, <1>5, <1>6 DEF w, b, lo, hi

\* DeleteFunc leaves what is not in p.
LEMMA DeletedIs ==
  ASSUME Zero \in Int, NEW s, IsWindow(s), NEW p,
         NEW r, r = Compacted(s, p), NEW c, c = Cleared(r.s, r.keepIndex)
  PROVE  /\ IsWindow(c) /\ c.lo = s.lo /\ c.hi = s.hi
         /\ r.keepIndex \in Nat /\ r.keepIndex <= Len_(c)
         /\ Elems(Window(c, 0, r.keepIndex)) = Where(Elems(s), Int \ p)
<1> DEFINE n == r.keepIndex
           t == r.s
           W == Where(Elems(s), Int \ p)
           w == Window(c, 0, n)
<1>1. /\ IsWindow(t) /\ t.lo = s.lo /\ t.hi = s.hi /\ n \in Nat /\ Len(t.back) = Len(s.back)
      /\ W \in Seq(Int) /\ n = Len(W) /\ n <= Len_(s)
      /\ \A i \in 1..n : t.back[s.lo + i] = W[i]
  <2>1. r \in Compacting(s)
    BY CompactedIs
  <2>2. /\ W \in Seq(Int) /\ n = Len(W) /\ n <= Len_(s)
        /\ \A i \in 1..n : t.back[s.lo + i] = W[i]
    BY CompactedIs
  <2>3. IsWindow(t) /\ t.lo = s.lo /\ t.hi = s.hi /\ n \in Nat /\ Len(t.back) = Len(s.back)
    BY <2>1 DEF Compacting
  <2> HIDE DEF n, t, W
  <2> QED BY <2>2, <2>3
<1> HIDE DEF n, t, W
<1>2. /\ IsWindow(c) /\ c.lo = s.lo /\ c.hi = s.hi
      /\ \A x \in 1..Len(t.back) : x <= s.lo + n => c.back[x] = t.back[x]
  <2>1. c = Cleared(t, n) /\ IsWindow(t) /\ n \in Nat
    BY <1>1 DEF n, t
  <2>2. /\ IsWindow(c) /\ c.lo = t.lo /\ c.hi = t.hi
        /\ \A x \in 1..Len(t.back) : x <= t.lo + n => c.back[x] = t.back[x]
    BY <2>1, ClearedIs
  <2> QED BY <1>1, <2>2
<1>3. Len_(c) = Len_(s)
  BY <1>2 DEF Len_
<1>4. /\ IsWindow(w) /\ Len_(w) = n /\ w.back = c.back /\ w.lo = s.lo
  BY <1>1, <1>2, <1>3, WindowIs
<1> HIDE DEF w
<1>5. Elems(w) \in Seq(Int) /\ Len(Elems(w)) = n
      /\ \A i \in 1..n : Elems(w)[i] = c.back[s.lo + i]
  BY <1>4, ElemsAre
<1>6. \A i \in 1..n : Elems(w)[i] = W[i]
  <2> TAKE i \in 1..n
  <2>1. s.lo \in Nat /\ Len(s.back) \in Nat /\ s.lo + Len_(s) <= Len(s.back) /\ Len_(s) \in Int
    BY DEF IsWindow, Len_
  <2>2. s.lo + i \in 1..Len(t.back) /\ s.lo + i <= s.lo + n
    BY <1>1, <2>1
  <2> QED BY <1>1, <1>2, <1>5, <2>2
<1>7. Elems(w) = W
  BY <1>1, <1>5, <1>6, SeqEqual
<1> QED BY <1>1, <1>2, <1>3, <1>7 DEF n, W, w

-----------------------------------------------------------------------------
\* SliceOps: the parts, joined.

\* Flatten puts the parts behind each other in the order of the keys.
LEMMA JoinedIs ==
  ASSUME NEW m \in Maps, NEW order \in Seq(Groups)
  PROVE  /\ Len(order) = 0 => Joined(m, order) = <<>>
         /\ Len(order) = 1 => Joined(m, order) = m[order[1]]
         /\ Len(order) = 2 => Joined(m, order) = m[order[1]] \o m[order[2]]
<1> DEFINE n == Len(order)
           Y == Seq(Int)
           turn == [k \in Groups |-> [res \in Y |-> res \o m[k]]]
<1>1. n \in Nat /\ n \in 0..n /\ 0 \in 0..n /\ \A k \in 1..n : order[k] \in Groups /\ k - 1 \in 0..n
  OBVIOUS
<1>2. <<>> \in Y /\ \A k \in Groups : m[k] \in Y
  BY DEF Maps
<1>3. \A k \in Groups : \A res \in Y : turn[k][res] = res \o m[k]
  <2> HIDE DEF Y
  <2> QED OBVIOUS
<1>4. Joined(m, order) = Loop(turn, <<>>, order)
  BY DEF Joined
<1> HIDE DEF turn
<1>5. ASSUME NEW k \in Groups, NEW res \in Y PROVE turn[k][res] \in Y
  <2>1. res \o m[k] \in Y
    BY <1>2, ConcatProperties
  <2> QED BY <1>3, <2>1
<1>6. StaysIn(turn, order, Y)
  BY <1>1, <1>5 DEF StaysIn
<1>7. PICK f : Finds(f, turn, <<>>, order, Y)
  BY <1>1, <1>2, <1>6, LoopDef
<1>8. /\ Joined(m, order) = f[n] /\ f[0] = <<>>
      /\ \A k \in 0..n : f[k] \in Y
      /\ \A k \in 1..n : f[k] = turn[order[k]][f[k - 1]]
  BY <1>4, <1>7 DEF Finds
<1> HIDE DEF n
<1>9. CASE n = 0
  BY <1>8, <1>9 DEF n
<1>10. ASSUME n >= 1 PROVE f[1] = m[order[1]]
  <2>1. 1 \in 1..n /\ 1 - 1 = 0
    BY <1>1, <1>10
  <2>2. f[1] = turn[order[1]][<<>>] /\ order[1] \in Groups
    BY <1>1, <1>8, <2>1
  <2>3. f[1] = <<>> \o m[order[1]] /\ m[order[1]] \in Seq(Int)
    BY <1>2, <1>3, <2>2
  <2> QED BY <2>3, ConcatEmptySeq
<1>11. CASE n = 1
  BY <1>8, <1>10, <1>11 DEF n
<1>12. CASE n = 2
  <2>1. 2 \in 1..n /\ 1 \in 0..n /\ 2 - 1 = 1 /\ n >= 1
    BY <1>12
  <2>2. f[2] = turn[order[2]][f[1]] /\ order[2] \in Groups /\ f[1] \in Y
    BY <1>1, <1>8, <2>1
  <2>3. f[2] = f[1] \o m[order[2]]
    BY <1>3, <2>2
  <2> QED BY <1>8, <1>10, <1>12, <2>1, <2>3 DEF n
<1> QED BY <1>9, <1>11, <1>12 DEF n

-----------------------------------------------------------------------------
\* SliceOps: integers that wrap around.

\* The remainder is the one number below the divisor that a multiple completes.
LEMMA Residue ==
  ASSUME NEW m \in Nat \ {0}, NEW q \in Int, NEW r \in 0..(m - 1)
  PROVE  m * q + r \in Int /\ (m * q + r) % m = r
<1> DEFINE y == m * q + r
           k == y \div m
           x == y % m
<1>1. y \in Int /\ m * q \in Int
  OBVIOUS
<1> HIDE DEF y
<1>2. x \in 0..(m - 1) /\ k \in Int /\ y = m * k + x
  BY <1>1
<1> HIDE DEF k, x
<1>3. m * (q - k) = x - r
  BY <1>1, <1>2 DEF y
<1>4. q - k \in Int /\ x - r < m /\ x - r > -m
  BY <1>2
<1> DEFINE d == q - k
<1>5. d = 0
  <2> HIDE DEF d
  <2>1. d \in Int /\ m * d < m /\ m * d > -m
    BY <1>3, <1>4 DEF d
  <2>2. CASE d >= 1
    <3>1. m * d >= m
      BY <2>1, <2>2
    <3> QED BY <2>1, <3>1
  <2>3. CASE d <= -1
    <3>1. m * d <= -m
      BY <2>1, <2>3
    <3> QED BY <2>1, <3>1
  <2> QED BY <2>1, <2>2, <2>3
<1>6. m * (q - k) = 0
  <2>1. m * 0 = 0
    OBVIOUS
  <2> QED BY <1>5, <2>1
<1>7. x = r
  BY <1>2, <1>3, <1>6
<1> QED BY <1>1, <1>7 DEF y, x

\* A multiple more leaves the remainder.
LEMMA MultipleMore ==
  ASSUME NEW m \in Nat \ {0}, NEW y \in Int, NEW j \in Int
  PROVE  y + m * j \in Int /\ (y + m * j) % m = y % m
<1> DEFINE k == y \div m
           r == y % m
<1>1. r \in 0..(m - 1) /\ k \in Int /\ y = m * k + r
  OBVIOUS
<1> HIDE DEF k, r
<1>2. k + j \in Int /\ y + m * j = m * (k + j) + r
  BY <1>1
<1>3. (m * (k + j) + r) % m = r /\ m * (k + j) + r \in Int
  BY <1>1, <1>2, Residue
<1> QED BY <1>2, <1>3 DEF r

\* A number and what remains of it are the same up to a multiple of the width.
LEMMA WrapIs ==
  ASSUME SliceAssumption, NEW signed \in BOOLEAN, NEW x \in Int
  PROVE  /\ Card \in Nat /\ Card >= 2 /\ Lo(signed) \in Int /\ Hi(signed) = Lo(signed) + Card - 1
         /\ Hi(signed) \in Int /\ Wrap(x, signed) \in Int
         /\ Wrap(x, signed) \in Lo(signed)..Hi(signed)
         /\ x \in Lo(signed)..Hi(signed) => Wrap(x, signed) = x
         /\ x \in (Hi(signed) + 1)..(Hi(signed) + Card) => Wrap(x, signed) = x - Card
<1> DEFINE l == Lo(signed)
<1>1. Half \in Nat /\ Half >= 1 /\ Card = 2 * Half
  BY DEF SliceAssumption, Card
<1>2. Card \in Nat /\ Card >= 2
  BY <1>1
<1>3. l \in Int /\ Hi(signed) = l + Card - 1
  BY <1>1 DEF Lo, Hi
<1>4. Wrap(x, signed) = ((x - l) % Card) + l
  BY DEF Wrap
<1> HIDE DEF l
<1>5. \A y \in Int : /\ y % Card \in 0..(Card - 1)
                     /\ y \in 0..(Card - 1) => y % Card = y
                     /\ y \in Card..(2 * Card - 1) => y % Card = y - Card
  <2> DEFINE m == Card
  <2>1. m \in Nat /\ m >= 2
    BY <1>2
  <2> HIDE DEF m
  <2>2. ASSUME NEW y \in Int PROVE y % m \in 0..(m - 1)
    BY <2>1
  <2>3. ASSUME NEW y \in 0..(m - 1) PROVE y % m = y
    <3>1. m * 0 + y = y
      BY <2>1
    <3>2. (m * 0 + y) % m = y
      BY <2>1, Residue
    <3> QED BY <3>1, <3>2
  <2>4. ASSUME NEW y \in m..(2 * m - 1) PROVE y % m = y - m
    <3>1. m * 1 + (y - m) = y /\ y - m \in 0..(m - 1)
      BY <2>1
    <3>2. (m * 1 + (y - m)) % m = y - m
      BY <2>1, <3>1, Residue
    <3> QED BY <3>1, <3>2
  <2> QED BY <2>2, <2>3, <2>4 DEF m
<1> HIDE DEF Card
<1>6. Wrap(x, signed) \in l..(l + Card - 1)
  <2>1. (x - l) % Card \in 0..(Card - 1)
    BY <1>3, <1>5
  <2> DEFINE r == (x - l) % Card
  <2>2. Wrap(x, signed) = r + l /\ r \in 0..(Card - 1)
    BY <1>4, <2>1
  <2> HIDE DEF r
  <2> QED BY <1>2, <1>3, <2>2
<1>7. ASSUME x \in l..(l + Card - 1) PROVE Wrap(x, signed) = x
  <2>1. x - l \in 0..(Card - 1)
    BY <1>2, <1>3, <1>7
  <2>2. (x - l) % Card = x - l
    BY <1>5, <2>1
  <2> QED BY <1>3, <1>4, <2>2
<1>8. ASSUME x \in (l + Card)..(l + 2 * Card - 1) PROVE Wrap(x, signed) = x - Card
  <2>1. x - l \in Card..(2 * Card - 1)
    BY <1>2, <1>3, <1>8
  <2>2. (x - l) % Card = x - l - Card
    <3> DEFINE y == x - l
    <3>1. y \in Int /\ y \in Card..(2 * Card - 1)
      BY <1>3, <2>1
    <3> HIDE DEF y
    <3>2. y % Card = y - Card
      BY ONLY <1>5, <3>1
    <3> QED BY <3>2 DEF y
  <2> QED BY <1>2, <1>3, <1>4, <2>2
<1>9. (l + Card - 1) + 1 = l + Card /\ (l + Card - 1) + Card = l + 2 * Card - 1
  BY <1>2, <1>3
<1>10. Hi(signed) \in Int /\ Wrap(x, signed) \in Int
  BY <1>2, <1>3, <1>6
<1> QED BY <1>2, <1>3, <1>6, <1>7, <1>8, <1>9, <1>10 DEF l

\* Wrapping twice is wrapping once.
LEMMA WrapOnce ==
  ASSUME SliceAssumption, NEW signed \in BOOLEAN, NEW x \in Int, NEW v \in Int
  PROVE  Wrap(Wrap(x, signed) + v, signed) = Wrap(x + v, signed)
<1> DEFINE l == Lo(signed)
           m == Card
           y == x - l
           k == y \div m
           r == y % m
<1>1. m \in Nat \ {0} /\ l \in Int
  BY WrapIs
<1>2. Wrap(x, signed) = r + l
  BY DEF Wrap
<1>3. /\ Wrap(x + v, signed) = (((x + v) - l) % m) + l
      /\ Wrap(Wrap(x, signed) + v, signed) = (((Wrap(x, signed) + v) - l) % m) + l
  BY DEF Wrap
<1> HIDE DEF l, m
<1>4. y \in Int /\ x = y + l
  BY <1>1
<1> HIDE DEF y
<1>5. r \in 0..(m - 1) /\ k \in Int /\ y = m * k + r
  BY <1>1, <1>4
<1> HIDE DEF k, r
<1>6. r + v \in Int /\ ((r + l) + v) - l = r + v
  BY <1>1, <1>5
<1>7. (x + v) - l = (r + v) + m * k
  BY <1>1, <1>4, <1>5
<1>8. ((r + v) + m * k) % m = (r + v) % m
  BY <1>1, <1>5, <1>6, MultipleMore
<1> QED BY <1>2, <1>3, <1>6, <1>7, <1>8

\* A sum that wraps at each step is the sum, wrapped.
LEMMA AddedIs ==
  ASSUME SliceAssumption, NEW signed \in BOOLEAN, NEW s \in Seq(Int)
  PROVE  Added(s, signed) = Wrap(SumTotal(s), signed)
<1> DEFINE n == Len(s)
           add == [v \in Int |-> [res \in Int |-> Wrap(res + v, signed)]]
           plus == [e \in Int |-> [total \in Int |-> total + e]]
<1>1. n \in Nat /\ 0 \in 0..n /\ \A k \in 1..n : s[k] \in Int /\ k \in 0..n /\ k - 1 \in 0..n
  OBVIOUS
<1>2. \A v \in Int : \A res \in Int : add[v][res] = Wrap(res + v, signed) /\ plus[v][res] = res + v
  OBVIOUS
<1>3. Added(s, signed) = Loop(add, 0, s) /\ SumTotal(s) = Loop(plus, 0, s)
  BY DEF Added, SumTotal
<1> HIDE DEF add, plus
<1>4. StaysIn(add, s, Int)
  <2> SUFFICES ASSUME NEW k \in 1..n, NEW y \in Int PROVE add[s[k]][y] \in Int
    BY DEF StaysIn
  <2>1. s[k] \in Int /\ y + s[k] \in Int
    BY <1>1
  <2>2. Wrap(y + s[k], signed) \in Int
    BY <2>1, WrapIs
  <2> QED BY <1>2, <2>1, <2>2
<1>5. StaysIn(plus, s, Int)
  <2> SUFFICES ASSUME NEW k \in 1..n, NEW y \in Int PROVE plus[s[k]][y] \in Int
    BY DEF StaysIn
  <2>1. s[k] \in Int /\ y + s[k] \in Int
    BY <1>1
  <2> QED BY <1>2, <2>1
<1>6. PICK f : Finds(f, add, 0, s, Int)
  <2>1. 0 \in Int
    OBVIOUS
  <2> QED BY <1>1, <1>4, <2>1, LoopDef, Zenon
<1>7. PICK g : Finds(g, plus, 0, s, Int)
  <2>1. 0 \in Int
    OBVIOUS
  <2> QED BY <1>1, <1>5, <2>1, LoopDef, Zenon
<1>8. /\ Added(s, signed) = f[n] /\ f[0] = 0 /\ SumTotal(s) = g[n] /\ g[0] = 0
      /\ \A k \in 0..n : f[k] \in Int /\ g[k] \in Int
      /\ \A k \in 1..n : f[k] = Wrap(f[k - 1] + s[k], signed) /\ g[k] = g[k - 1] + s[k]
  <2>1. /\ Added(s, signed) = f[n] /\ f[0] = 0 /\ SumTotal(s) = g[n] /\ g[0] = 0
        /\ \A k \in 0..n : f[k] \in Int /\ g[k] \in Int
        /\ \A k \in 1..n : f[k] = add[s[k]][f[k - 1]] /\ g[k] = plus[s[k]][g[k - 1]]
    BY <1>3, <1>6, <1>7 DEF Finds
  <2> QED BY <1>1, <1>2, <2>1
<1> HIDE DEF n
<1> DEFINE S == {k \in 0..n : f[k] = Wrap(g[k], signed)}
<1>9. 0 \in S
  <2>1. 0 \in Lo(signed)..Hi(signed)
    BY DEF SliceAssumption, Lo, Hi, Card
  <2>2. Wrap(0, signed) = 0
    BY <2>1, WrapIs
  <2> QED BY <1>1, <1>8, <2>2
<1>10. ASSUME NEW k \in 1..n, k - 1 \in S PROVE k \in S
  <2>1. f[k - 1] = Wrap(g[k - 1], signed) /\ g[k - 1] \in Int /\ s[k] \in Int
    BY <1>1, <1>8, <1>10
  <2>2. f[k] = Wrap(Wrap(g[k - 1], signed) + s[k], signed)
    BY <1>8, <2>1
  <2>3. f[k] = Wrap(g[k - 1] + s[k], signed)
    BY <2>1, <2>2, WrapOnce
  <2> QED BY <1>1, <1>8, <2>3
<1>11. 0..n \subseteq S
  <2> HIDE DEF S
  <2> QED BY <1>1, <1>9, <1>10, Upto
<1>12. n \in S
  BY <1>1, <1>11
<1> QED BY <1>8, <1>12

\* While the end can be passed, each turn of SliceRange adds the next integer, and
\* the loop stands still after the end.
LEMMA TurnsIs ==
  ASSUME SliceAssumption, NEW signed \in BOOLEAN,
         NEW start \in Lo(signed)..Hi(signed), NEW end \in Lo(signed)..Hi(signed), start <= end
  PROVE  /\ end < Hi(signed) =>
               RangeTurns(start, end, signed) =
                  [x |-> end + 1, out |-> [i \in 1..(end - start + 1) |-> start + i - 1]]
         /\ end = Hi(signed) =>
               RangeTurns(start, end, signed).x \in Int /\ RangeTurns(start, end, signed).x <= end
<1> DEFINE l == Lo(signed)
           h == Hi(signed)
           n == Card
           States == [x : Int, out : Seq(Int)]
           turn == [i \in Nat |-> [st \in States |-> RangeTurn(st, end, signed)]]
           base == [x |-> start, out |-> <<>>]
           seq == [i \in 1..n |-> i]
           Y == {st \in States : st.x \in l..h}
<1>1. /\ n \in Nat /\ n >= 2 /\ l \in Int /\ h = l + n - 1 /\ h \in Int
      /\ start \in l..h /\ end \in l..h /\ start \in Int /\ end \in Int
  BY WrapIs
<1>2. ASSUME NEW st \in Y
      PROVE  /\ RangeTurn(st, end, signed) \in Y
             /\ st.x > end => RangeTurn(st, end, signed) = st
             /\ st.x <= end =>
                   /\ RangeTurn(st, end, signed).out = Append(st.out, st.x)
                   /\ st.x < h => RangeTurn(st, end, signed).x = st.x + 1
                   /\ st.x = h => RangeTurn(st, end, signed).x = l
  <2>1. st.x \in l..h /\ st.x \in Int /\ st.out \in Seq(Int) /\ st.x + 1 \in Int
    OBVIOUS
  <2>2. /\ Wrap(st.x + 1, signed) \in l..h
        /\ st.x + 1 \in l..h => Wrap(st.x + 1, signed) = st.x + 1
        /\ st.x + 1 \in (h + 1)..(h + n) => Wrap(st.x + 1, signed) = (st.x + 1) - n
    <3> DEFINE y == st.x + 1
    <3>1. y \in Int
      BY <2>1
    <3> HIDE DEF y
    <3>2. /\ Wrap(y, signed) \in l..h
          /\ y \in l..h => Wrap(y, signed) = y
          /\ y \in (h + 1)..(h + n) => Wrap(y, signed) = y - n
      BY <3>1, WrapIs
    <3> QED BY <3>2 DEF y
  <2>3. CASE st.x > end
    BY <2>3 DEF RangeTurn
  <2>4. CASE ~ st.x > end
    <3> DEFINE w == Wrap(st.x + 1, signed)
               t == [x |-> w, out |-> Append(st.out, st.x)]
    <3>1. RangeTurn(st, end, signed) = t
      BY <2>4 DEF RangeTurn
    <3>2. w \in l..h /\ w \in Int /\ (st.x < h => w = st.x + 1) /\ (st.x = h => w = l)
      <4> HIDE DEF l, h, n
      <4>1. (st.x < h => st.x + 1 \in l..h) /\ (st.x = h => st.x + 1 \in (h + 1)..(h + n))
        BY <1>1, <2>1
      <4> QED BY <1>1, <2>1, <2>2, <4>1
    <3>3. Append(st.out, st.x) \in Seq(Int)
      BY <2>1, AppendProperties
    <3> HIDE DEF w, l, h
    <3>4. t \in Y /\ t.x = w /\ t.out = Append(st.out, st.x)
      BY <3>2, <3>3
    <3> HIDE DEF t, Y
    <3> QED BY <2>4, <3>1, <3>2, <3>4
  <2> QED BY <2>3, <2>4
<1>3. base \in Y /\ base.x = start /\ base.out = <<>>
  BY <1>1
<1>4. RangeTurns(start, end, signed) = Loop(turn, base, seq)
  BY DEF RangeTurns
<1>5. \A i \in Nat : \A st \in Y : turn[i][st] = RangeTurn(st, end, signed)
  OBVIOUS
<1> HIDE DEF l, h, n, turn, base, Y
<1>6. Len(seq) = n /\ 0 \in 0..n /\ n \in 0..n
      /\ \A k \in 1..n : seq[k] = k /\ k \in Nat /\ k \in 0..n /\ k - 1 \in 0..n
  BY <1>1
<1> HIDE DEF seq
<1>7. StaysIn(turn, seq, Y)
  BY <1>2, <1>5, <1>6 DEF StaysIn
<1>8. PICK f : Finds(f, turn, base, seq, Y)
  BY <1>1, <1>3, <1>6, <1>7, LoopDef
<1>9. /\ RangeTurns(start, end, signed) = f[n] /\ f[0] = base
      /\ \A k \in 0..n : f[k] \in Y
      /\ \A k \in 1..n : f[k] = RangeTurn(f[k - 1], end, signed)
  <2>1. /\ RangeTurns(start, end, signed) = f[n] /\ f[0] = base
        /\ \A k \in 0..n : f[k] \in Y
        /\ \A k \in 1..n : f[k] = turn[seq[k]][f[k - 1]]
    BY <1>4, <1>6, <1>8 DEF Finds
  <2>2. ASSUME NEW k \in 1..n PROVE f[k] = RangeTurn(f[k - 1], end, signed)
    <3>1. f[k] = turn[k][f[k - 1]] /\ k \in Nat /\ f[k - 1] \in Y
      BY <1>6, <2>1
    <3> QED BY <1>5, <3>1
  <2> QED BY <2>1, <2>2
<1>10. ASSUME end = h
       PROVE  RangeTurns(start, end, signed).x \in Int /\ RangeTurns(start, end, signed).x <= end
  BY <1>1, <1>6, <1>9, <1>10 DEF Y
<1>11. ASSUME end < h
       PROVE  RangeTurns(start, end, signed) =
                 [x |-> end + 1, out |-> [i \in 1..(end - start + 1) |-> start + i - 1]]
  <2> DEFINE m == end - start + 1
             Place(k) == IF k < m THEN k ELSE m
             Fits(k) == /\ f[k].x = start + Place(k)
                        /\ Len(f[k].out) = Place(k)
                        /\ \A i \in 1..Place(k) : f[k].out[i] = start + i - 1
             S == {k \in 0..n : Fits(k)}
  <2>1. m \in Nat /\ m >= 1 /\ m < n /\ start + m = end + 1
    BY <1>1, <1>11
  <2> HIDE DEF m
  <2>2. 0 \in S
    <3>1. Place(0) = 0 /\ f[0].x = start /\ Len(f[0].out) = 0 /\ start + 0 = start
      BY <1>1, <1>3, <1>9, <2>1
    <3>2. \A i \in 1..0 : f[0].out[i] = start + i - 1
      OBVIOUS
    <3> QED BY <1>6, <3>1, <3>2
  <2>3. ASSUME NEW k \in 1..n, k - 1 \in S PROVE k \in S
    <3> DEFINE st == f[k - 1]
               t == f[k]
               c == Place(k - 1)
    <3>1. /\ st \in Y /\ t = RangeTurn(st, end, signed) /\ k \in 0..n
      BY <1>6, <1>9
    <3>2. st.x = start + c /\ Len(st.out) = c /\ \A i \in 1..c : st.out[i] = start + i - 1
      BY <2>3
    <3>3. st.out \in Seq(Int) /\ st.x \in Int
      BY <3>1 DEF Y
    <3>4. c \in 0..m /\ (k <= m => c = k - 1 /\ Place(k) = k) /\ (k > m => c = m /\ Place(k) = m)
      BY <2>1
    <3> HIDE DEF st, t, c
    <3>5. CASE k <= m
      <4>1. st.x = start + (k - 1) /\ st.x <= end /\ st.x < h
        BY <1>1, <1>11, <2>1, <3>2, <3>4, <3>5
      <4>2. t.out = Append(st.out, st.x) /\ t.x = st.x + 1
        BY <1>2, <3>1, <4>1
      <4>3. /\ Len(t.out) = k /\ t.out[k] = st.x /\ \A i \in 1..(k - 1) : t.out[i] = st.out[i]
        BY <3>2, <3>3, <3>4, <3>5, <4>2, AppendProperties
      <4>4. \A i \in 1..k : t.out[i] = start + i - 1
        <5> TAKE i \in 1..k
        <5>1. CASE i = k
          BY <1>1, <4>1, <4>3, <5>1
        <5>2. CASE i # k
          <6>1. i \in 1..(k - 1) /\ i \in 1..c
            BY <3>4, <3>5, <5>2
          <6> QED BY <3>2, <4>3, <6>1
        <5> QED BY <5>1, <5>2
      <4>5. t.x = start + k
        BY <1>1, <4>1, <4>2
      <4>6. Fits(k)
        BY <3>4, <3>5, <4>3, <4>4, <4>5 DEF t
      <4> QED BY <3>1, <4>6
    <3>6. CASE k > m
      <4>1. st.x = start + m /\ st.x > end
        BY <1>1, <2>1, <3>2, <3>4, <3>6
      <4>2. t = st
        BY <1>2, <3>1, <4>1
      <4>3. Fits(k)
        BY <3>2, <3>4, <3>6, <4>2 DEF t
      <4> QED BY <3>1, <4>3
    <3> QED BY <2>1, <3>5, <3>6
  <2>4. 0..n \subseteq S
    <3> HIDE DEF S
    <3> QED BY <1>1, <1>6, <2>2, <2>3, Upto
  <2>5. Fits(n)
    BY <1>6, <2>4
  <2> DEFINE r == f[n]
             list == [i \in 1..m |-> start + i - 1]
  <2>6. r.x = end + 1 /\ Len(r.out) = m /\ \A i \in 1..m : r.out[i] = start + i - 1
    BY <1>1, <2>1, <2>5
  <2>7. r \in [x : Int, out : Seq(Int)]
    BY <1>6, <1>9 DEF Y
  <2> HIDE DEF r
  <2>8. list \in Seq(Int) /\ Len(list) = m /\ \A i \in 1..m : list[i] = start + i - 1
    BY <1>1, <2>1
  <2> HIDE DEF list
  <2>9. r.out = list
    <3>1. /\ r.out \in Seq(Int) /\ Len(r.out) = Len(list)
          /\ \A i \in 1..Len(r.out) : r.out[i] = list[i]
      BY <2>6, <2>7, <2>8
    <3> QED BY <2>8, <3>1, SeqEqual
  <2>10. r = [x |-> end + 1, out |-> list]
    BY <2>6, <2>7, <2>9
  <2> QED BY <1>9, <2>10 DEF r, list, m
<1> QED BY <1>10, <1>11 DEF h

\* SliceRange panics or does not end exactly when the type cannot hold the integer
\* after the end or the length.
LEMMA RangedIs ==
  ASSUME SliceAssumption, NEW signed \in BOOLEAN,
         NEW start \in Lo(signed)..Hi(signed), NEW end \in Lo(signed)..Hi(signed),
         NEW r, r = Ranged(start, end, signed)
  PROVE  \/ start > end /\ r = [end |-> "nil", out |-> <<>>]
         \/ /\ start <= end /\ end < Hi(signed) /\ end - start < Hi(signed)
            /\ r = [end |-> "list", out |-> [i \in 1..(end - start + 1) |-> start + i - 1]]
         \/ /\ end = Hi(signed) \/ end - start >= Hi(signed)
            /\ start <= end /\ r.end \in {"panic", "endless"}
<1> DEFINE l == Lo(signed)
           h == Hi(signed)
           n == Card
           d == end - start + 1
           w == Wrap(d, signed)
           t == RangeTurns(start, end, signed)
<1>1. /\ n \in Nat /\ n >= 2 /\ l \in Int /\ h = l + n - 1 /\ h \in Int /\ l <= 0 /\ h >= 0
      /\ start \in l..h /\ end \in l..h /\ start \in Int /\ end \in Int
  <2>1. l <= 0 /\ h >= 0
    BY DEF SliceAssumption, Lo, Hi, Card
  <2> QED BY <2>1, WrapIs
<1>2. r = IF start > end THEN [end |-> "nil", out |-> <<>>]
          ELSE IF w < 0 THEN [end |-> "panic", out |-> <<>>]
          ELSE IF t.x > end THEN [end |-> "list", out |-> t.out]
          ELSE [end |-> "endless", out |-> <<>>]
  BY DEF Ranged
<1>3. d \in Int /\ w \in Int /\ w \in l..h
      /\ (d \in l..h => w = d) /\ (d \in (h + 1)..(h + n) => w = d - n)
  <2>1. d \in Int
    BY <1>1
  <2> HIDE DEF d
  <2> QED BY <2>1, WrapIs
<1>4. CASE start > end
  BY <1>2, <1>4
<1>5. CASE ~ start > end
  <2> HIDE DEF w, l, h, n, t
  <2>1. start <= end /\ d >= 1 /\ d <= n
    BY <1>1, <1>5
  <2>2. (end < h => t = [x |-> end + 1, out |-> [i \in 1..d |-> start + i - 1]])
        /\ (end = h => t.x \in Int /\ t.x <= end)
    BY <2>1, TurnsIs DEF t, h
  <2>3. CASE end < h /\ end - start < h
    <3>1. d \in l..h /\ w = d /\ ~ w < 0
      BY <1>1, <1>3, <2>1, <2>3
    <3>2. t.x = end + 1 /\ t.out = [i \in 1..d |-> start + i - 1]
      BY <2>2, <2>3
    <3>3. t.x > end
      BY <1>1, <3>2
    <3>4. r = [end |-> "list", out |-> t.out]
      BY <1>2, <1>5, <3>1, <3>3
    <3> QED BY <2>1, <2>3, <3>2, <3>4 DEF h
  <2>4. CASE end - start >= h /\ end < h
    <3>1. d \in (h + 1)..(h + n) /\ d < n
      BY <1>1, <2>1, <2>4
    <3>2. w < 0
      BY <1>1, <1>3, <3>1
    <3>3. r = [end |-> "panic", out |-> <<>>]
      BY <1>2, <1>5, <3>2
    <3> QED BY <2>1, <2>4, <3>3 DEF h
  <2>5. CASE end = h
    <3>1. ~ t.x > end
      BY <1>1, <2>2, <2>5
    <3>2. r.end \in {"panic", "endless"}
      BY <1>2, <1>5, <3>1
    <3> QED BY <2>1, <2>5, <3>2 DEF h
  <2> QED BY <1>1, <2>3, <2>4, <2>5
<1> QED BY <1>4, <1>5

-----------------------------------------------------------------------------
\* SliceOps: the keys and values of a map in any order.

\* A function on the first n places is a sequence.
LEMMA IsSeq ==
  ASSUME NEW X, NEW n \in Nat, NEW f \in [1..n -> X]
  PROVE  f \in Seq(X) /\ Len(f) = n
OBVIOUS

\* Two make a pair.
LEMMA PairOf ==
  ASSUME NEW a, NEW b, a # b
  PROVE  Cardinality({a, b}) = 2
<1>1. IsFiniteSet({a}) /\ Cardinality({a}) = 1 /\ b \notin {a} /\ {a} \cup {b} = {a, b}
  BY FS_Singleton
<1> QED BY <1>1, FS_AddElement

\* An order of the keys of a map names each key that has an entry once.
LEMMA OrdersAre ==
  ASSUME NEW m \in Maps, NEW order \in SetToSeqs(Entries(m))
  PROVE  /\ order \in Seq(Groups) /\ DOMAIN order = 1..Len(order)
         /\ Len(order) = Cardinality(Entries(m)) /\ ToSet(order) = Entries(m)
         /\ \/ Entries(m) = {} /\ Len(order) = 0
            \/ Len(order) = 1 /\ Entries(m) = {order[1]}
            \/ Len(order) = 2 /\ order[1] # order[2] /\ Entries(m) = Groups
<1> DEFINE E == Entries(m)
           N == Cardinality(E)
<1>1. order \in [1..N -> E] /\ \A i, j \in 1..N : i # j => order[i] # order[j]
  BY DEF SetToSeqs
<1>2. E \subseteq Groups /\ (E = {} \/ (\E k \in Groups : E = {k}) \/ E = Groups)
  BY DEF Entries, Groups
<1> HIDE DEF E
<1>3. CASE E = {}
  <2>1. N = 0
    BY <1>3, FS_EmptySet
  <2> HIDE DEF N
  <2>2. DOMAIN order = {} /\ order \in [1..0 -> Groups]
    BY <1>1, <1>3, <2>1
  <2>3. order \in Seq(Groups) /\ Len(order) = 0
    BY <2>2
  <2>4. ToSet(order) = {} /\ 1..Len(order) = {}
    BY <2>2, <2>3 DEF ToSet
  <2> QED BY <1>3, <2>1, <2>2, <2>3, <2>4 DEF E, N
<1>4. ASSUME NEW k \in Groups, E = {k}
      PROVE  /\ order \in Seq(Groups) /\ DOMAIN order = 1..Len(order)
             /\ Len(order) = N /\ ToSet(order) = E /\ Len(order) = 1 /\ E = {order[1]}
  <2>1. N = 1
    BY <1>4, FS_Singleton
  <2> HIDE DEF N
  <2>2. order \in [1..1 -> Groups] /\ order[1] = k /\ DOMAIN order = {1}
    BY <1>1, <1>4, <2>1
  <2>3. order \in Seq(Groups) /\ Len(order) = 1
    BY <2>2, IsSeq
  <2>4. ToSet(order) = {k} /\ 1..Len(order) = {1}
    BY <2>2, <2>3 DEF ToSet
  <2> QED BY <1>4, <2>1, <2>2, <2>3, <2>4
<1>5. CASE E = Groups
  <2>1. N = 2
    BY <1>5, PairOf DEF Groups
  <2> HIDE DEF N
  <2>2. order \in [1..2 -> Groups] /\ order[1] # order[2] /\ DOMAIN order = {1, 2}
    BY <1>1, <1>5, <2>1
  <2>3. order \in Seq(Groups) /\ Len(order) = 2
    BY <2>2, IsSeq
  <2>4. ToSet(order) = {order[1], order[2]} /\ 1..Len(order) = {1, 2}
    BY <2>2, <2>3 DEF ToSet
  <2>5. {order[1], order[2]} = Groups
    BY <2>2 DEF Groups
  <2> QED BY <1>5, <2>1, <2>2, <2>3, <2>4, <2>5 DEF E, N
<1> QED BY <1>2, <1>3, <1>4, <1>5 DEF E, N

\* The parts are the elements that p accepts and those that it does not.
PartsOf(s, p) == {Where(s, p), Where(s, Int \ p)} \ {<<>>}
ValuesOf(m) == {m[k] : k \in Entries(m)}

\* A map has an entry for each part, and under the key of its elements.
LEMMA PartsAre ==
  ASSUME NEW s \in Seq(Int), NEW p, NEW m, m = Grouped(s, p)
  PROVE  /\ m \in Maps /\ m["yes"] = Where(s, p) /\ m["no"] = Where(s, Int \ p)
         /\ Cardinality(PartsOf(s, p)) = Cardinality(Entries(m))
         /\ PartsOf(s, p) = ValuesOf(m)
         /\ Entries(m) = {GroupOf(e, p) : e \in ToSet(s)}
<1> DEFINE a == Where(s, p)
           b == Where(s, Int \ p)
<1>1. m \in Maps /\ m["yes"] = a /\ m["no"] = b
  BY GroupedIs
<1>2. a # <<>> => a # b
  <2>1. a # <<>> => a[1] \in p
    BY WhereIs
  <2>2. b # <<>> => b[1] \in Int \ p
    BY WhereIs
  <2> QED BY <2>1, <2>2
<1>3. /\ a # <<>> <=> \E e \in ToSet(s) : e \in p
      /\ b # <<>> <=> \E e \in ToSet(s) : e \notin p
  <2>1. (a = <<>> <=> ToSet(s) \cap p = {}) /\ (b = <<>> <=> ToSet(s) \cap (Int \ p) = {})
    BY WhereIs
  <2>2. ToSet(s) \subseteq Int
    BY DEF ToSet
  <2> QED BY <2>1, <2>2
<1> HIDE DEF a, b
<1>4. Entries(m) = {k \in {"yes", "no"} : m[k] # <<>>}
  BY DEF Entries, Groups
<1>5. PartsOf(s, p) = {a, b} \ {<<>>}
  BY DEF PartsOf, a, b
<1>6. PartsOf(s, p) = ValuesOf(m)
  BY <1>1, <1>4, <1>5 DEF ValuesOf
<1>7. Cardinality(PartsOf(s, p)) = Cardinality(Entries(m))
  <2>1. CASE a = <<>> /\ b = <<>>
    <3>1. PartsOf(s, p) = {} /\ Entries(m) = {}
      BY <1>1, <1>4, <1>5, <2>1
    <3> QED BY <3>1
  <2>2. CASE a = <<>> /\ b # <<>>
    <3>1. PartsOf(s, p) = {b} /\ Entries(m) = {"no"}
      BY <1>1, <1>4, <1>5, <2>2
    <3> QED BY <3>1, FS_Singleton
  <2>3. CASE a # <<>> /\ b = <<>>
    <3>1. PartsOf(s, p) = {a} /\ Entries(m) = {"yes"}
      BY <1>1, <1>4, <1>5, <2>3
    <3> QED BY <3>1, FS_Singleton
  <2>4. CASE a # <<>> /\ b # <<>>
    <3>1. PartsOf(s, p) = {a, b} /\ Entries(m) = {"yes", "no"} /\ a # b
      BY <1>1, <1>2, <1>4, <1>5, <2>4
    <3>2. Cardinality({a, b}) = 2
      BY <3>1, PairOf
    <3>3. "yes" # "no"
      OBVIOUS
    <3>4. Cardinality({"yes", "no"}) = 2
      BY <3>3, PairOf, Zenon
    <3> QED BY <3>1, <3>2, <3>4
  <2> QED BY <2>1, <2>2, <2>3, <2>4
<1>8. Entries(m) = {GroupOf(e, p) : e \in ToSet(s)}
  <2>1. "yes" \in Entries(m) <=> "yes" \in {GroupOf(e, p) : e \in ToSet(s)}
    BY <1>1, <1>3, <1>4 DEF GroupOf
  <2>2. "no" \in Entries(m) <=> "no" \in {GroupOf(e, p) : e \in ToSet(s)}
    BY <1>1, <1>3, <1>4 DEF GroupOf
  <2>3. \A k \in {GroupOf(e, p) : e \in ToSet(s)} : k \in {"yes", "no"}
    BY DEF GroupOf
  <2>4. \A k \in Entries(m) : k \in {"yes", "no"}
    BY <1>4
  <2> QED BY <2>1, <2>2, <2>3, <2>4
<1> QED BY <1>1, <1>6, <1>7, <1>8 DEF a, b

\* In whatever order, the values are the parts.
LEMMA ValuesAre ==
  ASSUME NEW s \in Seq(Int), NEW p, NEW m, m = Grouped(s, p),
         NEW order \in SetToSeqs(Entries(m)),
         NEW values, values = [i \in DOMAIN order |-> m[order[i]]]
  PROVE  Len(values) = Cardinality(PartsOf(s, p)) /\ ToSet(values) = PartsOf(s, p)
<1>1. m \in Maps
  BY PartsAre
<1>2. /\ order \in Seq(Groups) /\ DOMAIN order = 1..Len(order) /\ Len(order) \in Nat
      /\ Len(order) = Cardinality(Entries(m)) /\ ToSet(order) = Entries(m)
  BY <1>1, OrdersAre
<1>3. DOMAIN values = DOMAIN order /\ \A i \in DOMAIN order : values[i] = m[order[i]]
  OBVIOUS
<1>4. Len(values) = Len(order)
  BY <1>2
<1>5. ToSet(values) = {m[k] : k \in ToSet(order)}
  BY <1>3 DEF ToSet
<1>6. Cardinality(PartsOf(s, p)) = Cardinality(Entries(m))
      /\ PartsOf(s, p) = ValuesOf(m)
  <2>1. Cardinality(PartsOf(s, p)) = Cardinality(Entries(m))
    BY PartsAre
  <2>2. PartsOf(s, p) = ValuesOf(m)
    BY PartsAre
  <2> QED BY <2>1, <2>2
<1>7. Len(values) = Cardinality(PartsOf(s, p))
  BY <1>2, <1>4, <1>6, Zenon
<1>8. ToSet(values) = PartsOf(s, p)
  BY <1>2, <1>5, <1>6, Zenon DEF ValuesOf
<1> QED BY <1>7, <1>8

\* Joined, the parts are the elements of the one group behind those of the other.
LEMMA FlattenIs ==
  ASSUME NEW s \in Seq(Int), NEW p, NEW m, m = Grouped(s, p),
         NEW order \in SetToSeqs(Entries(m))
  PROVE  Joined(m, order) \in {Where(s, p) \o Where(s, Int \ p), Where(s, Int \ p) \o Where(s, p)}
<1> DEFINE a == Where(s, p)
           b == Where(s, Int \ p)
<1>1. m \in Maps /\ m["yes"] = a /\ m["no"] = b
  BY PartsAre
<1>2. a \in Seq(Int) /\ b \in Seq(Int)
  BY <1>1 DEF Maps, Groups
<1> HIDE DEF a, b
<1>3. a \o <<>> = a /\ <<>> \o a = a /\ b \o <<>> = b /\ <<>> \o b = b
  BY <1>2, ConcatEmptySeq
<1>4. /\ order \in Seq(Groups)
      /\ \/ Entries(m) = {} /\ Len(order) = 0
         \/ Len(order) = 1 /\ Entries(m) = {order[1]}
         \/ Len(order) = 2 /\ order[1] # order[2] /\ Entries(m) = Groups
  BY <1>1, OrdersAre
<1>5. Entries(m) = {k \in {"yes", "no"} : m[k] # <<>>}
  BY DEF Entries, Groups
<1>6. CASE Entries(m) = {} /\ Len(order) = 0
  <2>1. a = <<>> /\ b = <<>>
    BY <1>1, <1>5, <1>6
  <2>2. Joined(m, order) = <<>>
    BY <1>1, <1>4, <1>6, JoinedIs
  <2> QED BY <1>3, <2>1, <2>2 DEF a, b
<1>7. CASE Len(order) = 1 /\ Entries(m) = {order[1]}
  <2>1. Joined(m, order) = m[order[1]]
    BY <1>1, <1>4, <1>7, JoinedIs
  <2>2. CASE order[1] = "yes"
    <3>1. b = <<>>
      BY <1>1, <1>5, <1>7, <2>2
    <3> QED BY <1>1, <1>3, <2>1, <2>2, <3>1 DEF a, b
  <2>3. CASE order[1] = "no"
    <3>1. a = <<>>
      BY <1>1, <1>5, <1>7, <2>3
    <3> QED BY <1>1, <1>3, <2>1, <2>3, <3>1 DEF a, b
  <2> QED BY <1>5, <1>7, <2>2, <2>3
<1>8. CASE Len(order) = 2 /\ order[1] # order[2]
  <2>1. Joined(m, order) = m[order[1]] \o m[order[2]]
    BY <1>1, <1>4, <1>8, JoinedIs
  <2>2. order[1] \in {"yes", "no"} /\ order[2] \in {"yes", "no"}
    <3>1. order \in Seq(Groups) /\ 1 \in 1..Len(order) /\ 2 \in 1..Len(order)
      BY <1>4, <1>8
    <3>2. order[1] \in Groups /\ order[2] \in Groups
      BY <3>1
    <3> QED BY <3>2 DEF Groups
  <2>3. (order[1] = "yes" /\ order[2] = "no") \/ (order[1] = "no" /\ order[2] = "yes")
    BY <1>8, <2>2
  <2> QED BY <1>1, <2>1, <2>3 DEF a, b
<1> QED BY <1>4, <1>6, <1>7, <1>8

-----------------------------------------------------------------------------
\* SliceOps: every call.

\* What a loop that returns early has answered, as an equality.
LEMMA VisitedBoolean ==
  ASSUME NEW s \in Seq(Int), NEW stop
  PROVE  /\ Visited(s, stop).out = UpTo(s, stop)
         /\ Visited(s, stop).done = (ToSet(s) \cap stop # {})
<1>1. Visited(s, stop).done \in BOOLEAN
  BY VisitedIs
<1>2. Visited(s, stop).out = UpTo(s, stop)
  BY VisitedIs
<1>3. Visited(s, stop).done <=> ToSet(s) \cap stop # {}
  BY VisitedIs
<1> QED BY <1>1, <1>2, <1>3

\* The slice and the slice of before the call in place are windows of the same array,
\* and the slice holds what should be kept.
KeptInv ==
    /\ IsWindow(ss) /\ IsWindow(older)
    /\ older.lo = ss.lo /\ older.back = ss.back /\ ss.hi <= older.hi
    /\ kept \in Seq(Int) /\ Elems(ss) = kept

AnswersInv == EarlyReturns /\ Regroups /\ IntegersExact

\* The slice of before shows what was kept first.
LEMMA KeptInPlace ==
  ASSUME KeptInv
  PROVE  InPlace
<1>1. SubSeq(Elems(older), 1, Len_(ss)) = Elems(ss)
  BY FirstElems DEF KeptInv
<1> QED BY <1>1 DEF KeptInv, InPlace

\* A caller starts with its slice.
LEMMA SliceStarts ==
  ASSUME SliceAssumption, SliceInit
  PROVE  KeptInv /\ AnswersInv
<1>1. /\ kept \in Seq(Int) /\ Len(kept) \in Nat
      /\ ss = [back |-> kept, lo |-> 0, hi |-> Len(kept)] /\ older = ss
  BY DEF SliceAssumption, SliceInit
<1>2. ss.back = kept /\ ss.lo = 0 /\ ss.hi = Len(kept) /\ IsWindow(ss)
  BY <1>1 DEF IsWindow
<1>3. Elems(ss) = kept
  <2>1. Elems(ss) = SubSeq(kept, 1, Len(kept))
    BY <1>2 DEF Elems
  <2> QED BY <1>1, <2>1, SubSeqFull
<1>4. KeptInv
  BY <1>1, <1>2, <1>3 DEF KeptInv
<1>5. call.op = "none"
  BY DEF SliceInit, NoCall
<1>6. AnswersInv
  BY <1>5 DEF AnswersInv, EarlyReturns, Regroups, IntegersExact
<1> QED BY <1>4, <1>6

\* Delete leaves the slice without the element.
LEMMA DeleteStep ==
  ASSUME KeptInv, NEW index \in Nat, Delete(index)
  PROVE  KeptInv' /\ AnswersInv'
<1> DEFINE m == Shifted(ss, index)
           w == Window(m, 0, Len_(ss) - 1)
<1>1. /\ index < Len_(ss) /\ ss' = w /\ older' = m /\ kept' = RemoveAt(kept, index + 1)
      /\ call' = NoCall
  BY DEF Delete
<1>2. IsWindow(ss) /\ kept \in Seq(Int) /\ Elems(ss) = kept
  BY DEF KeptInv
<1>3. /\ IsWindow(m) /\ m.lo = ss.lo /\ m.hi = ss.hi /\ IsWindow(w)
      /\ Elems(w) = RemoveAt(kept, index + 1)
  BY <1>1, <1>2, ShiftedIs
<1>4. Len_(ss) \in Nat /\ Len_(ss) = Len(kept) /\ Len_(m) = Len_(ss)
  <2>1. Len_(m) = Len_(ss)
    BY <1>3 DEF Len_
  <2> QED BY <1>2, <2>1, ElemsAre
<1> HIDE DEF m, w
<1>5. w.back = m.back /\ w.lo = m.lo /\ w.hi = m.lo + (Len_(ss) - 1)
  <2>1. Len_(ss) - 1 \in Nat /\ Len_(ss) - 1 <= Len_(m)
    BY <1>1, <1>4
  <2> QED BY <1>3, <2>1, WindowIs DEF w
<1>6. w.hi <= m.hi
  BY <1>3, <1>4, <1>5 DEF Len_, IsWindow
<1>7. RemoveAt(kept, index + 1) \in Seq(Int)
  BY <1>1, <1>2, <1>4, TakeOut
<1>8. KeptInv'
  BY <1>1, <1>3, <1>5, <1>6, <1>7 DEF KeptInv, IsWindow, Elems
<1>9. call'.op = "none"
  BY <1>1 DEF NoCall
<1>10. AnswersInv'
  BY <1>9 DEF AnswersInv, EarlyReturns, Regroups, IntegersExact
<1> QED BY <1>8, <1>10

\* DeleteFunc leaves the slice without the elements in p.
LEMMA DeleteFuncStep ==
  ASSUME SliceAssumption, KeptInv, NEW p \in Accepted, DeleteFunc(p)
  PROVE  KeptInv' /\ AnswersInv'
<1> DEFINE r == Compacted(ss, p)
           c == Cleared(r.s, r.keepIndex)
           w == Window(c, 0, r.keepIndex)
<1>1. ss' = w /\ older' = c /\ kept' = Where(kept, Int \ p) /\ call' = NoCall
  BY DEF DeleteFunc
<1>2. IsWindow(ss) /\ kept \in Seq(Int) /\ Elems(ss) = kept /\ Zero \in Int
  BY DEF KeptInv, SliceAssumption
<1>3. /\ IsWindow(c) /\ r.keepIndex \in Nat /\ r.keepIndex <= Len_(c)
      /\ Elems(w) = Where(kept, Int \ p)
  BY <1>2, DeletedIs
<1> HIDE DEF r, c
<1>4. /\ IsWindow(w) /\ w.back = c.back /\ w.lo = c.lo /\ w.hi = c.lo + r.keepIndex
  BY <1>3, WindowIs
<1> HIDE DEF w
<1>5. w.hi <= c.hi
  BY <1>3, <1>4 DEF Len_, IsWindow
<1>6. Where(kept, Int \ p) \in Seq(Int)
  BY <1>2, WhereIs
<1>7. KeptInv'
  BY <1>1, <1>3, <1>4, <1>5, <1>6 DEF KeptInv, IsWindow, Elems
<1>8. call'.op = "none"
  BY <1>1 DEF NoCall
<1>9. AnswersInv'
  BY <1>8 DEF AnswersInv, EarlyReturns, Regroups, IntegersExact
<1> QED BY <1>7, <1>9

\* A call that reads changes nothing but its answer.
LEMMA AnsweredStep ==
  ASSUME KeptInv, NEW op, NEW p, NEW value, Answered(op, p, value)
  PROVE  /\ KeptInv' /\ kept' = kept
         /\ call'.op = op /\ call'.p = p /\ call'.value = value
<1>1. ss' = ss /\ older' = older /\ kept' = kept /\ call' = [op |-> op, p |-> p, value |-> value]
  BY DEF Answered
<1>2. KeptInv'
  BY <1>1 DEF KeptInv, IsWindow, Elems
<1> QED BY <1>1, <1>2

\* A call that reads answers what the properties say of the slice.
LEMMA ReadStep ==
  ASSUME KeptInv, NEW p, ForEachSlice \/ Map \/ Reads(p)
  PROVE  KeptInv' /\ AnswersInv'
<1>0. kept \in Seq(Int) /\ Input = kept
  BY DEF KeptInv, Input
<1>1. CASE ForEachSlice
  <2>1. /\ KeptInv' /\ kept' = kept
        /\ call'.op = "each" /\ call'.p = {}
        /\ call'.value = Visited(kept, {}).out
    <3>1. Answered("each", {}, Visited(kept, {}).out)
      BY <1>0, <1>1 DEF ForEachSlice
    <3> QED BY <3>1, AnsweredStep
  <2>2. AnswersInv'
    <3>1. Visited(kept, {}).out = UpTo(kept, {})
      BY <1>0, VisitedIs
    <3>2. UpTo(kept, {}) = kept
      BY Zenon DEF UpTo
    <3>3. call'.value = kept
      BY <2>1, <3>1, <3>2, Zenon
    <3> QED BY <1>0, <2>1, <3>3 DEF AnswersInv, EarlyReturns, Regroups, IntegersExact
  <2> QED BY <2>1, <2>2
<1>2. CASE ForEachB(p)
  <2>1. /\ KeptInv' /\ kept' = kept
        /\ call'.op = "eachb" /\ call'.p = p
        /\ call'.value = Visited(kept, ToSet(kept) \ p).out
    <3>1. Answered("eachb", p, Visited(kept, ToSet(kept) \ p).out)
      BY <1>0, <1>2 DEF ForEachB, Rest
    <3> QED BY <3>1, AnsweredStep
  <2>2. AnswersInv'
    <3>1. Visited(kept, ToSet(kept) \ p).out = UpTo(kept, ToSet(kept) \ p)
      BY <1>0, VisitedIs
    <3>2. call'.value = UpTo(kept, ToSet(kept) \ p)
      BY <2>1, <3>1, Zenon
    <3> QED BY <1>0, <2>1, <3>2 DEF AnswersInv, EarlyReturns, Regroups, IntegersExact
  <2> QED BY <2>1, <2>2
<1>3. CASE ForEachE(p)
  <2>1. /\ KeptInv' /\ kept' = kept
        /\ call'.op = "eache" /\ call'.p = p
        /\ call'.value = [seen |-> Visited(kept, p).out, err |-> Visited(kept, p).done]
    <3>1. Answered("eache", p, [seen |-> Visited(kept, p).out, err |-> Visited(kept, p).done])
      BY <1>0, <1>3 DEF ForEachE
    <3> QED BY <3>1, AnsweredStep
  <2>2. AnswersInv'
    <3>1. /\ Visited(kept, p).out = UpTo(kept, p)
          /\ Visited(kept, p).done = (ToSet(kept) \cap p # {})
      BY <1>0, VisitedBoolean
    <3>2. call'.value = [seen |-> UpTo(kept, p), err |-> ToSet(kept) \cap p # {}]
      BY <2>1, <3>1, Zenon
    <3> QED BY <1>0, <2>1, <3>2 DEF AnswersInv, EarlyReturns, Regroups, IntegersExact
  <2> QED BY <2>1, <2>2
<1>4. CASE Every(p)
  <2>1. /\ KeptInv' /\ kept' = kept
        /\ call'.op = "every" /\ call'.p = p
        /\ call'.value = ~Visited(kept, ToSet(kept) \ p).done
    <3>1. Answered("every", p, ~Visited(kept, ToSet(kept) \ p).done)
      BY <1>0, <1>4 DEF Every, Rest
    <3> QED BY <3>1, AnsweredStep
  <2>2. AnswersInv'
    <3>1. Visited(kept, ToSet(kept) \ p).done = (ToSet(kept) \cap (ToSet(kept) \ p) # {})
      BY <1>0, VisitedBoolean
    <3>2. ToSet(kept) \cap (ToSet(kept) \ p) = ToSet(kept) \ p
      OBVIOUS
    <3>3. call'.value = (ToSet(kept) \ p = {})
      BY <2>1, <3>1, <3>2, Zenon
    <3> QED BY <1>0, <2>1, <3>3 DEF AnswersInv, EarlyReturns, Regroups, IntegersExact
  <2> QED BY <2>1, <2>2
<1>5. CASE Some(p)
  <2>1. /\ KeptInv' /\ kept' = kept
        /\ call'.op = "some" /\ call'.p = p
        /\ call'.value = Visited(kept, p).done
    <3>1. Answered("some", p, Visited(kept, p).done)
      BY <1>0, <1>5 DEF Some
    <3> QED BY <3>1, AnsweredStep
  <2>2. AnswersInv'
    <3>1. Visited(kept, p).done = (ToSet(kept) \cap p # {})
      BY <1>0, VisitedBoolean
    <3>2. call'.value = (ToSet(kept) \cap p # {})
      BY <2>1, <3>1, Zenon
    <3> QED BY <1>0, <2>1, <3>2 DEF AnswersInv, EarlyReturns, Regroups, IntegersExact
  <2> QED BY <2>1, <2>2
<1>6. CASE Find(p)
  <2>1. /\ KeptInv' /\ kept' = kept
        /\ call'.op = "find" /\ call'.p = p
        /\ call'.value = [found |-> Visited(kept, p).done,
                          item |-> IF Visited(kept, p).done THEN Last(Visited(kept, p).out)
                                                            ELSE Zero]
    <3>1. Answered("find", p, [found |-> Visited(kept, p).done,
                               item |-> IF Visited(kept, p).done
                                        THEN Last(Visited(kept, p).out) ELSE Zero])
      BY <1>0, <1>6 DEF Find
    <3> QED BY <3>1, AnsweredStep
  <2>2. AnswersInv'
    <3>1. /\ Visited(kept, p).out = UpTo(kept, p)
          /\ Visited(kept, p).done = (ToSet(kept) \cap p # {})
      BY <1>0, VisitedBoolean
    <3>2. /\ call'.value.found = Visited(kept, p).done
          /\ call'.value.item = IF Visited(kept, p).done THEN Last(Visited(kept, p).out)
                                                   ELSE Zero
      BY <2>1
    <3>3. call'.value.found = (ToSet(kept) \cap p # {})
      BY <3>1, <3>2, Zenon
    <3>4. call'.value.found => call'.value.item = Last(UpTo(kept, p))
      BY <3>1, <3>2, Zenon
    <3> QED BY <1>0, <2>1, <3>3, <3>4 DEF AnswersInv, EarlyReturns, Regroups, IntegersExact
  <2> QED BY <2>1, <2>2
<1>7. CASE FilterSlice(p)
  <2>1. /\ KeptInv' /\ kept' = kept
        /\ call'.op = "filter" /\ call'.p = p
        /\ call'.value = [nil |-> kept = <<>>, out |-> Where(kept, p)]
    <3>1. Answered("filter", p, [nil |-> kept = <<>>, out |-> Where(kept, p)])
      BY <1>0, <1>7 DEF FilterSlice
    <3> QED BY <3>1, AnsweredStep
  <2>2. AnswersInv'
    <3>1. Selects(Where(kept, p), kept, p)
      BY <1>0, WhereSelects
    <3>2. call'.value.nil = (kept = <<>>) /\ call'.value.out = Where(kept, p)
      BY <2>1
    <3>3. Selects(call'.value.out, kept, p)
      BY <3>1, <3>2, Zenon
    <3> QED BY <1>0, <2>1, <3>2, <3>3 DEF AnswersInv, EarlyReturns, Regroups, IntegersExact
  <2> QED BY <2>1, <2>2
<1>8. CASE Map
  <2>1. /\ KeptInv' /\ kept' = kept
        /\ call'.op = "map" /\ call'.p = {}
        /\ call'.value = [nil |-> kept = <<>>, out |-> Mapped(kept)]
    <3>1. Answered("map", {}, [nil |-> kept = <<>>, out |-> Mapped(kept)])
      BY <1>0, <1>8 DEF Map
    <3> QED BY <3>1, AnsweredStep
  <2>2. AnswersInv'
    <3>1. Mapped(kept) = [i \in DOMAIN kept |-> 2 * kept[i]]
      BY <1>0, MappedIs
    <3>2. call'.value = [nil |-> kept = <<>>, out |-> [i \in DOMAIN kept |-> 2 * kept[i]]]
      BY <2>1, <3>1, Zenon
    <3> QED BY <1>0, <2>1, <3>2 DEF AnswersInv, EarlyReturns, Regroups, IntegersExact
  <2> QED BY <2>1, <2>2
<1>9. CASE GroupBy(p)
  <2>1. /\ KeptInv' /\ kept' = kept
        /\ call'.op = "group" /\ call'.p = p
        /\ call'.value = Grouped(kept, p)
    <3>1. Answered("group", p, Grouped(kept, p))
      BY <1>0, <1>9 DEF GroupBy
    <3> QED BY <3>1, AnsweredStep
  <2>2. AnswersInv'
    <3>1. /\ Grouped(kept, p) \in Maps
          /\ Grouped(kept, p)["yes"] = Where(kept, p)
          /\ Grouped(kept, p)["no"] = Where(kept, Int \ p)
      BY <1>0, GroupedIs
    <3>2. Grouped(kept, p) =
             [k \in Groups |-> IF k = "yes" THEN Where(kept, p) ELSE Where(kept, Int \ p)]
      BY <3>1 DEF Maps, Groups
    <3>3. call'.value =
             [k \in Groups |-> IF k = "yes" THEN Where(kept, p) ELSE Where(kept, Int \ p)]
      BY <2>1, <3>2, Zenon
    <3> QED BY <1>0, <2>1, <3>3 DEF AnswersInv, EarlyReturns, Regroups, IntegersExact
  <2> QED BY <2>1, <2>2
<1>10. CASE ToMap(p)
  <2>1. /\ KeptInv' /\ kept' = kept
        /\ call'.op = "tomap" /\ call'.p = p
        /\ call'.value = Latest(kept, p)
    <3>1. Answered("tomap", p, Latest(kept, p))
      BY <1>0, <1>10 DEF ToMap
    <3> QED BY <3>1, AnsweredStep
  <2>2. AnswersInv'
    <3>1. /\ Latest(kept, p)["yes"] = Newest(Where(kept, p))
          /\ Latest(kept, p)["no"] = Newest(Where(kept, Int \ p))
      BY <1>0, LatestIs
    <3>2. /\ call'.value["yes"] = Newest(Where(kept, p))
          /\ call'.value["no"] = Newest(Where(kept, Int \ p))
      BY <2>1, <3>1, Zenon
    <3> QED BY <1>0, <2>1, <3>2 DEF AnswersInv, EarlyReturns, Regroups, IntegersExact, Newest
  <2> QED BY <2>1, <2>2
<1>11. CASE Keys(p)
  <2> DEFINE m == Grouped(kept, p)
  <2>0. m \in Maps
    BY <1>0, GroupedIs
  <2>1. PICK order \in SetToSeqs(Entries(m)) : Answered("keys", p, order)
    BY <1>0, <1>11 DEF Keys
  <2>2. /\ KeptInv' /\ kept' = kept
        /\ call'.op = "keys" /\ call'.p = p /\ call'.value = order
    BY <2>1, AnsweredStep
  <2>3. AnswersInv'
    <3>1. /\ Len(order) = Cardinality(Entries(m)) /\ ToSet(order) = Entries(m)
      BY <2>0, OrdersAre
    <3>2. /\ Cardinality(PartsOf(kept, p)) = Cardinality(Entries(m))
          /\ Entries(m) = {GroupOf(e, p) : e \in ToSet(kept)}
      BY <1>0, PartsAre
    <3>3. /\ Len(call'.value) = Cardinality({Where(kept, p), Where(kept, Int \ p)} \ {<<>>})
          /\ ToSet(call'.value) = {GroupOf(e, p) : e \in ToSet(kept)}
      BY <2>2, <3>1, <3>2, Zenon DEF PartsOf
    <3> QED BY <1>0, <2>2, <3>3 DEF AnswersInv, EarlyReturns, Regroups, IntegersExact
  <2> QED BY <2>2, <2>3
<1>12. CASE Values(p)
  <2> DEFINE m == Grouped(kept, p)
  <2>0. m \in Maps
    BY <1>0, GroupedIs
  <2>1. PICK order \in SetToSeqs(Entries(m)) :
            Answered("values", p, [i \in DOMAIN order |-> m[order[i]]])
    BY <1>0, <1>12 DEF Values
  <2>2. /\ KeptInv' /\ kept' = kept
        /\ call'.op = "values" /\ call'.p = p /\ call'.value = [i \in DOMAIN order |-> m[order[i]]]
    BY <2>1, AnsweredStep
  <2>3. AnswersInv'
    <3>1. /\ Len([i \in DOMAIN order |-> m[order[i]]]) = Cardinality(PartsOf(kept, p))
          /\ ToSet([i \in DOMAIN order |-> m[order[i]]]) = PartsOf(kept, p)
      BY <1>0, ValuesAre
    <3>3. /\ Len(call'.value) = Cardinality({Where(kept, p), Where(kept, Int \ p)} \ {<<>>})
          /\ ToSet(call'.value) = {Where(kept, p), Where(kept, Int \ p)} \ {<<>>}
      BY <2>2, <3>1, Zenon DEF PartsOf
    <3> QED BY <1>0, <2>2, <3>3 DEF AnswersInv, EarlyReturns, Regroups, IntegersExact
  <2> QED BY <2>2, <2>3
<1>13. CASE Flatten(p)
  <2> DEFINE m == Grouped(kept, p)
  <2>0. m \in Maps
    BY <1>0, GroupedIs
  <2>1. PICK order \in SetToSeqs(Entries(m)) : Answered("flatten", p, Joined(m, order))
    BY <1>0, <1>13 DEF Flatten
  <2>2. /\ KeptInv' /\ kept' = kept
        /\ call'.op = "flatten" /\ call'.p = p /\ call'.value = Joined(m, order)
    BY <2>1, AnsweredStep
  <2>3. AnswersInv'
    <3>1. Joined(m, order) \in
             {Where(kept, p) \o Where(kept, Int \ p), Where(kept, Int \ p) \o Where(kept, p)}
      BY <1>0, FlattenIs
    <3>3. call'.value \in
             {Where(kept, p) \o Where(kept, Int \ p), Where(kept, Int \ p) \o Where(kept, p)}
      BY <2>2, <3>1, Zenon
    <3> QED BY <1>0, <2>2, <3>3 DEF AnswersInv, EarlyReturns, Regroups, IntegersExact
  <2> QED BY <2>2, <2>3
<1> QED
  BY <1>1, <1>2, <1>3, <1>4, <1>5, <1>6, <1>7, <1>8, <1>9, <1>10, <1>11, <1>12, <1>13 DEF Reads

\* SliceRange and Sum answer within the bounds of their type.
LEMMA IntegersStep ==
  ASSUME SliceAssumption, KeptInv, NEW signed \in BOOLEAN,
         \/ Sum(signed)
         \/ \E start, end \in Lo(signed)..Hi(signed) : SliceRange(start, end, signed)
  PROVE  KeptInv' /\ AnswersInv'
<1>0. kept \in Seq(Int) /\ Input = kept
  BY DEF KeptInv, Input
<1>1. CASE Sum(signed)
  <2> DEFINE v == [signed |-> signed, res |-> Added(kept, signed)]
  <2>1. Answered("sum", {}, v)
    BY <1>0, <1>1 DEF Sum
  <2>2. v.signed = signed /\ v.res = Wrap(SumTotal(kept), signed)
    BY <1>0, AddedIs
  <2> HIDE DEF v
  <2>3. /\ KeptInv' /\ kept' = kept /\ call'.op = "sum" /\ call'.value = v
    BY <2>1, AnsweredStep
  <2>4. AnswersInv'
    BY <2>2, <2>3 DEF AnswersInv, EarlyReturns, Regroups, IntegersExact
  <2> QED BY <2>3, <2>4
<1>2. ASSUME NEW start \in Lo(signed)..Hi(signed), NEW end \in Lo(signed)..Hi(signed),
             SliceRange(start, end, signed)
      PROVE  KeptInv' /\ AnswersInv'
  <2> DEFINE r == Ranged(start, end, signed)
             v == [from |-> start, to |-> end, signed |-> signed, r |-> r]
  <2>1. Answered("range", {}, v)
    BY <1>2 DEF SliceRange
  <2>2. v.from = start /\ v.to = end /\ v.signed = signed /\ v.r = r
    OBVIOUS
  <2>3. \/ start > end /\ r = [end |-> "nil", out |-> <<>>]
        \/ /\ start <= end /\ end < Hi(signed) /\ end - start < Hi(signed)
           /\ r = [end |-> "list", out |-> [i \in 1..(end - start + 1) |-> start + i - 1]]
        \/ /\ end = Hi(signed) \/ end - start >= Hi(signed)
           /\ start <= end /\ r.end \in {"panic", "endless"}
    BY RangedIs
  <2> HIDE DEF v, r
  <2>4. /\ KeptInv' /\ kept' = kept /\ call'.op = "range" /\ call'.value = v
    BY <2>1, AnsweredStep
  <2>5. IntegersExact'
    BY <2>2, <2>3, <2>4, Zenon DEF IntegersExact
  <2>6. AnswersInv'
    BY <2>4, <2>5 DEF AnswersInv, EarlyReturns, Regroups
  <2> QED BY <2>4, <2>6
<1> QED BY <1>1, <1>2

\* No call breaks the invariant, and every answer is what the properties say.
LEMMA SliceStep ==
  ASSUME SliceAssumption, KeptInv, AnswersInv, [SliceNext]_svars
  PROVE  KeptInv' /\ AnswersInv'
<1>1. ASSUME NEW i \in 0..Len_(ss), Delete(i) PROVE KeptInv' /\ AnswersInv'
  <2>1. i \in Nat
    BY ElemsAre DEF KeptInv
  <2> QED BY <1>1, <2>1, DeleteStep
<1>2. ASSUME NEW p \in Accepted, DeleteFunc(p) PROVE KeptInv' /\ AnswersInv'
  BY <1>2, DeleteFuncStep
<1>3. ASSUME NEW p \in Accepted, Reads(p) PROVE KeptInv' /\ AnswersInv'
  BY <1>3, ReadStep
<1>4. CASE ForEachSlice \/ Map
  BY <1>4, ReadStep
<1>5. ASSUME NEW signed \in BOOLEAN,
             \/ Sum(signed)
             \/ \E start, end \in Lo(signed)..Hi(signed) : SliceRange(start, end, signed)
      PROVE  KeptInv' /\ AnswersInv'
  BY <1>5, IntegersStep
<1>6. CASE UNCHANGED svars
  <2>1. ss' = ss /\ older' = older /\ kept' = kept /\ call' = call
    BY <1>6 DEF svars
  <2>2. KeptInv'
    BY <2>1 DEF KeptInv, IsWindow, Elems
  <2>3. EarlyReturns'
    BY <2>1, Zenon DEF AnswersInv, EarlyReturns
  <2>4. Regroups'
    BY <2>1, Zenon DEF AnswersInv, Regroups
  <2>5. IntegersExact'
    BY <2>1, Zenon DEF AnswersInv, IntegersExact
  <2> QED BY <2>2, <2>3, <2>4, <2>5 DEF AnswersInv
<1> QED BY <1>1, <1>2, <1>3, <1>4, <1>5, <1>6 DEF SliceNext

\* Deleting in place keeps what should stay, in order, for every slice over the
\* array; a loop that returns early answers for the whole slice; grouping loses
\* nothing; SliceRange and Sum are right within the bounds of the type.
THEOREM SlicesCorrect == SliceSpec => []SlicesKeep
<1>1. SliceInit => KeptInv /\ AnswersInv
  BY SliceAssumption, SliceStarts
<1>2. KeptInv /\ AnswersInv /\ [SliceNext]_svars => (KeptInv /\ AnswersInv)'
  BY SliceAssumption, SliceStep
<1>3. KeptInv /\ AnswersInv => SlicesKeep
  BY KeptInPlace DEF AnswersInv, SlicesKeep
<1> QED BY <1>1, <1>2, <1>3, PTL DEF SliceSpec

=============================================================================
