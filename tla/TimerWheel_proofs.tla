------------------------- MODULE TimerWheel_proofs -------------------------
(***************************************************************************)
(* Proofs about TimerWheel for any handles, durations, number of slots and *)
(* of resets:                                                              *)
(*   WheelCorrect    types, the mutexes and the lists of the slots, and a  *)
(*                   one-shot timer is where Stop and Reset look for it;   *)
(*   SilenceCorrect  a one-shot timer that was stopped is not called back; *)
(*   OnTimeCorrect   no callback is an interval early, nor out of phase.   *)
(***************************************************************************)
EXTENDS TimerWheel, TLAPS, SequenceTheorems

In(h, i) == h \in ToSet(slots[i])

-----------------------------------------------------------------------------
\* Lists.

Distinct(list) == \A a, b \in DOMAIN list : list[a] = list[b] => a = b

\* PushBack.
LEMMA AppendList ==
  ASSUME NEW list \in Seq(Handles), Distinct(list), NEW h \in Handles,
         h \notin ToSet(list)
  PROVE  /\ Append(list, h) \in Seq(Handles)
         /\ ToSet(Append(list, h)) = ToSet(list) \cup {h}
         /\ Distinct(Append(list, h))
<1> DEFINE after == Append(list, h)
<1>1. /\ after \in Seq(Handles) /\ Len(after) = Len(list) + 1
      /\ \A a \in 1..Len(list) : after[a] = list[a]
      /\ after[Len(list) + 1] = h
  BY AppendProperties
<1>2. DOMAIN after = 1..Len(after) /\ DOMAIN list = 1..Len(list) /\ Len(list) \in Nat
  BY <1>1, LenProperties
<1> HIDE DEF after
<1>3. ToSet(after) = ToSet(list) \cup {h}
  BY <1>1, <1>2 DEF ToSet
<1>4. \A a \in 1..Len(list) : list[a] # h
  BY <1>2 DEF ToSet
<1>5. Distinct(after)
  BY <1>1, <1>2, <1>4 DEF Distinct
<1> QED
  BY <1>1, <1>3, <1>5 DEF after

LEMMA PlaceIn ==
  ASSUME NEW list, NEW h \in ToSet(list)
  PROVE  PlaceOf(list, h) \in DOMAIN list /\ list[PlaceOf(list, h)] = h
  BY DEF PlaceOf, ToSet

\* list.Remove.
LEMMA WithoutList ==
  ASSUME NEW list \in Seq(Handles), Distinct(list), NEW h \in Handles
  PROVE  /\ Without(list, h) \in Seq(Handles)
         /\ ToSet(Without(list, h)) = ToSet(list) \ {h}
         /\ Distinct(Without(list, h))
<1>1. CASE h \notin ToSet(list)
  BY <1>1 DEF Without
<1>2. CASE h \in ToSet(list)
  <2> DEFINE p == PlaceOf(list, h)
             front == SubSeq(list, 1, p - 1)
             back == SubSeq(list, p + 1, Len(list))
             after == front \o back
  <2>1. Without(list, h) = after
    BY <1>2 DEF Without, RemoveAt
  <2>2. /\ DOMAIN list = 1..Len(list) /\ Len(list) \in Nat
        /\ \A a \in 1..Len(list) : list[a] \in Handles
    BY LenProperties
  <2>3. p \in 1..Len(list) /\ list[p] = h
    BY <1>2, <2>2, PlaceIn
  <2> HIDE DEF p
  <2>4. /\ front \in Seq(Handles) /\ Len(front) = p - 1
        /\ \A a \in 1..(p - 1) : front[a] = list[a]
    <3>1. \A a \in 1..(p - 1) : list[a] \in Handles
      BY <2>2, <2>3
    <3>2. /\ front \in Seq(Handles)
          /\ Len(front) = IF 1 <= p - 1 THEN (p - 1) - 1 + 1 ELSE 0
          /\ \A a \in 1..((p - 1) - 1 + 1) : front[a] = list[1 + a - 1]
      BY <2>2, <2>3, <3>1, SubSeqProperties
    <3> QED
      BY <2>2, <2>3, <3>2
  <2>5. /\ back \in Seq(Handles) /\ Len(back) = Len(list) - p
        /\ \A a \in 1..(Len(list) - p) : back[a] = list[p + a]
    <3>1. \A a \in (p + 1)..Len(list) : list[a] \in Handles
      BY <2>2, <2>3
    <3>2. /\ back \in Seq(Handles)
          /\ Len(back) = IF p + 1 <= Len(list) THEN Len(list) - (p + 1) + 1 ELSE 0
          /\ \A a \in 1..(Len(list) - (p + 1) + 1) : back[a] = list[(p + 1) + a - 1]
      BY <2>2, <2>3, <3>1, SubSeqProperties
    <3> HIDE DEF back
    <3>3. p \in Int /\ p <= Len(list) /\ Len(list) \in Int
      BY <2>2, <2>3
    <3>4. Len(back) = Len(list) - p
      <4>1. CASE p + 1 <= Len(list)
        BY <3>2, <3>3, <4>1
      <4>2. CASE ~(p + 1 <= Len(list))
        <5>1. Len(back) = 0
          BY <3>2, <4>2
        <5>2. p = Len(list)
          BY <3>3, <4>2
        <5>3. Len(list) - p = 0
          BY <3>3, <5>2
        <5> QED
          BY <5>1, <5>3, Zenon
      <4> QED
        BY <4>1, <4>2
    <3>5. ASSUME NEW a \in 1..(Len(list) - p) PROVE back[a] = list[p + a]
      <4>1. (p + 1) + a - 1 = p + a /\ a \in 1..(Len(list) - (p + 1) + 1)
        BY <3>3
      <4> QED
        BY <3>2, <4>1
    <3> QED
      BY <3>2, <3>4, <3>5
  <2> HIDE DEF front, back
  <2>6. /\ after \in Seq(Handles) /\ Len(after) = Len(list) - 1
        /\ \A a \in 1..(Len(list) - 1) :
              after[a] = IF a <= p - 1 THEN front[a] ELSE back[a - (p - 1)]
    <3>1. Len(front) + Len(back) = Len(list) - 1
      BY <2>2, <2>3, <2>4, <2>5
    <3>2. /\ after \in Seq(Handles) /\ Len(after) = Len(front) + Len(back)
          /\ \A a \in 1..(Len(front) + Len(back)) :
                after[a] = IF a <= Len(front) THEN front[a] ELSE back[a - Len(front)]
      BY <2>4, <2>5, ConcatProperties
    <3> QED
      BY <2>4, <3>1, <3>2
  <2>7. DOMAIN after = 1..(Len(list) - 1)
    BY <2>6, LenProperties
  <2> HIDE DEF after
  <2>8. \A a \in 1..(Len(list) - 1) : after[a] = IF a < p THEN list[a] ELSE list[a + 1]
    <3> TAKE a \in 1..(Len(list) - 1)
    <3>1. CASE a < p
      BY <2>2, <2>3, <2>4, <2>6, <3>1
    <3>2. CASE ~(a < p)
      <4>1. a - (p - 1) \in 1..(Len(list) - p) /\ ~(a <= p - 1)
        BY <2>2, <2>3, <3>2
      <4>2. back[a - (p - 1)] = list[p + (a - (p - 1))] /\ p + (a - (p - 1)) = a + 1
        BY <2>2, <2>3, <2>5, <4>1
      <4> QED
        BY <2>6, <3>2, <4>1, <4>2
    <3> QED
      BY <3>1, <3>2
  <2>9. Distinct(after)
    <3> DEFINE old(a) == IF a < p THEN a ELSE a + 1
    <3>1. ASSUME NEW a \in 1..(Len(list) - 1)
          PROVE  old(a) \in 1..Len(list) /\ after[a] = list[old(a)]
      BY <2>2, <2>3, <2>8
    <3>2. ASSUME NEW a \in 1..(Len(list) - 1), NEW b \in 1..(Len(list) - 1),
                 old(a) = old(b)
          PROVE  a = b
      BY <2>2, <2>3, <3>2
    <3> HIDE DEF old
    <3>3. ASSUME NEW a \in 1..(Len(list) - 1), NEW b \in 1..(Len(list) - 1),
                 after[a] = after[b]
          PROVE  a = b
      <4>1. list[old(a)] = list[old(b)]
        BY <3>1, <3>3
      <4>2. old(a) = old(b)
        BY <2>2, <3>1, <4>1 DEF Distinct
      <4> QED
        BY <3>2, <4>2
    <3> QED
      BY <2>7, <3>3 DEF Distinct
  <2>10. ToSet(after) \subseteq ToSet(list) \ {h}
    BY <2>2, <2>3, <2>7, <2>8 DEF Distinct, ToSet
  <2>11. ASSUME NEW b \in 1..Len(list), list[b] # h PROVE list[b] \in ToSet(after)
    <3>1. CASE b < p
      <4>1. b \in 1..(Len(list) - 1)
        <5>1. Len(list) \in Nat /\ p \in 1..Len(list)
          BY <2>2, <2>3
        <5> QED
          BY <3>1, <5>1
      <4>2. after[b] = list[b]
        BY <2>8, <3>1, <4>1
      <4> QED
        BY <2>7, <4>1, <4>2 DEF ToSet
    <3>2. CASE b > p
      <4>1. b - 1 \in 1..(Len(list) - 1) /\ ~(b - 1 < p) /\ (b - 1) + 1 = b
        <5>1. Len(list) \in Nat /\ p \in 1..Len(list)
          BY <2>2, <2>3
        <5> QED
          BY <3>2, <5>1
      <4>2. after[b - 1] = list[b]
        BY <2>8, <4>1
      <4> QED
        BY <2>7, <4>1, <4>2 DEF ToSet
    <3> QED
      BY <2>3, <2>11, <3>1, <3>2
  <2>12. ToSet(list) \ {h} \subseteq ToSet(after)
    BY <2>2, <2>11 DEF ToSet
  <2> QED
    BY <2>1, <2>6, <2>9, <2>10, <2>12
<1> QED
  BY <1>1, <1>2

\* The element behind another one is a different one.
LEMMA NextIn ==
  ASSUME NEW list \in Seq(Handles), Distinct(list), NEW h \in ToSet(list)
  PROVE  NextOf(list, h) = None \/ NextOf(list, h) \in ToSet(list) \ {h}
<1>1. DOMAIN list = 1..Len(list) /\ Len(list) \in Nat
  BY LenProperties
<1>2. PlaceOf(list, h) \in 1..Len(list) /\ list[PlaceOf(list, h)] = h
  BY <1>1, PlaceIn
<1>3. CASE PlaceOf(list, h) < Len(list)
  <2>1. PlaceOf(list, h) + 1 \in 1..Len(list) /\ PlaceOf(list, h) + 1 # PlaceOf(list, h)
    BY <1>1, <1>2, <1>3
  <2>2. list[PlaceOf(list, h) + 1] \in ToSet(list) \ {h}
    BY <1>1, <1>2, <2>1 DEF Distinct, ToSet
  <2> QED
    BY <1>3, <2>2 DEF NextOf
<1>4. CASE ~(PlaceOf(list, h) < Len(list))
  BY <1>4 DEF NextOf
<1> QED
  BY <1>3, <1>4

-----------------------------------------------------------------------------
\* The inductive invariant.

\* h is in no list.
Out(h) == \A i \in Slots : ~In(h, i)

\* A handle is pushed only when it is in no list, and Stop and Reset of a
\* one-shot timer have the slot in mind that it was pushed to.
HandleInv ==
    /\ \A h \in Handles : hpc[h] \in {"new", "add", "push", "pushing", "panic", "crashed"} => Out(h)
    /\ \A h \in Timers : hpc[h] \in {"remove", "removing"} => target[h] = pos[h]
    /\ \A h \in Handles : hpc[h] # "set" => h \notin stopped
    /\ \A h \in Timers : hpc[h] \in {"push", "pushing"} => calls[h] = 0

\* The wheel's next timer is in the slot it has locked, and the ticker that it
\* adds again is in none, nor is its user pushing it.
CursorInv ==
    /\ wpc \in {"scan", "readd"} /\ cursor # None => In(cursor, sp)
    /\ wpc = "readd" => /\ current # None /\ Out(current)
                        /\ hpc[current] \in {"set", "remove", "removing"}

WheelIInv == TypeOK /\ TimerInSlot /\ HandleInv /\ CursorInv

-----------------------------------------------------------------------------
\* The slot of an add is a slot.
LEMMA SlotOfIn ==
  ASSUME Types, NEW h \in Handles
  PROVE  SlotOf(duration[h]) \in Slots /\ Circles(duration[h]) \in Int
<1>1. duration[h] \in Nat /\ sp \in Nat /\ SC \in Nat \ {0} /\ SI \in Nat \ {0}
  <2>1. duration[h] \in Durations \cup {0} /\ sp \in Slots
    BY DEF Types
  <2>2. Durations \subseteq Nat /\ SC \in Nat \ {0} /\ SI \in Nat \ {0}
    <3>1. /\ Durations \subseteq 0..MaxDuration /\ MaxDuration \in Nat
          /\ SC \in Nat \ {0} /\ SI \in Nat \ {0}
      BY WheelAssumption
    <3>2. 0..MaxDuration \subseteq Nat
      BY <3>1
    <3> QED
      BY <3>1, <3>2, Zenon
  <2>3. duration[h] \in Nat
    <3>1. 0 \in Nat
      OBVIOUS
    <3> QED
      BY <2>1, <2>2, <3>1, Zenon
  <2>4. sp \in Nat
    BY <2>1, <2>2 DEF Slots
  <2> QED
    BY <2>2, <2>3, <2>4
<1>2. Moves(duration[h]) + sp \in Nat
  <2>1. Moves(duration[h]) \in Nat
    BY <1>1 DEF Moves
  <2> QED
    BY <1>1, <2>1
<1>3. \A x \in Nat : x % SC \in 0..(SC - 1)
  BY <1>1
<1>4. Circles(duration[h]) \in Int
  <2>1. SC * SI \in Nat \ {0}
    BY <1>1
  <2> QED
    BY <1>1, <2>1 DEF Circles
<1> QED
  BY <1>2, <1>3, <1>4 DEF SlotOf, Slots

LEMMA WheelInit == Init => WheelIInv
<1> SUFFICES ASSUME Init
             PROVE  WheelIInv
  OBVIOUS
<1>1. SC \in Nat \ {0} /\ MaxResets \in Nat /\ 0 \in Slots
  BY WheelAssumption DEF Slots
<1>2. Types
  BY <1>1 DEF Init, Types, WheelPc, UserPc
<1>3. \A i \in Slots : DOMAIN slots[i] = {} /\ ToSet(slots[i]) = {}
  BY DEF Init, ToSet
<1>4. Locks
  BY WheelAssumption DEF Init, Locks, InSlot, AtWork
<1>5. Lists
  <2>1. \A i \in Slots : \A a, b \in DOMAIN slots[i] : slots[i][a] = slots[i][b] => a = b
    BY <1>3, Zenon
  <2>2. \A i, j \in Slots : \A h \in ToSet(slots[i]) : h \in ToSet(slots[j]) => i = j
    BY <1>3, Zenon
  <2> QED
    BY <2>1, <2>2 DEF Lists
<1>6. TimerInSlot /\ HandleInv /\ CursorInv
  <2>1. \A i \in Slots : \A h \in Handles : h \notin ToSet(slots[i])
    BY <1>3
  <2>2. wpc = "loop" /\ stopped = {} /\ \A h \in Handles : hpc[h] = "new"
    BY DEF Init
  <2>3. TimerInSlot
    BY <2>1 DEF TimerInSlot, Handles
  <2>4. HandleInv
    BY <2>1, <2>2 DEF HandleInv, Out, In, Handles
  <2>5. CursorInv
    BY <2>2 DEF CursorInv
  <2> QED
    BY <2>3, <2>4, <2>5
<1> QED
  BY <1>2, <1>4, <1>5, <1>6 DEF WheelIInv, TypeOK

\* The lists, one by one.
LEMMA ListType ==
  ASSUME Types, Lists, NEW i \in Slots
  PROVE  slots[i] \in Seq(Handles) /\ Distinct(slots[i])
BY DEF Types, Lists, Distinct

\* The front of a list, and what follows h in it, are elements of it.
LEMMA FrontIn ==
  ASSUME Types, NEW i \in Slots, NEW e \in Fronts(i)
  PROVE  e = None \/ (e \in ToSet(slots[i]) /\ e \in Handles)
<1>1. slots[i] \in Seq(Handles)
  BY DEF Types
<1>2. ToSet(slots[i]) \subseteq Handles
  BY <1>1, LenProperties DEF ToSet
<1>3. slots[i] # <<>> => Head(slots[i]) \in ToSet(slots[i])
  <2>1. slots[i] # <<>> => 1 \in DOMAIN slots[i] /\ Head(slots[i]) = slots[i][1]
    BY <1>1, HeadTailProperties, LenProperties, EmptySeq
  <2> QED
    BY <2>1 DEF ToSet
<1> QED
  BY <1>2, <1>3 DEF Fronts

LEMMA NextsIn ==
  ASSUME NEW i \in Slots, slots[i] \in Seq(Handles), Distinct(slots[i]),
         NEW h \in ToSet(slots[i]), NEW e \in Nexts(i, h)
  PROVE  e = None \/ e \in ToSet(slots[i]) \ {h}
BY NextIn DEF Nexts

-----------------------------------------------------------------------------
\* Two kinds of change of the lists.

\* A push puts h, which is in no list, into that of slot i.
Pushed(h, i) == slots' = [slots EXCEPT ![i] = Append(@, h)]

LEMMA PushedLists ==
  ASSUME Types, Lists, NEW h \in Handles, NEW i \in Slots, Out(h), Pushed(h, i)
  PROVE  /\ slots' \in [Slots -> Seq(Handles)]
         /\ Lists'
         /\ \A g \in Handles : \A j \in Slots :
               In(g, j)' <=> In(g, j) \/ (g = h /\ j = i)
<1>1. slots[i] \in Seq(Handles) /\ Distinct(slots[i]) /\ h \notin ToSet(slots[i])
  BY ListType DEF Out, In
<1>2. /\ slots'[i] = Append(slots[i], h)
      /\ \A j \in Slots : j # i => slots'[j] = slots[j]
  BY DEF Pushed, Types
<1>3. /\ slots'[i] \in Seq(Handles) /\ Distinct(slots'[i])
      /\ ToSet(slots'[i]) = ToSet(slots[i]) \cup {h}
  BY <1>1, <1>2, AppendList
<1>4. slots' \in [Slots -> Seq(Handles)]
  BY <1>2, <1>3 DEF Pushed, Types
<1>5. \A g \in Handles : \A j \in Slots : In(g, j)' <=> In(g, j) \/ (g = h /\ j = i)
  BY <1>2, <1>3 DEF In
<1>6. \A j \in Slots : Distinct(slots'[j])
  BY <1>2, <1>3, ListType
<1>7. \A j \in Slots : ToSet(slots'[j]) \subseteq Handles
  BY <1>4, LenProperties DEF ToSet
<1>8. \A j, k \in Slots : \A g \in ToSet(slots'[j]) : g \in ToSet(slots'[k]) => j = k
  BY <1>5, <1>7 DEF In, Lists, Out
<1> QED
  BY <1>4, <1>5, <1>6, <1>8 DEF Lists, Distinct

\* A removal takes h out of the list of slot i, if it is there.
Removed(h, i) == slots' = [slots EXCEPT ![i] = Without(@, h)]

LEMMA RemovedLists ==
  ASSUME Types, Lists, NEW h \in Handles, NEW i \in Slots, Removed(h, i)
  PROVE  /\ slots' \in [Slots -> Seq(Handles)]
         /\ Lists'
         /\ \A g \in Handles : \A j \in Slots :
               In(g, j)' <=> In(g, j) /\ ~(g = h /\ j = i)
<1>1. slots[i] \in Seq(Handles) /\ Distinct(slots[i])
  BY ListType
<1>2. /\ slots'[i] = Without(slots[i], h)
      /\ \A j \in Slots : j # i => slots'[j] = slots[j]
  BY DEF Removed, Types
<1>3. /\ slots'[i] \in Seq(Handles) /\ Distinct(slots'[i])
      /\ ToSet(slots'[i]) = ToSet(slots[i]) \ {h}
  BY <1>1, <1>2, WithoutList
<1>4. slots' \in [Slots -> Seq(Handles)]
  BY <1>2, <1>3 DEF Removed, Types
<1>5. \A g \in Handles : \A j \in Slots : In(g, j)' <=> In(g, j) /\ ~(g = h /\ j = i)
  BY <1>2, <1>3 DEF In
<1>6. \A j \in Slots : Distinct(slots'[j])
  BY <1>2, <1>3, ListType
<1>7. \A j \in Slots : ToSet(slots'[j]) \subseteq ToSet(slots[j])
  BY <1>2, <1>3
<1>8. \A j, k \in Slots : \A g \in ToSet(slots'[j]) : g \in ToSet(slots'[k]) => j = k
  BY <1>7 DEF Lists
<1> QED
  BY <1>4, <1>5, <1>6, <1>8 DEF Lists, Distinct

LEMMA SameLists ==
  ASSUME Types, Lists, UNCHANGED slots
  PROVE  /\ slots' \in [Slots -> Seq(Handles)]
         /\ Lists'
         /\ \A g \in Handles : \A j \in Slots : In(g, j)' <=> In(g, j)
BY DEF Types, Lists, In

-----------------------------------------------------------------------------
\* Types.

\* A timer that is being pushed is in no list, and the wheel's next timer is in
\* the one it has locked.
LEMMA PushPushed ==
  ASSUME WheelIInv, NEW h \in Handles, Push(h)
  PROVE  Out(h) /\ pos[h] \in Slots /\ Pushed(h, pos[h])
BY DEF WheelIInv, TypeOK, Types, HandleInv, Push, Pushed

LEMMA CursorIn ==
  ASSUME WheelIInv, wpc \in {"scan", "readd"}, cursor # None
  PROVE  cursor \in Handles /\ In(cursor, sp) /\ sp \in Slots /\ ~Out(cursor)
BY DEF WheelIInv, TypeOK, Types, CursorInv, Out

LEMMA CurrentOut ==
  ASSUME WheelIInv, wpc = "readd"
  PROVE  /\ current \in Tickers /\ current \in Handles /\ Out(current)
         /\ SlotOf(duration[current]) \in Slots
<1>1. current \in Tickers /\ current \in Handles /\ Out(current)
  BY DEF WheelIInv, TypeOK, Types, CursorInv, Handles
<1> QED
  BY <1>1, SlotOfIn DEF WheelIInv, TypeOK

\* What a step makes of the lists.
LEMMA SlotsStep ==
  ASSUME WheelIInv, [Next]_vars
  PROVE  slots' \in [Slots -> Seq(Handles)] /\ Lists'
<1> DEFINE Goal == slots' \in [Slots -> Seq(Handles)] /\ Lists'
<1>0. Types /\ Lists
  BY DEF WheelIInv, TypeOK
<1>1. ASSUME UNCHANGED slots PROVE Goal
  BY <1>0, <1>1, SameLists
<1>2. ASSUME NEW h \in Handles, Push(h) PROVE Goal
  BY <1>0, <1>2, PushPushed, PushedLists
<1>3. ASSUME NEW h \in Handles, SlotRemove(h) PROVE Goal
  <2>1. Removed(h, target[h]) /\ target[h] \in Slots
    BY <1>0, <1>3 DEF SlotRemove, Removed, Types
  <2> QED
    BY <1>0, <2>1, RemovedLists
<1>4. ASSUME WheelFire PROVE Goal
  <2>1. Removed(cursor, sp) /\ cursor \in Handles /\ sp \in Slots
    BY <1>4, CursorIn DEF WheelFire, Removed
  <2> QED
    BY <1>0, <2>1, RemovedLists
<1>5. ASSUME WheelReAdd PROVE Goal
  <2>1. Pushed(current, SlotOf(duration[current]))
    BY <1>5 DEF WheelReAdd, Pushed
  <2> QED
    BY <1>0, <1>5, <2>1, CurrentOut, PushedLists DEF WheelReAdd
<1>6. ASSUME NEW h \in Handles,
             \/ Set(h) \/ Stop(h) \/ Reset(h) \/ Add(h) \/ PushLock(h) \/ PushCrash(h)
             \/ RemoveLock(h)
      PROVE  Goal
  BY <1>1, <1>6 DEF Set, Stop, Reset, Add, PushLock, PushCrash, RemoveLock
<1>7. ASSUME \/ WheelLoop \/ WheelLock \/ WheelSkip \/ WheelCrash \/ WheelUnlock
             \/ WheelAdvance \/ Shutdown \/ UNCHANGED vars
      PROVE  Goal
  BY <1>1, <1>7 DEF WheelLoop, WheelLock, WheelSkip, WheelCrash, WheelUnlock,
                    WheelAdvance, Shutdown, vars
<1> QED
  BY <1>2, <1>3, <1>4, <1>5, <1>6, <1>7 DEF Next, UserStep, WheelStep

\* Moves of sp and the counts of the history stay in their ranges.
LEMMA CountTypes ==
  ASSUME SC \in Nat \ {0}, MaxMoves \in Nat
  PROVE  /\ \A w \in 0..(MaxMoves + SC) : Capped(w + 1) \in 0..(MaxMoves + SC)
         /\ 0 \in 0..(MaxMoves + SC)
         /\ \A s \in Slots : (s + 1) % SC \in Slots
         /\ \A c \in 0..2 : (IF c < 2 THEN c + 1 ELSE 2) \in 0..2
<1>1. \A w \in 0..(MaxMoves + SC) : Capped(w + 1) \in 0..(MaxMoves + SC)
  BY DEF Capped
<1>2. \A s \in Slots : (s + 1) % SC \in Slots
  <2>1. \A x \in Nat : x % SC \in 0..(SC - 1)
    OBVIOUS
  <2> QED
    BY <2>1 DEF Slots
<1> QED
  BY <1>1, <1>2

LEMMA TypesStep ==
  ASSUME WheelIInv, [Next]_vars
  PROVE  Types'
<1>0. Types /\ slots' \in [Slots -> Seq(Handles)]
  BY SlotsStep DEF WheelIInv, TypeOK
<1>a. SC \in Nat \ {0} /\ MaxMoves \in Nat /\ 0 \in 0..2
  BY WheelAssumption DEF MaxMoves, Moves
<1> USE DEF Types, WheelPc, UserPc, wheelVars, userVars, historyVars
<1>1. ASSUME NEW h \in Handles, Set(h) PROVE Types'
  <2>1. PICK d \in Durations : duration' = [duration EXCEPT ![h] = d]
    BY <1>1 DEF Set
  <2>2. hpc' = [hpc EXCEPT ![h] = "add"]
    BY <1>1 DEF Set
  <2>3. UNCHANGED <<damaged, lock, stop, n, pos, target, resetting, resets, wheelVars,
                    historyVars>>
    BY <1>1 DEF Set
  <2> QED
    BY <1>0, <2>1, <2>2, <2>3
<1>2. ASSUME NEW h \in Handles, Add(h) PROVE Types'
  <2>1. SlotOf(duration[h]) \in Slots /\ Circles(duration[h]) \in Int
    BY <1>0, SlotOfIn
  <2>2. 0 \in 0..(MaxMoves + SC)
    BY <1>a, CountTypes
  <2>3. CASE stop
    BY <1>0, <1>2, <2>3 DEF Add
  <2>4. CASE ~stop
    <3>1. n' \in [Handles -> Int] /\ pos' \in [Handles -> Slots]
      <4>1. n \in [Handles -> Int] /\ pos \in [Handles -> Slots]
        BY <1>0
      <4> QED
        BY <1>2, <2>1, <2>4, <4>1 DEF Add
    <3>2. waited' \in [Handles -> 0..(MaxMoves + SC)]
      <4> DEFINE Counts == 0..(MaxMoves + SC)
      <4>1. waited \in [Handles -> Counts] /\ 0 \in Counts
        BY <1>0, <2>2
      <4> HIDE DEF Counts
      <4>2. waited' \in [Handles -> Counts]
        BY <1>2, <2>4, <4>1 DEF Add
      <4> QED
        BY <4>2 DEF Counts
    <3>3. calls' \in [Handles -> 0..2] /\ hpc' \in [Handles -> UserPc]
      <4>1. calls \in [Handles -> 0..2] /\ hpc \in [Handles -> UserPc]
        BY <1>0
      <4> QED
        BY <1>2, <1>a, <2>4, <4>1 DEF Add
    <3>4. UNCHANGED <<damaged, lock, stop, duration, stopped, target, resetting,
                      resets, wheelVars>>
      BY <1>2 DEF Add
    <3> QED
      BY <1>0, <3>1, <3>2, <3>3, <3>4
  <2> QED
    BY <2>3, <2>4
<1>3. ASSUME NEW h \in Handles, PushLock(h) PROVE Types'
  BY <1>0, <1>3 DEF PushLock
<1>4. ASSUME NEW h \in Handles, Push(h) PROVE Types'
  BY <1>0, <1>4 DEF Push
<1>5. ASSUME NEW h \in Handles, Stop(h) PROVE Types'
  BY <1>0, <1>5 DEF Stop
<1>6. ASSUME NEW h \in Handles, Reset(h) PROVE Types'
  <2>1. resets + 1 \in 0..MaxResets
    BY <1>0, <1>6, WheelAssumption DEF Reset
  <2> QED
    BY <1>0, <1>6, <2>1 DEF Reset
<1>7. ASSUME NEW h \in Handles, RemoveLock(h) PROVE Types'
  BY <1>0, <1>7 DEF RemoveLock
<1>8. ASSUME NEW h \in Handles, SlotRemove(h) PROVE Types'
  <2>1. lock' \in [Slots -> Handles \cup {Wheel, None}]
    <3>1. lock \in [Slots -> Handles \cup {Wheel, None}]
      BY <1>0
    <3> QED
      BY <1>8, <3>1 DEF SlotRemove
  <2>2. hpc' \in [Handles -> UserPc] /\ stopped' \subseteq Handles
    <3>1. hpc \in [Handles -> UserPc] /\ stopped \subseteq Handles
      BY <1>0
    <3> QED
      BY <1>8, <3>1 DEF SlotRemove
  <2>3. duration' \in [Handles -> Durations \cup {0}]
    <3>1. duration \in [Handles -> Durations \cup {0}]
      BY <1>0
    <3> QED
      BY <1>8, <3>1 DEF SlotRemove
  <2>4. UNCHANGED <<damaged, stop, n, pos, target, resetting, resets, wheelVars, waited,
                    calls>>
    BY <1>8 DEF SlotRemove
  <2> QED
    BY <1>0, <2>1, <2>2, <2>3, <2>4
<1>9. CASE Shutdown
  BY <1>0, <1>9 DEF Shutdown
<1>10. CASE WheelLoop
  BY <1>0, <1>10 DEF WheelLoop
<1>11. CASE WheelLock
  <2>1. cursor' \in Handles \cup {None} /\ wpc' \in WheelPc
    BY <1>0, <1>11, FrontIn DEF WheelLock
  <2>2. lock' \in [Slots -> Handles \cup {Wheel, None}]
    BY <1>0, <1>11 DEF WheelLock
  <2>3. UNCHANGED <<damaged, stop, duration, n, pos, sp, current, userVars, historyVars>>
    BY <1>11 DEF WheelLock
  <2> QED
    BY <1>0, <2>1, <2>2, <2>3
<1>12. CASE WheelSkip
  <2>1. n' \in [Handles -> Int]
    <3>1. n \in [Handles -> Int] /\ cursor \in Handles
      BY <1>0, <1>12 DEF WheelSkip
    <3> QED
      BY <1>12, <3>1 DEF WheelSkip
  <2>2. cursor' \in Handles \cup {None} /\ wpc' \in WheelPc
    BY <1>12 DEF WheelSkip
  <2>3. UNCHANGED <<damaged, lock, stop, duration, pos, sp, current, userVars,
                    historyVars>>
    BY <1>12 DEF WheelSkip
  <2> QED
    BY <1>0, <2>1, <2>2, <2>3
<1>13. CASE WheelFire
  <2>1. cursor' \in Handles \cup {None}
    <3>1. cursor \in ToSet(slots[sp]) /\ Distinct(slots[sp]) /\ slots[sp] \in Seq(Handles)
      BY <1>13, CursorIn, ListType DEF WheelFire, WheelIInv, TypeOK, In
    <3>2. ToSet(slots[sp]) \subseteq Handles
      BY <3>1, LenProperties DEF ToSet
    <3> QED
      BY <1>0, <1>13, <3>1, <3>2, NextsIn DEF WheelFire
  <2>2. cursor \in Handles
    BY <1>13, CursorIn DEF WheelFire
  <2>3. n' \in [Handles -> Int]
    BY <1>0, <1>13, <2>2 DEF WheelFire
  <2>4. calls' \in [Handles -> 0..2]
    BY <1>0, <1>13, <1>a, <2>2, CountTypes DEF WheelFire
  <2>5. current' \in Tickers \cup {None} /\ wpc' \in WheelPc
    BY <1>0, <1>13 DEF WheelFire
  <2>6. UNCHANGED <<damaged, lock, stop, duration, pos, sp, userVars, waited, stopped>>
    BY <1>13 DEF WheelFire
  <2> QED
    BY <1>0, <2>1, <2>3, <2>4, <2>5, <2>6
<1>14. CASE WheelReAdd
  <2>1. current \in Handles /\ SlotOf(duration[current]) \in Slots
        /\ Circles(duration[current]) \in Int
    BY <1>0, <1>14, CurrentOut, SlotOfIn DEF WheelReAdd
  <2>3. damaged' \subseteq Slots
    BY <1>0, <1>14, <2>1 DEF WheelReAdd
  <2>4. /\ n' \in [Handles -> Int] /\ pos' \in [Handles -> Slots]
        /\ waited' \in [Handles -> 0..(MaxMoves + SC)] /\ calls' \in [Handles -> 0..2]
    BY <1>0, <1>14, <1>a, <2>1, CountTypes DEF WheelReAdd
  <2>5. /\ wpc' \in WheelPc /\ current' \in Tickers \cup {None}
        /\ UNCHANGED <<lock, stop, duration, sp, cursor, userVars, stopped>>
    BY <1>14 DEF WheelReAdd
  <2> QED
    BY <1>0, <2>3, <2>4, <2>5
<1>15. CASE WheelCrash
  BY <1>0, <1>15 DEF WheelCrash
<1>16. CASE WheelUnlock
  BY <1>0, <1>16 DEF WheelUnlock
<1>17. CASE WheelAdvance
  <2>1. sp' \in Slots
    BY <1>0, <1>17, <1>a, CountTypes DEF WheelAdvance
  <2>2. waited' \in [Handles -> 0..(MaxMoves + SC)]
    BY <1>0, <1>17, <1>a, CountTypes DEF WheelAdvance
  <2> QED
    BY <1>0, <1>17, <2>1, <2>2 DEF WheelAdvance
<1>18. CASE UNCHANGED vars
  BY <1>0, <1>18 DEF vars
<1>19. ASSUME NEW h \in Handles, PushCrash(h) PROVE Types'
  BY <1>0, <1>19 DEF PushCrash
<1> QED
  BY <1>1, <1>2, <1>3, <1>4, <1>5, <1>6, <1>7, <1>8, <1>9, <1>10, <1>11, <1>12,
     <1>13, <1>14, <1>15, <1>16, <1>17, <1>18, <1>19 DEF Next, UserStep, WheelStep

-----------------------------------------------------------------------------
\* Mutexes.

LEMMA LocksStep ==
  ASSUME WheelIInv, [Next]_vars
  PROVE  Locks'
<1>0. /\ Locks
      /\ sp \in Slots /\ lock \in [Slots -> Handles \cup {Wheel, None}]
      /\ hpc \in [Handles -> UserPc] /\ pos \in [Handles -> Slots]
      /\ target \in [Handles -> Slots]
  BY DEF WheelIInv, TypeOK, Types
<1>a. Wheel \notin Handles /\ None \notin Handles /\ None # Wheel
  BY WheelAssumption
<1> USE DEF Locks, InSlot, AtWork, wheelVars, userVars, historyVars
<1>1. ASSUME NEW h \in Handles, Set(h) PROVE Locks'
  BY <1>0, <1>1 DEF Set
<1>2. ASSUME NEW h \in Handles, Add(h) PROVE Locks'
  BY <1>0, <1>2 DEF Add
<1>3. ASSUME NEW h \in Handles, PushLock(h) PROVE Locks'
  BY <1>0, <1>a, <1>3 DEF PushLock
<1>4. ASSUME NEW h \in Handles, Push(h) PROVE Locks'
  BY <1>0, <1>a, <1>4 DEF Push
<1>5. ASSUME NEW h \in Handles, Stop(h) PROVE Locks'
  BY <1>0, <1>5 DEF Stop
<1>6. ASSUME NEW h \in Handles, Reset(h) PROVE Locks'
  BY <1>0, <1>6 DEF Reset
<1>7. ASSUME NEW h \in Handles, RemoveLock(h) PROVE Locks'
  BY <1>0, <1>a, <1>7 DEF RemoveLock
<1>8. ASSUME NEW h \in Handles, SlotRemove(h) PROVE Locks'
  BY <1>0, <1>a, <1>8 DEF SlotRemove
<1>9. CASE Shutdown
  BY <1>0, <1>9 DEF Shutdown
<1>10. CASE WheelLoop
  BY <1>0, <1>10 DEF WheelLoop
<1>11. CASE WheelLock
  BY <1>0, <1>a, <1>11 DEF WheelLock
<1>12. CASE WheelSkip
  BY <1>0, <1>12 DEF WheelSkip
<1>13. CASE WheelFire
  BY <1>0, <1>13 DEF WheelFire
<1>14. CASE WheelReAdd
  <2>1. hpc[current] \notin {"pushing", "crashed"}
    BY <1>14 DEF WheelReAdd, WheelIInv, CursorInv
  <2>2. \A h \in Handles : hpc[h] \in {"pushing", "crashed"} => pos'[h] = pos[h]
    BY <1>0, <1>14, <2>1 DEF WheelReAdd
  <2>3. UNCHANGED <<lock, sp, hpc, target>> /\ InSlot /\ InSlot'
    BY <1>14 DEF WheelReAdd
  <2> QED
    BY <1>0, <2>2, <2>3
<1>15. CASE WheelCrash
  BY <1>0, <1>15 DEF WheelCrash
<1>16. CASE WheelUnlock
  <2>1. UNCHANGED <<sp, hpc, pos, target>> /\ ~InSlot'
    BY <1>16 DEF WheelUnlock
  <2>2. lock' = [lock EXCEPT ![sp] = None]
    BY <1>16 DEF WheelUnlock
  <2>3. CASE wpc \in {"scan", "unlock"} /\ lock[sp] = Wheel
    BY <1>0, <1>a, <2>1, <2>2, <2>3
  <2> QED
    BY <1>0, <1>16, <2>3 DEF WheelUnlock
<1>17. CASE WheelAdvance
  BY <1>0, <1>17 DEF WheelAdvance
<1>18. CASE UNCHANGED vars
  BY <1>0, <1>18 DEF vars
<1>19. ASSUME NEW h \in Handles, PushCrash(h) PROVE Locks'
  BY <1>0, <1>19 DEF PushCrash
<1> QED
  BY <1>1, <1>2, <1>3, <1>4, <1>5, <1>6, <1>7, <1>8, <1>9, <1>10, <1>11, <1>12,
     <1>13, <1>14, <1>15, <1>16, <1>17, <1>18, <1>19 DEF Next, UserStep, WheelStep

-----------------------------------------------------------------------------
\* Handles, lists and the wheel.

RestInv == TimerInSlot /\ HandleInv /\ CursorInv

\* The parts of the invariant with the lists as In and Out.
LEMMA RestForm ==
  RestInv <=>
    /\ \A h \in Timers : \A i \in Slots :
          hpc[h] \in {"set", "remove", "removing"} /\ In(h, i)
              => i = pos[h] /\ calls[h] = 0 /\ h \notin stopped
    /\ HandleInv /\ CursorInv
BY DEF RestInv, TimerInSlot, In

LEMMA RestFormNext ==
  RestInv' <=>
    /\ \A h \in Timers : \A i \in Slots :
          hpc'[h] \in {"set", "remove", "removing"} /\ In(h, i)'
              => i = pos'[h] /\ calls'[h] = 0 /\ h \notin stopped'
    /\ HandleInv' /\ CursorInv'
BY DEF RestInv, TimerInSlot, In

LEMMA RestStep ==
  ASSUME WheelIInv, [Next]_vars
  PROVE  RestInv'
<1> DEFINE Same == \A g \in Handles : \A j \in Slots : In(g, j)' <=> In(g, j)
<1>0. /\ Types /\ Locks /\ Lists /\ HandleInv /\ CursorInv
      /\ \A h \in Timers : \A i \in Slots :
          hpc[h] \in {"set", "remove", "removing"} /\ In(h, i)
              => i = pos[h] /\ calls[h] = 0 /\ h \notin stopped
  BY RestForm DEF WheelIInv, TypeOK, RestInv
<1>a. Wheel \notin Handles /\ None \notin Handles /\ None # Wheel
  BY WheelAssumption
<1>b. /\ Timers \subseteq Handles /\ Tickers \subseteq Handles
      /\ Timers \cap Tickers = {}
  BY WheelAssumption DEF Handles
<1>c. /\ sp \in Slots /\ resetting \subseteq Timers /\ wpc \in WheelPc
      /\ current \in Tickers \cup {None} /\ cursor \in Handles \cup {None}
      /\ hpc \in [Handles -> UserPc] /\ pos \in [Handles -> Slots]
      /\ target \in [Handles -> Slots] /\ calls \in [Handles -> 0..2]
  BY <1>0 DEF Types
<1>d. ASSUME UNCHANGED slots PROVE Same
  BY <1>0, <1>d, SameLists
<1> DEFINE TimerPart ==
              \A h \in Timers : \A i \in Slots :
                hpc'[h] \in {"set", "remove", "removing"} /\ In(h, i)'
                    => i = pos'[h] /\ calls'[h] = 0 /\ h \notin stopped'
<1>e. TimerPart /\ HandleInv' /\ CursorInv' => RestInv'
  BY RestFormNext
<1> HIDE DEF TimerPart
<1> USE DEF HandleInv, CursorInv, Out, wheelVars, userVars, historyVars
<1>1. ASSUME NEW h \in Handles, Set(h) PROVE RestInv'
  <2>1. Same
    BY <1>1, <1>d DEF Set
  <2>2. TimerPart
    BY <1>0, <1>1, <1>b, <1>c, <2>1 DEF Set, TimerPart
  <2>3. HandleInv'
    BY <1>0, <1>1, <1>b, <1>c, <2>1 DEF Set
  <2>4. CursorInv'
    BY <1>0, <1>1, <1>b, <1>c, <2>1 DEF Set
  <2> QED
    BY <1>e, <2>2, <2>3, <2>4
<1>2. ASSUME NEW h \in Handles, Add(h) PROVE RestInv'
  <2>1. Same
    BY <1>2, <1>d DEF Add
  <2>2. TimerPart
    BY <1>0, <1>2, <1>b, <1>c, <2>1 DEF Add, TimerPart
  <2>3. HandleInv'
    BY <1>0, <1>2, <1>b, <1>c, <2>1 DEF Add
  <2>4. CursorInv'
    BY <1>0, <1>2, <1>b, <1>c, <2>1 DEF Add
  <2> QED
    BY <1>e, <2>2, <2>3, <2>4
<1>3. ASSUME NEW h \in Handles, PushLock(h) \/ PushCrash(h) \/ RemoveLock(h)
      PROVE  RestInv'
  <2>1. Same
    BY <1>3, <1>d DEF PushLock, PushCrash, RemoveLock
  <2>2. TimerPart
    BY <1>0, <1>3, <1>b, <1>c, <2>1 DEF PushLock, PushCrash, RemoveLock, TimerPart
  <2>3. HandleInv'
    BY <1>0, <1>3, <1>b, <1>c, <2>1 DEF PushLock, PushCrash, RemoveLock
  <2>4. CursorInv'
    BY <1>0, <1>3, <1>b, <1>c, <2>1 DEF PushLock, PushCrash, RemoveLock
  <2> QED
    BY <1>e, <2>2, <2>3, <2>4
<1>4. ASSUME NEW h \in Handles, Stop(h) \/ Reset(h) PROVE RestInv'
  <2>1. Same
    BY <1>4, <1>d DEF Stop, Reset
  <2>2. TimerPart
    BY <1>0, <1>4, <1>b, <1>c, <2>1 DEF Stop, Reset, TimerPart
  <2>3. HandleInv'
    BY <1>0, <1>4, <1>b, <1>c, <2>1 DEF Stop, Reset
  <2>4. CursorInv'
    BY <1>0, <1>4, <1>b, <1>c, <2>1 DEF Stop, Reset
  <2> QED
    BY <1>e, <2>2, <2>3, <2>4
<1>5. ASSUME NEW h \in Handles, Push(h) PROVE RestInv'
  <2>1. /\ Out(h) /\ hpc[h] = "pushing" /\ hpc' = [hpc EXCEPT ![h] = "set"]
        /\ UNCHANGED <<pos, target, calls, stopped, wheelVars>>
    BY <1>5, PushPushed DEF Push
  <2>2. \A g \in Handles : \A j \in Slots :
            /\ In(g, j)' => In(g, j) \/ (g = h /\ j = pos[h])
            /\ In(g, j) => In(g, j)'
    BY <1>0, <1>5, PushPushed, PushedLists
  <2> HIDE DEF Out
  <2>3. TimerPart
    BY <1>0, <1>b, <1>c, <2>1, <2>2 DEF TimerPart, Out
  <2>4. HandleInv'
    BY <1>0, <1>b, <1>c, <2>1, <2>2 DEF Out
  <2>5. CursorInv'
    BY <1>0, <1>b, <1>c, <2>1, <2>2 DEF Out
  <2> QED
    BY <1>e, <2>3, <2>4, <2>5
<1>6. ASSUME NEW h \in Handles, SlotRemove(h) PROVE RestInv'
  <2>1. /\ hpc[h] = "removing" /\ UNCHANGED <<pos, target, calls, wheelVars>>
        /\ \/ h \in Timers /\ hpc' = [hpc EXCEPT ![h] = "add"] /\ stopped' = stopped
           \/ hpc' = [hpc EXCEPT ![h] = "set"] /\ stopped' = stopped \cup {h}
    BY <1>6, <1>c DEF SlotRemove
  <2>2. \A g \in Handles : \A j \in Slots :
            In(g, j)' <=> In(g, j) /\ ~(g = h /\ j = target[h])
    BY <1>0, <1>6, <1>c, RemovedLists DEF SlotRemove, Removed
  <2>3. h \in Timers => Out(h)'
    BY <1>0, <1>b, <1>c, <2>1, <2>2
  <2>4. TimerPart
    BY <1>0, <1>b, <1>c, <2>1, <2>2, <2>3 DEF TimerPart
  <2>5. HandleInv'
    BY <1>0, <1>b, <1>c, <2>1, <2>2, <2>3
  <2>6. wpc \in {"scan", "readd"} => target[h] # sp
    BY <1>0, <1>a, <1>c, <2>1 DEF Locks, InSlot, AtWork
  <2>7. CursorInv'
    BY <1>0, <1>b, <1>c, <2>1, <2>2, <2>6
  <2> QED
    BY <1>e, <2>4, <2>5, <2>7
<1>7. ASSUME Shutdown \/ WheelLoop \/ WheelSkip \/ WheelCrash \/ WheelUnlock
             \/ WheelAdvance \/ UNCHANGED vars
      PROVE  RestInv'
  <2>1. UNCHANGED <<slots, hpc, target, pos, calls, stopped>> /\ Same
    BY <1>7, <1>d DEF Shutdown, WheelLoop, WheelSkip, WheelCrash, WheelUnlock,
                      WheelAdvance, vars
  <2>2. TimerPart /\ HandleInv'
    BY <1>0, <1>b, <2>1 DEF TimerPart
  <2>3. \/ wpc' \notin {"scan", "readd"}
        \/ UNCHANGED <<wpc, cursor, current, sp>>
    BY <1>7 DEF Shutdown, WheelLoop, WheelSkip, WheelCrash, WheelUnlock,
                WheelAdvance, vars
  <2>4. CursorInv'
    BY <1>0, <1>b, <1>c, <2>1, <2>3
  <2> QED
    BY <1>e, <2>2, <2>4
<1>8. CASE WheelLock
  <2>1. UNCHANGED <<slots, hpc, target, pos, calls, stopped, sp>> /\ Same
    BY <1>8, <1>d DEF WheelLock
  <2>2. TimerPart /\ HandleInv'
    BY <1>0, <1>b, <2>1 DEF TimerPart
  <2>3. wpc' = "scan" => cursor' \in ToSet(slots[sp])
    BY <1>0, <1>8, <1>c, FrontIn DEF WheelLock
  <2>4. CursorInv'
    BY <1>8, <2>1, <2>3 DEF WheelLock, In
  <2> QED
    BY <1>e, <2>2, <2>4
<1>9. CASE WheelFire
  <2>1. /\ wpc = "scan" /\ cursor \in Handles /\ In(cursor, sp) /\ ~Out(cursor)
        /\ UNCHANGED <<hpc, target, pos, stopped, sp>>
        /\ \A g \in Handles : g # cursor => calls'[g] = calls[g]
    BY <1>9, <1>c, CursorIn DEF WheelFire
  <2>2. \A g \in Handles : \A j \in Slots :
            g \in ToSet(slots'[j]) <=> In(g, j) /\ ~(g = cursor /\ j = sp)
    BY <1>0, <1>9, <1>c, <2>1, RemovedLists DEF WheelFire, Removed, In
  <2>3. \A j \in Slots : In(cursor, j) => j = sp
    BY <1>0, <1>c, <2>1 DEF Lists, In
  <2>4. /\ \A j \in Slots : cursor \notin ToSet(slots'[j])
        /\ hpc[cursor] \in {"set", "remove", "removing"}
    <3>1. \A j \in Slots : cursor \notin ToSet(slots'[j])
      BY <2>1, <2>2, <2>3
    <3>2. hpc[cursor] \in UserPc
      BY <1>c, <2>1
    <3>3. hpc[cursor] \notin {"new", "add", "push", "pushing", "panic", "crashed"}
      BY <1>0, <2>1
    <3> QED
      BY <3>1, <3>2, <3>3 DEF UserPc
  <2>5. TimerPart
    BY <1>0, <1>b, <1>c, <2>1, <2>2, <2>4 DEF TimerPart, In
  <2>6. HandleInv'
    BY <1>0, <1>b, <1>c, <2>1, <2>2, <2>4 DEF In
  <2>7. \/ cursor' = None
        \/ cursor' \in Handles /\ cursor' \in ToSet(slots[sp]) /\ cursor' # cursor
    <3>1. /\ slots[sp] \in Seq(Handles) /\ Distinct(slots[sp])
          /\ cursor \in ToSet(slots[sp])
      BY <1>0, <1>c, <2>1, ListType DEF In
    <3>2. ToSet(slots[sp]) \subseteq Handles
      BY <3>1, LenProperties DEF ToSet
    <3>3. cursor' \in Nexts(sp, cursor)
      BY <1>9 DEF WheelFire
    <3>4. cursor' = None \/ cursor' \in ToSet(slots[sp]) \ {cursor}
      BY <1>c, <3>1, <3>3, NextsIn
    <3> QED
      BY <3>2, <3>4 DEF In
  <2>8. cursor' # None => cursor' \in ToSet(slots'[sp'])
    <3>1. ASSUME NEW g \in Handles, g # cursor, g \in ToSet(slots[sp])
          PROVE  g \in ToSet(slots'[sp])
      BY <1>c, <2>2, <3>1 DEF In
    <3> QED
      BY <2>1, <2>7, <3>1
  <2>9. wpc' = "readd" => current' = cursor
    BY <1>9, <2>1 DEF WheelFire
  <2>10. CursorInv'
    <3>1. wpc' = "readd" => /\ current' # None
                            /\ \A j \in Slots : current' \notin ToSet(slots'[j])
                            /\ hpc'[current'] \in {"set", "remove", "removing"}
      BY <1>a, <2>1, <2>4, <2>9
    <3> QED
      BY <2>8, <3>1 DEF In
  <2> QED
    BY <1>e, <2>5, <2>6, <2>10
<1>10. CASE WheelReAdd
  <2> DEFINE s == SlotOf(duration[current])
  <2>1. /\ current \in Tickers /\ Out(current) /\ s \in Slots /\ wpc = "readd"
        /\ hpc[current] \in {"set", "remove", "removing"}
    BY <1>0, <1>10, CurrentOut DEF WheelReAdd
  <2>2. /\ UNCHANGED <<hpc, target, stopped, sp, cursor>> /\ wpc' = "scan"
        /\ \A g \in Timers : calls'[g] = calls[g] /\ pos'[g] = pos[g]
    BY <1>10, <1>b, <1>c, <2>1 DEF WheelReAdd
  <2>3. Pushed(current, s)
    BY <1>10 DEF WheelReAdd, Pushed
  <2> HIDE DEF s
  <2>4. \A g \in Handles : \A j \in Slots :
            /\ g \in ToSet(slots'[j]) => In(g, j) \/ g = current
            /\ In(g, j) => g \in ToSet(slots'[j])
    BY <1>0, <1>b, <2>1, <2>3, PushedLists DEF In
  <2>5. TimerPart
    BY <1>0, <1>b, <1>c, <2>1, <2>2, <2>4 DEF TimerPart, In
  <2>6. HandleInv'
    BY <1>0, <1>b, <1>c, <2>1, <2>2, <2>4 DEF In
  <2>7. CursorInv'
    <3>1. cursor # None => cursor \in ToSet(slots'[sp])
      BY <1>0, <1>c, <2>1, <2>4
    <3> QED
      BY <2>2, <3>1 DEF In
  <2> QED
    BY <1>e, <2>5, <2>6, <2>7
<1> QED
  BY <1>1, <1>2, <1>3, <1>4, <1>5, <1>6, <1>7, <1>8, <1>9, <1>10
     DEF Next, UserStep, WheelStep

-----------------------------------------------------------------------------
\* The theorems.

LEMMA WheelInductive == Spec => []WheelIInv
<1>1. WheelIInv /\ [Next]_vars => WheelIInv'
  BY SlotsStep, TypesStep, LocksStep, RestStep DEF WheelIInv, TypeOK, RestInv
<1> QED
  BY <1>1, WheelInit, PTL DEF Spec

\* Mutexes exclude, no list is damaged by a race, and a one-shot timer is where
\* Stop and Reset look for it, although tick, add and remove share no lock.
THEOREM WheelCorrect == Spec => []WheelInv
<1>1. WheelIInv => WheelInv
  BY DEF WheelIInv, WheelInv
<1> QED
  BY <1>1, WheelInductive, PTL

\* When Stop of a one-shot timer has returned its callback is not called.
THEOREM SilenceCorrect == Spec => TimerStopSilences
<1>1. ASSUME WheelIInv, [Next]_vars, NEW h \in Timers \cap stopped
      PROVE  calls'[h] = calls[h]
  <2>1. /\ calls \in [Handles -> 0..2] /\ h \in Handles /\ h \notin Tickers
        /\ current \in Tickers \cup {None} /\ hpc[h] = "set"
    BY <1>1, WheelAssumption DEF WheelIInv, TypeOK, Types, Handles, HandleInv
  <2>2. ASSUME NEW g \in Handles, Add(g) PROVE calls'[h] = calls[h]
    BY <2>1, <2>2 DEF Add
  <2>3. CASE WheelFire
    <3>1. cursor \in Handles /\ In(cursor, sp) /\ sp \in Slots
      BY <1>1, <2>3, CursorIn DEF WheelFire
    <3>2. cursor # h
      BY <1>1, <2>1, <3>1 DEF WheelIInv, TimerInSlot, In
    <3> QED
      BY <2>1, <2>3, <3>1, <3>2 DEF WheelFire
  <2>4. CASE WheelReAdd
    <3>1. current # h
      BY <1>1, <2>1, <2>4, CurrentOut DEF WheelReAdd
    <3> QED
      BY <2>1, <2>4, <3>1 DEF WheelReAdd
  <2>5. ASSUME NEW g \in Handles,
               \/ Set(g) \/ Stop(g) \/ Reset(g) \/ PushLock(g) \/ Push(g)
               \/ PushCrash(g) \/ RemoveLock(g) \/ SlotRemove(g)
        PROVE  calls' = calls
    BY <2>5 DEF Set, Stop, Reset, PushLock, Push, PushCrash, RemoveLock, SlotRemove,
                historyVars
  <2>6. ASSUME \/ Shutdown \/ WheelLoop \/ WheelLock \/ WheelSkip \/ WheelCrash
               \/ WheelUnlock \/ WheelAdvance \/ UNCHANGED vars
        PROVE  calls' = calls
    BY <2>6 DEF Shutdown, WheelLoop, WheelLock, WheelSkip, WheelCrash, WheelUnlock,
                WheelAdvance, vars, historyVars
  <2> QED
    BY <1>1, <2>2, <2>3, <2>4, <2>5, <2>6 DEF Next, UserStep, WheelStep
<1>2. WheelIInv /\ [Next]_vars
      => [\A h \in Timers \cap stopped : calls'[h] = calls[h]]_vars
  BY <1>1
<1> QED
  BY <1>2, WheelInductive, PTL DEF Spec, TimerStopSilences

-----------------------------------------------------------------------------
\* Callbacks on time.

\* Moves of sp until the wheel next passes the slot of h.
Gap(h) ==
    IF pos[h] > sp THEN pos[h] - sp
    ELSE IF pos[h] < sp THEN pos[h] - sp + SC
    ELSE IF wpc \in {"unlock", "advance"} THEN SC ELSE 0

\* sp is as far from the slot of h as the duration says, and with its circles to
\* go h is not called back before that many moves.
Timed(h) ==
    /\ n[h] \in Nat
    /\ \E q \in Int : pos[h] + waited[h] = Moves(duration[h]) + sp + q * SC
    /\ waited[h] + Gap(h) + n[h] * SC >= Moves(duration[h])

\* A handle is only in the list of the slot that its pos names.
PlaceInv == \A h \in Handles : \A i \in Slots : In(h, i) => pos[h] = i

TimeInv == PlaceInv /\ \A h \in Handles : Pending(h) => Timed(h)

\* The slot and the circles of an add of d while sp is s.
LEMMA AddMath ==
  ASSUME NEW m \in Nat \ {0}, NEW d \in Nat, NEW s \in 0..m - 1
  PROVE  /\ (d + s) % m \in 0..m - 1 /\ d \div m \in Nat
         /\ \E q \in Int : (d + s) % m = d + s + q * m
         /\ (d + s) % m > s => ((d + s) % m) - s + (d \div m) * m >= d
         /\ (d + s) % m < s => ((d + s) % m) - s + m + (d \div m) * m >= d
         /\ (d + s) % m = s => (d \div m) * m >= d
<1> DEFINE p == (d + s) % m
           k == (d + s) \div m
           c == d \div m
           e == d % m
<1>1. p \in 0..m - 1 /\ e \in 0..m - 1 /\ k \in Nat /\ c \in Nat
  OBVIOUS
<1>2. d = m * c + e /\ d + s = m * k + p
  OBVIOUS
<1> HIDE DEF p, k, c, e
<1>3. m * k \in Int /\ m * c \in Int /\ m * (k - c) = m * k - m * c
  BY <1>1
<1>4. m * (k - c) = e + s - p
  BY <1>1, <1>2, <1>3
<1>5. k - c \in {0, 1}
  <2>1. CASE k - c <= -1
    <3>1. m * (k - c) <= m * (-1)
      BY <1>1, <2>1
    <3> QED
      BY <1>1, <1>4, <3>1
  <2>2. CASE k - c >= 2
    <3>1. m * (k - c) >= m * 2
      BY <1>1, <2>2
    <3> QED
      BY <1>1, <1>4, <3>1
  <2> QED
    BY <1>1, <2>1, <2>2
<1>6. c * m = m * c /\ (-k) * m = -(m * k)
  BY <1>1
<1>7. e + s - p = 0 \/ e + s - p = m
  BY <1>3, <1>4, <1>5
<1>8. \E q \in Int : p = d + s + q * m
  <2>1. -k \in Int /\ p = d + s + (-k) * m
    BY <1>1, <1>2, <1>3, <1>6
  <2> QED
    BY <2>1
<1>9. /\ p > s => p - s + c * m >= d
      /\ p < s => p - s + m + c * m >= d
      /\ p = s => c * m >= d
  <2> DEFINE x == c * m
  <2>1. x \in Int /\ d = x + e
    BY <1>1, <1>2, <1>3, <1>6
  <2> HIDE DEF x
  <2>2. p = e + s \/ p = e + s - m
    BY <1>1, <1>7
  <2>3. /\ p > s => p - s + x >= d
        /\ p < s => p - s + m + x >= d
        /\ p = s => x >= d
    BY <1>1, <2>1, <2>2
  <2> QED
    BY <2>3 DEF x
<1> QED
  BY <1>1, <1>8, <1>9 DEF p, c

LEMMA MultipleMod ==
  ASSUME NEW m \in Nat \ {0}, NEW q \in Int
  PROVE  q * m \in Int /\ (q * m) % m = 0
<1> DEFINE r == (q * m) % m
           k == (q * m) \div m
<1>1. q * m \in Int /\ r \in 0..m - 1 /\ k \in Int /\ q * m = m * k + r
  OBVIOUS
<1> HIDE DEF r, k
<1>2. m * (q - k) = r
  BY <1>1
<1>3. q - k = 0
  <2>1. CASE q - k >= 1
    <3>1. m * (q - k) >= m
      BY <1>1, <2>1
    <3> QED
      BY <1>1, <1>2, <3>1
  <2>2. CASE q - k <= -1
    <3>1. m * (q - k) < 0
      BY <1>1, <2>2
    <3> QED
      BY <1>1, <1>2, <3>1
  <2> QED
    BY <1>1, <2>1, <2>2
<1> QED
  BY <1>1, <1>2, <1>3 DEF r

\* How often n goes into m * k + e.
LEMMA Quotient ==
  ASSUME NEW m \in Nat \ {0}, NEW k \in Int, NEW e \in 0..m - 1
  PROVE  (m * k + e) \div m = k
<1> DEFINE c == (m * k + e) \div m
           r == (m * k + e) % m
<1>1. m * k + e \in Int
  OBVIOUS
<1>2. c \in Int /\ r \in 0..m - 1 /\ m * k + e = m * c + r
  BY <1>1
<1> HIDE DEF c, r
<1>3. m * c \in Int /\ m * k \in Int /\ m * (k - c) = m * k - m * c
  BY <1>2
<1>4. m * (k - c) = r - e
  BY <1>2, <1>3
<1>5. CASE k - c >= 1
  <2>1. m * (k - c) >= m
    BY <1>2, <1>5
  <2> QED
    BY <1>2, <1>4, <2>1
<1>6. CASE k - c <= -1
  <2>1. m * (k - c) <= -m
    BY <1>2, <1>6
  <2> QED
    BY <1>2, <1>4, <2>1
<1> QED
  BY <1>2, <1>5, <1>6 DEF c

\* The circles of d are those of its moves.
LEMMA CirclesMoves ==
  ASSUME NEW d \in Nat, SC \in Nat \ {0}, SI \in Nat \ {0}
  PROVE  Moves(d) \in Nat /\ Circles(d) = Moves(d) \div SC
<1> DEFINE q == d \div SI
           r == d % SI
           c == q \div SC
           e == q % SC
<1>1. q \in Nat /\ r \in 0..SI - 1 /\ d = SI * q + r
  OBVIOUS
<1> HIDE DEF q, r
<1>2. c \in Nat /\ e \in 0..SC - 1 /\ q = SC * c + e
  BY <1>1
<1> HIDE DEF c, e
<1>3. SC * SI \in Nat \ {0} /\ SI * e \in Nat /\ SI * (SC * c) = (SC * SI) * c
  BY <1>2
<1>4. SI * q = SI * (SC * c) + SI * e
  BY <1>2
<1>5. d = (SC * SI) * c + (SI * e + r)
  <2>1. (SC * SI) * c \in Int
    BY <1>2, <1>3
  <2> QED
    BY <1>1, <1>3, <1>4, <2>1
<1>6. SI * e + r \in 0..(SC * SI) - 1
  <2>1. SI * e <= SI * (SC - 1)
    BY <1>2
  <2>2. SI * (SC - 1) = SC * SI - SI
    OBVIOUS
  <2> QED
    BY <1>1, <1>3, <2>1, <2>2
<1>7. d \div (SC * SI) = c
  <2> DEFINE m == SC * SI
             x == SI * e + r
  <2>1. m \in Nat \ {0} /\ c \in Int /\ x \in 0..m - 1
    BY <1>2, <1>3, <1>6
  <2>2. d = m * c + x
    BY <1>5
  <2> HIDE DEF m, x
  <2>3. (m * c + x) \div m = c
    BY <2>1, Quotient, Zenon
  <2>4. d \div m = c
    BY <2>2, <2>3, Zenon
  <2> QED
    BY <2>4 DEF m
<1>8. Moves(d) = q /\ Circles(d) = d \div (SC * SI) /\ c = q \div SC
  BY DEF Moves, Circles, q, c
<1> QED
  BY <1>1, <1>7, <1>8, Zenon

\* A longer duration has no fewer moves.
LEMMA MovesGrow ==
  ASSUME NEW d \in Nat, NEW m \in Nat, d <= m, SI \in Nat \ {0}
  PROVE  Moves(d) \in 0..Moves(m)
<1> DEFINE q == d \div SI
           k == m \div SI
<1>1. /\ q \in Nat /\ d % SI \in 0..SI - 1 /\ d = SI * q + (d % SI)
      /\ k \in Nat /\ m % SI \in 0..SI - 1 /\ m = SI * k + (m % SI)
  OBVIOUS
<1> HIDE DEF q, k
<1>2. SI * (q - k) = SI * q - SI * k /\ SI * q \in Int /\ SI * k \in Int
  BY <1>1
<1>3. q <= k
  <2>1. CASE q - k >= 1
    <3>1. SI * (q - k) >= SI
      BY <1>1, <2>1
    <3> QED
      BY <1>1, <1>2, <3>1
  <2> QED
    BY <1>1, <2>1
<1>4. q \in 0..k
  BY <1>1, <1>3
<1> QED
  BY <1>4 DEF Moves, q, k

\* Numbers, for the proofs below.
LEMMA Numbers ==
  ASSUME Types
  PROVE  /\ SC \in Nat \ {0} /\ SI \in Nat \ {0}
         /\ MaxMoves \in Nat /\ sp \in 0..SC - 1
         /\ \A h \in Handles : /\ duration[h] \in Nat
                               /\ Moves(duration[h]) \in 0..MaxMoves
                               /\ pos[h] \in 0..SC - 1 /\ waited[h] \in Nat
                               /\ n[h] \in Int
<1>1. /\ SC \in Nat \ {0} /\ SI \in Nat \ {0} /\ MaxDuration \in Nat
      /\ \A d \in Durations \cup {0} : d \in 0..MaxDuration
  BY WheelAssumption
<1>2. sp \in 0..SC - 1
  BY DEF Types, Slots
<1>3. MaxMoves \in Nat
  BY <1>1 DEF MaxMoves, Moves
<1>4. ASSUME NEW h \in Handles
      PROVE  /\ duration[h] \in Nat /\ Moves(duration[h]) \in 0..MaxMoves
             /\ n[h] \in Int /\ pos[h] \in 0..SC - 1 /\ waited[h] \in Nat
  <2>1. duration[h] \in Durations \cup {0} /\ n[h] \in Int
    BY DEF Types
  <2>2. duration[h] \in Nat /\ duration[h] <= MaxDuration
    BY <1>1, <2>1
  <2>3. pos[h] \in 0..SC - 1
    BY DEF Types, Slots
  <2>4. waited[h] \in 0..(MaxMoves + SC)
    BY DEF Types
  <2>5. waited[h] \in Nat
    BY <1>1, <1>3, <2>4
  <2>6. Moves(duration[h]) \in 0..MaxMoves
    BY <1>1, <2>2, MovesGrow DEF MaxMoves
  <2> QED
    BY <2>1, <2>2, <2>3, <2>5, <2>6
<1> QED
  BY <1>1, <1>2, <1>3, <1>4

\* What an add leaves behind.
LEMMA AddTimed ==
  ASSUME Types, NEW h \in Handles,
         UNCHANGED <<sp, duration>>, n'[h] = Circles(duration[h]),
         pos'[h] = SlotOf(duration[h]), waited'[h] = 0
  PROVE  Timed(h)'
<1> DEFINE d == Moves(duration[h])
<1>1. d \in Nat /\ SC \in Nat \ {0} /\ sp \in 0..SC - 1
  BY Numbers
<1>2. n'[h] = d \div SC /\ pos'[h] = (d + sp) % SC
  BY Numbers, CirclesMoves DEF SlotOf
<1>3. /\ pos'[h] \in 0..SC - 1 /\ n'[h] \in Nat
      /\ \E q \in Int : pos'[h] = d + sp + q * SC
      /\ pos'[h] > sp => pos'[h] - sp + n'[h] * SC >= d
      /\ pos'[h] < sp => pos'[h] - sp + SC + n'[h] * SC >= d
      /\ pos'[h] = sp => n'[h] * SC >= d
  <2>1. /\ (d + sp) % SC \in 0..SC - 1 /\ d \div SC \in Nat
        /\ \E q \in Int : (d + sp) % SC = d + sp + q * SC
        /\ (d + sp) % SC > sp => ((d + sp) % SC) - sp + (d \div SC) * SC >= d
        /\ (d + sp) % SC < sp => ((d + sp) % SC) - sp + SC + (d \div SC) * SC >= d
        /\ (d + sp) % SC = sp => (d \div SC) * SC >= d
    BY <1>1, AddMath, Zenon
  <2> HIDE DEF d
  <2> QED
    BY <1>2, <2>1, Zenon
<1>4. Gap(h)' + n'[h] * SC >= d
  <2>1. n'[h] * SC \in Nat
    BY <1>1, <1>3
  <2> QED
    BY <1>1, <1>3, <2>1 DEF Gap
<1>5. Gap(h)' \in Int /\ n'[h] * SC \in Int
  BY <1>1, <1>3 DEF Gap
<1>6. waited'[h] + Gap(h)' + n'[h] * SC >= Moves(duration'[h])
  BY <1>4, <1>5
<1>7. \E q \in Int : pos'[h] + waited'[h] = Moves(duration'[h]) + sp' + q * SC
  BY <1>1, <1>3
<1> QED
  BY <1>3, <1>6, <1>7 DEF Timed

\* A step that leaves the timer alone and does not begin a new pass.
LEMMA SameTimed ==
  ASSUME Types, NEW h \in Handles, Timed(h), sp' = sp, n'[h] = n[h], pos'[h] = pos[h],
         waited'[h] = waited[h], duration'[h] = duration[h],
         wpc \in {"unlock", "advance"} => wpc' \in {"unlock", "advance"}
  PROVE  Timed(h)'
<1>1. /\ SC \in Nat \ {0} /\ sp \in 0..SC - 1 /\ pos[h] \in 0..SC - 1
      /\ waited[h] \in Nat /\ n[h] \in Int /\ Moves(duration[h]) \in Int
  BY Numbers
<1>2. Gap(h)' \in Int /\ Gap(h) \in Int /\ Gap(h)' >= Gap(h)
  BY <1>1 DEF Gap
<1>3. n[h] * SC \in Int
  BY <1>1
<1>4. waited[h] + Gap(h) + n[h] * SC >= Moves(duration[h])
  BY DEF Timed
<1>5. waited'[h] + Gap(h)' + n'[h] * SC >= Moves(duration'[h])
  BY <1>1, <1>2, <1>3, <1>4
<1> QED
  BY <1>5 DEF Timed

\* The wheel moves on.
LEMMA MoveTimed ==
  ASSUME Types, NEW h \in Handles, Timed(h), wpc = "advance", wpc' = "loop",
         sp' = (sp + 1) % SC, UNCHANGED <<n, pos, duration>>,
         waited'[h] = Capped(waited[h] + 1)
  PROVE  Timed(h)'
<1> DEFINE d == Moves(duration[h])
           w == waited[h]
           x == n[h] * SC
<1>1. /\ SC \in Nat \ {0} /\ sp \in 0..SC - 1 /\ pos[h] \in 0..SC - 1
      /\ w \in Nat /\ n[h] \in Nat /\ d \in 0..MaxMoves /\ MaxMoves \in Nat
  BY Numbers DEF Timed
<1>2. x \in Nat
  BY <1>1
<1>3. sp' = IF sp = SC - 1 THEN 0 ELSE sp + 1
  <2>1. CASE sp = SC - 1
    BY <1>1, <2>1
  <2>2. CASE sp # SC - 1
    <3>1. sp + 1 \in 0..SC - 1
      BY <1>1, <2>2
    <3>2. \A a \in 0..SC - 1 : a % SC = a
      BY <1>1
    <3> QED
      BY <2>2, <3>1, <3>2
  <2> QED
    BY <2>1, <2>2
<1>4. Gap(h) = (IF pos[h] > sp THEN pos[h] - sp ELSE pos[h] - sp + SC)
  BY <1>1 DEF Gap
<1>5. Gap(h)' = Gap(h) - 1
  <2>1. Gap(h)' = IF pos[h] > sp' THEN pos[h] - sp'
                  ELSE IF pos[h] < sp' THEN pos[h] - sp' + SC ELSE 0
    BY DEF Gap
  <2> QED
    BY <1>1, <1>3, <1>4, <2>1
<1>6. w + Gap(h) + x >= d
  BY DEF Timed
<1>7. \/ waited'[h] = w + 1
      \/ waited'[h] = w + 1 - SC /\ w + 1 - SC >= MaxMoves
  BY <1>1 DEF Capped
<1>8. Gap(h) \in Nat \ {0}
  BY <1>1, <1>4
<1>9. waited'[h] + Gap(h)' + x >= d
  <2>1. CASE waited'[h] = w + 1
    BY <1>1, <1>2, <1>5, <1>6, <1>8, <2>1
  <2>2. CASE waited'[h] = w + 1 - SC /\ w + 1 - SC >= MaxMoves
    <3>1. waited'[h] \in Int /\ waited'[h] >= d
      BY <1>1, <2>2
    <3>2. Gap(h)' >= 0 /\ Gap(h)' \in Int
      BY <1>5, <1>8
    <3> HIDE DEF d, x
    <3>3. d \in Int
      BY <1>1
    <3> QED
      BY <1>2, <3>1, <3>2, <3>3
  <2> QED
    BY <1>7, <2>1, <2>2
<1>10. \E q \in Int : pos[h] + waited'[h] = d + sp' + q * SC
  <2>1. PICK q \in Int : pos[h] + w = d + sp + q * SC
    BY DEF Timed
  <2>2. /\ q * SC \in Int
        /\ (q + 1) * SC = q * SC + SC /\ (q - 1) * SC = q * SC - SC
    BY <1>1
  <2> DEFINE y == q * SC
  <2>3. /\ pos[h] + w = d + sp + y /\ y \in Int
        /\ (q + 1) * SC = y + SC /\ (q - 1) * SC = y - SC
    BY <2>1, <2>2
  <2>4. d \in Int
    BY <1>1
  <2> HIDE DEF y, d, w
  <2>5. \/ pos[h] + waited'[h] = d + sp' + y
        \/ pos[h] + waited'[h] = d + sp' + (y + SC)
        \/ pos[h] + waited'[h] = d + sp' + (y - SC)
    <3>1. CASE waited'[h] = w + 1
      BY <1>1, <1>3, <2>3, <2>4, <3>1
    <3>2. CASE waited'[h] = w + 1 - SC
      <4>1. w \in Int /\ SC \in Int /\ pos[h] \in Int /\ sp \in Int
        BY <1>1
      <4>2. pos[h] + waited'[h] = d + sp + y + 1 - SC
        BY <2>3, <2>4, <3>2, <4>1
      <4>3. CASE sp = SC - 1
        BY <1>3, <2>3, <2>4, <4>1, <4>2, <4>3
      <4>4. CASE sp # SC - 1
        BY <1>3, <2>3, <2>4, <4>1, <4>2, <4>4
      <4> QED
        BY <4>3, <4>4
    <3> QED
      BY <1>7, <3>1, <3>2
  <2> QED
    BY <2>3, <2>5 DEF y
<1> QED
  BY <1>1, <1>9, <1>10 DEF Timed

LEMMA TimeInit == Init => TimeInv
<1> SUFFICES ASSUME Init
             PROVE  TimeInv
  OBVIOUS
<1>1. \A h \in Handles : \A i \in Slots : h \notin ToSet(slots[i])
  BY DEF Init, ToSet
<1>2. \A h \in Handles : hpc[h] = "new"
  BY DEF Init
<1> QED
  BY <1>1, <1>2 DEF TimeInv, PlaceInv, Pending, In

\* What is pending, with In.
LEMMA PendingForm ==
  ASSUME NEW h \in Handles
  PROVE  /\ Pending(h) <=> hpc[h] \in {"push", "pushing"} \/ ~Out(h)
         /\ Pending(h)' <=> hpc'[h] \in {"push", "pushing"} \/ ~Out(h)'
BY DEF Pending, Out, In

\* A step in which sp stays: timers stay as they are, or are as an add leaves them.
LEMMA TimeKept ==
  ASSUME Types, TimeInv, sp' = sp,
         wpc \in {"unlock", "advance"} => wpc' \in {"unlock", "advance"},
         \A g \in Handles : \A j \in Slots :
            In(g, j)' => pos'[g] = j \/ (In(g, j) /\ pos'[g] = pos[g]),
         \A g \in Handles : Pending(g)' =>
            \/ Timed(g)'
            \/ /\ Pending(g) /\ n'[g] = n[g] /\ pos'[g] = pos[g]
               /\ waited'[g] = waited[g] /\ duration'[g] = duration[g]
  PROVE  TimeInv'
<1>1. PlaceInv'
  BY DEF TimeInv, PlaceInv
<1>2. ASSUME NEW g \in Handles, Pending(g)' PROVE Timed(g)'
  BY <1>2, SameTimed DEF TimeInv
<1> QED
  BY <1>1, <1>2 DEF TimeInv

LEMMA TimeStep ==
  ASSUME WheelIInv, WheelIInv', TimeInv, [Next]_vars
  PROVE  TimeInv'
<1>0. /\ Types /\ Lists /\ HandleInv /\ CursorInv /\ HandleInv'
      /\ hpc \in [Handles -> UserPc] /\ pos \in [Handles -> Slots]
      /\ n \in [Handles -> Int] /\ duration \in [Handles -> Durations \cup {0}]
      /\ sp \in Slots /\ waited \in [Handles -> 0..(MaxMoves + SC)]
  BY DEF WheelIInv, TypeOK, Types
<1> DEFINE Same(g) == /\ n'[g] = n[g] /\ pos'[g] = pos[g]
                      /\ waited'[g] = waited[g] /\ duration'[g] = duration[g]
<1>a. ASSUME UNCHANGED slots
      PROVE  \A g \in Handles : /\ \A j \in Slots : In(g, j)' <=> In(g, j)
                                /\ Out(g)' <=> Out(g)
  BY <1>a DEF In, Out
<1> USE DEF wheelVars, userVars, historyVars
<1>1. ASSUME NEW h \in Handles, Set(h) PROVE TimeInv'
  <2>1. /\ hpc[h] = "new" /\ UNCHANGED <<slots, sp, wpc, pos, n, waited>>
        /\ \A g \in Handles : g # h => hpc'[g] = hpc[g] /\ duration'[g] = duration[g]
        /\ hpc'[h] = "add"
    BY <1>0, <1>1 DEF Set
  <2>2. Out(h)
    BY <1>0, <2>1 DEF HandleInv
  <2>3. \A g \in Handles : Pending(g)' => Pending(g) /\ Same(g)
    BY <1>a, <2>1, <2>2, PendingForm
  <2> QED
    BY <1>0, <1>a, <2>1, <2>3, TimeKept
<1>2. ASSUME NEW h \in Handles, Add(h) PROVE TimeInv'
  <2>1. /\ hpc[h] = "add" /\ UNCHANGED <<slots, sp, wpc, duration>>
        /\ \A g \in Handles : g # h => hpc'[g] = hpc[g] /\ Same(g)
    BY <1>0, <1>2 DEF Add
  <2>2. Out(h)
    BY <1>0, <2>1 DEF HandleInv
  <2>3. Pending(h)' => Timed(h)'
    <3>1. CASE stop
      BY <1>0, <1>2, <1>a, <2>1, <2>2, <3>1, PendingForm DEF Add
    <3>2. CASE ~stop
      <4>1. n'[h] = Circles(duration[h]) /\ pos'[h] = SlotOf(duration[h]) /\ waited'[h] = 0
        BY <1>0, <1>2, <3>2 DEF Add
      <4> QED
        BY <1>0, <2>1, <4>1, AddTimed
    <3> QED
      BY <3>1, <3>2
  <2>4. \A g \in Handles : Pending(g)' => Timed(g)' \/ (Pending(g) /\ Same(g))
    BY <1>a, <2>1, <2>3, PendingForm
  <2>5. \A g \in Handles : \A j \in Slots :
            In(g, j)' => pos'[g] = j \/ (In(g, j) /\ pos'[g] = pos[g])
    BY <1>a, <2>1, <2>2 DEF Out
  <2> QED
    BY <1>0, <2>1, <2>4, <2>5, TimeKept
<1>3. ASSUME NEW h \in Handles,
             PushLock(h) \/ PushCrash(h) \/ RemoveLock(h) \/ Stop(h) \/ Reset(h)
      PROVE  TimeInv'
  <2>1. /\ UNCHANGED <<slots, sp, wpc, pos, n, waited, duration>>
        /\ \A g \in Handles : hpc'[g] \in {"push", "pushing"} => hpc[g] \in {"push", "pushing"}
    BY <1>0, <1>3 DEF PushLock, PushCrash, RemoveLock, Stop, Reset
  <2>2. \A g \in Handles : Pending(g)' => Pending(g) /\ Same(g)
    BY <1>a, <2>1, PendingForm
  <2> QED
    BY <1>0, <1>a, <2>1, <2>2, TimeKept
<1>4. ASSUME NEW h \in Handles, Push(h) PROVE TimeInv'
  <2>1. /\ hpc[h] = "pushing" /\ UNCHANGED <<sp, wpc, pos, n, waited, duration>>
        /\ \A g \in Handles : hpc'[g] \in {"push", "pushing"} => hpc[g] \in {"push", "pushing"}
    BY <1>0, <1>4 DEF Push
  <2>2. \A g \in Handles : \A j \in Slots : In(g, j)' => In(g, j) \/ (g = h /\ j = pos[h])
    BY <1>0, <1>4, PushPushed, PushedLists
  <2>3. \A g \in Handles : g # h => (Out(g) => Out(g)')
    BY <2>2 DEF Out
  <2>4. \A g \in Handles : Pending(g)' => Pending(g) /\ Same(g)
    BY <2>1, <2>3, PendingForm
  <2>5. \A g \in Handles : \A j \in Slots :
            In(g, j)' => pos'[g] = j \/ (In(g, j) /\ pos'[g] = pos[g])
    BY <2>1, <2>2
  <2> QED
    BY <1>0, <2>1, <2>4, <2>5, TimeKept
<1>5. ASSUME NEW h \in Handles, SlotRemove(h) PROVE TimeInv'
  <2>1. /\ hpc[h] = "removing" /\ UNCHANGED <<sp, wpc, pos, n, waited>>
        /\ \A g \in Handles : g # h => hpc'[g] = hpc[g] /\ duration'[g] = duration[g]
        /\ \/ hpc'[h] = "add"
           \/ hpc'[h] = "set" /\ duration'[h] = duration[h]
    BY <1>0, <1>5 DEF SlotRemove
  <2>2. \A g \in Handles : \A j \in Slots : In(g, j)' => In(g, j)
    BY <1>0, <1>5, RemovedLists DEF SlotRemove, Removed, Types
  <2>3. \A g \in Handles : Out(g) => Out(g)'
    BY <2>2 DEF Out
  <2>4. hpc'[h] = "add" => Out(h)'
    BY <1>0 DEF HandleInv
  <2>5. \A g \in Handles : Pending(g)' => Pending(g) /\ Same(g)
    BY <2>1, <2>3, <2>4, PendingForm
  <2> QED
    BY <1>0, <2>1, <2>2, <2>5, TimeKept
<1>6. ASSUME Shutdown \/ WheelLoop \/ WheelLock \/ WheelCrash \/ WheelUnlock \/ UNCHANGED vars
      PROVE  TimeInv'
  <2>1. /\ UNCHANGED <<slots, sp, hpc, pos, n, waited, duration>>
        /\ wpc \in {"unlock", "advance"} => wpc' \in {"unlock", "advance"}
    BY <1>6 DEF Shutdown, WheelLoop, WheelLock, WheelCrash, WheelUnlock, vars
  <2>2. \A g \in Handles : Pending(g)' => Pending(g) /\ Same(g)
    BY <1>a, <2>1, PendingForm
  <2> QED
    BY <1>0, <1>a, <2>1, <2>2, TimeKept
<1>7. CASE WheelSkip
  <2>0. PICK c \in Handles : c = cursor
    BY <1>7, CursorIn DEF WheelSkip
  <2>1. /\ c \in Handles /\ In(c, sp) /\ ~Out(c) /\ wpc = "scan" /\ n[c] > 0
        /\ UNCHANGED <<slots, sp, hpc, pos, waited, duration>> /\ wpc' = "unlock"
        /\ n' = [n EXCEPT ![c] = n[c] - 1]
    BY <1>7, <2>0, CursorIn DEF WheelSkip
  <2>2. Timed(c) /\ pos[c] = sp
    BY <1>0, <2>1, PendingForm DEF TimeInv, PlaceInv
  <2>3. Timed(c)'
    <3>1. /\ SC \in Nat /\ waited[c] \in Nat /\ Moves(duration[c]) \in Int /\ n[c] \in Nat /\ n[c] > 0
      BY <1>0, <2>1, Numbers
    <3>2. Gap(c) = 0 /\ Gap(c)' = SC
      BY <1>0, <2>1, <2>2, Numbers DEF Gap
    <3>3. n'[c] = n[c] - 1
      BY <1>0, <2>1
    <3>4. (n[c] - 1) * SC = n[c] * SC - SC /\ n[c] * SC \in Int
      BY <3>1
    <3>5. waited[c] + Gap(c) + n[c] * SC >= Moves(duration[c])
      BY <2>2 DEF Timed
    <3>6. waited[c] + Gap(c)' + n'[c] * SC >= Moves(duration[c])
      BY <3>1, <3>2, <3>3, <3>4, <3>5
    <3> QED
      BY <2>1, <2>2, <3>1, <3>3, <3>6 DEF Timed
  <2>4. \A g \in Handles : Pending(g)' => Timed(g)' \/ (Pending(g) /\ Same(g))
    BY <1>0, <1>a, <2>1, <2>3, PendingForm
  <2> QED
    BY <1>0, <1>a, <2>1, <2>4, TimeKept
<1>8. CASE WheelFire
  <2>0. PICK c \in Handles : c = cursor
    BY <1>8, CursorIn DEF WheelFire
  <2>1. /\ c \in Handles /\ In(c, sp) /\ ~Out(c) /\ wpc = "scan"
        /\ UNCHANGED <<sp, hpc, pos, waited, duration>> /\ wpc' \in {"scan", "readd"}
        /\ \A g \in Handles : g # c => n'[g] = n[g]
    BY <1>0, <1>8, <2>0, CursorIn DEF WheelFire
  <2>2. \A g \in Handles : \A j \in Slots : In(g, j)' <=> In(g, j) /\ ~(g = c /\ j = sp)
    BY <1>0, <1>8, <2>0, <2>1, RemovedLists DEF WheelFire, Removed
  <2>3. \A g \in Handles : Out(g) => Out(g)'
    BY <2>2 DEF Out
  <2>4. hpc[c] \notin {"push", "pushing"}
    BY <1>0, <2>1 DEF HandleInv
  <2>5. Out(c)'
    <3>1. \A j \in Slots : In(c, j) => j = sp
      BY <1>0, <2>1 DEF TimeInv, PlaceInv
    <3> QED
      BY <2>2, <3>1 DEF Out
  <2>6. \A g \in Handles : Pending(g)' => Pending(g) /\ Same(g)
    BY <2>1, <2>3, <2>4, <2>5, PendingForm
  <2> QED
    BY <1>0, <2>1, <2>2, <2>6, TimeKept
<1>9. CASE WheelReAdd
  <2>0. PICK c \in Handles : c = current
    BY <1>9, CurrentOut DEF WheelReAdd
  <2> DEFINE i == SlotOf(duration[c])
  <2>1. c \in Handles /\ Out(c) /\ i \in Slots
    BY <1>9, <2>0, CurrentOut DEF WheelReAdd
  <2>2. /\ UNCHANGED <<sp, hpc, duration>> /\ wpc = "readd" /\ wpc' = "scan"
        /\ n'[c] = Circles(duration[c]) /\ pos'[c] = i /\ waited'[c] = 0
        /\ \A g \in Handles : g # c => Same(g)
    BY <1>0, <1>9, <2>0, <2>1 DEF WheelReAdd
  <2>3. Timed(c)'
    BY <1>0, <2>1, <2>2, AddTimed
  <2>4. Pushed(c, i)
    BY <1>9, <2>0 DEF WheelReAdd, Pushed
  <2> HIDE DEF i
  <2>5. \A g \in Handles : \A j \in Slots : In(g, j)' => In(g, j) \/ (g = c /\ j = i)
    BY <1>0, <2>1, <2>4, PushedLists
  <2>6. \A g \in Handles : g # c => (Out(g) => Out(g)')
    BY <2>5 DEF Out
  <2>7. \A g \in Handles : Pending(g)' => Timed(g)' \/ (Pending(g) /\ Same(g))
    BY <2>2, <2>3, <2>6, PendingForm
  <2>8. \A g \in Handles : \A j \in Slots :
            In(g, j)' => pos'[g] = j \/ (In(g, j) /\ pos'[g] = pos[g])
    BY <2>1, <2>2, <2>5 DEF Out
  <2> QED
    BY <1>0, <2>2, <2>7, <2>8, TimeKept
<1>10. CASE WheelAdvance
  <2>1. /\ UNCHANGED <<slots, hpc, pos, n, duration>> /\ wpc = "advance" /\ wpc' = "loop"
        /\ sp' = (sp + 1) % SC
        /\ \A g \in Handles : Pending(g) => waited'[g] = Capped(waited[g] + 1)
    BY <1>10 DEF WheelAdvance
  <2>2. PlaceInv'
    BY <1>a, <2>1 DEF TimeInv, PlaceInv
  <2>3. ASSUME NEW g \in Handles, Pending(g)' PROVE Timed(g)'
    <3>1. Pending(g) /\ Timed(g)
      BY <1>a, <2>1, <2>3, PendingForm DEF TimeInv
    <3> QED
      BY <1>0, <2>1, <3>1, MoveTimed
  <2> QED
    BY <2>2, <2>3 DEF TimeInv
<1> HIDE DEF wheelVars, userVars, historyVars
<1> QED
  BY <1>1, <1>2, <1>3, <1>4, <1>5, <1>6, <1>7, <1>8, <1>9, <1>10
     DEF Next, UserStep, WheelStep

\* No callback is called an interval early, nor out of phase: sp has moved as
\* often as the duration has whole intervals, or that and whole circles
\* (timerwheel.go:163-168 and 191-225).
THEOREM OnTimeCorrect == Spec => OnTime
<1>1. ASSUME WheelIInv, TimeInv, [Next]_vars, NEW h \in Handles, calls'[h] > calls[h]
      PROVE  /\ (waited[h] + 1) * SI > duration[h]
             /\ (waited[h] - Moves(duration[h])) % SC = 0
  <2>1. calls \in [Handles -> 0..2] /\ Types /\ HandleInv
    BY <1>1 DEF WheelIInv, TypeOK, Types
  <2>2. ASSUME NEW g \in Handles PROVE ~Add(g)
    BY <1>1, <2>1 DEF Add
  <2>3. ~WheelReAdd
    BY <1>1, <2>1, CurrentOut DEF WheelReAdd
  <2>4. ASSUME NEW g \in Handles,
               \/ Set(g) \/ Stop(g) \/ Reset(g) \/ PushLock(g) \/ Push(g)
               \/ PushCrash(g) \/ RemoveLock(g) \/ SlotRemove(g)
        PROVE  calls' = calls
    BY <2>4 DEF Set, Stop, Reset, PushLock, Push, PushCrash, RemoveLock, SlotRemove,
                historyVars
  <2>5. ASSUME \/ Shutdown \/ WheelLoop \/ WheelLock \/ WheelSkip \/ WheelCrash
               \/ WheelUnlock \/ WheelAdvance \/ UNCHANGED vars
        PROVE  calls' = calls
    BY <2>5 DEF Shutdown, WheelLoop, WheelLock, WheelSkip, WheelCrash, WheelUnlock,
                WheelAdvance, vars, historyVars
  <2>6. calls' # calls
    BY <1>1, <2>1
  <2>7. WheelFire
    BY <1>1, <2>2, <2>3, <2>4, <2>5, <2>6 DEF Next, UserStep, WheelStep
  <2>8. cursor = h /\ In(h, sp) /\ ~Out(h) /\ wpc = "scan" /\ n[h] <= 0
    BY <1>1, <2>1, <2>7, CursorIn DEF WheelFire
  <2>9. Timed(h) /\ pos[h] = sp
    BY <1>1, <2>1, <2>8, PendingForm DEF TimeInv, PlaceInv, Types
  <2>10. /\ SC \in Nat \ {0} /\ sp \in Int /\ waited[h] \in Nat
         /\ SI \in Nat \ {0} /\ duration[h] \in Nat /\ Moves(duration[h]) \in Nat
         /\ n[h] = 0
    BY <2>1, <2>8, <2>9, Numbers DEF Timed
  <2>11. Gap(h) = 0 /\ n[h] * SC = 0
    BY <2>8, <2>9, <2>10 DEF Gap
  <2>12. waited[h] >= Moves(duration[h])
    BY <2>9, <2>10, <2>11 DEF Timed
  <2>13. PICK q \in Int : pos[h] + waited[h] = Moves(duration[h]) + sp + q * SC
    BY <2>9 DEF Timed
  <2>14. q * SC \in Int /\ (q * SC) % SC = 0
    BY <2>10, MultipleMod
  <2>15. waited[h] - Moves(duration[h]) = q * SC
    BY <2>9, <2>10, <2>13, <2>14
  <2>16. (waited[h] + 1) * SI > duration[h]
    <3> DEFINE m == duration[h] \div SI
               r == duration[h] % SI
    <3>1. m \in Nat /\ r \in 0..SI - 1 /\ duration[h] = SI * m + r
      BY <2>10
    <3>2. waited[h] >= m
      BY <2>12 DEF Moves
    <3> HIDE DEF m, r
    <3>3. SI * (waited[h] + 1) >= SI * (m + 1) /\ SI * (m + 1) = SI * m + SI
      BY <2>10, <3>1, <3>2
    <3>4. SI * (waited[h] + 1) = (waited[h] + 1) * SI /\ SI * m \in Int
      BY <2>10, <3>1
    <3> QED
      BY <2>10, <3>1, <3>3, <3>4
  <2> QED
    BY <2>14, <2>15, <2>16
<1>2. WheelIInv /\ TimeInv /\ [Next]_vars
      => [\A h \in Handles : calls'[h] > calls[h] =>
            /\ (waited[h] + 1) * SI > duration[h]
            /\ (waited[h] - Moves(duration[h])) % SC = 0]_vars
  BY <1>1
<1>3. Spec => []TimeInv
  BY TimeInit, TimeStep, WheelInductive, PTL DEF Spec
<1> QED
  BY <1>2, <1>3, WheelInductive, PTL DEF Spec, OnTime

=============================================================================
