-------------------------- MODULE HeapTimer_proofs --------------------------
(***************************************************************************)
(* Proofs about HeapTimer for any handles, durations, capacity of the      *)
(* channels and length of time:                                            *)
(*   TypeCorrect          every reference is to an object;                 *)
(*   NeverEarlyCorrect    no callback is called before its time;           *)
(*   StopSilencesCorrect  a stopped handle is silent;                      *)
(*   HeldOnceCorrect      no object is in two places;                      *)
(*   TimerKeptCorrect     no object is forgotten.                          *)
(***************************************************************************)
EXTENDS HeapTimer, TLAPS, FiniteSetTheorems, SequenceTheorems

-----------------------------------------------------------------------------
\* Sequences as sets of elements.

LEMMA PositionsAppend ==
  ASSUME NEW S, NEW s \in Seq(S), NEW e
  PROVE  Positions(Append(s, e)) = Positions(s) \cup {e}
<1>1. /\ Len(Append(s, e)) = Len(s) + 1 /\ Append(s, e)[Len(s) + 1] = e
      /\ \A i \in 1..Len(s) : Append(s, e)[i] = s[i]
      /\ DOMAIN Append(s, e) = 1..Len(s) + 1 /\ DOMAIN s = 1..Len(s) /\ Len(s) \in Nat
  OBVIOUS
<1>2. \A x : x \in Positions(Append(s, e)) <=> x \in Positions(s) \cup {e}
  BY <1>1 DEF Positions
<1> QED
  BY <1>2

LEMMA PositionsTail ==
  ASSUME NEW S, NEW s \in Seq(S), s # <<>>
  PROVE  /\ Head(s) \in Positions(s) /\ Tail(s) \in Seq(S) /\ Len(Tail(s)) = Len(s) - 1
         /\ Positions(s) = Positions(Tail(s)) \cup {Head(s)}
<1>1. /\ Len(s) \in Nat /\ Len(s) >= 1 /\ Head(s) = s[1] /\ Tail(s) \in Seq(S)
      /\ Len(Tail(s)) = Len(s) - 1 /\ \A i \in 1..Len(s) - 1 : Tail(s)[i] = s[i + 1]
      /\ DOMAIN s = 1..Len(s) /\ DOMAIN Tail(s) = 1..Len(s) - 1
  BY HeadTailProperties
<1>2. ASSUME NEW i \in 1..Len(s)
      PROVE  s[i] \in Positions(Tail(s)) \cup {Head(s)}
  <2>1. CASE i = 1
    BY <1>1, <2>1
  <2>2. CASE i # 1
    <3>1. i - 1 \in DOMAIN Tail(s) /\ Tail(s)[i - 1] = s[i]
      BY <1>1, <2>2
    <3> QED
      BY <3>1 DEF Positions
  <2> QED
    BY <2>1, <2>2
<1>3. ASSUME NEW i \in 1..Len(s) - 1
      PROVE  Tail(s)[i] \in Positions(s)
  <2>1. i + 1 \in DOMAIN s /\ Tail(s)[i] = s[i + 1]
    BY <1>1
  <2> QED
    BY <2>1 DEF Positions
<1>4. Head(s) \in Positions(s)
  BY <1>1 DEF Positions
<1>5. ASSUME NEW x \in Positions(s) PROVE x \in Positions(Tail(s)) \cup {Head(s)}
  BY <1>1, <1>2, <1>5 DEF Positions
<1>6. ASSUME NEW x \in Positions(Tail(s)) PROVE x \in Positions(s)
  BY <1>1, <1>3, <1>6 DEF Positions
<1> QED
  BY <1>1, <1>4, <1>5, <1>6

\* Every element at most once.
Distinct(s) == \A i, j \in DOMAIN s : s[i] = s[j] => i = j

LEMMA DistinctAppend ==
  ASSUME NEW S, NEW s \in Seq(S), NEW e, e \notin Positions(s), Distinct(s)
  PROVE  Distinct(Append(s, e))
<1>1. /\ Append(s, e)[Len(s) + 1] = e /\ \A i \in 1..Len(s) : Append(s, e)[i] = s[i]
      /\ DOMAIN Append(s, e) = 1..Len(s) + 1 /\ DOMAIN s = 1..Len(s) /\ Len(s) \in Nat
  OBVIOUS
<1>2. \A i \in 1..Len(s) : s[i] # e
  BY <1>1 DEF Positions
<1> QED
  BY <1>1, <1>2 DEF Distinct

LEMMA DistinctTail ==
  ASSUME NEW S, NEW s \in Seq(S), s # <<>>, Distinct(s)
  PROVE  Distinct(Tail(s)) /\ Head(s) \notin Positions(Tail(s))
<1>1. /\ Len(s) \in Nat /\ Len(s) >= 1 /\ Head(s) = s[1]
      /\ \A i \in 1..Len(s) - 1 : Tail(s)[i] = s[i + 1]
      /\ DOMAIN s = 1..Len(s) /\ DOMAIN Tail(s) = 1..Len(s) - 1
  BY HeadTailProperties
<1>2. ASSUME NEW i \in 1..Len(s) - 1, NEW j \in 1..Len(s) - 1, Tail(s)[i] = Tail(s)[j]
      PROVE  i = j
  <2>1. i + 1 \in DOMAIN s /\ j + 1 \in DOMAIN s /\ s[i + 1] = s[j + 1]
    BY <1>1, <1>2
  <2>2. i + 1 = j + 1
    BY <2>1 DEF Distinct
  <2> QED
    BY <2>2
<1>3. ASSUME NEW i \in 1..Len(s) - 1 PROVE Tail(s)[i] # Head(s)
  <2>1. i + 1 \in DOMAIN s /\ 1 \in DOMAIN s /\ i + 1 # 1
    BY <1>1
  <2> QED
    BY <1>1, <2>1 DEF Distinct
<1> QED
  BY <1>1, <1>2, <1>3 DEF Distinct, Positions

-----------------------------------------------------------------------------
\* Types.  Objects are only ever added, an object keeps its handle, and what is
\* removed stays so.

TimerObject == [handle : Handles, trigger : Nat, duration : Durations, removed : BOOLEAN]
ResetMessage == [t : Nat, d : Durations]

TypeInv ==
  /\ TypeOK
  /\ timer \in Seq(TimerObject) /\ calls \in Seq(Nat)
  /\ addCh \in Seq(Nat) /\ removeCh \in Seq(Nat) /\ modCh \in Seq(ResetMessage)
  /\ now <= clock
  /\ \A h \in Handles : hpc[h] \in {"adding", "set"} => object[h] # 0

Grown ==
  /\ timer' \in Seq(TimerObject) /\ calls' \in Seq(Nat) /\ DOMAIN calls' = DOMAIN timer'
  /\ Objects \subseteq DOMAIN timer'
  /\ \A o \in Objects : /\ timer'[o].handle = timer[o].handle
                        /\ timer[o].removed => timer'[o].removed

LEMMA AfterType ==
  ASSUME NEW t \in Nat, NEW d \in Durations
  PROVE  After(t, d) \in Nat
  BY TimerAssumption DEF After

LEMMA ObjectsRange ==
  ASSUME TypeInv
  PROVE  Objects = 1..Len(timer) /\ Len(timer) \in Nat /\ Len(calls) = Len(timer)
  BY DEF TypeInv, TypeOK, Objects

\* A new object.
LEMMA AppendObject ==
  ASSUME TypeInv, NEW r \in TimerObject, NEW t \in Seq(TimerObject), DOMAIN t = Objects,
         timer' = Append(t, r), calls' = Append(calls, 0),
         \A o \in Objects : /\ t[o].handle = timer[o].handle
                            /\ timer[o].removed => t[o].removed
  PROVE  Grown /\ Len(timer') = Len(timer) + 1 /\ timer'[Len(timer) + 1] = r
         /\ (\A o \in Objects : timer'[o] = t[o] /\ calls'[o] = calls[o])
         /\ calls'[Len(timer) + 1] = 0 /\ DOMAIN timer' = Objects \cup {Len(timer) + 1}
<1>1. Objects = 1..Len(timer) /\ Len(timer) \in Nat /\ Len(calls) = Len(timer) /\ Len(t) = Len(timer)
  BY ObjectsRange
<1>2. /\ timer' \in Seq(TimerObject) /\ Len(timer') = Len(t) + 1 /\ timer'[Len(t) + 1] = r
      /\ \A o \in 1..Len(t) : timer'[o] = t[o]
  BY AppendProperties
<1>3. /\ calls' \in Seq(Nat) /\ Len(calls') = Len(calls) + 1 /\ calls'[Len(calls) + 1] = 0
      /\ \A o \in 1..Len(calls) : calls'[o] = calls[o]
  BY AppendProperties DEF TypeInv
<1>4. DOMAIN timer' = 1..Len(timer) + 1 /\ DOMAIN calls' = 1..Len(timer) + 1
  BY <1>1, <1>2, <1>3
<1> QED
  BY <1>1, <1>2, <1>3, <1>4 DEF Grown

\* An object is changed, its handle is not.
LEMMA ChangeObject ==
  ASSUME TypeInv, NEW o \in Objects, NEW r \in TimerObject, timer' = [timer EXCEPT ![o] = r],
         r.handle = timer[o].handle, timer[o].removed => r.removed, calls' = calls
  PROVE  Grown /\ DOMAIN timer' = Objects
<1>1. Objects = 1..Len(timer) /\ Len(timer) \in Nat
  BY ObjectsRange
<1>2. timer' \in Seq(TimerObject) /\ Len(timer') = Len(timer)
  BY <1>1, ExceptSeq DEF TypeInv
<1>3. DOMAIN timer' = Objects
  BY <1>1, <1>2
<1>4. \A p \in Objects : timer'[p] = IF p = o THEN r ELSE timer[p]
  BY DEF Objects
<1> QED
  BY <1>2, <1>3, <1>4 DEF Grown, TypeInv, TypeOK

LEMMA GrownKeep ==
  ASSUME TypeInv, UNCHANGED <<timer, calls>>
  PROVE  Grown
  BY DEF TypeInv, TypeOK, Grown, Objects

\* The heads of the channels.
LEMMA Heads ==
  ASSUME TypeInv
  PROVE  /\ addCh # <<>> => Head(addCh) \in Objects
         /\ removeCh # <<>> => Head(removeCh) \in Objects
         /\ modCh # <<>> => Head(modCh).t \in Objects /\ Head(modCh).d \in Durations
<1>1. addCh # <<>> => Head(addCh) \in Positions(addCh)
  BY PositionsTail DEF TypeInv
<1>2. removeCh # <<>> => Head(removeCh) \in Positions(removeCh)
  BY PositionsTail DEF TypeInv
<1>3. modCh # <<>> => Head(modCh) \in Positions(modCh)
  BY PositionsTail DEF TypeInv
<1> QED
  BY <1>1, <1>2, <1>3 DEF TypeInv, TypeOK

LEMMA TriggerType ==
  ASSUME TypeInv, NEW o \in Objects, Trigger(o)
  PROVE  calls' \in Seq(Nat) /\ DOMAIN calls' = Objects
         /\ \A p \in Objects : p # o => calls'[p] = calls[p]
<1>1. Objects = 1..Len(timer) /\ Len(timer) \in Nat /\ Len(calls) = Len(timer)
  BY ObjectsRange
<1>2. calls \in [1..Len(timer) -> Nat]
  BY <1>1, LenProperties DEF TypeInv
<1>3. calls' \in [1..Len(timer) -> Nat] /\ \A p \in Objects : p # o => calls'[p] = calls[p]
  BY <1>1, <1>2 DEF Trigger
<1> QED
  BY <1>1, <1>3

LEMMA CopyAdded ==
  ASSUME TypeInv, TickMod
  PROVE  LET m == Head(modCh)
             n == Len(timer) + 1 IN
         /\ Grown /\ DOMAIN timer' = Objects \cup {n}
         /\ n \in Nat /\ n \notin Objects /\ m.t \in Objects
         /\ timer'[n].handle = timer[m.t].handle /\ timer'[n].removed = timer[m.t].removed
         /\ timer'[m.t].removed /\ calls'[n] = 0
         /\ \A o \in Objects : /\ calls'[o] = calls[o]
                               /\ o # m.t => timer'[o] = timer[o]
<1>0. \A o \in Objects : timer[o] \in TimerObject
  BY DEF Objects, TypeInv
<1> DEFINE m == Head(modCh)
<1> DEFINE t == [timer EXCEPT ![m.t].removed = TRUE]
<1> DEFINE copy == [timer[m.t] EXCEPT !.duration = m.d, !.trigger = After(clock, m.d)]
<1>1. timer' = Append(t, copy) /\ calls' = Append(calls, 0) /\ modCh # <<>>
  BY DEF TickMod
<1>2. m.t \in Objects /\ m.d \in Durations /\ After(clock, m.d) \in Nat
  <2>1. m.t \in Objects /\ m.d \in Durations
    BY <1>1, Heads
  <2>2. clock \in Nat
    BY DEF TypeInv, TypeOK
  <2> QED
    BY <2>1, <2>2, AfterType
<1>3. copy \in TimerObject /\ copy.handle = timer[m.t].handle /\ copy.removed = timer[m.t].removed
  <2> DEFINE longer == [timer[m.t] EXCEPT !.duration = m.d]
  <2> DEFINE v == After(clock, m.d)
  <2>1. timer[m.t] \in TimerObject
    BY <1>0, <1>2
  <2>2. /\ longer \in TimerObject
        /\ longer.handle = timer[m.t].handle /\ longer.removed = timer[m.t].removed
    BY <2>1, <1>2 DEF TimerObject
  <2>3. copy = [longer EXCEPT !.trigger = v] /\ v \in Nat
    BY <1>2, Zenon
  <2> HIDE DEF copy, longer, v
  <2>4. copy \in TimerObject /\ copy.handle = longer.handle /\ copy.removed = longer.removed
    BY <2>2, <2>3 DEF TimerObject
  <2> QED
    BY <2>2, <2>4
<1>4. t \in Seq(TimerObject) /\ DOMAIN t = Objects
  <2>1. Objects = 1..Len(timer) /\ Len(timer) \in Nat /\ timer \in [1..Len(timer) -> TimerObject]
    BY ObjectsRange, LenProperties DEF TypeInv
  <2>2. [timer[m.t] EXCEPT !.removed = TRUE] \in TimerObject
    BY <1>0, <1>2 DEF TimerObject
  <2>3. t \in [1..Len(timer) -> TimerObject]
    BY <2>1, <2>2, <1>2
  <2> HIDE DEF t
  <2> QED
    BY <2>1, <2>3
<1>5. /\ \A o \in Objects : o # m.t => t[o] = timer[o]
      /\ t[m.t].handle = timer[m.t].handle /\ t[m.t].removed
  <2>1. \A o \in Objects : o # m.t => t[o] = timer[o]
    BY <1>2 DEF Objects
  <2>2. t[m.t] = [timer[m.t] EXCEPT !.removed = TRUE]
    BY <1>2 DEF Objects
  <2>3. t[m.t].handle = timer[m.t].handle /\ t[m.t].removed = TRUE
    BY <1>0, <2>2, <1>2 DEF TimerObject
  <2> QED
    BY <2>1, <2>3
<1>6. \A o \in Objects : t[o].handle = timer[o].handle /\ (timer[o].removed => t[o].removed)
  BY <1>5
<1>7. Objects = 1..Len(timer) /\ Len(timer) \in Nat
  BY ObjectsRange
<1>8. Len(timer) + 1 \in Nat /\ Len(timer) + 1 \notin Objects
  BY <1>7
<1> HIDE DEF t, copy
<1>9. /\ Grown /\ timer'[Len(timer) + 1] = copy
      /\ (\A o \in Objects : timer'[o] = t[o] /\ calls'[o] = calls[o])
      /\ calls'[Len(timer) + 1] = 0 /\ DOMAIN timer' = Objects \cup {Len(timer) + 1}
  BY <1>1, <1>3, <1>4, <1>6, AppendObject
<1> HIDE DEF m
<1> QED
  BY <1>2, <1>3, <1>5, <1>8, <1>9, Zenon DEF m

LEMMA GrownStep == TypeInv /\ [Next]_vars => Grown
<1> SUFFICES ASSUME TypeInv, [Next]_vars
             PROVE  Grown
  OBVIOUS
<1>0. \A o \in Objects : timer[o] \in TimerObject
  BY DEF Objects, TypeInv
<1>1. ASSUME NEW h \in Handles, Set(h) PROVE Grown
  <2>1. CASE stop
    BY <1>1, <2>1, GrownKeep DEF Set
  <2>2. CASE ~stop
    <3>1. PICK d \in Durations :
            /\ timer' = Append(timer, [handle |-> h, trigger |-> After(clock, d),
                                       duration |-> d, removed |-> FALSE])
            /\ calls' = Append(calls, 0)
      BY <1>1, <2>2 DEF Set
    <3>2. clock \in Nat
      BY DEF TypeInv, TypeOK
    <3>3. [handle |-> h, trigger |-> After(clock, d), duration |-> d, removed |-> FALSE] \in TimerObject
      BY <3>2, AfterType DEF TimerObject
    <3> QED
      BY <3>1, <3>3, AppendObject DEF TypeInv, Objects
  <2> QED
    BY <2>1, <2>2
<1>2. CASE TickMod
  BY <1>2, CopyAdded
<1>3. CASE TickRemove
  <2> DEFINE o == Head(removeCh)
  <2>1. timer' = [timer EXCEPT ![o].removed = TRUE] /\ calls' = calls /\ removeCh # <<>>
    BY <1>3 DEF TickRemove
  <2>2. o \in Objects /\ timer[o] \in TimerObject
    BY <1>0, <2>1, Heads
  <2> HIDE DEF o
  <2> DEFINE r == [timer[o] EXCEPT !.removed = TRUE]
  <2>3. r \in TimerObject /\ r.handle = timer[o].handle /\ r.removed = TRUE
    BY <2>2 DEF TimerObject
  <2>4. timer' = [timer EXCEPT ![o] = r]
    BY <2>1
  <2> HIDE DEF r
  <2> QED
    BY <2>1, <2>2, <2>3, <2>4, ChangeObject
<1>4. CASE TickReAdd
  <2> DEFINE v == After(now, timer[current].duration)
  <2>1. timer' = [timer EXCEPT ![current].trigger = v] /\ calls' = calls
    BY <1>4 DEF TickReAdd
  <2>2. current \in Objects /\ timer[current] \in TimerObject /\ v \in Nat
    <3>1. current \in Objects /\ now \in Nat
      BY <1>4 DEF TickReAdd, TypeInv, TypeOK
    <3> QED
      BY <1>0, <3>1, AfterType DEF TimerObject
  <2> HIDE DEF v
  <2> DEFINE r == [timer[current] EXCEPT !.trigger = v]
  <2>3. r \in TimerObject /\ r.handle = timer[current].handle /\ r.removed = timer[current].removed
    BY <2>2 DEF TimerObject
  <2>4. timer' = [timer EXCEPT ![current] = r]
    BY <2>1
  <2> HIDE DEF r
  <2> QED
    BY <2>1, <2>2, <2>3, <2>4, ChangeObject
<1>5. ASSUME NEW o \in Objects, Trigger(o), UNCHANGED timer PROVE Grown
  BY <1>5, TriggerType DEF Grown, TypeInv, Objects
<1>6. ASSUME NEW o \in heap, TickPop(o) PROVE Grown
  <2>1. o \in Objects
    BY DEF TypeInv, TypeOK
  <2>2. UNCHANGED timer /\ (Trigger(o) \/ UNCHANGED calls)
    BY <1>6 DEF TickPop
  <2> QED
    BY <1>5, <2>1, <2>2, GrownKeep
<1>7. CASE TickAdd \/ TickDrain
  <2>1. addCh # <<>> /\ UNCHANGED timer /\ (Trigger(Head(addCh)) \/ UNCHANGED calls)
    BY <1>7 DEF TickAdd, TickDrain, Receive
  <2> QED
    BY <1>5, <2>1, Heads, GrownKeep
<1>8. CASE UNCHANGED <<timer, calls>>
  BY <1>8, GrownKeep
<1>9. ASSUME NEW h \in Handles, SetSend(h) \/ Stop(h) \/ Reset(h) PROVE UNCHANGED <<timer, calls>>
  BY <1>9 DEF SetSend, Stop, Reset
<1>10. ASSUME NEW o \in Objects, AddProcSend(o) PROVE UNCHANGED <<timer, calls>>
  BY <1>10 DEF AddProcSend
<1>11. CASE \/ Tick \/ Shutdown \/ TickNow \/ TickSleep \/ TickStop \/ TickDrained \/ TickWake
            \/ UNCHANGED vars
  BY <1>8, <1>11 DEF Tick, Shutdown, TickNow, TickSleep, TickStop, TickDrained, TickWake, vars
<1> QED
  BY <1>1, <1>2, <1>3, <1>4, <1>6, <1>7, <1>8, <1>9, <1>10, <1>11 DEF Next, TickStep

\* The parts of the types.

ClockOK == clock \in 0..MaxClock /\ now \in 0..MaxClock /\ now <= clock

ChannelsOK ==
  /\ addCh \in Seq(Nat) /\ Len(addCh) <= ChanCap
  /\ removeCh \in Seq(Nat) /\ Len(removeCh) <= ChanCap
  /\ modCh \in Seq(ResetMessage) /\ Len(modCh) <= ChanCap

RefsOK ==
  /\ heap \subseteq Objects /\ addProcs \subseteq Objects
  /\ Positions(addCh) \subseteq Objects /\ Positions(removeCh) \subseteq Objects
  /\ \A m \in Positions(modCh) : m.t \in Objects /\ m.d \in Durations
  /\ current \in Objects \cup {0} /\ (current # 0 <=> tpc = "readd")
  /\ object \in [Handles -> Objects \cup {0}]
  /\ \A h \in Handles : hpc[h] \in {"adding", "set"} => object[h] # 0
  /\ overdue \subseteq Objects

ControlOK ==
  /\ stop \in BOOLEAN /\ tpc \in TickPc /\ wakeAt \in Nat \cup {Never}
  /\ hpc \in [Handles -> HandlePc] /\ stopped \subseteq Handles /\ resets \in 0..MaxResets

ObjectsOK ==
  timer \in Seq(TimerObject) /\ calls \in Seq(Nat) /\ DOMAIN calls = Objects

LEMMA TypeParts ==
  TypeInv <=> ClockOK /\ ChannelsOK /\ RefsOK /\ ControlOK /\ ObjectsOK
<1>1. ObjectsOK => \A o \in Objects :
          timer[o] \in [handle : Handles, trigger : Nat, duration : Durations, removed : BOOLEAN]
  <2>1. ObjectsOK => \A o \in Objects : timer[o] \in TimerObject
    BY DEF ObjectsOK, Objects
  <2> QED
    BY <2>1, Zenon DEF TimerObject
<1>2. TypeInv => ClockOK /\ ChannelsOK /\ RefsOK /\ ControlOK /\ ObjectsOK
  BY DEF TypeInv, TypeOK, ClockOK, ChannelsOK, RefsOK, ControlOK, ObjectsOK
<1>3. ClockOK /\ ChannelsOK /\ RefsOK /\ ControlOK /\ ObjectsOK => TypeInv
  BY <1>1 DEF TypeInv, TypeOK, ClockOK, ChannelsOK, RefsOK, ControlOK, ObjectsOK
<1> QED
  BY <1>2, <1>3

LEMMA PartsNext ==
  ClockOK' /\ ChannelsOK' /\ RefsOK' /\ ControlOK' /\ ObjectsOK' => TypeInv'
  BY TypeParts, PTL

LEMMA TypeInit == Init => TypeInv
<1> SUFFICES ASSUME Init
             PROVE  TypeInv
  OBVIOUS
<1>1. Positions(addCh) = {} /\ Positions(removeCh) = {} /\ Positions(modCh) = {}
  BY DEF Init, Positions
<1>2. Objects = {} /\ DOMAIN calls = {}
  BY DEF Init, Objects
<1>3. ClockOK
  BY TimerAssumption DEF Init, ClockOK
<1>4. ChannelsOK
  BY TimerAssumption DEF Init, ChannelsOK
<1>5. RefsOK
  BY <1>1, <1>2 DEF Init, RefsOK
<1>6. ControlOK
  <2>1. hpc \in [Handles -> HandlePc] /\ resets \in 0..MaxResets
    BY TimerAssumption DEF Init, HandlePc
  <2>2. wakeAt \in Nat \cup {Never} /\ tpc \in TickPc /\ stop \in BOOLEAN
    BY DEF Init, TickPc
  <2>3. stopped \subseteq Handles
    BY DEF Init
  <2> QED
    BY <2>1, <2>2, <2>3 DEF ControlOK
<1>7. ObjectsOK
  BY <1>2 DEF Init, ObjectsOK
<1> QED
  BY <1>3, <1>4, <1>5, <1>6, <1>7, TypeParts

\* A new object for addCh: it goes there or to a goroutine.
LEMMA AddFnEffect ==
  ASSUME ChannelsOK, NEW o \in Nat, AddFn(o)
  PROVE  /\ addCh' \in Seq(Nat) /\ Len(addCh') <= ChanCap
         /\ \/ addCh' = Append(addCh, o) /\ UNCHANGED addProcs
            \/ addProcs' = addProcs \cup {o} /\ UNCHANGED addCh
         /\ \/ Positions(addCh') = Positions(addCh) \cup {o} /\ UNCHANGED addProcs
            \/ addProcs' = addProcs \cup {o} /\ Positions(addCh') = Positions(addCh)
<1>1. CASE Len(addCh) < ChanCap
  <2>1. addCh' = Append(addCh, o) /\ UNCHANGED addProcs
    BY <1>1 DEF AddFn
  <2>2. addCh' \in Seq(Nat) /\ Len(addCh') = Len(addCh) + 1
    BY <2>1 DEF ChannelsOK
  <2> QED
    BY <1>1, <2>1, <2>2, PositionsAppend, TimerAssumption DEF ChannelsOK
<1>2. CASE ~(Len(addCh) < ChanCap)
  BY <1>2 DEF AddFn, ChannelsOK
<1> QED
  BY <1>1, <1>2

LEMMA SendEffect ==
  ASSUME ChannelsOK, NEW o \in Nat, Len(addCh) < ChanCap, addCh' = Append(addCh, o)
  PROVE  addCh' \in Seq(Nat) /\ Len(addCh') <= ChanCap
         /\ Positions(addCh') = Positions(addCh) \cup {o}
<1>1. addCh' \in Seq(Nat) /\ Len(addCh') = Len(addCh) + 1
  BY DEF ChannelsOK
<1> QED
  BY <1>1, PositionsAppend, TimerAssumption DEF ChannelsOK

\* The two ways to receive from addCh.
LEMMA ReceiveForm ==
  ASSUME TickAdd \/ TickDrain
  PROVE  \E limit \in {now, clock}, next \in {"loop", "drain"} :
            addCh # <<>> /\ Receive(limit, next) /\ tpc \in {"select", "drain"}
<1>1. CASE TickAdd
  <2>1. tpc = "select" /\ addCh # <<>>
    BY <1>1 DEF TickAdd
  <2>2. CASE timer[Head(addCh)].trigger < now
    <3>1. Receive(now, "loop")
      BY <1>1, <2>2 DEF TickAdd
    <3> QED
      BY <2>1, <3>1
  <2>3. CASE ~(timer[Head(addCh)].trigger < now)
    <3>1. Receive(now, "drain")
      BY <1>1, <2>3 DEF TickAdd
    <3> QED
      BY <2>1, <3>1
  <2> QED
    BY <2>2, <2>3
<1>2. CASE TickDrain
  <2>1. tpc = "drain" /\ addCh # <<>> /\ Receive(clock, "drain")
    BY <1>2 DEF TickDrain
  <2> QED
    BY <2>1
<1> QED
  BY <1>1, <1>2

LEMMA TypeStep == TypeInv /\ [Next]_vars => TypeInv'
<1> SUFFICES ASSUME TypeInv, [Next]_vars
             PROVE  TypeInv'
  OBVIOUS
<1>a. ClockOK /\ ChannelsOK /\ RefsOK /\ ControlOK /\ ObjectsOK
  BY TypeParts
<1>b. Grown /\ ObjectsOK'
  BY GrownStep DEF Grown, ObjectsOK, Objects
<1>c. Objects \subseteq Objects' /\ Objects' \subseteq Nat /\ Objects \subseteq Nat
  <2>1. Objects' = 1..Len(timer') /\ Len(timer') \in Nat
    BY <1>b DEF ObjectsOK, Objects
  <2> QED
    BY <1>b, <2>1 DEF Grown, Objects
<1>d. ClockOK'
  <2>1. ASSUME UNCHANGED <<clock, now>> PROVE ClockOK'
    BY <1>a, <2>1 DEF ClockOK
  <2>2. CASE Tick
    BY <1>a, <2>2, TimerAssumption DEF ClockOK, Tick, tickVars
  <2>3. CASE TickNow
    BY <1>a, <2>3, TimerAssumption DEF ClockOK, TickNow
  <2> QED
    BY <2>1, <2>2, <2>3
    DEF Next, TickStep, Set, SetSend, Stop, Reset, Shutdown, AddProcSend, TickPop, TickReAdd,
        TickSleep, TickStop, TickAdd, TickDrain, Receive, TickDrained, TickMod, TickRemove,
        TickWake, vars, tickVars
<1> SUFFICES ChannelsOK' /\ RefsOK' /\ ControlOK'
  BY <1>b, <1>d, PartsNext
<1> USE <1>a
<1>1. ASSUME UNCHANGED <<addCh, modCh, removeCh, addProcs, heap, overdue, object, current>>,
             tpc' = "readd" <=> tpc = "readd",
             \A h \in Handles : hpc'[h] \in {"adding", "set"} => hpc[h] \in {"adding", "set"}
      PROVE  ChannelsOK' /\ RefsOK'
  <2>1. ChannelsOK'
    BY <1>1 DEF ChannelsOK
  <2>2. /\ object' \in [Handles -> Objects' \cup {0}]
        /\ \A h \in Handles : hpc'[h] \in {"adding", "set"} => object'[h] # 0
    BY <1>1, <1>c DEF RefsOK
  <2> QED
    BY <1>1, <1>c, <2>1, <2>2 DEF RefsOK
<1>2. CASE Tick \/ Shutdown \/ TickNow \/ TickSleep \/ TickStop \/ TickDrained \/ TickWake
  <2>1. UNCHANGED <<addCh, modCh, removeCh, addProcs, heap, overdue, object, current>>
        /\ (tpc' = "readd" <=> tpc = "readd")
    BY <1>2 DEF Tick, Shutdown, TickNow, TickSleep, TickStop, TickDrained, TickWake, tickVars,
                handleVars
  <2>2. wakeAt' \in Nat \cup {Never}
    <3>1. \A o \in Objects : After(clock, timer[o].duration) \in Nat
      <4>1. clock \in Nat
        BY DEF ClockOK
      <4>2. \A o \in Objects : timer[o].duration \in Durations
        <5>1. \A o \in Objects : timer[o] \in TimerObject
          BY DEF ObjectsOK, Objects
        <5> QED
          BY <5>1, Zenon DEF TimerObject
      <4> QED
        BY <4>1, <4>2, AfterType
    <3>2. \/ UNCHANGED wakeAt \/ wakeAt' = Never
          \/ \E o \in heap : wakeAt' = After(clock, timer[o].duration)
      BY <1>2 DEF Tick, Shutdown, TickNow, TickSleep, TickStop, TickDrained, TickWake, tickVars
    <3> QED
      BY <3>1, <3>2 DEF ControlOK, RefsOK
  <2>3. stop' \in BOOLEAN /\ tpc' \in TickPc /\ UNCHANGED <<hpc, stopped, resets>>
    BY <1>2 DEF Tick, Shutdown, TickNow, TickSleep, TickStop, TickDrained, TickWake, tickVars,
                handleVars, ControlOK, TickPc
  <2> QED
    BY <1>1, <2>1, <2>2, <2>3 DEF ControlOK
<1>3. ASSUME NEW h \in Handles, Set(h) PROVE ChannelsOK' /\ RefsOK' /\ ControlOK'
  <2>1. /\ UNCHANGED <<addCh, modCh, removeCh, addProcs, stop, overdue, stopped, resets>>
        /\ UNCHANGED <<heap, tpc, current, wakeAt>>
    BY <1>3 DEF Set, tickVars
  <2>2. CASE stop
    <3>1. UNCHANGED object /\ hpc' = [hpc EXCEPT ![h] = "panic"]
      BY <1>3, <2>2 DEF Set
    <3>2. /\ hpc' \in [Handles -> HandlePc]
          /\ \A g \in Handles : hpc'[g] \in {"adding", "set"} => hpc[g] \in {"adding", "set"}
      BY <3>1 DEF ControlOK, HandlePc
    <3> QED
      BY <1>1, <2>1, <3>1, <3>2 DEF ControlOK
  <2>3. CASE ~stop
    <3>1. /\ object' = [object EXCEPT ![h] = Len(timer) + 1] /\ hpc' = [hpc EXCEPT ![h] = "adding"]
          /\ \E r : timer' = Append(timer, r)
      BY <1>3, <2>3 DEF Set
    <3>2. Len(timer) + 1 \in Objects'
      BY <3>1 DEF ObjectsOK, Objects
    <3>3. /\ object' \in [Handles -> Objects' \cup {0}]
          /\ \A g \in Handles : hpc'[g] \in {"adding", "set"} => object'[g] # 0
      BY <1>c, <3>1, <3>2 DEF RefsOK, ControlOK, ObjectsOK
    <3>4. hpc' \in [Handles -> HandlePc]
      BY <3>1 DEF ControlOK, HandlePc
    <3> QED
      BY <1>c, <2>1, <3>3, <3>4 DEF ControlOK, RefsOK, ChannelsOK
  <2> QED
    BY <2>2, <2>3
<1>o. ASSUME UNCHANGED object, UNCHANGED hpc
      PROVE  /\ object' \in [Handles -> Objects' \cup {0}]
             /\ \A h \in Handles : hpc'[h] \in {"adding", "set"} => object'[h] # 0
  BY <1>o, <1>c DEF RefsOK
<1>4. ASSUME NEW h \in Handles, SetSend(h) PROVE ChannelsOK' /\ RefsOK' /\ ControlOK'
  <2>1. /\ UNCHANGED <<modCh, removeCh, addProcs, stop, overdue, stopped, resets, object>>
        /\ UNCHANGED <<heap, tpc, current, wakeAt, timer>>
        /\ hpc[h] = "adding" /\ hpc' = [hpc EXCEPT ![h] = "set"]
        /\ Len(addCh) < ChanCap /\ addCh' = Append(addCh, object[h])
    BY <1>4 DEF SetSend, tickVars
  <2>2. object[h] \in Objects /\ object[h] \in Nat
    BY <1>c, <2>1 DEF RefsOK
  <2>3. addCh' \in Seq(Nat) /\ Len(addCh') <= ChanCap /\ Positions(addCh') = Positions(addCh) \cup {object[h]}
    BY <2>1, <2>2, SendEffect
  <2>4. ChannelsOK'
    BY <2>1, <2>3 DEF ChannelsOK
  <2>5. hpc' \in [Handles -> HandlePc] /\ \A g \in Handles : hpc'[g] \in {"adding", "set"} => object'[g] # 0
    BY <2>1, <2>2, <1>c DEF ControlOK, HandlePc, RefsOK
  <2>6. object' \in [Handles -> Objects' \cup {0}]
    BY <1>c, <2>1 DEF RefsOK
  <2>7. RefsOK'
    BY <1>c, <2>1, <2>2, <2>3, <2>5, <2>6 DEF RefsOK
  <2>8. ControlOK'
    BY <2>1, <2>5 DEF ControlOK
  <2> QED
    BY <2>4, <2>7, <2>8
<1>5. ASSUME NEW h \in Handles, Stop(h) PROVE ChannelsOK' /\ RefsOK' /\ ControlOK'
  <2>1. /\ UNCHANGED <<addCh, modCh, addProcs, stop, overdue, stopped, resets, object, hpc>>
        /\ UNCHANGED <<heap, tpc, current, wakeAt, timer>>
        /\ hpc[h] = "set" /\ Len(removeCh) < ChanCap /\ removeCh' = Append(removeCh, object[h])
    BY <1>5 DEF Stop, tickVars, handleVars
  <2>2. object[h] \in Objects /\ object[h] \in Nat
    BY <1>c, <2>1 DEF RefsOK
  <2>3. removeCh' \in Seq(Nat) /\ Len(removeCh') = Len(removeCh) + 1
    BY <2>1, <2>2 DEF ChannelsOK
  <2>4. Positions(removeCh') = Positions(removeCh) \cup {object[h]}
    BY <2>1, <2>2, PositionsAppend DEF ChannelsOK
  <2>5. ChannelsOK'
    BY <2>1, <2>3, TimerAssumption DEF ChannelsOK
  <2>6. RefsOK'
    BY <1>c, <1>o, <2>1, <2>2, <2>4 DEF RefsOK
  <2>7. ControlOK'
    BY <2>1 DEF ControlOK
  <2> QED
    BY <2>5, <2>6, <2>7
<1>6. ASSUME NEW h \in Handles, Reset(h) PROVE ChannelsOK' /\ RefsOK' /\ ControlOK'
  <2>1. /\ UNCHANGED <<addCh, removeCh, addProcs, stop, overdue, stopped, object, hpc>>
        /\ UNCHANGED <<heap, tpc, current, wakeAt, timer>>
        /\ hpc[h] = "set" /\ Len(modCh) < ChanCap /\ resets < MaxResets /\ resets' = resets + 1
    BY <1>6 DEF Reset, tickVars
  <2>2. object[h] \in Objects /\ object[h] \in Nat
    BY <1>c, <2>1 DEF RefsOK
  <2>3. PICK d \in Durations : modCh' = Append(modCh, [t |-> object[h], d |-> d])
    BY <1>6 DEF Reset
  <2> DEFINE m == [t |-> object[h], d |-> d]
  <2>4. m \in ResetMessage /\ m.t \in Objects /\ m.d \in Durations
    BY <2>2 DEF ResetMessage
  <2> HIDE DEF m
  <2>5. modCh' \in Seq(ResetMessage) /\ Len(modCh') = Len(modCh) + 1
    BY <2>3, <2>4 DEF ChannelsOK, m
  <2>6. Positions(modCh') = Positions(modCh) \cup {m}
    BY <2>3, <2>4, PositionsAppend DEF ChannelsOK, m
  <2>7. ChannelsOK'
    BY <2>1, <2>5, TimerAssumption DEF ChannelsOK
  <2>8. \A x \in Positions(modCh') : x.t \in Objects' /\ x.d \in Durations
    BY <1>c, <2>4, <2>6 DEF RefsOK
  <2>9. RefsOK'
    BY <1>c, <1>o, <2>1, <2>8 DEF RefsOK
  <2>10. ControlOK'
    BY <2>1, TimerAssumption DEF ControlOK
  <2> QED
    BY <2>7, <2>9, <2>10
<1>7. ASSUME NEW o \in Objects, AddProcSend(o) PROVE ChannelsOK' /\ RefsOK' /\ ControlOK'
  <2>1. /\ UNCHANGED <<modCh, removeCh, stop, overdue, stopped, resets, object, hpc>>
        /\ UNCHANGED <<heap, tpc, current, wakeAt, timer>>
        /\ Len(addCh) < ChanCap /\ addCh' = Append(addCh, o) /\ addProcs' = addProcs \ {o}
    BY <1>7 DEF AddProcSend, tickVars, handleVars
  <2>2. addCh' \in Seq(Nat) /\ Len(addCh') <= ChanCap /\ Positions(addCh') = Positions(addCh) \cup {o}
    BY <1>c, <2>1, SendEffect
  <2>3. ChannelsOK'
    BY <2>1, <2>2 DEF ChannelsOK
  <2>4. RefsOK'
    BY <1>c, <1>o, <2>1, <2>2 DEF RefsOK
  <2>5. ControlOK'
    BY <2>1 DEF ControlOK
  <2> QED
    BY <2>3, <2>4, <2>5
<1>8. ASSUME NEW o \in heap, TickPop(o) PROVE ChannelsOK' /\ RefsOK' /\ ControlOK'
  <2>1. /\ UNCHANGED <<addCh, modCh, removeCh, addProcs, stop, overdue, stopped, resets, object, hpc>>
        /\ UNCHANGED <<wakeAt, timer>>
        /\ tpc = "scan" /\ heap' = heap \ {o}
        /\ (tpc' = "readd" /\ current' = o) \/ UNCHANGED <<tpc, current>>
    BY <1>8 DEF TickPop, handleVars
  <2>2. o \in Objects /\ o # 0
    BY <1>c DEF RefsOK, ObjectsOK, Objects
  <2>3. ChannelsOK'
    BY <2>1 DEF ChannelsOK
  <2>4. current' \in Objects' \cup {0} /\ (current' # 0 <=> tpc' = "readd")
    BY <1>c, <2>1, <2>2 DEF RefsOK
  <2>5. RefsOK'
    BY <1>c, <1>o, <2>1, <2>4 DEF RefsOK
  <2>6. tpc' \in TickPc
    BY <2>1 DEF ControlOK, TickPc
  <2>7. ControlOK'
    BY <2>1, <2>6 DEF ControlOK
  <2> QED
    BY <2>3, <2>5, <2>7
<1>9. CASE TickReAdd
  <2>1. /\ UNCHANGED <<modCh, removeCh, stop, overdue, stopped, resets, object, hpc, heap, wakeAt>>
        /\ tpc = "readd" /\ tpc' = "scan" /\ current' = 0 /\ AddFn(current)
    BY <1>9 DEF TickReAdd, handleVars
  <2>2. current \in Objects /\ current \in Nat
    BY <1>c, <2>1 DEF RefsOK
  <2>3. /\ addCh' \in Seq(Nat) /\ Len(addCh') <= ChanCap
        /\ Positions(addCh') \subseteq Positions(addCh) \cup {current}
        /\ addProcs' \subseteq addProcs \cup {current}
    BY <2>1, <2>2, AddFnEffect
  <2>4. ChannelsOK'
    BY <2>1, <2>3 DEF ChannelsOK
  <2>5. RefsOK'
    BY <1>c, <1>o, <2>1, <2>2, <2>3 DEF RefsOK
  <2>6. ControlOK'
    BY <2>1 DEF ControlOK, TickPc
  <2> QED
    BY <2>4, <2>5, <2>6
<1>10. CASE TickAdd \/ TickDrain
  <2>1. PICK limit \in {now, clock}, next \in {"loop", "drain"} :
          addCh # <<>> /\ Receive(limit, next) /\ tpc \in {"select", "drain"}
    BY <1>10, ReceiveForm
  <2> DEFINE o == Head(addCh)
  <2>2. o \in Objects
    BY <2>1, Heads
  <2> HIDE DEF o
  <2>3. /\ UNCHANGED <<modCh, removeCh, addProcs, stop, stopped, resets, object, hpc, current, wakeAt, timer>>
        /\ addCh' = Tail(addCh) /\ tpc' = next
        /\ heap' \subseteq heap \cup {o} /\ overdue' \subseteq overdue \cup {o}
    BY <2>1 DEF Receive, handleVars, o
  <2>4. addCh' \in Seq(Nat) /\ Len(addCh') = Len(addCh) - 1 /\ Positions(addCh') \subseteq Positions(addCh)
    BY <2>1, <2>3, PositionsTail DEF ChannelsOK
  <2>5. ChannelsOK'
    BY <2>3, <2>4, TimerAssumption DEF ChannelsOK
  <2>6. RefsOK'
    BY <1>c, <1>o, <2>1, <2>2, <2>3, <2>4 DEF RefsOK
  <2>7. ControlOK'
    BY <2>1, <2>3 DEF ControlOK, TickPc
  <2> QED
    BY <2>5, <2>6, <2>7
<1>11. CASE TickMod
  <2> DEFINE n == Len(timer) + 1
  <2>1. /\ UNCHANGED <<removeCh, stop, overdue, stopped, resets, object, hpc, heap, current, wakeAt>>
        /\ tpc = "select" /\ tpc' = "loop" /\ AddFn(n) /\ modCh # <<>> /\ modCh' = Tail(modCh)
    BY <1>11 DEF TickMod, handleVars, Objects
  <2>2. n \in Nat /\ n \in Objects'
    BY <1>11, CopyAdded DEF Objects
  <2> HIDE DEF n
  <2>3. /\ addCh' \in Seq(Nat) /\ Len(addCh') <= ChanCap
        /\ Positions(addCh') \subseteq Positions(addCh) \cup {n}
        /\ addProcs' \subseteq addProcs \cup {n}
    BY <2>1, <2>2, AddFnEffect
  <2>4. /\ modCh' \in Seq(ResetMessage) /\ Len(modCh') = Len(modCh) - 1
        /\ Positions(modCh') \subseteq Positions(modCh)
    BY <2>1, PositionsTail DEF ChannelsOK
  <2>5. ChannelsOK'
    BY <2>1, <2>3, <2>4, TimerAssumption DEF ChannelsOK
  <2>6. RefsOK'
    BY <1>c, <1>o, <2>1, <2>2, <2>3, <2>4 DEF RefsOK
  <2>7. ControlOK'
    BY <2>1 DEF ControlOK, TickPc
  <2> QED
    BY <2>5, <2>6, <2>7
<1>12. CASE TickRemove
  <2> DEFINE o == Head(removeCh)
  <2>1. /\ UNCHANGED <<addCh, modCh, addProcs, stop, overdue, resets, object, hpc, heap, current, wakeAt>>
        /\ tpc = "select" /\ tpc' = "loop" /\ removeCh # <<>> /\ removeCh' = Tail(removeCh)
        /\ stopped' = stopped \cup {timer[o].handle}
    BY <1>12 DEF TickRemove, handleVars
  <2>2. timer[o].handle \in Handles
    <3>1. timer[o] \in TimerObject
      BY <2>1, Heads DEF ObjectsOK, Objects
    <3> QED
      BY <3>1, Zenon DEF TimerObject
  <2> HIDE DEF o
  <2>3. /\ removeCh' \in Seq(Nat) /\ Len(removeCh') = Len(removeCh) - 1
        /\ Positions(removeCh') \subseteq Positions(removeCh)
    BY <2>1, PositionsTail DEF ChannelsOK
  <2>4. ChannelsOK'
    BY <2>1, <2>3, TimerAssumption DEF ChannelsOK
  <2>5. RefsOK'
    BY <1>c, <1>o, <2>1, <2>3 DEF RefsOK
  <2>6. ControlOK'
    BY <2>1, <2>2 DEF ControlOK, TickPc
  <2> QED
    BY <2>4, <2>5, <2>6
<1>13. CASE UNCHANGED vars
  BY <1>1, <1>13 DEF vars, tickVars, handleVars, ControlOK
<1> QED
  BY <1>2, <1>3, <1>4, <1>5, <1>6, <1>7, <1>8, <1>9, <1>10, <1>11, <1>12, <1>13 DEF Next, TickStep

\* Every variable keeps its type: heaptimer.go:147-221 never refers to an object
\* that does not exist.
THEOREM TypeCorrect == Spec => []TypeOK
<1>1. TypeInv => TypeOK
  BY DEF TypeInv
<1> QED
  BY <1>1, TypeInit, TypeStep, PTL DEF Spec

-----------------------------------------------------------------------------
\* Callbacks: an object is called back when it is popped (heaptimer.go:149-172)
\* or when it is overdue as it leaves addCh (190-193, 199-200).

Called(o) ==
  \/ o \in heap /\ TickPop(o) /\ ~timer[o].removed
  \/ /\ addCh # <<>> /\ o = Head(addCh) /\ (TickAdd \/ TickDrain)
     /\ (timer[o].trigger < now \/ timer[o].trigger < clock) /\ o \in overdue'

LEMMA CallsStep ==
  ASSUME TypeInv, [Next]_vars, NEW o \in Objects, calls'[o] # calls[o]
  PROVE  Called(o)
<1>1. ASSUME NEW p \in heap, TickPop(p) PROVE Called(o)
  <2>1. p \in Objects
    BY DEF TypeInv, TypeOK
  <2>2. ~timer[p].removed /\ Trigger(p)
    BY <1>1 DEF TickPop
  <2>3. o = p
    BY <2>1, <2>2, TriggerType
  <2> QED
    BY <1>1, <2>2, <2>3 DEF Called
<1>2. CASE TickAdd \/ TickDrain
  <2>1. PICK limit \in {now, clock}, next \in {"loop", "drain"} :
          addCh # <<>> /\ Receive(limit, next)
    BY <1>2, ReceiveForm
  <2> DEFINE p == Head(addCh)
  <2>2. p \in Objects
    BY <2>1, Heads
  <2>3. timer[p].trigger < limit /\ Trigger(p) /\ p \in overdue'
    BY <2>1 DEF Receive
  <2>4. o = p
    BY <2>2, <2>3, TriggerType
  <2> QED
    BY <1>2, <2>1, <2>3, <2>4 DEF Called
<1>3. ~UNCHANGED calls
  OBVIOUS
<1>4. CASE TickMod
  BY <1>4, CopyAdded
<1>5. ASSUME NEW h \in Handles, Set(h) PROVE FALSE
  <2>1. calls' = Append(calls, 0)
    BY <1>3, <1>5 DEF Set
  <2>2. calls \in Seq(Nat) /\ o \in 1..Len(calls)
    BY ObjectsRange DEF TypeInv
  <2> QED
    BY <2>1, <2>2
<1> QED
  BY <1>1, <1>2, <1>3, <1>4, <1>5
  DEF Next, TickStep, Tick, SetSend, Stop, Reset, Shutdown, AddProcSend, TickNow, TickReAdd,
      TickSleep, TickStop, TickDrained, TickRemove, TickWake, vars

\* The time read in the loop is not in the future, and what is called back was
\* due then (heaptimer.go:152, 190, 199).
THEOREM NeverEarlyCorrect == Spec => NeverEarly
<1>1. ASSUME TypeInv, [Next]_vars
      PROVE  [\A o \in Objects : calls'[o] # calls[o] => timer[o].trigger <= clock]_vars
  <2>1. ASSUME NEW o \in Objects, calls'[o] # calls[o] PROVE timer[o].trigger <= clock
    <3>1. Called(o)
      BY <1>1, <2>1, CallsStep
    <3>2. timer[o].trigger \in Nat /\ now \in Nat /\ clock \in Nat /\ now <= clock
      <4>1. timer[o] \in TimerObject
        BY <1>1 DEF TypeInv, Objects
      <4> QED
        BY <1>1, <4>1 DEF TypeInv, TypeOK, TimerObject
    <3>3. timer[o].trigger <= now \/ timer[o].trigger < clock
      BY <3>1, <3>2 DEF Called, TickPop
    <3> QED
      BY <3>2, <3>3
  <2> QED
    BY <2>1
<1> QED
  BY <1>1, TypeInit, TypeStep, PTL DEF Spec, NeverEarly

-----------------------------------------------------------------------------
\* Handles and their objects.

HandleInv ==
  /\ \A h \in Handles : object[h] # 0 => timer[object[h]].handle = h
  /\ \A h \in Handles : hpc[h] = "new" => object[h] = 0
  /\ \A o \in Positions(removeCh) : object[timer[o].handle] = o
  /\ \A h \in stopped : object[h] # 0 /\ timer[object[h]].removed

LEMMA HandleInit == Init => HandleInv
<1> SUFFICES ASSUME Init
             PROVE  HandleInv
  OBVIOUS
<1>1. Positions(removeCh) = {} /\ stopped = {} /\ \A h \in Handles : object[h] = 0
  BY DEF Init, Positions
<1> QED
  BY <1>1 DEF HandleInv

LEMMA HandleStep == TypeInv /\ HandleInv /\ [Next]_vars => HandleInv'
<1> SUFFICES ASSUME TypeInv, HandleInv, [Next]_vars
             PROVE  HandleInv'
  OBVIOUS
<1>1. /\ \A o \in Objects : /\ timer'[o].handle = timer[o].handle
                            /\ timer[o].removed => timer'[o].removed
  BY GrownStep DEF Grown
<1>2. /\ ChannelsOK /\ RefsOK /\ ControlOK /\ ObjectsOK
      /\ object \in [Handles -> Objects \cup {0}] /\ stopped \subseteq Handles
      /\ Positions(removeCh) \subseteq Objects
  BY TypeParts DEF RefsOK, ControlOK
<1>3. \A o \in Objects : o # 0 /\ timer[o].handle \in Handles
  <2>1. \A o \in Objects : timer[o] \in TimerObject
    BY <1>2 DEF ObjectsOK, Objects
  <2>2. \A o \in Objects : timer[o].handle \in Handles
    BY <2>1, Zenon DEF TimerObject
  <2>3. \A o \in Objects : o # 0
    BY <1>2 DEF ObjectsOK, Objects
  <2> QED
    BY <2>2, <2>3
<1>4. ASSUME UNCHANGED <<object, stopped>>, Positions(removeCh') \subseteq Positions(removeCh),
             \A h \in Handles : hpc'[h] = "new" => hpc[h] = "new"
      PROVE  HandleInv'
  BY <1>1, <1>2, <1>4 DEF HandleInv
<1>5. ASSUME NEW h \in Handles, Set(h) PROVE HandleInv'
  <2>1. UNCHANGED <<removeCh, stopped>> /\ hpc[h] = "new" /\ object[h] = 0
    BY <1>5 DEF Set, HandleInv
  <2>2. CASE stop
    <3>1. UNCHANGED object /\ hpc' = [hpc EXCEPT ![h] = "panic"]
      BY <1>5, <2>2 DEF Set
    <3> QED
      BY <1>2, <1>4, <2>1, <3>1 DEF ControlOK
  <2>3. CASE ~stop
    <3> DEFINE n == Len(timer) + 1
    <3>1. /\ object' = [object EXCEPT ![h] = n] /\ hpc' = [hpc EXCEPT ![h] = "adding"]
          /\ \E d \in Durations :
                timer' = Append(timer, [handle |-> h, trigger |-> After(clock, d),
                                        duration |-> d, removed |-> FALSE])
      BY <1>5, <2>3 DEF Set
    <3>2. timer'[n].handle = h
      BY <1>2, <3>1 DEF ObjectsOK
    <3> HIDE DEF n
    <3>3. \A g \in Handles : g # h => object'[g] = object[g] /\ hpc'[g] = hpc[g]
      BY <1>2, <3>1 DEF ControlOK
    <3>4. object'[h] = n /\ hpc'[h] = "adding"
      BY <1>2, <3>1 DEF ControlOK
    <3>5. \A g \in Handles : object'[g] # 0 => timer'[object'[g]].handle = g
      BY <1>1, <1>2, <3>2, <3>3, <3>4 DEF HandleInv
    <3>6. \A o \in Positions(removeCh) : timer'[o].handle # h /\ timer'[o].handle \in Handles
      BY <1>1, <1>2, <1>3, <2>1 DEF HandleInv
    <3>7. \A o \in Positions(removeCh') : object'[timer'[o].handle] = o
      BY <1>1, <1>2, <2>1, <3>3, <3>6 DEF HandleInv
    <3>8. \A g \in stopped' : object'[g] # 0 /\ timer'[object'[g]].removed
      <4>1. \A g \in stopped : g # h
        BY <2>1 DEF HandleInv
      <4> QED
        BY <1>1, <1>2, <2>1, <3>3, <4>1 DEF HandleInv
    <3> QED
      BY <3>3, <3>4, <3>5, <3>7, <3>8 DEF HandleInv
  <2> QED
    BY <2>2, <2>3
<1>6. ASSUME NEW h \in Handles, Stop(h) PROVE HandleInv'
  <2>1. /\ UNCHANGED <<object, stopped, hpc>> /\ hpc[h] = "set"
        /\ removeCh' = Append(removeCh, object[h])
    BY <1>6 DEF Stop, handleVars
  <2>2. object[h] \in Objects /\ object[h] \in Nat
    BY <1>2, <2>1 DEF RefsOK, ObjectsOK, Objects
  <2>3. Positions(removeCh') = Positions(removeCh) \cup {object[h]}
    BY <1>2, <2>1, <2>2, PositionsAppend DEF ChannelsOK
  <2>4. object[timer[object[h]].handle] = object[h]
    BY <1>3, <2>2 DEF HandleInv
  <2> QED
    BY <1>1, <1>2, <2>1, <2>2, <2>3, <2>4 DEF HandleInv
<1>7. CASE TickRemove
  <2> DEFINE o == Head(removeCh)
  <2>1. /\ UNCHANGED <<object, hpc>> /\ removeCh # <<>> /\ removeCh' = Tail(removeCh)
        /\ timer' = [timer EXCEPT ![o].removed = TRUE]
        /\ stopped' = stopped \cup {timer[o].handle}
    BY <1>7 DEF TickRemove, handleVars
  <2>2. o \in Positions(removeCh) /\ Positions(removeCh') \subseteq Positions(removeCh)
    BY <1>2, <2>1, PositionsTail DEF ChannelsOK
  <2>3. o \in Objects /\ timer'[o].removed
    <3>1. timer[o] \in TimerObject /\ o \in Objects
      BY <1>2, <2>2 DEF ObjectsOK, Objects
    <3>2. timer'[o] = [timer[o] EXCEPT !.removed = TRUE]
      BY <2>1, <3>1 DEF Objects
    <3>3. timer'[o].removed = TRUE
      BY <3>1, <3>2 DEF TimerObject
    <3> QED
      BY <3>1, <3>3
  <2>4. object[timer[o].handle] = o /\ o # 0
    BY <1>3, <2>2, <2>3 DEF HandleInv
  <2> HIDE DEF o
  <2>5. \A g \in stopped' : object'[g] # 0 /\ timer'[object'[g]].removed
    BY <1>1, <1>2, <2>1, <2>3, <2>4 DEF HandleInv
  <2> QED
    BY <1>1, <1>2, <2>1, <2>2, <2>5 DEF HandleInv
<1>8. ASSUME NEW h \in Handles, SetSend(h) PROVE HandleInv'
  <2>1. UNCHANGED <<object, stopped, removeCh>> /\ hpc' = [hpc EXCEPT ![h] = "set"]
    BY <1>8 DEF SetSend
  <2> QED
    BY <1>2, <1>4, <2>1 DEF ControlOK
<1>9. CASE UNCHANGED <<object, stopped, removeCh, hpc>>
  BY <1>4, <1>9
<1> QED
  BY <1>5, <1>6, <1>7, <1>8, <1>9
  DEF Next, TickStep, Tick, Reset, Shutdown, AddProcSend, TickNow, TickPop, TickReAdd, TickSleep,
      TickStop, TickAdd, TickDrain, Receive, TickDrained, TickMod, TickWake, vars, handleVars

\* A handled Stop has marked the object of the handle (heaptimer.go:217), and
\* the loop over the heap does not call a marked object (160).
THEOREM StopSilencesCorrect == Spec => StopSilences
<1>1. ASSUME TypeInv, HandleInv, [Next]_vars
      PROVE  [\A o \in Objects :
                 calls'[o] > calls[o] /\ timer[o].handle \in stopped
                     => o \in overdue' \/ o # object[timer[o].handle]]_vars
  <2>1. ASSUME NEW o \in Objects, calls'[o] > calls[o], timer[o].handle \in stopped,
               o = object[timer[o].handle]
        PROVE  o \in overdue'
    <3>1. calls[o] \in Nat
      BY <1>1 DEF TypeInv, TypeOK, Objects
    <3>2. calls'[o] # calls[o]
      BY <2>1, <3>1
    <3>3. Called(o)
      BY <1>1, <3>2, CallsStep
    <3>4. timer[o].removed
      BY <1>1, <2>1 DEF HandleInv
    <3> QED
      BY <3>3, <3>4 DEF Called
  <2> QED
    BY <2>1
<1> QED
  BY <1>1, TypeInit, TypeStep, HandleInit, HandleStep, PTL DEF Spec, StopSilences

-----------------------------------------------------------------------------
\* Places: what the goroutine, the channel, the heap, the callers and the
\* goroutines of addFn hold.

Apart(A, H, P, S, c) ==
  /\ A \cap H = {} /\ A \cap P = {} /\ A \cap S = {}
  /\ H \cap P = {} /\ H \cap S = {} /\ P \cap S = {}
  /\ c \notin A /\ c \notin H /\ c \notin P /\ c \notin S

Places == Positions(addCh) \cup heap \cup addProcs \cup Adding \cup {current}

\* What is due to be called has not been called yet, and what has not been called
\* is held somewhere.
DueOnce(o) == ~IsTicker(o) => calls[o] <= 1 /\ (calls[o] = 1 => o \notin Places)
DueKept(o) ==
  ~timer[o].removed /\ (IF IsTicker(o) THEN o \notin overdue ELSE calls[o] = 0) => o \in Places

PlaceInv ==
  /\ Distinct(addCh)
  /\ Apart(Positions(addCh), heap, addProcs, Adding, current)
  /\ current # 0 => IsTicker(current)
  /\ \A o \in Objects : DueOnce(o) /\ DueKept(o)

LEMMA PlaceInit == Init => PlaceInv
<1> SUFFICES ASSUME Init
             PROVE  PlaceInv
  OBVIOUS
<1>1. /\ Positions(addCh) = {} /\ heap = {} /\ addProcs = {} /\ Adding = {} /\ current = 0
      /\ Objects = {} /\ addCh = <<>>
  BY DEF Init, Positions, Adding, Objects
<1>2. Distinct(addCh)
  BY <1>1 DEF Distinct
<1>3. Apart(Positions(addCh), heap, addProcs, Adding, current)
  BY <1>1 DEF Apart
<1> QED
  BY <1>1, <1>2, <1>3 DEF PlaceInv

\* The objects that callers are about to send.
LEMMA AddingStep ==
  ASSUME TypeInv, HandleInv
  PROVE  /\ Adding \subseteq Objects
         /\ UNCHANGED <<hpc, object>> => Adding' = Adding
         /\ \A h \in Handles :
               /\ Set(h) /\ stop => Adding' = Adding
               /\ Set(h) /\ ~stop => Adding' = Adding \cup {Len(timer) + 1}
               /\ SetSend(h) => object[h] \in Adding /\ Adding' = Adding \ {object[h]}
<1>1. /\ object \in [Handles -> Objects \cup {0}] /\ hpc \in [Handles -> HandlePc]
      /\ \A h \in Handles : hpc[h] \in {"adding", "set"} => object[h] # 0
  BY DEF TypeInv, TypeOK
<1>2. Adding \subseteq Objects
  BY <1>1 DEF Adding
<1>3. UNCHANGED <<hpc, object>> => Adding' = Adding
  BY DEF Adding
<1>4. ASSUME NEW h \in Handles, Set(h), stop PROVE Adding' = Adding
  <2>1. object' = object /\ hpc' = [hpc EXCEPT ![h] = "panic"] /\ hpc[h] = "new"
    BY <1>4 DEF Set
  <2>2. \A g \in Handles : hpc'[g] = "adding" <=> hpc[g] = "adding"
    BY <1>1, <2>1
  <2> QED
    BY <2>1, <2>2 DEF Adding
<1>5. ASSUME NEW h \in Handles, Set(h), ~stop PROVE Adding' = Adding \cup {Len(timer) + 1}
  <2>1. object' = [object EXCEPT ![h] = Len(timer) + 1] /\ hpc' = [hpc EXCEPT ![h] = "adding"]
        /\ hpc[h] = "new"
    BY <1>5 DEF Set
  <2>2. \A g \in Handles : g # h => hpc'[g] = hpc[g] /\ object'[g] = object[g]
    BY <1>1, <2>1
  <2>3. hpc'[h] = "adding" /\ object'[h] = Len(timer) + 1
    BY <1>1, <2>1
  <2> QED
    BY <2>1, <2>2, <2>3 DEF Adding
<1>6. ASSUME NEW h \in Handles, SetSend(h)
      PROVE  object[h] \in Adding /\ Adding' = Adding \ {object[h]}
  <2>1. object' = object /\ hpc' = [hpc EXCEPT ![h] = "set"] /\ hpc[h] = "adding"
    BY <1>6 DEF SetSend
  <2>2. \A g \in Handles : g # h => hpc'[g] = hpc[g]
    BY <1>1, <2>1
  <2>3. hpc'[h] = "set"
    BY <1>1, <2>1
  <2>4. \A g \in Handles : hpc[g] = "adding" /\ object[g] = object[h] => g = h
    BY <1>1, <2>1 DEF HandleInv
  <2> QED
    BY <2>1, <2>2, <2>3, <2>4 DEF Adding
<1> QED
  BY <1>2, <1>3, <1>4, <1>5, <1>6

\* An object that is in no place is sent to addCh or given to a goroutine.
LEMMA AddFnPlaces ==
  ASSUME TypeInv, Distinct(addCh), NEW o \in Nat, o \notin Positions(addCh), AddFn(o)
  PROVE  /\ Distinct(addCh')
         /\ \/ Positions(addCh') = Positions(addCh) \cup {o} /\ addProcs' = addProcs
            \/ Positions(addCh') = Positions(addCh) /\ addProcs' = addProcs \cup {o}
<1>1. ChannelsOK
  BY TypeParts
<1>2. CASE addCh' = Append(addCh, o) /\ UNCHANGED addProcs
  <2>1. Distinct(addCh')
    BY <1>1, <1>2, DistinctAppend DEF ChannelsOK
  <2>2. Positions(addCh') = Positions(addCh) \cup {o}
    BY <1>1, <1>2, PositionsAppend DEF ChannelsOK
  <2> QED
    BY <1>2, <2>1, <2>2
<1>3. CASE addProcs' = addProcs \cup {o} /\ UNCHANGED addCh
  BY <1>3 DEF Distinct, Positions
<1> QED
  BY <1>1, <1>2, <1>3, AddFnEffect

\* How the number of callbacks grows.
LEMMA TriggerCount ==
  ASSUME TypeInv, NEW o \in Objects, Trigger(o)
  PROVE  calls[o] = 0 => calls'[o] = 1
<1>1. calls'[o] = IF calls[o] < 2 THEN calls[o] + 1 ELSE 2
  BY DEF Trigger, TypeInv, TypeOK, Objects
<1> QED
  BY <1>1

\* A place loses an object only to another place, or when it is called or was removed.
LEMMA PlaceStep == TypeInv /\ HandleInv /\ PlaceInv /\ [Next]_vars => PlaceInv'
<1> SUFFICES ASSUME TypeInv, HandleInv, PlaceInv, [Next]_vars
             PROVE  PlaceInv'
  OBVIOUS
<1>1. /\ ChannelsOK /\ RefsOK /\ ObjectsOK
      /\ heap \subseteq Objects /\ addProcs \subseteq Objects /\ Positions(addCh) \subseteq Objects
      /\ current \in Objects \cup {0} /\ Adding \subseteq Objects
  BY TypeParts, AddingStep DEF RefsOK
<1>2. /\ Objects = 1..Len(timer) /\ Len(timer) \in Nat /\ Objects \subseteq Objects'
      /\ \A o \in Objects : /\ timer'[o].handle = timer[o].handle
                            /\ timer[o].removed => timer'[o].removed
                            /\ IsTicker(o)' <=> IsTicker(o)
  <2>1. \A o \in Objects : /\ timer'[o].handle = timer[o].handle
                           /\ timer[o].removed => timer'[o].removed
    BY GrownStep DEF Grown
  <2>2. Objects \subseteq Objects'
    BY GrownStep DEF Grown, Objects
  <2> QED
    BY <2>1, <2>2, ObjectsRange DEF IsTicker
<1>3. 0 \notin Objects /\ Len(timer) + 1 \notin Objects /\ Objects \subseteq Nat /\ Len(timer) + 1 \in Nat \ {0}
  BY <1>2
<1>4. ASSUME NEW o \in Objects, calls'[o] = calls[o], o \in overdue' <=> o \in overdue,
             o \in Places' <=> o \in Places
      PROVE  DueOnce(o)' /\ DueKept(o)'
  BY <1>2, <1>4 DEF PlaceInv, DueOnce, DueKept
<1>5. ASSUME UNCHANGED <<calls, addCh, heap, addProcs, current, overdue>>, Adding' = Adding,
             Objects' = Objects
      PROVE  PlaceInv'
  <2>1. Adding' = Adding
    BY <1>5
  <2>2. Places' = Places
    BY <1>5, <2>1 DEF Places, Positions
  <2>3. \A o \in Objects' : DueOnce(o)' /\ DueKept(o)'
    BY <1>4, <1>5, <2>2
  <2>4. Distinct(addCh') /\ Apart(Positions(addCh'), heap', addProcs', Adding', current')
    BY <1>5, <2>1 DEF PlaceInv, Distinct, Positions
  <2>5. current' # 0 => IsTicker(current)'
    BY <1>1, <1>2, <1>5 DEF PlaceInv, IsTicker
  <2> QED
    BY <2>3, <2>4, <2>5 DEF PlaceInv
<1> DEFINE A == Positions(addCh)
<1>b. /\ Distinct(addCh) /\ Apart(A, heap, addProcs, Adding, current)
      /\ current # 0 => IsTicker(current)
      /\ Places = A \cup heap \cup addProcs \cup Adding \cup {current}
      /\ Places' = A' \cup heap' \cup addProcs' \cup Adding' \cup {current'}
  BY DEF PlaceInv, Places
<1>6. ASSUME NEW h \in Handles, Set(h) PROVE PlaceInv'
  <2>1. UNCHANGED <<addCh, heap, addProcs, current, overdue>>
    BY <1>6 DEF Set, tickVars
  <2>2. CASE stop
    <3>1. UNCHANGED <<timer, calls>> /\ Adding' = Adding
      BY <1>6, <2>2, AddingStep DEF Set
    <3> QED
      BY <1>5, <2>1, <3>1 DEF Objects
  <2>3. CASE ~stop
    <3>0. PICK n \in Nat : n = Len(timer) + 1
      BY <1>3
    <3>1. /\ calls' = Append(calls, 0) /\ Adding' = Adding \cup {n}
          /\ \E d \in Durations :
                timer' = Append(timer, [handle |-> h, trigger |-> After(clock, d),
                                        duration |-> d, removed |-> FALSE])
      BY <1>6, <2>3, <3>0, AddingStep DEF Set
    <3>2. Objects' = Objects \cup {n}
      BY <1>1, <3>0, <3>1 DEF ObjectsOK, Objects
    <3>3. calls'[n] = 0 /\ \A o \in Objects : calls'[o] = calls[o]
      BY <1>1, <1>2, <3>0, <3>1, ObjectsRange DEF ObjectsOK
    <3>4. n \notin Objects /\ n # 0
      BY <1>3, <3>0
    <3>5. A' = A /\ Distinct(addCh') /\ Apart(A', heap', addProcs', Adding', current')
      <4>1. A' = A /\ Distinct(addCh')
        BY <1>b, <2>1 DEF Positions, Distinct
      <4> QED
        BY <1>1, <1>b, <2>1, <3>1, <3>4, <4>1 DEF Apart
    <3>6. \A o \in Objects : DueOnce(o)' /\ DueKept(o)'
      BY <1>4, <1>b, <2>1, <3>1, <3>3, <3>4, <3>5
    <3>7. DueOnce(n)' /\ DueKept(n)'
      <4>1. n \in Places'
        BY <1>b, <3>1
      <4>2. calls'[n] <= 1 /\ calls'[n] # 1
        BY <3>3
      <4> QED
        BY <4>1, <4>2, Zenon DEF DueOnce, DueKept
    <3>8. current' # 0 => IsTicker(current)'
      BY <1>1, <1>2, <1>b, <2>1
    <3> QED
      BY <3>2, <3>5, <3>6, <3>7, <3>8 DEF PlaceInv
  <2> QED
    BY <2>2, <2>3
<1>7. ASSUME NEW h \in Handles, SetSend(h) PROVE PlaceInv'
  <2> DEFINE o == object[h]
  <2>1. /\ UNCHANGED <<timer, calls, heap, addProcs, current, overdue>>
        /\ addCh' = Append(addCh, o)
    BY <1>7 DEF SetSend, tickVars
  <2>2. o \in Adding /\ Adding' = Adding \ {o}
    BY <1>7, AddingStep
  <2> HIDE DEF o
  <2>3. o \notin A /\ o \in Nat
    BY <1>1, <1>3, <1>b, <2>2 DEF Apart
  <2>4. A' = A \cup {o} /\ Distinct(addCh')
    BY <1>1, <1>b, <2>1, <2>3, PositionsAppend, DistinctAppend DEF ChannelsOK
  <2>5. Apart(A', heap', addProcs', Adding', current') /\ Places' = Places
    BY <1>b, <2>1, <2>2, <2>4 DEF Apart
  <2>6. \A p \in Objects : DueOnce(p)' /\ DueKept(p)'
    BY <1>4, <2>1, <2>5
  <2> QED
    BY <1>1, <1>2, <1>b, <2>1, <2>4, <2>5, <2>6 DEF PlaceInv, Objects
<1>8. ASSUME NEW o \in Objects, AddProcSend(o) PROVE PlaceInv'
  <2>1. /\ UNCHANGED <<timer, calls, heap, current, overdue, hpc, object>>
        /\ o \in addProcs /\ addCh' = Append(addCh, o) /\ addProcs' = addProcs \ {o}
    BY <1>8 DEF AddProcSend, tickVars, handleVars
  <2>2. Adding' = Adding
    BY <2>1, AddingStep
  <2>3. o \notin A /\ o \in Nat
    BY <1>1, <1>3, <1>b, <2>1 DEF Apart
  <2>4. A' = A \cup {o} /\ Distinct(addCh')
    BY <1>1, <1>b, <2>1, <2>3, PositionsAppend, DistinctAppend DEF ChannelsOK
  <2>5. Apart(A', heap', addProcs', Adding', current') /\ Places' = Places
    BY <1>b, <2>1, <2>2, <2>4 DEF Apart
  <2>6. \A p \in Objects : DueOnce(p)' /\ DueKept(p)'
    BY <1>4, <2>1, <2>5
  <2> QED
    BY <1>1, <1>2, <1>b, <2>1, <2>4, <2>5, <2>6 DEF PlaceInv, Objects
<1>9. ASSUME NEW o \in heap, TickPop(o) PROVE PlaceInv'
  <2>1. /\ UNCHANGED <<timer, addCh, addProcs, overdue, hpc, object>>
        /\ tpc = "scan" /\ heap' = heap \ {o}
    BY <1>9 DEF TickPop, handleVars
  <2>2. Adding' = Adding /\ A' = A /\ Distinct(addCh') /\ Objects' = Objects /\ o \in Objects
    BY <1>1, <1>b, <2>1, AddingStep DEF Positions, Distinct, Objects
  <2>3. current = 0
    BY <1>1, <2>1 DEF RefsOK
  <2>4. CASE timer[o].removed
    <3>1. UNCHANGED <<calls, current>>
      BY <1>9, <2>4 DEF TickPop
    <3>2. Apart(A', heap', addProcs', Adding', current')
      BY <1>b, <2>1, <2>2, <3>1 DEF Apart
    <3>3. \A p \in Objects : p # o => DueOnce(p)' /\ DueKept(p)'
      BY <1>4, <1>b, <2>1, <2>2, <3>1
    <3>4. DueOnce(o)' /\ DueKept(o)'
      <4>1. o \in Places
        BY <1>b
      <4>2. ~IsTicker(o) => calls[o] <= 1 /\ calls[o] # 1
        BY <2>2, <4>1 DEF PlaceInv, DueOnce
      <4>3. timer'[o].removed
        BY <2>1, <2>4
      <4> QED
        BY <1>2, <2>2, <3>1, <4>2, <4>3 DEF DueOnce, DueKept
    <3> QED
      BY <1>b, <2>1, <2>2, <2>3, <3>1, <3>2, <3>3, <3>4 DEF PlaceInv
  <2>5. CASE ~timer[o].removed
    <3>1. Trigger(o) /\ current' = IF IsTicker(o) THEN o ELSE 0
      BY <1>9, <2>3, <2>5 DEF TickPop
    <3>2. \A p \in Objects : p # o => calls'[p] = calls[p]
      BY <2>2, <3>1, TriggerType
    <3>3. o \notin A' /\ o \notin heap' /\ o \notin addProcs' /\ o \notin Adding'
      BY <1>b, <2>1, <2>2 DEF Apart
    <3>4. Apart(A', heap', addProcs', Adding', current')
      BY <1>1, <1>3, <1>b, <2>1, <2>2, <2>3, <3>1, <3>3 DEF Apart
    <3>5. \A p \in Objects : p # o => (p \in Places' <=> p \in Places)
      BY <1>3, <1>b, <2>1, <2>2, <2>3, <3>1
    <3>6. \A p \in Objects : p # o => DueOnce(p)' /\ DueKept(p)'
      BY <1>4, <2>1, <3>2, <3>5
    <3>7. DueOnce(o)' /\ DueKept(o)'
      <4>1. CASE IsTicker(o)
        <5>1. o \in Places'
          BY <1>b, <3>1, <4>1
        <5>2. IsTicker(o)'
          BY <1>2, <2>2, <4>1
        <5> QED
          BY <5>1, <5>2 DEF DueOnce, DueKept
      <4>2. CASE ~IsTicker(o)
        <5>1. calls[o] = 0
          <6>1. o \in Places /\ calls[o] \in Nat
            BY <1>1, <1>b, <2>2 DEF ObjectsOK, Objects
          <6>2. calls[o] <= 1 /\ calls[o] # 1
            BY <2>2, <4>2, <6>1 DEF PlaceInv, DueOnce
          <6> QED
            BY <6>1, <6>2
        <5>2. calls'[o] = 1
          BY <2>2, <3>1, <5>1, TriggerCount
        <5>3. o \notin Places' /\ ~IsTicker(o)'
          BY <1>2, <1>3, <1>b, <2>2, <3>1, <3>3, <4>2
        <5> QED
          BY <5>2, <5>3 DEF DueOnce, DueKept
      <4> QED
        BY <4>1, <4>2
    <3>8. current' # 0 => IsTicker(current)'
      BY <1>2, <2>2, <3>1 DEF IsTicker
    <3> QED
      BY <2>2, <3>4, <3>6, <3>7, <3>8 DEF PlaceInv
  <2> QED
    BY <2>4, <2>5
<1>10. CASE TickReAdd
  <2>0. PICK o \in Objects : o = current
    BY <1>1, <1>10 DEF TickReAdd, RefsOK
  <2>1. /\ UNCHANGED <<calls, heap, overdue, hpc, object>>
        /\ current' = 0 /\ AddFn(o) /\ \E v : timer' = [timer EXCEPT ![current].trigger = v]
    BY <1>10, <2>0 DEF TickReAdd, handleVars
  <2>2. Adding' = Adding /\ Objects' = Objects
    BY <2>1, AddingStep DEF Objects
  <2>3. o \notin A /\ o \in Nat /\ o \notin heap /\ o \notin addProcs /\ o \notin Adding
    BY <1>3, <1>b, <2>0 DEF Apart
  <2>4. /\ Distinct(addCh')
        /\ \/ A' = A \cup {o} /\ addProcs' = addProcs
           \/ A' = A /\ addProcs' = addProcs \cup {o}
    BY <1>b, <2>1, <2>3, AddFnPlaces
  <2>5. 0 \notin A' /\ 0 \notin heap' /\ 0 \notin addProcs' /\ 0 \notin Adding'
    BY <1>1, <1>3, <2>1, <2>2, <2>4
  <2>6. Apart(A', heap', addProcs', Adding', current')
    BY <1>b, <2>1, <2>2, <2>3, <2>4, <2>5 DEF Apart
  <2>7. \A p \in Objects : p \in Places' <=> p \in Places
    BY <1>3, <1>b, <2>0, <2>1, <2>2, <2>4
  <2>8. \A p \in Objects : DueOnce(p)' /\ DueKept(p)'
    BY <1>4, <2>1, <2>7
  <2> QED
    BY <2>1, <2>2, <2>4, <2>6, <2>8 DEF PlaceInv
<1>11. CASE TickAdd \/ TickDrain
  <2>1. PICK limit \in {now, clock}, next \in {"loop", "drain"} :
          addCh # <<>> /\ Receive(limit, next) /\ tpc \in {"select", "drain"}
    BY <1>11, ReceiveForm
  <2>2. PICK o \in Objects : o = Head(addCh)
    BY <2>1, Heads
  <2>3. /\ UNCHANGED <<timer, addProcs, current, hpc, object>> /\ addCh' = Tail(addCh)
    BY <2>1 DEF Receive, handleVars
  <2>4. /\ Distinct(addCh') /\ o \notin A' /\ o \in A /\ A = A' \cup {o}
        /\ Adding' = Adding /\ Objects' = Objects
    <3>1. Distinct(addCh') /\ o \notin A'
      BY <1>1, <1>b, <2>1, <2>2, <2>3, DistinctTail DEF ChannelsOK
    <3>2. o \in A /\ A = A' \cup {o}
      BY <1>1, <2>1, <2>2, <2>3, PositionsTail DEF ChannelsOK
    <3> QED
      BY <2>3, <3>1, <3>2, AddingStep DEF Objects
  <2>5. o \notin heap /\ o \notin addProcs /\ o \notin Adding /\ o # current
    BY <1>b, <2>4 DEF Apart
  <2>6. current' # 0 => IsTicker(current)'
    BY <1>1, <1>2, <1>b, <2>3
  <2>7. CASE timer[o].trigger < limit
    <3>1. Trigger(o) /\ overdue' = overdue \cup {o} /\ heap' = heap
      BY <2>1, <2>2, <2>7 DEF Receive
    <3>2. Apart(A', heap', addProcs', Adding', current')
      BY <1>b, <2>3, <2>4, <3>1 DEF Apart
    <3>3. \A p \in Objects : p # o => calls'[p] = calls[p]
      BY <3>1, TriggerType
    <3>4. \A p \in Objects : p # o => DueOnce(p)' /\ DueKept(p)'
      BY <1>4, <1>b, <2>3, <2>4, <3>1, <3>3
    <3>5. o \notin Places' /\ o \in overdue'
      BY <1>b, <2>3, <2>4, <2>5, <3>1
    <3>6. DueOnce(o)' /\ DueKept(o)'
      <4>1. CASE IsTicker(o)
        <5>1. IsTicker(o)'
          BY <1>2, <4>1
        <5> QED
          BY <3>5, <5>1 DEF DueOnce, DueKept
      <4>2. CASE ~IsTicker(o)
        <5>1. calls[o] = 0
          <6>1. o \in Places /\ calls[o] \in Nat
            BY <1>1, <1>b, <2>4 DEF ObjectsOK, Objects
          <6>2. calls[o] <= 1 /\ calls[o] # 1
            BY <4>2, <6>1 DEF PlaceInv, DueOnce
          <6> QED
            BY <6>1, <6>2
        <5>2. calls'[o] = 1
          BY <3>1, <5>1, TriggerCount
        <5>3. ~IsTicker(o)'
          BY <1>2, <4>2
        <5> QED
          BY <3>5, <5>2, <5>3 DEF DueOnce, DueKept
      <4> QED
        BY <4>1, <4>2
    <3> QED
      BY <2>4, <2>6, <3>2, <3>4, <3>6 DEF PlaceInv
  <2>8. CASE ~(timer[o].trigger < limit)
    <3>1. UNCHANGED <<calls, overdue>> /\ heap' = heap \cup {o}
      BY <2>1, <2>2, <2>8 DEF Receive
    <3>2. Apart(A', heap', addProcs', Adding', current')
      BY <1>b, <2>3, <2>4, <2>5, <3>1 DEF Apart
    <3>3. Places' = Places
      BY <1>b, <2>3, <2>4, <3>1
    <3>4. \A p \in Objects : DueOnce(p)' /\ DueKept(p)'
      BY <1>4, <3>1, <3>3
    <3> QED
      BY <2>4, <2>6, <3>2, <3>4 DEF PlaceInv
  <2> QED
    BY <2>7, <2>8
<1>12. CASE TickMod
  <2>0. PICK n \in Nat : n = Len(timer) + 1
    BY <1>3
  <2>1. PICK m \in Objects : /\ timer'[m].removed
                             /\ \A o \in Objects : calls'[o] = calls[o]
                             /\ calls'[n] = 0 /\ Objects' = Objects \cup {n}
    BY <1>12, <2>0, CopyAdded DEF Objects
  <2>2. /\ UNCHANGED <<heap, overdue, hpc, object, current>> /\ AddFn(n)
    BY <1>12, <2>0 DEF TickMod, handleVars
  <2>3. n \notin Objects /\ n # 0 /\ Adding' = Adding
    BY <1>3, <2>0, <2>2, AddingStep
  <2>4. n \notin A /\ n \notin heap /\ n \notin addProcs /\ n \notin Adding /\ n # current
    BY <1>1, <2>3
  <2>5. /\ Distinct(addCh')
        /\ \/ A' = A \cup {n} /\ addProcs' = addProcs
           \/ A' = A /\ addProcs' = addProcs \cup {n}
    BY <1>b, <2>2, <2>4, AddFnPlaces
  <2>6. Apart(A', heap', addProcs', Adding', current')
    BY <1>b, <2>2, <2>3, <2>4, <2>5 DEF Apart
  <2>7. n \in Places' /\ \A p \in Objects : p \in Places' <=> p \in Places
    BY <1>b, <2>2, <2>3, <2>5
  <2>8. \A p \in Objects : DueOnce(p)' /\ DueKept(p)'
    BY <1>4, <2>1, <2>2, <2>7
  <2>9. DueOnce(n)' /\ DueKept(n)'
    <3>1. calls'[n] <= 1 /\ calls'[n] # 1
      BY <2>1
    <3> QED
      BY <2>7, <3>1, Zenon DEF DueOnce, DueKept
  <2>10. current' # 0 => IsTicker(current)'
    BY <1>1, <1>2, <1>b, <2>2
  <2> QED
    BY <2>1, <2>5, <2>6, <2>8, <2>9, <2>10 DEF PlaceInv
<1>13. CASE TickRemove
  <2>1. /\ UNCHANGED <<calls, addCh, heap, addProcs, current, overdue, hpc, object>>
        /\ DOMAIN timer' = DOMAIN timer
    BY <1>13 DEF TickRemove, handleVars
  <2> QED
    BY <1>5, <2>1, AddingStep DEF Objects
<1>14. ASSUME UNCHANGED <<timer, calls, addCh, heap, addProcs, current, overdue, hpc, object>>
       PROVE  PlaceInv'
  BY <1>5, <1>14, AddingStep DEF Objects
<1>15. ASSUME NEW h \in Handles, Stop(h) \/ Reset(h) PROVE PlaceInv'
  BY <1>14, <1>15 DEF Stop, Reset, tickVars, handleVars
<1>16. CASE \/ Tick \/ Shutdown \/ TickNow \/ TickSleep \/ TickStop \/ TickDrained \/ TickWake
            \/ UNCHANGED vars
  BY <1>14, <1>16
  DEF Tick, Shutdown, TickNow, TickSleep, TickStop, TickDrained, TickWake, vars, tickVars, handleVars
<1> QED
  BY <1>6, <1>7, <1>8, <1>9, <1>10, <1>11, <1>12, <1>13, <1>15, <1>16 DEF Next, TickStep

\* What the places hold, in the words of the properties.
LEMMA HeldPlaces ==
  ASSUME TypeInv, PlaceInv, NEW o \in Objects
  PROVE  /\ o \in Places => Held(o) = 1
         /\ o \notin Places => Held(o) = 0
<1> DEFINE I == {i \in DOMAIN addCh : addCh[i] = o}
<1>1. /\ Distinct(addCh) /\ Apart(Positions(addCh), heap, addProcs, Adding, current)
  BY DEF PlaceInv
<1>2. Cardinality(I) = IF o \in Positions(addCh) THEN 1 ELSE 0
  <2>1. CASE o \in Positions(addCh)
    <3>1. PICK i \in DOMAIN addCh : addCh[i] = o
      BY <2>1 DEF Positions
    <3>2. I = {i}
      BY <1>1, <3>1 DEF Distinct
    <3> QED
      BY <2>1, <3>2, FS_Singleton
  <2>2. CASE o \notin Positions(addCh)
    <3>1. I = {}
      BY <2>2 DEF Positions
    <3> QED
      BY <2>2, <3>1, FS_EmptySet
  <2> QED
    BY <2>1, <2>2
<1>3. ASSUME NEW S PROVE Cardinality({o} \cap S) = IF o \in S THEN 1 ELSE 0
  <2>1. CASE o \in S
    <3>1. {o} \cap S = {o}
      BY <2>1
    <3> QED
      BY <2>1, <3>1, FS_Singleton
  <2>2. CASE o \notin S
    <3>1. {o} \cap S = {}
      BY <2>2
    <3> QED
      BY <2>2, <3>1, FS_EmptySet
  <2> QED
    BY <2>1, <2>2
<1>4. Held(o) = (IF o \in Positions(addCh) THEN 1 ELSE 0) + (IF o \in heap THEN 1 ELSE 0)
                   + (IF o \in addProcs THEN 1 ELSE 0) + (IF o \in Adding THEN 1 ELSE 0)
                   + (IF current = o THEN 1 ELSE 0)
  <2>1. /\ Cardinality({o} \cap heap) = IF o \in heap THEN 1 ELSE 0
        /\ Cardinality({o} \cap addProcs) = IF o \in addProcs THEN 1 ELSE 0
        /\ Cardinality({o} \cap Adding) = IF o \in Adding THEN 1 ELSE 0
    BY <1>3
  <2> HIDE DEF I
  <2> QED
    BY <1>2, <2>1 DEF Held, I
<1> HIDE DEF I
<1>5. CASE o \in Places
  BY <1>1, <1>4, <1>5 DEF Places, Apart
<1>6. CASE o \notin Places
  BY <1>4, <1>6 DEF Places
<1> QED
  BY <1>5, <1>6

LEMMA PlacesCorrect == Spec => [](TypeInv /\ PlaceInv)
  BY TypeInit, TypeStep, HandleInit, HandleStep, PlaceInit, PlaceStep, PTL DEF Spec

\* An object of a timer is in one place at a time, heap, addCh, a goroutine of addFn
\* (heaptimer.go:135-143) or a caller, and called once: a Reset copies it (210-214).
THEOREM HeldOnceCorrect == Spec => []HeldOnce
<1>1. ASSUME TypeInv, PlaceInv PROVE HeldOnce
  <2>1. ASSUME NEW o \in Objects
        PROVE  Held(o) <= 1 /\ (~IsTicker(o) => calls[o] + Held(o) <= 1)
    <3>1. Held(o) = IF o \in Places THEN 1 ELSE 0
      BY <1>1, HeldPlaces
    <3>2. calls[o] \in Nat
      BY <1>1 DEF TypeInv, TypeOK, Objects
    <3>3. ~IsTicker(o) => calls[o] <= 1 /\ (calls[o] = 1 => o \notin Places)
      BY <1>1 DEF PlaceInv, DueOnce
    <3> QED
      BY <3>1, <3>2, <3>3
  <2> QED
    BY <2>1 DEF HeldOnce
<1> QED
  BY <1>1, PlacesCorrect, PTL

\* addFn never drops an object (heaptimer.go:135-143): what has not been called and is
\* not removed is still held, but for a ticker that was overdue (190, 199).
THEOREM TimerKeptCorrect == Spec => []TimerKept
<1>1. ASSUME TypeInv, PlaceInv PROVE TimerKept
  <2>1. ASSUME NEW o \in Objects,
               ~timer[o].removed, IF IsTicker(o) THEN o \notin overdue ELSE calls[o] = 0
        PROVE  Held(o) = 1
    <3>1. o \in Places
      BY <1>1, <2>1 DEF PlaceInv, DueKept
    <3> QED
      BY <1>1, <3>1, HeldPlaces
  <2> QED
    BY <2>1 DEF TimerKept
<1> QED
  BY <1>1, PlacesCorrect, PTL

=============================================================================
