----------------------------- MODULE HeapTimer -----------------------------
(***************************************************************************)
(* The heap based timer scheduler of tools/timer/heaptimer.go.  One        *)
(* goroutine, tick, owns the heap.  Everybody else talks to it over three  *)
(* buffered channels: addCh for new timers, modCh for Reset and removeCh   *)
(* for Stop.  A timer object is named by its index in "timer", as a        *)
(* pointer names it in the code; Reset makes tick copy the object.         *)
(*                                                                         *)
(* Time is a discrete clock.  A callback is the event that it is called:   *)
(* what it does, in the tick goroutine (WithSync), in a goroutine of its   *)
(* own (WithAsync) or in a pool, is not part of the module.                *)
(***************************************************************************)
EXTENDS Integers, Sequences, FiniteSets

CONSTANTS
    Timers,     \* handles that SetTimer returns, one call each
    Tickers,    \* handles that SetTicker returns, one call each
    Durations,  \* the durations passed to SetTimer, SetTicker and Reset
    ChanCap,    \* capacity of each channel (1024 in the code)
    MaxResets,  \* bound: calls of Reset
    LastCall,   \* bound: no Set and no Reset after this time
    MaxClock    \* bound: the last instant stands for every later one

Handles == Timers \cup Tickers

ASSUME TimerAssumption ==
    /\ Timers \cap Tickers = {}
    /\ Durations \subseteq Nat
    /\ ChanCap \in Nat \ {0}
    /\ MaxResets \in Nat /\ LastCall \in Nat /\ MaxClock \in Nat

VARIABLES
    clock,      \* time.Now()
    timer,      \* the timer objects, in order of allocation
    heap,       \* h.timers: the objects in the heap
    addCh, modCh, removeCh,
    addProcs,   \* objects that addFn goroutines are blocked sending to addCh
    stop,       \* h.stop is closed
    tpc,        \* where the tick goroutine is
    now,        \* its variable "now"
    current,    \* the ticker it has called back and is about to add again, or 0
    wakeAt,     \* when its system timer fires, or Never
    hpc,        \* where the owner of each handle is
    object,     \* the object of each handle, 0 before SetTimer
    calls,      \* history: how often each object was called back (2: or more)
    overdue,    \* history: objects that were called back as they left addCh
    stopped,    \* history: handles whose Stop the tick goroutine has handled
    resets      \* number of Reset calls made

tickVars   == <<heap, tpc, now, current, wakeAt>>
handleVars == <<hpc, object, resets>>
vars == <<clock, timer, addCh, modCh, removeCh, addProcs, stop, calls, overdue,
          stopped, tickVars, handleVars>>

Never == -1

\* t.Add(d)
After(t, d) == IF t + d < MaxClock THEN t + d ELSE MaxClock

Objects == DOMAIN timer
IsTicker(o) == timer[o].handle \in Tickers

TickPc   == {"loop", "scan", "readd", "select", "drain", "exited"}
HandlePc == {"new", "adding", "set", "panic"}

Positions(s) == {s[i] : i \in DOMAIN s}

\* Every variable has its type, and every reference is to an object.
TypeOK ==
    /\ clock \in 0..MaxClock
    /\ \A o \in Objects :
          timer[o] \in [handle : Handles, trigger : Nat, duration : Durations,
                        removed : BOOLEAN]
    /\ heap \cup addProcs \cup Positions(addCh) \cup Positions(removeCh) \subseteq Objects
    /\ \A m \in Positions(modCh) : m.t \in Objects /\ m.d \in Durations
    /\ Len(addCh) <= ChanCap /\ Len(modCh) <= ChanCap /\ Len(removeCh) <= ChanCap
    /\ stop \in BOOLEAN
    /\ tpc \in TickPc
    /\ now \in 0..MaxClock
    /\ current \in Objects \cup {0} /\ (current # 0 <=> tpc = "readd")
    /\ wakeAt \in Nat \cup {Never}
    /\ hpc \in [Handles -> HandlePc]
    /\ object \in [Handles -> Objects \cup {0}]
    /\ DOMAIN calls = Objects
    /\ overdue \subseteq Objects
    /\ stopped \subseteq Handles
    /\ resets \in 0..MaxResets

\* NewHeapTaskScheduler, with the tick goroutine started.
Init ==
    /\ clock = 0
    /\ timer = <<>>
    /\ heap = {}
    /\ addCh = <<>> /\ modCh = <<>> /\ removeCh = <<>>
    /\ addProcs = {}
    /\ stop = FALSE
    /\ tpc = "loop" /\ now = 0 /\ current = 0 /\ wakeAt = Never
    /\ hpc = [h \in Handles |-> "new"]
    /\ object = [h \in Handles |-> 0]
    /\ calls = <<>>
    /\ overdue = {}
    /\ stopped = {}
    /\ resets = 0

-----------------------------------------------------------------------------
\* The callers.

\* The only way in which time passes.
Tick ==
    /\ clock < MaxClock
    /\ clock' = clock + 1
    /\ UNCHANGED <<timer, addCh, modCh, removeCh, addProcs, stop, calls, overdue, stopped,
                   tickVars, handleVars>>

\* SetTimer and SetTicker: the check of h.stop, and the object.
Set(h) ==
    /\ hpc[h] = "new" /\ clock <= LastCall
    /\ IF stop
       THEN hpc' = [hpc EXCEPT ![h] = "panic"] /\ UNCHANGED <<timer, object, calls>>
       ELSE \E d \in Durations :
              /\ timer' = Append(timer, [handle |-> h, trigger |-> After(clock, d),
                                         duration |-> d, removed |-> FALSE])
              /\ object' = [object EXCEPT ![h] = Len(timer) + 1]
              /\ calls' = Append(calls, 0)
              /\ hpc' = [hpc EXCEPT ![h] = "adding"]
    /\ UNCHANGED <<clock, addCh, modCh, removeCh, addProcs, stop, overdue, stopped, resets, tickVars>>

\* The blocking send of the new object.
SetSend(h) ==
    /\ hpc[h] = "adding"
    /\ Len(addCh) < ChanCap
    /\ addCh' = Append(addCh, object[h])
    /\ hpc' = [hpc EXCEPT ![h] = "set"]
    /\ UNCHANGED <<clock, timer, modCh, removeCh, addProcs, stop, calls, overdue, stopped,
                   object, resets, tickVars>>

\* handle.Stop(), once it has sent.
Stop(h) ==
    /\ hpc[h] = "set"
    /\ Len(removeCh) < ChanCap
    /\ h \notin stopped /\ object[h] \notin Positions(removeCh)
    /\ removeCh' = Append(removeCh, object[h])
    /\ UNCHANGED <<clock, timer, addCh, modCh, addProcs, stop, calls, overdue, stopped,
                   tickVars, handleVars>>

\* timer.Reset(d), once it has sent; a ticker has no Reset.
Reset(h) ==
    /\ h \in Timers /\ hpc[h] = "set"
    /\ resets < MaxResets /\ clock <= LastCall
    /\ Len(modCh) < ChanCap
    /\ \E d \in Durations : modCh' = Append(modCh, [t |-> object[h], d |-> d])
    /\ resets' = resets + 1
    /\ UNCHANGED <<clock, timer, addCh, removeCh, addProcs, stop, calls, overdue, stopped,
                   hpc, object, tickVars>>

\* Shutdown, called once.
Shutdown ==
    /\ ~stop
    /\ stop' = TRUE
    /\ UNCHANGED <<clock, timer, addCh, modCh, removeCh, addProcs, calls, overdue, stopped,
                   tickVars, handleVars>>

-----------------------------------------------------------------------------
\* The tick goroutine.

\* h.triggerFn(o): the callback of the object is called.
Trigger(o) == calls' = [calls EXCEPT ![o] = IF @ < 2 THEN @ + 1 ELSE 2]

\* Mutant: an object that finds the channel full is dropped.
AddFn_Drops(o) ==
    /\ IF Len(addCh) < ChanCap THEN addCh' = Append(addCh, o) ELSE UNCHANGED addCh
    /\ UNCHANGED addProcs

\* addFn: a send that never blocks, a goroutine takes over when the channel
\* is full.
AddFn(o) ==
    IF Len(addCh) < ChanCap
    THEN addCh' = Append(addCh, o) /\ UNCHANGED addProcs
    ELSE addProcs' = addProcs \cup {o} /\ UNCHANGED addCh

\* That goroutine gets its object through.
AddProcSend(o) ==
    /\ o \in addProcs /\ Len(addCh) < ChanCap
    /\ addCh' = Append(addCh, o)
    /\ addProcs' = addProcs \ {o}
    /\ UNCHANGED <<clock, timer, modCh, removeCh, stop, calls, overdue, stopped, tickVars,
                   handleVars>>

\* The head of the heap (one of them when triggers are equal).
IsTop(o) == o \in heap /\ \A p \in heap : timer[o].trigger <= timer[p].trigger

\* now := time.Now()
TickNow ==
    /\ tpc = "loop"
    /\ now' = clock
    /\ tpc' = "scan"
    /\ UNCHANGED <<clock, timer, addCh, modCh, removeCh, addProcs, stop, calls, overdue, stopped,
                   heap, current, wakeAt, handleVars>>

\* Mutant: the trigger time of the head is not compared with now.
TickPop_Early(o) ==
    /\ tpc = "scan" /\ IsTop(o)
    /\ heap' = heap \ {o}
    /\ IF timer[o].removed THEN UNCHANGED <<calls, tpc, current>>
       ELSE /\ Trigger(o)
            /\ IF IsTicker(o) THEN tpc' = "readd" /\ current' = o
                              ELSE UNCHANGED <<tpc, current>>
    /\ UNCHANGED <<clock, timer, addCh, modCh, removeCh, addProcs, stop, overdue, stopped, now,
                   wakeAt, handleVars>>

\* One iteration of the loop over the heap: the head is due, it is popped and,
\* unless it was removed, called back; a ticker is then added again.
TickPop(o) ==
    /\ tpc = "scan" /\ IsTop(o) /\ timer[o].trigger <= now
    /\ heap' = heap \ {o}
    /\ IF timer[o].removed THEN UNCHANGED <<calls, tpc, current>>
       ELSE /\ Trigger(o)
            /\ IF IsTicker(o) THEN tpc' = "readd" /\ current' = o
                              ELSE UNCHANGED <<tpc, current>>
    /\ UNCHANGED <<clock, timer, addCh, modCh, removeCh, addProcs, stop, overdue, stopped, now,
                   wakeAt, handleVars>>

\* m.trigger = now.Add(m.duration); addFn(m)
TickReAdd ==
    /\ tpc = "readd"
    /\ timer' = [timer EXCEPT ![current].trigger = After(now, timer[current].duration)]
    /\ AddFn(current)
    /\ tpc' = "scan" /\ current' = 0
    /\ UNCHANGED <<clock, modCh, removeCh, stop, calls, overdue, stopped, heap, now, wakeAt,
                   handleVars>>

\* Mutant: the system timer is not set.
TickSleep_Unarmed ==
    /\ tpc = "scan" /\ \A o \in heap : timer[o].trigger > now
    /\ wakeAt' = Never
    /\ tpc' = "select"
    /\ UNCHANGED <<clock, timer, addCh, modCh, removeCh, addProcs, stop, calls, overdue, stopped,
                   heap, now, current, handleVars>>

\* The system timer is set to the whole duration of the head.
TickSleep ==
    /\ tpc = "scan" /\ \A o \in heap : timer[o].trigger > now
    /\ IF heap = {} THEN wakeAt' = Never
       ELSE \E o \in heap : IsTop(o) /\ wakeAt' = After(clock, timer[o].duration)
    /\ tpc' = "select"
    /\ UNCHANGED <<clock, timer, addCh, modCh, removeCh, addProcs, stop, calls, overdue, stopped,
                   heap, now, current, handleVars>>

\* The select: case <-h.stop.
TickStop ==
    /\ tpc = "select" /\ stop
    /\ tpc' = "exited"
    /\ UNCHANGED <<clock, timer, addCh, modCh, removeCh, addProcs, stop, calls, overdue, stopped,
                   heap, now, current, wakeAt, handleVars>>

\* case t := <-h.addCh: an object that is overdue is called back at once and
\* goes nowhere else, others go to the heap.  The comparison is with "now" for
\* the first object and with the clock for those drained after it.
Receive(limit, next) ==
    /\ addCh' = Tail(addCh)
    /\ LET o == Head(addCh) IN
          IF timer[o].trigger < limit
          THEN Trigger(o) /\ overdue' = overdue \cup {o} /\ UNCHANGED heap
          ELSE heap' = heap \cup {o} /\ UNCHANGED <<calls, overdue>>
    /\ tpc' = next
    /\ UNCHANGED <<clock, timer, modCh, removeCh, addProcs, stop, stopped, now, current,
                   wakeAt, handleVars>>

TickAdd ==
    /\ tpc = "select" /\ addCh # <<>>
    /\ Receive(now, IF timer[Head(addCh)].trigger < now THEN "loop" ELSE "drain")

TickDrain ==
    /\ tpc = "drain" /\ addCh # <<>>
    /\ Receive(clock, "drain")

TickDrained ==
    /\ tpc = "drain" /\ addCh = <<>>
    /\ tpc' = "loop"
    /\ UNCHANGED <<clock, timer, addCh, modCh, removeCh, addProcs, stop, calls, overdue, stopped,
                   heap, now, current, wakeAt, handleVars>>

\* Mutant: the timer is changed in place and added again, it is not copied.
TickMod_InPlace ==
    /\ tpc = "select" /\ modCh # <<>>
    /\ LET m == Head(modCh) IN
          /\ timer' = [timer EXCEPT ![m.t].duration = m.d, ![m.t].trigger = After(clock, m.d)]
          /\ AddFn(m.t)
    /\ modCh' = Tail(modCh)
    /\ tpc' = "loop"
    /\ UNCHANGED <<clock, removeCh, stop, calls, overdue, stopped, heap, now, current, wakeAt,
                   handleVars>>

\* case t := <-h.modCh: the object is copied, removed flag included, the copy
\* is given the new duration and added, the original is marked as removed.
TickMod ==
    /\ tpc = "select" /\ modCh # <<>>
    /\ LET m == Head(modCh)
           copy == [timer[m.t] EXCEPT !.duration = m.d, !.trigger = After(clock, m.d)] IN
          /\ timer' = Append([timer EXCEPT ![m.t].removed = TRUE], copy)
          /\ calls' = Append(calls, 0)
          /\ AddFn(Len(timer) + 1)
    /\ modCh' = Tail(modCh)
    /\ tpc' = "loop"
    /\ UNCHANGED <<clock, removeCh, stop, overdue, stopped, heap, now, current, wakeAt, handleVars>>

\* Mutant: the object is forgotten but not marked.
TickRemove_Unmarked ==
    /\ tpc = "select" /\ removeCh # <<>>
    /\ stopped' = stopped \cup {timer[Head(removeCh)].handle}
    /\ removeCh' = Tail(removeCh)
    /\ tpc' = "loop"
    /\ UNCHANGED <<clock, timer, addCh, modCh, addProcs, stop, calls, overdue, heap, now,
                   current, wakeAt, handleVars>>

\* case t := <-h.removeCh.
TickRemove ==
    /\ tpc = "select" /\ removeCh # <<>>
    /\ LET o == Head(removeCh) IN
          /\ timer' = [timer EXCEPT ![o].removed = TRUE]
          /\ stopped' = stopped \cup {timer[o].handle}
    /\ removeCh' = Tail(removeCh)
    /\ tpc' = "loop"
    /\ UNCHANGED <<clock, addCh, modCh, addProcs, stop, calls, overdue, heap, now, current,
                   wakeAt, handleVars>>

\* case <-nextTrigger.
TickWake ==
    /\ tpc = "select" /\ wakeAt # Never /\ wakeAt <= clock
    /\ tpc' = "loop"
    /\ UNCHANGED <<clock, timer, addCh, modCh, removeCh, addProcs, stop, calls, overdue, stopped,
                   heap, now, current, wakeAt, handleVars>>

TickStep ==
    \/ TickNow \/ (\E o \in heap : TickPop(o)) \/ TickReAdd \/ TickSleep \/ TickStop
    \/ TickAdd \/ TickDrain \/ TickDrained \/ TickMod \/ TickRemove \/ TickWake

\* The scheduler has been shut down.
Terminated == tpc = "exited"

Next ==
    \/ Tick
    \/ \E h \in Handles : Set(h) \/ SetSend(h) \/ Stop(h) \/ Reset(h)
    \/ Shutdown
    \/ \E o \in Objects : AddProcSend(o)
    \/ TickStep
    \/ Terminated /\ UNCHANGED vars

Spec == Init /\ [][Next]_vars

\* Time passes, the tick goroutine runs, a select that finds addCh ready again and
\* again takes it (SF), and so does a SetTimer that waits for room in addCh.
Fairness ==
    /\ WF_vars(Tick) /\ WF_vars(TickStep)
    /\ SF_vars(TickAdd)
    /\ \A h \in Timers : SF_vars(SetSend(h))

FairSpec == Spec /\ Fairness

-----------------------------------------------------------------------------
\* Properties.

Adding == {object[h] : h \in {g \in Handles : hpc[g] = "adding"}}

\* How often an object is held by somebody who will still look at it.
Held(o) ==
    Cardinality({i \in DOMAIN addCh : addCh[i] = o}) + Cardinality({o} \cap heap)
        + Cardinality({o} \cap addProcs) + Cardinality({o} \cap Adding)
        + (IF current = o THEN 1 ELSE 0)

\* A timer object is never in two places, so that it is never called back
\* twice for one expiry, and no object of a one-shot timer is called twice.
HeldOnce ==
    \A o \in Objects :
        /\ Held(o) <= 1
        /\ ~IsTicker(o) => calls[o] + Held(o) <= 1

\* Nothing is forgotten: an object that is not removed is on its way to the heap or
\* in it, a one-shot timer until it is called back, a ticker (timer.go:22, it
\* repeats until it is stopped) unless it was overdue when it left addCh, where
\* the code calls it back and schedules it no more.
TimerKept ==
    \A o \in Objects :
        ~timer[o].removed /\ (IF IsTicker(o) THEN o \notin overdue ELSE calls[o] = 0)
            => Held(o) = 1

\* No callback is called before its time.
NeverEarly ==
    [][\A o \in Objects : calls'[o] # calls[o] => timer[o].trigger <= clock]_vars

\* A one-shot timer that is set is called back, stopped or replaced, unless
\* the scheduler is shut down.
TimerFires ==
    \A h \in Timers :
        hpc[h] = "adding" ~> \/ stop
                             \/ object[h] # 0 /\ (calls[object[h]] = 1 \/ timer[object[h]].removed)

\* When the scheduler has handled the Stop of a handle (timer.go:16, Stop is how
\* one stops the callback from being called), no callback of it is called, but for
\* the two ways in which the code misses it: the object was overdue when it left
\* addCh, or it is the copy that a Reset made.
StopSilences ==
    [][\A o \in Objects :
          calls'[o] > calls[o] /\ timer[o].handle \in stopped
              => o \in overdue' \/ o # object[timer[o].handle]]_vars

=============================================================================
