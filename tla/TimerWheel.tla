----------------------------- MODULE TimerWheel -----------------------------
(***************************************************************************)
(* The timing wheel of tools/timer/timerwheel.go: sc slots, each a list of *)
(* timers under a mutex of its own, and one goroutine that processes the   *)
(* slot under the pointer sp once per interval si and then moves sp on.    *)
(* SetTimer, SetTicker, Stop and Reset work on the lists directly, from    *)
(* the goroutine that calls them.                                          *)
(*                                                                         *)
(* Durations are in units of which SI make an interval, and time passes in *)
(* moves of sp.  Each handle is used by one goroutine.  A callback is the  *)
(* event that it is called (WithAsync, or a pool); what it does is not     *)
(* part of the module.                                                     *)
(*                                                                         *)
(* When tick adds a ticker again it pushes to the list of another slot     *)
(* without its mutex.  If a user is at work on that list the links and the *)
(* length are damaged for good (the variable damaged): from then on they   *)
(* may leave out any element, whether its push raced with another or not.  *)
(* An element still knows its list, which is what Remove looks at: slots   *)
(* says which elements have which list.  A list is followed through one    *)
(* such race (of one push with one critical section); a second one on the  *)
(* same list can make a removed element or a nil link reachable, and the   *)
(* behaviour ends there, as it does with a crash.                          *)
(***************************************************************************)
EXTENDS Integers, Sequences, SequencesExt

CONSTANTS
    Timers,     \* handles that SetTimer returns, one call each
    Tickers,    \* handles that SetTicker returns, one call each
    SC,         \* t.sc, the number of slots
    SI,         \* t.si, the interval
    Durations,  \* the durations passed in
    MaxDuration,\* bound: the longest of them
    MaxResets,  \* bound: calls of Reset
    Wheel,      \* the wheel's goroutine as the holder of a slot's mutex
    None

Handles == Timers \cup Tickers
Slots   == 0..(SC - 1)

ASSUME WheelAssumption ==
    /\ Timers \cap Tickers = {}
    /\ SC \in Nat \ {0} /\ SI \in Nat \ {0}
    /\ MaxDuration \in Nat /\ Durations \subseteq 0..MaxDuration
    /\ MaxResets \in Nat
    /\ Wheel \notin Handles /\ None \notin Handles \cup {Wheel}

VARIABLES
    sp,         \* t.sp
    slots,      \* the elements of t.slots[i].timers, oldest first
    damaged,    \* slots whose list was pushed to while a user was at work on it
    lock,       \* the holder of t.slots[i].Mutex, or None
    stop,       \* t.stop is closed
    duration,   \* tm.duration for a ticker, the d of the last add for a timer
    n,          \* tm.n, the circles to go
    pos,        \* tm.pos
    wpc,        \* where the wheel's goroutine is
    cursor,     \* e, the next timer of the slot being processed, or None
    current,    \* the ticker being added again, or None
    hpc,        \* where the user of each handle is
    target,     \* the slot that Stop or Reset is about to lock
    resetting,  \* handles whose removal is the first half of a Reset
    resets,     \* number of Reset calls made
    waited,     \* history: moves of sp since the add of each pending timer
    calls,      \* history: callbacks since the last add (2: or more)
    stopped     \* history: handles whose Stop has returned

wheelVars   == <<sp, wpc, cursor, current>>
userVars    == <<hpc, target, resetting, resets>>
historyVars == <<waited, calls, stopped>>
vars == <<slots, damaged, lock, stop, duration, n, pos, wheelVars, userVars, historyVars>>

WheelPc == {"loop", "lock", "scan", "readd", "unlock", "advance", "exited",
             "crashed"}
UserPc  == {"new", "add", "push", "pushing", "set", "remove", "removing", "panic",
             "crashed"}

\* int(d/t.si), the whole intervals of d: the moves of sp that d stands for.
Moves(d) == d \div SI

MaxMoves == Moves(MaxDuration)

\* The same residue as w modulo SC, in a finite range; a count that reached
\* every duration stays above them.
Capped(w) == IF w < MaxMoves + SC THEN w ELSE w - SC

Types ==
    /\ sp \in Slots /\ slots \in [Slots -> Seq(Handles)] /\ damaged \subseteq Slots
    /\ lock \in [Slots -> Handles \cup {Wheel, None}]
    /\ stop \in BOOLEAN
    /\ duration \in [Handles -> Durations \cup {0}]
    /\ n \in [Handles -> Int] /\ pos \in [Handles -> Slots]
    /\ wpc \in WheelPc /\ hpc \in [Handles -> UserPc]
    /\ cursor \in Handles \cup {None} /\ current \in Tickers \cup {None}
    /\ target \in [Handles -> Slots]
    /\ resetting \subseteq Timers
    /\ resets \in 0..MaxResets
    /\ waited \in [Handles -> 0..(MaxMoves + SC)] /\ calls \in [Handles -> 0..2]
    /\ stopped \subseteq Handles

\* The wheel is in the critical section of the slot it processes.
InSlot == wpc \in {"scan", "readd", "unlock", "crashed"}

\* The user of h is in the critical section of slot i.
AtWork(h, i) ==
    \/ hpc[h] \in {"pushing", "crashed"} /\ pos[h] = i
    \/ hpc[h] = "removing" /\ target[h] = i

\* A mutex is held exactly by those who are in its critical section.
Locks ==
    \A i \in Slots : /\ lock[i] = Wheel <=> i = sp /\ InSlot
                     /\ \A h \in Handles : lock[i] = h <=> AtWork(h, i)

\* A timer is in one list at most, once.
Lists ==
    /\ \A i \in Slots : \A a, b \in DOMAIN slots[i] : slots[i][a] = slots[i][b] => a = b
    /\ \A i, j \in Slots : \A h \in ToSet(slots[i]) : h \in ToSet(slots[j]) => i = j

TypeOK == Types /\ Locks /\ Lists

\* NewWheeledTaskScheduler, with the goroutine started.
Init ==
    /\ sp = 0
    /\ slots = [i \in Slots |-> <<>>] /\ damaged = {}
    /\ lock = [i \in Slots |-> None]
    /\ stop = FALSE
    /\ duration = [h \in Handles |-> 0]
    /\ n = [h \in Handles |-> 0] /\ pos = [h \in Handles |-> 0]
    /\ wpc = "loop" /\ cursor = None /\ current = None
    /\ hpc = [h \in Handles |-> "new"]
    /\ target = [h \in Handles |-> 0]
    /\ resetting = {}
    /\ resets = 0
    /\ waited = [h \in Handles |-> 0] /\ calls = [h \in Handles |-> 0]
    /\ stopped = {}

\* int(d/t.circle), the circles of an add of d.
Circles(d) == d \div (SC * SI)

\* Mutant: the slot is counted from slot 0.
SlotOf_Absolute(d) == Moves(d) % SC

\* The slot of an add of d.
SlotOf(d) == (Moves(d) + sp) % SC

-----------------------------------------------------------------------------
\* The users.

\* SetTimer, SetTicker.
Set(h) ==
    /\ hpc[h] = "new"
    /\ \E d \in Durations : duration' = [duration EXCEPT ![h] = d]
    /\ hpc' = [hpc EXCEPT ![h] = "add"]
    /\ UNCHANGED <<slots, damaged, lock, stop, n, pos, target, resetting, resets,
                   wheelVars, historyVars>>

\* add: the check of t.stop, then n and pos from an unsynchronised read of sp.
Add(h) ==
    /\ hpc[h] = "add"
    /\ IF stop
       THEN hpc' = [hpc EXCEPT ![h] = "panic"] /\ UNCHANGED <<n, pos, waited, calls>>
       ELSE /\ n' = [n EXCEPT ![h] = Circles(duration[h])]
            /\ pos' = [pos EXCEPT ![h] = SlotOf(duration[h])]
            /\ waited' = [waited EXCEPT ![h] = 0]
            /\ calls' = [calls EXCEPT ![h] = 0]
            /\ hpc' = [hpc EXCEPT ![h] = "push"]
    /\ UNCHANGED <<slots, damaged, lock, stop, duration, stopped, target, resetting,
                   resets, wheelVars>>

\* slot.add takes the mutex ...
PushLock(h) ==
    /\ hpc[h] = "push" /\ lock[pos[h]] = None
    /\ lock' = [lock EXCEPT ![pos[h]] = h]
    /\ hpc' = [hpc EXCEPT ![h] = "pushing"]
    /\ UNCHANGED <<slots, damaged, stop, duration, n, pos, target, resetting, resets,
                   wheelVars, historyVars>>

\* ... pushes and releases it.
Push(h) ==
    /\ hpc[h] = "pushing"
    /\ slots' = [slots EXCEPT ![pos[h]] = Append(@, h)]
    /\ lock' = [lock EXCEPT ![pos[h]] = None]
    /\ hpc' = [hpc EXCEPT ![h] = "set"]
    /\ resetting' = resetting \ {h}
    /\ UNCHANGED <<damaged, stop, duration, n, pos, target, resets, wheelVars,
                   historyVars>>

\* The element behind which it pushes can have a nil next in a damaged list.
PushCrash(h) ==
    /\ hpc[h] = "pushing" /\ pos[h] \in damaged
    /\ hpc' = [hpc EXCEPT ![h] = "crashed"]
    /\ UNCHANGED <<slots, damaged, lock, stop, duration, n, pos, target, resetting,
                   resets, wheelVars, historyVars>>

\* Mutant: the slot is computed again from the duration.
Stop_Recomputes(h) ==
    /\ hpc[h] = "set" /\ h \notin stopped
    /\ target' = [target EXCEPT ![h] = SlotOf(duration[h])]
    /\ hpc' = [hpc EXCEPT ![h] = "remove"]
    /\ UNCHANGED <<slots, damaged, lock, stop, duration, n, pos, resetting, resets,
                   wheelVars, historyVars>>

\* Stop and the first half of Reset read tm.pos before they lock that slot.
Stop(h) ==
    /\ hpc[h] = "set" /\ h \notin stopped
    /\ target' = [target EXCEPT ![h] = pos[h]]
    /\ hpc' = [hpc EXCEPT ![h] = "remove"]
    /\ UNCHANGED <<slots, damaged, lock, stop, duration, n, pos, resetting, resets,
                   wheelVars, historyVars>>

\* Mutant: Reset adds without removing first.
Reset_AddsOnly(h) ==
    /\ h \in Timers /\ hpc[h] = "set" /\ h \notin stopped
    /\ resets < MaxResets
    /\ resets' = resets + 1
    /\ \E d \in Durations : duration' = [duration EXCEPT ![h] = d]
    /\ hpc' = [hpc EXCEPT ![h] = "add"]
    /\ UNCHANGED <<slots, damaged, lock, stop, n, pos, target, resetting, wheelVars,
                   historyVars>>

Reset(h) ==
    /\ h \in Timers /\ hpc[h] = "set" /\ h \notin stopped
    /\ resets < MaxResets
    /\ resets' = resets + 1
    /\ resetting' = resetting \cup {h}
    /\ target' = [target EXCEPT ![h] = pos[h]]
    /\ hpc' = [hpc EXCEPT ![h] = "remove"]
    /\ UNCHANGED <<slots, damaged, lock, stop, duration, n, pos, wheelVars, historyVars>>

RemoveLock(h) ==
    /\ hpc[h] = "remove" /\ lock[target[h]] = None
    /\ lock' = [lock EXCEPT ![target[h]] = h]
    /\ hpc' = [hpc EXCEPT ![h] = "removing"]
    /\ UNCHANGED <<slots, damaged, stop, duration, n, pos, target, resetting, resets,
                   wheelVars, historyVars>>

\* Where h is in a list.
PlaceOf(list, h) == CHOOSE a \in DOMAIN list : list[a] = h

\* list.Remove: nothing happens when h is in another list or none.
Without(list, h) ==
    IF h \in ToSet(list) THEN RemoveAt(list, PlaceOf(list, h)) ELSE list

\* The removal.  Then Stop returns and Reset goes on to add with its duration.
SlotRemove(h) ==
    /\ hpc[h] = "removing"
    /\ slots' = [slots EXCEPT ![target[h]] = Without(@, h)]
    /\ lock' = [lock EXCEPT ![target[h]] = None]
    /\ IF h \in resetting
       THEN /\ hpc' = [hpc EXCEPT ![h] = "add"]
            /\ \E d \in Durations : duration' = [duration EXCEPT ![h] = d]
            /\ UNCHANGED stopped
       ELSE /\ hpc' = [hpc EXCEPT ![h] = "set"]
            /\ stopped' = stopped \cup {h}
            /\ UNCHANGED duration
    /\ UNCHANGED <<damaged, stop, n, pos, target, resetting, resets, wheelVars, waited,
                   calls>>

\* Shutdown, called once.
Shutdown ==
    /\ ~stop
    /\ stop' = TRUE
    /\ UNCHANGED <<slots, damaged, lock, duration, n, pos, wheelVars, userVars,
                   historyVars>>

UserStep(h) == Add(h) \/ PushLock(h) \/ Push(h) \/ RemoveLock(h) \/ SlotRemove(h)

-----------------------------------------------------------------------------
\* The wheel's goroutine: start() and tick().

\* The select of start, and the sleep.
WheelLoop ==
    /\ wpc = "loop"
    /\ wpc' = IF stop THEN "exited" ELSE "lock"
    /\ UNCHANGED <<slots, damaged, lock, stop, duration, n, pos, sp, cursor, current,
                   userVars, historyVars>>

\* What Len and Front make of the list of slot i, None for an empty one.
Fronts(i) ==
    IF i \in damaged THEN ToSet(slots[i]) \cup {None}
    ELSE IF slots[i] = <<>> THEN {None} ELSE {Head(slots[i])}

\* tick locks the slot and takes the front of its list.  A damaged list without
\* elements can have a length: its Front is then the root, which has no value.
WheelLock ==
    /\ wpc = "lock" /\ lock[sp] = None
    /\ lock' = [lock EXCEPT ![sp] = Wheel]
    /\ \/ /\ cursor' \in Fronts(sp)
          /\ wpc' = IF cursor' = None THEN "unlock" ELSE "scan"
       \/ sp \in damaged /\ wpc' = "crashed" /\ UNCHANGED cursor
    /\ UNCHANGED <<slots, damaged, stop, duration, n, pos, sp, current, userVars,
                   historyVars>>

\* The element behind h, or None.
NextOf(list, h) ==
    LET a == PlaceOf(list, h) IN IF a < Len(list) THEN list[a + 1] ELSE None

\* e.Next()
Nexts(i, h) ==
    IF i \in damaged THEN (ToSet(slots[i]) \ {h}) \cup {None}
    ELSE {NextOf(slots[i], h)}

\* Mutant: n is not decremented.
WheelSkip_NoCount ==
    /\ wpc = "scan" /\ cursor # None /\ n[cursor] > 0
    /\ wpc' = "unlock" /\ cursor' = None
    /\ UNCHANGED <<slots, damaged, lock, stop, duration, n, pos, sp, current, userVars,
                   historyVars>>

\* tm.n--: a timer with circles to go ends the pass over the slot.
WheelSkip ==
    /\ wpc = "scan" /\ cursor # None /\ n[cursor] > 0
    /\ n' = [n EXCEPT ![cursor] = @ - 1]
    /\ wpc' = "unlock" /\ cursor' = None
    /\ UNCHANGED <<slots, damaged, lock, stop, duration, pos, sp, current, userVars,
                   historyVars>>

\* A timer with none is called back and removed; a ticker is then added again.
WheelFire ==
    /\ wpc = "scan" /\ cursor # None /\ n[cursor] <= 0
    /\ n' = [n EXCEPT ![cursor] = @ - 1]
    /\ calls' = [calls EXCEPT ![cursor] = IF @ < 2 THEN @ + 1 ELSE 2]
    /\ slots' = [slots EXCEPT ![sp] = Without(@, cursor)]
    /\ cursor' \in Nexts(sp, cursor)
    /\ IF cursor \in Tickers THEN wpc' = "readd" /\ current' = cursor
                             ELSE UNCHANGED <<wpc, current>>
    /\ UNCHANGED <<damaged, lock, stop, duration, pos, sp, userVars, waited, stopped>>

\* The user at work on the list of slot i, or None.
UserAt(i) == IF lock[i] = Wheel THEN None ELSE lock[i]

\* add(..., locked = true): only the slot being processed is locked.  When a
\* user is at work on the list of another slot, that list is damaged.
WheelReAdd ==
    /\ wpc = "readd" /\ ~stop
    /\ LET i == SlotOf(duration[current]) IN
          /\ UserAt(i) = None \/ i \notin damaged
          /\ n' = [n EXCEPT ![current] = Circles(duration[current])]
          /\ pos' = [pos EXCEPT ![current] = i]
          /\ slots' = [slots EXCEPT ![i] = Append(@, current)]
          /\ damaged' = IF UserAt(i) = None THEN damaged ELSE damaged \cup {i}
    /\ waited' = [waited EXCEPT ![current] = 0]
    /\ calls' = [calls EXCEPT ![current] = 0]
    /\ wpc' = "scan" /\ current' = None
    /\ UNCHANGED <<lock, stop, duration, sp, cursor, userVars, stopped>>

\* After a shutdown that add panics.  Where a user is at work, or was in an
\* earlier race, it may dereference a nil link, as of an element that the user
\* is removing.  Nothing recovers: the process is gone.  The action stands also
\* for the races that the module does not follow, see above.
WheelCrash ==
    /\ wpc = "readd"
    /\ LET i == SlotOf(duration[current]) IN stop \/ UserAt(i) # None \/ i \in damaged
    /\ wpc' = "crashed"
    /\ UNCHANGED <<slots, damaged, lock, stop, duration, n, pos, sp, cursor, current,
                   userVars, historyVars>>

WheelUnlock ==
    /\ wpc \in {"scan", "unlock"} /\ cursor = None
    /\ lock' = [lock EXCEPT ![sp] = None]
    /\ wpc' = "advance"
    /\ UNCHANGED <<slots, damaged, stop, duration, n, pos, sp, cursor, current, userVars,
                   historyVars>>

\* h is in a list, or about to be.
Pending(h) ==
    hpc[h] \in {"push", "pushing"} \/ \E i \in Slots : h \in ToSet(slots[i])

\* The deferred t.sp++, after the mutex has been released.
WheelAdvance ==
    /\ wpc = "advance"
    /\ sp' = (sp + 1) % SC
    /\ waited' = [h \in Handles |-> IF Pending(h) THEN Capped(waited[h] + 1) ELSE 0]
    /\ wpc' = "loop"
    /\ UNCHANGED <<slots, damaged, lock, stop, duration, n, pos, cursor, current,
                   userVars, calls, stopped>>

WheelStep ==
    \/ WheelLoop \/ WheelLock \/ WheelSkip \/ WheelFire \/ WheelReAdd \/ WheelCrash
    \/ WheelUnlock \/ WheelAdvance

Running == wpc # "crashed" /\ \A h \in Handles : hpc[h] # "crashed"

Terminated == wpc = "exited" \/ ~Running

Next ==
    \/ \E h \in Handles : Running /\ (Set(h) \/ Stop(h) \/ Reset(h))
    \/ \E h \in Handles : Running /\ (UserStep(h) \/ PushCrash(h))
    \/ Running /\ Shutdown
    \/ Running /\ WheelStep
    \/ Terminated /\ UNCHANGED vars

Spec == Init /\ [][Next]_vars

\* The wheel's goroutine runs, a call that was made proceeds, and a mutex that
\* the wheel takes again and again goes to the push that waits for it (SF): Go
\* hands a mutex to a waiter that has starved for a millisecond.
Fairness ==
    /\ WF_vars(Running /\ WheelStep)
    /\ \A h \in Handles : WF_vars(Running /\ UserStep(h))
    /\ \A h \in Timers : SF_vars(Running /\ PushLock(h))

FairSpec == Spec /\ Fairness

-----------------------------------------------------------------------------
\* Properties.

\* While its user is in no call, a one-shot timer is in no list but that of the
\* slot that its pos names, and only if it was neither stopped nor called back:
\* what Stop and Reset rely on to find it, whatever a Reset raced with.
TimerInSlot ==
    \A h \in Timers : \A i \in Slots :
        hpc[h] \in {"set", "remove", "removing"} /\ h \in ToSet(slots[i])
            => i = pos[h] /\ calls[h] = 0 /\ h \notin stopped

\* When Stop of a one-shot timer has returned its callback is not called.
TimerStopSilences ==
    [][\A h \in Timers \cap stopped : calls'[h] = calls[h]]_vars

\* A callback is called when sp has moved as often as the duration has whole
\* intervals, or that and a number of whole circles: when the user pushed after
\* its slot had been processed, or when the pass over the slot ended early.  So
\* it is never out of phase, and early by less than an interval, by which the
\* division truncates a duration (one below SI can be over at once).
OnTime ==
    [][\A h \in Handles : calls'[h] > calls[h] =>
          /\ (waited[h] + 1) * SI > duration[h]
          /\ (waited[h] - Moves(duration[h])) % SC = 0]_vars

\* Two tickers below the interval in one slot are added again to it while it is
\* processed, behind one another: a pass that comes to them never ends.
Endless ==
    \E i \in Slots : \E h, k \in Tickers \cap ToSet(slots[i]) :
        h # k /\ duration[h] < SI /\ duration[k] < SI

\* Every one-shot timer that is pushed is called back or stopped, whatever
\* circles the timers in front of it in its slot have to go, unless the wheel
\* was shut down, crashed or is held up by two tickers, or the list it is in
\* was damaged, by the timer's own push or by that of another.
TimerFires ==
    \A h \in Timers : hpc[h] = "push" ~>
        (stop \/ h \in stopped \/ calls[h] = 1 \/ pos[h] \in damaged \/ Endless \/ ~Running)

\* Types, mutexes, lists, and where the one-shot timers are.
WheelInv == TypeOK /\ TimerInSlot

=============================================================================
