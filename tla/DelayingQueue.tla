--------------------------- MODULE DelayingQueue ---------------------------
(***************************************************************************)
(* The delaying queue of tools/collection/delayingqueue.go: a              *)
(* BlockingQueue, whose methods it exposes, and a timer scheduler that     *)
(* pushes an element later.                                                *)
(*                                                                         *)
(* Of the scheduler only what the queue can see is modelled, which both    *)
(* timers of tools/timer provide: SetTimer panics after Shutdown, a timer  *)
(* that was set is called back once, in a goroutine of a pool that may     *)
(* refuse it, and after Shutdown there is no promise.                      *)
(***************************************************************************)
EXTENDS BlockingQueue

VARIABLES
    stage,      \* where each item is on its way to the queue, see Stages
    late,       \* items whose PushAfter began after the scheduler's shutdown
    schedDown,  \* the scheduler was shut down
    closer      \* Shutdown of the delaying queue: "open", "queue" or "done"

delayVars == <<stage, late, schedDown, closer>>
allVars   == <<vars, delayVars>>

\* "checked": PushAfter has seen a running scheduler.  "set": its timer is
\* set.  "running": the callback is in a goroutine.  "pushed": handed to Push.
\* "refused": PushAfter returned without a timer.  "panic": SetTimer panicked.
\* "lost": the pool of the scheduler refused the callback.
Stages == {"new", "checked", "set", "running", "pushed", "refused", "panic", "lost"}

DelayTypeOK ==
    /\ stage \in [Items -> Stages]
    /\ late \subseteq Items
    /\ schedDown \in BOOLEAN
    /\ closer \in {"open", "queue", "done"}
    /\ \A e \in Items : stage[e] = "pushed" <=> Pushed(e)

DelayInit ==
    /\ Init
    /\ stage = [e \in Items |-> "new"]
    /\ late = {}
    /\ schedDown = FALSE /\ closer = "open"

Becomes(e, s) == stage' = [stage EXCEPT ![e] = s]

\* Push of the embedded queue, and PushAfter without a delay.
PushNow(e) ==
    /\ stage[e] = "new"
    /\ Push(e) /\ Becomes(e, "pushed")
    /\ UNCHANGED <<late, schedDown, closer>>

\* PushAfter with a delay: IsShutdown.
PushAfterCheck(e) ==
    /\ stage[e] = "new"
    /\ Becomes(e, IF schedDown THEN "refused" ELSE "checked")
    /\ late' = IF schedDown THEN late \cup {e} ELSE late
    /\ UNCHANGED <<vars, schedDown, closer>>

\* SetTimer.
PushAfterSet(e) ==
    /\ stage[e] = "checked"
    /\ Becomes(e, IF schedDown THEN "panic" ELSE "set")
    /\ UNCHANGED <<vars, late, schedDown, closer>>

\* The scheduler: the timer expires, its callback is submitted.
Expire(e) ==
    /\ stage[e] = "set"
    /\ Becomes(e, "running") \/ Becomes(e, "lost")
    /\ UNCHANGED <<vars, late, schedDown, closer>>

\* Mutant: the callback gives up when the queue has elements.
Callback_Busy(e) ==
    /\ stage[e] = "running"
    /\ IF queue = <<>> THEN Push(e) /\ Becomes(e, "pushed")
                       ELSE UNCHANGED vars /\ Becomes(e, "refused")
    /\ UNCHANGED <<late, schedDown, closer>>

\* The callback: d.Push(e).
Callback(e) ==
    /\ stage[e] = "running"
    /\ Push(e) /\ Becomes(e, "pushed")
    /\ UNCHANGED <<late, schedDown, closer>>

\* Shutdown: the queue first, then the scheduler, which others may also shut
\* down.
ShutdownQueue ==
    /\ closer = "open"
    /\ Shutdown /\ closer' = "queue"
    /\ UNCHANGED <<stage, late, schedDown>>

ShutdownScheduler ==
    /\ MayShutdown /\ ~schedDown
    /\ schedDown' = TRUE
    /\ closer' = IF closer = "queue" THEN "done" ELSE closer
    /\ UNCHANGED <<vars, stage, late>>

DelayNext ==
    \/ \E e \in Items :
          \/ PushNow(e) \/ PushAfterCheck(e) \/ PushAfterSet(e)
          \/ Expire(e) \/ Callback(e)
    \/ ShutdownQueue \/ ShutdownScheduler
    \/ \E c \in Consumers : Pop(c) /\ UNCHANGED delayVars
    \/ \E d \in Drainers : (DrainCall(d) \/ DrainWake(d)) /\ UNCHANGED delayVars

DelaySpec == DelayInit /\ [][DelayNext]_allVars

\* Callers and callbacks that run go on, timers expire while the scheduler
\* works, and consumers keep asking for elements, which a drain relies on.
DelayFairSpec ==
    /\ DelaySpec
    /\ \A e \in Items : /\ WF_allVars(PushAfterSet(e)) /\ WF_allVars(Callback(e))
                        /\ WF_allVars(~schedDown /\ Expire(e))
    /\ Fairness /\ WF_vars(\E c \in Consumers : PopItem(c))

-----------------------------------------------------------------------------
\* Properties.

\* An item whose timer is set arrives in the queue once its callback runs, or
\* is refused by a queue that was shut down; only a scheduler that was shut
\* down or a pool that refuses keeps it away.
DelayedArrives ==
    \A e \in Items : stage[e] = "set" ~> stage[e] \in {"pushed", "lost"} \/ schedDown

\* PushAfter panics only in a race with the shutdown of the scheduler: a call
\* that begins after it is refused.
LateIsRefused == \A e \in late : stage[e] = "refused"

=============================================================================
