--------------------------- MODULE BlockingQueue ---------------------------
(***************************************************************************)
(* The blocking queue of tools/collection/blockingqueue.go: an unbounded   *)
(* FIFO queue under one mutex, with one condition variable shared by the   *)
(* consumers that wait for an element and by the callers of                *)
(* ShutdownWithDrained that wait for the queue to become empty.            *)
(*                                                                         *)
(* Every method holds the mutex from its first statement to its last, save *)
(* inside cond.Wait: one action is one stretch of a method between two     *)
(* acquisitions of the mutex.                                              *)
(***************************************************************************)
EXTENDS Integers, Sequences, FiniteSets

CONSTANTS
    Consumers,  \* goroutines that call Pop, again and again
    Drainers,   \* goroutines that call ShutdownWithDrained, once each
    Items,      \* what is pushed, each item at most once
    MayShutdown \* TRUE: some goroutine may also call Shutdown

ASSUME QueueAssumption ==
    /\ Consumers \cap Drainers = {}
    /\ IsFiniteSet(Consumers) /\ IsFiniteSet(Drainers)
    /\ MayShutdown \in BOOLEAN

Callers == Consumers \cup Drainers

VARIABLES
    queue,      \* b.queue
    shutdown,   \* b.shutdown
    pc,         \* where each caller is, see Pcs
    accepted,   \* items that Push put in the queue, in order
    popped,     \* items that Pop returned, in order
    dropped     \* items that Push did not put in the queue

vars == <<queue, shutdown, pc, accepted, popped, dropped>>

\* "idle": in no call.  "waiting": on the notify list of b.cond.  "woken":
\* notified, about to take the mutex again.  "done": ShutdownWithDrained
\* returned.
Pcs == {"idle", "waiting", "woken", "done"}

TypeOK ==
    /\ queue \in Seq(Items)
    /\ shutdown \in BOOLEAN
    /\ pc \in [Callers -> Pcs]
    /\ accepted \in Seq(Items) /\ popped \in Seq(Items)
    /\ dropped \subseteq Items

Init ==
    /\ queue = <<>>
    /\ shutdown = FALSE
    /\ pc = [c \in Callers |-> "idle"]
    /\ accepted = <<>> /\ popped = <<>>
    /\ dropped = {}

Waiting == {c \in Callers : pc[c] = "waiting"}
Woken   == {c \in Callers : pc[c] = "woken"}

-----------------------------------------------------------------------------
\* The condition variable: what a notification makes of the program counters.

\* b.cond.Signal(): one waiting goroutine is woken, if there is one.
Signal(before, after) ==
    LET list == {c \in Callers : before[c] = "waiting"} IN
    IF list = {} THEN after = before
                 ELSE \E c \in list : after = [before EXCEPT ![c] = "woken"]

\* b.cond.Broadcast().
Broadcast(before) ==
    [c \in Callers |-> IF before[c] = "waiting" THEN "woken" ELSE before[c]]

-----------------------------------------------------------------------------
\* The methods.

Pushed(e) == e \in dropped \/ \E i \in DOMAIN accepted : accepted[i] = e

\* Mutant: the element is put in front.
Push_InFront(e) ==
    /\ ~Pushed(e)
    /\ IF shutdown
       THEN dropped' = dropped \cup {e} /\ UNCHANGED <<queue, pc, accepted>>
       ELSE /\ queue' = <<e>> \o queue
            /\ accepted' = Append(accepted, e)
            /\ Signal(pc, pc')
            /\ UNCHANGED dropped
    /\ UNCHANGED <<shutdown, popped>>

\* Mutant: only the push into an empty queue signals.
Push_SignalsFirst(e) ==
    /\ ~Pushed(e)
    /\ IF shutdown
       THEN dropped' = dropped \cup {e} /\ UNCHANGED <<queue, pc, accepted>>
       ELSE /\ queue' = Append(queue, e)
            /\ accepted' = Append(accepted, e)
            /\ IF queue = <<>> THEN Signal(pc, pc') ELSE UNCHANGED pc
            /\ UNCHANGED dropped
    /\ UNCHANGED <<shutdown, popped>>

\* Mutant: shutdown is not checked.
Push_Unchecked(e) ==
    /\ ~Pushed(e)
    /\ queue' = Append(queue, e)
    /\ accepted' = Append(accepted, e)
    /\ Signal(pc, pc')
    /\ UNCHANGED <<shutdown, popped, dropped>>

\* Push: silently dropped after a shutdown.
Push(e) ==
    /\ ~Pushed(e)
    /\ IF shutdown
       THEN dropped' = dropped \cup {e} /\ UNCHANGED <<queue, pc, accepted>>
       ELSE /\ queue' = Append(queue, e)
            /\ accepted' = Append(accepted, e)
            /\ Signal(pc, pc')
            /\ UNCHANGED dropped
    /\ UNCHANGED <<shutdown, popped>>

\* Pop, from its first statement or from the return of cond.Wait, when it has
\* to wait (again).
PopWait(c) ==
    /\ pc[c] \in {"idle", "woken"}
    /\ queue = <<>> /\ ~shutdown
    /\ pc' = [pc EXCEPT ![c] = "waiting"]
    /\ UNCHANGED <<queue, shutdown, accepted, popped, dropped>>

\* Mutant: the pop that empties the queue does not signal.
PopItem_Silent(c) ==
    /\ pc[c] \in {"idle", "woken"}
    /\ queue # <<>>
    /\ queue' = Tail(queue)
    /\ popped' = Append(popped, Head(queue))
    /\ pc' = [pc EXCEPT ![c] = "idle"]
    /\ UNCHANGED <<shutdown, accepted, dropped>>

\* Pop returns an element; the pop that empties the queue signals.
PopItem(c) ==
    /\ pc[c] \in {"idle", "woken"}
    /\ queue # <<>>
    /\ queue' = Tail(queue)
    /\ popped' = Append(popped, Head(queue))
    /\ LET back == [pc EXCEPT ![c] = "idle"] IN
          IF Len(queue) = 1 THEN Signal(back, pc') ELSE pc' = back
    /\ UNCHANGED <<shutdown, accepted, dropped>>

\* Pop returns the zero value of a queue that was shut down and is empty.
PopEmpty(c) ==
    /\ pc[c] \in {"idle", "woken"}
    /\ queue = <<>> /\ shutdown
    /\ pc' = [pc EXCEPT ![c] = "idle"]
    /\ UNCHANGED <<queue, shutdown, accepted, popped, dropped>>

Pop(c) == PopWait(c) \/ PopItem(c) \/ PopEmpty(c)

Shutdown ==
    /\ MayShutdown
    /\ shutdown' = TRUE
    /\ pc' = Broadcast(pc)
    /\ UNCHANGED <<queue, accepted, popped, dropped>>

\* What ShutdownWithDrained does while it holds the mutex: it waits for the
\* queue to be empty.
DrainCall(d) ==
    /\ pc[d] = "idle"
    /\ shutdown' = TRUE
    /\ pc' = [Broadcast(pc) EXCEPT ![d] = IF queue = <<>> THEN "done" ELSE "waiting"]
    /\ UNCHANGED <<queue, accepted, popped, dropped>>

DrainWake(d) ==
    /\ pc[d] = "woken"
    /\ pc' = [pc EXCEPT ![d] = IF queue = <<>> THEN "done" ELSE "waiting"]
    /\ UNCHANGED <<queue, shutdown, accepted, popped, dropped>>

Next ==
    \/ \E e \in Items : Push(e)
    \/ \E c \in Consumers : Pop(c)
    \/ Shutdown
    \/ \E d \in Drainers : DrainCall(d) \/ DrainWake(d)

Spec == Init /\ [][Next]_vars

\* A goroutine that has been notified takes the mutex again.
Fairness ==
    /\ \A c \in Consumers : WF_vars(pc[c] = "woken" /\ Pop(c))
    /\ \A d \in Drainers : WF_vars(DrainWake(d))

FairSpec == Spec /\ Fairness

-----------------------------------------------------------------------------
\* Properties.

\* Every accepted item is returned by exactly one Pop, in the order of the
\* pushes, or is still in the queue; a refused one is in neither.
FirstInFirstOut ==
    /\ accepted = popped \o queue
    /\ \A e \in dropped : \A i \in DOMAIN accepted : accepted[i] # e

\* No wakeup is lost: while a consumer waits the queue is not shut down, and
\* every element in it has a consumer that was notified and will come for it
\* (unless a newcomer takes it first).
NoLostWakeup ==
    Waiting \cap Consumers # {} => ~shutdown /\ Len(queue) <= Cardinality(Woken)

\* Once ShutdownWithDrained has returned the queue is empty for good.
DrainedForGood ==
    [][\A d \in Drainers : pc[d] = "done" => queue = <<>> /\ queue' = <<>>]_vars

\* A shutdown releases every blocked consumer.
ConsumersReleased == \A c \in Consumers : shutdown ~> pc[c] = "idle"

\* ShutdownWithDrained returns, if the consumers keep asking.
DrainReturns == \A d \in Drainers : pc[d] = "waiting" ~> pc[d] = "done"

\* One condition variable serves consumers and the drainer, and the signals of
\* Push and Pop reach those who can use them: everybody blocked on it is
\* released.
CallersReleased == ConsumersReleased /\ DrainReturns

=============================================================================
