----------------------------- MODULE TaskLedger -----------------------------
(***************************************************************************)
(* What a task pool promises about its tasks, whatever its goroutines do:  *)
(* a task is offered once; it is then queued, run directly, dropped or     *)
(* refused; queued tasks are taken in the order they were accepted; a task *)
(* that was taken runs once to its end; one that was refused or dropped    *)
(* never runs; and a pool that was closed accepts nothing any more.        *)
(***************************************************************************)
EXTENDS Sequences

CONSTANTS Tasks

VARIABLES
    queue,      \* accepted tasks that nobody has taken, oldest first
    fate,       \* where each task is
    open        \* tasks may still be accepted

ledger == <<queue, fate, open>>

Fates == {"new", "offered", "queued", "running", "done", "dropped", "refused"}

Init ==
    /\ queue = <<>>
    /\ fate = [t \in Tasks |-> "new"]
    /\ open = TRUE

Move(t, from, to) == fate[t] = from /\ fate' = [fate EXCEPT ![t] = to]

Offer(t)  == Move(t, "new", "offered") /\ UNCHANGED <<queue, open>>
Accept(t) ==
    /\ open
    /\ Move(t, "offered", "queued")
    /\ queue' = Append(queue, t)
    /\ UNCHANGED open
Refuse(t) == Move(t, "offered", "refused") /\ UNCHANGED <<queue, open>>
Drop(t)   == Move(t, "offered", "dropped") /\ UNCHANGED <<queue, open>>
Direct(t) == Move(t, "offered", "running") /\ UNCHANGED <<queue, open>>
Take(t) ==
    /\ queue # <<>> /\ t = Head(queue)
    /\ Move(t, "queued", "running")
    /\ queue' = Tail(queue)
    /\ UNCHANGED open
Finish(t) == Move(t, "running", "done") /\ UNCHANGED <<queue, open>>
Close     == open' = FALSE /\ UNCHANGED <<queue, fate>>

Next ==
    \/ \E t \in Tasks :
          Offer(t) \/ Accept(t) \/ Refuse(t) \/ Drop(t) \/ Direct(t) \/ Take(t) \/ Finish(t)
    \/ Close

Spec == Init /\ [][Next]_ledger

=============================================================================
