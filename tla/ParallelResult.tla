--------------------------- MODULE ParallelResult ---------------------------
(***************************************************************************)
(* One call of ParallelResult of cmd/gowlb/internal/parallel/parallel.go:  *)
(* a distributor, worker goroutines and the caller itself, connected by    *)
(* four buffered channels (tasks, completions, results, one error).        *)
(* Parallel is the call without resultCh, where no task has a result.      *)
(*                                                                         *)
(* One action is one channel operation, one call of taskFn or one cancel.  *)
(***************************************************************************)
EXTENDS Integers, Sequences, FiniteSets

CONSTANTS
    MaxTasks,    \* bound on len(tasks)
    Workers,     \* the goroutines, as many as the parameter parallel says
    TaskCap,     \* capacity of taskCh  (128 in the code)
    CounterCap,  \* capacity of counter (64 in the code)
    ResultCap    \* capacity of resultCh, made by the caller (1024 in wire.go)

ASSUME ResultAssumption ==
    /\ MaxTasks \in Nat
    /\ TaskCap \in Nat \ {0} /\ CounterCap \in Nat \ {0} /\ ResultCap \in Nat \ {0}
    /\ IsFiniteSet(Workers)

Tasks == 1..MaxTasks
None  == 0          \* not a task
User  == -1         \* ctx.Err()

VARIABLES
    total,      \* len(tasks)
    next,       \* i of the distributor: how many tasks it has sent
    distributor,\* "run" or "exit"
    taskCh, resultCh,
    counter,    \* the number of completions in counter
    errCh,      \* the task whose error is in errCh, or None
    userDone,   \* ctx is done
    cancelled,  \* cancel() was called
    wpc, job,   \* where each worker is, and its task
    main,       \* where the caller is
    finished,
    result,     \* the tasks whose results are in result
    err,        \* a failed task, User, or None
    yielded,    \* tasks that gave a result
    ran, failed \* tasks that taskFn was called for, and that failed

chanVars   == <<taskCh, resultCh, counter, errCh>>
doneVars   == <<userDone, cancelled>>
distVars   == <<next, distributor>>
workerVars == <<wpc, job>>
mainVars   == <<main, finished, result, err>>
taskVars   == <<yielded, ran, failed>>
vars == <<total, chanVars, doneVars, distVars, workerVars, mainVars, taskVars>>

WorkerPc == {"select", "task", "yield", "cancel", "count", "exit"}
MainPc   == {"loop", "cancel", "drain", "wait", "returned"}

TypeOK ==
    /\ total \in 0..MaxTasks /\ next \in 0..total
    /\ distributor \in {"run", "exit"}
    /\ taskCh \in Seq(Tasks) /\ Len(taskCh) <= TaskCap
    /\ resultCh \in Seq(Tasks) /\ Len(resultCh) <= ResultCap
    /\ counter \in 0..CounterCap
    /\ errCh \in Tasks \cup {None}
    /\ userDone \in BOOLEAN /\ cancelled \in BOOLEAN
    /\ wpc \in [Workers -> WorkerPc] /\ job \in [Workers -> Tasks \cup {None}]
    /\ main \in MainPc
    /\ finished \in 0..total
    /\ result \in Seq(Tasks)
    /\ err \in Tasks \cup {None, User}
    /\ yielded \subseteq ran /\ failed \subseteq ran /\ ran \subseteq 1..next

Init ==
    /\ total \in 0..MaxTasks
    /\ next = 0 /\ distributor = "run"
    /\ taskCh = <<>> /\ resultCh = <<>> /\ counter = 0 /\ errCh = None
    /\ userDone = FALSE /\ cancelled = FALSE
    /\ wpc = [w \in Workers |-> "select"] /\ job = [w \in Workers |-> None]
    /\ main = "loop" /\ finished = 0 /\ result = <<>> /\ err = None
    /\ yielded = {} /\ ran = {} /\ failed = {}

\* c, derived from ctx.
Stopped == userDone \/ cancelled

\* The context of the caller ends.
UserCancel ==
    /\ ~userDone /\ main # "returned"
    /\ userDone' = TRUE
    /\ UNCHANGED <<total, chanVars, cancelled, distVars, workerVars, mainVars, taskVars>>

-----------------------------------------------------------------------------
\* The distributor.

DistSend ==
    /\ distributor = "run" /\ next < total
    /\ Len(taskCh) < TaskCap
    /\ taskCh' = Append(taskCh, next + 1)
    /\ next' = next + 1
    /\ UNCHANGED <<total, resultCh, counter, errCh, doneVars, distributor, workerVars, mainVars, taskVars>>

\* Mutant: the distributor only ends when it has sent everything.
DistStop_Deaf ==
    /\ distributor = "run" /\ next = total
    /\ distributor' = "exit"
    /\ UNCHANGED <<total, chanVars, doneVars, next, workerVars, mainVars, taskVars>>

\* The end of the loop, or the branch c.Done of its select.
DistStop ==
    /\ distributor = "run"
    /\ next = total \/ Stopped
    /\ distributor' = "exit"
    /\ UNCHANGED <<total, chanVars, doneVars, next, workerVars, mainVars, taskVars>>

-----------------------------------------------------------------------------
\* A worker.

\* select: a task, even if c is done.
WorkerTake(w) ==
    /\ wpc[w] = "select" /\ taskCh # <<>>
    /\ taskCh' = Tail(taskCh)
    /\ job' = [job EXCEPT ![w] = Head(taskCh)]
    /\ wpc' = [wpc EXCEPT ![w] = "task"]
    /\ ran' = ran \cup {Head(taskCh)}
    /\ UNCHANGED <<total, resultCh, counter, errCh, doneVars, distVars, mainVars, yielded, failed>>

\* select: c is done.
WorkerQuit(w) ==
    /\ wpc[w] = "select" /\ Stopped
    /\ wpc' = [wpc EXCEPT ![w] = "exit"]
    /\ UNCHANGED <<total, chanVars, doneVars, distVars, job, mainVars, taskVars>>

\* taskFn returns nil, possibly after a result for resultCh.
WorkerOk(w) ==
    /\ wpc[w] = "task"
    /\ \/ wpc' = [wpc EXCEPT ![w] = "count"] /\ UNCHANGED yielded
       \/ wpc' = [wpc EXCEPT ![w] = "yield"] /\ yielded' = yielded \cup {job[w]}
    /\ UNCHANGED <<total, chanVars, doneVars, distVars, job, mainVars, ran, failed>>

\* resultCh <- res inside taskFn.
WorkerYield(w) ==
    /\ wpc[w] = "yield" /\ Len(resultCh) < ResultCap
    /\ resultCh' = Append(resultCh, job[w])
    /\ wpc' = [wpc EXCEPT ![w] = "count"]
    /\ UNCHANGED <<total, taskCh, counter, errCh, doneVars, distVars, job, mainVars, taskVars>>

\* taskFn returns an error: the send of it has a default branch.
WorkerError(w) ==
    /\ wpc[w] = "task"
    /\ failed' = failed \cup {job[w]}
    /\ errCh' = IF errCh = None THEN job[w] ELSE errCh
    /\ wpc' = [wpc EXCEPT ![w] = "cancel"]
    /\ UNCHANGED <<total, taskCh, resultCh, counter, doneVars, distVars, job, mainVars, yielded, ran>>

WorkerCancel(w) ==
    /\ wpc[w] = "cancel"
    /\ cancelled' = TRUE
    /\ wpc' = [wpc EXCEPT ![w] = "exit"]
    /\ UNCHANGED <<total, chanVars, userDone, distVars, job, mainVars, taskVars>>

\* counter <- struct{}{}.
WorkerCount(w) ==
    /\ wpc[w] = "count" /\ counter < CounterCap
    /\ counter' = counter + 1
    /\ wpc' = [wpc EXCEPT ![w] = "select"]
    /\ job' = [job EXCEPT ![w] = None]
    /\ UNCHANGED <<total, taskCh, resultCh, errCh, doneVars, distVars, mainVars, taskVars>>

WorkerStep(w) ==
    \/ WorkerTake(w) \/ WorkerQuit(w) \/ WorkerOk(w) \/ WorkerYield(w)
    \/ WorkerError(w) \/ WorkerCancel(w) \/ WorkerCount(w)

-----------------------------------------------------------------------------
\* The caller: the loop with four branches.

MainUser ==
    /\ main = "loop" /\ userDone
    /\ err' = User /\ main' = "cancel"
    /\ UNCHANGED <<total, chanVars, doneVars, distVars, workerVars, finished, result, taskVars>>

MainCount ==
    /\ main = "loop" /\ counter > 0
    /\ counter' = counter - 1
    /\ finished' = finished + 1
    /\ main' = IF finished' = total THEN "cancel" ELSE "loop"
    /\ UNCHANGED <<total, taskCh, resultCh, errCh, doneVars, distVars, workerVars, result, err, taskVars>>

MainErr ==
    /\ main = "loop" /\ errCh # None
    /\ err' = errCh /\ errCh' = None
    /\ main' = "cancel"
    /\ UNCHANGED <<total, taskCh, resultCh, counter, doneVars, distVars, workerVars, finished, result, taskVars>>

\* A result is received, in the loop or in the loop that empties resultCh.
MainResult ==
    /\ main \in {"loop", "drain"} /\ resultCh # <<>>
    /\ result' = Append(result, Head(resultCh))
    /\ resultCh' = Tail(resultCh)
    /\ UNCHANGED <<total, taskCh, counter, errCh, doneVars, distVars, workerVars, main, finished, err, taskVars>>

MainCancel ==
    /\ main = "cancel"
    /\ cancelled' = TRUE /\ main' = "drain"
    /\ UNCHANGED <<total, chanVars, userDone, distVars, workerVars, finished, result, err, taskVars>>

\* Mutant: results that are still in the channel are left there.
MainDrained_Leaves ==
    /\ main = "drain"
    /\ main' = "wait"
    /\ UNCHANGED <<total, chanVars, doneVars, distVars, workerVars, finished, result, err, taskVars>>

\* The default branch of the second loop.
MainDrained ==
    /\ main = "drain" /\ resultCh = <<>>
    /\ main' = "wait"
    /\ UNCHANGED <<total, chanVars, doneVars, distVars, workerVars, finished, result, err, taskVars>>

\* wg.Wait, for the distributor and the workers.
MainReturn ==
    /\ main = "wait"
    /\ distributor = "exit" /\ \A w \in Workers : wpc[w] = "exit"
    /\ main' = "returned"
    /\ UNCHANGED <<total, chanVars, doneVars, distVars, workerVars, finished, result, err, taskVars>>

Main ==
    \/ MainUser \/ MainCount \/ MainErr \/ MainResult
    \/ MainCancel \/ MainDrained \/ MainReturn

Next ==
    \/ UserCancel
    \/ DistSend \/ DistStop
    \/ \E w \in Workers : WorkerStep(w)
    \/ Main

Spec == Init /\ [][Next]_vars

\* Goroutines run, tasks end, and a select that finds c or errCh ready again
\* and again takes that branch in the end.
FairSpec ==
    /\ Spec
    /\ WF_vars(DistSend) /\ WF_vars(DistStop)
    /\ \A w \in Workers : WF_vars(WorkerStep(w)) /\ SF_vars(WorkerQuit(w))
    /\ WF_vars(Main) /\ WF_vars(MainErr)

-----------------------------------------------------------------------------
\* Properties.

\* A call that returns without an error ran every task, none of them failed,
\* and it has every result exactly once, although completions and results
\* travel on different channels and select takes either first.
NilMeansComplete ==
    main = "returned" /\ err = None =>
        /\ ran = 1..total /\ failed = {}
        /\ {result[i] : i \in DOMAIN result} = yielded
        /\ Len(result) = Cardinality(yielded)

\* An error comes from a task that failed or from a context that is done, and
\* a failed task never goes unnoticed.
ErrorHasCause ==
    main = "returned" =>
        /\ err = User => userDone
        /\ err \in Tasks => err \in failed
        /\ failed # {} => err # None

\* The call returns as long as what is sent fits in the channels: the loop
\* may end at the first error while everybody else still sends.  Above the
\* capacities workers may block in "count" or "yield" for ever, and a call
\* without tasks waits for its context.
Returns == total \in 1..CounterCap /\ total <= ResultCap ~> main = "returned"

\* Types, and: what the call returns is true.
ResultInv == TypeOK /\ NilMeansComplete /\ ErrorHasCause

=============================================================================
