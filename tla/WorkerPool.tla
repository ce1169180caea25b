----------------------------- MODULE WorkerPool -----------------------------
(***************************************************************************)
(* The elastic goroutine pool of tools/workerpool/workerpool.go: a bounded *)
(* task channel served by between minWorker and maxWorker goroutines, a    *)
(* policy for tasks that find the channel full, and Start, Submit,         *)
(* Shutdown and ShutdownWait called from any goroutine.                    *)
(*                                                                         *)
(* One action is one atomic access to shared memory (an atomic load, store *)
(* or add, a mutex operation, a channel operation).  Everything between    *)
(* two of them is local to its goroutine.                                  *)
(***************************************************************************)
EXTENDS Integers, Sequences, FiniteSets

CONSTANTS
    Submitters,     \* goroutines that call Submit, one task after another
    Starters,       \* goroutines that call Start, once each
    Stoppers,       \* goroutines that call Shutdown or ShutdownWait, once each
    Workers,        \* identities of live worker goroutines (a bound on them)
    Tasks,          \* the tasks, each handed to Submit at most once
    MinWorker, MaxWorker,
    ChanSize,       \* capacity of taskChan (the code never makes it < 64)
    GrowLen,        \* Submit grows the pool above this length (3 in the code)
    RejectPolicies, \* the policies the pool may be configured with
    StartFirst,     \* TRUE: Submit and Shutdown are called once Start returned
    None            \* not a task

Clients == Submitters \cup Starters \cup Stoppers

\* What a rejected submission ends with.  "nil" is SubmitAfterwardsPolicy
\* with a nil inner policy.
Endings == {"abort", "discard", "callerRuns", "newProc", "nil"}

ASSUME PoolAssumption ==
    /\ MinWorker \in Nat /\ MaxWorker \in Nat /\ MinWorker <= MaxWorker
    /\ ChanSize \in Nat \ {0}
    /\ GrowLen \in Nat
    /\ StartFirst \in BOOLEAN
    /\ None \notin Tasks \cup Submitters
    /\ RejectPolicies \subseteq [retries : Nat, then : Endings]
    /\ Submitters \cap Starters = {}
    /\ Submitters \cap Stoppers = {}
    /\ Starters \cap Stoppers = {}

ASSUME PoolFinite ==
    IsFiniteSet(Submitters) /\ IsFiniteSet(Starters) /\ IsFiniteSet(Workers)

VARIABLES
    state,          \* w.state
    workerCount,    \* w.workerCount
    growingMux,     \* the holder of w.growingMux, or None
    taskChan,       \* w.taskChan, a buffered channel
    closed,         \* close(w.taskChan) has happened
    rejectPolicy,   \* w.rejectPolicy, fixed by NewWorkerPool
    cpc,            \* where each client goroutine is
    task,           \* the task a submitter is submitting, or None
    tries,          \* failed retries of the submission in progress
    launched,       \* the loop index of Start
    request,        \* a stopper's call: with drain? ShutdownWait?
    wpc,            \* where each worker goroutine is ("none": no goroutine)
    job,            \* the task a worker is executing, or None
    detached,       \* tasks running in a goroutine of NewProcRunsPolicy
    ret,            \* how the Submit call of each task ended
    ran             \* tasks that have been executed

poolVars   == <<state, workerCount, growingMux, taskChan, closed, rejectPolicy>>
clientVars == <<cpc, task, tries, launched, request>>
workerVars == <<wpc, job>>
taskVars   == <<detached, ret, ran>>
vars       == <<poolVars, clientVars, workerVars, taskVars>>

-----------------------------------------------------------------------------
\* The type of each variable.

States == {"init", "running", "drain", "shutdown"}

SubmitPc == {"idle", "load", "len", "count", "lock", "recheck", "add", "go",
             "unlock", "send", "reload", "resend", "reject", "run"}
StartPc  == {"idle", "load1", "load2", "store", "add", "go", "done"}
StopPc   == {"idle", "waitCheck", "check", "store", "close", "wait", "done",
             "panic"}
WorkerPc == {"none", "check", "select", "exec", "exit", "leave"}

\* "new": not submitted.  "pending": Submit is running.  "panic": Submit
\* panicked.  The others are Submit's nil and its two errors.
Returns == {"new", "pending", "ok", "shutdown", "full", "panic"}

\* Every variable has its type, and the workers hold tasks exactly while they
\* execute them.
TypeOK ==
    /\ state \in States
    /\ workerCount \in Int
    /\ growingMux \in Submitters \cup {None}
    /\ taskChan \in Seq(Tasks) /\ Len(taskChan) <= ChanSize
    /\ closed \in BOOLEAN
    /\ rejectPolicy \in RejectPolicies
    /\ cpc \in [Clients -> SubmitPc \cup StartPc \cup StopPc]
    /\ \A c \in Submitters : cpc[c] \in SubmitPc
    /\ \A c \in Starters : cpc[c] \in StartPc
    /\ \A c \in Stoppers : cpc[c] \in StopPc
    /\ task \in [Submitters -> Tasks \cup {None}]
    /\ \A c \in Submitters : task[c] = None <=> cpc[c] = "idle"
    /\ tries \in [Submitters -> Nat]
    /\ launched \in [Starters -> 0..MinWorker]
    /\ request \in [Stoppers -> [drain : BOOLEAN, wait : BOOLEAN]]
    /\ wpc \in [Workers -> WorkerPc]
    /\ job \in [Workers -> Tasks \cup {None}]
    /\ \A w \in Workers : job[w] # None <=> wpc[w] = "exec"
    /\ detached \subseteq Tasks
    /\ ret \in [Tasks -> Returns]
    /\ ran \subseteq Tasks

\* NewWorkerPool.
Init ==
    /\ state = "init"
    /\ workerCount = 0
    /\ growingMux = None
    /\ taskChan = <<>>
    /\ closed = FALSE
    /\ rejectPolicy \in RejectPolicies
    /\ cpc = [c \in Clients |-> "idle"]
    /\ task = [c \in Submitters |-> None]
    /\ tries = [c \in Submitters |-> 0]
    /\ launched = [c \in Starters |-> 0]
    /\ request = [c \in Stoppers |-> [drain |-> FALSE, wait |-> FALSE]]
    /\ wpc = [w \in Workers |-> "none"]
    /\ job = [w \in Workers |-> None]
    /\ detached = {}
    /\ ret = [t \in Tasks |-> "new"]
    /\ ran = {}

\* Some Start call has returned.
Started == \E c \in Starters : cpc[c] = "done"

\* The discipline of the callers: a pool is used once it has been started.
MayUse == StartFirst => Started

Goto(c, pc) == cpc' = [cpc EXCEPT ![c] = pc]

\* wg.Go(w.worker): a new goroutine enters worker().
SpawnWorker ==
    \E w \in Workers : wpc[w] = "none" /\ wpc' = [wpc EXCEPT ![w] = "check"]

-----------------------------------------------------------------------------
\* Submit.

\* The call ends with r.
Return(c, r) ==
    /\ ret' = [ret EXCEPT ![task[c]] = r]
    /\ task' = [task EXCEPT ![c] = None]
    /\ Goto(c, "idle")

SubmitCall(c) ==
    /\ cpc[c] = "idle" /\ MayUse
    /\ \E t \in Tasks :
          /\ ret[t] = "new"
          /\ ret' = [ret EXCEPT ![t] = "pending"]
          /\ task' = [task EXCEPT ![c] = t]
    /\ tries' = [tries EXCEPT ![c] = 0]
    /\ Goto(c, "load")
    /\ UNCHANGED <<poolVars, launched, request, workerVars, detached, ran>>

\* The state check, in Submit ("load") or in its retry closure ("reload").
SubmitLoad(c) ==
    /\ \/ /\ state # "running" /\ cpc[c] \in {"load", "reload"}
          /\ Return(c, "shutdown")
       \/ /\ state = "running" /\ cpc[c] = "load"
          /\ Goto(c, "len") /\ UNCHANGED <<task, ret>>
       \/ /\ state = "running" /\ cpc[c] = "reload"
          /\ Goto(c, "resend") /\ UNCHANGED <<task, ret>>
    /\ UNCHANGED <<poolVars, tries, launched, request, workerVars, detached, ran>>

\* The reads before the mutex is taken: a hint that the pool should grow.
SubmitLen(c) ==
    /\ cpc[c] = "len"
    /\ Goto(c, IF Len(taskChan) > GrowLen THEN "count" ELSE "send")
    /\ UNCHANGED <<poolVars, task, tries, launched, request, workerVars, taskVars>>

SubmitCount(c) ==
    /\ cpc[c] = "count"
    /\ Goto(c, IF workerCount < MaxWorker THEN "lock" ELSE "send")
    /\ UNCHANGED <<poolVars, task, tries, launched, request, workerVars, taskVars>>

SubmitLock(c) ==
    /\ cpc[c] = "lock" /\ growingMux = None
    /\ growingMux' = c
    /\ Goto(c, "recheck")
    /\ UNCHANGED <<state, workerCount, taskChan, closed, rejectPolicy, task, tries,
                   launched, request, workerVars, taskVars>>

\* Mutant: the count is not read again under the mutex.
SubmitRecheck_Unchecked(c) ==
    /\ cpc[c] = "recheck"
    /\ Goto(c, "add")
    /\ UNCHANGED <<poolVars, task, tries, launched, request, workerVars, taskVars>>

\* The count is read again under the mutex, and only then added to.
SubmitRecheck(c) ==
    /\ cpc[c] = "recheck"
    /\ Goto(c, IF workerCount < MaxWorker THEN "add" ELSE "unlock")
    /\ UNCHANGED <<poolVars, task, tries, launched, request, workerVars, taskVars>>

SubmitAdd(c) ==
    /\ cpc[c] = "add"
    /\ workerCount' = workerCount + 1
    /\ Goto(c, "go")
    /\ UNCHANGED <<state, growingMux, taskChan, closed, rejectPolicy, task, tries,
                   launched, request, workerVars, taskVars>>

SubmitGo(c) ==
    /\ cpc[c] = "go"
    /\ SpawnWorker
    /\ Goto(c, "unlock")
    /\ UNCHANGED <<poolVars, task, tries, launched, request, job, taskVars>>

SubmitUnlock(c) ==
    /\ cpc[c] = "unlock"
    /\ growingMux' = None
    /\ Goto(c, "send")
    /\ UNCHANGED <<state, workerCount, taskChan, closed, rejectPolicy, task, tries,
                   launched, request, workerVars, taskVars>>

Full == Len(taskChan) = ChanSize

\* Mutant: after the send Submit goes on to the rejection policy.
SubmitSend_FallsThrough(c) ==
    /\ cpc[c] \in {"send", "resend"}
    /\ ~closed /\ ~Full
    /\ taskChan' = Append(taskChan, task[c])
    /\ Goto(c, "reject")
    /\ UNCHANGED <<state, workerCount, growingMux, closed, rejectPolicy, task, tries,
                   launched, request, workerVars, taskVars>>

\* The non-blocking send that is ready to proceed, from Submit or a retry.
SubmitSend(c) ==
    /\ cpc[c] \in {"send", "resend"}
    /\ ~closed /\ ~Full
    /\ taskChan' = Append(taskChan, task[c])
    /\ Return(c, "ok")
    /\ UNCHANGED <<state, workerCount, growingMux, closed, rejectPolicy, tries,
                   launched, request, workerVars, detached, ran>>

\* The default branch: the channel is full.  A policy with retries sleeps and
\* calls the closure again while it has retries left, then its ending applies.
SubmitFull(c) ==
    /\ cpc[c] \in {"send", "resend"}
    /\ ~closed /\ Full
    /\ LET failed == IF cpc[c] = "resend" THEN tries[c] + 1 ELSE 0 IN
          /\ tries' = [tries EXCEPT ![c] = failed]
          /\ Goto(c, IF failed < rejectPolicy.retries THEN "reload" ELSE "reject")
    /\ UNCHANGED <<poolVars, task, launched, request, workerVars, taskVars>>

\* A send on a closed channel panics, whether or not the select has a default.
SubmitPanic(c) ==
    /\ cpc[c] \in {"send", "resend"}
    /\ closed
    /\ Return(c, "panic")
    /\ UNCHANGED <<poolVars, tries, launched, request, workerVars, detached, ran>>

\* The ending of the policy.
SubmitReject(c) ==
    /\ cpc[c] = "reject"
    /\ \/ /\ rejectPolicy.then = "abort"
          /\ Return(c, "full") /\ UNCHANGED detached
       \/ /\ rejectPolicy.then = "discard"
          /\ Return(c, "ok") /\ UNCHANGED detached
       \/ /\ rejectPolicy.then = "nil"
          /\ Return(c, IF tries[c] = 0 THEN "ok" ELSE "full") /\ UNCHANGED detached
       \/ /\ rejectPolicy.then = "newProc"
          /\ Return(c, "ok") /\ detached' = detached \cup {task[c]}
       \/ /\ rejectPolicy.then = "callerRuns"
          /\ Goto(c, "run") /\ UNCHANGED <<task, ret, detached>>
    /\ UNCHANGED <<poolVars, tries, launched, request, workerVars, ran>>

\* The task of CallerRunsPolicy ends; a panic of it is recovered.
SubmitRun(c) ==
    /\ cpc[c] = "run"
    /\ ran' = ran \cup {task[c]}
    /\ Return(c, "ok")
    /\ UNCHANGED <<poolVars, tries, launched, request, workerVars, detached>>

\* The task of a NewProcRunsPolicy goroutine ends; the goroutine is in no
\* WaitGroup.
DetachedRun(t) ==
    /\ t \in detached
    /\ detached' = detached \ {t}
    /\ ran' = ran \cup {t}
    /\ UNCHANGED <<poolVars, clientVars, workerVars, ret>>

\* What a submitter does once it has called Submit.
SubmitStep(c) ==
    \/ SubmitLoad(c) \/ SubmitLen(c) \/ SubmitCount(c) \/ SubmitLock(c)
    \/ SubmitRecheck(c) \/ SubmitAdd(c) \/ SubmitGo(c) \/ SubmitUnlock(c)
    \/ SubmitSend(c) \/ SubmitFull(c) \/ SubmitPanic(c) \/ SubmitReject(c)
    \/ SubmitRun(c)

-----------------------------------------------------------------------------
\* Start.

StartCall(c) ==
    /\ cpc[c] = "idle"
    /\ Goto(c, "load1")
    /\ UNCHANGED <<poolVars, task, tries, launched, request, workerVars, taskVars>>

\* The two loads of the state; both failures return, one of them an error.
StartLoad(c) ==
    /\ \/ cpc[c] = "load1" /\ Goto(c, IF state = "running" THEN "done" ELSE "load2")
       \/ cpc[c] = "load2" /\ Goto(c, IF state = "init" THEN "store" ELSE "done")
    /\ UNCHANGED <<poolVars, task, tries, launched, request, workerVars, taskVars>>

StartStore(c) ==
    /\ cpc[c] = "store"
    /\ state' = "running"
    /\ Goto(c, IF MinWorker = 0 THEN "done" ELSE "add")
    /\ UNCHANGED <<workerCount, growingMux, taskChan, closed, rejectPolicy, task,
                   tries, launched, request, workerVars, taskVars>>

\* The loop adds minWorker workers, without growingMux.
StartAdd(c) ==
    /\ cpc[c] = "add"
    /\ workerCount' = workerCount + 1
    /\ Goto(c, "go")
    /\ UNCHANGED <<state, growingMux, taskChan, closed, rejectPolicy, task, tries,
                   launched, request, workerVars, taskVars>>

StartGo(c) ==
    /\ cpc[c] = "go"
    /\ SpawnWorker
    /\ launched' = [launched EXCEPT ![c] = @ + 1]
    /\ Goto(c, IF launched[c] + 1 < MinWorker THEN "add" ELSE "done")
    /\ UNCHANGED <<poolVars, task, tries, request, job, taskVars>>

StartStep(c) == StartLoad(c) \/ StartStore(c) \/ StartAdd(c) \/ StartGo(c)

-----------------------------------------------------------------------------
\* Shutdown and ShutdownWait.

StopCall(c) ==
    /\ cpc[c] = "idle" /\ MayUse
    /\ \E r \in [drain : BOOLEAN, wait : BOOLEAN] :
          /\ request' = [request EXCEPT ![c] = r]
          /\ Goto(c, IF r.wait THEN "waitCheck" ELSE "check")
    /\ UNCHANGED <<poolVars, task, tries, launched, workerVars, taskVars>>

\* Where a stopper goes when the Shutdown it called returns.
AfterShutdown(c) == IF request[c].wait THEN "wait" ELSE "done"

\* The state check of ShutdownWait, then that of Shutdown.
StopCheck(c) ==
    /\ \/ /\ cpc[c] = "waitCheck"
          /\ Goto(c, IF state = "running" THEN "check" ELSE "done")
       \/ /\ cpc[c] = "check"
          /\ Goto(c, IF state = "running" THEN "store" ELSE AfterShutdown(c))
    /\ UNCHANGED <<poolVars, task, tries, launched, request, workerVars, taskVars>>

\* Mutant: the parameter drain is ignored.
StopStore_NoDrain(c) ==
    /\ cpc[c] = "store"
    /\ state' = "shutdown"
    /\ Goto(c, "close")
    /\ UNCHANGED <<workerCount, growingMux, taskChan, closed, rejectPolicy, task,
                   tries, launched, request, workerVars, taskVars>>

StopStore(c) ==
    /\ cpc[c] = "store"
    /\ state' = IF request[c].drain THEN "drain" ELSE "shutdown"
    /\ Goto(c, "close")
    /\ UNCHANGED <<workerCount, growingMux, taskChan, closed, rejectPolicy, task,
                   tries, launched, request, workerVars, taskVars>>

\* Closing a closed channel panics.
StopClose(c) ==
    /\ cpc[c] = "close"
    /\ closed' = TRUE
    /\ Goto(c, IF closed THEN "panic" ELSE AfterShutdown(c))
    /\ UNCHANGED <<state, workerCount, growingMux, taskChan, rejectPolicy, task,
                   tries, launched, request, workerVars, taskVars>>

\* w.wg.Wait() returns when no worker goroutine is left.
StopWait(c) ==
    /\ cpc[c] = "wait"
    /\ \A w \in Workers : wpc[w] = "none"
    /\ Goto(c, "done")
    /\ UNCHANGED <<poolVars, task, tries, launched, request, workerVars, taskVars>>

StopStep(c) == StopCheck(c) \/ StopStore(c) \/ StopClose(c) \/ StopWait(c)

-----------------------------------------------------------------------------
\* worker().

WGoto(w, pc) == wpc' = [wpc EXCEPT ![w] = pc]

\* Mutant: a worker leaves a pool that is being drained.
WorkerCheck_Leaves(w) ==
    /\ wpc[w] = "check"
    /\ WGoto(w, IF state # "running" THEN "exit" ELSE "select")
    /\ UNCHANGED <<poolVars, clientVars, job, taskVars>>

WorkerCheck(w) ==
    /\ wpc[w] = "check"
    /\ WGoto(w, IF state = "shutdown" THEN "exit" ELSE "select")
    /\ UNCHANGED <<poolVars, clientVars, job, taskVars>>

\* The receive branch delivers a task; a closed channel still delivers what is
\* left in its buffer.
WorkerReceive(w) ==
    /\ wpc[w] = "select" /\ taskChan # <<>>
    /\ taskChan' = Tail(taskChan)
    /\ job' = [job EXCEPT ![w] = Head(taskChan)]
    /\ WGoto(w, "exec")
    /\ UNCHANGED <<state, workerCount, growingMux, closed, rejectPolicy, clientVars,
                   taskVars>>

\* Mutant: a closed channel is taken for an idle one.
WorkerClosed_Continues(w) ==
    /\ wpc[w] = "select" /\ taskChan = <<>> /\ closed
    /\ WGoto(w, "check")
    /\ UNCHANGED <<poolVars, clientVars, job, taskVars>>

\* The receive branch finds the channel closed and empty.
WorkerClosed(w) ==
    /\ wpc[w] = "select" /\ taskChan = <<>> /\ closed
    /\ state' = "shutdown"
    /\ WGoto(w, "exit")
    /\ UNCHANGED <<workerCount, growingMux, taskChan, closed, rejectPolicy, clientVars,
                   job, taskVars>>

\* The timer branch, and its load of the count.  The timer may fire in any
\* state: a select with several ready branches picks one at random.
WorkerIdle(w) ==
    /\ wpc[w] = "select"
    /\ WGoto(w, IF workerCount > MinWorker THEN "exit" ELSE "check")
    /\ UNCHANGED <<poolVars, clientVars, job, taskVars>>

\* executeTask returns, the panic of the task recovered.
WorkerExecute(w) ==
    /\ wpc[w] = "exec"
    /\ ran' = ran \cup {job[w]}
    /\ job' = [job EXCEPT ![w] = None]
    /\ WGoto(w, "check")
    /\ UNCHANGED <<poolVars, clientVars, detached, ret>>

\* Mutant: the deferred Add(-1) is missing.
WorkerExit_Uncounted(w) ==
    /\ wpc[w] = "exit"
    /\ WGoto(w, "leave")
    /\ UNCHANGED <<poolVars, clientVars, job, taskVars>>

\* The deferred workerCount.Add(-1).
WorkerExit(w) ==
    /\ wpc[w] = "exit"
    /\ workerCount' = workerCount - 1
    /\ WGoto(w, "leave")
    /\ UNCHANGED <<state, growingMux, taskChan, closed, rejectPolicy, clientVars, job,
                   taskVars>>

\* The deferred wg.Done().
WorkerDone(w) ==
    /\ wpc[w] = "leave"
    /\ WGoto(w, "none")
    /\ UNCHANGED <<poolVars, clientVars, job, taskVars>>

WorkerStep(w) ==
    \/ WorkerCheck(w) \/ WorkerReceive(w) \/ WorkerClosed(w) \/ WorkerIdle(w)
    \/ WorkerExecute(w) \/ WorkerExit(w) \/ WorkerDone(w)

-----------------------------------------------------------------------------
\* The system.

\* Everything has ended: no call is running and no goroutine of the pool is left.
Terminated ==
    /\ \A c \in Submitters : cpc[c] = "idle"
    /\ \A c \in Starters : cpc[c] = "done"
    /\ \A c \in Stoppers : cpc[c] \in {"done", "panic"}
    /\ \A w \in Workers : wpc[w] = "none"
    /\ detached = {}
    /\ \A t \in Tasks : ret[t] # "new"

Next ==
    \/ \E c \in Submitters : SubmitCall(c) \/ SubmitStep(c)
    \/ \E c \in Starters : StartCall(c) \/ StartStep(c)
    \/ \E c \in Stoppers : StopCall(c) \/ StopStep(c)
    \/ \E w \in Workers : WorkerStep(w)
    \/ \E t \in Tasks : DetachedRun(t)
    \/ Terminated /\ UNCHANGED vars

\* A goroutine that can take a step of a call it has made, or of worker(),
\* takes it eventually; tasks end.  Nothing obliges a caller to call.  Go picks
\* a ready branch of a select at random, so a worker that finds a task ready
\* again and again takes one (SF).
Fairness ==
    /\ \A c \in Submitters : WF_vars(SubmitStep(c))
    /\ \A c \in Starters : WF_vars(StartStep(c))
    /\ \A c \in Stoppers : WF_vars(StopStep(c))
    /\ \A w \in Workers :
          /\ WF_vars(WorkerStep(w))
          /\ SF_vars(WorkerReceive(w)) /\ SF_vars(WorkerClosed(w))
    /\ \A t \in Tasks : WF_vars(DetachedRun(t))

Spec == Init /\ [][Next]_vars

FairSpec == Spec /\ Fairness

-----------------------------------------------------------------------------
\* Properties.

\* Workers that the count includes, and client goroutines between their
\* workerCount.Add(1) and the wg.Go that follows it.
Counted   == {w \in Workers : wpc[w] \in {"check", "select", "exec", "exit"}}
Launching == {c \in Submitters \cup Starters : cpc[c] = "go"}

\* The count that Submit and the idle workers decide on is never off by one:
\* every Add(1) of Submit and Start is matched by one worker that is launched
\* and one deferred Add(-1), however the calls interleave.
CountExact == workerCount = Cardinality(Counted) + Cardinality(Launching)

\* A pool that is started once, before it is used, never has more than
\* maxWorker workers: the unlocked check of Submit is repeated under
\* growingMux.  (Start adds without the mutex: it must not race with Submit.)
WorkerBound == workerCount <= MaxWorker

\* Where each task is, as the caller of Submit sees it.
Executing == {t \in Tasks : \/ t \in detached
                            \/ \E w \in Workers : job[w] = t
                            \/ \E c \in Submitters : cpc[c] = "run" /\ task[c] = t}
FateOf(t) ==
    CASE t \in ran -> "done"
      [] t \notin ran /\ t \in Executing -> "running"
      [] t \notin ran \cup Executing /\ \E i \in DOMAIN taskChan : taskChan[i] = t -> "queued"
      [] OTHER -> CASE ret[t] = "new" -> "new"
                    [] ret[t] = "pending" -> "offered"
                    [] ret[t] = "ok" -> "dropped"
                    [] ret[t] \in {"shutdown", "full", "panic"} -> "refused"

Ledger == INSTANCE TaskLedger
            WITH queue <- taskChan, fate <- [t \in Tasks |-> FateOf(t)], open <- ~closed

\* The pool keeps the promises of TaskLedger under every policy, every
\* interleaving and every misuse of Start and Shutdown: no task is run twice,
\* lost between the channel and a worker, reordered, run although its Submit
\* returned an error, or accepted by a closed channel.
LedgerSpec == Ledger!Spec

\* Every call of a stopper that waits is answered, when Shutdown(drain)
\* closed the channel, by a pool that has nothing left to do.  Only for pools
\* of a fixed size: elastic workers may all leave as idle before the drain.
DrainComplete ==
    \A c \in Stoppers :
        cpc[c] = "done" /\ request[c].wait /\ request[c].drain /\ closed
            => taskChan = <<>> /\ \A w \in Workers : job[w] = None

\* No call of Submit ends in a panic: after a shutdown it returns an error
\* (workerpool.go:170, "work pool has been shutdown").
SubmitReturns == \A t \in Tasks : ret[t] # "panic"

\* A task that was accepted is executed, unless the pool was shut down without
\* draining it.
TaskServed ==
    \A t \in Tasks :
        FateOf(t) = "queued" ~> \/ t \in ran
                                \/ \E c \in Stoppers : cpc[c] # "idle" /\ ~request[c].drain

\* Shutdown and ShutdownWait return.
StopReturns ==
    \A c \in Stoppers : cpc[c] # "idle" ~> cpc[c] \in {"done", "panic"}

\* Once the channel is closed every worker goroutine ends, none is leaked.
WorkersEnd == closed ~> \A w \in Workers : wpc[w] = "none"

\* A shutdown comes to its end: for its caller and for the workers.
ShutdownEnds == StopReturns /\ WorkersEnd

=============================================================================
