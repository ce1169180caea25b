------------------------- MODULE WorkerPool_proofs -------------------------
(***************************************************************************)
(* Proofs about WorkerPool for every number of goroutines, workers, tasks, *)
(* every size of the pool and of the channel, and every policy:            *)
(*   TypeCorrect    the type invariant;                                    *)
(*   CountCorrect   the worker count is exact, however Start, Submit and   *)
(*                  Shutdown are called and interleaved;                   *)
(*   BoundCorrect   a pool that is started once, before it is used, never  *)
(*                  has more than MaxWorker workers;                       *)
(*   DrainCorrect   a pool of a fixed size that one call starts and one    *)
(*                  call stops leaves no accepted task behind;             *)
(*   LedgerCorrect  every step of the pool is a step of TaskLedger, for    *)
(*                  one task at most, or leaves it as it is.               *)
(***************************************************************************)
EXTENDS WorkerPool, TLAPS, FiniteSetTheorems, SequenceTheorems

-----------------------------------------------------------------------------
\* Type correctness.

\* Start's loop index: the loop has not begun, or has an iteration left.
LoopIndex ==
    \A c \in Starters :
        /\ cpc[c] \in {"idle", "load1", "load2", "store"} => launched[c] = 0
        /\ cpc[c] \in {"add", "go"} => launched[c] < MinWorker

TypeInv == TypeOK /\ LoopIndex

\* NewWorkerPool establishes the type invariant.
LEMMA TypeInit == Init => TypeInv
<1> SUFFICES ASSUME Init
             PROVE  TypeInv
  OBVIOUS
<1>1. taskChan \in Seq(Tasks) /\ Len(taskChan) <= ChanSize
  BY PoolAssumption DEF Init
<1>2. job \in [Workers -> Tasks \cup {None}] /\ \A w \in Workers : job[w] # None <=> wpc[w] = "exec"
  BY PoolAssumption DEF Init
<1>3. /\ cpc \in [Clients -> SubmitPc \cup StartPc \cup StopPc]
      /\ \A c \in Clients : cpc[c] = "idle"
  BY DEF Init, SubmitPc
<1>4. /\ task \in [Submitters -> Tasks \cup {None}]
      /\ \A c \in Submitters : task[c] = None
  BY DEF Init
<1>5. /\ launched \in [Starters -> 0..MinWorker]
      /\ \A c \in Starters : launched[c] = 0
  BY PoolAssumption DEF Init
<1>6. /\ request \in [Stoppers -> [drain : BOOLEAN, wait : BOOLEAN]]
      /\ tries \in [Submitters -> Nat]
      /\ wpc \in [Workers -> WorkerPc]
      /\ ret \in [Tasks -> Returns]
  BY DEF Init, WorkerPc, Returns
<1>7. /\ state \in States
      /\ growingMux \in Submitters \cup {None}
      /\ closed \in BOOLEAN /\ rejectPolicy \in RejectPolicies
      /\ detached \subseteq Tasks /\ ran \subseteq Tasks
  BY Zenon DEF Init, States
<1>8. workerCount \in Int
  BY DEF Init
<1>9. LoopIndex
  <2>1. \A c \in Starters : cpc[c] = "idle" /\ launched[c] = 0
    BY <1>3, <1>5 DEF Clients
  <2> QED
    BY <2>1 DEF LoopIndex
<1>10. TypeOK
  BY <1>1, <1>2, <1>3, <1>4, <1>5, <1>6, <1>7, <1>8
  DEF TypeOK, Clients, SubmitPc, StartPc, StopPc
<1> QED
  BY <1>9, <1>10 DEF TypeInv

\* Every step keeps the type invariant.
LEMMA TypeStep == TypeInv /\ [Next]_vars => TypeInv'
<1> SUFFICES ASSUME TypeInv, [Next]_vars
             PROVE  TypeInv'
  OBVIOUS
<1> USE PoolAssumption
  DEF TypeInv, TypeOK, LoopIndex, Clients, SubmitPc, StartPc, StopPc, WorkerPc,
          States, Returns, poolVars, clientVars, workerVars, taskVars, vars
<1>1. ASSUME NEW c \in Submitters, SubmitCall(c) PROVE TypeInv'
  BY <1>1 DEF SubmitCall, Goto
<1>2. ASSUME NEW c \in Submitters, SubmitLoad(c) PROVE TypeInv'
  <2>1. UNCHANGED <<poolVars, tries, launched, request, workerVars, detached, ran>>
    BY <1>2 DEF SubmitLoad
  <2>2. \/ Return(c, "shutdown")
        \/ \E pc \in {"len", "resend"} : Goto(c, pc) /\ UNCHANGED <<task, ret>>
    BY <1>2 DEF SubmitLoad
  <2>3. cpc[c] # "idle"
    BY <1>2 DEF SubmitLoad
  <2>4. CASE Return(c, "shutdown")
    BY <2>1, <2>3, <2>4 DEF Return, Goto
  <2>5. ASSUME NEW pc \in {"len", "resend"}, Goto(c, pc), UNCHANGED <<task, ret>>
        PROVE  TypeInv'
    BY <2>1, <2>3, <2>5 DEF Goto
  <2> HIDE DEF TypeInv, TypeOK, LoopIndex, Clients, SubmitPc, StartPc, StopPc, WorkerPc,
               States, Returns, poolVars, clientVars, workerVars, taskVars
  <2> QED
    BY <2>2, <2>4, <2>5
<1>3. ASSUME NEW c \in Submitters, SubmitLen(c) PROVE TypeInv'
  BY <1>3 DEF SubmitLen, Goto
<1>4. ASSUME NEW c \in Submitters, SubmitCount(c) PROVE TypeInv'
  BY <1>4 DEF SubmitCount, Goto
<1>5. ASSUME NEW c \in Submitters, SubmitLock(c) PROVE TypeInv'
  BY <1>5 DEF SubmitLock, Goto
<1>6. ASSUME NEW c \in Submitters, SubmitRecheck(c) PROVE TypeInv'
  BY <1>6 DEF SubmitRecheck, Goto
<1>7. ASSUME NEW c \in Submitters, SubmitAdd(c) PROVE TypeInv'
  BY <1>7 DEF SubmitAdd, Goto
<1>8. ASSUME NEW c \in Submitters, SubmitGo(c) PROVE TypeInv'
  BY <1>8 DEF SubmitGo, SpawnWorker, Goto
<1>9. ASSUME NEW c \in Submitters, SubmitUnlock(c) PROVE TypeInv'
  BY <1>9 DEF SubmitUnlock, Goto
<1>10. ASSUME NEW c \in Submitters, SubmitSend(c) PROVE TypeInv'
  BY <1>10 DEF SubmitSend, Return, Goto, Full
<1>11. ASSUME NEW c \in Submitters, SubmitFull(c) PROVE TypeInv'
  BY <1>11 DEF SubmitFull, Goto, Full
<1>12. ASSUME NEW c \in Submitters, SubmitPanic(c) PROVE TypeInv'
  BY <1>12 DEF SubmitPanic, Return, Goto
<1>13. ASSUME NEW c \in Submitters, SubmitReject(c) PROVE TypeInv'
  <2>1. UNCHANGED <<poolVars, tries, launched, request, workerVars, ran>>
    BY <1>13 DEF SubmitReject
  <2>2. cpc[c] = "reject"
    BY <1>13 DEF SubmitReject
  <2>3. detached' \subseteq Tasks
    BY <1>13, <2>2 DEF SubmitReject
  <2>4. \/ \E r \in {"ok", "full"} : Return(c, r)
        \/ Goto(c, "run") /\ UNCHANGED <<task, ret>>
    BY <1>13 DEF SubmitReject
  <2>5. ASSUME NEW r \in {"ok", "full"}, Return(c, r)
        PROVE  TypeInv'
    BY <2>1, <2>2, <2>3, <2>5 DEF Return, Goto
  <2>6. CASE Goto(c, "run") /\ UNCHANGED <<task, ret>>
    BY <2>1, <2>2, <2>3, <2>6 DEF Goto
  <2> HIDE DEF TypeInv, TypeOK, LoopIndex, Clients, SubmitPc, StartPc, StopPc, WorkerPc,
               States, Returns, poolVars, clientVars, workerVars, taskVars
  <2> QED
    BY <2>4, <2>5, <2>6
<1>14. ASSUME NEW c \in Submitters, SubmitRun(c) PROVE TypeInv'
  BY <1>14 DEF SubmitRun, Return, Goto
<1>15. ASSUME NEW c \in Starters, StartCall(c) PROVE TypeInv'
  BY <1>15 DEF StartCall, Goto
<1>16. ASSUME NEW c \in Starters, StartLoad(c) PROVE TypeInv'
  <2>1. UNCHANGED <<poolVars, task, tries, launched, request, workerVars, taskVars>>
    BY <1>16 DEF StartLoad
  <2>2. cpc[c] \in {"load1", "load2"}
    BY <1>16 DEF StartLoad
  <2>3. PICK pc \in {"load2", "store", "done"} : Goto(c, pc)
    BY <1>16 DEF StartLoad
  <2> QED
    BY <2>1, <2>2, <2>3 DEF Goto
<1>17. ASSUME NEW c \in Starters, StartStore(c) PROVE TypeInv'
  BY <1>17 DEF StartStore, Goto
<1>18. ASSUME NEW c \in Starters, StartAdd(c) PROVE TypeInv'
  BY <1>18 DEF StartAdd, Goto
<1>19. ASSUME NEW c \in Starters, StartGo(c) PROVE TypeInv'
  BY <1>19 DEF StartGo, SpawnWorker, Goto
<1>20. ASSUME NEW c \in Stoppers, StopCall(c) PROVE TypeInv'
  BY <1>20 DEF StopCall, Goto
<1>21. ASSUME NEW c \in Stoppers, StopCheck(c) PROVE TypeInv'
  <2>1. PICK pc \in {"check", "store", "wait", "done"} : Goto(c, pc)
    BY <1>21 DEF StopCheck, AfterShutdown
  <2> QED
    BY <1>21, <2>1 DEF StopCheck, Goto
<1>22. ASSUME NEW c \in Stoppers, StopStore(c) PROVE TypeInv'
  BY <1>22 DEF StopStore, Goto
<1>23. ASSUME NEW c \in Stoppers, StopClose(c) PROVE TypeInv'
  BY <1>23 DEF StopClose, AfterShutdown, Goto
<1>24. ASSUME NEW c \in Stoppers, StopWait(c) PROVE TypeInv'
  BY <1>24 DEF StopWait, Goto
<1>25. ASSUME NEW w \in Workers, WorkerCheck(w) PROVE TypeInv'
  BY <1>25 DEF WorkerCheck, WGoto
<1>26. ASSUME NEW w \in Workers, WorkerReceive(w) PROVE TypeInv'
  BY <1>26 DEF WorkerReceive, WGoto
<1>27. ASSUME NEW w \in Workers, WorkerClosed(w) PROVE TypeInv'
  BY <1>27 DEF WorkerClosed, WGoto
<1>28. ASSUME NEW w \in Workers, WorkerIdle(w) PROVE TypeInv'
  BY <1>28 DEF WorkerIdle, WGoto
<1>29. ASSUME NEW w \in Workers, WorkerExecute(w) PROVE TypeInv'
  BY <1>29 DEF WorkerExecute, WGoto
<1>30. ASSUME NEW w \in Workers, WorkerExit(w) PROVE TypeInv'
  BY <1>30 DEF WorkerExit, WGoto
<1>31. ASSUME NEW w \in Workers, WorkerDone(w) PROVE TypeInv'
  BY <1>31 DEF WorkerDone, WGoto
<1>32. ASSUME NEW t \in Tasks, DetachedRun(t) PROVE TypeInv'
  BY <1>32 DEF DetachedRun
<1>33. CASE UNCHANGED vars
  BY <1>33
<1> HIDE DEF TypeInv, TypeOK, LoopIndex, Clients, SubmitPc, StartPc, StopPc, WorkerPc,
             States, Returns, poolVars, clientVars, workerVars, taskVars, vars
<1> QED
  BY <1>1, <1>2, <1>3, <1>4, <1>5, <1>6, <1>7, <1>8, <1>9, <1>10, <1>11,
     <1>12, <1>13, <1>14, <1>15, <1>16, <1>17, <1>18, <1>19, <1>20, <1>21,
     <1>22, <1>23, <1>24, <1>25, <1>26, <1>27, <1>28, <1>29, <1>30, <1>31,
     <1>32, <1>33
     DEF Next, SubmitStep, StartStep, StopStep, WorkerStep

\* Every reachable state is well typed.
THEOREM TypeCorrect == Spec => []TypeOK
<1>1. TypeInv => TypeOK
  BY DEF TypeInv
<1> QED
  BY <1>1, TypeInit, TypeStep, PTL DEF Spec

-----------------------------------------------------------------------------
\* The worker count.

\* One more element.
LEMMA AddOne ==
  ASSUME NEW S, NEW x, IsFiniteSet(S), x \notin S
  PROVE  Cardinality(S \cup {x}) = Cardinality(S) + 1
<1>1. IsFiniteSet(S \cup {x})
  BY FS_AddElement, Zenon
<1>2. Cardinality(S \cup {x}) - 1 = Cardinality((S \cup {x}) \ {x})
  BY <1>1, FS_RemoveElement
<1>3. (S \cup {x}) \ {x} = S
  OBVIOUS
<1>4. Cardinality(S \cup {x}) - 1 = Cardinality(S)
  BY <1>2, <1>3, Zenon
<1>5. Cardinality(S \cup {x}) \in Nat
  BY <1>1, FS_CardinalityType
<1> QED
  BY <1>4, <1>5

\* The two sets whose sizes make up the count are finite.
LEMMA CountSets ==
  /\ IsFiniteSet(Counted) /\ Cardinality(Counted) \in Nat
  /\ IsFiniteSet(Launching) /\ Cardinality(Launching) \in Nat
<1>1. IsFiniteSet(Submitters \cup Starters)
  BY PoolFinite, FS_Union
<1>2. IsFiniteSet(Counted) /\ IsFiniteSet(Launching)
  BY <1>1, PoolFinite, FS_Subset DEF Counted, Launching
<1> QED
  BY <1>2, FS_CardinalityType

\* A worker that is launched is counted from then on.
LEMMA CountLaunched ==
  ASSUME NEW w \in Workers, wpc \in [Workers -> WorkerPc],
         wpc[w] = "none", wpc' = [wpc EXCEPT ![w] = "check"]
  PROVE  w \notin Counted /\ Counted' = Counted \cup {w}
BY DEF Counted, WorkerPc

\* Every step keeps the count exact: Add(1) comes with a goroutine that is
\* about to launch a worker, the launch turns it into a worker, the deferred
\* Add(-1) comes with a worker that leaves, and no other step touches them.
LEMMA CountStep ==
  ASSUME TypeInv, TypeInv', CountExact, [Next]_vars
  PROVE  CountExact'
<1> DEFINE Same == /\ workerCount' = workerCount
                   /\ Counted' = Counted
                   /\ Launching' = Launching
<1> USE PoolAssumption
  DEF TypeInv, TypeOK, LoopIndex, Clients, SubmitPc, StartPc, StopPc, WorkerPc,
          States, Returns, poolVars, clientVars, workerVars, taskVars, vars
<1>1. ASSUME NEW c \in Submitters, SubmitCall(c) PROVE Same
  BY <1>1 DEF SubmitCall, Goto, Counted, Launching
<1>2. ASSUME NEW c \in Submitters, SubmitLoad(c) PROVE Same
  BY <1>2 DEF SubmitLoad, Return, Goto, Counted, Launching
<1>3. ASSUME NEW c \in Submitters, SubmitLen(c) PROVE Same
  BY <1>3 DEF SubmitLen, Goto, Counted, Launching
<1>4. ASSUME NEW c \in Submitters, SubmitCount(c) PROVE Same
  BY <1>4 DEF SubmitCount, Goto, Counted, Launching
<1>5. ASSUME NEW c \in Submitters, SubmitLock(c) PROVE Same
  BY <1>5 DEF SubmitLock, Goto, Counted, Launching
<1>6. ASSUME NEW c \in Submitters, SubmitRecheck(c) PROVE Same
  BY <1>6 DEF SubmitRecheck, Goto, Counted, Launching
<1>7. ASSUME NEW c \in Submitters, SubmitAdd(c) PROVE CountExact'
  <2>1. /\ c \notin Launching
        /\ Launching' = Launching \cup {c}
        /\ Counted' = Counted
    BY <1>7 DEF SubmitAdd, Goto, Launching, Counted
  <2>2. Cardinality(Launching') = Cardinality(Launching) + 1
    BY <2>1, CountSets, AddOne
  <2> QED
    BY <1>7, <2>1, <2>2, CountSets DEF CountExact, SubmitAdd
<1>8. ASSUME NEW c \in Submitters, SubmitGo(c) PROVE CountExact'
  <2>1. PICK w \in Workers : wpc[w] = "none" /\ wpc' = [wpc EXCEPT ![w] = "check"]
    BY <1>8 DEF SubmitGo, SpawnWorker
  <2>2. c \in Launching /\ Launching' = Launching \ {c}
    BY <1>8 DEF SubmitGo, Goto, Launching
  <2>3. w \notin Counted /\ Counted' = Counted \cup {w}
    <3>1. wpc \in [Workers -> WorkerPc]
      OBVIOUS
    <3> HIDE DEF TypeInv, TypeOK, LoopIndex, WorkerPc
    <3> QED
      BY <2>1, <3>1, CountLaunched
  <2>4. Cardinality(Launching') = Cardinality(Launching) - 1
    BY <2>2, CountSets, FS_RemoveElement
  <2>5. Cardinality(Counted') = Cardinality(Counted) + 1
    BY <2>3, CountSets, AddOne
  <2> QED
    BY <1>8, <2>4, <2>5, CountSets DEF CountExact, SubmitGo
<1>9. ASSUME NEW c \in Submitters, SubmitUnlock(c) PROVE Same
  BY <1>9 DEF SubmitUnlock, Goto, Counted, Launching
<1>10. ASSUME NEW c \in Submitters, SubmitSend(c) PROVE Same
  BY <1>10 DEF SubmitSend, Return, Goto, Full, Counted, Launching
<1>11. ASSUME NEW c \in Submitters, SubmitFull(c) PROVE Same
  BY <1>11 DEF SubmitFull, Goto, Full, Counted, Launching
<1>12. ASSUME NEW c \in Submitters, SubmitPanic(c) PROVE Same
  BY <1>12 DEF SubmitPanic, Return, Goto, Counted, Launching
<1>13. ASSUME NEW c \in Submitters, SubmitReject(c) PROVE Same
  BY <1>13 DEF SubmitReject, Return, Goto, Counted, Launching
<1>14. ASSUME NEW c \in Submitters, SubmitRun(c) PROVE Same
  BY <1>14 DEF SubmitRun, Return, Goto, Counted, Launching
<1>15. ASSUME NEW c \in Starters, StartCall(c) PROVE Same
  BY <1>15 DEF StartCall, Goto, Counted, Launching
<1>16. ASSUME NEW c \in Starters, StartLoad(c) PROVE Same
  BY <1>16 DEF StartLoad, Goto, Counted, Launching
<1>17. ASSUME NEW c \in Starters, StartStore(c) PROVE Same
  BY <1>17 DEF StartStore, Goto, Counted, Launching
<1>18. ASSUME NEW c \in Starters, StartAdd(c) PROVE CountExact'
  <2>1. /\ c \notin Launching
        /\ Launching' = Launching \cup {c}
        /\ Counted' = Counted
    BY <1>18 DEF StartAdd, Goto, Launching, Counted
  <2>2. Cardinality(Launching') = Cardinality(Launching) + 1
    BY <2>1, CountSets, AddOne
  <2> QED
    BY <1>18, <2>1, <2>2, CountSets DEF CountExact, StartAdd
<1>19. ASSUME NEW c \in Starters, StartGo(c) PROVE CountExact'
  <2>1. PICK w \in Workers : wpc[w] = "none" /\ wpc' = [wpc EXCEPT ![w] = "check"]
    BY <1>19 DEF StartGo, SpawnWorker
  <2>2. c \in Launching /\ Launching' = Launching \ {c}
    BY <1>19 DEF StartGo, Goto, Launching
  <2>3. w \notin Counted /\ Counted' = Counted \cup {w}
    <3>1. wpc \in [Workers -> WorkerPc]
      OBVIOUS
    <3> HIDE DEF TypeInv, TypeOK, LoopIndex, WorkerPc
    <3> QED
      BY <2>1, <3>1, CountLaunched
  <2>4. Cardinality(Launching') = Cardinality(Launching) - 1
    BY <2>2, CountSets, FS_RemoveElement
  <2>5. Cardinality(Counted') = Cardinality(Counted) + 1
    BY <2>3, CountSets, AddOne
  <2> QED
    BY <1>19, <2>4, <2>5, CountSets DEF CountExact, StartGo
<1>20. ASSUME NEW c \in Stoppers, StopCall(c) PROVE Same
  BY <1>20 DEF StopCall, Goto, Counted, Launching
<1>21. ASSUME NEW c \in Stoppers, StopCheck(c) PROVE Same
  BY <1>21 DEF StopCheck, AfterShutdown, Goto, Counted, Launching
<1>22. ASSUME NEW c \in Stoppers, StopStore(c) PROVE Same
  BY <1>22 DEF StopStore, Goto, Counted, Launching
<1>23. ASSUME NEW c \in Stoppers, StopClose(c) PROVE Same
  BY <1>23 DEF StopClose, AfterShutdown, Goto, Counted, Launching
<1>24. ASSUME NEW c \in Stoppers, StopWait(c) PROVE Same
  BY <1>24 DEF StopWait, Goto, Counted, Launching
<1>25. ASSUME NEW w \in Workers, WorkerCheck(w) PROVE Same
  BY <1>25 DEF WorkerCheck, WGoto, Counted, Launching
<1>26. ASSUME NEW w \in Workers, WorkerReceive(w) PROVE Same
  BY <1>26 DEF WorkerReceive, WGoto, Counted, Launching
<1>27. ASSUME NEW w \in Workers, WorkerClosed(w) PROVE Same
  BY <1>27 DEF WorkerClosed, WGoto, Counted, Launching
<1>28. ASSUME NEW w \in Workers, WorkerIdle(w) PROVE Same
  BY <1>28 DEF WorkerIdle, WGoto, Counted, Launching
<1>29. ASSUME NEW w \in Workers, WorkerExecute(w) PROVE Same
  BY <1>29 DEF WorkerExecute, WGoto, Counted, Launching
<1>30. ASSUME NEW w \in Workers, WorkerExit(w) PROVE CountExact'
  <2>1. /\ w \in Counted
        /\ Counted' = Counted \ {w}
        /\ Launching' = Launching
    BY <1>30 DEF WorkerExit, WGoto, Launching, Counted
  <2>2. Cardinality(Counted') = Cardinality(Counted) - 1
    BY <2>1, CountSets, FS_RemoveElement
  <2> QED
    BY <1>30, <2>1, <2>2, CountSets DEF CountExact, WorkerExit
<1>31. ASSUME NEW w \in Workers, WorkerDone(w) PROVE Same
  BY <1>31 DEF WorkerDone, WGoto, Counted, Launching
<1>32. ASSUME NEW t \in Tasks, DetachedRun(t) PROVE Same
  BY <1>32 DEF DetachedRun, Counted, Launching
<1>33. UNCHANGED vars => Same
  BY DEF Counted, Launching
<1>34. Same => CountExact'
  BY DEF CountExact
<1> HIDE DEF TypeInv, TypeOK, LoopIndex, Clients, SubmitPc, StartPc, StopPc, WorkerPc,
             States, Returns, poolVars, clientVars, workerVars, taskVars, vars, Same
<1> QED
  BY <1>1, <1>2, <1>3, <1>4, <1>5, <1>6, <1>7, <1>8, <1>9, <1>10, <1>11,
     <1>12, <1>13, <1>14, <1>15, <1>16, <1>17, <1>18, <1>19, <1>20, <1>21,
     <1>22, <1>23, <1>24, <1>25, <1>26, <1>27, <1>28, <1>29, <1>30, <1>31,
     <1>32, <1>33, <1>34
     DEF Next, SubmitStep, StartStep, StopStep, WorkerStep

\* w.workerCount is the number of workers plus the goroutines between Add(1)
\* and wg.Go, in every reachable state and under every use of the pool.
THEOREM CountCorrect == Spec => []CountExact
<1>1. Init => CountExact
  <2> SUFFICES ASSUME Init
               PROVE  CountExact
    OBVIOUS
  <2>1. Counted = {} /\ Launching = {}
    BY DEF Init, Counted, Launching, Clients
  <2> QED
    BY <2>1, FS_EmptySet DEF CountExact, Init
<1>2. TypeInv /\ TypeInv' /\ CountExact /\ [Next]_vars => CountExact'
  BY CountStep
<1> QED
  BY <1>1, <1>2, TypeInit, TypeStep, PTL DEF Spec

-----------------------------------------------------------------------------
\* The bound on the workers.

\* Between Lock and Unlock a submitter holds growingMux.
MutexInv ==
    \A c \in Submitters :
        cpc[c] \in {"recheck", "add", "go", "unlock"} => growingMux = c

\* What the second check of the count established still holds at the Add(1):
\* whoever could have added since needed the mutex or was the starter.
RoomInv == \A c \in Submitters : cpc[c] = "add" => workerCount < MaxWorker

\* Until Start returns nobody submits, and the count follows Start's loop.
BudgetInv ==
    \A s \in Starters :
        /\ cpc[s] # "done" => \A c \in Submitters : cpc[c] = "idle"
        /\ cpc[s] \in {"idle", "load1", "load2", "store"} => workerCount <= 0
        /\ cpc[s] = "add" => workerCount <= launched[s]
        /\ cpc[s] = "go" => workerCount <= launched[s] + 1

BoundInv == TypeInv /\ MutexInv /\ RoomInv /\ BudgetInv /\ WorkerBound

\* Every step of a disciplined pool keeps the inductive invariant.
LEMMA BoundStep ==
  ASSUME StartFirst, NEW s, Starters = {s},
         TypeInv', BoundInv, [Next]_vars
  PROVE  BoundInv'
<1> USE PoolAssumption
    DEF BoundInv, MutexInv, RoomInv, BudgetInv, WorkerBound, TypeInv, TypeOK,
        LoopIndex, Clients, SubmitPc, StartPc, StopPc, WorkerPc, poolVars,
        clientVars, workerVars, taskVars, vars
<1>1. ASSUME NEW c \in Submitters, SubmitCall(c) PROVE BoundInv'
  BY <1>1 DEF SubmitCall, MayUse, Started, Goto
<1>2. ASSUME NEW c \in Submitters, SubmitLoad(c) PROVE BoundInv'
  BY <1>2 DEF SubmitLoad, Return, Goto
<1>3. ASSUME NEW c \in Submitters, SubmitLen(c) PROVE BoundInv'
  BY <1>3 DEF SubmitLen, Goto
<1>4. ASSUME NEW c \in Submitters, SubmitCount(c) PROVE BoundInv'
  BY <1>4 DEF SubmitCount, Goto
<1>5. ASSUME NEW c \in Submitters, SubmitLock(c) PROVE BoundInv'
  BY <1>5 DEF SubmitLock, Goto
<1>6. ASSUME NEW c \in Submitters, SubmitRecheck(c) PROVE BoundInv'
  BY <1>6 DEF SubmitRecheck, Goto
<1>7. ASSUME NEW c \in Submitters, SubmitAdd(c) PROVE BoundInv'
  BY <1>7 DEF SubmitAdd, Goto
<1>8. ASSUME NEW c \in Submitters, SubmitGo(c) PROVE BoundInv'
  BY <1>8 DEF SubmitGo, SpawnWorker, Goto
<1>9. ASSUME NEW c \in Submitters, SubmitUnlock(c) PROVE BoundInv'
  BY <1>9 DEF SubmitUnlock, Goto
<1>10. ASSUME NEW c \in Submitters, SubmitSend(c) PROVE BoundInv'
  BY <1>10 DEF SubmitSend, Return, Goto, Full
<1>11. ASSUME NEW c \in Submitters, SubmitFull(c) PROVE BoundInv'
  BY <1>11 DEF SubmitFull, Goto, Full
<1>12. ASSUME NEW c \in Submitters, SubmitPanic(c) PROVE BoundInv'
  BY <1>12 DEF SubmitPanic, Return, Goto
<1>13. ASSUME NEW c \in Submitters, SubmitReject(c) PROVE BoundInv'
  BY <1>13 DEF SubmitReject, Return, Goto
<1>14. ASSUME NEW c \in Submitters, SubmitRun(c) PROVE BoundInv'
  BY <1>14 DEF SubmitRun, Return, Goto
<1>15. ASSUME NEW c \in Starters, StartCall(c) PROVE BoundInv'
  BY <1>15 DEF StartCall, Goto
<1>16. ASSUME NEW c \in Starters, StartLoad(c) PROVE BoundInv'
  BY <1>16 DEF StartLoad, Goto
<1>17. ASSUME NEW c \in Starters, StartStore(c) PROVE BoundInv'
  BY <1>17 DEF StartStore, Goto
<1>18. ASSUME NEW c \in Starters, StartAdd(c) PROVE BoundInv'
  BY <1>18 DEF StartAdd, Goto
<1>19. ASSUME NEW c \in Starters, StartGo(c) PROVE BoundInv'
  BY <1>19 DEF StartGo, SpawnWorker, Goto
<1>20. ASSUME NEW c \in Stoppers, StopCall(c) PROVE BoundInv'
  BY <1>20 DEF StopCall, MayUse, Started, Goto
<1>21. ASSUME NEW c \in Stoppers, StopCheck(c) PROVE BoundInv'
  BY <1>21 DEF StopCheck, AfterShutdown, Goto
<1>22. ASSUME NEW c \in Stoppers, StopStore(c) PROVE BoundInv'
  BY <1>22 DEF StopStore, Goto
<1>23. ASSUME NEW c \in Stoppers, StopClose(c) PROVE BoundInv'
  BY <1>23 DEF StopClose, AfterShutdown, Goto
<1>24. ASSUME NEW c \in Stoppers, StopWait(c) PROVE BoundInv'
  BY <1>24 DEF StopWait, Goto
<1>25. ASSUME NEW w \in Workers, WorkerCheck(w) PROVE BoundInv'
  BY <1>25 DEF WorkerCheck, WGoto
<1>26. ASSUME NEW w \in Workers, WorkerReceive(w) PROVE BoundInv'
  BY <1>26 DEF WorkerReceive, WGoto
<1>27. ASSUME NEW w \in Workers, WorkerClosed(w) PROVE BoundInv'
  BY <1>27 DEF WorkerClosed, WGoto
<1>28. ASSUME NEW w \in Workers, WorkerIdle(w) PROVE BoundInv'
  BY <1>28 DEF WorkerIdle, WGoto
<1>29. ASSUME NEW w \in Workers, WorkerExecute(w) PROVE BoundInv'
  BY <1>29 DEF WorkerExecute, WGoto
<1>30. ASSUME NEW w \in Workers, WorkerExit(w) PROVE BoundInv'
  BY <1>30 DEF WorkerExit, WGoto
<1>31. ASSUME NEW w \in Workers, WorkerDone(w) PROVE BoundInv'
  BY <1>31 DEF WorkerDone, WGoto
<1>32. ASSUME NEW t \in Tasks, DetachedRun(t) PROVE BoundInv'
  BY <1>32 DEF DetachedRun
<1>33. CASE UNCHANGED vars
  BY <1>33
<1> HIDE DEF BoundInv, MutexInv, RoomInv, BudgetInv, WorkerBound, TypeInv, TypeOK,
             LoopIndex, Clients, SubmitPc, StartPc, StopPc, WorkerPc, poolVars,
             clientVars, workerVars, taskVars, vars
<1> QED
  BY <1>1, <1>2, <1>3, <1>4, <1>5, <1>6, <1>7, <1>8, <1>9, <1>10, <1>11,
     <1>12, <1>13, <1>14, <1>15, <1>16, <1>17, <1>18, <1>19, <1>20, <1>21,
     <1>22, <1>23, <1>24, <1>25, <1>26, <1>27, <1>28, <1>29, <1>30, <1>31,
     <1>32, <1>33
     DEF Next, SubmitStep, StartStep, StopStep, WorkerStep

\* A pool that is started once, and used only after Start returned, never has
\* more than maxWorker workers.
THEOREM BoundCorrect ==
  ASSUME StartFirst, NEW s, Starters = {s}
  PROVE  Spec => []WorkerBound
<1>1. Init => BoundInv
  <2> SUFFICES ASSUME Init
               PROVE  BoundInv
    OBVIOUS
  <2>1. TypeInv
    BY TypeInit
  <2> QED
    BY <2>1, PoolAssumption
    DEF Init, BoundInv, MutexInv, RoomInv, BudgetInv, WorkerBound, Clients
<1>2. TypeInv' /\ BoundInv /\ [Next]_vars => BoundInv'
  BY BoundStep
<1>3. BoundInv => WorkerBound
  BY DEF BoundInv
<1> QED
  BY <1>1, <1>2, <1>3, TypeInit, TypeStep, PTL DEF Spec

-----------------------------------------------------------------------------
\* The drain of a pool of a fixed size.

Drained == closed /\ taskChan = <<>>

\* The pool was not shut down, or it is being drained.
Gentle == \A c \in Stoppers : cpc[c] = "idle" \/ request[c].drain

\* Start launches MinWorker workers before anybody else uses the pool, and they
\* stay until it is drained.
CrewInv ==
    \A s \in Starters :
        /\ cpc[s] # "done" =>
              ~closed /\ \A c \in Submitters \cup Stoppers : cpc[c] = "idle"
        /\ cpc[s] \in {"idle", "load1", "load2", "store"} =>
              state = "init" /\ workerCount = 0
        /\ cpc[s] \in {"add", "go"} => state = "running"
        /\ cpc[s] = "add" => workerCount = launched[s]
        /\ cpc[s] = "go" => workerCount = launched[s] + 1
        /\ cpc[s] = "done" => workerCount = MinWorker \/ ~Gentle \/ Drained

\* Before that nobody leaves, and nobody has a reason to launch another one.
NobodyLeaves ==
    Gentle /\ ~Drained =>
        /\ state # "shutdown"
        /\ \A w \in Workers : wpc[w] \notin {"exit", "leave"}
        /\ \A c \in Submitters : cpc[c] \notin {"add", "go"}

\* The stopper closes the channel, and waits for the workers to leave.
StopInv ==
    \A c \in Stoppers :
        /\ closed => cpc[c] \in {"wait", "done"}
        /\ cpc[c] = "done" /\ request[c].wait /\ request[c].drain /\ closed
              => Drained /\ \A w \in Workers : wpc[w] # "exec"

DrainInv == CrewInv /\ NobodyLeaves /\ StopInv

\* Every step of a pool of a fixed size keeps the inductive invariant.  The step
\* that matters is the end of Wait: with no worker left and none being launched
\* the count would be zero, so the crew has left, which it does when drained.
LEMMA DrainStep ==
  ASSUME StartFirst, MinWorker = MaxWorker, MinWorker > 0,
         NEW s, Starters = {s}, NEW e, Stoppers = {e},
         TypeInv, TypeInv', CountExact, DrainInv, [Next]_vars
  PROVE  DrainInv'
<1> USE PoolAssumption
    DEF DrainInv, CrewInv, NobodyLeaves, StopInv, Drained, Gentle, TypeInv, TypeOK,
        LoopIndex, Clients, SubmitPc, StartPc, StopPc, WorkerPc, poolVars,
        clientVars, workerVars, taskVars, vars
<1>1. ASSUME NEW c \in Submitters, SubmitCall(c) PROVE DrainInv'
  BY <1>1 DEF SubmitCall, MayUse, Started, Goto
<1>2. ASSUME NEW c \in Submitters, SubmitLoad(c) PROVE DrainInv'
  BY <1>2 DEF SubmitLoad, Return, Goto
<1>3. ASSUME NEW c \in Submitters, SubmitLen(c) PROVE DrainInv'
  BY <1>3 DEF SubmitLen, Goto
<1>4. ASSUME NEW c \in Submitters, SubmitCount(c) PROVE DrainInv'
  BY <1>4 DEF SubmitCount, Goto
<1>5. ASSUME NEW c \in Submitters, SubmitLock(c) PROVE DrainInv'
  BY <1>5 DEF SubmitLock, Goto
<1>6. ASSUME NEW c \in Submitters, SubmitRecheck(c) PROVE DrainInv'
  BY <1>6 DEF SubmitRecheck, Goto
<1>7. ASSUME NEW c \in Submitters, SubmitAdd(c) PROVE DrainInv'
  BY <1>7 DEF SubmitAdd, Goto
<1>8. ASSUME NEW c \in Submitters, SubmitGo(c) PROVE DrainInv'
  BY <1>8 DEF SubmitGo, SpawnWorker, Goto
<1>9. ASSUME NEW c \in Submitters, SubmitUnlock(c) PROVE DrainInv'
  BY <1>9 DEF SubmitUnlock, Goto
<1>10. ASSUME NEW c \in Submitters, SubmitSend(c) PROVE DrainInv'
  BY <1>10 DEF SubmitSend, Return, Goto, Full
<1>11. ASSUME NEW c \in Submitters, SubmitFull(c) PROVE DrainInv'
  BY <1>11 DEF SubmitFull, Goto, Full
<1>12. ASSUME NEW c \in Submitters, SubmitPanic(c) PROVE DrainInv'
  BY <1>12 DEF SubmitPanic, Return, Goto
<1>13. ASSUME NEW c \in Submitters, SubmitReject(c) PROVE DrainInv'
  BY <1>13 DEF SubmitReject, Return, Goto
<1>14. ASSUME NEW c \in Submitters, SubmitRun(c) PROVE DrainInv'
  BY <1>14 DEF SubmitRun, Return, Goto
<1>15. ASSUME NEW c \in Starters, StartCall(c) PROVE DrainInv'
  BY <1>15 DEF StartCall, Goto
<1>16. ASSUME NEW c \in Starters, StartLoad(c) PROVE DrainInv'
  BY <1>16 DEF StartLoad, Goto
<1>17. ASSUME NEW c \in Starters, StartStore(c) PROVE DrainInv'
  BY <1>17 DEF StartStore, Goto
<1>18. ASSUME NEW c \in Starters, StartAdd(c) PROVE DrainInv'
  BY <1>18 DEF StartAdd, Goto
<1>19. ASSUME NEW c \in Starters, StartGo(c) PROVE DrainInv'
  BY <1>19 DEF StartGo, SpawnWorker, Goto
<1>20. ASSUME NEW c \in Stoppers, StopCall(c) PROVE DrainInv'
  BY <1>20 DEF StopCall, MayUse, Started, Goto
<1>21. ASSUME NEW c \in Stoppers, StopCheck(c) PROVE DrainInv'
  BY <1>21 DEF StopCheck, AfterShutdown, Goto
<1>22. ASSUME NEW c \in Stoppers, StopStore(c) PROVE DrainInv'
  BY <1>22 DEF StopStore, Goto
<1>23. ASSUME NEW c \in Stoppers, StopClose(c) PROVE DrainInv'
  BY <1>23 DEF StopClose, AfterShutdown, Goto
<1>24. ASSUME NEW c \in Stoppers, StopWait(c) PROVE DrainInv'
  <2>1. Gentle => Drained
    <3> SUFFICES ASSUME Gentle, ~Drained PROVE FALSE
      OBVIOUS
    <3>1. cpc[s] = "done"
      BY <1>24 DEF StopWait
    <3>2. workerCount = MinWorker
      BY <3>1
    <3>3. Counted = {}
      BY <1>24 DEF StopWait, Counted
    <3>4. Launching = {}
      BY <3>1 DEF Launching
    <3> QED
      BY <3>2, <3>3, <3>4, FS_EmptySet DEF CountExact
  <2>2. \A w \in Workers : wpc[w] = "none"
    BY <1>24 DEF StopWait
  <2> QED
    BY <1>24, <2>1, <2>2 DEF StopWait, Goto
<1>25. ASSUME NEW w \in Workers, WorkerCheck(w) PROVE DrainInv'
  BY <1>25 DEF WorkerCheck, WGoto
<1>26. ASSUME NEW w \in Workers, WorkerReceive(w) PROVE DrainInv'
  BY <1>26 DEF WorkerReceive, WGoto
<1>27. ASSUME NEW w \in Workers, WorkerClosed(w) PROVE DrainInv'
  BY <1>27 DEF WorkerClosed, WGoto
<1>28. ASSUME NEW w \in Workers, WorkerIdle(w) PROVE DrainInv'
  BY <1>28 DEF WorkerIdle, WGoto
<1>29. ASSUME NEW w \in Workers, WorkerExecute(w) PROVE DrainInv'
  BY <1>29 DEF WorkerExecute, WGoto
<1>30. ASSUME NEW w \in Workers, WorkerExit(w) PROVE DrainInv'
  BY <1>30 DEF WorkerExit, WGoto
<1>31. ASSUME NEW w \in Workers, WorkerDone(w) PROVE DrainInv'
  BY <1>31 DEF WorkerDone, WGoto
<1>32. ASSUME NEW t \in Tasks, DetachedRun(t) PROVE DrainInv'
  BY <1>32 DEF DetachedRun
<1>33. CASE UNCHANGED vars
  BY <1>33
<1> HIDE DEF DrainInv, CrewInv, NobodyLeaves, StopInv, Drained, Gentle, TypeInv,
             TypeOK, LoopIndex, Clients, SubmitPc, StartPc, StopPc, WorkerPc,
             poolVars, clientVars, workerVars, taskVars, vars
<1> QED
  BY <1>1, <1>2, <1>3, <1>4, <1>5, <1>6, <1>7, <1>8, <1>9, <1>10, <1>11,
     <1>12, <1>13, <1>14, <1>15, <1>16, <1>17, <1>18, <1>19, <1>20, <1>21,
     <1>22, <1>23, <1>24, <1>25, <1>26, <1>27, <1>28, <1>29, <1>30, <1>31,
     <1>32, <1>33
     DEF Next, SubmitStep, StartStep, StopStep, WorkerStep

\* When ShutdownWait(true) returns every accepted task was executed, in a pool of a
\* fixed size that is started once, before it is used, and stopped once.
THEOREM DrainCorrect ==
  ASSUME StartFirst, MinWorker = MaxWorker, MinWorker > 0,
         NEW s, Starters = {s}, NEW e, Stoppers = {e}
  PROVE  Spec => []DrainComplete
<1>1. Init => DrainInv
  <2> SUFFICES ASSUME Init
               PROVE  DrainInv
    OBVIOUS
  <2>1. \A c \in Clients : cpc[c] = "idle"
    BY DEF Init
  <2> QED
    BY <2>1
    DEF Init, DrainInv, CrewInv, NobodyLeaves, StopInv, Drained, Gentle, Clients
<1>2. TypeInv /\ TypeInv' /\ CountExact /\ DrainInv /\ [Next]_vars => DrainInv'
  BY DrainStep
<1>3. TypeInv /\ DrainInv => DrainComplete
  BY DEF TypeInv, TypeOK, DrainInv, StopInv, Drained, DrainComplete
<1> QED
  BY <1>1, <1>2, <1>3, TypeInit, TypeStep, CountCorrect, PTL DEF Spec

-----------------------------------------------------------------------------
\* The ledger: where a task can be.

InChan(t) == \E i \in DOMAIN taskChan : taskChan[i] = t
InJob(t)  == \E w \in Workers : job[w] = t
Calling(t) == \E c \in Submitters : cpc[c] = "run" /\ task[c] = t

\* A task belongs to one submitter while its Submit is pending, and only then;
\* what the pool has got was accepted, and is in one place, once.
FateInv ==
    /\ \A c \in Submitters : task[c] # None => ret[task[c]] = "pending"
    /\ \A c, d \in Submitters : task[c] = task[d] /\ task[c] # None => c = d
    /\ \A t \in Tasks : InChan(t) \/ InJob(t) \/ t \in detached \cup ran => ret[t] = "ok"
    /\ \A i, j \in DOMAIN taskChan : taskChan[i] = taskChan[j] => i = j
    /\ \A v, w \in Workers : job[v] = job[w] /\ job[v] # None => v = w
    /\ \A t \in Tasks : InChan(t) => ~InJob(t) /\ t \notin detached \cup ran
    /\ \A t \in Tasks : InJob(t) => t \notin detached \cup ran
    /\ detached \cap ran = {}

\* FateOf in these words.
LEMMA FateForm ==
  ASSUME NEW t \in Tasks
  PROVE  /\ t \in ran => FateOf(t) = "done"
         /\ t \notin ran /\ (t \in detached \/ InJob(t) \/ Calling(t))
               => FateOf(t) = "running"
         /\ t \notin ran /\ ~(t \in detached \/ InJob(t) \/ Calling(t)) /\ InChan(t)
               => FateOf(t) = "queued"
         /\ t \notin ran /\ ~(t \in detached \/ InJob(t) \/ Calling(t)) /\ ~InChan(t)
               => /\ ret[t] = "new" => FateOf(t) = "new"
                  /\ ret[t] = "pending" => FateOf(t) = "offered"
                  /\ ret[t] = "ok" => FateOf(t) = "dropped"
                  /\ ret[t] \in {"shutdown", "full", "panic"} => FateOf(t) = "refused"
<1>1. t \in Executing <=> t \in detached \/ InJob(t) \/ Calling(t)
  BY DEF Executing, InJob, Calling
<1>2. InChan(t) <=> \E i \in DOMAIN taskChan : taskChan[i] = t
  BY DEF InChan
<1> QED
  BY <1>1, <1>2 DEF FateOf

LEMMA FateFormNext ==
  ASSUME NEW t \in Tasks
  PROVE  /\ t \in ran' => FateOf(t)' = "done"
         /\ t \notin ran' /\ (t \in detached' \/ InJob(t)' \/ Calling(t)')
               => FateOf(t)' = "running"
         /\ t \notin ran' /\ ~(t \in detached' \/ InJob(t)' \/ Calling(t)') /\ InChan(t)'
               => FateOf(t)' = "queued"
         /\ t \notin ran' /\ ~(t \in detached' \/ InJob(t)' \/ Calling(t)') /\ ~InChan(t)'
               => /\ ret'[t] = "new" => FateOf(t)' = "new"
                  /\ ret'[t] = "pending" => FateOf(t)' = "offered"
                  /\ ret'[t] = "ok" => FateOf(t)' = "dropped"
                  /\ ret'[t] \in {"shutdown", "full", "panic"} => FateOf(t)' = "refused"
<1>1. t \in Executing' <=> t \in detached' \/ InJob(t)' \/ Calling(t)'
  BY DEF Executing, InJob, Calling
<1>2. InChan(t)' <=> \E i \in DOMAIN taskChan' : taskChan'[i] = t
  BY DEF InChan
<1> QED
  BY <1>1, <1>2 DEF FateOf

\* A task keeps its fate if it stays where it is.
Stays(t) ==
    /\ t \in ran' <=> t \in ran
    /\ t \in detached' <=> t \in detached
    /\ InJob(t)' <=> InJob(t)
    /\ Calling(t)' <=> Calling(t)
    /\ InChan(t)' <=> InChan(t)
    /\ ret'[t] = ret[t]

LEMMA FateKept ==
  ASSUME TypeOK, NEW t \in Tasks, Stays(t)
  PROVE  FateOf(t)' = FateOf(t)
<1>1. ret[t] \in {"new", "pending", "ok", "shutdown", "full", "panic"}
  BY DEF TypeOK, Returns
<1> QED
  BY <1>1, FateForm, FateFormNext DEF Stays

-----------------------------------------------------------------------------
\* What a step does to the tasks.

\* No task moves.
Quiet ==
    /\ UNCHANGED <<taskChan, task, job, detached, ret, ran>>
    /\ \A c \in Submitters : cpc'[c] = "run" <=> cpc[c] = "run"
    /\ closed' = closed \/ closed'

\* A Submit that has handed its task to nobody ends with r.
Ends(c, r) ==
    /\ cpc[c] \notin {"idle", "run"}
    /\ Return(c, r)
    /\ UNCHANGED <<taskChan, closed, job, detached, ran>>

\* NewProcRunsPolicy and CallerRunsPolicy.
Detaches(c) ==
    /\ cpc[c] = "reject"
    /\ Return(c, "ok") /\ detached' = detached \cup {task[c]}
    /\ UNCHANGED <<taskChan, closed, job, ran>>

Runs(c) ==
    /\ cpc[c] = "reject"
    /\ Goto(c, "run")
    /\ UNCHANGED <<taskChan, closed, task, job, detached, ret, ran>>

Moves ==
    \/ \E c \in Submitters :
          \/ SubmitCall(c) \/ SubmitSend(c) \/ Detaches(c) \/ Runs(c) \/ SubmitRun(c)
          \/ \E r \in {"ok", "shutdown", "full", "panic"} : Ends(c, r)
    \/ \E w \in Workers : WorkerReceive(w) \/ WorkerExecute(w)
    \/ \E t \in Tasks : DetachedRun(t)

LEMMA SubmitMoves ==
  ASSUME TypeOK, NEW c \in Submitters, SubmitCall(c) \/ SubmitStep(c)
  PROVE  Quiet \/ Moves
<1> USE DEF poolVars, clientVars, workerVars, taskVars
<1>0. cpc \in [Clients -> SubmitPc \cup StartPc \cup StopPc] /\ c \in Clients
  BY DEF TypeOK, Clients
<1>1. CASE SubmitCall(c)
  BY <1>1 DEF Moves
<1>2. CASE SubmitLoad(c)
  <2>1. CASE state # "running"
    BY <1>2, <2>1 DEF SubmitLoad, Moves, Ends
  <2>2. CASE state = "running"
    <3>1. \E pc \in {"len", "resend"} : Goto(c, pc)
      BY <1>2, <2>2 DEF SubmitLoad
    <3>2. UNCHANGED <<taskChan, closed, task, job, detached, ret, ran>> /\ cpc[c] # "run"
      BY <1>2, <2>2 DEF SubmitLoad
    <3> QED
      BY <1>0, <3>1, <3>2 DEF Goto, Quiet
  <2> QED
    BY <2>1, <2>2
<1>3. CASE SubmitLen(c) \/ SubmitCount(c) \/ SubmitLock(c) \/ SubmitRecheck(c)
  <2>1. \E pc \in {"count", "send", "lock", "recheck", "add", "unlock"} : Goto(c, pc)
    BY <1>3 DEF SubmitLen, SubmitCount, SubmitLock, SubmitRecheck
  <2>2. UNCHANGED <<taskChan, closed, task, job, detached, ret, ran>> /\ cpc[c] # "run"
    BY <1>3 DEF SubmitLen, SubmitCount, SubmitLock, SubmitRecheck
  <2> QED
    BY <1>0, <2>1, <2>2 DEF Goto, Quiet
<1>4. CASE SubmitAdd(c) \/ SubmitGo(c) \/ SubmitUnlock(c) \/ SubmitFull(c)
  <2>1. \E pc \in {"go", "unlock", "send", "reload", "reject"} : Goto(c, pc)
    BY <1>4 DEF SubmitAdd, SubmitGo, SubmitUnlock, SubmitFull
  <2>2. UNCHANGED <<taskChan, closed, task, job, detached, ret, ran>> /\ cpc[c] # "run"
    BY <1>4 DEF SubmitAdd, SubmitGo, SubmitUnlock, SubmitFull
  <2> QED
    BY <1>0, <2>1, <2>2 DEF Goto, Quiet
<1>5. CASE SubmitSend(c) \/ SubmitRun(c)
  BY <1>5 DEF Moves
<1>6. CASE SubmitPanic(c)
  BY <1>6 DEF SubmitPanic, Moves, Ends
<1>7. CASE SubmitReject(c)
  <2>1. cpc[c] = "reject" /\ UNCHANGED <<taskChan, closed, job, ran>>
    BY <1>7 DEF SubmitReject
  <2>2. \/ \E r \in {"ok", "full"} : Return(c, r) /\ UNCHANGED detached
        \/ Return(c, "ok") /\ detached' = detached \cup {task[c]}
        \/ Goto(c, "run") /\ UNCHANGED <<task, ret, detached>>
    BY <1>7 DEF SubmitReject
  <2> QED
    BY <2>1, <2>2 DEF Moves, Ends, Detaches, Runs
<1> QED
  BY <1>1, <1>2, <1>3, <1>4, <1>5, <1>6, <1>7 DEF SubmitStep

LEMMA StepMoves ==
  ASSUME TypeOK, [Next]_vars
  PROVE  Quiet \/ Moves
<1> USE DEF poolVars, clientVars, workerVars, taskVars
<1>0. cpc \in [Clients -> SubmitPc \cup StartPc \cup StopPc]
  BY DEF TypeOK
<1>1. ASSUME NEW c \in Submitters, SubmitCall(c) \/ SubmitStep(c)
      PROVE  Quiet \/ Moves
  BY <1>1, SubmitMoves
<1>2. ASSUME NEW c \in Starters, StartCall(c) \/ StartStep(c)
      PROVE  Quiet
  <2>1. c \notin Submitters /\ c \in Clients
    BY PoolAssumption DEF Clients
  <2>2. \A d \in Submitters : cpc'[d] = cpc[d]
    BY <1>0, <1>2, <2>1
    DEF StartStep, StartCall, StartLoad, StartStore, StartAdd, StartGo, Goto, Clients
  <2>3. UNCHANGED <<taskChan, closed, task, job, detached, ret, ran>>
    BY <1>2 DEF StartStep, StartCall, StartLoad, StartStore, StartAdd, StartGo
  <2> QED
    BY <2>2, <2>3 DEF Quiet
<1>3. ASSUME NEW c \in Stoppers, StopCall(c) \/ StopStep(c)
      PROVE  Quiet
  <2>1. c \notin Submitters /\ c \in Clients
    BY PoolAssumption DEF Clients
  <2>2. \A d \in Submitters : cpc'[d] = cpc[d]
    BY <1>0, <1>3, <2>1
    DEF StopStep, StopCall, StopCheck, StopStore, StopClose, StopWait, Goto, Clients
  <2>3. UNCHANGED <<taskChan, task, job, detached, ret, ran>> /\ (closed' = closed \/ closed')
    BY <1>3 DEF StopStep, StopCall, StopCheck, StopStore, StopClose, StopWait
  <2> QED
    BY <2>2, <2>3 DEF Quiet
<1>4. ASSUME NEW w \in Workers, WorkerStep(w)
      PROVE  Quiet \/ Moves
  <2>1. CASE WorkerReceive(w) \/ WorkerExecute(w)
    BY <2>1 DEF Moves
  <2>2. CASE WorkerCheck(w) \/ WorkerClosed(w) \/ WorkerIdle(w) \/ WorkerExit(w) \/ WorkerDone(w)
    BY <2>2 DEF WorkerCheck, WorkerClosed, WorkerIdle, WorkerExit, WorkerDone, Quiet
  <2> QED
    BY <1>4, <2>1, <2>2 DEF WorkerStep
<1>5. ASSUME NEW t \in Tasks, DetachedRun(t)
      PROVE  Moves
  BY <1>5 DEF Moves
<1>6. CASE UNCHANGED vars
  BY <1>6 DEF vars, Quiet
<1> QED
  BY <1>1, <1>2, <1>3, <1>4, <1>5, <1>6 DEF Next

-----------------------------------------------------------------------------
\* Every step keeps FateInv and is a step of the ledger.

\* If one task moves and the others stay, that is a Move of the ledger.
LEMMA OneMoves ==
  ASSUME TypeOK, NEW t \in Tasks, NEW from, NEW to, FateOf(t) = from, FateOf(t)' = to,
         \A u \in Tasks : u # t => Stays(u)
  PROVE  Ledger!Move(t, from, to)
<1>1. \A u \in Tasks : u # t => FateOf(u)' = FateOf(u)
  BY FateKept
<1> QED
  BY <1>1 DEF Ledger!Move

LEMMA FateInit == Init => FateInv
<1> SUFFICES ASSUME Init
             PROVE  FateInv
  OBVIOUS
<1>1. /\ \A c \in Submitters : task[c] = None
      /\ \A w \in Workers : job[w] = None
      /\ DOMAIN taskChan = {} /\ detached = {} /\ ran = {}
  BY DEF Init
<1>2. \A t \in Tasks : ~InChan(t) /\ ~InJob(t)
  BY <1>1, PoolAssumption DEF InChan, InJob
<1> QED
  BY <1>1, <1>2 DEF FateInv

LEMMA QuietStep ==
  ASSUME TypeOK, FateInv, Quiet
  PROVE  FateInv' /\ [Ledger!Next]_(Ledger!ledger)
<1>1. \A t \in Tasks : Stays(t)
  BY DEF Quiet, Stays, InChan, InJob, Calling
<1>2. [t \in Tasks |-> FateOf(t)]' = [t \in Tasks |-> FateOf(t)]
  BY <1>1, FateKept
<1>3. FateInv'
  BY DEF Quiet, FateInv, InChan, InJob
<1>4. CASE closed' = closed
  BY <1>2, <1>3, <1>4 DEF Quiet, Ledger!ledger
<1>5. CASE closed'
  BY <1>2, <1>3, <1>5 DEF Quiet, Ledger!Next, Ledger!Close
<1> QED
  BY <1>4, <1>5 DEF Quiet

LEMMA CallMoves ==
  ASSUME TypeOK, FateInv, NEW c \in Submitters, SubmitCall(c)
  PROVE  FateInv' /\ Ledger!Next
<1> USE DEF poolVars, workerVars
<1>1. PICK t \in Tasks : /\ ret[t] = "new"
                         /\ ret' = [ret EXCEPT ![t] = "pending"]
                         /\ task' = [task EXCEPT ![c] = t]
  BY DEF SubmitCall
<1>2. /\ cpc[c] = "idle" /\ cpc' = [cpc EXCEPT ![c] = "load"]
      /\ UNCHANGED <<taskChan, closed, job, detached, ran>>
  BY DEF SubmitCall, Goto
<1>3. /\ task \in [Submitters -> Tasks \cup {None}] /\ ret \in [Tasks -> Returns]
      /\ cpc \in [Clients -> SubmitPc \cup StartPc \cup StopPc] /\ c \in Clients
      /\ None \notin Tasks
  BY PoolAssumption DEF TypeOK, Clients
<1>4. ~InChan(t) /\ ~InJob(t) /\ t \notin detached \cup ran /\ ~Calling(t)
      /\ \A d \in Submitters : task[d] # t
  BY <1>1, <1>3 DEF FateInv, Calling
<1>5. \A u \in Tasks : /\ InChan(u)' <=> InChan(u)
                       /\ InJob(u)' <=> InJob(u)
                       /\ Calling(u)' <=> Calling(u)
  BY <1>1, <1>2, <1>3 DEF InChan, InJob, Calling, Clients
<1>6. FateInv'
  BY <1>1, <1>2, <1>3, <1>4, <1>5 DEF FateInv
<1>7. FateOf(t) = "new"
  BY <1>1, <1>4, FateForm
<1>8. FateOf(t)' = "offered"
  BY <1>1, <1>2, <1>3, <1>4, <1>5, FateFormNext
<1>9. \A u \in Tasks : u # t => Stays(u)
  BY <1>1, <1>2, <1>3, <1>5 DEF Stays
<1>10. Ledger!Offer(t)
  BY <1>2, <1>7, <1>8, <1>9, OneMoves DEF Ledger!Offer
<1> QED
  BY <1>6, <1>10 DEF Ledger!Next

\* A submitter that is about to return: its task is offered.
LEMMA Offered ==
  ASSUME TypeOK, FateInv, NEW c \in Submitters, cpc[c] \notin {"idle", "run"}
  PROVE  LET t == task[c]
         IN  /\ t \in Tasks /\ ret[t] = "pending" /\ FateOf(t) = "offered"
             /\ ~InChan(t) /\ ~InJob(t) /\ t \notin detached \cup ran /\ ~Calling(t)
<1>1. task[c] \in Tasks /\ task[c] # None
  BY DEF TypeOK
<1>2. ret[task[c]] = "pending"
  BY <1>1 DEF FateInv
<1>3. ~InChan(task[c]) /\ ~InJob(task[c]) /\ task[c] \notin detached \cup ran
  BY <1>1, <1>2 DEF FateInv
<1>4. ~Calling(task[c])
  BY <1>1 DEF FateInv, Calling
<1> QED
  BY <1>1, <1>2, <1>3, <1>4, FateForm

\* Return takes the task away from its submitter, and no other.
LEMMA Returned ==
  ASSUME TypeOK, FateInv, NEW c \in Submitters, NEW t \in Tasks, t = task[c], NEW r, Return(c, r)
  PROVE  /\ ret'[t] = r /\ \A u \in Tasks : u # t => ret'[u] = ret[u]
         /\ \A d \in Submitters : task'[d] # None => ret'[task'[d]] = "pending"
         /\ \A d, e \in Submitters : task'[d] = task'[e] /\ task'[d] # None => d = e
         /\ \A u \in Tasks : Calling(u)' <=> Calling(u) /\ u # t
<1>1. /\ ret' = [ret EXCEPT ![t] = r] /\ task' = [task EXCEPT ![c] = None]
      /\ cpc' = [cpc EXCEPT ![c] = "idle"]
  BY DEF Return, Goto
<1>2. /\ task \in [Submitters -> Tasks \cup {None}] /\ ret \in [Tasks -> Returns]
      /\ cpc \in [Clients -> SubmitPc \cup StartPc \cup StopPc] /\ Submitters \subseteq Clients
      /\ None \notin Tasks
  BY PoolAssumption DEF TypeOK, Clients
<1>3. ret'[t] = r /\ \A u \in Tasks : u # t => ret'[u] = ret[u]
  BY <1>1, <1>2
<1>4. \A d \in Submitters : task'[d] # None => d # c /\ task'[d] = task[d] /\ task[d] # t
  BY <1>1, <1>2 DEF FateInv
<1>5. \A d \in Submitters : task'[d] # None => ret'[task'[d]] = "pending"
  BY <1>2, <1>3, <1>4 DEF FateInv
<1>6. \A d, e \in Submitters : task'[d] = task'[e] /\ task'[d] # None => d = e
  BY <1>4 DEF FateInv
<1>7. \A d \in Submitters : d # c => task'[d] = task[d] /\ cpc'[d] = cpc[d] /\ task[d] # t
  BY <1>1, <1>2 DEF FateInv
<1>8. \A u \in Tasks : Calling(u)' <=> Calling(u) /\ u # t
  BY <1>1, <1>2, <1>7 DEF Calling
<1> QED
  BY <1>3, <1>5, <1>6, <1>8

LEMMA EndsMoves ==
  ASSUME TypeOK, FateInv, NEW c \in Submitters,
         NEW r \in {"ok", "shutdown", "full", "panic"}, Ends(c, r)
  PROVE  FateInv' /\ Ledger!Next
<1>0. PICK t : t = task[c]
  OBVIOUS
<1>1. cpc[c] \notin {"idle", "run"} /\ UNCHANGED <<taskChan, closed, job, detached, ran>>
  BY DEF Ends
<1>2. /\ t \in Tasks /\ FateOf(t) = "offered"
      /\ ~InChan(t) /\ ~InJob(t) /\ t \notin detached \cup ran /\ ~Calling(t)
  BY <1>0, <1>1, Offered
<1>3. /\ ret'[t] = r /\ \A u \in Tasks : u # t => ret'[u] = ret[u]
      /\ \A d \in Submitters : task'[d] # None => ret'[task'[d]] = "pending"
      /\ \A d, e \in Submitters : task'[d] = task'[e] /\ task'[d] # None => d = e
      /\ \A u \in Tasks : Calling(u)' <=> Calling(u) /\ u # t
  BY <1>0, <1>2, Returned DEF Ends
<1>4. \A u \in Tasks : (InChan(u)' <=> InChan(u)) /\ (InJob(u)' <=> InJob(u))
  BY <1>1 DEF InChan, InJob
<1>5. FateInv'
  BY <1>1, <1>2, <1>3, <1>4 DEF FateInv
<1>6. \A u \in Tasks : u # t => Stays(u)
  BY <1>1, <1>3, <1>4 DEF Stays
<1>7. CASE r = "ok"
  <2>1. FateOf(t)' = "dropped"
    BY <1>1, <1>2, <1>3, <1>4, <1>7, FateFormNext
  <2>2. Ledger!Drop(t)
    BY <1>1, <1>2, <1>6, <2>1, OneMoves DEF Ledger!Drop
  <2> QED
    BY <1>2, <1>5, <2>2 DEF Ledger!Next
<1>8. CASE r # "ok"
  <2>1. FateOf(t)' = "refused"
    BY <1>1, <1>2, <1>3, <1>4, <1>8, FateFormNext
  <2>2. Ledger!Refuse(t)
    BY <1>1, <1>2, <1>6, <2>1, OneMoves DEF Ledger!Refuse
  <2> QED
    BY <1>2, <1>5, <2>2 DEF Ledger!Next
<1> QED
  BY <1>7, <1>8

LEMMA SendMoves ==
  ASSUME TypeOK, FateInv, NEW c \in Submitters, SubmitSend(c)
  PROVE  FateInv' /\ Ledger!Next
<1> USE DEF workerVars
<1>0. PICK t : t = task[c]
  OBVIOUS
<1>1. /\ cpc[c] \notin {"idle", "run"} /\ ~closed
      /\ taskChan' = Append(taskChan, t) /\ UNCHANGED <<closed, job, detached, ran>>
  BY <1>0 DEF SubmitSend
<1>2. /\ t \in Tasks /\ FateOf(t) = "offered"
      /\ ~InChan(t) /\ ~InJob(t) /\ t \notin detached \cup ran /\ ~Calling(t)
  BY <1>0, <1>1, Offered
<1>3. /\ ret'[t] = "ok" /\ \A u \in Tasks : u # t => ret'[u] = ret[u]
      /\ \A d \in Submitters : task'[d] # None => ret'[task'[d]] = "pending"
      /\ \A d, e \in Submitters : task'[d] = task'[e] /\ task'[d] # None => d = e
      /\ \A u \in Tasks : Calling(u)' <=> Calling(u) /\ u # t
  BY <1>0, <1>2, Returned DEF SubmitSend
<1>4. /\ taskChan \in Seq(Tasks) /\ Len(taskChan) \in Nat
      /\ DOMAIN taskChan = 1..Len(taskChan) /\ DOMAIN taskChan' = 1..Len(taskChan) + 1
      /\ \A i \in 1..Len(taskChan) : taskChan'[i] = taskChan[i]
      /\ taskChan'[Len(taskChan) + 1] = t
  BY <1>1, <1>2 DEF TypeOK
<1>5. \A u \in Tasks : (InChan(u)' <=> InChan(u) \/ u = t) /\ (InJob(u)' <=> InJob(u))
  BY <1>1, <1>4 DEF InChan, InJob
<1>6. \A i, j \in DOMAIN taskChan' : taskChan'[i] = taskChan'[j] => i = j
  BY <1>2, <1>4 DEF FateInv, InChan
<1>7. FateInv'
  BY <1>1, <1>2, <1>3, <1>5, <1>6 DEF FateInv
<1>8. \A u \in Tasks : u # t => Stays(u)
  BY <1>1, <1>3, <1>5 DEF Stays
<1>9. FateOf(t)' = "queued"
  BY <1>1, <1>2, <1>3, <1>5, FateFormNext
<1>10. Ledger!Accept(t)
  BY <1>1, <1>2, <1>8, <1>9, OneMoves DEF Ledger!Accept
<1> QED
  BY <1>2, <1>7, <1>10 DEF Ledger!Next

LEMMA DetachesMoves ==
  ASSUME TypeOK, FateInv, NEW c \in Submitters, Detaches(c)
  PROVE  FateInv' /\ Ledger!Next
<1>0. PICK t : t = task[c]
  OBVIOUS
<1>1. /\ cpc[c] \notin {"idle", "run"}
      /\ detached' = detached \cup {t} /\ UNCHANGED <<taskChan, closed, job, ran>>
  BY <1>0 DEF Detaches
<1>2. /\ t \in Tasks /\ FateOf(t) = "offered"
      /\ ~InChan(t) /\ ~InJob(t) /\ t \notin detached \cup ran /\ ~Calling(t)
  BY <1>0, <1>1, Offered
<1>3. /\ ret'[t] = "ok" /\ \A u \in Tasks : u # t => ret'[u] = ret[u]
      /\ \A d \in Submitters : task'[d] # None => ret'[task'[d]] = "pending"
      /\ \A d, e \in Submitters : task'[d] = task'[e] /\ task'[d] # None => d = e
      /\ \A u \in Tasks : Calling(u)' <=> Calling(u) /\ u # t
  BY <1>0, <1>2, Returned DEF Detaches
<1>4. \A u \in Tasks : (InChan(u)' <=> InChan(u)) /\ (InJob(u)' <=> InJob(u))
  BY <1>1 DEF InChan, InJob
<1>5. FateInv'
  BY <1>1, <1>2, <1>3, <1>4 DEF FateInv
<1>6. \A u \in Tasks : u # t => Stays(u)
  BY <1>1, <1>3, <1>4 DEF Stays
<1>7. FateOf(t)' = "running"
  BY <1>1, <1>2, FateFormNext
<1>8. Ledger!Direct(t)
  BY <1>1, <1>2, <1>6, <1>7, OneMoves DEF Ledger!Direct
<1> QED
  BY <1>2, <1>5, <1>8 DEF Ledger!Next

LEMMA RunsMoves ==
  ASSUME TypeOK, FateInv, NEW c \in Submitters, Runs(c)
  PROVE  FateInv' /\ Ledger!Next
<1>0. PICK t : t = task[c]
  OBVIOUS
<1>1. /\ cpc[c] \notin {"idle", "run"} /\ cpc' = [cpc EXCEPT ![c] = "run"]
      /\ UNCHANGED <<taskChan, closed, task, job, detached, ret, ran>>
  BY DEF Runs, Goto
<1>2. /\ t \in Tasks /\ FateOf(t) = "offered"
      /\ ~InChan(t) /\ ~InJob(t) /\ t \notin detached \cup ran /\ ~Calling(t)
  BY <1>0, <1>1, Offered
<1>3. cpc \in [Clients -> SubmitPc \cup StartPc \cup StopPc] /\ Submitters \subseteq Clients
  BY DEF TypeOK, Clients
<1>4. \A u \in Tasks : Calling(u)' <=> Calling(u) \/ u = t
  BY <1>0, <1>1, <1>3 DEF Calling
<1>5. \A u \in Tasks : (InChan(u)' <=> InChan(u)) /\ (InJob(u)' <=> InJob(u))
  BY <1>1 DEF InChan, InJob
<1>6. FateInv'
  BY <1>1, <1>5 DEF FateInv
<1>7. \A u \in Tasks : u # t => Stays(u)
  BY <1>1, <1>4, <1>5 DEF Stays
<1>8. FateOf(t)' = "running"
  BY <1>1, <1>2, <1>4, FateFormNext
<1>9. Ledger!Direct(t)
  BY <1>1, <1>2, <1>7, <1>8, OneMoves DEF Ledger!Direct
<1> QED
  BY <1>2, <1>6, <1>9 DEF Ledger!Next

LEMMA SubmitRunMoves ==
  ASSUME TypeOK, FateInv, NEW c \in Submitters, SubmitRun(c)
  PROVE  FateInv' /\ Ledger!Next
<1> USE DEF workerVars, poolVars
<1>0. PICK t : t = task[c]
  OBVIOUS
<1>1. /\ cpc[c] = "run" /\ ran' = ran \cup {t} /\ Return(c, "ok")
      /\ UNCHANGED <<taskChan, closed, job, detached>>
  BY <1>0 DEF SubmitRun
<1>2. /\ t \in Tasks /\ Calling(t) /\ ret[t] = "pending"
  <2>1. t \in Tasks /\ t # None
    BY <1>0, <1>1 DEF TypeOK
  <2>2. Calling(t)
    BY <1>0, <1>1 DEF Calling
  <2>3. ret[t] = "pending"
    BY <1>0, <2>1 DEF FateInv
  <2> QED
    BY <2>1, <2>2, <2>3
<1>3. ~InChan(t) /\ ~InJob(t) /\ t \notin detached \cup ran /\ FateOf(t) = "running"
  BY <1>2, FateForm DEF FateInv
<1>4. /\ ret'[t] = "ok" /\ \A u \in Tasks : u # t => ret'[u] = ret[u]
      /\ \A d \in Submitters : task'[d] # None => ret'[task'[d]] = "pending"
      /\ \A d, e \in Submitters : task'[d] = task'[e] /\ task'[d] # None => d = e
      /\ \A u \in Tasks : Calling(u)' <=> Calling(u) /\ u # t
  BY <1>0, <1>1, <1>2, Returned
<1>5. \A u \in Tasks : (InChan(u)' <=> InChan(u)) /\ (InJob(u)' <=> InJob(u))
  BY <1>1 DEF InChan, InJob
<1>6. FateInv'
  BY <1>1, <1>2, <1>3, <1>4, <1>5 DEF FateInv
<1>7. \A u \in Tasks : u # t => Stays(u)
  BY <1>1, <1>4, <1>5 DEF Stays
<1>8. FateOf(t)' = "done"
  BY <1>1, <1>2, FateFormNext
<1>9. Ledger!Finish(t)
  BY <1>1, <1>2, <1>3, <1>7, <1>8, OneMoves DEF Ledger!Finish
<1> QED
  BY <1>2, <1>6, <1>9 DEF Ledger!Next

\* Submitters that do not move hold what they held.
LEMMA SubmittersStay ==
  ASSUME FateInv, UNCHANGED <<clientVars, ret>>
  PROVE  /\ \A u \in Tasks : Calling(u)' <=> Calling(u)
         /\ \A c \in Submitters : task'[c] # None => ret'[task'[c]] = "pending"
         /\ \A c, d \in Submitters : task'[c] = task'[d] /\ task'[c] # None => c = d
  BY DEF Calling, FateInv, clientVars

LEMMA ReceiveMoves ==
  ASSUME TypeOK, FateInv, NEW w \in Workers, WorkerReceive(w)
  PROVE  FateInv' /\ Ledger!Next
<1>0. PICK t : t = Head(taskChan)
  OBVIOUS
<1>1. /\ wpc[w] = "select" /\ taskChan # <<>> /\ taskChan' = Tail(taskChan)
      /\ job' = [job EXCEPT ![w] = t]
      /\ UNCHANGED <<closed, clientVars, detached, ret, ran>>
  BY <1>0 DEF WorkerReceive, taskVars
<1>2. /\ taskChan \in Seq(Tasks) /\ Len(taskChan) \in Nat \ {0} /\ t = taskChan[1] /\ t \in Tasks
      /\ DOMAIN taskChan = 1..Len(taskChan) /\ DOMAIN taskChan' = 1..Len(taskChan) - 1
      /\ \A i \in 1..Len(taskChan) - 1 : taskChan'[i] = taskChan[i + 1]
  BY <1>0, <1>1 DEF TypeOK
<1>3. InChan(t)
  BY <1>2 DEF InChan
<1>4. ~InJob(t) /\ t \notin detached \cup ran /\ ret[t] = "ok"
  BY <1>2, <1>3 DEF FateInv
<1>5. ~Calling(t)
  BY <1>2, <1>4, PoolAssumption DEF FateInv, Calling
<1>6. \A u \in Tasks : InChan(u)' <=> InChan(u) /\ u # t
  <2>1. ASSUME NEW u \in Tasks, InChan(u)' PROVE InChan(u) /\ u # t
    <3>1. PICK i \in 1..Len(taskChan) - 1 : taskChan[i + 1] = u
      BY <1>2, <2>1 DEF InChan
    <3>2. i + 1 \in DOMAIN taskChan /\ 1 \in DOMAIN taskChan /\ i + 1 # 1
      BY <1>2
    <3> QED
      BY <1>2, <3>1, <3>2 DEF InChan, FateInv
  <2>2. ASSUME NEW u \in Tasks, InChan(u), u # t PROVE InChan(u)'
    <3>1. PICK i \in 1..Len(taskChan) : taskChan[i] = u
      BY <1>2, <2>2 DEF InChan
    <3>2. i - 1 \in 1..Len(taskChan) - 1 /\ (i - 1) + 1 = i
      BY <1>2, <2>2, <3>1
    <3> QED
      BY <1>2, <3>1, <3>2 DEF InChan
  <2> QED
    BY <2>1, <2>2
<1>7. \A i, j \in DOMAIN taskChan' : taskChan'[i] = taskChan'[j] => i = j
  <2> SUFFICES ASSUME NEW i \in 1..Len(taskChan) - 1, NEW j \in 1..Len(taskChan) - 1,
                      taskChan[i + 1] = taskChan[j + 1]
               PROVE  i = j
    BY <1>2
  <2>1. i + 1 \in DOMAIN taskChan /\ j + 1 \in DOMAIN taskChan
    BY <1>2
  <2>2. i + 1 = j + 1
    BY <2>1 DEF FateInv
  <2> QED
    BY <1>2, <2>2
<1>8. job \in [Workers -> Tasks \cup {None}] /\ job[w] = None
  BY <1>1 DEF TypeOK
<1>9. \A u \in Tasks : InJob(u)' <=> InJob(u) \/ u = t
  BY <1>1, <1>8, PoolAssumption DEF InJob
<1>10. \A v, x \in Workers : job'[v] = job'[x] /\ job'[v] # None => v = x
  BY <1>1, <1>4, <1>8 DEF FateInv, InJob
<1>11. FateInv'
  BY <1>1, <1>4, <1>6, <1>7, <1>9, <1>10, SubmittersStay DEF FateInv
<1>12. \A u \in Tasks : u # t => Stays(u)
  BY <1>1, <1>6, <1>9, SubmittersStay DEF Stays
<1>13. FateOf(t) = "queued"
  BY <1>2, <1>3, <1>4, <1>5, FateForm
<1>14. FateOf(t)' = "running"
  BY <1>1, <1>2, <1>4, <1>9, FateFormNext
<1>15. Ledger!Take(t)
  BY <1>0, <1>1, <1>2, <1>12, <1>13, <1>14, OneMoves DEF Ledger!Take
<1> QED
  BY <1>2, <1>11, <1>15 DEF Ledger!Next

LEMMA ExecuteMoves ==
  ASSUME TypeOK, FateInv, NEW w \in Workers, WorkerExecute(w)
  PROVE  FateInv' /\ Ledger!Next
<1>0. PICK t : t = job[w]
  OBVIOUS
<1>1. /\ wpc[w] = "exec" /\ ran' = ran \cup {t} /\ job' = [job EXCEPT ![w] = None]
      /\ UNCHANGED <<taskChan, closed, clientVars, detached, ret>>
  BY <1>0 DEF WorkerExecute, poolVars
<1>2. job \in [Workers -> Tasks \cup {None}] /\ t # None /\ t \in Tasks
  BY <1>0, <1>1 DEF TypeOK
<1>3. InJob(t)
  BY <1>0 DEF InJob
<1>4. ~InChan(t) /\ t \notin detached \cup ran /\ ret[t] = "ok"
  BY <1>2, <1>3 DEF FateInv
<1>5. \A u \in Tasks : InJob(u)' <=> InJob(u) /\ u # t
  <2>1. \A v \in Workers : job'[v] = IF v = w THEN None ELSE job[v]
    BY <1>1, <1>2
  <2>2. \A v \in Workers : job[v] = t => v = w
    BY <1>0, <1>2 DEF FateInv
  <2>3. ASSUME NEW u \in Tasks
        PROVE  (\E v \in Workers : job'[v] = u) <=> (\E v \in Workers : job[v] = u) /\ u # t
    BY <1>0, <2>1, <2>2, PoolAssumption
  <2> QED
    BY <2>3 DEF InJob
<1>6. \A v, x \in Workers : job'[v] = job'[x] /\ job'[v] # None => v = x
  BY <1>1, <1>2 DEF FateInv
<1>7. \A u \in Tasks : InChan(u)' <=> InChan(u)
  BY <1>1 DEF InChan
<1>8. FateInv'
  BY <1>1, <1>4, <1>5, <1>6, <1>7, SubmittersStay DEF FateInv
<1>9. \A u \in Tasks : u # t => Stays(u)
  BY <1>1, <1>5, <1>7, SubmittersStay DEF Stays
<1>10. FateOf(t) = "running" /\ FateOf(t)' = "done"
  BY <1>1, <1>2, <1>3, <1>4, FateForm, FateFormNext
<1>11. Ledger!Finish(t)
  BY <1>1, <1>2, <1>9, <1>10, OneMoves DEF Ledger!Finish
<1> QED
  BY <1>2, <1>8, <1>11 DEF Ledger!Next

LEMMA DetachedMoves ==
  ASSUME TypeOK, FateInv, NEW t \in Tasks, DetachedRun(t)
  PROVE  FateInv' /\ Ledger!Next
<1>1. /\ t \in detached /\ detached' = detached \ {t} /\ ran' = ran \cup {t}
      /\ UNCHANGED <<taskChan, closed, clientVars, job, ret>>
  BY DEF DetachedRun, poolVars, workerVars
<1>2. ~InChan(t) /\ ~InJob(t) /\ t \notin ran /\ ret[t] = "ok"
  BY <1>1 DEF FateInv
<1>3. \A u \in Tasks : (InChan(u)' <=> InChan(u)) /\ (InJob(u)' <=> InJob(u))
  BY <1>1 DEF InChan, InJob
<1>4. FateInv'
  BY <1>1, <1>2, <1>3, SubmittersStay DEF FateInv
<1>5. \A u \in Tasks : u # t => Stays(u)
  BY <1>1, <1>3, SubmittersStay DEF Stays
<1>6. FateOf(t) = "running" /\ FateOf(t)' = "done"
  BY <1>1, <1>2, FateForm, FateFormNext
<1>7. Ledger!Finish(t)
  BY <1>1, <1>5, <1>6, OneMoves DEF Ledger!Finish
<1> QED
  BY <1>4, <1>7 DEF Ledger!Next

LEMMA LedgerStep ==
  ASSUME TypeInv, FateInv, [Next]_vars
  PROVE  FateInv' /\ [Ledger!Next]_(Ledger!ledger)
<1>1. TypeOK
  BY DEF TypeInv
<1>2. CASE Quiet
  BY <1>1, <1>2, QuietStep
<1>3. CASE Moves
  BY <1>1, <1>3, CallMoves, EndsMoves, SendMoves, DetachesMoves, RunsMoves, SubmitRunMoves,
     ReceiveMoves, ExecuteMoves, DetachedMoves DEF Moves
<1> QED
  BY <1>1, <1>2, <1>3, StepMoves

\* Whatever Start, Submit, Shutdown and the workers do, and under every policy,
\* each task is queued, run, dropped or refused once, in the order in which tasks
\* were accepted, and a closed pool accepts none: the pool is a TaskLedger.
THEOREM LedgerCorrect == Spec => LedgerSpec
<1>1. Init => Ledger!Init
  <2> SUFFICES ASSUME Init
               PROVE  Ledger!Init
    OBVIOUS
  <2>1. taskChan = <<>> /\ DOMAIN taskChan = {} /\ ~closed
    BY DEF Init
  <2>2. ASSUME NEW t \in Tasks PROVE FateOf(t) = "new"
    <3>1. ret[t] = "new" /\ t \notin ran /\ t \notin detached
      BY DEF Init
    <3>2. ~InJob(t) /\ ~InChan(t)
      BY <2>1, PoolAssumption DEF Init, InJob, InChan
    <3>3. ~Calling(t)
      BY PoolAssumption DEF Init, Calling
    <3> QED
      BY <3>1, <3>2, <3>3, FateForm
  <2> QED
    BY <2>1, <2>2 DEF Ledger!Init
<1> QED
  BY <1>1, TypeInit, TypeStep, FateInit, LedgerStep, PTL DEF Spec, LedgerSpec, Ledger!Spec

=============================================================================
