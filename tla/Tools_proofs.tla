---------------------------- MODULE Tools_proofs ----------------------------
(***************************************************************************)
(* Proofs about ParallelResult for any tasks, workers and capacities:      *)
(*   ResultCorrect      types, and: a call without an error ran every task *)
(*                      and has every result once, and an error has a      *)
(*                      cause.                                             *)
(* About Profile for any applications and bounds:                          *)
(*   ProfilesCorrect    types, and: one profile at a time, of which        *)
(*                      nothing stays on; what stays on is exactly what    *)
(*                      the application had and no profile had since.      *)
(* About Pipeline for any slices, predicates, limits and bounds:           *)
(*   StreamsCorrect     types, and: a stream gives what its stages give    *)
(*                      one after the other, and keeps its limits.         *)
(***************************************************************************)
EXTENDS ParallelResult, Profile, Pipeline, TLAPS, FiniteSetTheorems, SequenceTheorems,
        WellFoundedInduction

-----------------------------------------------------------------------------
\* The inductive invariant.

TypeInv ==
    /\ total \in 0..MaxTasks /\ next \in 0..total
    /\ distributor \in {"run", "exit"}
    /\ taskCh \in Seq(Tasks) /\ Len(taskCh) <= TaskCap
    /\ resultCh \in Seq(Tasks) /\ Len(resultCh) <= ResultCap
    /\ counter \in 0..CounterCap
    /\ errCh \in Tasks \cup {None}
    /\ userDone \in BOOLEAN /\ cancelled \in BOOLEAN
    /\ wpc \in [Workers -> WorkerPc] /\ job \in [Workers -> Tasks \cup {None}]
    /\ \A w \in Workers : wpc[w] \in {"task", "yield", "count"} => job[w] \in Tasks
    /\ main \in MainPc
    /\ finished \in Nat
    /\ result \in Seq(Tasks)
    /\ err \in Tasks \cup {None, User}

Active   == {w \in Workers : wpc[w] \in {"task", "yield", "count"}}
Yielding == {w \in Workers : wpc[w] = "yield"}
Elems(s) == {s[i] : i \in DOMAIN s}

\* Tasks are taken in the order in which they are sent.
TakenInv ==
    /\ Len(taskCh) <= next
    /\ \A i \in 1..Len(taskCh) : taskCh[i] = next - Len(taskCh) + i
    /\ ran = 1..next - Len(taskCh)

\* A worker has a task of its own, which has not failed, nor given a result
\* before it says so.
JobInv ==
    /\ failed \subseteq ran /\ yielded \subseteq ran
    /\ \A w \in Active : job[w] \in ran \ failed
    /\ \A v, w \in Active : job[v] = job[w] => v = w
    /\ \A w \in Active : wpc[w] = "task" => job[w] \notin yielded
    /\ \A w \in Yielding : job[w] \in yielded

\* A task that was taken is finished, counted, at work, or has failed.
CountInv ==
    next - Len(taskCh) = finished + counter + Cardinality(Active) + Cardinality(failed)

\* A result is at a worker, in the channel, or received.
YieldInv ==
    /\ yielded = Elems(result) \cup Elems(resultCh) \cup {job[w] : w \in Yielding}
    /\ Cardinality(yielded) = Len(result) + Len(resultCh) + Cardinality(Yielding)

\* Why the loop has ended.
EndInv ==
    /\ main = "loop" => err = None
    /\ main # "loop" /\ err = None => finished = total
    /\ main \in {"wait", "returned"} /\ err = None => resultCh = <<>>
    /\ err = User => userDone
    /\ err \in Tasks => err \in failed
    /\ errCh # None => errCh \in failed

-----------------------------------------------------------------------------
\* Types.

LEMMA HeadTail ==
  ASSUME NEW S, NEW s \in Seq(S), s # <<>>
  PROVE  /\ Head(s) \in S /\ Tail(s) \in Seq(S) /\ Len(Tail(s)) = Len(s) - 1 /\ Len(s) \in Nat \ {0}
         /\ Head(s) = s[1] /\ \A i \in 1..Len(s) - 1 : Tail(s)[i] = s[i + 1]
OBVIOUS

LEMMA AppendOne ==
  ASSUME NEW S, NEW s \in Seq(S), NEW e \in S
  PROVE  /\ Append(s, e) \in Seq(S) /\ Len(Append(s, e)) = Len(s) + 1 /\ Len(s) \in Nat
         /\ Append(s, e)[Len(s) + 1] = e
         /\ \A i \in 1..Len(s) : Append(s, e)[i] = s[i]
OBVIOUS

LEMMA Constants ==
  /\ MaxTasks \in Nat /\ TaskCap \in Nat /\ CounterCap \in Nat /\ ResultCap \in Nat
  /\ Tasks = 1..MaxTasks /\ None = 0 /\ User = -1 /\ None \notin Tasks /\ User \notin Tasks
BY ResultAssumption DEF Tasks, None, User

LEMMA TypeInit == Init => TypeInv
<1> SUFFICES ASSUME Init
             PROVE  TypeInv
  OBVIOUS
<1>1. <<>> \in Seq(Tasks) /\ Len(<<>>) = 0
  OBVIOUS
<1>2. /\ total \in 0..MaxTasks /\ next = 0 /\ distributor = "run"
      /\ taskCh = <<>> /\ resultCh = <<>> /\ counter = 0 /\ errCh = None
      /\ userDone = FALSE /\ cancelled = FALSE
      /\ wpc = [w \in Workers |-> "select"] /\ job = [w \in Workers |-> None]
      /\ main = "loop" /\ finished = 0 /\ result = <<>> /\ err = None
  BY DEF Init
<1>3. wpc \in [Workers -> WorkerPc] /\ job \in [Workers -> Tasks \cup {None}] /\ main \in MainPc
  BY <1>2 DEF WorkerPc, MainPc
<1>4. \A w \in Workers : wpc[w] \notin {"task", "yield", "count"}
  BY <1>2
<1>5. /\ next \in 0..total /\ counter \in 0..CounterCap /\ finished \in Nat
      /\ Len(taskCh) <= TaskCap /\ Len(resultCh) <= ResultCap
      /\ taskCh \in Seq(Tasks) /\ resultCh \in Seq(Tasks) /\ result \in Seq(Tasks)
  BY <1>1, <1>2, Constants
<1>6. /\ errCh \in Tasks \cup {None} /\ err \in Tasks \cup {None, User}
      /\ userDone \in BOOLEAN /\ cancelled \in BOOLEAN /\ distributor \in {"run", "exit"}
  BY <1>2
<1> QED
  BY <1>2, <1>3, <1>4, <1>5, <1>6 DEF TypeInv

LEMMA TypeStep == TypeInv /\ [Next]_vars => TypeInv'
<1> SUFFICES ASSUME TypeInv, [Next]_vars
             PROVE  TypeInv'
  OBVIOUS
<1> USE DEF TypeInv, chanVars, doneVars, distVars, workerVars, mainVars, taskVars
<1>1. CASE UserCancel
  BY <1>1 DEF UserCancel
<1>2. CASE DistSend
  <2>1. next + 1 \in Tasks /\ next + 1 \in 0..total
    BY <1>2, Constants DEF DistSend
  <2>2. taskCh' \in Seq(Tasks) /\ Len(taskCh') <= TaskCap
    BY <1>2, <2>1, AppendOne, Constants DEF DistSend
  <2> QED
    BY <1>2, <2>1, <2>2 DEF DistSend
<1>3. CASE DistStop
  BY <1>3 DEF DistStop
<1>a. ASSUME NEW w \in Workers, NEW at \in WorkerPc, wpc' = [wpc EXCEPT ![w] = at], job' = job,
             at \in {"yield", "count"} => wpc[w] \in {"task", "yield"}, at # "task"
      PROVE  /\ wpc' \in [Workers -> WorkerPc] /\ job' \in [Workers -> Tasks \cup {None}]
             /\ \A v \in Workers : wpc'[v] \in {"task", "yield", "count"} => job'[v] \in Tasks
  BY <1>a
<1>4. ASSUME NEW w \in Workers, WorkerTake(w) PROVE TypeInv'
  <2>1. /\ taskCh # <<>> /\ taskCh' = Tail(taskCh) /\ job' = [job EXCEPT ![w] = Head(taskCh)]
        /\ wpc' = [wpc EXCEPT ![w] = "task"]
        /\ UNCHANGED <<total, resultCh, counter, errCh, doneVars, distVars, mainVars>>
    BY <1>4 DEF WorkerTake
  <2>2. Head(taskCh) \in Tasks /\ taskCh' \in Seq(Tasks) /\ Len(taskCh') <= TaskCap
    BY <2>1, HeadTail, Constants
  <2>3. /\ wpc' \in [Workers -> WorkerPc] /\ job' \in [Workers -> Tasks \cup {None}]
        /\ \A v \in Workers : wpc'[v] \in {"task", "yield", "count"} => job'[v] \in Tasks
    BY <2>1, <2>2 DEF WorkerPc
  <2> QED
    BY <2>1, <2>2, <2>3
<1>5. ASSUME NEW w \in Workers, WorkerQuit(w) PROVE TypeInv'
  BY <1>a, <1>5 DEF WorkerQuit, WorkerPc
<1>6. ASSUME NEW w \in Workers, WorkerOk(w) PROVE TypeInv'
  <2>1. /\ wpc[w] = "task" /\ job' = job
        /\ \E at \in {"count", "yield"} : wpc' = [wpc EXCEPT ![w] = at]
        /\ UNCHANGED <<total, chanVars, doneVars, distVars, mainVars>>
    BY <1>6 DEF WorkerOk
  <2> QED
    BY <1>a, <2>1 DEF WorkerPc
<1>7. ASSUME NEW w \in Workers, WorkerYield(w) PROVE TypeInv'
  <2>1. /\ wpc[w] = "yield" /\ Len(resultCh) < ResultCap /\ resultCh' = Append(resultCh, job[w])
        /\ wpc' = [wpc EXCEPT ![w] = "count"] /\ job' = job
        /\ UNCHANGED <<total, taskCh, counter, errCh, doneVars, distVars, mainVars>>
    BY <1>7 DEF WorkerYield
  <2>2. resultCh' \in Seq(Tasks) /\ Len(resultCh') <= ResultCap
    BY <2>1, AppendOne, Constants
  <2> QED
    BY <1>a, <2>1, <2>2 DEF WorkerPc
<1>8. ASSUME NEW w \in Workers, WorkerError(w) PROVE TypeInv'
  <2>1. /\ wpc[w] = "task" /\ errCh' = (IF errCh = None THEN job[w] ELSE errCh)
        /\ wpc' = [wpc EXCEPT ![w] = "cancel"] /\ job' = job
        /\ UNCHANGED <<total, taskCh, resultCh, counter, doneVars, distVars, mainVars>>
    BY <1>8 DEF WorkerError
  <2>2. errCh' \in Tasks \cup {None}
    BY <2>1
  <2> QED
    BY <1>a, <2>1, <2>2 DEF WorkerPc
<1>9. ASSUME NEW w \in Workers, WorkerCancel(w) PROVE TypeInv'
  BY <1>a, <1>9 DEF WorkerCancel, WorkerPc
<1>10. ASSUME NEW w \in Workers, WorkerCount(w) PROVE TypeInv'
  <2>1. /\ counter < CounterCap /\ counter' = counter + 1
        /\ wpc' = [wpc EXCEPT ![w] = "select"] /\ job' = [job EXCEPT ![w] = None]
        /\ UNCHANGED <<total, taskCh, resultCh, errCh, doneVars, distVars, mainVars>>
    BY <1>10 DEF WorkerCount
  <2>2. /\ wpc' \in [Workers -> WorkerPc] /\ job' \in [Workers -> Tasks \cup {None}]
        /\ \A v \in Workers : wpc'[v] \in {"task", "yield", "count"} => job'[v] \in Tasks
    BY <2>1 DEF WorkerPc
  <2>3. counter' \in 0..CounterCap
    BY <2>1, Constants
  <2> QED
    BY <2>1, <2>2, <2>3
<1>11. CASE Main
  <2>1. CASE MainUser
    BY <2>1 DEF MainUser, MainPc
  <2>2. CASE MainCount
    <3>1. counter' \in 0..CounterCap /\ finished' \in Nat
      BY <2>2, Constants DEF MainCount
    <3> QED
      BY <2>2, <3>1 DEF MainCount, MainPc
  <2>3. CASE MainErr
    BY <2>3 DEF MainErr, MainPc
  <2>4. CASE MainResult
    <3>1. resultCh' \in Seq(Tasks) /\ Len(resultCh') <= ResultCap /\ result' \in Seq(Tasks)
      BY <2>4, HeadTail, AppendOne, Constants DEF MainResult
    <3> QED
      BY <2>4, <3>1 DEF MainResult
  <2>5. CASE MainCancel
    BY <2>5 DEF MainCancel, MainPc
  <2>6. CASE MainDrained
    BY <2>6 DEF MainDrained, MainPc
  <2>7. CASE MainReturn
    BY <2>7 DEF MainReturn, MainPc
  <2> QED
    BY <1>11, <2>1, <2>2, <2>3, <2>4, <2>5, <2>6, <2>7 DEF Main
<1>12. CASE UNCHANGED vars
  BY <1>12 DEF vars
<1> QED
  BY <1>1, <1>2, <1>3, <1>4, <1>5, <1>6, <1>7, <1>8, <1>9, <1>10, <1>11, <1>12 DEF Next, WorkerStep

-----------------------------------------------------------------------------
\* Tasks are taken in the order in which they are sent.

LEMMA TakenStep ==
  ASSUME TypeInv, TakenInv, [Next]_vars
  PROVE  TakenInv'
<1>0. next \in Nat /\ taskCh \in Seq(Tasks) /\ Len(taskCh) \in Nat
  BY Constants DEF TypeInv
<1>1. CASE DistSend
  <2>1. /\ taskCh' = Append(taskCh, next + 1) /\ next' = next + 1 /\ next < total /\ ran' = ran
    BY <1>1 DEF DistSend, taskVars
  <2>2. next + 1 \in Tasks
    BY <2>1, Constants DEF TypeInv
  <2>3. /\ Len(taskCh') = Len(taskCh) + 1 /\ taskCh'[Len(taskCh) + 1] = next + 1
        /\ \A i \in 1..Len(taskCh) : taskCh'[i] = taskCh[i]
    BY <1>0, <2>1, <2>2, AppendOne
  <2>4. /\ Len(taskCh) <= next /\ ran = 1..next - Len(taskCh)
        /\ \A i \in 1..Len(taskCh) : taskCh[i] = next - Len(taskCh) + i
    BY DEF TakenInv
  <2>5. next' - Len(taskCh') = next - Len(taskCh) /\ Len(taskCh') <= next'
    BY <1>0, <2>1, <2>3, <2>4
  <2>6. ASSUME NEW i \in 1..Len(taskCh') PROVE taskCh'[i] = next - Len(taskCh) + i
    <3>1. i \in 1..Len(taskCh) \/ i = Len(taskCh) + 1
      BY <1>0, <2>3
    <3>2. CASE i = Len(taskCh) + 1
      BY <1>0, <2>3, <3>2
    <3> QED
      BY <2>3, <2>4, <3>1, <3>2
  <2> QED
    BY <2>1, <2>4, <2>5, <2>6 DEF TakenInv
<1>2. ASSUME NEW w \in Workers, WorkerTake(w) PROVE TakenInv'
  <2>1. /\ taskCh # <<>> /\ taskCh' = Tail(taskCh) /\ next' = next
        /\ ran' = ran \cup {Head(taskCh)}
    BY <1>2 DEF WorkerTake, distVars
  <2>2. /\ Len(taskCh') = Len(taskCh) - 1 /\ Len(taskCh) \in Nat \ {0} /\ Head(taskCh) = taskCh[1]
        /\ \A i \in 1..Len(taskCh) - 1 : taskCh'[i] = taskCh[i + 1]
    BY <1>0, <2>1, HeadTail
  <2>3. Head(taskCh) = next - Len(taskCh) + 1
    BY <1>0, <2>2 DEF TakenInv
  <2>4. ran' = 1..next - Len(taskCh')
    BY <1>0, <2>1, <2>2, <2>3 DEF TakenInv
  <2>5. \A i \in 1..Len(taskCh') : taskCh'[i] = next' - Len(taskCh') + i
    BY <1>0, <2>1, <2>2 DEF TakenInv
  <2> QED
    BY <1>0, <2>1, <2>2, <2>4, <2>5 DEF TakenInv
<1>3. ASSUME UNCHANGED <<taskCh, next, ran>> PROVE TakenInv'
  BY <1>3 DEF TakenInv
<1>4. ASSUME NEW w \in Workers,
             \/ WorkerQuit(w) \/ WorkerOk(w) \/ WorkerYield(w)
             \/ WorkerError(w) \/ WorkerCancel(w) \/ WorkerCount(w)
      PROVE  UNCHANGED <<taskCh, next, ran>>
  BY <1>4 DEF WorkerQuit, WorkerOk, WorkerYield, WorkerError, WorkerCancel, WorkerCount,
              chanVars, distVars, taskVars
<1>5. CASE Main \/ UserCancel \/ DistStop \/ UNCHANGED vars
  BY <1>3, <1>5 DEF Main, MainUser, MainCount, MainErr, MainResult, MainCancel, MainDrained,
                    MainReturn, UserCancel, DistStop, vars, chanVars, distVars, taskVars
<1> QED
  BY <1>1, <1>2, <1>3, <1>4, <1>5 DEF Next, WorkerStep

-----------------------------------------------------------------------------
\* A worker has a task of its own.

\* A worker that goes from one place to another with its task.
LEMMA JobGoes ==
  ASSUME TypeInv, JobInv, NEW w \in Workers, NEW at,
         wpc' = [wpc EXCEPT ![w] = at], job' = job,
         at # "task", at \in {"yield", "count"} => w \in Active
  PROVE  /\ Active' \subseteq Active
         /\ \A v, u \in Active' : job'[v] = job'[u] => v = u
         /\ \A v \in Active' : wpc'[v] = "task" =>
               v # w /\ wpc[v] = "task" /\ (job'[v] # job[w] \/ w \notin Active)
         /\ Yielding' \subseteq Yielding \cup {w} /\ (at = "yield" \/ w \notin Yielding')
<1>1. /\ \A v \in Workers : v # w => wpc'[v] = wpc[v]
      /\ wpc'[w] = at
  BY DEF TypeInv
<1>2. Active' \subseteq Active
  BY <1>1 DEF Active
<1>3. \A v, u \in Active' : job'[v] = job'[u] => v = u
  BY <1>2 DEF JobInv
<1>4. Yielding' \subseteq Yielding \cup {w} /\ (at = "yield" \/ w \notin Yielding')
  BY <1>1 DEF Yielding
<1>5. ASSUME NEW v \in Active', wpc'[v] = "task"
      PROVE  v # w /\ wpc[v] = "task" /\ (job'[v] # job[w] \/ w \notin Active)
  <2>1. v \in Workers /\ v # w /\ wpc[v] = "task" /\ v \in Active
    BY <1>1, <1>5 DEF Active
  <2> QED
    BY <2>1 DEF JobInv
<1> QED
  BY <1>2, <1>3, <1>4, <1>5

LEMMA JobStep ==
  ASSUME TypeInv, TakenInv, JobInv, [Next]_vars
  PROVE  JobInv'
<1>0. /\ next \in Nat /\ taskCh \in Seq(Tasks) /\ Len(taskCh) \in Nat
      /\ wpc \in [Workers -> WorkerPc] /\ job \in [Workers -> Tasks \cup {None}]
  BY Constants DEF TypeInv
<1>1. ASSUME UNCHANGED <<wpc, job, ran, failed, yielded>> PROVE JobInv'
  BY <1>1 DEF JobInv, Active, Yielding
<1>2. ASSUME NEW w \in Workers, WorkerTake(w) PROVE JobInv'
  <2> DEFINE t == Head(taskCh)
  <2>1. /\ wpc[w] = "select" /\ taskCh # <<>> /\ job' = [job EXCEPT ![w] = t]
        /\ wpc' = [wpc EXCEPT ![w] = "task"]
        /\ ran' = ran \cup {t} /\ yielded' = yielded /\ failed' = failed
    BY <1>2 DEF WorkerTake
  <2>2. t \notin ran
    <3>1. Len(taskCh) \in Nat \ {0} /\ t = taskCh[1]
      BY <1>0, <2>1, HeadTail
    <3>2. t = next - Len(taskCh) + 1
      BY <1>0, <3>1 DEF TakenInv
    <3> QED
      BY <1>0, <3>1, <3>2 DEF TakenInv
  <2> HIDE DEF t
  <2>3. /\ \A v \in Workers : v # w => wpc'[v] = wpc[v] /\ job'[v] = job[v]
        /\ wpc'[w] = "task" /\ job'[w] = t
    BY <1>0, <2>1
  <2>4. Active' = Active \cup {w} /\ w \notin Active /\ Yielding' = Yielding /\ w \notin Yielding
    BY <2>1, <2>3 DEF Active, Yielding
  <2>5. \A v \in Active : v # w /\ job'[v] = job[v] /\ wpc'[v] = wpc[v] /\ job[v] \in ran \ failed
    BY <2>3, <2>4 DEF JobInv, Active
  <2>6. \A v \in Active' : job'[v] \in ran' \ failed'
    BY <2>1, <2>2, <2>3, <2>4, <2>5 DEF JobInv
  <2>7. \A v, u \in Active' : job'[v] = job'[u] => v = u
    BY <2>2, <2>3, <2>4, <2>5 DEF JobInv
  <2>8. \A v \in Active' : wpc'[v] = "task" => job'[v] \notin yielded'
    BY <2>1, <2>2, <2>3, <2>4, <2>5 DEF JobInv
  <2>9. \A v \in Yielding' : job'[v] \in yielded'
    BY <2>1, <2>3, <2>4 DEF JobInv, Yielding
  <2>10. failed' \subseteq ran' /\ yielded' \subseteq ran'
    BY <2>1 DEF JobInv
  <2> QED
    BY <2>6, <2>7, <2>8, <2>9, <2>10 DEF JobInv
\* w goes on with its task, or leaves it.
<1>3. ASSUME NEW w \in Workers, NEW at, wpc' = [wpc EXCEPT ![w] = at], job' = job,
             at # "task", at \in {"yield", "count"} => w \in Active,
             ran' = ran, failed' = failed,
             \/ at # "yield" /\ yielded' = yielded
             \/ at = "yield" /\ yielded' = yielded \cup {job[w]}
      PROVE  JobInv'
  <2>1. /\ Active' \subseteq Active
        /\ \A v, u \in Active' : job'[v] = job'[u] => v = u
        /\ \A v \in Active' : wpc'[v] = "task" =>
               v # w /\ wpc[v] = "task" /\ (job'[v] # job[w] \/ w \notin Active)
        /\ Yielding' \subseteq Yielding \cup {w} /\ (at = "yield" \/ w \notin Yielding')
    BY <1>3, JobGoes
  <2>2. failed' \subseteq ran' /\ yielded' \subseteq ran'
    BY <1>3 DEF JobInv
  <2>3. \A v \in Active' : job'[v] \in ran' \ failed'
    BY <1>3, <2>1 DEF JobInv
  <2>4. \A v \in Active' : wpc'[v] = "task" => job'[v] \notin yielded'
    BY <1>3, <2>1 DEF JobInv
  <2>5. \A v \in Yielding' : job'[v] \in yielded'
    BY <1>3, <2>1 DEF JobInv
  <2> QED
    BY <2>1, <2>2, <2>3, <2>4, <2>5 DEF JobInv
<1>4. ASSUME NEW w \in Workers, WorkerQuit(w) \/ WorkerCancel(w) PROVE JobInv'
  BY <1>3, <1>4 DEF WorkerQuit, WorkerCancel, taskVars
<1>5. ASSUME NEW w \in Workers, WorkerOk(w) PROVE JobInv'
  <2>1. w \in Active
    BY <1>5 DEF WorkerOk, Active
  <2> QED
    BY <1>3, <1>5, <2>1 DEF WorkerOk
<1>6. ASSUME NEW w \in Workers, WorkerYield(w) PROVE JobInv'
  <2>1. w \in Active
    BY <1>6 DEF WorkerYield, Active
  <2> QED
    BY <1>3, <1>6, <2>1 DEF WorkerYield, taskVars
<1>7. ASSUME NEW w \in Workers, WorkerError(w) PROVE JobInv'
  <2>1. /\ wpc[w] = "task" /\ failed' = failed \cup {job[w]} /\ ran' = ran /\ yielded' = yielded
        /\ wpc' = [wpc EXCEPT ![w] = "cancel"] /\ job' = job
    BY <1>7 DEF WorkerError
  <2>2. w \in Active
    BY <2>1 DEF Active
  <2>3. /\ \A v \in Workers : v # w => wpc'[v] = wpc[v]
        /\ wpc'[w] = "cancel"
    BY <1>0, <2>1
  <2>4. Active' = Active \ {w} /\ Yielding' = Yielding
    BY <2>1, <2>3 DEF Active, Yielding
  <2>5. \A v \in Active' : job[v] # job[w] /\ wpc'[v] = wpc[v]
    BY <2>2, <2>3, <2>4 DEF JobInv, Active
  <2>6. failed' \subseteq ran' /\ yielded' \subseteq ran'
    BY <2>1, <2>2 DEF JobInv
  <2>7. \A v \in Active' : job'[v] \in ran' \ failed'
    BY <2>1, <2>4, <2>5 DEF JobInv
  <2> QED
    BY <2>1, <2>4, <2>5, <2>6, <2>7 DEF JobInv
<1>8. ASSUME NEW w \in Workers, WorkerCount(w) PROVE JobInv'
  <2>1. /\ wpc[w] = "count" /\ wpc' = [wpc EXCEPT ![w] = "select"]
        /\ job' = [job EXCEPT ![w] = None]
        /\ failed' = failed /\ ran' = ran /\ yielded' = yielded
    BY <1>8 DEF WorkerCount, taskVars
  <2>2. /\ \A v \in Workers : v # w => wpc'[v] = wpc[v] /\ job'[v] = job[v]
        /\ wpc'[w] = "select"
    BY <1>0, <2>1
  <2>3. Active' = Active \ {w} /\ Yielding' = Yielding /\ w \notin Yielding
    BY <2>1, <2>2 DEF Active, Yielding
  <2>4. \A v \in Active' \cup Yielding' : job'[v] = job[v] /\ wpc'[v] = wpc[v]
    BY <2>2, <2>3 DEF Active, Yielding
  <2> QED
    BY <2>1, <2>3, <2>4 DEF JobInv
<1>9. CASE Main \/ UserCancel \/ DistSend \/ DistStop \/ UNCHANGED vars
  BY <1>1, <1>9 DEF Main, MainUser, MainCount, MainErr, MainResult, MainCancel, MainDrained,
                    MainReturn, UserCancel, DistSend, DistStop, vars, workerVars, taskVars
<1> QED
  BY <1>2, <1>4, <1>5, <1>6, <1>7, <1>8, <1>9 DEF Next, WorkerStep

-----------------------------------------------------------------------------
\* Counting.

LEMMA PlusOne ==
  ASSUME NEW S, IsFiniteSet(S), NEW x, x \notin S
  PROVE  /\ IsFiniteSet(S \cup {x}) /\ Cardinality(S) \in Nat
         /\ Cardinality(S \cup {x}) = Cardinality(S) + 1
BY FS_AddElement, FS_CardinalityType

LEMMA MinusOne ==
  ASSUME NEW S, IsFiniteSet(S), NEW x \in S
  PROVE  /\ IsFiniteSet(S \ {x}) /\ Cardinality(S) \in Nat /\ Cardinality(S \ {x}) \in Nat
         /\ Cardinality(S \ {x}) = Cardinality(S) - 1
<1>1. IsFiniteSet(S \ {x}) /\ Cardinality(S \ {x}) = Cardinality(S) - 1
  BY FS_RemoveElement
<1> QED
  BY <1>1, FS_CardinalityType

LEMMA Finite ==
  ASSUME TypeInv, TakenInv, JobInv
  PROVE  /\ IsFiniteSet(Active) /\ Cardinality(Active) \in Nat
         /\ IsFiniteSet(Yielding) /\ Cardinality(Yielding) \in Nat
         /\ IsFiniteSet(failed) /\ Cardinality(failed) \in Nat
         /\ IsFiniteSet(yielded) /\ Cardinality(yielded) \in Nat
<1>1. Active \subseteq Workers /\ Yielding \subseteq Workers /\ IsFiniteSet(Workers)
  BY ResultAssumption DEF Active, Yielding
<1>2. IsFiniteSet(Active) /\ IsFiniteSet(Yielding)
  BY <1>1, FS_Subset
<1>3. next - Len(taskCh) \in Int /\ ran = 1..next - Len(taskCh)
  BY Constants DEF TypeInv, TakenInv
<1>4. IsFiniteSet(1..next - Len(taskCh))
  BY <1>3, 1 \in Int, FS_Interval
<1>5. IsFiniteSet(failed) /\ IsFiniteSet(yielded)
  BY <1>3, <1>4, FS_Subset DEF JobInv
<1> QED
  BY <1>2, <1>5, FS_CardinalityType

LEMMA CountStep ==
  ASSUME TypeInv, TakenInv, JobInv, CountInv, [Next]_vars
  PROVE  CountInv'
<1>0. /\ next \in Nat /\ taskCh \in Seq(Tasks) /\ Len(taskCh) \in Nat
      /\ finished \in Nat /\ counter \in Nat
      /\ wpc \in [Workers -> WorkerPc]
  BY Constants DEF TypeInv
<1>a. /\ IsFiniteSet(Active) /\ Cardinality(Active) \in Nat
      /\ IsFiniteSet(failed) /\ Cardinality(failed) \in Nat
  BY Finite
<1>1. ASSUME UNCHANGED <<next, taskCh, finished, counter, failed>>, Active' = Active PROVE CountInv'
  BY <1>1 DEF CountInv
<1>2. CASE DistSend
  <2>1. /\ taskCh' = Append(taskCh, next + 1) /\ next' = next + 1 /\ next < total
        /\ UNCHANGED <<finished, counter, failed, wpc>>
    BY <1>2 DEF DistSend, taskVars, mainVars, workerVars
  <2>2. next + 1 \in Tasks
    BY <2>1, Constants DEF TypeInv
  <2>3. Len(taskCh') = Len(taskCh) + 1
    BY <1>0, <2>1, <2>2, AppendOne
  <2>4. Active' = Active
    BY <2>1 DEF Active
  <2>5. next' - Len(taskCh') = next - Len(taskCh)
    BY <1>0, <2>1, <2>3
  <2> QED
    BY <2>1, <2>4, <2>5 DEF CountInv
<1>3. ASSUME NEW w \in Workers, WorkerTake(w) PROVE CountInv'
  <2>1. /\ wpc[w] = "select" /\ taskCh # <<>> /\ taskCh' = Tail(taskCh)
        /\ wpc' = [wpc EXCEPT ![w] = "task"]
        /\ UNCHANGED <<next, finished, counter, failed>>
    BY <1>3 DEF WorkerTake, distVars, mainVars
  <2>2. Len(taskCh') = Len(taskCh) - 1
    BY <1>0, <2>1, HeadTail
  <2>3. Active' = Active \cup {w} /\ w \notin Active
    BY <1>0, <2>1 DEF Active
  <2>4. Cardinality(Active') = Cardinality(Active) + 1
    BY <1>a, <2>3, PlusOne
  <2>5. next' - Len(taskCh') = next - Len(taskCh) + 1
    BY <1>0, <2>1, <2>2
  <2>6. finished' = finished /\ counter' = counter /\ Cardinality(failed') = Cardinality(failed)
    BY <2>1
  <2>7. next - Len(taskCh) = finished + counter + Cardinality(Active) + Cardinality(failed)
    BY DEF CountInv
  <2>8. next' - Len(taskCh') = finished' + counter' + Cardinality(Active') + Cardinality(failed')
    BY <1>0, <1>a, <2>4, <2>5, <2>6, <2>7
  <2> QED
    BY <2>8 DEF CountInv
<1>4. ASSUME NEW w \in Workers, WorkerError(w) PROVE CountInv'
  <2>1. /\ wpc[w] = "task" /\ failed' = failed \cup {job[w]}
        /\ wpc' = [wpc EXCEPT ![w] = "cancel"]
        /\ UNCHANGED <<next, taskCh, finished, counter>>
    BY <1>4 DEF WorkerError, distVars, mainVars
  <2>2. Active' = Active \ {w} /\ w \in Active
    BY <1>0, <2>1 DEF Active
  <2>3. job[w] \notin failed
    BY <2>2 DEF JobInv
  <2>4. Cardinality(Active') = Cardinality(Active) - 1
    BY <1>a, <2>2, MinusOne
  <2>5. Cardinality(failed') = Cardinality(failed) + 1
    BY <1>a, <2>1, <2>3, PlusOne
  <2>6. next' - Len(taskCh') = next - Len(taskCh)
    BY <2>1
  <2> QED
    BY <1>0, <1>a, <2>1, <2>4, <2>5, <2>6 DEF CountInv
<1>5. ASSUME NEW w \in Workers, WorkerCount(w) PROVE CountInv'
  <2>1. /\ wpc[w] = "count" /\ counter' = counter + 1
        /\ wpc' = [wpc EXCEPT ![w] = "select"]
        /\ UNCHANGED <<next, taskCh, finished, failed>>
    BY <1>5 DEF WorkerCount, distVars, mainVars, taskVars
  <2>2. Active' = Active \ {w} /\ w \in Active
    BY <1>0, <2>1 DEF Active
  <2>3. Cardinality(Active') = Cardinality(Active) - 1
    BY <1>a, <2>2, MinusOne
  <2>4. next' - Len(taskCh') = next - Len(taskCh)
    BY <2>1
  <2> QED
    BY <1>0, <1>a, <2>1, <2>3, <2>4 DEF CountInv
<1>6. ASSUME NEW w \in Workers, WorkerQuit(w) \/ WorkerOk(w) \/ WorkerYield(w) \/ WorkerCancel(w)
      PROVE  CountInv'
  <2>1. /\ UNCHANGED <<next, taskCh, finished, counter, failed>>
        /\ \/ wpc[w] \in {"select", "cancel"} /\ wpc' = [wpc EXCEPT ![w] = "exit"]
           \/ wpc[w] \in {"task", "yield"} /\ wpc' = [wpc EXCEPT ![w] = "count"]
           \/ wpc[w] = "task" /\ wpc' = [wpc EXCEPT ![w] = "yield"]
    BY <1>6 DEF WorkerQuit, WorkerOk, WorkerYield, WorkerCancel, chanVars, distVars, mainVars, taskVars
  <2>2. \A v \in Workers : v # w => wpc'[v] = wpc[v]
    BY <1>0, <2>1
  <2>3. wpc'[w] \in {"task", "yield", "count"} <=> wpc[w] \in {"task", "yield", "count"}
    BY <1>0, <2>1
  <2>4. Active' = Active
    BY <2>2, <2>3 DEF Active
  <2> QED
    BY <1>1, <2>1, <2>4
<1>7. CASE MainCount
  <2>1. /\ counter > 0 /\ counter' = counter - 1 /\ finished' = finished + 1
        /\ UNCHANGED <<next, taskCh, failed, wpc>>
    BY <1>7 DEF MainCount, distVars, workerVars, taskVars
  <2>2. Active' = Active /\ finished' + counter' = finished + counter
    BY <1>0, <2>1 DEF Active
  <2>3. next' - Len(taskCh') = next - Len(taskCh) /\ Cardinality(Active') = Cardinality(Active)
    BY <2>1, <2>2
  <2> QED
    BY <1>0, <1>a, <2>1, <2>2, <2>3 DEF CountInv
<1>8. CASE \/ MainUser \/ MainErr \/ MainResult \/ MainCancel \/ MainDrained \/ MainReturn
           \/ UserCancel \/ DistStop \/ UNCHANGED vars
  <2>1. UNCHANGED <<next, taskCh, finished, counter, failed, wpc>>
    BY <1>8 DEF MainUser, MainErr, MainResult, MainCancel, MainDrained, MainReturn, UserCancel,
                DistStop, vars, chanVars, distVars, workerVars, mainVars, taskVars
  <2>2. Active' = Active
    BY <2>1 DEF Active
  <2> QED
    BY <1>1, <2>1, <2>2
<1> QED
  BY <1>2, <1>3, <1>4, <1>5, <1>6, <1>7, <1>8 DEF Next, WorkerStep, Main

\* When everything is finished nobody is at work, nothing has failed, and
\* nothing is left to take.
LEMMA AllFinished ==
  ASSUME TypeInv, TakenInv, JobInv, CountInv
  PROVE  /\ finished <= total /\ finished + counter <= next
         /\ finished = total =>
               /\ counter = 0 /\ Active = {} /\ Yielding = {} /\ failed = {}
               /\ ran = 1..total /\ taskCh = <<>> /\ next = total
<1>1. /\ next \in Nat /\ total \in Nat /\ next <= total
      /\ taskCh \in Seq(Tasks) /\ Len(taskCh) \in Nat
      /\ finished \in Nat /\ counter \in Nat
  BY Constants DEF TypeInv
<1>2. /\ IsFiniteSet(Active) /\ Cardinality(Active) \in Nat
      /\ IsFiniteSet(failed) /\ Cardinality(failed) \in Nat
  BY Finite
<1>3. finished + counter <= next
  BY <1>1, <1>2 DEF CountInv
<1>4. ASSUME finished = total
      PROVE  /\ counter = 0 /\ Active = {} /\ Yielding = {} /\ failed = {}
             /\ ran = 1..total /\ taskCh = <<>> /\ next = total
  <2>1. /\ counter = 0 /\ Cardinality(Active) = 0 /\ Cardinality(failed) = 0
        /\ Len(taskCh) = 0 /\ next = total
    BY <1>1, <1>2, <1>4 DEF CountInv
  <2>2. Active = {} /\ failed = {}
    BY <1>2, <2>1, FS_EmptySet
  <2>3. Yielding = {}
    BY <2>2 DEF Active, Yielding
  <2>4. taskCh = <<>>
    BY <1>1, <2>1
  <2>5. ran = 1..total
    BY <1>1, <2>1 DEF TakenInv
  <2> QED
    BY <2>1, <2>2, <2>3, <2>4, <2>5
<1> QED
  BY <1>1, <1>3, <1>4

-----------------------------------------------------------------------------
\* A result is in one place, once.

LEMMA ElemsAppend ==
  ASSUME NEW S, NEW s \in Seq(S), NEW e \in S
  PROVE  Elems(Append(s, e)) = Elems(s) \cup {e}
<1>1. /\ Append(s, e) \in Seq(S) /\ Len(Append(s, e)) = Len(s) + 1 /\ Len(s) \in Nat
      /\ Append(s, e)[Len(s) + 1] = e
      /\ \A i \in 1..Len(s) : Append(s, e)[i] = s[i]
  BY AppendOne
<1>2. DOMAIN s = 1..Len(s) /\ DOMAIN Append(s, e) = 1..Len(s) + 1
  BY <1>1
<1>3. ASSUME NEW x \in Elems(Append(s, e)) PROVE x \in Elems(s) \cup {e}
  <2>1. PICK i \in 1..Len(s) + 1 : x = Append(s, e)[i]
    BY <1>2 DEF Elems
  <2>2. i = Len(s) + 1 \/ i \in 1..Len(s)
    BY <1>1
  <2> QED
    BY <1>1, <1>2, <2>1, <2>2 DEF Elems
<1>4. Elems(s) \subseteq Elems(Append(s, e))
  <2>1. ASSUME NEW x \in Elems(s) PROVE x \in Elems(Append(s, e))
    <3>1. PICK i \in 1..Len(s) : x = s[i]
      BY <1>2 DEF Elems
    <3>2. i \in DOMAIN Append(s, e) /\ Append(s, e)[i] = x
      BY <1>1, <1>2, <3>1
    <3> QED
      BY <3>2 DEF Elems
  <2> QED
    BY <2>1
<1>5. e \in Elems(Append(s, e))
  <2>1. Len(s) + 1 \in DOMAIN Append(s, e)
    BY <1>1, <1>2
  <2> QED
    BY <1>1, <2>1 DEF Elems
<1> QED
  BY <1>3, <1>4, <1>5

LEMMA ElemsTail ==
  ASSUME NEW S, NEW s \in Seq(S), s # <<>>
  PROVE  Elems(s) = Elems(Tail(s)) \cup {Head(s)}
<1>1. /\ Tail(s) \in Seq(S) /\ Len(Tail(s)) = Len(s) - 1 /\ Len(s) \in Nat \ {0}
      /\ Head(s) = s[1] /\ \A i \in 1..Len(s) - 1 : Tail(s)[i] = s[i + 1]
  BY HeadTail
<1>2. DOMAIN s = 1..Len(s) /\ DOMAIN Tail(s) = 1..Len(s) - 1
  BY <1>1
<1>3. ASSUME NEW x \in Elems(s) PROVE x \in Elems(Tail(s)) \cup {Head(s)}
  <2>1. PICK i \in 1..Len(s) : x = s[i]
    BY <1>2 DEF Elems
  <2>2. CASE i = 1
    BY <1>1, <2>1, <2>2
  <2>3. CASE i # 1
    <3>1. i - 1 \in 1..Len(s) - 1 /\ Tail(s)[i - 1] = x
      BY <1>1, <2>1, <2>3
    <3> QED
      BY <1>2, <3>1 DEF Elems
  <2> QED
    BY <2>2, <2>3
<1>4. ASSUME NEW x \in Elems(Tail(s)) PROVE x \in Elems(s)
  <2>1. PICK i \in 1..Len(s) - 1 : x = Tail(s)[i]
    BY <1>2, <1>4 DEF Elems
  <2>2. i + 1 \in DOMAIN s /\ s[i + 1] = x
    BY <1>1, <1>2, <2>1
  <2> QED
    BY <2>2 DEF Elems
<1>5. Head(s) \in Elems(s)
  <2>1. 1 \in DOMAIN s
    BY <1>1, <1>2
  <2> QED
    BY <1>1, <2>1 DEF Elems
<1> QED
  BY <1>3, <1>4, <1>5

LEMMA YieldStep ==
  ASSUME TypeInv, TakenInv, JobInv, YieldInv, [Next]_vars
  PROVE  YieldInv'
<1>0. /\ resultCh \in Seq(Tasks) /\ result \in Seq(Tasks)
      /\ Len(resultCh) \in Nat /\ Len(result) \in Nat
      /\ wpc \in [Workers -> WorkerPc] /\ job \in [Workers -> Tasks \cup {None}]
      /\ \A w \in Workers : wpc[w] \in {"task", "yield", "count"} => job[w] \in Tasks
  BY DEF TypeInv
<1>a. /\ IsFiniteSet(Yielding) /\ Cardinality(Yielding) \in Nat
      /\ IsFiniteSet(yielded) /\ Cardinality(yielded) \in Nat
  BY Finite
<1>1. ASSUME UNCHANGED <<resultCh, result, yielded>>, Yielding' = Yielding,
             \A w \in Yielding : job'[w] = job[w]
      PROVE  YieldInv'
  BY <1>1 DEF YieldInv
\* Workers that have no result in hand, before and after.
<1>2. ASSUME NEW w \in Workers, NEW at, wpc' = [wpc EXCEPT ![w] = at], at # "yield",
             wpc[w] # "yield", \A v \in Workers : v # w => job'[v] = job[v],
             UNCHANGED <<resultCh, result, yielded>>
      PROVE  YieldInv'
  <2>1. Yielding' = Yielding /\ w \notin Yielding
    BY <1>0, <1>2 DEF Yielding
  <2>2. \A v \in Yielding : job'[v] = job[v]
    BY <1>2, <2>1 DEF Yielding
  <2> QED
    BY <1>1, <1>2, <2>1, <2>2
<1>3. ASSUME NEW w \in Workers, WorkerTake(w) \/ WorkerCount(w) PROVE YieldInv'
  <2>1. /\ wpc[w] \in {"select", "count"}
        /\ \E at \in {"task", "select"} : wpc' = [wpc EXCEPT ![w] = at]
        /\ \A v \in Workers : v # w => job'[v] = job[v]
        /\ UNCHANGED <<resultCh, result, yielded>>
    BY <1>0, <1>3 DEF WorkerTake, WorkerCount, mainVars, taskVars
  <2> QED
    BY <1>2, <2>1
<1>4. ASSUME NEW w \in Workers, WorkerQuit(w) \/ WorkerError(w) \/ WorkerCancel(w) PROVE YieldInv'
  <2>1. /\ wpc[w] \in {"select", "task", "cancel"} /\ job' = job
        /\ \E at \in {"exit", "cancel"} : wpc' = [wpc EXCEPT ![w] = at]
        /\ UNCHANGED <<resultCh, result, yielded>>
    BY <1>4 DEF WorkerQuit, WorkerError, WorkerCancel, chanVars, mainVars, taskVars
  <2> QED
    BY <1>2, <2>1
<1>5. ASSUME NEW w \in Workers, WorkerOk(w) PROVE YieldInv'
  <2>1. /\ wpc[w] = "task" /\ UNCHANGED <<resultCh, result, job>>
        /\ \/ wpc' = [wpc EXCEPT ![w] = "count"] /\ yielded' = yielded
           \/ wpc' = [wpc EXCEPT ![w] = "yield"] /\ yielded' = yielded \cup {job[w]}
    BY <1>5 DEF WorkerOk, chanVars, mainVars
  <2>2. CASE wpc' = [wpc EXCEPT ![w] = "count"] /\ yielded' = yielded
    BY <1>2, <2>1, <2>2
  <2>3. CASE wpc' = [wpc EXCEPT ![w] = "yield"] /\ yielded' = yielded \cup {job[w]}
    <3>1. Yielding' = Yielding \cup {w} /\ w \notin Yielding
      BY <1>0, <2>1, <2>3 DEF Yielding
    <3>2. job[w] \notin yielded
      BY <2>1 DEF JobInv, Active
    <3>3. Cardinality(Yielding') = Cardinality(Yielding) + 1
      BY <1>a, <3>1, PlusOne
    <3>4. Cardinality(yielded') = Cardinality(yielded) + 1
      BY <1>a, <2>3, <3>2, PlusOne
    <3>5. {job'[v] : v \in Yielding'} = {job[v] : v \in Yielding} \cup {job[w]}
      BY <2>1, <3>1
    <3>6. yielded' = Elems(result') \cup Elems(resultCh') \cup {job'[v] : v \in Yielding'}
      BY <2>1, <2>3, <3>5 DEF YieldInv
    <3>7. Cardinality(yielded') = Len(result') + Len(resultCh') + Cardinality(Yielding')
      <4>1. Cardinality(yielded) = Len(result) + Len(resultCh) + Cardinality(Yielding)
        BY DEF YieldInv
      <4>2. Len(result') = Len(result) /\ Len(resultCh') = Len(resultCh)
        BY <2>1
      <4> QED
        BY <1>0, <1>a, <3>3, <3>4, <4>1, <4>2
    <3> QED
      BY <3>6, <3>7 DEF YieldInv
  <2> QED
    BY <2>1, <2>2, <2>3
<1>6. ASSUME NEW w \in Workers, WorkerYield(w) PROVE YieldInv'
  <2>1. /\ wpc[w] = "yield" /\ resultCh' = Append(resultCh, job[w])
        /\ wpc' = [wpc EXCEPT ![w] = "count"] /\ UNCHANGED <<result, yielded, job>>
    BY <1>6 DEF WorkerYield, mainVars, taskVars
  <2>2. Yielding' = Yielding \ {w} /\ w \in Yielding
    BY <1>0, <2>1 DEF Yielding
  <2>3. job[w] \in Tasks
    BY <1>0, <2>1
  <2>4. Elems(resultCh') = Elems(resultCh) \cup {job[w]} /\ Len(resultCh') = Len(resultCh) + 1
    BY <1>0, <2>1, <2>3, ElemsAppend, AppendOne
  <2>5. Cardinality(Yielding') = Cardinality(Yielding) - 1
    BY <1>a, <2>2, MinusOne
  <2>6. {job[v] : v \in Yielding} = {job'[v] : v \in Yielding'} \cup {job[w]}
    BY <2>1, <2>2
  <2>7. yielded' = Elems(result') \cup Elems(resultCh') \cup {job'[v] : v \in Yielding'}
    BY <2>1, <2>4, <2>6 DEF YieldInv
  <2>8. Cardinality(yielded') = Len(result') + Len(resultCh') + Cardinality(Yielding')
    <3>1. Cardinality(yielded) = Len(result) + Len(resultCh) + Cardinality(Yielding)
      BY DEF YieldInv
    <3>2. Len(result') = Len(result) /\ Cardinality(yielded') = Cardinality(yielded)
      BY <2>1
    <3> QED
      BY <1>0, <1>a, <2>4, <2>5, <3>1, <3>2
  <2> QED
    BY <2>7, <2>8 DEF YieldInv
<1>7. CASE MainResult
  <2>1. /\ resultCh # <<>> /\ result' = Append(result, Head(resultCh)) /\ resultCh' = Tail(resultCh)
        /\ UNCHANGED <<wpc, job, yielded>>
    BY <1>7 DEF MainResult, workerVars, taskVars
  <2>2. /\ Head(resultCh) \in Tasks /\ Len(resultCh') = Len(resultCh) - 1
    BY <1>0, <2>1, HeadTail
  <2>3. Elems(resultCh) = Elems(resultCh') \cup {Head(resultCh)}
    BY <1>0, <2>1, ElemsTail
  <2>4. Elems(result') = Elems(result) \cup {Head(resultCh)} /\ Len(result') = Len(result) + 1
    BY <1>0, <2>1, <2>2, ElemsAppend, AppendOne
  <2>5. Yielding' = Yielding
    BY <2>1 DEF Yielding
  <2>6. {job'[v] : v \in Yielding'} = {job[v] : v \in Yielding}
    BY <2>1, <2>5
  <2>7. yielded' = Elems(result') \cup Elems(resultCh') \cup {job'[v] : v \in Yielding'}
    BY <2>1, <2>3, <2>4, <2>6 DEF YieldInv
  <2>8. Cardinality(yielded') = Len(result') + Len(resultCh') + Cardinality(Yielding')
    <3>1. Cardinality(yielded) = Len(result) + Len(resultCh) + Cardinality(Yielding)
      BY DEF YieldInv
    <3>2. Cardinality(yielded') = Cardinality(yielded) /\ Cardinality(Yielding') = Cardinality(Yielding)
      BY <2>1, <2>5
    <3> QED
      BY <1>0, <1>a, <2>2, <2>4, <3>1, <3>2
  <2> QED
    BY <2>7, <2>8 DEF YieldInv
<1>8. CASE \/ MainUser \/ MainErr \/ MainCount \/ MainCancel \/ MainDrained \/ MainReturn
           \/ UserCancel \/ DistSend \/ DistStop \/ UNCHANGED vars
  <2>1. UNCHANGED <<resultCh, result, yielded, wpc, job>>
    BY <1>8 DEF MainUser, MainErr, MainCount, MainCancel, MainDrained, MainReturn, UserCancel,
                DistSend, DistStop, vars, chanVars, workerVars, mainVars, taskVars
  <2>2. Yielding' = Yielding
    BY <2>1 DEF Yielding
  <2> QED
    BY <1>1, <2>1, <2>2
<1> QED
  BY <1>3, <1>4, <1>5, <1>6, <1>7, <1>8 DEF Next, WorkerStep, Main

-----------------------------------------------------------------------------
\* Why the loop has ended.

LEMMA EndStep ==
  ASSUME TypeInv, TakenInv, JobInv, CountInv, EndInv, [Next]_vars
  PROVE  EndInv'
<1>0. /\ errCh \in Tasks \cup {None} /\ err \in Tasks \cup {None, User}
      /\ main \in MainPc /\ total \in Nat
      /\ None \notin Tasks /\ User \notin Tasks /\ None # User
      /\ \A w \in Workers : wpc[w] \in {"task", "yield", "count"} => job[w] \in Tasks
  BY Constants DEF TypeInv
<1>1. ASSUME UNCHANGED <<main, err, finished, total, resultCh, errCh, failed>>,
             userDone' = userDone \/ userDone'
      PROVE  EndInv'
  BY <1>1 DEF EndInv
<1>2. ASSUME NEW w \in Workers,
             WorkerTake(w) \/ WorkerQuit(w) \/ WorkerOk(w) \/ WorkerCancel(w) \/ WorkerCount(w)
      PROVE  EndInv'
  BY <1>1, <1>2 DEF WorkerTake, WorkerQuit, WorkerOk, WorkerCancel, WorkerCount,
                    chanVars, doneVars, mainVars, taskVars
<1>3. ASSUME NEW w \in Workers, WorkerYield(w) PROVE EndInv'
  <2>1. /\ wpc[w] = "yield"
        /\ UNCHANGED <<main, err, finished, total, errCh, failed, userDone>>
    BY <1>3 DEF WorkerYield, doneVars, mainVars, taskVars
  <2>2. finished # total
    BY <2>1, AllFinished DEF Yielding
  <2>3. ~(main # "loop" /\ err = None)
    BY <2>2 DEF EndInv
  <2> QED
    BY <2>1, <2>3 DEF EndInv
<1>4. ASSUME NEW w \in Workers, WorkerError(w) PROVE EndInv'
  <2>1. /\ wpc[w] = "task" /\ failed' = failed \cup {job[w]}
        /\ errCh' = (IF errCh = None THEN job[w] ELSE errCh)
        /\ UNCHANGED <<main, err, finished, total, resultCh, userDone>>
    BY <1>4 DEF WorkerError, doneVars, mainVars
  <2> QED
    BY <1>0, <2>1 DEF EndInv
<1>5. CASE MainUser
  <2>1. /\ userDone /\ err' = User /\ main' = "cancel"
        /\ UNCHANGED <<finished, total, resultCh, errCh, failed, userDone>>
    BY <1>5 DEF MainUser, chanVars, doneVars, taskVars
  <2> QED
    BY <1>0, <2>1 DEF EndInv
<1>6. CASE MainCount
  <2>1. /\ main = "loop" /\ main' = (IF finished' = total THEN "cancel" ELSE "loop")
        /\ UNCHANGED <<err, total, resultCh, errCh, failed, userDone>>
    BY <1>6 DEF MainCount, doneVars, taskVars
  <2> QED
    BY <1>0, <2>1 DEF EndInv
<1>7. CASE MainErr
  <2>1. /\ main = "loop" /\ errCh # None /\ err' = errCh /\ errCh' = None /\ main' = "cancel"
        /\ UNCHANGED <<finished, total, resultCh, failed, userDone>>
    BY <1>7 DEF MainErr, doneVars, taskVars
  <2> QED
    BY <1>0, <2>1 DEF EndInv
<1>8. CASE MainResult
  <2>1. /\ main \in {"loop", "drain"}
        /\ UNCHANGED <<main, err, finished, total, errCh, failed, userDone>>
    BY <1>8 DEF MainResult, doneVars, taskVars
  <2> QED
    BY <2>1 DEF EndInv
<1>9. CASE MainCancel
  <2>1. /\ main = "cancel" /\ main' = "drain"
        /\ UNCHANGED <<err, finished, total, resultCh, errCh, failed, userDone>>
    BY <1>9 DEF MainCancel, chanVars, taskVars
  <2> QED
    BY <2>1 DEF EndInv
<1>10. CASE MainDrained
  <2>1. /\ main = "drain" /\ main' = "wait" /\ resultCh = <<>>
        /\ UNCHANGED <<err, finished, total, resultCh, errCh, failed, userDone>>
    BY <1>10 DEF MainDrained, chanVars, doneVars, taskVars
  <2> QED
    BY <2>1 DEF EndInv
<1>11. CASE MainReturn
  <2>1. /\ main = "wait" /\ main' = "returned"
        /\ UNCHANGED <<err, finished, total, resultCh, errCh, failed, userDone>>
    BY <1>11 DEF MainReturn, chanVars, doneVars, taskVars
  <2> QED
    BY <2>1 DEF EndInv
<1>12. CASE UserCancel \/ DistSend \/ DistStop \/ UNCHANGED vars
  BY <1>1, <1>12 DEF UserCancel, DistSend, DistStop, vars, chanVars, doneVars, mainVars, taskVars
<1> QED
  BY <1>2, <1>3, <1>4, <1>5, <1>6, <1>7, <1>8, <1>9, <1>10, <1>11, <1>12
     DEF Next, WorkerStep, Main

-----------------------------------------------------------------------------

IInv == TypeInv /\ TakenInv /\ JobInv /\ CountInv /\ YieldInv /\ EndInv

LEMMA InvInit == Init => IInv
<1> SUFFICES ASSUME Init
             PROVE  IInv
  OBVIOUS
<1>1. TypeInv
  BY TypeInit
<1>2. /\ next = 0 /\ taskCh = <<>> /\ resultCh = <<>> /\ result = <<>> /\ counter = 0
      /\ finished = 0 /\ yielded = {} /\ ran = {} /\ failed = {}
      /\ main = "loop" /\ err = None /\ errCh = None
      /\ \A w \in Workers : wpc[w] = "select"
  BY DEF Init
<1>3. Active = {} /\ Yielding = {}
  BY <1>2 DEF Active, Yielding
<1>4. Cardinality({}) = 0
  BY FS_EmptySet
<1>5. TakenInv
  BY <1>2 DEF TakenInv
<1>6. JobInv
  BY <1>2, <1>3 DEF JobInv
<1>7. CountInv
  BY <1>2, <1>3, <1>4 DEF CountInv
<1>8. YieldInv
  <2>1. Elems(<<>>) = {}
    BY DEF Elems
  <2>2. Len(<<>>) = 0
    OBVIOUS
  <2> QED
    BY <1>2, <1>3, <1>4, <2>1, <2>2 DEF YieldInv
<1>9. EndInv
  BY <1>2, Constants DEF EndInv
<1> QED
  BY <1>1, <1>5, <1>6, <1>7, <1>8, <1>9 DEF IInv

LEMMA InvStep == IInv /\ [Next]_vars => IInv'
  BY TypeStep, TakenStep, JobStep, CountStep, YieldStep, EndStep DEF IInv

LEMMA InvImplies == IInv => ResultInv
<1> SUFFICES ASSUME IInv
             PROVE  ResultInv
  OBVIOUS
<1>1. TypeInv /\ TakenInv /\ JobInv /\ CountInv /\ YieldInv /\ EndInv
  BY DEF IInv
<1>2. /\ finished <= total
      /\ finished = total =>
            /\ Active = {} /\ Yielding = {} /\ failed = {} /\ ran = 1..total
  BY <1>1, AllFinished
<1>3. TypeOK
  <2>1. finished \in 0..total /\ ran \subseteq 1..next
    BY <1>1, <1>2, Constants DEF TypeInv, TakenInv
  <2>2. yielded \subseteq ran /\ failed \subseteq ran
    BY <1>1 DEF JobInv
  <2> QED
    BY <1>1, <2>1, <2>2 DEF TypeInv, TypeOK
<1>4. ASSUME main = "returned", err = None
      PROVE  /\ ran = 1..total /\ failed = {} /\ Elems(result) = yielded
             /\ Len(result) = Cardinality(yielded)
  <2>1. finished = total /\ resultCh = <<>>
    BY <1>1, <1>4 DEF EndInv
  <2>2. Yielding = {} /\ failed = {} /\ ran = 1..total
    BY <1>2, <2>1
  <2>3. Elems(resultCh) = {} /\ Len(resultCh) = 0 /\ Cardinality(Yielding) = 0
    BY <2>1, <2>2, FS_EmptySet DEF Elems
  <2>4. yielded = Elems(result)
    BY <1>1, <2>2, <2>3 DEF YieldInv
  <2>5. Cardinality(yielded) = Len(result) + 0 + 0 /\ Len(result) \in Nat
    BY <1>1, <2>3 DEF YieldInv, TypeInv
  <2> QED
    BY <2>2, <2>4, <2>5
<1>5. NilMeansComplete
  BY <1>4 DEF NilMeansComplete, Elems
<1>6. ErrorHasCause
  <2>1. /\ err = User => userDone
        /\ err \in Tasks => err \in failed
    BY <1>1 DEF EndInv
  <2>2. main = "returned" /\ failed # {} => err # None
    BY <1>4
  <2> QED
    BY <2>1, <2>2 DEF ErrorHasCause
<1> QED
  BY <1>3, <1>5, <1>6 DEF ResultInv

\* A call that returns without an error ran every task and has each result
\* once, whichever of completions and results the select takes first, and an
\* error has a cause (parallel.go:14-102).
THEOREM ResultCorrect == Spec => []ResultInv
  BY InvInit, InvStep, InvImplies, PTL DEF Spec

-----------------------------------------------------------------------------
\* The inductive invariant.

Current == Len(profiles)

ProfileSet == [closers : Seq(ToSet(Kinds)), stopped : BOOLEAN,
               old : {"unset", "initial", "dump"}, closed : BOOLEAN]

StepSet == [at : {"idle", "start", "stop"}, profile : {NoProfile} \cup DOMAIN profiles,
            step : 0..7]

\* The types, with sequences as such.
ProfileTypes ==
    /\ started \in BOOLEAN
    /\ profiles \in Seq(ProfileSet)
    /\ settings \in [Switches -> {NoProfile, Application} \cup DOMAIN profiles]
    /\ preset \in Presets
    /\ rate \in {"initial", "dump"}
    /\ files \subseteq (DOMAIN profiles) \X ToSet(Kinds)
    /\ ppc \in [Callers -> StepSet]
    /\ shared \subseteq DOMAIN profiles
    /\ stopper \in {NoProfile, Fake} \cup DOMAIN profiles
    /\ signals \in Seq(Signals) /\ Len(signals) <= 2
    /\ sent \in 0..MaxSignals /\ ends \in 0..2 /\ handler \in 0..2
    /\ failures \in 0..MaxFailures
    /\ process \in {"runs", "exited", "panicked"}

Busy(c) == ppc[c].at # "idle"

\* The bound on the profiles holds for those that signals may still start.
BoundInv ==
    /\ Len(profiles) + (MaxSignals - sent) + Len(signals) <= MaxProfiles
    /\ process = "runs" => ends < 2

\* A caller is at a step of the loop that it is in, and has made no more closers
\* than it has tried collectors.
StepInv ==
    /\ \A p \in DOMAIN profiles : Len(profiles[p].closers) <= Len(Kinds)
    /\ \A c \in Callers :
          /\ ppc[c].at = "start" =>
                /\ ppc[c].step > 0
                /\ \A i \in DOMAIN profiles[Current].closers :
                      \E j \in 1..(ppc[c].step - 1) : profiles[Current].closers[i] = Kinds[j]
                /\ Len(profiles[Current].closers) < ppc[c].step
          /\ ppc[c].at = "stop" =>
                ppc[c].step \in 1..(Len(profiles[Current].closers) + 1)

\* Only the profile that was made last may be open, it is as long as the flag is
\* set, and one goroutine at most works on it.  Nobody else has its stopper while
\* it is started, and it is stopped once.
OwnerInv ==
    /\ \A p \in DOMAIN profiles : Open(p) <=> started /\ p = Current
    /\ started => Current > 0
    /\ \A p \in DOMAIN profiles : Open(p) \/ profiles[p].stopped
    /\ \A c \in Callers : Busy(c) =>
          /\ started /\ ppc[c].profile = Current
          /\ profiles[Current].stopped <=> ppc[c].at = "stop"
          /\ ppc[c].at = "start" => Current \notin shared /\ Current # stopper
    /\ \A c, d \in Callers : Busy(c) /\ Busy(d) => c = d
    /\ stopper \in DOMAIN profiles => ~profiles[stopper].stopped /\ stopper \notin shared

\* The closer of k is still to be called.
ToClose(k) ==
    /\ started
    /\ \E i \in DOMAIN profiles[Current].closers :
          /\ profiles[Current].closers[i] = k
          /\ \A c \in Callers : ppc[c].at = "stop" => i >= ppc[c].step

\* What a collector has changed will be undone by its closer, which knows the rate
\* that the process had.
UndoInv ==
    /\ \A k \in Switches : settings[k] \notin {NoProfile, Application} => ToClose(k)
    /\ rate # "initial" => ToClose("mem")
    /\ \A f \in files : f[2] = "trace" \/ (f[1] = Current /\ ToClose(f[2]))
    /\ started => \A i \in DOMAIN profiles[Current].closers :
          profiles[Current].closers[i] = "mem" => profiles[Current].old = "initial"

\* Profile p has or had collector k.
Has(p, k) == \E i \in DOMAIN profiles[p].closers : profiles[p].closers[i] = k

\* What the application switched on is on until a profile has it, a CPU profile
\* until the closer of that profile is called.  No profile has the trace then.
PresetInv ==
    /\ \A k \in Switches : settings[k] = Application =>
          /\ k \in preset
          /\ \A p \in DOMAIN profiles : Has(p, k) => k = "cpu" /\ p = Current /\ ToClose(k)
    /\ \A k \in preset : (\A p \in DOMAIN profiles : ~Has(p, k)) => settings[k] = Application
    /\ "trace" \in preset => settings["trace"] = Application

-----------------------------------------------------------------------------
\* The kinds of the profiles.

LEMMA KindsAre ==
  /\ Len(Kinds) = 6
  /\ DOMAIN Kinds = 1..6
  /\ \A j \in 1..6 : Kinds[j] \in ToSet(Kinds)
  /\ \A j \in 1..6 : Kinds[j] = "mem" <=> j = 3
  /\ \A j \in 1..6 : Kinds[j] = "trace" <=> j = 5
  /\ "trace" \in ToSet(Kinds) /\ "mem" \notin Switches
  BY DEF Kinds, ToSet, Switches

LEMMA BoundedSeqHas ==
  ASSUME NEW S, NEW s \in Seq(S), NEW n \in Nat, Len(s) <= n
  PROVE  s \in BoundedSeq(S, n)
<1>1. Len(s) \in 0..n /\ s \in [1..Len(s) -> S]
  BY LenProperties
<1>2. s \in UNION {[1..m -> S] : m \in 0..n}
  BY <1>1
<1> QED
  BY <1>2 DEF BoundedSeq, SeqOf

LEMMA InCallers == SignalLoop \in Callers /\ Apps \subseteq Callers
  BY DEF Callers

ProfileInv == ProfileTypes /\ BoundInv /\ StepInv /\ OwnerInv /\ UndoInv /\ PresetInv

LEMMA ProfileInvInit == ProfileInit => ProfileInv
<1> SUFFICES ASSUME ProfileInit
             PROVE  ProfileInv
  OBVIOUS
<1> USE DEF ProfileInit
<1>1. \A c \in Callers : ppc[c] = Idle
  OBVIOUS
<1>2. DOMAIN profiles = {} /\ Len(profiles) = 0 /\ Len(signals) = 0
  OBVIOUS
<1>3. ProfileTypes
  <2>1. ppc \in [Callers -> StepSet]
    BY DEF StepSet, Idle
  <2>2. settings \in [Switches -> {NoProfile, Application} \cup DOMAIN profiles]
        /\ preset \in Presets
    OBVIOUS
  <2>3. profiles \in Seq(ProfileSet) /\ signals \in Seq(Signals) /\ Len(signals) <= 2
    BY <1>2
  <2>4. sent \in 0..MaxSignals /\ failures \in 0..MaxFailures
    BY ProfileAssumption
  <2>5. /\ started \in BOOLEAN /\ rate \in {"initial", "dump"} /\ files = {} /\ shared = {}
        /\ stopper = NoProfile /\ ends = 0 /\ handler = 0 /\ process = "runs"
    OBVIOUS
  <2> HIDE DEF ProfileInit
  <2> QED
    BY <2>1, <2>2, <2>3, <2>4, <2>5 DEF ProfileTypes
<1>4. BoundInv
  BY <1>2, ProfileAssumption DEF BoundInv
<1>5. StepInv
  BY <1>1, <1>2 DEF StepInv, Idle
<1>6. OwnerInv
  BY <1>1, <1>2 DEF OwnerInv, Idle, Busy, NoProfile
<1>7. UndoInv
  BY DEF UndoInv
<1>8. PresetInv
  <2>1. preset \subseteq Switches /\ "trace" \in Switches
    BY ProfileAssumption DEF Switches
  <2>2. \A k \in Switches : settings[k] = Application <=> k \in preset
    BY DEF Application, NoProfile
  <2> QED
    BY <1>2, <2>1, <2>2 DEF PresetInv
<1> QED
  BY <1>3, <1>4, <1>5, <1>6, <1>7, <1>8 DEF ProfileInv

-----------------------------------------------------------------------------
\* Steps that are no part of StartProfile and Stop.

LEMMA RoomMath ==
  ASSUME NEW n \in Nat, NEW m \in Nat, NEW b \in Nat, NEW s \in Nat, NEW l \in Nat,
         NEW ss \in Nat, NEW ll \in Nat,
         n + (m - s) + l <= b, ll - ss <= l - s
  PROVE  n + (m - ss) + ll <= b
  OBVIOUS

\* A step that makes no closer and switches nothing.
LEMMA PresetFrame ==
  ASSUME PresetInv, settings' = settings, preset' = preset, Current' = Current,
         DOMAIN profiles' = DOMAIN profiles,
         \A p \in DOMAIN profiles : profiles'[p].closers = profiles[p].closers,
         ToClose("cpu") => ToClose("cpu")'
  PROVE  PresetInv'
<1>1. \A p \in DOMAIN profiles : \A k : Has(p, k)' <=> Has(p, k)
  BY DEF Has
<1>2. ASSUME NEW k \in Switches, settings'[k] = Application, NEW p \in DOMAIN profiles', Has(p, k)'
      PROVE  k = "cpu" /\ p = Current' /\ ToClose(k)'
  <2>1. k = "cpu" /\ p = Current /\ ToClose(k)
    BY <1>1, <1>2 DEF PresetInv
  <2> QED
    BY <2>1
<1>3. \A k \in Switches : settings'[k] = Application => k \in preset'
  BY DEF PresetInv
<1>4. \A k \in preset' : (\A p \in DOMAIN profiles' : ~Has(p, k)') => settings'[k] = Application
  BY <1>1 DEF PresetInv
<1>5. "trace" \in preset' => settings'["trace"] = Application
  BY DEF PresetInv
<1> QED
  BY <1>2, <1>3, <1>4, <1>5 DEF PresetInv

LEMMA Frame ==
  ASSUME ProfileInv, UNCHANGED uncalled, preset' = preset
  PROVE  StepInv' /\ OwnerInv' /\ UndoInv' /\ PresetInv'
<1> USE DEF uncalled, ProfileInv
<1>1. Current' = Current
  BY DEF Current
<1>2. StepInv'
  BY <1>1 DEF StepInv
<1>3. OwnerInv'
  BY <1>1 DEF OwnerInv, Open, Busy
<1>4. UndoInv'
  <2>1. ASSUME NEW k, ToClose(k) PROVE ToClose(k)'
    BY <1>1, <2>1 DEF ToClose
  <2> QED
    BY <1>1, <2>1 DEF UndoInv
<1>5. PresetInv'
  <2>1. ToClose("cpu") => ToClose("cpu")'
    BY <1>1 DEF ToClose
  <2> QED
    BY <1>1, <2>1, PresetFrame
<1> QED
  BY <1>2, <1>3, <1>4, <1>5

LEMMA SignalFrame ==
  ASSUME ProfileInv, UNCHANGED uncalled, preset' = preset,
         signals' \in Seq(Signals), Len(signals') <= 2,
         sent' \in 0..MaxSignals, ends' \in 0..2, handler' \in 0..2,
         process' \in {"runs", "exited", "panicked"},
         Len(signals') - sent' <= Len(signals) - sent,
         process' = "runs" => ends' < 2
  PROVE  ProfileInv'
<1>1. ProfileTypes'
  BY DEF ProfileInv, ProfileTypes, uncalled, StepSet
<1>2. BoundInv'
  <2>1. Len(profiles') = Len(profiles)
    BY DEF uncalled
  <2>2. Len(profiles) \in Nat /\ Len(signals) \in Nat /\ Len(signals') \in Nat /\ sent \in Nat
    BY DEF ProfileInv, ProfileTypes
  <2>3. Len(profiles) + (MaxSignals - sent) + Len(signals) <= MaxProfiles
    BY DEF ProfileInv, BoundInv
  <2>4. sent' \in Nat
    OBVIOUS
  <2>5. Len(profiles') + (MaxSignals - sent') + Len(signals') <= MaxProfiles
    <3>1. MaxProfiles \in Nat /\ MaxSignals \in Nat
      BY ProfileAssumption
    <3> QED
      BY <2>1, <2>2, <2>3, <2>4, <3>1, RoomMath
  <2> QED
    BY <2>5 DEF BoundInv
<1> QED
  BY <1>1, <1>2, Frame DEF ProfileInv

LEMMA SetupStep ==
  ASSUME ProfileInv, Setup
  PROVE  ProfileInv'
<1>1. /\ signals' = signals /\ sent' = sent /\ ends' = ends /\ UNCHANGED uncalled
      /\ preset' = preset
      /\ process' \in {"runs", "exited", "panicked"} /\ handler' \in 0..2
      /\ process = "runs"
  BY DEF Setup, ProfileInv, ProfileTypes
<1> QED
  BY <1>1, SignalFrame DEF ProfileInv, ProfileTypes, BoundInv

LEMMA NotifyStep ==
  ASSUME ProfileInv, NEW s \in Signals, Notify(s)
  PROVE  ProfileInv'
<1>1. /\ sent' = sent + 1 /\ sent < MaxSignals
      /\ UNCHANGED <<ends, handler, process, preset>> /\ UNCHANGED uncalled
      /\ process = "runs"
      /\ signals' = IF Len(signals) < 2 THEN Append(signals, s) ELSE signals
  BY DEF Notify
<1>2. signals \in Seq(Signals) /\ Len(signals) <= 2 /\ sent \in 0..MaxSignals
  BY DEF ProfileInv, ProfileTypes
<1>3. signals' \in Seq(Signals) /\ Len(signals') <= 2 /\ Len(signals') <= Len(signals) + 1
  BY <1>1, <1>2
<1>4. sent' \in 0..MaxSignals /\ Len(signals') - sent' <= Len(signals) - sent
  BY <1>1, <1>2, <1>3, ProfileAssumption
<1> QED
  BY <1>1, <1>3, <1>4, SignalFrame DEF ProfileInv, ProfileTypes, BoundInv

\* What the signal loop takes from the channel leaves room there.
LEMMA ReceiveEffect ==
  ASSUME ProfileInv, NEW s, Receive(s)
  PROVE  /\ signals' \in Seq(Signals) /\ Len(signals') = Len(signals) - 1
         /\ Len(signals) \in Nat /\ Len(signals) <= 2
         /\ sent' = sent /\ handler' = handler /\ preset' = preset
         /\ process = "runs" /\ ends \in 0..1
         /\ ppc[SignalLoop] = Idle
<1>1. signals \in Seq(Signals) /\ signals # <<>> /\ signals' = Tail(signals)
  BY DEF ProfileInv, ProfileTypes, Receive
<1>2. signals' \in Seq(Signals) /\ Len(signals') = Len(signals) - 1 /\ Len(signals) \in Nat
  BY <1>1
<1> QED
  BY <1>2 DEF ProfileInv, ProfileTypes, Receive, BoundInv

LEMMA TerminateStep ==
  ASSUME ProfileInv, Terminate
  PROVE  ProfileInv'
<1>1. Receive("term") /\ ends' = ends + 1 /\ UNCHANGED uncalled
      /\ process' = IF ends = 0 THEN process ELSE "exited"
  BY DEF Terminate
<1>2. sent \in 0..MaxSignals /\ handler \in 0..2
  BY DEF ProfileInv, ProfileTypes
<1> QED
  BY <1>1, <1>2, ReceiveEffect, SignalFrame, ProfileAssumption

LEMMA DumpStep ==
  ASSUME ProfileInv, Dump
  PROVE  ProfileInv'
<1>1. Receive("usr2") /\ UNCHANGED uncalled /\ ends' = ends /\ process' = process
  BY DEF Dump
<1>2. sent \in 0..MaxSignals /\ handler \in 0..2
  BY DEF ProfileInv, ProfileTypes
<1> QED
  BY <1>1, <1>2, ReceiveEffect, SignalFrame, ProfileAssumption

-----------------------------------------------------------------------------
\* StartProfile and Stop.

callless == <<signals, sent, ends, handler, process, preset>>

\* Who is at work is alone, and works on the profile that is open.
LEMMA AtWork ==
  ASSUME ProfileInv, NEW c \in Callers, Busy(c)
  PROVE  /\ started /\ ppc[c].profile = Current /\ Current \in DOMAIN profiles
         /\ Current \in Nat /\ DOMAIN profiles = 1..Current
         /\ profiles[Current] \in ProfileSet /\ Open(Current)
         /\ \A d \in Callers : Busy(d) => d = c
<1>1. profiles \in Seq(ProfileSet)
  BY DEF ProfileInv, ProfileTypes
<1>2. Current \in Nat /\ DOMAIN profiles = 1..Current /\ \A p \in 1..Current : profiles[p] \in ProfileSet
  BY <1>1 DEF Current
<1>3. started /\ Current > 0 /\ ppc[c].profile = Current
  BY DEF ProfileInv, OwnerInv
<1> QED
  BY <1>2, <1>3 DEF ProfileInv, OwnerInv

\* The next step of a call that is under way and changes no more of the profiles.
LEMMA NextStepEffect ==
  ASSUME ProfileInv, NEW c \in Callers, Busy(c), ppc[c].step <= 6, ppc' = NextStep(c)
  PROVE  /\ ppc'[c].at = ppc[c].at /\ ppc'[c].profile = ppc[c].profile
         /\ ppc'[c].step = ppc[c].step + 1 /\ ppc[c].step \in Nat
         /\ \A d \in Callers \ {c} : ppc'[d] = ppc[d]
         /\ \A d \in Callers : ppc'[d].at = ppc[d].at /\ ppc'[d].profile = ppc[d].profile
         /\ DOMAIN profiles' = DOMAIN profiles => ppc' \in [Callers -> StepSet']
<1>1. ppc \in [Callers -> StepSet]
  BY DEF ProfileInv, ProfileTypes
<1>2. ppc[c] \in StepSet /\ ppc[c].step + 1 \in 0..7
  BY <1>1 DEF StepSet
<1>3. ppc' = [ppc EXCEPT ![c].step = ppc[c].step + 1]
  BY DEF NextStep
<1>4. DOMAIN profiles' = DOMAIN profiles => StepSet' = StepSet
  BY DEF StepSet
<1>5. [ppc[c] EXCEPT !.step = ppc[c].step + 1] \in StepSet
  BY <1>2 DEF StepSet
<1>6. ppc' \in [Callers -> StepSet]
  BY <1>1, <1>3, <1>5
<1> QED
  BY <1>1, <1>2, <1>3, <1>4, <1>6 DEF StepSet

\* A collector that could not be started: the call goes on.
LEMMA SkipStep ==
  ASSUME ProfileInv, NEW c \in Callers, ppc[c].at = "start", ppc[c].step <= Len(Kinds),
         ppc' = NextStep(c), failures' \in 0..MaxFailures,
         UNCHANGED <<started, profiles, settings, rate, shared, stopper>>,
         UNCHANGED callless,
         files' \subseteq files \cup {<<Current, "trace">>}
  PROVE  ProfileInv'
<1>1. Busy(c) /\ ppc[c].step <= 6
  BY KindsAre DEF Busy
<1>2. Current' = Current /\ DOMAIN profiles' = DOMAIN profiles
  BY DEF Current
<1>3. Current \in DOMAIN profiles
  BY <1>1, AtWork
<1>4. ProfileTypes'
  <2>1. files' \subseteq (DOMAIN profiles') \X ToSet(Kinds)
    BY <1>2, <1>3, KindsAre DEF ProfileInv, ProfileTypes
  <2>2. ppc' \in [Callers -> StepSet']
    BY <1>1, <1>2, NextStepEffect
  <2> QED
    BY <2>1, <2>2 DEF ProfileInv, ProfileTypes, callless
<1>5. BoundInv'
  BY DEF ProfileInv, BoundInv, callless
<1>6. StepInv'
  <2>1. ASSUME NEW d \in Callers, ppc'[d].at = "start"
        PROVE  /\ ppc'[d].step > 0
               /\ \A i \in DOMAIN profiles[Current].closers :
                     \E j \in 1..(ppc'[d].step - 1) : profiles[Current].closers[i] = Kinds[j]
               /\ Len(profiles[Current].closers) < ppc'[d].step
    <3>1. d = c
      BY <1>1, <2>1, AtWork, NextStepEffect DEF Busy
    <3>2. ppc'[c].step = ppc[c].step + 1 /\ ppc[c].step \in Nat
      BY <1>1, NextStepEffect
    <3>3. Len(profiles[Current].closers) \in Nat
      BY <1>1, AtWork DEF ProfileSet
    <3>4. /\ ppc[c].step > 0
          /\ \A i \in DOMAIN profiles[Current].closers :
                \E j \in 1..(ppc[c].step - 1) : profiles[Current].closers[i] = Kinds[j]
          /\ Len(profiles[Current].closers) < ppc[c].step
      BY DEF ProfileInv, StepInv
    <3>5. 1..(ppc[c].step - 1) \subseteq 1..(ppc'[c].step - 1)
      BY <3>2
    <3>6. \A i \in DOMAIN profiles[Current].closers :
             \E j \in 1..(ppc'[c].step - 1) : profiles[Current].closers[i] = Kinds[j]
      BY <3>4, <3>5
    <3>7. ppc'[c].step > 0 /\ Len(profiles[Current].closers) < ppc'[c].step
      BY <3>2, <3>3, <3>4
    <3> QED
      BY <3>1, <3>6, <3>7
  <2>2. ASSUME NEW d \in Callers, ppc'[d].at = "stop" PROVE FALSE
    BY <1>1, <2>2, AtWork, NextStepEffect DEF Busy
  <2> QED
    BY <1>2, <2>1, <2>2 DEF ProfileInv, StepInv
<1>7. OwnerInv'
  <2>1. \A d \in Callers : (Busy(d))' <=> Busy(d)
    BY <1>1, NextStepEffect DEF Busy
  <2>2. \A p : Open(p)' <=> Open(p)
    BY DEF Open
  <2> QED
    BY <1>1, <1>2, <2>1, <2>2, NextStepEffect DEF ProfileInv, OwnerInv
<1>8. UndoInv'
  <2>1. ASSUME NEW k, ToClose(k) PROVE ToClose(k)'
    <3>1. \A d \in Callers : ppc'[d].at # "stop"
      BY <1>1, AtWork, NextStepEffect DEF Busy
    <3> QED
      BY <1>2, <2>1, <3>1 DEF ToClose
  <2> QED
    BY <1>2, <2>1 DEF ProfileInv, UndoInv
<1>9. PresetInv'
  <2>1. ToClose("cpu") => ToClose("cpu")'
    <3>1. \A d \in Callers : ppc'[d].at # "stop"
      BY <1>1, AtWork, NextStepEffect DEF Busy
    <3> QED
      BY <1>2, <3>1 DEF ToClose
  <2> QED
    BY <1>2, <2>1, PresetFrame DEF ProfileInv, callless
<1> QED
  BY <1>4, <1>5, <1>6, <1>7, <1>8, <1>9 DEF ProfileInv

LEMMA CreateFailsStep ==
  ASSUME ProfileInv, NEW c \in Callers, CreateFails(c), UNCHANGED callless
  PROVE  ProfileInv'
<1>1. failures' \in 0..MaxFailures
  BY ProfileAssumption DEF CreateFails, Fails, ProfileInv, ProfileTypes
<1> QED
  BY <1>1, SkipStep DEF CreateFails

LEMMA StartTraceFailsStep ==
  ASSUME ProfileInv, NEW c \in Callers, StartTraceFails(c), UNCHANGED callless
  PROVE  ProfileInv'
<1>1. failures' \in 0..MaxFailures
  BY DEF StartTraceFails, ProfileInv, ProfileTypes
<1>2. ppc[c].profile = Current
  BY AtWork DEF StartTraceFails, Busy
<1> QED
  BY <1>1, <1>2, SkipStep DEF StartTraceFails

\* A collector that is started adds its closer to the open profile.
LEMMA StartCollectorStep ==
  ASSUME ProfileInv, NEW c \in Callers, StartCollector(c), UNCHANGED callless
  PROVE  ProfileInv'
<1> DEFINE n == ppc[c].step
           k == Kinds[n]
           r == profiles[Current]
           rr == [r EXCEPT !.closers = Append(r.closers, k),
                           !.old = IF k = "mem" THEN rate ELSE r.old]
<1>1. /\ ppc[c].at = "start" /\ n <= 6 /\ Busy(c) /\ ppc' = NextStep(c)
      /\ UNCHANGED <<started, shared, stopper, failures>>
  BY KindsAre DEF StartCollector, Busy
<1>2. /\ started /\ ppc[c].profile = Current /\ Current \in 1..Current /\ Current \in Nat
      /\ DOMAIN profiles = 1..Current /\ r \in ProfileSet
      /\ \A d \in Callers : Busy(d) => d = c
  BY <1>1, AtWork
<1>3. /\ n \in 1..6
      /\ \A i \in DOMAIN r.closers : \E j \in 1..(n - 1) : r.closers[i] = Kinds[j]
      /\ Len(r.closers) < n
  BY <1>1, NextStepEffect DEF ProfileInv, StepInv
<1>4. k \in ToSet(Kinds) /\ (k = "mem" <=> n = 3)
  BY <1>3, KindsAre
<1>5. /\ r.closers \in Seq(ToSet(Kinds)) /\ Len(r.closers) \in Nat
      /\ DOMAIN r.closers = 1..Len(r.closers)
  BY <1>2 DEF ProfileSet
<1>6. profiles' = [profiles EXCEPT ![Current] = rr]
  BY <1>2 DEF StartCollector
<1>7. /\ rr \in ProfileSet /\ rr.stopped = r.stopped /\ rr.closed = r.closed
      /\ rr.closers = Append(r.closers, k)
      /\ rr.old = IF k = "mem" THEN rate ELSE r.old
  <2>1. Append(r.closers, k) \in Seq(ToSet(Kinds))
    BY <1>4, <1>5
  <2>2. rate \in {"unset", "initial", "dump"}
    BY DEF ProfileInv, ProfileTypes
  <2> HIDE DEF r, k
  <2> QED
    BY <1>2, <2>1, <2>2 DEF ProfileSet
<1>8. /\ profiles' \in Seq(ProfileSet) /\ Current' = Current /\ DOMAIN profiles' = DOMAIN profiles
      /\ profiles'[Current] = rr
      /\ \A q \in DOMAIN profiles : q # Current => profiles'[q] = profiles[q]
  BY <1>2, <1>6, <1>7, ExceptSeq DEF Current, ProfileInv, ProfileTypes
<1>9. /\ Len(rr.closers) = Len(r.closers) + 1 /\ DOMAIN rr.closers = 1..(Len(r.closers) + 1)
      /\ rr.closers[Len(r.closers) + 1] = k
      /\ \A i \in DOMAIN r.closers : rr.closers[i] = r.closers[i]
  BY <1>4, <1>5, <1>7
<1>10. /\ settings' = IF k \notin Switches \/ (k = "cpu" /\ settings[k] # NoProfile)
                       THEN settings ELSE [settings EXCEPT ![k] = Current]
       /\ k = "trace" => settings[k] = NoProfile
       /\ rate' = IF k = "mem" THEN "dump" ELSE rate
       /\ files' = files \cup {<<Current, k>>}
  BY <1>2 DEF StartCollector, SwitchedOn
<1> HIDE DEF rr, r, n, k
<1>11. ProfileTypes'
  <2>1. ppc' \in [Callers -> StepSet']
    BY <1>1, <1>8, NextStepEffect DEF n
  <2>2. settings' \in [Switches -> {NoProfile, Application} \cup DOMAIN profiles']
    BY <1>2, <1>8, <1>10 DEF ProfileInv, ProfileTypes
  <2>3. rate' \in {"initial", "dump"}
    BY <1>10 DEF ProfileInv, ProfileTypes
  <2>4. files' \subseteq (DOMAIN profiles') \X ToSet(Kinds)
    BY <1>2, <1>4, <1>8, <1>10 DEF ProfileInv, ProfileTypes
  <2> QED
    BY <1>1, <1>8, <2>1, <2>2, <2>3, <2>4 DEF ProfileInv, ProfileTypes, callless
<1>12. BoundInv'
  BY <1>8 DEF ProfileInv, BoundInv, callless, Current
<1>13. /\ \A d \in Callers : ppc'[d].at = ppc[d].at /\ ppc'[d].profile = ppc[d].profile
       /\ \A d \in Callers : (Busy(d))' <=> Busy(d)
       /\ \A d \in Callers : ppc'[d].at # "stop"
       /\ ppc'[c].step = n + 1
  BY <1>1, <1>2, NextStepEffect DEF Busy, n
<1>14. StepInv'
  <2>1. ASSUME NEW p \in DOMAIN profiles PROVE Len(profiles'[p].closers) <= Len(Kinds)
    <3>1. Len(rr.closers) <= 6
      BY <1>3, <1>5, <1>9
    <3> QED
      BY <1>8, <3>1, KindsAre DEF ProfileInv, StepInv
  <2>2. ASSUME NEW i \in DOMAIN rr.closers
        PROVE  \E j \in 1..n : rr.closers[i] = Kinds[j]
    <3>1. CASE i = Len(r.closers) + 1
      BY <1>3, <1>9, <3>1 DEF k
    <3>2. CASE i \in DOMAIN r.closers
      <4>1. PICK j \in 1..(n - 1) : r.closers[i] = Kinds[j]
        BY <1>3, <3>2
      <4>2. j \in 1..n
        BY <1>3
      <4> QED
        BY <1>9, <3>2, <4>1, <4>2
    <3> QED
      BY <1>5, <1>9, <3>1, <3>2
  <2>3. ASSUME NEW d \in Callers, ppc'[d].at = "start"
        PROVE  /\ ppc'[d].step > 0
               /\ \A i \in DOMAIN rr.closers :
                     \E j \in 1..(ppc'[d].step - 1) : rr.closers[i] = Kinds[j]
               /\ Len(rr.closers) < ppc'[d].step
    <3>1. d = c
      BY <1>2, <1>13, <2>3 DEF Busy
    <3>2. ppc'[d].step = n + 1 /\ ppc'[d].step - 1 = n
      BY <1>3, <1>13, <3>1
    <3> QED
      BY <1>3, <1>5, <1>9, <2>2, <3>2
  <2> QED
    BY <1>8, <1>13, <2>1, <2>3 DEF StepInv
<1>15. OwnerInv'
  <2>1. \A p \in DOMAIN profiles : (Open(p))' <=> Open(p)
    BY <1>7, <1>8 DEF Open, r
  <2>2. \A p \in DOMAIN profiles : profiles'[p].stopped = profiles[p].stopped
    BY <1>7, <1>8 DEF r
  <2>3. ASSUME NEW d \in Callers, (Busy(d))'
        PROVE  /\ started' /\ ppc'[d].profile = Current'
               /\ profiles'[Current'].stopped <=> ppc'[d].at = "stop"
               /\ ppc'[d].at = "start" => Current' \notin shared' /\ Current' # stopper'
    BY <1>1, <1>2, <1>8, <1>13, <2>2, <2>3 DEF ProfileInv, OwnerInv
  <2>4. \A p \in DOMAIN profiles' : (Open(p))' <=> started' /\ p = Current'
    BY <1>1, <1>8, <2>1 DEF ProfileInv, OwnerInv
  <2>5. \A p \in DOMAIN profiles' : (Open(p))' \/ profiles'[p].stopped
    BY <1>8, <2>1, <2>2 DEF ProfileInv, OwnerInv
  <2>6. stopper' \in DOMAIN profiles' => ~profiles'[stopper'].stopped /\ stopper' \notin shared'
    BY <1>1, <1>8, <2>2 DEF ProfileInv, OwnerInv
  <2> QED
    BY <1>1, <1>2, <1>8, <1>13, <2>3, <2>4, <2>5, <2>6 DEF OwnerInv
<1>a. ASSUME NEW x, ToClose(x) \/ x = k PROVE ToClose(x)'
  <2>1. CASE x = k
    <3> DEFINE i == Len(r.closers) + 1
    <3>1. i \in DOMAIN profiles'[Current'].closers /\ profiles'[Current'].closers[i] = x
      BY <1>5, <1>8, <1>9, <2>1
    <3> HIDE DEF i
    <3> QED
      BY <1>1, <1>2, <1>13, <3>1 DEF ToClose
  <2>2. CASE ToClose(x)
    <3>1. PICK i \in DOMAIN r.closers : r.closers[i] = x
      BY <2>2 DEF ToClose, r
    <3>2. i \in DOMAIN rr.closers /\ rr.closers[i] = x
      BY <1>5, <1>9, <3>1
    <3> QED
      BY <1>1, <1>2, <1>8, <1>13, <3>2 DEF ToClose
  <2> QED
    BY <1>a, <2>1, <2>2
<1>16. UndoInv'
  <2>2. \A x \in Switches : settings'[x] \notin {NoProfile, Application} => ToClose(x)'
    BY <1>10, <1>a DEF ProfileInv, UndoInv, ProfileTypes
  <2>3. rate' # "initial" => ToClose("mem")'
    BY <1>10, <1>a DEF ProfileInv, UndoInv
  <2>4. \A f \in files' : f[2] = "trace" \/ (f[1] = Current /\ ToClose(f[2])')
    BY <1>10, <1>a DEF ProfileInv, UndoInv
  <2>5. ASSUME NEW i \in DOMAIN rr.closers, rr.closers[i] = "mem"
        PROVE  rr.old = "initial"
    <3>1. CASE k = "mem"
      <4>1. \A j \in DOMAIN r.closers : r.closers[j] # "mem"
        BY <1>3, <1>4, <3>1, KindsAre
      <4>2. ~ToClose("mem")
        BY <4>1 DEF ToClose, r
      <4> QED
        BY <1>7, <3>1, <4>2 DEF ProfileInv, UndoInv
    <3>2. CASE k # "mem"
      <4>1. i \in DOMAIN r.closers
        BY <1>5, <1>9, <2>5, <3>2
      <4>2. r.closers[i] = "mem"
        BY <1>9, <2>5, <4>1
      <4> QED
        BY <1>2, <1>7, <3>2, <4>1, <4>2 DEF ProfileInv, UndoInv, r
    <3> QED
      BY <3>1, <3>2
  <2> QED
    BY <1>8, <2>2, <2>3, <2>4, <2>5 DEF UndoInv
<1>17. PresetInv'
  <2>1. \A p \in DOMAIN profiles : \A x : Has(p, x)' <=> Has(p, x) \/ (p = Current /\ x = k)
    <3>1. ASSUME NEW p \in DOMAIN profiles, NEW x, p # Current PROVE Has(p, x)' <=> Has(p, x)
      BY <1>8, <3>1 DEF Has
    <3>2. ASSUME NEW p, NEW x, p = Current PROVE Has(p, x)' <=> Has(p, x) \/ x = k
      <4>1. Has(p, x)' <=> \E i \in DOMAIN rr.closers : rr.closers[i] = x
        BY <1>8, <3>2 DEF Has
      <4>2. Has(p, x) <=> \E i \in DOMAIN r.closers : r.closers[i] = x
        BY <3>2 DEF Has, r
      <4>3. /\ \A i \in DOMAIN rr.closers : i \in DOMAIN r.closers \/ i = Len(r.closers) + 1
            /\ \A i \in DOMAIN r.closers : i \in DOMAIN rr.closers
            /\ Len(r.closers) + 1 \in DOMAIN rr.closers
        BY <1>5, <1>9
      <4> QED
        BY <1>9, <4>1, <4>2, <4>3
    <3> QED
      BY <3>1, <3>2
  <2>2. ASSUME NEW x \in Switches, settings'[x] = Application
        PROVE  settings[x] = Application /\ (x = k => k = "cpu")
    BY <1>2, <1>10, <2>2 DEF Application, NoProfile, ProfileInv, ProfileTypes
  <2>3. ASSUME NEW x \in Switches, settings'[x] = Application,
               NEW p \in DOMAIN profiles', Has(p, x)'
        PROVE  x = "cpu" /\ p = Current' /\ ToClose(x)'
    <3>1. CASE Has(p, x)
      <4>1. x = "cpu" /\ p = Current /\ ToClose(x)
        BY <1>8, <2>2, <2>3, <3>1 DEF ProfileInv, PresetInv
      <4> QED
        BY <1>8, <1>a, <4>1
    <3>2. CASE p = Current /\ x = k
      BY <1>8, <1>a, <2>2, <2>3, <3>2
    <3> QED
      BY <1>8, <2>1, <2>3, <3>1, <3>2
  <2>4. \A x \in Switches : settings'[x] = Application => x \in preset'
    BY <2>2 DEF ProfileInv, PresetInv, callless
  <2>5. ASSUME NEW x \in preset', \A p \in DOMAIN profiles' : ~Has(p, x)'
        PROVE  settings'[x] = Application
    <3>1. x \in preset /\ \A p \in DOMAIN profiles : ~Has(p, x)
      BY <1>8, <2>1, <2>5 DEF callless
    <3>2. settings[x] = Application /\ x # k
      BY <1>2, <1>8, <2>1, <2>5, <3>1 DEF ProfileInv, PresetInv
    <3> QED
      BY <1>10, <3>2 DEF ProfileInv, ProfileTypes
  <2>6. "trace" \in preset' => settings'["trace"] = Application
    <3>1. ASSUME "trace" \in preset PROVE settings["trace"] = Application /\ k # "trace"
      BY <1>10, <3>1 DEF ProfileInv, PresetInv, Application, NoProfile
    <3> QED
      BY <1>10, <3>1 DEF ProfileInv, ProfileTypes, callless
  <2> QED
    BY <2>3, <2>4, <2>5, <2>6 DEF PresetInv
<1> QED
  BY <1>11, <1>12, <1>14, <1>15, <1>16, <1>17 DEF ProfileInv

\* The caller gets the handle of the profile.
LEMMA StartReturnStep ==
  ASSUME ProfileInv, NEW c \in Callers, StartReturn(c), UNCHANGED callless
  PROVE  ProfileInv'
<1>1. /\ ppc[c].at = "start" /\ ppc[c].step > 6 /\ Busy(c) /\ ppc' = [ppc EXCEPT ![c] = Idle]
      /\ UNCHANGED <<started, profiles, settings, rate, files, failures>>
  BY KindsAre DEF StartReturn, Busy
<1>2. /\ started /\ ppc[c].profile = Current /\ Current \in DOMAIN profiles
      /\ DOMAIN profiles = 1..Current /\ Open(Current)
      /\ \A d \in Callers : Busy(d) => d = c
  BY <1>1, AtWork
<1>3. Current' = Current /\ ppc \in [Callers -> StepSet]
  BY <1>1 DEF Current, ProfileInv, ProfileTypes
<1>4. \A d \in Callers : ppc'[d].at = "idle"
  BY <1>1, <1>2, <1>3 DEF Idle, Busy
<1>5. /\ ~profiles[Current].stopped /\ Current \notin shared /\ Current # stopper
  BY <1>1 DEF ProfileInv, OwnerInv
<1>6. \/ stopper' = Current /\ shared' = shared
      \/ stopper' = stopper /\ shared' = shared \cup {Current}
  <2>1. Current # Fake
    BY <1>2 DEF Fake
  <2> QED
    BY <1>2, <2>1 DEF StartReturn, Hand
<1>7. ProfileTypes'
  <2>1. ppc' \in [Callers -> StepSet']
    BY <1>1, <1>3 DEF Idle, StepSet
  <2>2. shared' \subseteq DOMAIN profiles /\ stopper' \in {NoProfile, Fake} \cup DOMAIN profiles
    BY <1>2, <1>6 DEF ProfileInv, ProfileTypes
  <2> QED
    BY <1>1, <2>1, <2>2 DEF ProfileInv, ProfileTypes, callless
<1>8. BoundInv'
  BY <1>1 DEF ProfileInv, BoundInv, callless
<1>9. StepInv'
  BY <1>1, <1>3, <1>4 DEF ProfileInv, StepInv
<1>10. OwnerInv'
  <2>1. \A p : (Open(p))' <=> Open(p)
    BY <1>1 DEF Open
  <2>2. \A d \in Callers : ~(Busy(d))'
    BY <1>4 DEF Busy
  <2>3. stopper' \in DOMAIN profiles => ~profiles[stopper'].stopped /\ stopper' \notin shared'
    BY <1>5, <1>6 DEF ProfileInv, OwnerInv
  <2> QED
    BY <1>1, <1>3, <2>1, <2>2, <2>3 DEF ProfileInv, OwnerInv
<1>11. UndoInv'
  <2>1. ASSUME NEW k, ToClose(k) PROVE ToClose(k)'
    BY <1>1, <1>3, <1>4, <2>1 DEF ToClose
  <2> QED
    BY <1>1, <1>3, <2>1 DEF ProfileInv, UndoInv
<1>12. PresetInv'
  <2>1. ToClose("cpu") => ToClose("cpu")'
    BY <1>1, <1>3, <1>4 DEF ToClose
  <2> QED
    BY <1>1, <1>3, <2>1, PresetFrame DEF ProfileInv, callless
<1> QED
  BY <1>7, <1>8, <1>9, <1>10, <1>11, <1>12 DEF ProfileInv

\* One closer is called: its collector is off, and the rate is as it was before.
LEMMA StopCollectorStep ==
  ASSUME ProfileInv, NEW c \in Callers, StopCollector(c), UNCHANGED callless
  PROVE  ProfileInv'
<1> DEFINE n == ppc[c].step
           r == profiles[Current]
           k == r.closers[n]
<1>1. /\ ppc[c].at = "stop" /\ Busy(c) /\ ppc' = NextStep(c)
      /\ UNCHANGED <<started, profiles, shared, stopper, failures>>
  BY DEF StopCollector, Busy
<1>2. /\ started /\ ppc[c].profile = Current /\ Current \in DOMAIN profiles
      /\ DOMAIN profiles = 1..Current /\ r \in ProfileSet
      /\ \A d \in Callers : Busy(d) => d = c
  BY <1>1, AtWork
<1>3. /\ n \in 1..Len(r.closers) /\ Len(r.closers) <= 6 /\ Len(r.closers) \in Nat
      /\ DOMAIN r.closers = 1..Len(r.closers)
  <2>1. r.closers \in Seq(ToSet(Kinds))
    BY <1>2 DEF ProfileSet
  <2>2. Len(r.closers) <= 6
    BY <1>2, KindsAre DEF ProfileInv, StepInv
  <2>3. n \in 1..(Len(r.closers) + 1)
    BY <1>1 DEF ProfileInv, StepInv
  <2>4. n <= Len(r.closers)
    BY <1>2 DEF StopCollector
  <2> QED
    BY <2>1, <2>2, <2>3, <2>4
<1>4. Current' = Current
  BY <1>1 DEF Current
<1>5. /\ settings' = IF k \in Switches THEN [settings EXCEPT ![k] = NoProfile] ELSE settings
      /\ rate' = IF k = "mem" THEN r.old ELSE rate
      /\ files' = IF k = "trace" THEN files ELSE files \ {<<Current, k>>}
  BY <1>2 DEF StopCollector
<1>6. k = "mem" => r.old = "initial"
  BY <1>2, <1>3 DEF ProfileInv, UndoInv
<1>7. /\ \A d \in Callers : ppc'[d].at = ppc[d].at /\ ppc'[d].profile = ppc[d].profile
      /\ \A d \in Callers : (Busy(d))' <=> Busy(d)
      /\ \A d \in Callers : ppc'[d].at = "stop" => d = c
      /\ ppc'[c].step = n + 1
      /\ ppc' \in [Callers -> StepSet']
  BY <1>1, <1>2, <1>3, NextStepEffect DEF Busy
<1> HIDE DEF n, k
<1>8. ProfileTypes'
  <2>1. settings' \in [Switches -> {NoProfile, Application} \cup DOMAIN profiles]
    BY <1>5 DEF ProfileInv, ProfileTypes
  <2>2. rate' \in {"initial", "dump"}
    BY <1>5, <1>6 DEF ProfileInv, ProfileTypes
  <2>3. files' \subseteq (DOMAIN profiles) \X ToSet(Kinds)
    BY <1>5 DEF ProfileInv, ProfileTypes
  <2> QED
    BY <1>1, <1>7, <2>1, <2>2, <2>3 DEF ProfileInv, ProfileTypes, callless
<1>9. BoundInv'
  BY <1>1 DEF ProfileInv, BoundInv, callless
<1>10. StepInv'
  <2>1. \A d \in Callers : ppc'[d].at # "start"
    BY <1>1, <1>2, <1>7 DEF Busy
  <2>2. ppc'[c].step \in 1..(Len(r.closers) + 1)
    BY <1>3, <1>7
  <2>3. \A d \in Callers : ppc'[d].at = "stop" => ppc'[d].step \in 1..(Len(profiles'[Current'].closers) + 1)
    BY <1>1, <1>4, <1>7, <2>2
  <2> QED
    BY <1>1, <2>1, <2>3 DEF ProfileInv, StepInv
<1>11. OwnerInv'
  <2>1. \A p : (Open(p))' <=> Open(p)
    BY <1>1 DEF Open
  <2> QED
    BY <1>1, <1>2, <1>4, <1>7, <2>1 DEF ProfileInv, OwnerInv
<1>a. ASSUME NEW x, ToClose(x), x # k PROVE ToClose(x)'
  <2>1. PICK i \in DOMAIN r.closers : r.closers[i] = x /\ i >= n
    BY <1>1, <1>a DEF ToClose, n
  <2>2. i >= n + 1
    BY <1>3, <1>a, <2>1 DEF k
  <2> QED
    BY <1>1, <1>2, <1>4, <1>7, <2>1, <2>2 DEF ToClose
<1>12. UndoInv'
  <2>2. \A x \in Switches : settings'[x] \notin {NoProfile, Application} => ToClose(x)'
    BY <1>5, <1>a DEF ProfileInv, UndoInv, ProfileTypes
  <2>3. rate' # "initial" => ToClose("mem")'
    BY <1>5, <1>6, <1>a DEF ProfileInv, UndoInv
  <2>4. ASSUME NEW f \in files', f[2] # "trace" PROVE f[1] = Current /\ ToClose(f[2])'
    <3>1. f \in files /\ f[1] = Current /\ ToClose(f[2])
      BY <1>5, <2>4 DEF ProfileInv, UndoInv
    <3>2. f[2] # k
      BY <1>5, <2>4, <3>1 DEF ProfileInv, ProfileTypes
    <3> QED
      BY <1>a, <3>1, <3>2
  <2> QED
    BY <1>1, <1>4, <2>2, <2>3, <2>4 DEF ProfileInv, UndoInv
<1>13. PresetInv'
  <2>1. /\ \A p \in DOMAIN profiles : \A x : Has(p, x)' <=> Has(p, x)
        /\ Has(Current, k)
    BY <1>1, <1>3 DEF Has, k
  <2>2. \A x \in Switches : settings'[x] = Application => settings[x] = Application /\ x # k
    BY <1>5 DEF Application, NoProfile, ProfileInv, ProfileTypes
  <2>3. ASSUME NEW x \in Switches, settings'[x] = Application,
               NEW p \in DOMAIN profiles', Has(p, x)'
        PROVE  x = "cpu" /\ p = Current' /\ ToClose(x)'
    <3>1. x = "cpu" /\ p = Current /\ ToClose(x) /\ x # k
      BY <1>1, <2>1, <2>2, <2>3 DEF ProfileInv, PresetInv
    <3> QED
      BY <1>4, <1>a, <3>1
  <2>4. \A x \in Switches : settings'[x] = Application => x \in preset'
    BY <2>2 DEF ProfileInv, PresetInv, callless
  <2>5. ASSUME NEW x \in preset', \A p \in DOMAIN profiles' : ~Has(p, x)'
        PROVE  settings'[x] = Application
    <3>1. settings[x] = Application /\ x # k
      BY <1>1, <1>2, <2>1, <2>5 DEF ProfileInv, PresetInv, callless
    <3> QED
      BY <1>5, <3>1 DEF ProfileInv, ProfileTypes
  <2>6. "trace" \in preset' => settings'["trace"] = Application
    <3>1. ASSUME "trace" \in preset PROVE settings["trace"] = Application /\ k # "trace"
      <4>1. settings["trace"] = Application /\ "trace" \in Switches /\ "trace" # "cpu"
        BY <3>1 DEF ProfileInv, PresetInv, Switches
      <4> QED
        BY <1>2, <2>1, <4>1 DEF ProfileInv, PresetInv
    <3> QED
      BY <1>5, <3>1 DEF ProfileInv, ProfileTypes, callless
  <2> QED
    BY <2>3, <2>4, <2>5, <2>6 DEF PresetInv
<1> QED
  BY <1>8, <1>9, <1>10, <1>11, <1>12, <1>13 DEF ProfileInv

\* Every closer was called: nothing is left to be undone when the flag is cleared.
LEMMA StopStoreStep ==
  ASSUME ProfileInv, NEW c \in Callers, StopStore(c), UNCHANGED callless
  PROVE  ProfileInv'
<1> DEFINE n == ppc[c].step
           r == profiles[Current]
           rr == [r EXCEPT !.closed = TRUE]
<1>1. /\ ppc[c].at = "stop" /\ Busy(c) /\ ppc' = [ppc EXCEPT ![c] = Idle] /\ ~started'
      /\ UNCHANGED <<settings, rate, files, shared, stopper, failures>>
  BY DEF StopStore, Busy
<1>2. /\ started /\ ppc[c].profile = Current /\ Current \in 1..Current /\ Current \in Nat
      /\ DOMAIN profiles = 1..Current /\ r \in ProfileSet
      /\ \A d \in Callers : Busy(d) => d = c
  BY <1>1, AtWork
<1>3. /\ Len(r.closers) < n /\ Len(r.closers) \in Nat /\ DOMAIN r.closers = 1..Len(r.closers)
      /\ n \in Nat
  <2>1. r.closers \in Seq(ToSet(Kinds))
    BY <1>2 DEF ProfileSet
  <2>2. n \in 1..(Len(r.closers) + 1)
    BY <1>1 DEF ProfileInv, StepInv
  <2> QED
    BY <1>2, <2>1, <2>2 DEF StopStore
<1>4. profiles' = [profiles EXCEPT ![Current] = rr]
  BY <1>2 DEF StopStore
<1>5. rr \in ProfileSet /\ rr.stopped = r.stopped /\ rr.closed = TRUE /\ rr.closers = r.closers
  BY <1>2 DEF ProfileSet
<1>6. /\ profiles' \in Seq(ProfileSet) /\ Current' = Current /\ DOMAIN profiles' = DOMAIN profiles
      /\ profiles'[Current] = rr
      /\ \A q \in DOMAIN profiles : q # Current => profiles'[q] = profiles[q]
  BY <1>2, <1>4, <1>5, ExceptSeq DEF Current, ProfileInv, ProfileTypes
<1> HIDE DEF n, r, rr
<1>7. \A d \in Callers : ppc'[d].at = "idle"
  BY <1>1, <1>2 DEF Idle, Busy, ProfileInv, ProfileTypes
<1>8. \A x : ~ToClose(x)
  BY <1>1, <1>3 DEF ToClose, n, r
<1>9. ProfileTypes'
  <2>1. ppc' \in [Callers -> StepSet']
    BY <1>1, <1>6 DEF Idle, StepSet, ProfileInv, ProfileTypes
  <2>2. started' \in BOOLEAN
    BY DEF StopStore
  <2> QED
    BY <1>1, <1>6, <2>1, <2>2 DEF ProfileInv, ProfileTypes, callless
<1>10. BoundInv'
  BY <1>6 DEF ProfileInv, BoundInv, callless, Current
<1>11. StepInv'
  <2>1. \A p \in DOMAIN profiles : Len(profiles'[p].closers) = Len(profiles[p].closers)
    BY <1>5, <1>6 DEF r
  <2> QED
    BY <1>6, <1>7, <2>1 DEF ProfileInv, StepInv
<1>12. OwnerInv'
  <2>1. \A p \in DOMAIN profiles : profiles'[p].stopped = profiles[p].stopped
    BY <1>5, <1>6 DEF r
  <2>2. profiles[Current].stopped
    BY <1>1 DEF ProfileInv, OwnerInv
  <2>3. \A p \in DOMAIN profiles' : ~(Open(p))'
    BY <1>2, <1>5, <1>6 DEF Open, ProfileInv, OwnerInv
  <2>4. \A p \in DOMAIN profiles' : profiles'[p].stopped
    BY <1>6, <2>1, <2>2 DEF ProfileInv, OwnerInv
  <2>5. \A d \in Callers : ~(Busy(d))'
    BY <1>7 DEF Busy
  <2>6. stopper' \in DOMAIN profiles' => ~profiles'[stopper'].stopped /\ stopper' \notin shared'
    BY <1>1, <1>6, <2>1 DEF ProfileInv, OwnerInv
  <2> QED
    BY <1>1, <2>3, <2>4, <2>5, <2>6 DEF OwnerInv
<1>13. UndoInv'
  BY <1>1, <1>8 DEF ProfileInv, UndoInv
<1>14. PresetInv'
  <2>1. \A p \in DOMAIN profiles : profiles'[p].closers = profiles[p].closers
    BY <1>5, <1>6 DEF r
  <2> QED
    BY <1>1, <1>6, <1>8, <2>1, PresetFrame DEF ProfileInv, callless
<1> QED
  BY <1>9, <1>10, <1>11, <1>12, <1>13, <1>14 DEF ProfileInv

\* A start that finds the flag set gets a handle that stops nothing; else a new
\* profile is open.  Somebody takes the place of the new one in the bound.
LEMMA StartCallStep ==
  ASSUME ProfileInv, NEW c \in Callers, StartCall(c), ppc[c] = Idle,
         UNCHANGED <<settings, rate, files, failures, sent, ends, handler, process, preset>>,
         signals' \in Seq(Signals), Len(signals') <= 2,
         Len(profiles) + (MaxSignals - sent) + Len(signals') < MaxProfiles,
         c = SignalLoop => stopper = NoProfile
  PROVE  ProfileInv'
<1>0. /\ profiles \in Seq(ProfileSet) /\ Current \in Nat /\ DOMAIN profiles = 1..Current
      /\ ppc \in [Callers -> StepSet] /\ Len(signals') \in Nat /\ sent \in Nat
  BY DEF ProfileInv, ProfileTypes, Current
<1>1. CASE started
  <2>1. /\ UNCHANGED <<started, profiles>> /\ ppc' = ppc
        /\ stopper' = stopper \/ stopper' = Fake
        /\ shared' = shared
    BY <1>0, <1>1 DEF StartCall, Hand
  <2>2. Current' = Current /\ Fake \notin DOMAIN profiles
    BY <1>0, <2>1 DEF Current, Fake
  <2>3. ProfileTypes'
    <3>1. stopper' \in {NoProfile, Fake} \cup DOMAIN profiles
      BY <2>1 DEF ProfileInv, ProfileTypes
    <3> QED
      BY <2>1, <3>1 DEF ProfileInv, ProfileTypes, StepSet
  <2>4. BoundInv'
    BY <1>0, <2>1, ProfileAssumption DEF ProfileInv, BoundInv
  <2>5. StepInv'
    BY <2>1, <2>2 DEF ProfileInv, StepInv
  <2>6. OwnerInv'
    <3>1. \A p : (Open(p))' <=> Open(p)
      BY <2>1 DEF Open
    <3>2. \A d \in Callers : (Busy(d))' <=> Busy(d)
      BY <2>1 DEF Busy
    <3>3. \A d \in Callers : Busy(d) => Current # Fake
      BY <2>2, AtWork
    <3> QED
      BY <2>1, <2>2, <3>1, <3>2, <3>3 DEF ProfileInv, OwnerInv
  <2>7. UndoInv'
    <3>1. ASSUME NEW k, ToClose(k) PROVE ToClose(k)'
      BY <2>1, <2>2, <3>1 DEF ToClose
    <3> QED
      BY <2>1, <2>2, <3>1 DEF ProfileInv, UndoInv
  <2>8. PresetInv'
    <3>1. ToClose("cpu") => ToClose("cpu")'
      BY <2>1, <2>2 DEF ToClose
    <3> QED
      BY <2>1, <2>2, <3>1, PresetFrame DEF ProfileInv
  <2> QED
    BY <2>3, <2>4, <2>5, <2>6, <2>7, <2>8 DEF ProfileInv
<1>2. CASE ~started
  <2> DEFINE rr == [closers |-> <<>>, stopped |-> FALSE, old |-> "unset", closed |-> FALSE]
             m == [at |-> "start", step |-> 1, profile |-> Current + 1]
  <2>1. /\ started' = TRUE /\ profiles' = Append(profiles, rr)
        /\ ppc' = [ppc EXCEPT ![c] = m] /\ UNCHANGED <<shared, stopper>>
    BY <1>2 DEF StartCall, Current
  <2>2. rr \in ProfileSet /\ rr.closers = <<>> /\ ~rr.stopped /\ ~rr.closed
    BY DEF ProfileSet
  <2>3. m.at = "start" /\ m.step = 1 /\ m.profile = Current + 1
    OBVIOUS
  <2> HIDE DEF rr, m
  <2>4. /\ profiles' \in Seq(ProfileSet) /\ Current' = Current + 1
        /\ DOMAIN profiles' = 1..(Current + 1) /\ profiles'[Current + 1] = rr
        /\ \A p \in DOMAIN profiles : profiles'[p] = profiles[p]
    BY <1>0, <2>1, <2>2 DEF Current
  <2>5. /\ \A d \in Callers : ~Busy(d)
        /\ \A p \in DOMAIN profiles : ~Open(p) /\ profiles[p].stopped
        /\ \A k : ~ToClose(k)
    BY <1>2 DEF ProfileInv, OwnerInv, ToClose
  <2>6. /\ ppc'[c] = m
        /\ \A d \in Callers : (Busy(d))' <=> d = c
        /\ \A d \in Callers : ppc'[d].at # "stop" /\ (ppc'[d].at = "start" => d = c)
    BY <1>0, <2>1, <2>3, <2>5 DEF Busy
  <2>7. shared' = shared /\ stopper' = stopper /\ Current + 1 \notin shared /\ Current + 1 # stopper
    BY <1>0, <2>1 DEF ProfileInv, ProfileTypes, NoProfile, Fake
  <2>8. ProfileTypes'
    <3>1. \A d \in Callers : ppc'[d] \in StepSet'
      <4>1. m \in StepSet'
        BY <1>0, <2>4 DEF m, StepSet
      <4>2. \A x \in StepSet : x \in StepSet'
        BY <1>0, <2>4 DEF StepSet
      <4> QED
        BY <1>0, <2>1, <4>1, <4>2
    <3>2. ppc' \in [Callers -> StepSet']
      BY <1>0, <2>1, <3>1
    <3>3. DOMAIN profiles \subseteq DOMAIN profiles'
      BY <1>0, <2>4
    <3>4. settings' \in [Switches -> {NoProfile, Application} \cup DOMAIN profiles']
          /\ preset' \in Presets
      BY <3>3 DEF ProfileInv, ProfileTypes
    <3>5. /\ files' \subseteq (DOMAIN profiles') \X ToSet(Kinds) /\ shared' \subseteq DOMAIN profiles'
          /\ stopper' \in {NoProfile, Fake} \cup DOMAIN profiles'
      BY <2>7, <3>3 DEF ProfileInv, ProfileTypes
    <3>6. /\ started' \in BOOLEAN /\ rate' \in {"initial", "dump"}
          /\ sent' \in 0..MaxSignals /\ ends' \in 0..2 /\ handler' \in 0..2
          /\ failures' \in 0..MaxFailures /\ process' \in {"runs", "exited", "panicked"}
      BY <2>1 DEF ProfileInv, ProfileTypes
    <3> QED
      BY <2>4, <3>2, <3>4, <3>5, <3>6, Zenon DEF ProfileTypes
  <2>9. BoundInv'
    <3>1. Len(profiles') = Current + 1 /\ process' = process /\ ends' = ends /\ sent' = sent
      BY <2>4 DEF Current, StartCall
    <3> QED
      BY <1>0, <3>1, ProfileAssumption DEF ProfileInv, BoundInv, Current
  <2>10. StepInv'
    <3>1. Len(rr.closers) = 0 /\ DOMAIN rr.closers = {}
      BY <2>2
    <3>2. ASSUME NEW p \in DOMAIN profiles'
          PROVE  Len(profiles'[p].closers) <= Len(Kinds)
      <4>1. CASE p = Current + 1
        <5>1. Len(profiles'[p].closers) = 0
          BY <2>4, <3>1, <4>1, Zenon
        <5> QED BY <5>1, KindsAre
      <4>2. CASE p # Current + 1
        <5>1. p \in DOMAIN profiles
          BY <1>0, <2>4, <4>2 DEF Current
        <5>2. profiles'[p] = profiles[p] /\ Len(profiles[p].closers) <= Len(Kinds)
          BY <2>4, <5>1, Zenon DEF ProfileInv, StepInv
        <5> QED BY <5>2
      <4> QED BY <4>1, <4>2
    <3> QED
      BY <2>3, <2>4, <2>6, <3>1, <3>2 DEF StepInv
  <2>11. OwnerInv'
    <3>1. \A p \in DOMAIN profiles' : (Open(p))' <=> p = Current + 1
      BY <1>0, <2>2, <2>4, <2>5 DEF Open
    <3>2. \A p \in DOMAIN profiles' : (Open(p))' \/ profiles'[p].stopped
      BY <1>0, <2>4, <2>5, <3>1
    <3>3. ASSUME NEW d \in Callers, (Busy(d))'
          PROVE  /\ ppc'[d].profile = Current' /\ ppc'[d].at = "start"
                 /\ ~profiles'[Current'].stopped
                 /\ Current' \notin shared' /\ Current' # stopper'
      BY <2>2, <2>3, <2>4, <2>6, <2>7, <3>3
    <3>4. stopper' \notin DOMAIN profiles'
      BY <1>0, <2>4, <2>5, <2>7 DEF ProfileInv, OwnerInv
    <3> QED
      BY <1>0, <2>1, <2>4, <2>6, <3>1, <3>2, <3>3, <3>4 DEF OwnerInv
  <2>12. UndoInv'
    <3>1. DOMAIN rr.closers = {}
      BY <2>2
    <3>2. ASSUME NEW f \in files PROVE f[2] = "trace"
      BY <2>5 DEF ProfileInv, UndoInv
    <3> QED
      BY <2>4, <2>5, <3>1, <3>2 DEF ProfileInv, UndoInv
  <2>13. PresetInv'
    <3>1. ASSUME NEW p, p = Current + 1, NEW k PROVE ~Has(p, k)'
      <4>1. profiles'[p] = rr /\ DOMAIN rr.closers = {}
        BY <2>2, <2>4, <3>1
      <4> QED
        BY <4>1 DEF Has
    <3>2. \A p \in DOMAIN profiles : \A k : Has(p, k)' <=> Has(p, k)
      BY <2>4 DEF Has
    <3>3. ASSUME NEW k \in Switches, settings'[k] = Application
          PROVE  k \in preset' /\ \A p \in DOMAIN profiles' : ~Has(p, k)'
      BY <1>0, <2>4, <2>5, <3>1, <3>2, <3>3 DEF ProfileInv, PresetInv
    <3>4. ASSUME NEW k \in preset', \A p \in DOMAIN profiles' : ~Has(p, k)'
          PROVE  settings'[k] = Application
      BY <1>0, <2>4, <3>2, <3>4 DEF ProfileInv, PresetInv
    <3>5. "trace" \in preset' => settings'["trace"] = Application
      BY DEF ProfileInv, PresetInv
    <3> QED
      BY <3>3, <3>4, <3>5 DEF PresetInv
  <2> QED
    BY <2>8, <2>9, <2>10, <2>11, <2>12, <2>13 DEF ProfileInv
<1> QED
  BY <1>1, <1>2 DEF ProfileInv, ProfileTypes

\* The first Stop of a profile.  Who holds the stopper gives it up.
LEMMA StopCallStep ==
  ASSUME ProfileInv, NEW c \in Callers, NEW p, StopCall(c, p), ppc[c] = Idle,
         \/ p \in shared /\ stopper' = stopper
         \/ p = stopper /\ stopper # NoProfile /\ stopper' = NoProfile,
         UNCHANGED <<started, settings, rate, files, shared, failures, sent, ends, handler, process,
                     preset>>,
         signals' \in Seq(Signals), Len(signals') <= Len(signals)
  PROVE  ProfileInv'
<1>0. /\ profiles \in Seq(ProfileSet) /\ Current \in Nat /\ DOMAIN profiles = 1..Current
      /\ ppc \in [Callers -> StepSet] /\ Len(signals') \in Nat /\ sent \in Nat
      /\ Len(signals) \in Nat /\ Len(signals') <= 2 /\ Len(profiles) = Current
      /\ Fake \notin DOMAIN profiles /\ NoProfile \notin DOMAIN profiles
      /\ shared \subseteq DOMAIN profiles
      /\ \A q \in DOMAIN profiles : profiles[q] \in ProfileSet
  BY DEF ProfileInv, ProfileTypes, Current, Fake, NoProfile
<1>1. CASE p = Fake \/ profiles[p].stopped
  <2>1. UNCHANGED <<profiles, ppc>>
    BY <1>1 DEF StopCall
  <2>2. Current' = Current
    BY <2>1 DEF Current
  <2>3. ProfileTypes'
    <3>1. stopper' \in {NoProfile, Fake} \cup DOMAIN profiles
      BY DEF ProfileInv, ProfileTypes
    <3> QED
      BY <1>0, <2>1, <3>1 DEF ProfileInv, ProfileTypes, StepSet
  <2>4. BoundInv'
    BY <1>0, <2>1, ProfileAssumption DEF ProfileInv, BoundInv
  <2>5. StepInv'
    BY <2>1, <2>2 DEF ProfileInv, StepInv
  <2>6. OwnerInv'
    <3>1. \A q : (Open(q))' <=> Open(q)
      BY <2>1 DEF Open
    <3>2. \A d \in Callers : (Busy(d))' <=> Busy(d)
      BY <2>1 DEF Busy
    <3>3. \A d \in Callers : Busy(d) => Current # NoProfile
      BY <1>0, AtWork
    <3> QED
      BY <1>0, <2>1, <2>2, <3>1, <3>2, <3>3 DEF ProfileInv, OwnerInv
  <2>7. UndoInv'
    <3>1. ASSUME NEW k, ToClose(k) PROVE ToClose(k)'
      BY <2>1, <2>2, <3>1 DEF ToClose
    <3> QED
      BY <2>1, <2>2, <3>1 DEF ProfileInv, UndoInv
  <2>8. PresetInv'
    <3>1. ToClose("cpu") => ToClose("cpu")'
      BY <2>1, <2>2 DEF ToClose
    <3> QED
      BY <2>1, <2>2, <3>1, PresetFrame DEF ProfileInv
  <2> QED
    BY <2>3, <2>4, <2>5, <2>6, <2>7, <2>8 DEF ProfileInv
<1>2. CASE ~(p = Fake \/ profiles[p].stopped)
  <2> DEFINE r == profiles[Current]
             rr == [r EXCEPT !.stopped = TRUE]
             m == [at |-> "stop", profile |-> p, step |-> 1]
  <2>1. p \in DOMAIN profiles
    BY <1>0, <1>2 DEF ProfileInv, ProfileTypes
  <2>2. started /\ p = Current /\ Open(p) /\ ~r.stopped
    BY <1>2, <2>1 DEF ProfileInv, OwnerInv
  <2>3. \A d \in Callers : ~Busy(d)
    <3>1. ASSUME NEW d \in Callers, Busy(d) PROVE FALSE
      <4>1. ppc[d].at = "start"
        <5>1. ppc[d].at \in {"idle", "start", "stop"}
          BY <1>0 DEF StepSet
        <5>2. ppc[d].at # "stop"
          BY <2>2, <3>1 DEF ProfileInv, OwnerInv
        <5> QED
          BY <3>1, <5>1, <5>2 DEF Busy
      <4> QED
        BY <2>2, <3>1, <4>1 DEF ProfileInv, OwnerInv
    <3> QED
      BY <3>1
  <2>4. profiles' = [profiles EXCEPT ![Current] = rr] /\ ppc' = [ppc EXCEPT ![c] = m]
    BY <1>2, <2>2 DEF StopCall
  <2>5. rr \in ProfileSet /\ rr.stopped = TRUE /\ rr.closed = r.closed /\ rr.closers = r.closers /\ rr.old = r.old
    BY <1>0, <2>1, <2>2 DEF ProfileSet
  <2>6. m.at = "stop" /\ m.step = 1 /\ m.profile = Current
    BY <2>2
  <2>7. /\ profiles' \in Seq(ProfileSet) /\ Current' = Current /\ DOMAIN profiles' = DOMAIN profiles
        /\ profiles'[Current] = rr
        /\ \A q \in DOMAIN profiles : q # Current => profiles'[q] = profiles[q]
    BY <1>0, <2>1, <2>2, <2>4, <2>5, ExceptSeq DEF Current
  <2>8. r.closers \in Seq(ToSet(Kinds)) /\ Len(r.closers) \in Nat /\ DOMAIN r.closers = 1..Len(r.closers)
    BY <1>0, <2>1, <2>2 DEF ProfileSet
  <2>81. m \in StepSet
    BY <2>1 DEF StepSet
  <2> HIDE DEF r, rr, m
  <2>9. /\ ppc'[c] = m
        /\ \A d \in Callers : (Busy(d))' <=> d = c
        /\ \A d \in Callers : ppc'[d].at # "start" /\ (ppc'[d].at = "stop" => d = c)
    BY <1>0, <2>3, <2>4, <2>6 DEF Busy
  <2>10. ProfileTypes'
    <3>1. ppc' \in [Callers -> StepSet]
      BY <1>0, <2>4, <2>81
    <3>2. StepSet' = StepSet
      BY <2>7 DEF StepSet
    <3>3. stopper' \in {NoProfile, Fake} \cup DOMAIN profiles
      BY DEF ProfileInv, ProfileTypes
    <3> QED
      BY <1>0, <2>7, <3>1, <3>2, <3>3 DEF ProfileInv, ProfileTypes
  <2>11. BoundInv'
    BY <1>0, <2>7, ProfileAssumption DEF ProfileInv, BoundInv, Current
  <2>12. StepInv'
    <3>1. \A q \in DOMAIN profiles : profiles'[q].closers = profiles[q].closers
      BY <2>5, <2>7 DEF r
    <3>2. m.step \in 1..(Len(profiles'[Current'].closers) + 1)
      BY <2>5, <2>6, <2>7, <2>8
    <3>3. \A q \in DOMAIN profiles' : Len(profiles'[q].closers) <= Len(Kinds)
      BY <2>7, <3>1 DEF ProfileInv, StepInv
    <3> QED
      BY <2>9, <3>2, <3>3 DEF StepInv
  <2>13. OwnerInv'
    <3>1. \A q \in DOMAIN profiles : (Open(q))' <=> Open(q)
      BY <2>5, <2>7 DEF Open, r
    <3>2. \A q \in DOMAIN profiles' : (Open(q))' \/ profiles'[q].stopped
      <4>1. \A q \in DOMAIN profiles : Open(q) \/ profiles[q].stopped
        BY DEF ProfileInv, OwnerInv
      <4> QED
        BY <2>5, <2>7, <3>1, <4>1
    <3>3. stopper' \in DOMAIN profiles' =>
             ~profiles'[stopper'].stopped /\ stopper' \notin shared'
      BY <1>0, <2>2, <2>7 DEF ProfileInv, OwnerInv
    <3>4. \A d \in Callers : (Busy(d))' =>
             /\ started' /\ ppc'[d].profile = Current'
             /\ profiles'[Current'].stopped /\ ppc'[d].at = "stop"
      BY <2>2, <2>5, <2>6, <2>7, <2>9
    <3>5. \A q \in DOMAIN profiles' : (Open(q))' <=> started' /\ q = Current'
      BY <2>7, <3>1 DEF ProfileInv, OwnerInv
    <3> QED
      BY <1>0, <2>1, <2>2, <2>7, <2>9, <3>2, <3>3, <3>4, <3>5 DEF OwnerInv
  <2>a. ASSUME NEW k, ToClose(k) PROVE ToClose(k)'
    <3>1. PICK i \in DOMAIN r.closers : r.closers[i] = k
      BY <2>a DEF ToClose, r
    <3>2. i >= 1 /\ i \in DOMAIN profiles'[Current'].closers /\ profiles'[Current'].closers[i] = k
      BY <2>5, <2>7, <2>8, <3>1
    <3> QED
      BY <2>2, <2>6, <2>9, <3>2 DEF ToClose
  <2>14. UndoInv'
    <3>2. \A i \in DOMAIN rr.closers : rr.closers[i] = "mem" => rr.old = "initial"
      BY <2>2, <2>5 DEF ProfileInv, UndoInv, r
    <3> QED
      BY <2>7, <2>a, <3>2 DEF ProfileInv, UndoInv
  <2>15. PresetInv'
    <3>1. \A q \in DOMAIN profiles : profiles'[q].closers = profiles[q].closers
      BY <2>5, <2>7 DEF r
    <3> QED
      BY <2>7, <2>a, <3>1, PresetFrame DEF ProfileInv
  <2> QED
    BY <2>10, <2>11, <2>12, <2>13, <2>14, <2>15 DEF ProfileInv
<1> QED
  BY <1>1, <1>2

-----------------------------------------------------------------------------
\* The theorem.

LEMMA CallInv ==
  ASSUME ProfileInv, NEW c \in Callers, CallStep(c)
  PROVE  ProfileInv'
<1>1. UNCHANGED callless
  BY DEF CallStep, callless, unsignalled
<1> QED
  BY <1>1, CreateFailsStep, StartTraceFailsStep, StartCollectorStep, StartReturnStep,
     StopCollectorStep, StopStoreStep DEF CallStep

LEMMA AppStartStep ==
  ASSUME ProfileInv, NEW a \in Apps, AppStart(a)
  PROVE  ProfileInv'
<1>1. a \in Callers /\ a # SignalLoop
  BY InCallers, ProfileAssumption
<1>2. /\ StartCall(a) /\ ppc[a] = Idle /\ signals' = signals
      /\ UNCHANGED <<settings, rate, files, failures, sent, ends, handler, process, preset>>
      /\ Len(profiles) + (MaxSignals - sent) + Len(signals') < MaxProfiles
  BY DEF AppStart, Room, unsignalled
<1>3. signals' \in Seq(Signals) /\ Len(signals') <= 2
  BY <1>2 DEF ProfileInv, ProfileTypes
<1> QED
  BY <1>1, <1>2, <1>3, StartCallStep

LEMMA AppStopStep ==
  ASSUME ProfileInv, NEW a \in Apps, AppStop(a)
  PROVE  ProfileInv'
<1>1. a \in Callers
  BY InCallers
<1>2. PICK p \in shared : StopCall(a, p)
  BY DEF AppStop
<1>3. /\ ppc[a] = Idle /\ signals' = signals /\ stopper' = stopper
      /\ UNCHANGED <<started, settings, rate, files, shared, failures, sent, ends, handler, process,
                     preset>>
  BY DEF AppStop, unsignalled
<1>4. signals' \in Seq(Signals) /\ Len(signals') <= Len(signals)
  BY <1>3 DEF ProfileInv, ProfileTypes
<1> QED
  BY <1>1, <1>2, <1>3, <1>4, StopCallStep

LEMMA ToggleStep ==
  ASSUME ProfileInv, Toggle
  PROVE  ProfileInv'
<1>1. /\ Receive("usr1")
      /\ UNCHANGED <<settings, rate, files, failures, ends, process>>
  BY DEF Toggle
<1>2. /\ signals' \in Seq(Signals) /\ Len(signals') = Len(signals) - 1
      /\ Len(signals) \in Nat /\ Len(signals) <= 2
      /\ sent' = sent /\ handler' = handler /\ preset' = preset
      /\ process = "runs" /\ ends \in 0..1
      /\ ppc[SignalLoop] = Idle
  BY <1>1, ReceiveEffect
<1>3. CASE stopper = NoProfile /\ StartCall(SignalLoop)
  <2>1. /\ Len(profiles) \in Nat /\ sent \in 0..MaxSignals
        /\ Len(profiles) + (MaxSignals - sent) + Len(signals) <= MaxProfiles
    BY DEF ProfileInv, ProfileTypes, BoundInv
  <2>2. Len(profiles) + (MaxSignals - sent) + Len(signals') < MaxProfiles
    BY <1>2, <2>1, ProfileAssumption
  <2> QED
    BY <1>1, <1>2, <1>3, <2>2, InCallers, StartCallStep
<1>4. CASE /\ stopper # NoProfile
           /\ StopCall(SignalLoop, stopper)
           /\ stopper' = NoProfile
           /\ UNCHANGED <<started, shared>>
  BY <1>1, <1>2, <1>4, InCallers, StopCallStep
<1> QED
  BY <1>3, <1>4 DEF Toggle

LEMMA ProfileInvStep == ProfileInv /\ [ProfileNext]_pvars => ProfileInv'
<1> SUFFICES ASSUME ProfileInv, [ProfileNext]_pvars
             PROVE  ProfileInv'
  OBVIOUS
<1>1. CASE UNCHANGED pvars
  BY <1>1, SignalFrame DEF pvars, uncalled, ProfileInv, ProfileTypes, BoundInv
<1>2. CASE Setup
  BY <1>2, SetupStep
<1>3. ASSUME NEW s \in Signals, Notify(s) PROVE ProfileInv'
  BY <1>3, NotifyStep
<1>4. CASE SignalStep
  BY <1>4, InCallers, TerminateStep, ToggleStep, DumpStep, CallInv DEF SignalStep
<1>5. ASSUME NEW a \in Apps, AppStart(a) \/ AppStop(a) \/ CallStep(a) PROVE ProfileInv'
  BY <1>5, InCallers, AppStartStep, AppStopStep, CallInv
<1> QED
  BY <1>1, <1>2, <1>3, <1>4, <1>5 DEF ProfileNext

LEMMA InvKeeps == ProfileInv => ProfilesKeep
<1> SUFFICES ASSUME ProfileInv
             PROVE  ProfilesKeep
  OBVIOUS
<1>1. ProfileTypeOK
  <2>1. Len(profiles) <= MaxProfiles
    <3>1. Len(profiles) \in Nat /\ Len(signals) \in Nat /\ sent \in 0..MaxSignals
      BY DEF ProfileInv, ProfileTypes
    <3> QED
      BY <3>1, ProfileAssumption DEF ProfileInv, BoundInv
  <2>2. signals \in BoundedSeq(Signals, 2)
    <3>1. signals \in Seq(Signals) /\ Len(signals) <= 2
      BY DEF ProfileInv, ProfileTypes
    <3> QED
      BY <3>1, BoundedSeqHas
  <2>3. ppc \in [Callers -> [at : {"idle", "start", "stop"},
                             profile : {NoProfile} \cup DOMAIN profiles, step : 0..7]]
    BY DEF ProfileInv, ProfileTypes, StepSet
  <2>4. \A p \in DOMAIN profiles :
          profiles[p] \in [closers : Seq(ToSet(Kinds)), stopped : BOOLEAN,
                           old : {"unset", "initial", "dump"}, closed : BOOLEAN]
    <3>1. profiles \in Seq(ProfileSet)
      BY DEF ProfileInv, ProfileTypes
    <3>2. \A p \in DOMAIN profiles : profiles[p] \in ProfileSet
      BY <3>1
    <3> QED
      BY <3>2 DEF ProfileSet
  <2>5. ProfileTypes
    BY DEF ProfileInv
  <2> QED
    BY <2>1, <2>2, <2>3, <2>4, <2>5, Zenon DEF ProfileTypes, ProfileTypeOK
<1>2. Restored
  <2>1. \A k : ToClose(k) => started
    BY DEF ToClose
  <2>2. ASSUME ~started, NEW k \in Switches
        PROVE  settings[k] = IF k \in preset /\ ~Profiled(k) THEN Application ELSE NoProfile
    <3>1. settings[k] \in {NoProfile, Application}
      BY <2>1, <2>2 DEF ProfileInv, UndoInv
    <3>2. Profiled(k) <=> \E p \in DOMAIN profiles : Has(p, k)
      BY DEF Profiled, Has, ToSet
    <3>3. settings[k] = Application => k \in preset /\ ~Profiled(k)
      BY <2>1, <2>2, <3>2 DEF ProfileInv, PresetInv
    <3>4. k \in preset /\ ~Profiled(k) => settings[k] = Application
      BY <3>2 DEF ProfileInv, PresetInv
    <3> QED
      BY <3>1, <3>3, <3>4
  <2> QED
    BY <2>1, <2>2 DEF Restored, ProfileInv, OwnerInv, UndoInv, PresetInv
<1>3. StopperLive
  BY DEF StopperLive, ProfileInv, OwnerInv
<1> QED
  BY <1>1, <1>2, <1>3 DEF ProfilesKeep

\* Profiles do not overlap, between them a collector is on only if the application
\* switched it on and no profile has had it since, a trace of the application goes
\* on, and the profile that the signal loop holds is running, for any number of
\* goroutines, signals and failures (profile.go:56-62, 76-83, 95-102, 116-124,
\* 158-168).
THEOREM ProfilesCorrect == ProfileSpec => []ProfilesKeep
<1>1. ProfileInit => ProfileInv
  BY ProfileInvInit
<1>2. ProfileInv /\ [ProfileNext]_pvars => ProfileInv'
  BY ProfileInvStep
<1>3. ProfileInv => ProfilesKeep
  BY InvKeeps
<1> QED
  BY <1>1, <1>2, <1>3, PTL DEF ProfileSpec

-----------------------------------------------------------------------------
(* Streams: induction and recursion over places of a sequence              *)

LessThan == {ss \in Nat \X Nat : ss[1] < ss[2]}

LEMMA LessThanWellFounded == IsWellFoundedOn(LessThan, Nat)
BY NatLessThanWellFounded DEF OpToRel, LessThan

\* Induction up to n, with a set in the place of a predicate.
LEMMA Upto ==
  ASSUME NEW n \in Nat, NEW S, 0 \in S, \A k \in 1..n : k - 1 \in S => k \in S
  PROVE  0..n \subseteq S
<1> DEFINE T == (0..n) \ S
<1> SUFFICES ASSUME T # {} PROVE FALSE
  OBVIOUS
<1>1. PICK x \in T : \A y \in T : ~ (<<y, x>> \in LessThan)
  <2> HIDE DEF T
  <2>1. T \subseteq Nat
    BY DEF T
  <2> QED BY <2>1, LessThanWellFounded, WFMin
<1>2. x \in 1..n /\ x - 1 \in Nat /\ x - 1 \in 0..n
  OBVIOUS
<1>3. x - 1 \in T /\ x \in Nat /\ x - 1 < x
  BY <1>2
<1>4. <<x - 1, x>> \in LessThan
  BY <1>2, <1>3 DEF LessThan
<1> QED BY <1>1, <1>3, <1>4

LEMMA LoopIn ==
  ASSUME NEW X, NEW n \in Nat, NEW f, f[0] \in X, \A k \in 1..n : f[k - 1] \in X => f[k] \in X
  PROVE  \A k \in 0..n : f[k] \in X
<1> DEFINE S == {k \in 0..n : f[k] \in X}
<1>1. 0 \in S /\ \A k \in 1..n : k - 1 \in S => k \in S
  OBVIOUS
<1>2. 0..n \subseteq S
  <2> HIDE DEF S
  <2> QED BY <1>1, Upto
<1> QED BY <1>2

LoopOf(f, X, base, n, G) ==
    /\ f \in [0..n -> X] /\ f[0] = base
    /\ \A k \in 1..n : f[k] = G[k][f[k - 1]]

\* A loop of n turns in the values of X has the values that its turns give.
LEMMA Recursion ==
  ASSUME NEW X, NEW base \in X, NEW n \in Nat, NEW G \in [1..n -> [X -> X]]
  PROVE  \E f : LoopOf(f, X, base, n, G)
<1> DEFINE Upto_(m) == \E f \in [0..m -> X] :
                          f[0] = base /\ \A k \in 1..m : f[k] = G[k][f[k - 1]]
           S == {m \in 0..n : Upto_(m)}
<1>1. 0 \in S
  <2> DEFINE f == [k \in 0..0 |-> base]
  <2>1. f \in [0..0 -> X] /\ f[0] = base /\ \A k \in 1..0 : f[k] = G[k][f[k - 1]]
    OBVIOUS
  <2>2. Upto_(0)
    BY <2>1
  <2> QED BY <2>2
<1>2. ASSUME NEW m \in 1..n, m - 1 \in S PROVE m \in S
  <2>1. PICK f \in [0..(m - 1) -> X] :
            f[0] = base /\ \A k \in 1..(m - 1) : f[k] = G[k][f[k - 1]]
    BY <1>2
  <2> DEFINE g == [k \in 0..m |-> IF k = m THEN G[m][f[m - 1]] ELSE f[k]]
  <2>2. g \in [0..m -> X]
    <3>1. G[m] \in [X -> X] /\ f[m - 1] \in X
      BY <2>1
    <3> QED BY <2>1, <3>1
  <2>3. g[0] = base
    BY <2>1
  <2>4. ASSUME NEW k \in 1..m PROVE g[k] = G[k][g[k - 1]]
    <3>1. k - 1 \in 0..m /\ k - 1 # m /\ g[k - 1] = f[k - 1]
      OBVIOUS
    <3>2. CASE k = m
      BY <3>1, <3>2
    <3>3. CASE k # m
      <4>1. k \in 1..(m - 1) /\ g[k] = f[k]
        BY <3>3
      <4> QED BY <4>1, <3>1, <2>1
    <3> QED BY <3>2, <3>3
  <2>5. Upto_(m)
    BY <2>2, <2>3, <2>4
  <2>6. m \in 0..n
    OBVIOUS
  <2> QED BY ONLY <2>5, <2>6, Zenon
<1>3. 0..n \subseteq S
  <2> HIDE DEF S
  <2> QED BY <1>1, <1>2, Upto
<1>4. Upto_(n)
  BY <1>3
<1> QED BY <1>4 DEF LoopOf

LEMMA FirstPart ==
  ASSUME NEW X, NEW s \in Seq(X), NEW m \in 0..Len(s)
  PROVE  /\ SubSeq(s, 1, m) \in Seq(X) /\ Len(SubSeq(s, 1, m)) = m
         /\ \A i \in 1..m : SubSeq(s, 1, m)[i] = s[i]
OBVIOUS

\* The first m elements of a sequence.
LEMMA FirstOnes ==
  ASSUME NEW X, NEW s \in Seq(X), NEW m \in 1..Len(s)
  PROVE  /\ SubSeq(s, 1, m - 1) \in Seq(X) /\ Len(SubSeq(s, 1, m - 1)) = m - 1
         /\ s[m] \in X
         /\ SubSeq(s, 1, m) = Append(SubSeq(s, 1, m - 1), s[m])
<1>1. Len(s) \in Nat /\ m \in Int /\ s[m] \in X
  OBVIOUS
<1>2. SubSeq(s, 1, m - 1) \in Seq(X) /\ Len(SubSeq(s, 1, m - 1)) = m - 1
  OBVIOUS
<1>3. SubSeq(s, 1, m) \in Seq(X) /\ Len(SubSeq(s, 1, m)) = m
  OBVIOUS
<1>4. Append(SubSeq(s, 1, m - 1), s[m]) \in Seq(X)
      /\ Len(Append(SubSeq(s, 1, m - 1), s[m])) = m
  BY <1>2, <1>1, AppendProperties
<1>5. \A i \in 1..m : SubSeq(s, 1, m)[i] = Append(SubSeq(s, 1, m - 1), s[m])[i]
  <2> TAKE i \in 1..m
  <2>1. CASE i = m
    BY <2>1, <1>2
  <2>2. CASE i # m
    <3>1. i \in 1..(m - 1)
      BY <2>2
    <3> QED BY <3>1, <1>2
  <2> QED BY <2>1, <2>2
<1> QED BY <1>1, <1>2, <1>3, <1>4, <1>5, SeqEqual

-----------------------------------------------------------------------------
(* Streams: what the stages of the reference give                          *)

Selections(s, keep) ==
    LET out[k \in 0..Len(s)] ==
            IF k = 0 THEN <<>> ELSE Picked(out[k - 1], s[k], keep)
    IN  out

LEMMA SelectionsDef ==
  ASSUME NEW X, NEW s \in Seq(X), NEW keep
  PROVE  /\ Selected(s, keep) = Selections(s, keep)[Len(s)]
         /\ Selections(s, keep) \in [0..Len(s) -> Seq(X)]
         /\ Selections(s, keep)[0] = <<>>
         /\ \A k \in 1..Len(s) :
               Selections(s, keep)[k] = Picked(Selections(s, keep)[k - 1], s[k], keep)
<1> DEFINE n == Len(s)
           IsLoop(g) == g = [k \in 0..n |->
                IF k = 0 THEN <<>> ELSE Picked(g[k - 1], s[k], keep)]
           G == [k \in 1..n |-> [x \in Seq(X) |-> Picked(x, s[k], keep)]]
<1>1. n \in Nat /\ <<>> \in Seq(X) /\ \A k \in 1..n : s[k] \in X /\ k - 1 \in 0..n
  OBVIOUS
<1>2. \A k \in 1..n : \A x \in Seq(X) : Picked(x, s[k], keep) \in Seq(X)
  BY <1>1, AppendProperties DEF Picked
<1>a. G \in [1..n -> [Seq(X) -> Seq(X)]]
  BY <1>2
<1>3. PICK h : LoopOf(h, Seq(X), <<>>, n, G)
  <2> HIDE DEF G, n
  <2> QED BY <1>1, <1>a, Recursion
<1> HIDE DEF n
<1>4. h \in [0..n -> Seq(X)] /\ h[0] = <<>>
      /\ \A k \in 1..n : h[k] = Picked(h[k - 1], s[k], keep)
  BY <1>1, <1>3 DEF LoopOf
<1>5. IsLoop(h)
  BY <1>1, <1>4
<1> DEFINE f == Selections(s, keep)
<1>6. IsLoop(f)
  BY <1>5 DEF Selections, n
<1>7. Selected(s, keep) = f[n]
  BY DEF Selected, Selections, n
<1> HIDE DEF f
<1>8. f[0] = <<>> /\ \A k \in 1..n : f[k] = Picked(f[k - 1], s[k], keep)
  BY <1>1, <1>6
<1> DEFINE S == {k \in 0..n : f[k] \in Seq(X)}
<1>9. 0 \in S /\ \A k \in 1..n : k - 1 \in S => k \in S
  <2>1. 0 \in S
    <3>1. 0 \in 0..n
      BY <1>1
    <3>2. f[0] \in Seq(X)
      BY <1>1, <1>8, Zenon
    <3> QED BY <3>1, <3>2
  <2>2. ASSUME NEW k \in 1..n, k - 1 \in S PROVE k \in S
    <3>1. f[k - 1] \in Seq(X) /\ f[k] = Picked(f[k - 1], s[k], keep)
      BY <2>2, <1>8
    <3>2. f[k] \in Seq(X)
      BY <3>1, <1>2
    <3> QED BY <3>2
  <2> QED BY <2>1, <2>2
<1>10. 0..n \subseteq S
  <2> HIDE DEF S
  <2> QED BY <1>1, <1>9, Upto
<1>11. f \in [0..n -> Seq(X)]
  BY <1>6, <1>10
<1> QED BY <1>7, <1>8, <1>11 DEF f, n

LEMMA SelectedType ==
  ASSUME NEW X, NEW s \in Seq(X), NEW keep
  PROVE  Selected(s, keep) \in Seq(X)
<1>1. Len(s) \in 0..Len(s)
  OBVIOUS
<1> QED BY <1>1, SelectionsDef

LEMMA SelectedAppend ==
  ASSUME NEW X, NEW s \in Seq(X), NEW e \in X, NEW keep
  PROVE  Selected(Append(s, e), keep) = Picked(Selected(s, keep), e, keep)
<1> DEFINE n == Len(s)
           t == Append(s, e)
           f == Selections(s, keep)
           g == Selections(t, keep)
<1>1. n \in Nat /\ t \in Seq(X) /\ Len(t) = n + 1 /\ t[n + 1] = e
      /\ \A k \in 1..n : t[k] = s[k] /\ k \in 1..(n + 1)
  OBVIOUS
<1>2. /\ Selected(s, keep) = f[n] /\ f[0] = <<>>
      /\ \A k \in 1..n : f[k] = Picked(f[k - 1], s[k], keep)
  BY SelectionsDef
<1> HIDE DEF t
<1>3. /\ Selected(t, keep) = g[Len(t)] /\ g[0] = <<>>
      /\ \A k \in 1..Len(t) : g[k] = Picked(g[k - 1], t[k], keep)
  BY <1>1, SelectionsDef
<1> HIDE DEF f, g, n
<1> DEFINE S == {k \in 0..n : f[k] = g[k]}
<1>a. 0 \in S
  BY <1>1, <1>2, <1>3
<1>b. ASSUME NEW k \in 1..n, k - 1 \in S PROVE k \in S
  <2>1. k \in 0..n /\ k \in 1..Len(t) /\ t[k] = s[k] /\ f[k - 1] = g[k - 1]
    BY <1>1, <1>b
  <2>2. f[k] = Picked(f[k - 1], s[k], keep) /\ g[k] = Picked(g[k - 1], t[k], keep)
    BY <2>1, <1>2, <1>3
  <2>3. f[k] = g[k]
    BY <2>1, <2>2
  <2> QED BY <2>1, <2>3
<1>4. 0 \in S /\ \A k \in 1..n : k - 1 \in S => k \in S
  BY <1>a, <1>b
<1>5. 0..n \subseteq S
  <2> HIDE DEF S
  <2> QED BY <1>1, <1>4, Upto
<1>6. f[n] = g[n]
  BY <1>1, <1>5
<1>7. g[n + 1] = Picked(g[n], e, keep)
  BY <1>1, <1>3
<1> QED BY <1>1, <1>2, <1>3, <1>6, <1>7 DEF t

\* Sorting: there is an order, found by insertion.
Orders(p, s, n) ==
    /\ p \in [1..n -> 1..n]
    /\ \A i, j \in 1..n : p[i] = p[j] => i = j
    /\ \A i, j \in 1..n : i < j => s[p[i]] <= s[p[j]]

\* The place of e among the first m.
Between_(c, p, s, e, m) ==
    /\ c \in 0..m
    /\ \A i \in 1..c : s[p[i]] <= e
    /\ \A i \in (c + 1)..m : s[p[i]] > e

LEMMA PlaceExists ==
  ASSUME NEW n \in Nat, NEW s, NEW p, Orders(p, s, n), NEW e \in Int,
         \A i \in 1..n : s[i] \in Int
  PROVE  \E c : Between_(c, p, s, e, n)
<1> DEFINE S == {m \in 0..n : \E c : Between_(c, p, s, e, m)}
<1>1. 0 \in S
  <2>1. Between_(0, p, s, e, 0)
    BY DEF Between_
  <2>2. 0 \in 0..n
    OBVIOUS
  <2> QED BY <2>1, <2>2
<1>2. ASSUME NEW m \in 1..n, m - 1 \in S PROVE m \in S
  <2>1. PICK c : Between_(c, p, s, e, m - 1)
    BY <1>2
  <2>2. \A i \in 1..n : s[p[i]] \in Int
    BY DEF Orders
  <2>3. CASE s[p[m]] <= e
    <3>1. \A i \in 1..m : s[p[i]] <= e
      <4> TAKE i \in 1..m
      <4>a. i \in 1..n /\ m \in 1..n /\ (i < m \/ i = m)
        OBVIOUS
      <4>1. s[p[i]] <= s[p[m]]
        BY <4>a, <2>2 DEF Orders
      <4> QED BY <4>1, <2>2, <2>3
    <3>2. Between_(m, p, s, e, m)
      BY <3>1 DEF Between_
    <3> QED BY <3>2
  <2>4. CASE ~(s[p[m]] <= e)
    <3>1. Between_(c, p, s, e, m)
      BY <2>1, <2>2, <2>4 DEF Between_
    <3> QED BY <3>1
  <2> QED BY <2>3, <2>4
<1>3. 0..n \subseteq S
  <2> HIDE DEF S
  <2> QED BY <1>1, <1>2, Upto
<1>4. n \in S
  BY <1>3
<1> QED BY <1>4

LEMMA OrderExists ==
  ASSUME NEW n \in Nat, NEW s, \A i \in 1..n : s[i] \in Int
  PROVE  \E p : Orders(p, s, n)
<1> DEFINE S == {m \in 0..n : \E p : Orders(p, s, m)}
<1>1. 0 \in S
  <2>1. Orders([i \in 1..0 |-> 0], s, 0)
    BY DEF Orders
  <2>2. 0 \in 0..n
    OBVIOUS
  <2> QED BY <2>1, <2>2
<1>2. ASSUME NEW m \in 1..n, m - 1 \in S PROVE m \in S
  <2> DEFINE l == m - 1
             e == s[m]
  <2>1. PICK p : Orders(p, s, l)
    BY <1>2
  <2>2. l \in Nat /\ m = l + 1 /\ e \in Int /\ \A i \in 1..l : s[i] \in Int
    OBVIOUS
  <2> HIDE DEF l, e
  <2>3. PICK c : Between_(c, p, s, e, l)
    BY <2>1, <2>2, PlaceExists
  <2> DEFINE q == [i \in 1..m |-> IF i <= c THEN p[i] ELSE IF i = c + 1 THEN m ELSE p[i - 1]]
  <2>4. c \in 0..l /\ p \in [1..l -> 1..l]
    BY <2>1, <2>3 DEF Orders, Between_
  <2>5. /\ \A i \in 1..c : i \in 1..l /\ q[i] = p[i] /\ q[i] \in 1..l
        /\ c + 1 \in 1..m /\ q[c + 1] = m
        /\ \A i \in (c + 2)..m : i - 1 \in (c + 1)..l /\ i - 1 \in 1..l
                                 /\ q[i] = p[i - 1] /\ q[i] \in 1..l
    BY <2>2, <2>4
  <2>6. \A i \in 1..m : i \in 1..c \/ i = c + 1 \/ i \in (c + 2)..m
    BY <2>2, <2>4
  <2>7. q \in [1..m -> 1..m]
    BY <2>2, <2>4
  <2> HIDE DEF q
  <2>8. ASSUME NEW i \in 1..m, NEW j \in 1..m, q[i] = q[j] PROVE i = j
    <3>1. \A a, b \in 1..l : p[a] = p[b] => a = b
      BY <2>1 DEF Orders
    <3>2. \A a \in 1..l : p[a] # m
      BY <2>2, <2>4
    <3>3. CASE i = c + 1 \/ j = c + 1
      BY <3>2, <3>3, <2>5, <2>6, <2>8
    <3>4. CASE i # c + 1 /\ j # c + 1
      <4>1. CASE i \in 1..c /\ j \in 1..c
        BY <4>1, <3>1, <2>5, <2>8
      <4>2. CASE i \in 1..c /\ j \in (c + 2)..m
        BY <4>2, <3>1, <2>5, <2>8, <2>4
      <4>3. CASE i \in (c + 2)..m /\ j \in 1..c
        BY <4>3, <3>1, <2>5, <2>8, <2>4
      <4>4. CASE i \in (c + 2)..m /\ j \in (c + 2)..m
        BY <4>4, <3>1, <2>5, <2>8, <2>4
      <4> QED BY <3>4, <4>1, <4>2, <4>3, <4>4, <2>6
    <3> QED BY <3>3, <3>4
  <2>9. ASSUME NEW i \in 1..m, NEW j \in 1..m, i < j PROVE s[q[i]] <= s[q[j]]
    <3>1. \A a, b \in 1..l : a < b => s[p[a]] <= s[p[b]]
      BY <2>1 DEF Orders
    <3>2. /\ \A a \in 1..c : s[q[a]] <= e
          /\ \A a \in (c + 2)..m : e < s[q[a]]
      BY <2>3, <2>5 DEF Between_
    <3>3. s[q[c + 1]] = e /\ \A a \in 1..m : s[q[a]] \in Int
      BY <2>2, <2>5, <2>6 DEF e
    <3>4. CASE i \in 1..c /\ j \in 1..c
      BY <3>4, <3>1, <2>5, <2>9
    <3>5. CASE i \in (c + 2)..m /\ j \in (c + 2)..m
      <4>1. i - 1 < j - 1
        BY <2>9
      <4> QED BY <4>1, <3>5, <3>1, <2>5
    <3>6. CASE i \in 1..(c + 1) /\ j \in (c + 1)..m
      <4>1. s[q[i]] <= e
        BY <3>6, <3>2, <3>3, <2>4
      <4>a. j = c + 1 \/ j \in (c + 2)..m
        BY <3>6, <2>2, <2>4
      <4>2. e <= s[q[j]]
        BY <4>a, <3>2, <3>3, <2>2
      <4> QED BY <4>1, <4>2, <2>2, <3>3
    <3> QED BY <3>4, <3>5, <3>6, <2>2, <2>4, <2>9
  <2>10. Orders(q, s, m)
    BY <2>7, <2>8, <2>9 DEF Orders
  <2>11. m \in 0..n
    OBVIOUS
  <2> QED BY <2>10, <2>11
<1>3. 0..n \subseteq S
  <2> HIDE DEF S
  <2> QED BY <1>1, <1>2, Upto
<1>4. n \in S
  BY <1>3
<1> QED BY <1>4

LEMMA SortUpType ==
  ASSUME NEW s \in Seq(Int)
  PROVE  SortUp(s) \in Seq(Int) /\ Len(SortUp(s)) = Len(s)
<1>1. DOMAIN s = 1..Len(s) /\ Len(s) \in Nat /\ \A i \in 1..Len(s) : s[i] \in Int
  OBVIOUS
<1>2. \E p : Orders(p, s, Len(s))
  BY <1>1, OrderExists
<1> DEFINE order == CHOOSE p \in [DOMAIN s -> DOMAIN s] :
                     /\ \A i, j \in DOMAIN s : p[i] = p[j] => i = j
                     /\ \A i, j \in DOMAIN s : i < j => s[p[i]] <= s[p[j]]
<1>3. order \in [DOMAIN s -> DOMAIN s]
  BY <1>1, <1>2 DEF Orders
<1>4. SortUp(s) = [i \in DOMAIN s |-> s[order[i]]]
  BY DEF SortUp
<1> HIDE DEF order
<1>5. SortUp(s) \in [1..Len(s) -> Int]
  BY <1>1, <1>3, <1>4
<1> QED BY <1>1, <1>5

-----------------------------------------------------------------------------
(* Streams: the slices between the stages                                  *)

FusedOps == {"filter", "peek", "limit", "skip"}

StageSet(ops) == [op : ops, keep : SUBSET Int, n : Nat, index : Nat, at : Places, since : Nat]

Stages_ == StageSet(FusedOps \cup {"sorted"})
Fused == StageSet(FusedOps)

LEMMA FusedStages == Fused \subseteq Stages_
BY DEF Fused, Stages_, StageSet

LEMMA ApplyType ==
  ASSUME NEW s \in Seq(Int), NEW st \in Stages_
  PROVE  Apply(s, st) \in Seq(Int)
<1>1. st.op \in FusedOps \cup {"sorted"} /\ st.n \in Nat
  BY DEF Stages_, StageSet
<1>2. CASE st.op = "filter"
  BY <1>2, SelectedType DEF Apply
<1>3. CASE st.op = "limit"
  <2>1. CASE st.n < Len(s)
    <3>1. SubSeq(s, 1, st.n) \in Seq(Int)
      BY <1>1, <2>1
    <3> QED BY <3>1, <2>1, <1>3 DEF Apply
  <2>2. CASE ~(st.n < Len(s))
    BY <2>2, <1>3 DEF Apply
  <2> QED BY <2>1, <2>2
<1>4. CASE st.op = "sorted"
  BY <1>4, SortUpType DEF Apply
<1>5. CASE st.op \notin {"filter", "limit", "sorted"}
  BY <1>5 DEF Apply
<1> QED BY <1>2, <1>3, <1>4, <1>5

LEMMA BetweenDef ==
  ASSUME NEW s \in Seq(Int), NEW sts \in Seq(Stages_)
  PROVE  /\ Between(s, sts) \in [0..Len(sts) -> Seq(Int)]
         /\ Between(s, sts)[0] = s
         /\ \A k \in 1..Len(sts) :
               Between(s, sts)[k] = Apply(Between(s, sts)[k - 1], sts[k])
<1> DEFINE n == Len(sts)
           X == Seq(Int)
           IsLoop(g) == g = [k \in 0..n |->
                IF k = 0 THEN s ELSE Apply(g[k - 1], sts[k])]
           G == [k \in 1..n |-> [x \in X |-> Apply(x, sts[k])]]
<1>1. n \in Nat /\ s \in X /\ \A k \in 1..n : sts[k] \in Stages_ /\ k - 1 \in 0..n
  OBVIOUS
<1>2. \A k \in 1..n : \A x \in X : Apply(x, sts[k]) \in X
  BY <1>1, ApplyType
<1> HIDE DEF X
<1>3. G \in [1..n -> [X -> X]]
  BY <1>2
<1>4. PICK h : LoopOf(h, X, s, n, G)
  <2> HIDE DEF G, n
  <2> QED BY <1>1, <1>3, Recursion
<1> HIDE DEF n
<1>5. h \in [0..n -> X] /\ h[0] = s /\ \A k \in 1..n : h[k] = Apply(h[k - 1], sts[k])
  BY <1>1, <1>4 DEF LoopOf
<1>6. IsLoop(h)
  BY <1>1, <1>5
<1> DEFINE f == Between(s, sts)
<1>7. IsLoop(f)
  BY <1>6 DEF Between, n
<1> HIDE DEF f
<1>8. f[0] = s /\ \A k \in 1..n : f[k] = Apply(f[k - 1], sts[k])
  BY <1>1, <1>7
<1>9. \A k \in 0..n : f[k] \in X
  BY <1>1, <1>2, <1>8, LoopIn
<1>10. f \in [0..n -> X]
  BY <1>7, <1>9
<1> QED BY <1>8, <1>10 DEF f, n, X

\* The rest of the stages go on from where the first f of them ended.
LEMMA BetweenRest ==
  ASSUME NEW s \in Seq(Int), NEW sts \in Seq(Stages_), NEW f \in 0..Len(sts)
  PROVE  LET rest == SubSeq(sts, f + 1, Len(sts)) IN
         /\ rest \in Seq(Stages_) /\ Len(rest) = Len(sts) - f
         /\ \A k \in 1..Len(rest) : rest[k] = sts[f + k]
         /\ \A k \in 0..Len(rest) : Between(Between(s, sts)[f], rest)[k] = Between(s, sts)[f + k]
<1> DEFINE rest == SubSeq(sts, f + 1, Len(sts))
           n == Len(sts) - f
           b == Between(s, sts)
           r == Between(b[f], rest)
<1>1. n \in Nat /\ rest \in Seq(Stages_) /\ Len(rest) = n
      /\ \A k \in 1..n : rest[k] = sts[f + k]
  OBVIOUS
<1> HIDE DEF rest
<1>2. b[f] \in Seq(Int) /\ \A k \in 1..Len(sts) : b[k] = Apply(b[k - 1], sts[k])
  BY BetweenDef
<1>3. r[0] = b[f] /\ \A k \in 1..Len(rest) : r[k] = Apply(r[k - 1], rest[k])
  BY <1>1, <1>2, BetweenDef
<1> HIDE DEF b, r
<1> DEFINE S == {k \in 0..n : r[k] = b[f + k]}
<1>4. 0 \in S
  BY <1>1, <1>3
<1>5. ASSUME NEW k \in 1..n, k - 1 \in S PROVE k \in S
  <2>1. f + k \in 1..Len(sts) /\ (f + k) - 1 = f + (k - 1)
    BY <1>1 DEF n
  <2>2. b[f + k] = Apply(b[f + (k - 1)], sts[f + k])
    BY <2>1, <1>2
  <2>3. r[k] = Apply(r[k - 1], sts[f + k])
    BY <1>1, <1>3
  <2> QED BY <1>5, <2>2, <2>3
<1>6. 0..n \subseteq S
  <2> HIDE DEF S, n
  <2> QED BY <1>1, <1>4, <1>5, Upto
<1> QED BY <1>1, <1>6 DEF rest, b, r

\* A stage that is added changes nothing before it.
LEMMA BetweenAppend ==
  ASSUME NEW s \in Seq(Int), NEW sts \in Seq(Stages_), NEW st \in Stages_
  PROVE  /\ \A k \in 0..Len(sts) : Between(s, Append(sts, st))[k] = Between(s, sts)[k]
         /\ Between(s, Append(sts, st))[Len(sts) + 1] = Apply(Between(s, sts)[Len(sts)], st)
<1> DEFINE n == Len(sts)
           more == Append(sts, st)
           b == Between(s, sts)
           m == Between(s, more)
<1>1. n \in Nat /\ more \in Seq(Stages_) /\ Len(more) = n + 1 /\ more[n + 1] = st
      /\ \A k \in 1..n : more[k] = sts[k] /\ k \in 1..(n + 1)
  OBVIOUS
<1> HIDE DEF more
<1>2. b[0] = s /\ \A k \in 1..n : b[k] = Apply(b[k - 1], sts[k])
  BY BetweenDef
<1>3. m[0] = s /\ \A k \in 1..Len(more) : m[k] = Apply(m[k - 1], more[k])
  BY <1>1, BetweenDef
<1> HIDE DEF b, m, n
<1> DEFINE S == {k \in 0..n : m[k] = b[k]}
<1>4. 0 \in S /\ \A k \in 1..n : k - 1 \in S => k \in S
  BY <1>1, <1>2, <1>3
<1>5. 0..n \subseteq S
  <2> HIDE DEF S
  <2> QED BY <1>1, <1>4, Upto
<1>6. m[n + 1] = Apply(m[n], st)
  BY <1>1, <1>3
<1>7. m[n] = b[n]
  BY <1>1, <1>5
<1> QED BY <1>5, <1>6, <1>7 DEF more, b, m, n

-----------------------------------------------------------------------------
(* Streams: one element, and loops over elements                           *)

RunStates == [ps : Seq(Fused), out : Seq(Int), seen : [Places -> Seq(Int)]]

\* e gets through the first k stages.
Through(ps, e, k) == \A j \in 1..k : Accepts(ps[j], e)

Counted(st) == [st EXCEPT !.index = @ + 1]

LEMMA AdvanceType ==
  ASSUME NEW st \in Fused
  PROVE  Advance(st) \in Fused
         /\ Advance(st) = IF st.op = "limit" THEN Counted(st) ELSE st
<1>1. Counted(st) \in Fused
  BY DEF Fused, StageSet, Counted
<1> QED BY <1>1 DEF Advance, Counted

LEMMA StageAfter ==
  ASSUME NEW ps \in Seq(Fused), NEW e
  PROVE  /\ StepAll(ps, e) \in Seq(Fused)
         /\ Len(StepAll(ps, e)) = Len(ps)
         /\ \A k \in 1..Len(ps) :
               StepAll(ps, e)[k] = IF Through(ps, e, k) THEN Advance(ps[k]) ELSE ps[k]
<1>1. DOMAIN ps = 1..Len(ps) /\ Len(ps) \in Nat /\ \A k \in 1..Len(ps) : ps[k] \in Fused
  OBVIOUS
<1> DEFINE after == StepAll(ps, e)
<1>2. after = [k \in 1..Len(ps) |-> IF k \in Seen(ps, e) /\ Accepts(ps[k], e)
                                    THEN Advance(ps[k]) ELSE ps[k]]
  BY <1>1 DEF StepAll
<1>3. \A k \in 1..Len(ps) : (k \in Seen(ps, e) /\ Accepts(ps[k], e)) <=> Through(ps, e, k)
  <2> TAKE k \in 1..Len(ps)
  <2>1. k \in Seen(ps, e) <=> \A j \in 1..(k - 1) : Accepts(ps[j], e)
    BY <1>1 DEF Seen
  <2>2. 1..k = (1..(k - 1)) \cup {k}
    OBVIOUS
  <2> QED BY <2>1, <2>2, Zenon DEF Through
<1>4. \A k \in 1..Len(ps) : Advance(ps[k]) \in Fused
  BY <1>1, AdvanceType
<1> HIDE DEF after
<1>5. \A k \in 1..Len(ps) : after[k] = IF Through(ps, e, k) THEN Advance(ps[k]) ELSE ps[k]
  BY <1>2, <1>3
<1>6. after \in [1..Len(ps) -> Fused]
  BY <1>1, <1>2, <1>4
<1> QED BY <1>1, <1>5, <1>6 DEF after

LEMMA StepType ==
  ASSUME NEW st \in RunStates, NEW e \in Int
  PROVE  executeOne(st, e) \in RunStates
<1>1. st.ps \in Seq(Fused) /\ st.out \in Seq(Int) /\ st.seen \in [Places -> Seq(Int)]
  BY DEF RunStates
<1>2. StepAll(st.ps, e) \in Seq(Fused)
  BY <1>1, StageAfter
<1>3. Emitted(st.ps, e) \in Int
  BY DEF Emitted, ZeroValue
<1>4. Append(st.out, Emitted(st.ps, e)) \in Seq(Int)
  BY <1>1, <1>3, AppendProperties
<1>5. \A a \in Places : st.seen[a] \in Seq(Int) /\ Append(st.seen[a], e) \in Seq(Int)
  BY <1>1, AppendProperties
<1> DEFINE seen == [a \in Places |-> IF a \in Peeks(st.ps, e) THEN Append(st.seen[a], e)
                                ELSE st.seen[a]]
           out == IF Passed(st.ps, e) THEN Append(st.out, Emitted(st.ps, e)) ELSE st.out
           X == Seq(Int)
<1>6. seen \in [Places -> X] /\ out \in X
  <2> HIDE DEF X
  <2> QED BY <1>1, <1>4, <1>5 DEF X
<1>7. executeOne(st, e) = [ps |-> StepAll(st.ps, e), out |-> out, seen |-> seen]
  BY DEF executeOne
<1> HIDE DEF seen, out
<1> QED BY <1>2, <1>6, <1>7 DEF RunStates

Start(ps) == [ps |-> ps, out |-> <<>>, seen |-> NoCalls]

LEMMA TurnsDef ==
  ASSUME NEW ps \in Seq(Fused), NEW s \in Seq(Int), NEW stop
  PROVE  /\ Turns(ps, s, stop) \in [0..Len(s) -> RunStates]
         /\ Turns(ps, s, stop)[0] = Start(ps)
         /\ \A k \in 1..Len(s) :
               Turns(ps, s, stop)[k] = Turn(Turns(ps, s, stop)[k - 1], s[k], stop)
         /\ RunUntil(ps, s, stop) = Turns(ps, s, stop)[Len(s)]
         /\ RunUntil(ps, s, stop) \in RunStates
<1> DEFINE n == Len(s)
           IsLoop(g) == g = [k \in 0..n |->
                IF k = 0 THEN Start(ps) ELSE Turn(g[k - 1], s[k], stop)]
           G == [k \in 1..n |-> [x \in RunStates |-> Turn(x, s[k], stop)]]
<1>1. n \in Nat /\ \A k \in 1..n : s[k] \in Int /\ k - 1 \in 0..n
  OBVIOUS
<1>2. \A k \in 1..n : \A x \in RunStates : Turn(x, s[k], stop) \in RunStates
  BY <1>1, StepType DEF Turn
<1>3. Start(ps) \in RunStates
  <2>1. NoCalls \in [Places -> Seq(Int)]
    BY DEF NoCalls
  <2> QED BY <2>1 DEF Start, RunStates
<1>a. G \in [1..n -> [RunStates -> RunStates]]
  BY <1>2
<1>4. PICK h : LoopOf(h, RunStates, Start(ps), n, G)
  <2> HIDE DEF G, n
  <2> QED BY <1>1, <1>3, <1>a, Recursion
<1> HIDE DEF n
<1>5. h \in [0..n -> RunStates] /\ h[0] = Start(ps)
      /\ \A k \in 1..n : h[k] = Turn(h[k - 1], s[k], stop)
  BY <1>1, <1>4 DEF LoopOf
<1>6. IsLoop(h)
  BY <1>1, <1>5
<1> DEFINE f == Turns(ps, s, stop)
<1>7. IsLoop(f)
  BY <1>6 DEF Turns, Start, n
<1> HIDE DEF f
<1>8. f[0] = Start(ps) /\ \A k \in 1..n : f[k] = Turn(f[k - 1], s[k], stop)
  BY <1>1, <1>7
<1>9. \A k \in 0..n : f[k] \in RunStates
  BY <1>1, <1>2, <1>3, <1>8, LoopIn
<1>10. f \in [0..n -> RunStates]
  BY <1>7, <1>9
<1>11. RunUntil(ps, s, stop) = f[n] /\ n \in 0..n
  BY <1>1 DEF RunUntil, f, n
<1> QED BY <1>8, <1>9, <1>10, <1>11 DEF f, n

\* What a run does to the counts: a stage stays the stage it was, and a Limit
\* counts at least what comes out.
RunInv(st, ps, m) ==
    /\ st \in RunStates /\ Len(st.ps) = Len(ps) /\ Len(st.out) <= m
    /\ \A k \in 1..Len(ps) :
          /\ st.ps[k] = [ps[k] EXCEPT !.index = st.ps[k].index]
          /\ ps[k].op # "limit" => st.ps[k].index = ps[k].index
          /\ ps[k].op = "limit" /\ ps[k].index <= ps[k].n
                => /\ st.ps[k].index <= ps[k].n
                   /\ Len(st.out) <= st.ps[k].index - ps[k].index

LEMMA RunStep ==
  ASSUME NEW ps \in Seq(Fused), NEW m \in Nat, NEW st, RunInv(st, ps, m), NEW e \in Int
  PROVE  RunInv(executeOne(st, e), ps, m + 1)
<1> DEFINE r == executeOne(st, e)
           n == Len(ps)
<1>1. st \in RunStates /\ Len(st.ps) = n /\ Len(st.out) <= m
  BY DEF RunInv
<1>2. st.ps \in Seq(Fused) /\ st.out \in Seq(Int)
  BY <1>1 DEF RunStates
<1>3. r \in RunStates
  BY <1>1, StepType
<1>4. /\ r.ps = StepAll(st.ps, e)
      /\ r.out = IF Passed(st.ps, e) THEN Append(st.out, Emitted(st.ps, e)) ELSE st.out
  BY DEF executeOne
<1>5. /\ Len(r.ps) = n
      /\ \A k \in 1..n :
            r.ps[k] = IF Through(st.ps, e, k) THEN Advance(st.ps[k]) ELSE st.ps[k]
  BY <1>1, <1>2, <1>4, StageAfter
<1>6. /\ Passed(st.ps, e) => Len(r.out) = Len(st.out) + 1
      /\ ~Passed(st.ps, e) => Len(r.out) = Len(st.out)
  <2>1. Emitted(st.ps, e) \in Int
    BY DEF Emitted, ZeroValue
  <2>2. Len(Append(st.out, Emitted(st.ps, e))) = Len(st.out) + 1
    BY <2>1, <1>2, AppendProperties
  <2> QED BY <2>2, <1>4
<1>7. Len(st.out) \in Nat /\ n \in Nat
  BY <1>2
<1>8. Passed(st.ps, e) => \A k \in 1..n : Through(st.ps, e, k)
  <2>1. DOMAIN st.ps = 1..n
    BY <1>1, <1>2
  <2> QED BY <2>1, <1>7 DEF Passed, Through
<1> HIDE DEF r
<1>9. ASSUME NEW k \in 1..n
      PROVE  /\ r.ps[k] = [ps[k] EXCEPT !.index = r.ps[k].index]
             /\ ps[k].op # "limit" => r.ps[k].index = ps[k].index
             /\ ps[k].op = "limit" /\ ps[k].index <= ps[k].n
                => /\ r.ps[k].index <= ps[k].n
                   /\ Len(r.out) <= r.ps[k].index - ps[k].index
  <2> DEFINE a == st.ps[k]
             c == ps[k]
  <2>1. a \in Fused /\ c \in Fused
    BY <1>1, <1>2
  <2>2. /\ a = [c EXCEPT !.index = a.index]
        /\ c.op # "limit" => a.index = c.index
        /\ c.op = "limit" /\ c.index <= c.n
              => a.index <= c.n /\ Len(st.out) <= a.index - c.index
    BY DEF RunInv
  <2>3. r.ps[k] = IF Through(st.ps, e, k) THEN Advance(a) ELSE a
    BY <1>5
  <2>4. Through(st.ps, e, k) => Accepts(a, e)
    <3>1. k \in 1..k
      BY <1>7
    <3> QED BY <3>1 DEF Through
  <2>5. Passed(st.ps, e) => Through(st.ps, e, k)
    BY <1>8
  <2> DEFINE b == r.ps[k]
  <2> HIDE DEF a, b, c
  <2>6. a.index \in Nat /\ c.index \in Nat /\ c.n \in Nat /\ a.op = c.op /\ a.n = c.n
    BY <2>1, <2>2 DEF Fused, StageSet
  <2>7. CASE Through(st.ps, e, k) /\ c.op = "limit"
    <3>1. a.index < c.n
      BY <2>4, <2>6, <2>7 DEF Accepts
    <3>2. b = Counted(a)
      BY <2>1, <2>3, <2>6, <2>7, AdvanceType DEF b
    <3>3. b.index = a.index + 1 /\ b = [c EXCEPT !.index = b.index]
      BY <3>2, <2>1, <2>2, <2>6 DEF Counted, Fused, StageSet
    <3>4. c.index <= c.n => Len(r.out) <= b.index - c.index
      BY <3>3, <1>6, <1>7, <2>2, <2>6, <2>7
    <3> QED BY <3>1, <3>3, <3>4, <2>6, <2>7 DEF b, c
  <2>8. CASE Through(st.ps, e, k) /\ c.op # "limit"
    <3>1. b = a
      BY <2>1, <2>3, <2>6, <2>8, AdvanceType DEF b
    <3> QED BY <3>1, <2>2, <2>8 DEF b, c
  <2>9. CASE ~Through(st.ps, e, k)
    <3>1. b = a /\ Len(r.out) = Len(st.out)
      BY <2>3, <2>5, <2>9, <1>6, <1>7 DEF b
    <3> QED BY <3>1, <2>2 DEF b, c
  <2> QED BY <2>7, <2>8, <2>9
<1>10. Len(r.out) <= m + 1
  BY <1>1, <1>6, <1>7
<1> QED BY <1>3, <1>5, <1>9, <1>10 DEF RunInv, r

LEMMA RunCounts ==
  ASSUME NEW ps \in Seq(Fused), NEW s \in Seq(Int), NEW stop
  PROVE  RunInv(RunUntil(ps, s, stop), ps, Len(s))
<1> DEFINE n == Len(s)
           f == Turns(ps, s, stop)
           S == {k \in 0..n : RunInv(f[k], ps, k)}
<1>1. n \in Nat /\ \A k \in 1..n : s[k] \in Int /\ k - 1 \in Nat /\ k \in Nat
  OBVIOUS
<1>2. /\ f \in [0..n -> RunStates] /\ f[0] = Start(ps)
      /\ \A k \in 1..n : f[k] = Turn(f[k - 1], s[k], stop)
      /\ RunUntil(ps, s, stop) = f[n]
  BY TurnsDef
<1> HIDE DEF f, n
<1>3. 0 \in S
  <2>1. 0 \in 0..n
    BY <1>1
  <2>2. f[0].ps = ps /\ f[0].out = <<>> /\ f[0] \in RunStates
    BY <2>1, <1>2 DEF Start
  <2>3. Len(f[0].out) = 0
    BY <2>2
  <2>4. \A k \in 1..Len(ps) : ps[k] \in Fused /\ ps[k] = [ps[k] EXCEPT !.index = ps[k].index]
                              /\ ps[k].index \in Nat
    <3>1. \A k \in 1..Len(ps) : ps[k] \in Fused
      OBVIOUS
    <3> QED BY <3>1 DEF Fused, StageSet
  <2>5. RunInv(f[0], ps, 0)
    BY <2>2, <2>3, <2>4 DEF RunInv
  <2> QED BY <2>1, <2>5
<1>4. ASSUME NEW k \in 1..n, k - 1 \in S PROVE k \in S
  <2>1. RunInv(f[k - 1], ps, k - 1) /\ f[k] = Turn(f[k - 1], s[k], stop)
    BY <1>2, <1>4
  <2>2. k - 1 \in Nat /\ k = (k - 1) + 1 /\ k \in 0..n /\ s[k] \in Int
    BY <1>1
  <2>3. RunInv(executeOne(f[k - 1], s[k]), ps, k)
    <3>1. RunInv(executeOne(f[k - 1], s[k]), ps, (k - 1) + 1)
      BY <2>1, <2>2, RunStep
    <3> QED BY <3>1, <2>2
  <2>4. RunInv(f[k - 1], ps, k)
    <3> DEFINE g == f[k - 1]
    <3>1. RunInv(g, ps, k - 1)
      BY <2>1
    <3> HIDE DEF g
    <3>2. g.out \in Seq(Int) /\ Len(g.out) <= k - 1
      BY <3>1 DEF RunInv, RunStates
    <3>3. Len(g.out) \in Nat
      BY <3>2
    <3>4. Len(g.out) <= k
      BY <3>2, <3>3, <2>2
    <3>5. RunInv(g, ps, k)
      BY <3>1, <3>4 DEF RunInv
    <3> QED BY <3>5 DEF g
  <2>5. RunInv(f[k], ps, k)
    BY <2>1, <2>3, <2>4 DEF Turn
  <2> QED BY <2>2, <2>5
<1>5. 0..n \subseteq S
  <2> HIDE DEF S
  <2> QED BY <1>1, <1>3, <1>4, Upto
<1>6. RunInv(f[n], ps, n)
  BY <1>1, <1>5
<1> QED BY <1>2, <1>6 DEF n

-----------------------------------------------------------------------------
(* Streams: fused execution is stage by stage processing                   *)

\* A stage that has processed s and gets e: at is the stage with its count.
LEMMA ApplyAppend ==
  ASSUME NEW s \in Seq(Int), NEW e \in Int, NEW st \in Fused, st.op # "skip",
         NEW now \in Fused, now = [st EXCEPT !.index = now.index],
         st.op = "limit" => now.index = Len(Apply(s, st))
  PROVE  Apply(Append(s, e), st) =
            IF Accepts(now, e) THEN Append(Apply(s, st), e) ELSE Apply(s, st)
<1> DEFINE t == Append(s, e)
<1>1. t \in Seq(Int) /\ Len(t) = Len(s) + 1 /\ Len(s) \in Nat
  OBVIOUS
<1>2. /\ st.op \in FusedOps /\ st.n \in Nat /\ now.op = st.op /\ now.n = st.n
      /\ now.keep = st.keep /\ now.index \in Nat
  BY DEF Fused, StageSet
<1>3. CASE st.op = "filter"
  <2>1. Apply(t, st) = Selected(t, st.keep) /\ Apply(s, st) = Selected(s, st.keep)
    BY <1>3 DEF Apply
  <2>2. Selected(t, st.keep) = Picked(Selected(s, st.keep), e, st.keep)
    BY SelectedAppend
  <2>3. Accepts(now, e) <=> e \in st.keep
    BY <1>2, <1>3 DEF Accepts
  <2> QED BY <2>1, <2>2, <2>3 DEF Picked
<1>4. CASE st.op = "peek"
  <2>1. Apply(t, st) = t /\ Apply(s, st) = s
    BY <1>4 DEF Apply
  <2>2. Accepts(now, e)
    BY <1>2, <1>4 DEF Accepts
  <2> QED BY <2>1, <2>2
<1>5. CASE st.op = "limit"
  <2>1. /\ Apply(t, st) = IF st.n < Len(t) THEN SubSeq(t, 1, st.n) ELSE t
        /\ Apply(s, st) = IF st.n < Len(s) THEN SubSeq(s, 1, st.n) ELSE s
    BY <1>5 DEF Apply
  <2>2. Accepts(now, e) <=> Len(Apply(s, st)) < st.n
    BY <1>2, <1>5 DEF Accepts
  <2>3. CASE Len(s) < st.n
    <3>1. Apply(t, st) = t /\ Apply(s, st) = s
      BY <2>1, <2>3, <1>1, <1>2
    <3> QED BY <3>1, <2>2, <2>3
  <2>4. CASE st.n <= Len(s)
    <3> DEFINE u == SubSeq(t, 1, st.n)
               v == SubSeq(s, 1, st.n)
    <3>1. u \in Seq(Int) /\ v \in Seq(Int) /\ Len(u) = st.n /\ Len(v) = st.n
          /\ \A i \in 1..st.n : u[i] = t[i] /\ v[i] = s[i] /\ t[i] = s[i]
      <4> DEFINE m == st.n
      <4>1. m \in Nat /\ m <= Len(s) /\ Len(s) \in Nat
        BY <2>4, <1>1, <1>2
      <4> HIDE DEF m
      <4>2. \A i \in 1..m : i \in 1..Len(s) /\ t[i] = s[i]
        BY <4>1
      <4>4. m \in 0..Len(s) /\ m \in 0..Len(t)
        BY <4>1, <1>1
      <4>3. /\ SubSeq(s, 1, m) \in Seq(Int) /\ Len(SubSeq(s, 1, m)) = m
            /\ \A i \in 1..m : SubSeq(s, 1, m)[i] = s[i]
        BY <4>4, <1>1, FirstPart, Zenon
      <4> HIDE DEF t
      <4>5. /\ SubSeq(t, 1, m) \in Seq(Int) /\ Len(SubSeq(t, 1, m)) = m
            /\ \A i \in 1..m : SubSeq(t, 1, m)[i] = t[i]
        BY <4>4, <1>1, FirstPart, Zenon
      <4> QED BY <4>2, <4>3, <4>5 DEF m
    <3>2. u = v
      <4> HIDE DEF u, v, t
      <4> QED BY <3>1, SeqEqual
    <3>3. Apply(t, st) = u
      BY <2>1, <2>4, <1>1, <1>2
    <3>4. Apply(s, st) = v
      <4>1. CASE st.n = Len(s)
        BY <4>1, <2>1, <1>1, SubSeqFull
      <4>2. CASE st.n # Len(s)
        BY <4>2, <2>1, <2>4, <1>1, <1>2
      <4> QED BY <4>1, <4>2
    <3>5. ~Accepts(now, e)
      <4> HIDE DEF v
      <4> QED BY <3>1, <3>4, <2>2, <1>2
    <3> QED BY <3>2, <3>3, <3>4, <3>5
  <2> QED BY <2>3, <2>4, <1>1, <1>2
<1> QED BY <1>2, <1>3, <1>4, <1>5 DEF FusedOps

\* Stages that no run has used yet.
Fresh(ps) ==
    /\ ps \in Seq(Fused) /\ ps # <<>>
    /\ \A k \in 1..Len(ps) : ps[k].op # "skip" /\ ps[k].index = 0
    /\ \A j, k \in 1..Len(ps) : ps[j].at = ps[k].at => j = k

LEMMA FreshFacts ==
  ASSUME NEW ps, Fresh(ps)
  PROVE  /\ ps \in Seq(Fused) /\ ps \in Seq(Stages_) /\ Len(ps) \in Nat /\ Len(ps) > 0
         /\ \A k \in 1..Len(ps) : /\ ps[k] \in Fused /\ ps[k].op # "skip"
                                  /\ ps[k].index = 0 /\ ps[k].at \in Places
<1>1. ps \in Seq(Fused) /\ ps # <<>>
      /\ \A k \in 1..Len(ps) : ps[k].op # "skip" /\ ps[k].index = 0
  BY DEF Fresh
<1>2. \A k \in 1..Len(ps) : ps[k] \in Fused
  BY <1>1
<1>3. \A k \in 1..Len(ps) : ps[k].at \in Places
  BY <1>2 DEF Fused, StageSet
<1>4. ps \in Seq(Stages_)
  BY <1>1, FusedStages, SeqMonotonic
<1>5. Len(ps) \in Nat /\ Len(ps) > 0
  BY <1>1
<1> QED BY <1>1, <1>2, <1>3, <1>4, <1>5

PeekAt(ps, a) == \E k \in 1..Len(ps) : ps[k].op = "peek" /\ ps[k].at = a

\* The state of a run through ps that has processed t.
FusedInv(st, ps, t) ==
    LET b == Between(t, ps) IN
    /\ st \in RunStates /\ Len(st.ps) = Len(ps)
    /\ st.out = b[Len(ps)]
    /\ \A k \in 1..Len(ps) :
          /\ st.ps[k] = [ps[k] EXCEPT !.index = st.ps[k].index]
          /\ ps[k].op = "limit" => st.ps[k].index = Len(b[k])
          /\ ps[k].op = "peek" => st.seen[ps[k].at] = b[k - 1]
    /\ \A a \in Places : ~PeekAt(ps, a) => st.seen[a] = <<>>

\* One more element, at each place: it is there if it gets so far.
LEMMA FusedPlaces ==
  ASSUME NEW ps, Fresh(ps), NEW t \in Seq(Int), NEW st, FusedInv(st, ps, t), NEW e \in Int
  PROVE  \A k \in 0..Len(ps) :
            Between(Append(t, e), ps)[k] = IF Through(st.ps, e, k)
                                           THEN Append(Between(t, ps)[k], e)
                                           ELSE Between(t, ps)[k]
<1> DEFINE n == Len(ps)
           b == Between(t, ps)
           c == Between(Append(t, e), ps)
           S == {k \in 0..n : c[k] = IF Through(st.ps, e, k) THEN Append(b[k], e) ELSE b[k]}
<1>1. ps \in Seq(Fused) /\ ps \in Seq(Stages_) /\ n \in Nat
      /\ \A k \in 1..n : ps[k] \in Fused /\ ps[k].op # "skip"
  BY FusedStages, SeqMonotonic DEF Fresh
<1>2. Append(t, e) \in Seq(Int)
  OBVIOUS
<1>3. b \in [0..n -> Seq(Int)] /\ b[0] = t /\ \A k \in 1..n : b[k] = Apply(b[k - 1], ps[k])
  BY <1>1, BetweenDef
<1>4. c[0] = Append(t, e) /\ \A k \in 1..n : c[k] = Apply(c[k - 1], ps[k])
  <2> DEFINE u == Append(t, e)
  <2>1. u \in Seq(Int)
    BY <1>2
  <2> HIDE DEF u, b
  <2> QED BY <2>1, <1>1, BetweenDef DEF u
<1>5. \A k \in 1..n :
         /\ st.ps[k] \in Fused
         /\ st.ps[k] = [ps[k] EXCEPT !.index = st.ps[k].index]
         /\ ps[k].op = "limit" => st.ps[k].index = Len(b[k])
  <2>1. /\ st \in RunStates /\ Len(st.ps) = n
        /\ \A k \in 1..n :
              /\ st.ps[k] = [ps[k] EXCEPT !.index = st.ps[k].index]
              /\ ps[k].op = "limit" => st.ps[k].index = Len(b[k])
    BY DEF FusedInv
  <2> HIDE DEF b, c, n
  <2>2. st.ps \in Seq(Fused)
    BY <2>1 DEF RunStates
  <2>3. \A k \in 1..n : st.ps[k] \in Fused
    BY <2>1, <2>2
  <2> QED BY <2>1, <2>3
<1> HIDE DEF b, c, n
<1>6. 0 \in S
  <2>1. Through(st.ps, e, 0) /\ 0 \in 0..n
    BY <1>1 DEF Through
  <2> QED BY <2>1, <1>3, <1>4
<1>7. ASSUME NEW k \in 1..n, k - 1 \in S PROVE k \in S
  <2>1. k \in 0..n /\ k - 1 \in 0..n /\ 1..k = (1..(k - 1)) \cup {k}
    BY <1>1
  <2>2. b[k - 1] \in Seq(Int) /\ b[k] = Apply(b[k - 1], ps[k]) /\ c[k] = Apply(c[k - 1], ps[k])
    BY <2>1, <1>3, <1>4
  <2>3. Through(st.ps, e, k) <=> Through(st.ps, e, k - 1) /\ Accepts(st.ps[k], e)
    BY <2>1, Zenon DEF Through
  <2>4. CASE Through(st.ps, e, k - 1)
    <3>1. c[k - 1] = Append(b[k - 1], e)
      BY <1>7, <2>4
    <3>2. c[k] = IF Accepts(st.ps[k], e) THEN Append(b[k], e) ELSE b[k]
      <4> DEFINE stage == ps[k]
                 now == st.ps[k]
                 x == b[k - 1]
      <4>1. /\ x \in Seq(Int) /\ stage \in Fused /\ stage.op # "skip" /\ now \in Fused
            /\ now = [stage EXCEPT !.index = now.index]
            /\ b[k] = Apply(x, stage) /\ c[k] = Apply(Append(x, e), stage)
            /\ stage.op = "limit" => now.index = Len(Apply(x, stage))
        BY <3>1, <2>2, <1>1, <1>5
      <4> HIDE DEF stage, now, x
      <4>2. c[k] = IF Accepts(now, e) THEN Append(b[k], e) ELSE b[k]
        BY <4>1, ApplyAppend
      <4> QED BY <4>2 DEF now
    <3> QED BY <3>2, <2>1, <2>3, <2>4
  <2>5. CASE ~Through(st.ps, e, k - 1)
    <3>1. c[k - 1] = b[k - 1]
      BY <1>7, <2>5
    <3> QED BY <3>1, <2>1, <2>2, <2>3, <2>5
  <2> QED BY <2>4, <2>5
<1>8. 0..n \subseteq S
  <2> HIDE DEF S
  <2> QED BY <1>1, <1>6, <1>7, Upto
<1> QED BY <1>8 DEF b, c, n

LEMMA FusedStep ==
  ASSUME NEW ps, Fresh(ps), NEW t \in Seq(Int), NEW st, FusedInv(st, ps, t), NEW e \in Int
  PROVE  FusedInv(executeOne(st, e), ps, Append(t, e))
<1> DEFINE n == Len(ps)
           b == Between(t, ps)
           c == Between(Append(t, e), ps)
           r == executeOne(st, e)
<1>1. /\ ps \in Seq(Fused) /\ ps \in Seq(Stages_) /\ n \in Nat /\ n > 0
      /\ \A k \in 1..n : ps[k] \in Fused /\ ps[k].op # "skip" /\ ps[k].at \in Places
  BY FreshFacts
<1>2. \A k \in 0..n : b[k] \in Seq(Int)
  BY <1>1, BetweenDef
<1>3. \A k \in 0..n : c[k] = IF Through(st.ps, e, k) THEN Append(b[k], e) ELSE b[k]
  BY FusedPlaces
<1>4. /\ st \in RunStates /\ Len(st.ps) = n /\ st.ps \in Seq(Fused) /\ st.out = b[n]
      /\ st.seen \in [Places -> Seq(Int)]
      /\ \A a \in Places : ~PeekAt(ps, a) => st.seen[a] = <<>>
  BY DEF FusedInv, RunStates
<1>5. \A k \in 1..n :
          /\ st.ps[k] \in Fused
          /\ st.ps[k] = [ps[k] EXCEPT !.index = st.ps[k].index]
          /\ ps[k].op = "limit" => st.ps[k].index = Len(b[k])
          /\ ps[k].op = "peek" => st.seen[ps[k].at] = b[k - 1]
  BY <1>4 DEF FusedInv
<1>6. r \in RunStates
  BY <1>4, StepType
<1>7. /\ r.ps = StepAll(st.ps, e)
      /\ r.out = IF Passed(st.ps, e) THEN Append(st.out, Emitted(st.ps, e)) ELSE st.out
      /\ r.seen = [a \in Places |-> IF a \in Peeks(st.ps, e) THEN Append(st.seen[a], e)
                                    ELSE st.seen[a]]
  BY DEF executeOne
<1>8. /\ Len(r.ps) = n
      /\ \A k \in 1..n :
            r.ps[k] = IF Through(st.ps, e, k) THEN Advance(st.ps[k]) ELSE st.ps[k]
  BY <1>4, <1>7, StageAfter
<1>9. DOMAIN st.ps = 1..n /\ st.ps # <<>>
  BY <1>1, <1>4
<1> HIDE DEF b, c, r, n
<1>10. r.out = c[n]
  <2>1. Passed(st.ps, e) <=> Through(st.ps, e, n)
    BY <1>9 DEF Passed, Through
  <2>2. Emitted(st.ps, e) = e /\ n \in 0..n
    BY <1>1, <1>9 DEF Emitted
  <2> QED BY <2>1, <2>2, <1>3, <1>4, <1>7
<1>11. ASSUME NEW k \in 1..n
       PROVE  /\ r.ps[k] = [ps[k] EXCEPT !.index = r.ps[k].index]
              /\ ps[k].op = "limit" => r.ps[k].index = Len(c[k])
  <2> DEFINE a == st.ps[k]
             d == ps[k]
             x == r.ps[k]
  <2>1. /\ a \in Fused /\ d \in Fused /\ a = [d EXCEPT !.index = a.index]
        /\ d.op = "limit" => a.index = Len(b[k])
    BY <1>1, <1>5
  <2>2. k \in 0..n /\ b[k] \in Seq(Int)
    BY <1>1, <1>2
  <2>3. /\ x = IF Through(st.ps, e, k) THEN Advance(a) ELSE a
        /\ c[k] = IF Through(st.ps, e, k) THEN Append(b[k], e) ELSE b[k]
    BY <1>3, <1>8, <2>2
  <2> HIDE DEF a, d, x
  <2>4. a.index \in Nat /\ d.index \in Nat /\ a.op = d.op
    BY <2>1 DEF Fused, StageSet
  <2>5. CASE Through(st.ps, e, k) /\ d.op = "limit"
    <3>1. x = Counted(a)
      BY <2>1, <2>3, <2>4, <2>5, AdvanceType
    <3>2. x.index = a.index + 1 /\ x = [d EXCEPT !.index = x.index]
      BY <3>1, <2>1, <2>4 DEF Counted, Fused, StageSet
    <3>3. Len(c[k]) = Len(b[k]) + 1
      BY <2>2, <2>3, <2>5, AppendProperties
    <3> QED BY <3>2, <3>3, <2>1, <2>5 DEF d, x
  <2>6. CASE Through(st.ps, e, k) /\ d.op # "limit"
    <3>1. x = a
      BY <2>1, <2>3, <2>4, <2>6, AdvanceType
    <3> QED BY <3>1, <2>1, <2>6 DEF d, x
  <2>7. CASE ~Through(st.ps, e, k)
    <3>1. x = a /\ c[k] = b[k]
      BY <2>3, <2>7
    <3> QED BY <3>1, <2>1 DEF d, x
  <2> QED BY <2>5, <2>6, <2>7
<1>12. \A k \in 1..n : st.ps[k].op = ps[k].op /\ st.ps[k].at = ps[k].at
  BY <1>1, <1>5 DEF Fused, StageSet
<1>13. ASSUME NEW k \in 1..n, ps[k].op = "peek"
       PROVE  r.seen[ps[k].at] = c[k - 1]
  <2> DEFINE a == ps[k].at
  <2>0. k - 1 \in 0..n
    BY <1>1
  <2>1. a \in Places /\ k - 1 \in 0..n /\ st.seen[a] = b[k - 1]
    BY <2>0, <1>1, <1>5, <1>13
  <2>2. a \in Peeks(st.ps, e) <=> k \in Seen(st.ps, e)
    <3>1. \A j \in 1..n : ps[j].at = a => j = k
      BY DEF Fresh, n
    <3>2. \A j \in Seen(st.ps, e) : j \in 1..n
      BY <1>9 DEF Seen
    <3> QED BY <3>1, <3>2, <1>12, <1>13 DEF Peeks
  <2>3. k \in Seen(st.ps, e) <=> Through(st.ps, e, k - 1)
    BY <1>9 DEF Seen, Through
  <2>4. r.seen[a] = IF a \in Peeks(st.ps, e) THEN Append(b[k - 1], e) ELSE b[k - 1]
    BY <2>1, <1>7
  <2>5. c[k - 1] = IF Through(st.ps, e, k - 1) THEN Append(b[k - 1], e) ELSE b[k - 1]
    BY <2>1, <1>3
  <2> QED BY <2>2, <2>3, <2>4, <2>5
<1>14. ASSUME NEW a \in Places, ~PeekAt(ps, a)
       PROVE  r.seen[a] = <<>>
  <2>1. a \notin Peeks(st.ps, e)
    <3>1. \A j \in Seen(st.ps, e) : j \in 1..n
      BY <1>9 DEF Seen
    <3> QED BY <3>1, <1>12, <1>14 DEF Peeks, PeekAt, n
  <2> QED BY <2>1, <1>4, <1>7, <1>14
<1> QED BY <1>6, <1>8, <1>10, <1>11, <1>13, <1>14 DEF FusedInv, b, c, r, n

LEMMA FusedStart ==
  ASSUME NEW ps, Fresh(ps)
  PROVE  FusedInv(Start(ps), ps, <<>>)
<1> DEFINE n == Len(ps)
           b == Between(<<>>, ps)
<1>1. /\ ps \in Seq(Fused) /\ ps \in Seq(Stages_) /\ n \in Nat /\ n > 0
      /\ \A k \in 1..n : ps[k] \in Fused /\ ps[k].op # "skip" /\ ps[k].index = 0
  BY FreshFacts
<1>2. <<>> \in Seq(Int)
  OBVIOUS
<1>3. b[0] = <<>> /\ \A k \in 1..n : b[k] = Apply(b[k - 1], ps[k])
  BY <1>1, <1>2, BetweenDef
<1>4. \A k \in 1..n : Apply(<<>>, ps[k]) = <<>>
  <2> TAKE k \in 1..n
  <2>1. ps[k].op \in FusedOps /\ ps[k].n \in Nat
    BY <1>1 DEF Fused, StageSet
  <2>2. CASE ps[k].op = "filter"
    <3>1. Selected(<<>>, ps[k].keep) = <<>>
      <4> DEFINE keep == ps[k].keep
      <4> HIDE DEF keep
      <4>1. /\ Selected(<<>>, keep) = Selections(<<>>, keep)[Len(<<>>)]
            /\ Selections(<<>>, keep)[0] = <<>>
        BY ONLY <1>2, SelectionsDef
      <4>2. Len(<<>>) = 0
        OBVIOUS
      <4>3. Selected(<<>>, keep) = <<>>
        BY ONLY <4>1, <4>2, Zenon
      <4> QED BY <4>3 DEF keep
    <3> QED BY <3>1, <2>2 DEF Apply
  <2>3. CASE ps[k].op = "limit"
    <3>1. ~(ps[k].n < Len(<<>>))
      BY <2>1
    <3> QED BY <3>1, <2>3 DEF Apply
  <2>4. CASE ps[k].op \in {"peek", "skip"}
    BY <2>4 DEF Apply
  <2> QED BY <2>1, <2>2, <2>3, <2>4 DEF FusedOps
<1> HIDE DEF b, n
<1> DEFINE S == {k \in 0..n : b[k] = <<>>}
<1>5. 0 \in S /\ \A k \in 1..n : k - 1 \in S => k \in S
  BY <1>1, <1>3, <1>4
<1>6. 0..n \subseteq S
  <2> HIDE DEF S
  <2> QED BY <1>1, <1>5, Upto
<1>7. \A k \in 0..n : b[k] = <<>> /\ Len(b[k]) = 0
  BY <1>6
<1> DEFINE st == Start(ps)
<1>8. st \in RunStates /\ st.ps = ps /\ st.out = <<>> /\ st.seen = NoCalls
  <2>1. NoCalls \in [Places -> Seq(Int)]
    BY DEF NoCalls
  <2> QED BY <2>1, <1>1 DEF Start, RunStates
<1>9. \A a \in Places : st.seen[a] = <<>>
  BY <1>8 DEF NoCalls
<1> HIDE DEF st
<1>10. n \in 0..n /\ \A k \in 1..n : k \in 0..n /\ k - 1 \in 0..n
  BY <1>1
<1>11. \A k \in 1..n : /\ ps[k] = [ps[k] EXCEPT !.index = ps[k].index]
                       /\ ps[k].at \in Places
  BY <1>1 DEF Fused, StageSet
<1> QED BY <1>1, <1>7, <1>8, <1>9, <1>10, <1>11 DEF FusedInv, b, n, st

LEMMA FusedRun ==
  ASSUME NEW ps, Fresh(ps), NEW s \in Seq(Int)
  PROVE  FusedInv(execute(ps, s), ps, s)
<1> DEFINE n == Len(s)
           f == Turns(ps, s, {})
           S == {k \in 0..n : FusedInv(f[k], ps, SubSeq(s, 1, k))}
<1>1. n \in Nat /\ SubSeq(s, 1, n) = s /\ SubSeq(s, 1, 0) = <<>>
  BY SubSeqFull, SubSeqEmpty
<1>2. /\ f[0] = Start(ps) /\ execute(ps, s) = f[n]
      /\ \A k \in 1..n : f[k] = Turn(f[k - 1], s[k], {})
  BY FreshFacts, TurnsDef DEF execute
<1>3. \A k \in 1..n : f[k] = executeOne(f[k - 1], s[k])
  BY <1>2 DEF Turn
<1> HIDE DEF f
<1>4. 0 \in S
  <2>1. FusedInv(f[0], ps, SubSeq(s, 1, 0))
    BY <1>1, <1>2, FusedStart
  <2>2. 0 \in 0..n
    BY <1>1
  <2> QED BY <2>1, <2>2
<1>5. ASSUME NEW k \in 1..n, k - 1 \in S PROVE k \in S
  <2>1. /\ SubSeq(s, 1, k - 1) \in Seq(Int) /\ s[k] \in Int
        /\ SubSeq(s, 1, k) = Append(SubSeq(s, 1, k - 1), s[k])
    BY FirstOnes
  <2> DEFINE t == SubSeq(s, 1, k - 1)
  <2> HIDE DEF t
  <2>2. FusedInv(executeOne(f[k - 1], s[k]), ps, Append(t, s[k]))
    <3>1. FusedInv(f[k - 1], ps, t) /\ t \in Seq(Int)
      BY <1>5, <2>1 DEF t
    <3> QED BY <3>1, <2>1, FusedStep
  <2>3. FusedInv(f[k], ps, SubSeq(s, 1, k))
    BY <2>1, <2>2, <1>3 DEF t
  <2> QED BY <2>3, <1>1
<1>6. 0..n \subseteq S
  <2> HIDE DEF S, n
  <2> QED BY <1>1, <1>4, <1>5, Upto
<1>7. FusedInv(f[n], ps, SubSeq(s, 1, n))
  <2>1. n \in 0..n
    BY <1>1
  <2> QED BY <2>1, <1>6
<1> QED BY <1>1, <1>2, <1>7

-----------------------------------------------------------------------------
(* Streams: loops that return early                                        *)

Hits(st, stop) == ToSet(st.out) \cap stop # {}

\* What one element adds to what has come out.
LEMMA OutGrows ==
  ASSUME NEW st \in RunStates, NEW e \in Int
  PROVE  LET out == executeOne(st, e).out IN
         \/ out = st.out
         \/ \E v \in Int : out = Append(st.out, v)
<1>1. Emitted(st.ps, e) \in Int
  BY DEF Emitted, ZeroValue
<1> QED BY <1>1 DEF executeOne

LEMMA ToSetAppend ==
  ASSUME NEW s \in Seq(Int), NEW v \in Int
  PROVE  ToSet(s) \subseteq ToSet(Append(s, v))
<1>1. \A i \in 1..Len(s) : i \in 1..(Len(s) + 1) /\ Append(s, v)[i] = s[i]
  OBVIOUS
<1>2. DOMAIN s = 1..Len(s) /\ DOMAIN Append(s, v) = 1..(Len(s) + 1)
  OBVIOUS
<1> QED BY <1>1, <1>2 DEF ToSet

LEMMA StopAgrees ==
  ASSUME NEW ps \in Seq(Fused), NEW s \in Seq(Int), NEW stop
  PROVE  Hits(RunUntil(ps, s, stop), stop) <=> Hits(execute(ps, s), stop)
<1> DEFINE n == Len(s)
           f == Turns(ps, s, {})
           r == Turns(ps, s, stop)
           S == {k \in 0..n : \/ r[k] = f[k]
                              \/ /\ Hits(r[k], stop)
                                 /\ ToSet(r[k].out) \subseteq ToSet(f[k].out)}
<1>1. n \in Nat /\ \A k \in 1..n : s[k] \in Int /\ k - 1 \in 0..n
  OBVIOUS
<1>2. /\ f \in [0..n -> RunStates] /\ f[0] = Start(ps) /\ execute(ps, s) = f[n]
      /\ \A k \in 1..n : f[k] = Turn(f[k - 1], s[k], {})
  BY TurnsDef DEF execute
<1>3. \A k \in 1..n : f[k] = executeOne(f[k - 1], s[k])
  BY <1>2 DEF Turn
<1>4. /\ r[0] = Start(ps) /\ RunUntil(ps, s, stop) = r[n]
      /\ \A k \in 1..n : r[k] = Turn(r[k - 1], s[k], stop)
  BY TurnsDef
<1> HIDE DEF f, r, n
<1>5. 0 \in S
  BY <1>1, <1>2, <1>4
<1>6. ASSUME NEW k \in 1..n, k - 1 \in S PROVE k \in S
  <2>1. k - 1 \in 0..n /\ k \in 0..n /\ s[k] \in Int /\ f[k - 1] \in RunStates
    BY <1>1, <1>2
  <2>2. r[k] = Turn(r[k - 1], s[k], stop) /\ f[k] = executeOne(f[k - 1], s[k])
    BY <1>3, <1>4
  <2>3. ToSet(f[k - 1].out) \subseteq ToSet(f[k].out)
    <3>1. f[k - 1].out \in Seq(Int)
      BY <2>1 DEF RunStates
    <3> QED BY <3>1, <2>1, <2>2, OutGrows, ToSetAppend
  <2>4. CASE Hits(r[k - 1], stop)
    <3>1. r[k] = r[k - 1]
      BY <2>2, <2>4 DEF Turn, Hits
    <3>2. ToSet(r[k - 1].out) \subseteq ToSet(f[k - 1].out)
      BY <1>6
    <3> QED BY <3>1, <3>2, <2>1, <2>3, <2>4
  <2>5. CASE ~Hits(r[k - 1], stop)
    <3>1. r[k] = executeOne(r[k - 1], s[k])
      BY <2>2, <2>5 DEF Turn, Hits
    <3>2. r[k - 1] = f[k - 1]
      BY <1>6, <2>5
    <3> QED BY <3>1, <3>2, <2>1, <2>2
  <2> QED BY <2>4, <2>5
<1>7. 0..n \subseteq S
  <2> HIDE DEF S
  <2> QED BY <1>1, <1>5, <1>6, Upto
<1>8. \/ r[n] = f[n]
      \/ Hits(r[n], stop) /\ ToSet(r[n].out) \subseteq ToSet(f[n].out)
  <2>1. n \in 0..n
    BY <1>1
  <2> QED BY <2>1, <1>7
<1> QED BY <1>2, <1>4, <1>8 DEF Hits

\* A loop that stops at the first element that comes out has just that one.
LEMMA StopFirst ==
  ASSUME NEW ps \in Seq(Fused), NEW s \in Seq(Int)
  PROVE  RunUntil(ps, s, Int).out =
            IF execute(ps, s).out = <<>> THEN <<>> ELSE <<Head(execute(ps, s).out)>>
<1> DEFINE n == Len(s)
           f == Turns(ps, s, {})
           r == Turns(ps, s, Int)
           S == {k \in 0..n : /\ f[k].out = <<>> => r[k] = f[k]
                              /\ f[k].out # <<>> => r[k].out = <<Head(f[k].out)>>}
<1>1. n \in Nat /\ \A k \in 1..n : s[k] \in Int /\ k - 1 \in 0..n
  OBVIOUS
<1>2. /\ f \in [0..n -> RunStates] /\ f[0] = Start(ps) /\ execute(ps, s) = f[n]
      /\ \A k \in 1..n : f[k] = Turn(f[k - 1], s[k], {})
  BY TurnsDef DEF execute
<1>3. \A k \in 1..n : f[k] = executeOne(f[k - 1], s[k])
  BY <1>2 DEF Turn
<1>4. /\ r[0] = Start(ps) /\ RunUntil(ps, s, Int) = r[n]
      /\ \A k \in 1..n : r[k] = Turn(r[k - 1], s[k], Int)
  BY TurnsDef
<1> HIDE DEF f, r, n
<1>5. 0 \in S
  <2>1. 0 \in 0..n /\ f[0].out = <<>>
    BY <1>1, <1>2 DEF Start
  <2> QED BY <2>1, <1>2, <1>4
<1>6. ASSUME NEW k \in 1..n, k - 1 \in S PROVE k \in S
  <2>1. k - 1 \in 0..n /\ k \in 0..n /\ s[k] \in Int /\ f[k - 1] \in RunStates
    BY <1>1, <1>2
  <2>2. r[k] = Turn(r[k - 1], s[k], Int) /\ f[k] = executeOne(f[k - 1], s[k])
    BY <1>3, <1>4
  <2> DEFINE o == f[k - 1].out
             q == f[k].out
  <2>3. o \in Seq(Int) /\ (q = o \/ \E v \in Int : q = Append(o, v))
    BY <2>1, <2>2, OutGrows DEF RunStates
  <2> HIDE DEF o, q
  <2>4. CASE o = <<>>
    <3>1. r[k - 1] = f[k - 1] /\ r[k - 1].out = <<>>
      BY <1>6, <2>4 DEF o
    <3>2. ~Hits(r[k - 1], Int)
      BY <3>1 DEF Hits, ToSet
    <3>3. r[k] = f[k]
      BY <3>1, <3>2, <2>2 DEF Turn, Hits
    <3>4. q # <<>> => q = <<Head(q)>>
      BY <2>3, <2>4
    <3> QED BY <3>3, <3>4, <2>1 DEF q
  <2>5. CASE o # <<>>
    <3>1. r[k - 1].out = <<Head(o)>> /\ Head(o) \in Int
      BY <1>6, <2>3, <2>5 DEF o
    <3>2. Hits(r[k - 1], Int)
      <4>1. 1 \in DOMAIN <<Head(o)>> /\ <<Head(o)>>[1] = Head(o)
        OBVIOUS
      <4>2. Head(o) \in ToSet(r[k - 1].out)
        BY <4>1, <3>1 DEF ToSet
      <4> QED BY <4>2, <3>1 DEF Hits
    <3>3. r[k] = r[k - 1]
      BY <3>2, <2>2 DEF Turn, Hits
    <3>4. q # <<>> /\ Head(q) = Head(o)
      BY <2>3, <2>5
    <3> QED BY <3>1, <3>3, <3>4, <2>1 DEF q
  <2> QED BY <2>4, <2>5
<1>7. 0..n \subseteq S
  <2> HIDE DEF S
  <2> QED BY <1>1, <1>5, <1>6, Upto
<1>8. n \in S
  <2>1. n \in 0..n
    BY <1>1
  <2> QED BY <2>1, <1>7
<1>9. f[n].out = <<>> => r[n].out = <<>>
  BY <1>8
<1> QED BY <1>2, <1>4, <1>8, <1>9

-----------------------------------------------------------------------------
(* Streams: what terminal operations make of what comes out                *)

SumsOf(h, v, n) == h \in [0..n -> Int] /\ h[0] = 0 /\ \A k \in 1..n : h[k] = h[k - 1] + v[k]

LEMMA SumsExist ==
  ASSUME NEW n \in Nat, NEW v, \A k \in 1..n : v[k] \in Int
  PROVE  \E h : SumsOf(h, v, n)
<1> DEFINE G == [k \in 1..n |-> [x \in Int |-> x + v[k]]]
           X == Int
<1>1. G \in [1..n -> [X -> X]] /\ 0 \in X
  OBVIOUS
<1>2. PICK h : LoopOf(h, X, 0, n, G)
  <2> HIDE DEF G, X
  <2> QED BY <1>1, Recursion
<1>3. h \in [0..n -> Int] /\ h[0] = 0 /\ \A k \in 1..n : h[k] = G[k][h[k - 1]]
  BY <1>2 DEF LoopOf
<1>4. \A k \in 1..n : k - 1 \in 0..n /\ h[k - 1] \in Int
  BY <1>3
<1>5. \A k \in 1..n : h[k] = h[k - 1] + v[k]
  BY <1>3, <1>4
<1> QED BY <1>3, <1>5 DEF SumsOf

\* A sum does not depend on the end at which it begins.
LEMMA ReducedIsTotal ==
  ASSUME NEW s \in Seq(Int)
  PROVE  Reduced(s) = Total(s)
<1> DEFINE n == Len(s)
           IsUp(g) == g = [k \in 0..n |-> IF k = 0 THEN 0 ELSE g[k - 1] + s[k]]
           IsDown(g) == g = [k \in 0..n |-> IF k = 0 THEN 0 ELSE s[n + 1 - k] + g[k - 1]]
           up == CHOOSE g : IsUp(g)
           down == CHOOSE g : IsDown(g)
           w == [k \in 1..n |-> s[n + 1 - k]]
<1>1. n \in Nat /\ \A k \in 1..n : s[k] \in Int /\ n + 1 - k \in 1..n /\ k - 1 \in 0..n
  OBVIOUS
<1>2. Reduced(s) = up[n] /\ Total(s) = down[n]
  BY DEF Reduced, Total
<1> HIDE DEF n
<1>3. PICK h : SumsOf(h, s, n)
  BY <1>1, SumsExist
<1>4. IsUp(h)
  BY <1>1, <1>3 DEF SumsOf
<1>5. \A k \in 1..n : w[k] \in Int /\ w[k] = s[n + 1 - k]
  <2> TAKE k \in 1..n
  <2>1. n + 1 - k \in 1..n
    BY <1>1
  <2>2. s[n + 1 - k] \in Int
    BY <2>1, <1>1
  <2> QED BY <2>2
<1>a. PICK d : SumsOf(d, w, n)
  <2> HIDE DEF w
  <2> QED BY <1>1, <1>5, SumsExist
<1>6. d \in [0..n -> Int] /\ d[0] = 0 /\ \A k \in 1..n : d[k] = d[k - 1] + w[k]
  <2> HIDE DEF w
  <2> QED BY <1>a DEF SumsOf
<1>7. \A k \in 1..n : d[k - 1] \in Int /\ d[k] = s[n + 1 - k] + d[k - 1]
  <2> TAKE k \in 1..n
  <2> DEFINE x == d[k - 1]
             y == s[n + 1 - k]
  <2>1. x \in Int /\ y \in Int
    BY <1>1, <1>6
  <2>2. d[k] = x + w[k] /\ w[k] = y
    BY <1>5, <1>6
  <2> HIDE DEF x, y, w
  <2>3. d[k] = y + x
    BY <2>1, <2>2
  <2> QED BY <2>1, <2>3 DEF x, y
<1>8. IsDown(d)
  <2> HIDE DEF w
  <2>1. \A k \in 0..n : k = 0 \/ k \in 1..n
    BY <1>1
  <2>2. \A k \in 0..n : d[k] = IF k = 0 THEN 0 ELSE s[n + 1 - k] + d[k - 1]
    BY <2>1, <1>6, <1>7
  <2> QED BY <2>2, <1>6
<1>9. IsUp(up) /\ IsDown(down)
  BY <1>4, <1>8
<1> HIDE DEF up, down
<1>10. /\ up[0] = 0 /\ \A k \in 1..n : up[k] = up[k - 1] + s[k]
       /\ down[0] = 0 /\ \A k \in 1..n : down[k] = s[n + 1 - k] + down[k - 1]
  <2>1. 0 \in 0..n /\ \A k \in 1..n : k \in 0..n /\ k # 0
    BY <1>1
  <2>2. \A k \in 0..n : up[k] = IF k = 0 THEN 0 ELSE up[k - 1] + s[k]
    BY <1>9
  <2>3. \A k \in 0..n : down[k] = IF k = 0 THEN 0 ELSE s[n + 1 - k] + down[k - 1]
    BY <1>9
  <2> HIDE DEF IsUp, IsDown
  <2>4. up[0] = 0 /\ \A k \in 1..n : up[k] = up[k - 1] + s[k]
    BY <2>1, <2>2
  <2>5. down[0] = 0 /\ \A k \in 1..n : down[k] = s[n + 1 - k] + down[k - 1]
    BY <2>1, <2>3
  <2> QED BY <2>4, <2>5
<1>11. /\ \A k \in 0..n : up[k] \in Int
       /\ \A k \in 0..n : down[k] \in Int
  <2> DEFINE X == Int
  <2>1. ASSUME NEW k \in 1..n, up[k - 1] \in X PROVE up[k] \in X
    <3>1. up[k] = up[k - 1] + s[k] /\ s[k] \in Int
      BY <1>1, <1>10
    <3> QED BY <2>1, <3>1
  <2>2. ASSUME NEW k \in 1..n, down[k - 1] \in X PROVE down[k] \in X
    <3>1. down[k] = s[n + 1 - k] + down[k - 1] /\ s[n + 1 - k] \in Int
      BY <1>1, <1>10
    <3> QED BY <2>2, <3>1
  <2>3. up[0] \in X /\ down[0] \in X
    BY <1>10
  <2>4. (\A k \in 0..n : up[k] \in X) /\ (\A k \in 0..n : down[k] \in X)
    <3> HIDE DEF X
    <3> QED BY <1>1, <2>1, <2>2, <2>3, LoopIn
  <2> QED BY <2>4
<1> DEFINE S == {k \in 0..n : up[n - k] + down[k] = up[n]}
<1>12. 0 \in S
  BY <1>1, <1>10, <1>11
<1>13. ASSUME NEW k \in 1..n, k - 1 \in S PROVE k \in S
  <2>1. n - k \in 0..n /\ n - (k - 1) \in 1..n /\ (n - (k - 1)) - 1 = n - k
        /\ n + 1 - k = n - (k - 1)
    BY <1>1
  <2>2. up[n - (k - 1)] = up[n - k] + s[n + 1 - k] /\ down[k] = s[n + 1 - k] + down[k - 1]
    BY <2>1, <1>10
  <2>3. /\ up[n - (k - 1)] + down[k - 1] = up[n] /\ k \in 0..n /\ k - 1 \in 0..n
    BY <1>1, <1>13
  <2>4. up[n - k] \in Int /\ down[k - 1] \in Int /\ s[n + 1 - k] \in Int
    BY <2>1, <2>3, <1>1, <1>11
  <2> QED BY <2>2, <2>3, <2>4
<1>14. 0..n \subseteq S
  <2> HIDE DEF S
  <2> QED BY <1>1, <1>12, <1>13, Upto
<1>15. up[n - n] + down[n] = up[n] /\ n - n = 0 /\ down[n] \in Int /\ n \in 0..n
  <2>1. n \in 0..n
    BY <1>1
  <2> QED BY <2>1, <1>1, <1>11, <1>14
<1> QED BY <1>2, <1>10, <1>15

LEMMA MaxIs ==
  ASSUME NEW S \in SUBSET Int, NEW m \in S, \A x \in S : x <= m
  PROVE  Max(S) = m
<1>1. \A y \in S : m >= y
  OBVIOUS
<1>2. Max(S) \in S /\ \A y \in S : Max(S) >= y
  BY <1>1 DEF Max
<1>3. Max(S) >= m /\ Max(S) <= m /\ Max(S) \in Int /\ m \in Int
  BY <1>2
<1> QED BY <1>3

LEMMA MinIs ==
  ASSUME NEW S \in SUBSET Int, NEW m \in S, \A x \in S : m <= x
  PROVE  Min(S) = m
<1>1. \A y \in S : m =< y
  OBVIOUS
<1>2. Min(S) \in S /\ \A y \in S : Min(S) =< y
  BY <1>1 DEF Min
<1>3. Min(S) >= m /\ Min(S) <= m /\ Min(S) \in Int /\ m \in Int
  BY <1>2
<1> QED BY <1>3

\* No element that came out is better than the one the loop keeps.
LEMMA BestIs ==
  ASSUME NEW s \in Seq(Int), s # <<>>, NEW sign \in {1, -1}
  PROVE  \E m \in ToSet(s) : Best(s, sign) = <<m>> /\ \A x \in ToSet(s) : sign * x <= sign * m
<1> DEFINE n == Len(s) - 1
           IsLoop(g) == g = [k \in 0..n |->
               IF k = 0 THEN Head(s) ELSE Better(g[k - 1], s[k + 1], sign)]
           G == [k \in 1..n |-> [x \in Int |-> Better(x, s[k + 1], sign)]]
<1>1. /\ n \in Nat /\ Head(s) = s[1] /\ DOMAIN s = 1..(n + 1)
      /\ \A k \in 0..n : s[k + 1] \in Int
  OBVIOUS
<1>2. \A k \in 1..n : k \in 0..n /\ k - 1 \in 0..n
  BY <1>1
<1>3. \A x, v \in Int : /\ Better(x, v, sign) \in {x, v}
                        /\ sign * x <= sign * Better(x, v, sign)
                        /\ sign * v <= sign * Better(x, v, sign)
  <2>1. CASE sign = 1
    BY <2>1 DEF Better
  <2>2. CASE sign = -1
    BY <2>2 DEF Better
  <2> QED BY <2>1, <2>2
<1> HIDE DEF n
<1>4. G \in [1..n -> [Int -> Int]]
  BY <1>1, <1>2, <1>3
<1>5. PICK h : LoopOf(h, Int, Head(s), n, G)
  <2>1. Head(s) \in Int
    BY <1>1
  <2> HIDE DEF G
  <2> QED BY <2>1, <1>1, <1>4, Recursion
<1>6. h \in [0..n -> Int] /\ h[0] = Head(s)
      /\ \A k \in 1..n : h[k] = Better(h[k - 1], s[k + 1], sign)
  BY <1>1, <1>2, <1>5 DEF LoopOf
<1>7. IsLoop(h)
  BY <1>1, <1>6
<1> DEFINE f == CHOOSE g : IsLoop(g)
<1>8. IsLoop(f)
  BY <1>7
<1>9. Best(s, sign) = <<f[n]>>
  BY DEF Best, n
<1> HIDE DEF f
<1>10. f[0] = Head(s) /\ \A k \in 1..n : f[k] = Better(f[k - 1], s[k + 1], sign)
  <2>1. 0 \in 0..n /\ \A k \in 1..n : k \in 0..n /\ k # 0
    BY <1>1
  <2>2. \A k \in 0..n : f[k] = IF k = 0 THEN Head(s) ELSE Better(f[k - 1], s[k + 1], sign)
    BY <1>8
  <2> HIDE DEF IsLoop
  <2> QED BY <2>1, <2>2
<1> DEFINE Kept(k) == /\ \E i \in 0..k : f[k] = s[i + 1]
                      /\ \A i \in 0..k : sign * s[i + 1] <= sign * f[k]
           S == {k \in 0..n : Kept(k)}
<1>11. 0 \in S
  <2>1. \A i \in 0..0 : i = 0
    OBVIOUS
  <2>2. 0 \in 0..0 /\ 0 \in 0..n /\ 0 + 1 = 1
    BY <1>1
  <2>3. f[0] = s[0 + 1] /\ f[0] \in Int
    BY <2>2, <1>1, <1>10
  <2>4. sign * s[0 + 1] <= sign * f[0]
    BY <2>3
  <2>5. Kept(0)
    BY <2>1, <2>2, <2>3, <2>4
  <2> QED BY <2>2, <2>5
<1>12. ASSUME NEW k \in 1..n, k - 1 \in S PROVE k \in S
  <2>1. k \in 0..n /\ k - 1 \in 0..n /\ \A i \in 0..k : i \in 0..n /\ (i \in 0..(k - 1) \/ i = k)
    BY <1>1, <1>2
  <2>2. PICK i \in 0..(k - 1) : f[k - 1] = s[i + 1]
    BY <1>12
  <2>3. \A j \in 0..(k - 1) : sign * s[j + 1] <= sign * f[k - 1]
    BY <1>12
  <2> DEFINE a == f[k - 1]
             v == s[k + 1]
             b == f[k]
  <2>4. i \in 0..n /\ i \in 0..k /\ k \in 0..k
    BY <2>1
  <2>5. a \in Int /\ v \in Int /\ b = Better(a, v, sign)
    BY <2>1, <2>2, <2>4, <1>1, <1>10
  <2> HIDE DEF a, v, b
  <2>6. b \in {a, v} /\ b \in Int /\ sign * a <= sign * b /\ sign * v <= sign * b
    BY <2>5, <1>3
  <2>7. \E j \in 0..k : f[k] = s[j + 1]
    BY <2>2, <2>4, <2>6 DEF a, v, b
  <2>8. ASSUME NEW j \in 0..k PROVE sign * s[j + 1] <= sign * f[k]
    <3>1. CASE j = k
      BY <3>1, <2>6 DEF v, b
    <3>2. CASE j \in 0..(k - 1)
      <4>1. sign * s[j + 1] <= sign * a /\ s[j + 1] \in Int
        BY <3>2, <2>1, <2>3, <1>1 DEF a
      <4>2. sign * s[j + 1] <= sign * b
        <5> DEFINE u == s[j + 1]
        <5>1. sign * u <= sign * a /\ sign * a <= sign * b /\ u \in Int /\ a \in Int /\ b \in Int
          BY <4>1, <2>5, <2>6
        <5> HIDE DEF u
        <5>2. sign * u \in Int /\ sign * a \in Int /\ sign * b \in Int
          BY <5>1
        <5>3. sign * u <= sign * b
          BY <5>1, <5>2
        <5> QED BY <5>3 DEF u
      <4> QED BY <4>2 DEF b
    <3> QED BY <3>1, <3>2, <2>1
  <2>9. Kept(k)
    BY <2>7, <2>8
  <2> QED BY <2>1, <2>9
<1>13. 0..n \subseteq S
  <2> HIDE DEF S
  <2> QED BY <1>1, <1>11, <1>12, Upto
<1>14. Kept(n)
  <2>1. n \in 0..n
    BY <1>1
  <2> QED BY <2>1, <1>13
<1>15. PICK i \in 0..n : f[n] = s[i + 1]
  BY <1>14
<1>16. i + 1 \in 1..(n + 1)
  BY <1>1
<1>17. f[n] \in ToSet(s)
  BY <1>1, <1>15, <1>16 DEF ToSet
<1>18. ASSUME NEW x \in ToSet(s) PROVE sign * x <= sign * f[n]
  <2>1. PICK j \in 1..(n + 1) : x = s[j]
    BY <1>1 DEF ToSet
  <2>2. j - 1 \in 0..n /\ (j - 1) + 1 = j
    BY <1>1
  <2>3. sign * s[(j - 1) + 1] <= sign * f[n]
    BY <2>2, <1>14
  <2> QED BY <2>1, <2>2, <2>3
<1> QED BY <1>9, <1>17, <1>18

LEMMA BestOnes ==
  ASSUME NEW s \in Seq(Int), s # <<>>
  PROVE  Best(s, 1) = <<Max(ToSet(s))>> /\ Best(s, -1) = <<Min(ToSet(s))>>
<1>1. ToSet(s) \in SUBSET Int
  BY DEF ToSet
<1>2. Best(s, 1) = <<Max(ToSet(s))>>
  <2>1. PICK m \in ToSet(s) : Best(s, 1) = <<m>> /\ \A x \in ToSet(s) : 1 * x <= 1 * m
    BY BestIs
  <2>2. \A x \in ToSet(s) : x <= m
    BY <1>1, <2>1
  <2>3. Max(ToSet(s)) = m
    BY <1>1, <2>2, MaxIs
  <2> QED BY <2>1, <2>3
<1>3. Best(s, -1) = <<Min(ToSet(s))>>
  <2>1. PICK m \in ToSet(s) : Best(s, -1) = <<m>> /\ \A x \in ToSet(s) : (-1) * x <= (-1) * m
    BY BestIs
  <2>2. \A x \in ToSet(s) : m <= x
    BY <1>1, <2>1
  <2>3. Min(ToSet(s)) = m
    BY <1>1, <2>2, MinIs
  <2> QED BY <2>1, <2>3
<1> QED BY <1>2, <1>3

\* A set of places has a last one.
LEMMA LastPlace ==
  ASSUME NEW n \in Nat, NEW P \in SUBSET (0..n), P # {}
  PROVE  Max(P) \in P /\ \A y \in P : y <= Max(P)
<1> DEFINE Q(m) == {y \in P : y <= m}
           S == {m \in 0..n : Q(m) = {} \/ \E x \in Q(m) : \A y \in Q(m) : y <= x}
<1>1. 0 \in S
  <2>1. \A x \in Q(0) : x = 0
    OBVIOUS
  <2>2. 0 \in 0..n
    OBVIOUS
  <2> QED BY <2>1, <2>2
<1>2. ASSUME NEW m \in 1..n, m - 1 \in S PROVE m \in S
  <2>1. m \in 0..n /\ \A y \in P : y <= m <=> y <= m - 1 \/ y = m
    OBVIOUS
  <2>2. CASE m \in P
    <3>1. m \in Q(m) /\ \A y \in Q(m) : y <= m
      BY <2>2
    <3> QED BY <3>1, <2>1
  <2>3. CASE m \notin P
    <3>1. Q(m) = Q(m - 1)
      BY <2>1, <2>3
    <3> QED BY <3>1, <2>1, <1>2
  <2> QED BY <2>2, <2>3
<1>3. 0..n \subseteq S
  <2> HIDE DEF S
  <2> QED BY <1>1, <1>2, Upto
<1>a. n \in 0..n /\ Q(n) = P
  <2>1. \A y \in P : y <= n
    OBVIOUS
  <2>2. Q(n) = P
    BY <2>1
  <2>3. n \in 0..n
    OBVIOUS
  <2> QED BY <2>2, <2>3
<1>4. n \in S /\ Q(n) = P
  <2> HIDE DEF S, Q
  <2> QED BY <1>3, <1>a
<1>5. PICK x \in P : \A y \in P : y <= x
  BY <1>4
<1>6. \A y \in P : x >= y
  BY <1>5
<1>7. Max(P) \in P /\ \A y \in P : Max(P) >= y
  BY <1>6 DEF Max
<1> QED BY <1>7

KeyMaps == UNION {[D -> Int] : D \in SUBSET Int}

LEMMA WithKeyType ==
  ASSUME NEW m \in KeyMaps, NEW v \in Int
  PROVE  /\ WithKey(m, v) \in KeyMaps
         /\ DOMAIN WithKey(m, v) = DOMAIN m \cup {Key(v)}
         /\ \A k \in DOMAIN m : k # Key(v) => WithKey(m, v)[k] = m[k]
         /\ WithKey(m, v)[Key(v)] = v
<1>1. Key(v) \in Int
  BY DEF Key
<1>2. PICK D \in SUBSET Int : m \in [D -> Int]
  BY DEF KeyMaps
<1> DEFINE k0 == Key(v)
           E == D \cup {k0}
           w == WithKey(m, v)
<1>3. w = [k \in E |-> IF k = k0 THEN v ELSE m[k]]
  BY <1>2 DEF WithKey
<1>4. E \in SUBSET Int /\ DOMAIN m = D
  BY <1>1, <1>2
<1> HIDE DEF k0, w
<1>5. w \in [E -> Int]
  BY <1>2, <1>3
<1>6. w \in KeyMaps
  BY <1>4, <1>5 DEF KeyMaps
<1>7. DOMAIN w = D \cup {k0} /\ w[k0] = v /\ \A k \in D : k # k0 => w[k] = m[k]
  BY <1>3
<1> QED BY <1>4, <1>6, <1>7 DEF k0, w

\* Each key has the last element with it.
LEMMA KeyedIs ==
  ASSUME NEW s \in Seq(Int)
  PROVE  Keyed(s) = [k \in {Key(e) : e \in ToSet(s)} |->
                        s[Max({i \in DOMAIN s : Key(s[i]) = k})]]
<1> DEFINE n == Len(s)
           none == [key \in {} |-> ZeroValue]
           IsLoop(g) == g = [k \in 0..n |-> IF k = 0 THEN none ELSE WithKey(g[k - 1], s[k])]
           G == [k \in 1..n |-> [x \in KeyMaps |-> WithKey(x, s[k])]]
<1>1. n \in Nat /\ DOMAIN s = 1..n /\ \A k \in 1..n : s[k] \in Int /\ k - 1 \in 0..n
  OBVIOUS
<1>2. \A k \in 1..n : \A x \in KeyMaps : WithKey(x, s[k]) \in KeyMaps
  BY <1>1, WithKeyType
<1>3. G \in [1..n -> [KeyMaps -> KeyMaps]]
  BY <1>2
<1>4. none \in KeyMaps /\ DOMAIN none = {}
  <2>1. none \in [{} -> Int]
    OBVIOUS
  <2> QED BY <2>1 DEF KeyMaps
<1>5. Keyed(s) = (CHOOSE g : IsLoop(g))[n]
  BY DEF Keyed
<1> HIDE DEF n, none
<1>6. PICK h : LoopOf(h, KeyMaps, none, n, G)
  <2> HIDE DEF G
  <2> QED BY <1>1, <1>3, <1>4, Recursion
<1>7. h \in [0..n -> KeyMaps] /\ h[0] = none
      /\ \A k \in 1..n : h[k] = WithKey(h[k - 1], s[k])
  BY <1>1, <1>6 DEF LoopOf
<1>8. IsLoop(h)
  BY <1>1, <1>7
<1> DEFINE f == CHOOSE g : IsLoop(g)
<1>9. IsLoop(f)
  BY <1>8
<1> HIDE DEF f
<1>10. f[0] = none /\ \A k \in 1..n : f[k] = WithKey(f[k - 1], s[k])
  BY <1>1, <1>9
<1>11. \A k \in 0..n : f[k] \in KeyMaps
  <2>1. f[0] \in KeyMaps
    BY <1>4, <1>10
  <2>2. ASSUME NEW k \in 1..n, f[k - 1] \in KeyMaps PROVE f[k] \in KeyMaps
    <3>1. f[k] = WithKey(f[k - 1], s[k])
      BY <1>10
    <3> QED BY <2>2, <3>1, <1>2
  <2> QED BY <1>1, <2>1, <2>2, LoopIn
<1> DEFINE Latest(i, j) == \A l \in (i + 1)..j : Key(s[l]) # Key(s[i])
           Right(j) == /\ DOMAIN f[j] = {Key(s[i]) : i \in 1..j}
                       /\ \A i \in 1..j : Latest(i, j) => f[j][Key(s[i])] = s[i]
           S == {j \in 0..n : Right(j)}
<1>12. 0 \in S
  BY <1>1, <1>4, <1>10
<1>13. ASSUME NEW j \in 1..n, j - 1 \in S PROVE j \in S
  <2> DEFINE m == f[j - 1]
             v == s[j]
  <2>1. m \in KeyMaps /\ v \in Int /\ f[j] = WithKey(m, v)
    BY <1>1, <1>10, <1>11
  <2>2. j \in 0..n /\ 1..j = (1..(j - 1)) \cup {j}
    BY <1>1
  <2>3. /\ DOMAIN m = {Key(s[i]) : i \in 1..(j - 1)}
        /\ \A i \in 1..(j - 1) : Latest(i, j - 1) => m[Key(s[i])] = s[i]
    BY <1>13
  <2> HIDE DEF m, v
  <2>4. /\ DOMAIN f[j] = DOMAIN m \cup {Key(v)} /\ f[j][Key(v)] = v
        /\ \A k \in DOMAIN m : k # Key(v) => f[j][k] = m[k]
    <3>1. /\ DOMAIN WithKey(m, v) = DOMAIN m \cup {Key(v)}
          /\ \A k \in DOMAIN m : k # Key(v) => WithKey(m, v)[k] = m[k]
          /\ WithKey(m, v)[Key(v)] = v
      BY <2>1, WithKeyType
    <3> DEFINE w == WithKey(m, v)
    <3> HIDE DEF w
    <3>2. f[j] = w
      BY <2>1 DEF w
    <3> QED BY <3>1, <3>2 DEF w
  <2>5. DOMAIN f[j] = {Key(s[i]) : i \in 1..j}
    <3> HIDE DEF f
    <3> QED BY <2>2, <2>3, <2>4 DEF v
  <2>6. ASSUME NEW i \in 1..j, Latest(i, j) PROVE f[j][Key(s[i])] = s[i]
    <3>1. CASE i = j
      BY <3>1, <2>4 DEF v
    <3>2. CASE i # j
      <4>1. i \in 1..(j - 1) /\ j \in (i + 1)..j
        BY <3>2, <2>2
      <4>2. Key(v) # Key(s[i])
        BY <4>1, <2>6 DEF v
      <4>3. \A l \in (i + 1)..(j - 1) : l \in (i + 1)..j
        BY <4>1
      <4>4. Latest(i, j - 1)
        BY <4>3, <2>6
      <4>5. m[Key(s[i])] = s[i] /\ Key(s[i]) \in DOMAIN m
        BY <4>1, <4>4, <2>3
      <4> QED BY <4>2, <4>5, <2>4
    <3> QED BY <3>1, <3>2
  <2>7. Right(j)
    BY <2>5, <2>6
  <2> QED BY <2>2, <2>7
<1>14. 0..n \subseteq S
  <2> HIDE DEF S
  <2> QED BY <1>1, <1>12, <1>13, Upto
<1>15. Right(n)
  <2>1. n \in 0..n
    BY <1>1
  <2> QED BY <2>1, <1>14
<1> DEFINE keys == {Key(e) : e \in ToSet(s)}
           P(k) == {i \in DOMAIN s : Key(s[i]) = k}
<1>16. keys = {Key(s[i]) : i \in 1..n}
  BY <1>1 DEF ToSet
<1>17. ASSUME NEW k \in keys PROVE f[n][k] = s[Max(P(k))]
  <2> DEFINE p == P(k)
  <2>1. p \in SUBSET (0..n) /\ p # {}
    <3>1. PICK i \in 1..n : Key(s[i]) = k
      BY <1>16
    <3>2. i \in p
      BY <3>1, <1>1
    <3>3. p \subseteq 1..n
      BY <1>1
    <3>4. 1..n \subseteq 0..n
      BY <1>1
    <3> HIDE DEF p
    <3> QED BY <3>2, <3>3, <3>4
  <2> DEFINE i == Max(p)
  <2>2. i \in p /\ \A y \in p : y <= i
    <3> HIDE DEF p
    <3> QED BY <1>1, <2>1, LastPlace
  <2> HIDE DEF i
  <2>3. i \in 1..n /\ Key(s[i]) = k
    BY <2>2, <1>1
  <2>4. Latest(i, n)
    <3> SUFFICES ASSUME NEW l \in (i + 1)..n, Key(s[l]) = k PROVE FALSE
      BY <2>3
    <3>1. l \in 1..n /\ ~(l <= i)
      BY <2>3, <1>1
    <3> QED BY <3>1, <2>2, <1>1
  <2>5. f[n][Key(s[i])] = s[i]
    BY <2>3, <2>4, <1>15
  <2> QED BY <2>3, <2>5 DEF i
<1>18. f[n] = [k \in DOMAIN f[n] |-> f[n][k]] /\ DOMAIN f[n] = keys
  <2>1. PICK D \in SUBSET Int : f[n] \in [D -> Int]
    <3>1. f[n] \in KeyMaps
      BY <1>1, <1>11
    <3> QED BY <3>1 DEF KeyMaps
  <2> QED BY <2>1, <1>15, <1>16
<1>19. f[n] = [k \in keys |-> s[Max(P(k))]]
  <2> HIDE DEF keys, P
  <2> QED BY <1>17, <1>18
<1>20. Keyed(s) = f[n]
  BY <1>5 DEF f
<1> QED BY <1>19, <1>20

\* What a complete run hands to its caller.
LEMMA WholeValues ==
  ASSUME NEW o \in Seq(Int), NEW p
  PROVE  /\ o = SpecValue("slice", p, o) /\ o = SpecValue("each", p, o)
         /\ Len(o) = SpecValue("count", p, o)
         /\ Reduced(o) = SpecValue("reduce", p, o)
         /\ Keyed(o) = SpecValue("map", p, o)
         /\ Best(o, 1) = SpecValue("max", p, o)
         /\ Best(o, -1) = SpecValue("min", p, o)
<1>1. o = SpecValue("slice", p, o) /\ o = SpecValue("each", p, o)
      /\ Len(o) = SpecValue("count", p, o)
  BY DEF SpecValue
<1>2. Reduced(o) = SpecValue("reduce", p, o)
  BY ReducedIsTotal DEF SpecValue
<1>3. Keyed(o) = SpecValue("map", p, o)
  <2> DEFINE m == [k \in {Key(e) : e \in ToSet(o)} |->
                      o[Max({i \in DOMAIN o : Key(o[i]) = k})]]
  <2>1. SpecValue("map", p, o) = m
    BY DEF SpecValue
  <2>2. Keyed(o) = m
    BY KeyedIs
  <2> QED BY ONLY <2>1, <2>2
<1>4. Best(o, 1) = SpecValue("max", p, o) /\ Best(o, -1) = SpecValue("min", p, o)
  <2> DEFINE hi == <<Max(ToSet(o))>>
             lo == <<Min(ToSet(o))>>
  <2>1. /\ SpecValue("max", p, o) = IF o = <<>> THEN <<>> ELSE hi
        /\ SpecValue("min", p, o) = IF o = <<>> THEN <<>> ELSE lo
    BY DEF SpecValue
  <2>2. CASE o = <<>>
    <3>1. Best(o, 1) = <<>> /\ Best(o, -1) = <<>>
      BY <2>2 DEF Best
    <3> QED BY <2>1, <2>2, <3>1
  <2>3. CASE o # <<>>
    <3>1. Best(o, 1) = hi /\ Best(o, -1) = lo
      BY <2>3, BestOnes
    <3> QED BY <2>1, <2>3, <3>1
  <2> QED BY <2>2, <2>3
<1> QED BY <1>1, <1>2, <1>3, <1>4

Meets(out, p) == \E i \in DOMAIN out : out[i] \in p
Strays(out, p) == \E i \in DOMAIN out : out[i] \notin p

\* What the loops that return early hand to their caller.
LEMMA MatchValues ==
  ASSUME NEW ps \in Seq(Fused), NEW s \in Seq(Int), NEW p \in SUBSET Int
  PROVE  LET o == execute(ps, s).out
             r == RunUntil(ps, s, p)
             q == RunUntil(ps, s, Int \ p)
         IN  /\ Meets(r.out, p) = SpecValue("any", p, o)
             /\ (~Meets(r.out, p)) = SpecValue("no", p, o)
             /\ (~Strays(q.out, p)) = SpecValue("all", p, o)
<1> DEFINE x == execute(ps, s)
           o == x.out
           r == RunUntil(ps, s, p)
           q == RunUntil(ps, s, Int \ p)
<1>1. (Hits(r, p) <=> Hits(x, p)) /\ (Hits(q, Int \ p) <=> Hits(x, Int \ p))
  BY StopAgrees
<1>2. q.out \in Seq(Int) /\ o \in Seq(Int)
  BY TurnsDef DEF execute, RunStates
<1> HIDE DEF x, r, q
<1>3. (\E i \in DOMAIN r.out : r.out[i] \in p) <=> Hits(r, p)
  BY DEF Hits, ToSet
<1>4. (\E i \in DOMAIN q.out : q.out[i] \notin p) <=> Hits(q, Int \ p)
  <2>1. \A i \in DOMAIN q.out : q.out[i] \in Int
    BY <1>2
  <2> QED BY <2>1 DEF Hits, ToSet
<1>5. /\ SpecValue("any", p, o) = (ToSet(o) \cap p # {})
      /\ SpecValue("no", p, o) = (ToSet(o) \cap p = {})
      /\ SpecValue("all", p, o) = (ToSet(o) \subseteq p)
  BY DEF SpecValue
<1>6. /\ Hits(x, p) <=> ToSet(o) \cap p # {}
      /\ Hits(x, Int \ p) <=> ~(ToSet(o) \subseteq p)
  <2>1. ToSet(o) \subseteq Int
    BY <1>2 DEF ToSet
  <2> QED BY <2>1 DEF Hits
<1> DEFINE A == Meets(r.out, p)
           B == Strays(q.out, p)
<1>7. /\ A <=> ToSet(o) \cap p # {}
      /\ B <=> ~(ToSet(o) \subseteq p)
  BY <1>1, <1>3, <1>4, <1>6 DEF Meets, Strays
<1>8. A \in BOOLEAN /\ B \in BOOLEAN
  BY DEF Meets, Strays
<1> HIDE DEF A, B
<1>9. /\ A = SpecValue("any", p, o)
      /\ (~A) = SpecValue("no", p, o)
      /\ (~B) = SpecValue("all", p, o)
  BY <1>5, <1>7, <1>8
<1> QED BY <1>9 DEF A, B, x, r, q

LEMMA ReverseType ==
  ASSUME NEW s \in Seq(Int)
  PROVE  Reverse(s) \in Seq(Int) /\ Len(Reverse(s)) = Len(s)
<1> DEFINE n == Len(s)
<1>1. n \in Nat /\ \A i \in 1..n : s[(n - i) + 1] \in Int
  OBVIOUS
<1>2. Reverse(s) = [i \in 1..n |-> s[(n - i) + 1]]
  BY DEF Reverse
<1>3. Reverse(s) \in [1..n -> Int]
  BY <1>1, <1>2
<1> QED BY <1>1, <1>3

LEMMA EndValues ==
  ASSUME NEW ps \in Seq(Fused), NEW s \in Seq(Int), NEW p
  PROVE  LET o == execute(ps, s).out
             r == RunUntil(ps, s, Int)
         IN  /\ r.out = SpecValue("first", p, o)
             /\ r.out = SpecValue("last", p, Reverse(o))
<1> DEFINE o == execute(ps, s).out
           r == RunUntil(ps, s, Int)
           v == Reverse(o)
<1>1. r.out = IF o = <<>> THEN <<>> ELSE <<Head(o)>>
  BY StopFirst
<1>2. o \in Seq(Int)
  BY TurnsDef DEF execute, RunStates
<1> HIDE DEF o, r
<1>3. SpecValue("first", p, o) = IF o = <<>> THEN <<>> ELSE <<Head(o)>>
  BY DEF SpecValue
<1>4. SpecValue("last", p, v) = IF v = <<>> THEN <<>> ELSE <<v[Len(v)]>>
  BY DEF SpecValue
<1>5. v = [i \in 1..Len(o) |-> o[(Len(o) - i) + 1]]
  BY DEF Reverse
<1>6. Len(v) = Len(o) /\ Len(o) \in Nat
  BY <1>2, <1>5
<1>7. CASE o = <<>>
  <2>1. Len(v) = 0 /\ v = <<>>
    BY <1>5, <1>6, <1>7
  <2> QED BY <2>1, <1>1, <1>3, <1>4, <1>7 DEF o, r
<1>8. CASE o # <<>>
  <2>1. Len(o) \in 1..Len(o) /\ (Len(o) - Len(o)) + 1 = 1 /\ Head(o) = o[1]
    BY <1>2, <1>8
  <2>2. v[Len(v)] = Head(o)
    BY <2>1, <1>5, <1>6
  <2>3. v # <<>>
    BY <2>1, <1>6
  <2> QED BY <2>2, <2>3, <1>1, <1>3, <1>4, <1>8 DEF o, r
<1> QED BY <1>7, <1>8

-----------------------------------------------------------------------------
(* Streams: the invariant                                                  *)

StreamTypes ==
    /\ source \in Seq(Int) /\ initial \in Seq(Int) /\ Len(initial) <= Len(source)
    /\ stages \in Seq(Stages_) /\ Len(stages) <= MaxStages
    /\ progresses \in Seq(Fused) /\ Len(progresses) <= Len(stages)
    /\ peeked \in [Places -> Seq(Int)]
    /\ \A k \in 1..Len(stages) : stages[k].at = k /\ stages[k].index = 0
    /\ answer.runs \in 0..MaxRuns /\ answer.count \in Nat /\ answer.after \in 0..Len(stages)

\* A Limit has counted whatever came out since it was added.
LimitInv ==
    \A k \in 1..Len(progresses) :
        /\ progresses[k].index <= progresses[k].n
        /\ progresses[k].op = "limit"
              => answer.count - progresses[k].since <= progresses[k].index

\* A stream that no terminal operation has run: the stages since the last Sorted
\* wait, those before it have been run.
UnusedInv ==
    answer.runs = 0 =>
        /\ progresses = SubSeq(stages, LastSort + 1, Len(stages))
        /\ Clean =>
              /\ initial = Staged(LastSort)
              /\ \A k \in 1..LastSort : stages[k].op = "peek" => peeked[k] = Staged(k - 1)
              /\ \A a \in Places : a > LastSort => peeked[a] = <<>>

StreamInv == StreamTypes /\ LimitInv /\ UnusedInv /\ FusionIsStaged /\ PeekSees

LastSortIn(sts) == Max({0} \cup {k \in DOMAIN sts : sts[k].op = "sorted"})

CleanStages(sts) ==
    \A k \in DOMAIN sts :
        /\ sts[k].op # "skip"
        /\ sts[k].op = "sorted" => k > 1 /\ sts[k - 1].op # "sorted"

LEMMA LastSortIs ==
  ASSUME NEW sts \in Seq(Stages_)
  PROVE  /\ LastSortIn(sts) \in 0..Len(sts)
         /\ \A k \in 1..Len(sts) : k > LastSortIn(sts) => sts[k].op # "sorted"
         /\ \A l \in 0..Len(sts) :
               (l > 0 => sts[l].op = "sorted")
               /\ (\A k \in 1..Len(sts) : k > l => sts[k].op # "sorted") => l = LastSortIn(sts)
         /\ LastSortIn(sts) > 0 => sts[LastSortIn(sts)].op = "sorted"
<1> DEFINE n == Len(sts)
           P == {0} \cup {k \in DOMAIN sts : sts[k].op = "sorted"}
           m == Max(P)
<1>1. n \in Nat /\ DOMAIN sts = 1..n
  OBVIOUS
<1>2. P \in SUBSET (0..n) /\ P # {}
  BY <1>1
<1>3. m \in P /\ \A y \in P : y <= m
  <2> HIDE DEF P, n
  <2> QED BY <1>1, <1>2, LastPlace
<1> HIDE DEF m
<1>4. m \in 0..n /\ (m > 0 => sts[m].op = "sorted")
  BY <1>1, <1>2, <1>3
<1>5. \A k \in 1..n : k > m => sts[k].op # "sorted"
  BY <1>1, <1>3, <1>4
<1>6. ASSUME NEW l \in 0..n, l > 0 => sts[l].op = "sorted",
             \A k \in 1..n : k > l => sts[k].op # "sorted"
      PROVE  l = m
  <2>1. l \in P
    BY <1>6, <1>1
  <2>2. l <= m
    BY <2>1, <1>3
  <2>3. ~(l < m)
    <3> SUFFICES ASSUME l < m PROVE FALSE
      OBVIOUS
    <3>1. m > 0 /\ m \in 1..n
      BY <1>4
    <3> QED BY <3>1, <1>4, <1>6
  <2> QED BY <2>2, <2>3, <1>4
<1>7. LastSortIn(sts) = m
  BY DEF LastSortIn, m
<1> HIDE DEF P
<1> QED BY <1>4, <1>5, <1>6, <1>7

LEMMA LastSortAppend ==
  ASSUME NEW sts \in Seq(Stages_), NEW st \in Stages_
  PROVE  LastSortIn(Append(sts, st)) = IF st.op = "sorted" THEN Len(sts) + 1
                                       ELSE LastSortIn(sts)
<1> DEFINE n == Len(sts)
           more == Append(sts, st)
           l == LastSortIn(sts)
<1>1. n \in Nat /\ more \in Seq(Stages_) /\ Len(more) = n + 1 /\ more[n + 1] = st
      /\ \A k \in 1..n : more[k] = sts[k]
  OBVIOUS
<1>2. /\ l \in 0..n /\ (l > 0 => sts[l].op = "sorted")
      /\ \A k \in 1..n : k > l => sts[k].op # "sorted"
  BY LastSortIs
<1> HIDE DEF more, l, n
<1>3. \A m \in 0..Len(more) :
         (m > 0 => more[m].op = "sorted")
         /\ (\A k \in 1..Len(more) : k > m => more[k].op # "sorted") => m = LastSortIn(more)
  BY <1>1, LastSortIs
<1>4. CASE st.op = "sorted"
  <2>1. n + 1 \in 0..Len(more) /\ more[n + 1].op = "sorted"
        /\ \A k \in 1..Len(more) : ~(k > n + 1)
    BY <1>1, <1>4
  <2>2. n + 1 = LastSortIn(more)
    BY <2>1, <1>3
  <2> QED BY <2>2, <1>4 DEF more, n
<1>5. CASE st.op # "sorted"
  <2>1. l \in 0..Len(more) /\ (l > 0 => more[l].op = "sorted")
    BY <1>1, <1>2
  <2>2. ASSUME NEW k \in 1..Len(more), k > l PROVE more[k].op # "sorted"
    <3>1. k = n + 1 \/ k \in 1..n
      BY <1>1
    <3> QED BY <3>1, <2>2, <1>1, <1>2, <1>5
  <2>3. l = LastSortIn(more)
    BY <2>1, <2>2, <1>3
  <2> QED BY <2>3, <1>5 DEF more, l
<1> QED BY <1>4, <1>5

LEMMA CleanAppend ==
  ASSUME NEW sts \in Seq(Stages_), NEW st \in Stages_, CleanStages(Append(sts, st))
  PROVE  /\ CleanStages(sts)
         /\ st.op = "sorted" => sts # <<>> /\ sts[Len(sts)].op # "sorted"
<1> DEFINE n == Len(sts)
           more == Append(sts, st)
<1>1. n \in Nat /\ DOMAIN sts = 1..n /\ DOMAIN more = 1..(n + 1) /\ more[n + 1] = st
      /\ \A k \in 1..n : more[k] = sts[k] /\ k \in 1..(n + 1)
  OBVIOUS
<1>2. \A k \in 1..(n + 1) : /\ more[k].op # "skip"
                            /\ more[k].op = "sorted" => k > 1 /\ more[k - 1].op # "sorted"
  BY <1>1 DEF CleanStages
<1> HIDE DEF more
<1>3. ASSUME NEW k \in 1..n
      PROVE  sts[k].op # "skip" /\ (sts[k].op = "sorted" => k > 1 /\ sts[k - 1].op # "sorted")
  <2>1. k > 1 => k - 1 \in 1..n
    OBVIOUS
  <2> QED BY <2>1, <1>1, <1>2
<1>4. ASSUME st.op = "sorted" PROVE sts # <<>> /\ sts[n].op # "sorted"
  <2>1. n + 1 \in 1..(n + 1) /\ (n + 1) - 1 = n
    BY <1>1
  <2>2. n + 1 > 1 /\ more[n].op # "sorted"
    BY <2>1, <1>1, <1>2, <1>4
  <2>3. n \in 1..n
    BY <2>2, <1>1
  <2> QED BY <2>2, <2>3, <1>1
<1> QED BY <1>1, <1>3, <1>4 DEF CleanStages

LEMMA UnusedFresh ==
  ASSUME StreamTypes, UnusedInv, answer.runs = 0, Clean, progresses # <<>>
  PROVE  /\ LastSort \in 0..Len(stages)
         /\ progresses = SubSeq(stages, LastSort + 1, Len(stages))
         /\ Len(progresses) = Len(stages) - LastSort
         /\ \A k \in 1..Len(progresses) : progresses[k] = stages[LastSort + k]
         /\ Fresh(progresses)
<1> DEFINE l == LastSort
           n == Len(stages)
           m == Len(progresses)
<1>1. /\ stages \in Seq(Stages_) /\ n \in Nat /\ progresses \in Seq(Fused) /\ m \in Nat
      /\ \A k \in 1..n : stages[k].at = k /\ stages[k].index = 0
  BY DEF StreamTypes
<1>2. l \in 0..n
  BY <1>1, LastSortIs DEF LastSort, LastSortIn
<1>3. progresses = SubSeq(stages, l + 1, n)
  BY DEF UnusedInv
<1> HIDE DEF l
<1>4. m = n - l /\ \A k \in 1..m : progresses[k] = stages[l + k] /\ l + k \in 1..n
  <2> DEFINE rest == SubSeq(stages, l + 1, n)
  <2> HIDE DEF n
  <2>1. Len(rest) = n - l /\ \A k \in 1..(n - l) : rest[k] = stages[l + k]
    BY <1>1, <1>2 DEF n
  <2>2. \A k \in 1..(n - l) : l + k \in 1..n
    BY <1>1, <1>2
  <2> HIDE DEF rest
  <2>3. progresses = rest
    BY <1>3 DEF rest
  <2> QED BY <2>1, <2>2, <2>3
<1>5. \A k \in 1..n : stages[k].op # "skip"
  <2>1. DOMAIN stages = 1..n
    BY <1>1
  <2> HIDE DEF n
  <2> QED BY <2>1, Zenon DEF Clean
<1>6. Fresh(progresses)
  <2>1. \A k \in 1..m : progresses[k].op # "skip" /\ progresses[k].index = 0
                        /\ progresses[k].at = l + k
    BY <1>1, <1>4, <1>5
  <2>2. \A j, k \in 1..m : progresses[j].at = progresses[k].at => j = k
    BY <2>1, <1>2
  <2> QED BY <2>1, <2>2, <1>1 DEF Fresh
<1> QED BY <1>2, <1>3, <1>4, <1>6 DEF l

\* A complete run of a stream that none has run.
LEMMA UnusedRun ==
  ASSUME StreamTypes, UnusedInv, answer.runs = 0, Clean, progresses # <<>>
  PROVE  /\ execute(progresses, initial).out = Staged(Len(stages))
         /\ \A k \in 1..Len(stages) : stages[k].op = "peek" =>
               WithCalls(execute(progresses, initial).seen)[k] = Staged(k - 1)
         /\ \A a \in Places : a > Len(stages) =>
               WithCalls(execute(progresses, initial).seen)[a] = <<>>
<1> DEFINE l == LastSort
           n == Len(stages)
           m == Len(progresses)
           r == execute(progresses, initial)
           b == Between(source, stages)
           d == Between(initial, progresses)
<1>1. /\ stages \in Seq(Stages_) /\ n \in Nat /\ progresses \in Seq(Fused) /\ m \in Nat
      /\ \A k \in 1..n : stages[k].at = k
      /\ n <= MaxStages /\ source \in Seq(Int) /\ initial \in Seq(Int)
      /\ peeked \in [Places -> Seq(Int)]
  BY DEF StreamTypes
<1>2. /\ l \in 0..n /\ progresses = SubSeq(stages, l + 1, n) /\ m = n - l
      /\ \A k \in 1..m : progresses[k] = stages[l + k]
      /\ Fresh(progresses)
  BY UnusedFresh
<1>3. /\ initial = b[l]
      /\ \A k \in 1..l : stages[k].op = "peek" => peeked[k] = b[k - 1]
      /\ \A a \in Places : a > l => peeked[a] = <<>>
  BY DEF UnusedInv, Staged
<1>4. \A k \in 0..m : d[k] = b[l + k]
  <2> DEFINE rest == SubSeq(stages, l + 1, n)
  <2>1. /\ Len(rest) = n - l
        /\ \A k \in 0..Len(rest) : Between(b[l], rest)[k] = b[l + k]
    <3> HIDE DEF l
    <3> QED BY <1>1, <1>2, BetweenRest
  <2> QED BY <2>1, <1>2, <1>3
<1>5. \A k \in 0..n : b[k] \in Seq(Int)
  BY <1>1, BetweenDef
<1>6. FusedInv(r, progresses, initial)
  BY <1>1, <1>2, FusedRun
<1>7. /\ r.seen \in [Places -> Seq(Int)] /\ r.out = d[m]
      /\ \A k \in 1..m : progresses[k].op = "peek" => r.seen[progresses[k].at] = d[k - 1]
      /\ \A a \in Places : ~PeekAt(progresses, a) => r.seen[a] = <<>>
  BY <1>6 DEF FusedInv, RunStates
<1>8. \A a \in Places : WithCalls(r.seen)[a] = peeked[a] \o r.seen[a]
  BY DEF WithCalls
<1>9. \A k \in 1..n : k \in Places
  BY <1>1, PipelineAssumption DEF Places
<1>10. Staged(n) = b[n] /\ \A k \in 1..n : Staged(k - 1) = b[k - 1] /\ k - 1 \in 0..n
  BY <1>1 DEF Staged
<1> HIDE DEF l, n, m, r, b, d
<1>11. r.out = b[n]
  <2>1. m \in 0..m /\ l + m = n
    BY <1>1, <1>2
  <2> QED BY <2>1, <1>4, <1>7
<1>12. \A k \in 1..m : progresses[k].at = l + k /\ l + k \in 1..n
  BY <1>1, <1>2
<1>13. ASSUME NEW a \in Places, ~PeekAt(progresses, a) PROVE r.seen[a] = <<>>
  BY <1>7, <1>13
<1>14. \A s \in Seq(Int) : s \o <<>> = s /\ <<>> \o s = s
  BY ConcatEmptySeq
<1>15. ASSUME NEW k \in 1..n, stages[k].op = "peek"
       PROVE  WithCalls(r.seen)[k] = b[k - 1]
  <2>1. k \in Places /\ k - 1 \in 0..n /\ b[k - 1] \in Seq(Int)
    BY <1>5, <1>9, <1>10
  <2>2. CASE k <= l
    <3>1. k \in 1..l
      BY <2>2, <1>2
    <3>2. ~PeekAt(progresses, k)
      <4>0. m \in Nat /\ l \in Nat /\ k \in Nat /\ k <= l
        BY <3>1, <1>1, <1>2
      <4>1. \A j \in 1..m : l + j # k
        BY <4>0
      <4>2. \A j \in 1..m : progresses[j].at # k
        BY <4>1, <1>12
      <4> QED BY <4>2 DEF PeekAt, m
    <3>3. peeked[k] = b[k - 1] /\ r.seen[k] = <<>>
      BY <3>1, <3>2, <2>1, <1>3, <1>7, <1>15
    <3> QED BY <3>3, <2>1, <1>8, <1>14
  <2>3. CASE ~(k <= l)
    <3> DEFINE j == k - l
    <3>1. j \in 1..m /\ l + j = k /\ l + (j - 1) = k - 1 /\ j - 1 \in 0..m /\ k > l
      BY <2>3, <1>1, <1>2
    <3> HIDE DEF j
    <3>2. progresses[j] = stages[k] /\ progresses[j].at = k
      BY <3>1, <1>2, <1>12
    <3>3. r.seen[k] = d[j - 1]
      BY <3>1, <3>2, <1>7, <1>15
    <3>4. d[j - 1] = b[k - 1]
      BY <3>1, <1>4
    <3>5. peeked[k] = <<>>
      BY <3>1, <2>1, <1>3
    <3> QED BY <3>3, <3>4, <3>5, <2>1, <1>8, <1>14
  <2> QED BY <2>2, <2>3
<1>16. ASSUME NEW a \in Places, a > n
       PROVE  WithCalls(r.seen)[a] = <<>>
  <2>1. a \in Nat
    BY DEF Places
  <2>2. ~PeekAt(progresses, a)
    <3>1. \A j \in 1..m : progresses[j].at # a
      BY <2>1, <1>1, <1>12, <1>16
    <3> QED BY <3>1 DEF PeekAt, m
  <2>3. peeked[a] = <<>> /\ r.seen[a] = <<>>
    <3>1. a > l
      BY <2>1, <1>1, <1>2, <1>16
    <3> QED BY <3>1, <2>2, <1>3, <1>7
  <2>4. <<>> \o <<>> = <<>>
    OBVIOUS
  <2> QED BY <2>3, <2>4, <1>8
<1> QED BY <1>10, <1>11, <1>15, <1>16 DEF l, n, m, r, b, d

\* And that of Last.
LEMMA UnusedLast ==
  ASSUME StreamTypes, UnusedInv, answer.runs = 0, Clean, progresses # <<>>
  PROVE  execute(progresses, Reverse(initial)).out = Backwards
<1> DEFINE back == Reverse(initial)
<1>1. /\ LastSort \in 0..Len(stages)
      /\ progresses = SubSeq(stages, LastSort + 1, Len(stages))
      /\ Len(progresses) = Len(stages) - LastSort
      /\ Fresh(progresses)
  BY UnusedFresh
<1>2. initial = Staged(LastSort)
  BY DEF UnusedInv
<1>3. back \in Seq(Int)
  BY ReverseType DEF StreamTypes
<1>4. FusedInv(execute(progresses, back), progresses, back)
  BY <1>1, <1>3, FusedRun
<1>5. execute(progresses, back).out = Between(back, progresses)[Len(progresses)]
  BY <1>4 DEF FusedInv
<1>6. Backwards = Between(Reverse(Staged(LastSort)), progresses)[Len(stages) - LastSort]
  BY <1>1 DEF Backwards
<1> QED BY <1>1, <1>2, <1>5, <1>6

-----------------------------------------------------------------------------
(* Streams: every operation keeps the invariant                            *)

LEMMA StreamStart == PipeInit => StreamInv
<1> SUFFICES ASSUME PipeInit PROVE StreamInv
  OBVIOUS
<1>1. source \in Seq(Int) /\ initial = source /\ progresses = <<>> /\ stages = <<>>
      /\ peeked = NoCalls /\ answer = NoAnswer
  BY PipelineAssumption DEF PipeInit
<1>2. answer.runs = 0 /\ answer.count = 0 /\ answer.after = 0
  BY <1>1 DEF NoAnswer
<1>3. NoCalls \in [Places -> Seq(Int)] /\ \A a \in Places : NoCalls[a] = <<>>
  BY DEF NoCalls
<1>4. stages \in Seq(Stages_) /\ progresses \in Seq(Fused) /\ Len(stages) = 0
      /\ Len(progresses) = 0
  BY <1>1
<1>5. StreamTypes
  BY <1>1, <1>2, <1>3, <1>4, PipelineAssumption DEF StreamTypes
<1>6. LimitInv
  BY <1>4 DEF LimitInv
<1>7. LastSort = 0
  <2>1. LastSortIn(stages) \in 0..0
    BY <1>4, LastSortIs
  <2> QED BY <2>1 DEF LastSort, LastSortIn
<1>8. initial = Staged(0)
  BY <1>1, <1>4, BetweenDef DEF Staged
<1>9. progresses = SubSeq(stages, 0 + 1, Len(stages))
  BY <1>1
<1>10. UnusedInv
  BY <1>1, <1>3, <1>7, <1>8, <1>9 DEF UnusedInv
<1> QED BY <1>2, <1>5, <1>6, <1>10 DEF StreamInv, FusionIsStaged, PeekSees, RunOnce

\* A stage that an intermediate operation makes.
NewStage(st, ops) ==
    /\ st \in StageSet(ops)
    /\ st.at = Len(stages) + 1 /\ st.index = 0 /\ st.since = answer.count

LEMMA StageIs ==
  ASSUME StreamTypes, Len(stages) < MaxStages, NEW op,
         NEW p \in SUBSET Int, NEW m \in Nat
  PROVE  /\ NewStage(Stage(op), {op})
         /\ NewStage([Stage(op) EXCEPT !.keep = p], {op})
         /\ NewStage([Stage(op) EXCEPT !.n = m], {op})
<1>1. Len(stages) \in Nat /\ answer.count \in Nat
  BY DEF StreamTypes
<1>2. Len(stages) + 1 \in Places
  BY <1>1, PipelineAssumption DEF Places
<1> QED BY <1>1, <1>2 DEF Stage, NewStage, StageSet

\* One more place in the history.
LEMMA StageAdded ==
  ASSUME StreamTypes, NEW st, NewStage(st, FusedOps \cup {"sorted"}),
         Len(stages) < MaxStages, stages' = Append(stages, st), source' = source,
         answer' = answer
  PROVE  /\ st \in Stages_ /\ stages' \in Seq(Stages_) /\ Len(stages') = Len(stages) + 1
         /\ Len(stages') <= MaxStages
         /\ \A k \in 1..Len(stages') : stages'[k].at = k /\ stages'[k].index = 0
         /\ \A k \in 1..Len(stages) : stages'[k] = stages[k]
         /\ \A k \in 0..Len(stages) : Staged(k)' = Staged(k)
         /\ Staged(Len(stages))' = Apply(Staged(Len(stages)), st)
         /\ LastSort' = IF st.op = "sorted" THEN Len(stages) + 1 ELSE LastSort
         /\ Clean' => Clean /\ (st.op = "sorted" => stages # <<>>
                                                    /\ stages[Len(stages)].op # "sorted")
         /\ answer'.after \in 0..Len(stages') /\ answer'.after # Len(stages')
<1> DEFINE n == Len(stages)
<1>1. /\ stages \in Seq(Stages_) /\ n \in Nat /\ st \in Stages_ /\ source \in Seq(Int)
      /\ st.at = n + 1 /\ st.index = 0
      /\ \A k \in 1..n : stages[k].at = k /\ stages[k].index = 0
      /\ answer.after \in 0..n
  BY DEF StreamTypes, NewStage, Stages_
<1>2. /\ stages' \in Seq(Stages_) /\ Len(stages') = n + 1 /\ stages'[n + 1] = st
      /\ \A k \in 1..n : stages'[k] = stages[k]
  BY <1>1
<1>3. \A k \in 1..Len(stages') : stages'[k].at = k /\ stages'[k].index = 0
  <2> TAKE k \in 1..Len(stages')
  <2>1. k \in 1..n \/ k = n + 1
    BY <1>1, <1>2
  <2> HIDE DEF n
  <2> QED BY <2>1, <1>1, <1>2
<1>4. /\ \A k \in 0..n : Staged(k)' = Staged(k)
      /\ Staged(Len(stages))' = Apply(Staged(n), st)
  <2> DEFINE more == Append(stages, st)
             b == Between(source, stages)
             c == Between(source, more)
  <2>1. (\A k \in 0..n : c[k] = b[k]) /\ c[n + 1] = Apply(b[n], st)
    BY <1>1, BetweenAppend
  <2>2. (\A k \in 0..n : Staged(k)' = c[k]) /\ Staged(Len(stages))' = c[n + 1]
    BY <1>2 DEF Staged
  <2>3. (\A k \in 0..n : Staged(k) = b[k]) /\ Staged(n) = b[n]
    BY DEF Staged
  <2> HIDE DEF b, c, n
  <2> QED BY <2>1, <2>2, <2>3
<1>5. LastSort' = IF st.op = "sorted" THEN n + 1 ELSE LastSort
  <2>1. LastSortIn(Append(stages, st)) = IF st.op = "sorted" THEN n + 1 ELSE LastSortIn(stages)
    BY <1>1, LastSortAppend
  <2>2. LastSort = LastSortIn(stages) /\ LastSort' = LastSortIn(stages')
    BY DEF LastSort, LastSortIn
  <2> QED BY <2>1, <2>2
<1>6. Clean' => Clean /\ (st.op = "sorted" => stages # <<>> /\ stages[n].op # "sorted")
  <2>1. CleanStages(Append(stages, st)) =>
           CleanStages(stages)
           /\ (st.op = "sorted" => stages # <<>> /\ stages[Len(stages)].op # "sorted")
    BY <1>1, CleanAppend
  <2> QED BY <2>1 DEF Clean, CleanStages
<1>7. n + 1 <= MaxStages
  BY <1>1, PipelineAssumption
<1>8. answer'.after \in 0..Len(stages') /\ answer'.after # Len(stages')
  BY <1>1, <1>2
<1> QED BY <1>1, <1>2, <1>3, <1>4, <1>5, <1>6, <1>7, <1>8

LEMMA AddKeeps ==
  ASSUME StreamInv, NEW st, NewStage(st, FusedOps), AddStage(st)
  PROVE  StreamInv'
<1> DEFINE n == Len(stages)
           m == Len(progresses)
<1>1. /\ n < MaxStages /\ progresses' = Append(progresses, st) /\ stages' = Append(stages, st)
      /\ initial' = initial /\ peeked' = peeked /\ source' = source /\ answer' = answer
  BY DEF AddStage
<1>2. /\ StreamTypes /\ LimitInv /\ UnusedInv
      /\ stages \in Seq(Stages_) /\ progresses \in Seq(Fused) /\ n \in Nat /\ m \in Nat /\ m <= n
  BY DEF StreamInv, StreamTypes
<1>3. st \in Fused /\ NewStage(st, FusedOps \cup {"sorted"}) /\ st.op # "sorted"
  BY DEF NewStage, Fused, StageSet, FusedOps
<1>4. /\ stages' \in Seq(Stages_) /\ Len(stages') = n + 1 /\ Len(stages') <= MaxStages
      /\ \A k \in 1..Len(stages') : stages'[k].at = k /\ stages'[k].index = 0
      /\ \A k \in 1..n : stages'[k] = stages[k]
      /\ \A k \in 0..n : Staged(k)' = Staged(k)
      /\ LastSort' = LastSort
      /\ Clean' => Clean
      /\ answer'.after \in 0..Len(stages') /\ answer'.after # Len(stages')
  BY <1>1, <1>2, <1>3, StageAdded
<1>5. progresses' \in Seq(Fused) /\ Len(progresses') = m + 1 /\ progresses'[m + 1] = st
      /\ \A k \in 1..m : progresses'[k] = progresses[k]
  BY <1>1, <1>2, <1>3
<1>6. StreamTypes'
  <2>1. Len(progresses') <= Len(stages')
    BY <1>2, <1>4, <1>5
  <2> QED BY <2>1, <1>1, <1>2, <1>4, <1>5 DEF StreamTypes
<1>7. LimitInv'
  <2> SUFFICES ASSUME NEW k \in 1..Len(progresses')
               PROVE  /\ progresses'[k].index <= progresses'[k].n
                      /\ progresses'[k].op = "limit" =>
                            answer'.count - progresses'[k].since <= progresses'[k].index
    BY DEF LimitInv
  <2>1. k \in 1..m \/ k = m + 1
    BY <1>2, <1>5
  <2>2. CASE k \in 1..m
    <3>1. progresses'[k] = progresses[k]
      BY <2>2, <1>5
    <3> QED BY <3>1, <2>2, <1>1, <1>2 DEF LimitInv
  <2>3. CASE k = m + 1
    <3>1. st.index = 0 /\ st.n \in Nat /\ st.since = answer.count /\ answer.count \in Nat
      BY <1>2, <1>3 DEF NewStage, Fused, StageSet, StreamTypes
    <3>2. progresses'[k] = st
      BY <2>3, <1>5
    <3> QED BY <3>1, <3>2, <1>1
  <2> QED BY <2>1, <2>2, <2>3
<1>8. UnusedInv'
  <2> SUFFICES ASSUME answer.runs = 0
               PROVE  /\ progresses' = SubSeq(stages', LastSort' + 1, Len(stages'))
                      /\ Clean' =>
                           /\ initial' = Staged(LastSort)'
                           /\ \A k \in 1..LastSort' : stages'[k].op = "peek" =>
                                 peeked'[k] = Staged(k - 1)'
                           /\ \A a \in Places : a > LastSort' => peeked'[a] = <<>>
    BY <1>1 DEF UnusedInv
  <2> DEFINE l == LastSort
  <2>1. l \in 0..n
    BY <1>2, LastSortIs DEF LastSort, LastSortIn
  <2>2. progresses = SubSeq(stages, l + 1, n)
    BY <1>2 DEF UnusedInv
  <2>3. progresses' = SubSeq(stages', l + 1, n + 1)
    <3> DEFINE rest == SubSeq(stages', l + 1, n + 1)
    <3> HIDE DEF l
    <3>1. /\ rest \in Seq(Stages_) /\ Len(rest) = (n + 1) - l
          /\ \A k \in 1..((n + 1) - l) : rest[k] = stages'[l + k]
      BY <1>2, <1>4, <2>1
    <3>2. m = n - l /\ \A k \in 1..m : progresses[k] = stages[l + k] /\ l + k \in 1..n
      BY <1>2, <2>1, <2>2
    <3>3. \A k \in 1..(m + 1) : rest[k] = progresses'[k]
      <4> TAKE k \in 1..(m + 1)
      <4>1. k \in 1..((n + 1) - l)
        BY <3>2, <1>2, <2>1
      <4>2. rest[k] = stages'[l + k]
        BY <4>1, <3>1
      <4>3. CASE k \in 1..m
        BY <4>2, <4>3, <3>2, <1>4, <1>5
      <4>4. CASE k = m + 1
        <5>1. l + k = n + 1
          BY <4>4, <3>2, <1>2, <2>1
        <5>2. stages'[n + 1] = st
          BY <1>1, <1>2
        <5> QED BY <5>1, <5>2, <4>2, <4>4, <1>5
      <4>5. k \in 1..m \/ k = m + 1
        BY <1>2
      <4> QED BY <4>3, <4>4, <4>5
    <3>4. Len(rest) = m + 1
      BY <3>1, <3>2, <1>2, <2>1
    <3>5. progresses' \in Seq(Stages_)
      BY <1>5, FusedStages, SeqMonotonic
    <3> HIDE DEF rest
    <3>6. rest = progresses'
      BY <3>1, <3>3, <3>4, <3>5, <1>5, SeqEqual
    <3> QED BY <3>6 DEF rest
  <2>4. ASSUME Clean'
        PROVE  /\ initial' = Staged(LastSort)'
               /\ \A k \in 1..LastSort' : stages'[k].op = "peek" =>
                     peeked'[k] = Staged(k - 1)'
               /\ \A a \in Places : a > LastSort' => peeked'[a] = <<>>
    <3>1. /\ initial = Staged(l)
          /\ \A k \in 1..l : stages[k].op = "peek" => peeked[k] = Staged(k - 1)
          /\ \A a \in Places : a > l => peeked[a] = <<>>
      BY <2>4, <1>2, <1>4 DEF UnusedInv
    <3>2. Staged(LastSort)' = Staged(l)
      <4>1. Staged(LastSort)' = Between(source', stages')[LastSort']
        BY DEF Staged
      <4>2. Between(source', stages')[l] = Staged(l)
        BY <1>4, <2>1 DEF Staged
      <4> QED BY <4>1, <4>2, <1>4
    <3>3. \A k \in 1..l : k \in 1..n /\ k - 1 \in 0..n
      BY <2>1, <1>2
    <3> HIDE DEF l
    <3>4. \A k \in 1..l : stages'[k] = stages[k] /\ Staged(k - 1)' = Staged(k - 1)
      BY <3>3, <1>4
    <3> QED BY <3>1, <3>2, <3>4, <1>1, <1>4 DEF l
  <2> QED BY <2>3, <2>4, <1>4
<1>9. ~RunOnce'
  BY <1>4 DEF RunOnce
<1> QED BY <1>6, <1>7, <1>8, <1>9 DEF StreamInv, FusionIsStaged, PeekSees

LEMMA StagesWait ==
  ASSUME StreamTypes, UnusedInv, answer.runs = 0, stages # <<>>,
         stages[Len(stages)].op # "sorted"
  PROVE  progresses # <<>>
<1> DEFINE n == Len(stages)
           l == LastSort
<1>1. stages \in Seq(Stages_) /\ n \in Nat /\ n > 0
  BY DEF StreamTypes
<1>2. l \in 0..n /\ (l > 0 => stages[l].op = "sorted")
  BY <1>1, LastSortIs DEF LastSort, LastSortIn
<1>3. progresses = SubSeq(stages, l + 1, n)
  BY DEF UnusedInv
<1> HIDE DEF l
<1>4. l # n
  BY <1>1, <1>2
<1>5. Len(progresses) = n - l
  BY <1>1, <1>2, <1>3
<1>6. Len(progresses) # 0
  BY <1>1, <1>2, <1>4, <1>5
<1> QED BY <1>6

LEMMA SortedKeeps ==
  ASSUME StreamInv, Sorted
  PROVE  StreamInv'
<1> DEFINE n == Len(stages)
           st == Stage("sorted")
           r == execute(progresses, initial)
<1>1. /\ n < MaxStages /\ progresses' = <<>> /\ stages' = Append(stages, st)
      /\ initial' = SortUp(r.out) /\ peeked' = WithCalls(r.seen)
      /\ source' = source /\ answer' = answer
  BY DEF Sorted
<1>2. /\ StreamTypes /\ LimitInv /\ UnusedInv
      /\ stages \in Seq(Stages_) /\ progresses \in Seq(Fused) /\ n \in Nat
      /\ initial \in Seq(Int) /\ peeked \in [Places -> Seq(Int)]
      /\ source \in Seq(Int) /\ Len(initial) <= Len(source)
  BY DEF StreamInv, StreamTypes
<1>3. NewStage(st, FusedOps \cup {"sorted"}) /\ st.op = "sorted"
  <2>0. {} \in SUBSET Int /\ 0 \in Nat
    OBVIOUS
  <2>1. NewStage(st, {"sorted"})
    BY <2>0, <1>1, <1>2, StageIs
  <2> QED BY <2>1 DEF NewStage, StageSet
<1> HIDE DEF st
<1>4. /\ st \in Stages_ /\ stages' \in Seq(Stages_) /\ Len(stages') = n + 1
      /\ Len(stages') <= MaxStages
      /\ \A k \in 1..Len(stages') : stages'[k].at = k /\ stages'[k].index = 0
      /\ \A k \in 1..n : stages'[k] = stages[k]
      /\ \A k \in 0..n : Staged(k)' = Staged(k)
      /\ Staged(Len(stages))' = Apply(Staged(n), st)
      /\ LastSort' = n + 1
      /\ Clean' => Clean /\ stages # <<>> /\ stages[n].op # "sorted"
      /\ answer'.after \in 0..Len(stages') /\ answer'.after # Len(stages')
  BY <1>1, <1>2, <1>3, StageAdded
<1>5. /\ r.out \in Seq(Int) /\ r.seen \in [Places -> Seq(Int)] /\ Len(r.out) <= Len(initial)
  <2>1. RunInv(r, progresses, Len(initial))
    BY <1>2, RunCounts DEF execute
  <2> QED BY <2>1 DEF RunInv, RunStates
<1> HIDE DEF r
<1>6. initial' \in Seq(Int) /\ Len(initial') <= Len(source)
  BY <1>1, <1>2, <1>5, SortUpType
<1>7. peeked' \in [Places -> Seq(Int)]
  <2>1. \A a \in Places : peeked[a] \o r.seen[a] \in Seq(Int)
    BY <1>2, <1>5, ConcatProperties
  <2> DEFINE X == Seq(Int)
  <2>2. \A a \in Places : peeked[a] \o r.seen[a] \in X
    BY <2>1
  <2> HIDE DEF X
  <2>3. peeked' \in [Places -> X]
    BY <2>2, <1>1 DEF WithCalls
  <2> QED BY <2>3 DEF X
<1>8. StreamTypes'
  <2>1. progresses' \in Seq(Fused) /\ Len(progresses') = 0 /\ 0 <= Len(stages')
    BY <1>1, <1>2, <1>4
  <2> QED BY <2>1, <1>1, <1>2, <1>4, <1>6, <1>7 DEF StreamTypes
<1>9. LimitInv'
  <2>1. Len(progresses') = 0
    BY <1>1
  <2> QED BY <2>1 DEF LimitInv
<1>10. UnusedInv'
  <2> SUFFICES ASSUME answer.runs = 0
               PROVE  /\ progresses' = SubSeq(stages', LastSort' + 1, Len(stages'))
                      /\ Clean' =>
                           /\ initial' = Staged(LastSort)'
                           /\ \A k \in 1..LastSort' : stages'[k].op = "peek" =>
                                 peeked'[k] = Staged(k - 1)'
                           /\ \A a \in Places : a > LastSort' => peeked'[a] = <<>>
    BY <1>1 DEF UnusedInv
  <2>1. progresses' = SubSeq(stages', LastSort' + 1, Len(stages'))
    <3>1. SubSeq(stages', (n + 1) + 1, n + 1) = <<>>
      BY <1>2, <1>4, SubSeqEmpty
    <3> QED BY <3>1, <1>1, <1>4
  <2>2. ASSUME Clean'
        PROVE  /\ initial' = Staged(LastSort)'
               /\ \A k \in 1..LastSort' : stages'[k].op = "peek" =>
                     peeked'[k] = Staged(k - 1)'
               /\ \A a \in Places : a > LastSort' => peeked'[a] = <<>>
    <3>1. Clean /\ progresses # <<>>
      BY <2>2, <1>2, <1>4, StagesWait
    <3>2. /\ r.out = Staged(n)
          /\ \A k \in 1..n : stages[k].op = "peek" => WithCalls(r.seen)[k] = Staged(k - 1)
          /\ \A a \in Places : a > n => WithCalls(r.seen)[a] = <<>>
      BY <3>1, <1>2, UnusedRun DEF r
    <3>3. Staged(LastSort)' = Staged(Len(stages))'
      BY <1>4 DEF Staged
    <3>4. initial' = Staged(LastSort)'
      BY <3>2, <3>3, <1>1, <1>3, <1>4 DEF Apply
    <3>5. ASSUME NEW k \in 1..LastSort', stages'[k].op = "peek"
          PROVE  peeked'[k] = Staged(k - 1)'
      <4>1. k \in 1..n \/ k = n + 1
        BY <1>2, <1>4
      <4>2. stages'[n + 1].op = "sorted"
        BY <1>1, <1>2, <1>3
      <4>3. k \in 1..n /\ k - 1 \in 0..n
        BY <4>1, <4>2, <3>5, <1>2
      <4>4. stages[k].op = "peek"
        BY <4>3, <3>5, <1>4
      <4>5. Staged(k - 1)' = Staged(k - 1)
        BY <4>3, <1>4
      <4> QED BY <4>3, <4>4, <4>5, <3>2, <1>1
    <3>6. ASSUME NEW a \in Places, a > LastSort' PROVE peeked'[a] = <<>>
      <4>1. a > n
        BY <3>6, <1>2, <1>4 DEF Places
      <4> QED BY <4>1, <3>2, <1>1
    <3> QED BY <3>4, <3>5, <3>6
  <2> QED BY <2>1, <2>2
<1>11. ~RunOnce'
  BY <1>4 DEF RunOnce
<1> QED BY <1>8, <1>9, <1>10, <1>11 DEF StreamInv, FusionIsStaged, PeekSees

Complete == {"slice", "each", "reduce", "count", "map", "max", "min"}

\* The elements that a terminal operation is about.
Subject(op) == IF op = "last" THEN Reverse(Backwards) ELSE Staged(Len(stages))

LEMMA AnswerKeeps ==
  ASSUME StreamInv, NEW op, NEW p, NEW r, NEW value, NEW m \in Nat,
         RunInv(r, progresses, m), Answer(op, p, r, value),
         answer.runs = 0 /\ WellFormed => value = SpecValue(op, p, Subject(op)),
         op \in Complete => r = Run
  PROVE  StreamInv'
<1> DEFINE n == Len(stages)
           l == Len(progresses)
<1>1. /\ answer.runs < MaxRuns
      /\ answer' = [runs |-> answer.runs + 1, op |-> op, p |-> p, value |-> value,
                    count |-> answer.count + Len(r.out), after |-> n]
      /\ progresses' = r.ps /\ peeked' = WithCalls(r.seen)
      /\ initial' = initial /\ stages' = stages /\ source' = source
  BY DEF Answer
<1>2. /\ StreamTypes /\ LimitInv /\ UnusedInv
      /\ stages \in Seq(Stages_) /\ progresses \in Seq(Fused) /\ n \in Nat /\ l \in Nat
      /\ peeked \in [Places -> Seq(Int)]
      /\ answer.runs \in 0..MaxRuns /\ answer.count \in Nat
  BY DEF StreamInv, StreamTypes
<1>3. /\ r.ps \in Seq(Fused) /\ r.out \in Seq(Int) /\ r.seen \in [Places -> Seq(Int)]
      /\ Len(r.ps) = l /\ Len(r.out) \in Nat
  BY DEF RunInv, RunStates
<1>4. /\ answer'.runs = answer.runs + 1 /\ answer'.op = op /\ answer'.p = p
      /\ answer'.value = value /\ answer'.count = answer.count + Len(r.out)
      /\ answer'.after = n
  BY <1>1
<1>5. peeked' \in [Places -> Seq(Int)]
  <2> DEFINE X == Seq(Int)
  <2>1. \A a \in Places : peeked[a] \o r.seen[a] \in X
    BY <1>2, <1>3, ConcatProperties
  <2> HIDE DEF X
  <2>2. peeked' \in [Places -> X]
    BY <2>1, <1>1 DEF WithCalls
  <2> QED BY <2>2 DEF X
<1>6. StreamTypes'
  <2>1. answer'.runs \in 0..MaxRuns /\ answer'.count \in Nat /\ answer'.after \in 0..n
    <3> DEFINE a == answer.runs
               c == answer.count
               o == Len(r.out)
    <3>1. a \in 0..MaxRuns /\ a < MaxRuns /\ MaxRuns \in Nat /\ c \in Nat /\ o \in Nat
      BY <1>1, <1>2, <1>3, PipelineAssumption
    <3>2. answer'.runs = a + 1 /\ answer'.count = c + o /\ answer'.after = n
      BY <1>4
    <3> HIDE DEF a, c, o
    <3> QED BY <3>1, <3>2, <1>2
  <2> QED BY <2>1, <1>1, <1>2, <1>3, <1>5 DEF StreamTypes
<1>7. LimitInv'
  <2> SUFFICES ASSUME NEW k \in 1..l
               PROVE  /\ r.ps[k].index <= r.ps[k].n
                      /\ r.ps[k].op = "limit" =>
                            answer'.count - r.ps[k].since <= r.ps[k].index
    BY <1>1, <1>3 DEF LimitInv
  <2> DEFINE a == progresses[k]
             b == r.ps[k]
  <2>1. a \in Fused /\ b \in Fused
    BY <1>2, <1>3
  <2>2. /\ b = [a EXCEPT !.index = b.index]
        /\ a.op # "limit" => b.index = a.index
        /\ a.op = "limit" /\ a.index <= a.n
              => b.index <= a.n /\ Len(r.out) <= b.index - a.index
    BY DEF RunInv
  <2>3. a.index <= a.n /\ (a.op = "limit" => answer.count - a.since <= a.index)
    BY <1>2 DEF LimitInv
  <2> HIDE DEF a, b
  <2>4. /\ a.index \in Nat /\ b.index \in Nat /\ a.n \in Nat /\ a.since \in Nat
        /\ b.op = a.op /\ b.n = a.n /\ b.since = a.since
    BY <2>1, <2>2 DEF Fused, StageSet
  <2>5. CASE a.op = "limit"
    <3> DEFINE c == answer.count
               o == Len(r.out)
               x == a.index
               y == b.index
               z == b.since
    <3>1. /\ c \in Nat /\ o \in Nat /\ answer'.count = c + o
          /\ x \in Nat /\ y \in Nat /\ z \in Nat
      BY <1>2, <1>3, <1>4, <2>4
    <3>2. b.index <= b.n /\ o <= y - x /\ c - z <= x
      BY <2>2, <2>3, <2>4, <2>5
    <3> HIDE DEF c, o, x, y, z
    <3>3. (c + o) - z <= y
      BY <3>1, <3>2
    <3> QED BY <3>1, <3>2, <3>3 DEF b, y, z
  <2>6. CASE a.op # "limit"
    BY <2>2, <2>3, <2>4, <2>6 DEF b
  <2> QED BY <2>5, <2>6
<1>8. UnusedInv'
  BY <1>2, <1>4 DEF UnusedInv
<1>9. RunOnce' => answer.runs = 0 /\ WellFormed
  BY <1>1, <1>2, <1>4 DEF RunOnce, WellFormed, Clean
<1>10. FusionIsStaged'
  <2>1. Staged(Len(stages))' = Staged(Len(stages)) /\ Backwards' = Backwards
    BY <1>1 DEF Staged, Backwards, LastSort
  <2> QED BY <2>1, <1>4, <1>9 DEF FusionIsStaged, Subject
<1>11. PeekSees'
  <2> SUFFICES ASSUME RunOnce', op \in Complete
               PROVE  \A k \in DOMAIN stages : stages[k].op = "peek" =>
                         peeked'[k] = Staged(k - 1)'
    BY <1>1, <1>4 DEF PeekSees, Complete
  <2>1. answer.runs = 0 /\ Clean /\ stages # <<>> /\ stages[n].op # "sorted"
    BY <1>9 DEF WellFormed
  <2>2. progresses # <<>>
    BY <2>1, <1>2, StagesWait
  <2>3. \A k \in 1..n : stages[k].op = "peek" => peeked'[k] = Staged(k - 1)
    BY <2>1, <2>2, <1>1, <1>2, UnusedRun DEF Run
  <2>4. \A k \in 1..n : Staged(k - 1)' = Staged(k - 1)
    BY <1>1 DEF Staged
  <2>5. DOMAIN stages = 1..n
    BY <1>2
  <2> QED BY <2>3, <2>4, <2>5
<1> QED BY <1>6, <1>7, <1>8, <1>10, <1>11 DEF StreamInv

\* The operations that look at every element.
LEMMA WholeKeeps ==
  ASSUME StreamInv, NEW op \in Complete, NEW value, Whole(op, value),
         value = SpecValue(op, {}, Run.out)
  PROVE  StreamInv'
<1>1. Answer(op, {}, Run, value)
  BY DEF Whole
<1>2. StreamTypes /\ UnusedInv /\ progresses \in Seq(Fused) /\ initial \in Seq(Int)
  BY DEF StreamInv, StreamTypes
<1>3. RunInv(Run, progresses, Len(initial)) /\ Len(initial) \in Nat
  BY <1>2, RunCounts DEF Run, execute
<1>4. ASSUME answer.runs = 0, WellFormed PROVE value = SpecValue(op, {}, Subject(op))
  <2>1. Clean /\ progresses # <<>>
    BY <1>2, <1>4, StagesWait DEF WellFormed
  <2>2. Run.out = Staged(Len(stages))
    BY <2>1, <1>2, <1>4, UnusedRun DEF Run
  <2>3. op # "last"
    BY DEF Complete
  <2> QED BY <2>2, <2>3 DEF Subject
<1> QED BY <1>1, <1>3, <1>4, AnswerKeeps

\* The operations that stop early.
LEMMA EarlyKeeps ==
  ASSUME StreamInv, NEW op, op \notin Complete, NEW p, NEW s \in Seq(Int), NEW stop, NEW value,
         s = IF op = "last" THEN Reverse(initial) ELSE initial,
         Answer(op, p, RunUntil(progresses, s, stop), value),
         value = SpecValue(op, p, IF op = "last" THEN Reverse(execute(progresses, s).out)
                                  ELSE execute(progresses, s).out)
  PROVE  StreamInv'
<1>1. StreamTypes /\ UnusedInv /\ progresses \in Seq(Fused)
  BY DEF StreamInv, StreamTypes
<1>2. RunInv(RunUntil(progresses, s, stop), progresses, Len(s)) /\ Len(s) \in Nat
  BY <1>1, RunCounts
<1>3. ASSUME answer.runs = 0, WellFormed PROVE value = SpecValue(op, p, Subject(op))
  <2>1. Clean /\ progresses # <<>>
    BY <1>1, <1>3, StagesWait DEF WellFormed
  <2>2. CASE op = "last"
    <3>1. execute(progresses, s).out = Backwards
      BY <2>1, <2>2, <1>1, <1>3, UnusedLast
    <3> QED BY <3>1, <2>2 DEF Subject
  <2>3. CASE op # "last"
    <3>1. execute(progresses, s).out = Staged(Len(stages))
      BY <2>1, <2>3, <1>1, <1>3, UnusedRun
    <3> QED BY <3>1, <2>3 DEF Subject
  <2> QED BY <2>2, <2>3
<1> QED BY <1>2, <1>3, AnswerKeeps

LEMMA TerminalKeeps ==
  ASSUME StreamInv, Terminal
  PROVE  StreamInv'
<1>1. /\ progresses \in Seq(Fused) /\ initial \in Seq(Int)
      /\ Reverse(initial) \in Seq(Int) /\ Run.out \in Seq(Int)
  <2>1. progresses \in Seq(Fused) /\ initial \in Seq(Int)
    BY DEF StreamInv, StreamTypes
  <2>2. Run \in RunStates
    BY <2>1, TurnsDef DEF Run, execute
  <2> QED BY <2>1, <2>2, ReverseType DEF RunStates
<1> DEFINE o == Run.out
<1>2. /\ o = SpecValue("slice", {}, o) /\ o = SpecValue("each", {}, o)
      /\ Len(o) = SpecValue("count", {}, o)
      /\ Reduced(o) = SpecValue("reduce", {}, o)
      /\ Keyed(o) = SpecValue("map", {}, o)
      /\ Best(o, 1) = SpecValue("max", {}, o)
      /\ Best(o, -1) = SpecValue("min", {}, o)
  BY <1>1, WholeValues
<1>3. {"slice", "each", "count", "reduce", "map", "max", "min"} \subseteq Complete
  BY DEF Complete
<1>4. CASE CollectSlice
  BY <1>2, <1>3, <1>4, WholeKeeps DEF CollectSlice
<1>5. CASE ForEach
  BY <1>2, <1>3, <1>5, WholeKeeps DEF ForEach
<1>6. CASE Count
  BY <1>2, <1>3, <1>6, WholeKeeps DEF Count
<1>7. CASE Reduce
  BY <1>2, <1>3, <1>7, WholeKeeps DEF Reduce
<1>8. CASE CollectMap
  BY <1>2, <1>3, <1>8, WholeKeeps DEF CollectMap
<1>9. CASE MaxOf
  BY <1>2, <1>3, <1>9, WholeKeeps DEF MaxOf
<1>10. CASE MinOf
  BY <1>2, <1>3, <1>10, WholeKeeps DEF MinOf
<1>11. CASE First
  <2> DEFINE r == RunUntil(progresses, initial, Int)
             x == execute(progresses, initial).out
  <2>1. r.out = SpecValue("first", {}, x)
    BY <1>1, EndValues
  <2>2. Answer("first", {}, r, r.out)
    BY <1>11 DEF First
  <2>3. "first" \notin Complete /\ "first" # "last"
    BY DEF Complete
  <2> QED BY <2>1, <2>2, <2>3, <1>1, EarlyKeeps
<1>12. CASE Last_
  <2> DEFINE s == Reverse(initial)
             r == RunUntil(progresses, s, Int)
             x == execute(progresses, s).out
  <2>1. r.out = SpecValue("last", {}, Reverse(x))
    BY <1>1, EndValues
  <2>2. Answer("last", {}, r, r.out)
    BY <1>12 DEF Last_
  <2>3. "last" \notin Complete
    BY DEF Complete
  <2>4. s \in Seq(Int) /\ s = IF "last" = "last" THEN Reverse(initial) ELSE initial
    BY <1>1
  <2> QED BY <2>1, <2>2, <2>3, <2>4, EarlyKeeps
<1>13. ASSUME NEW p \in Predicates, AnyMatch(p) \/ AllMatch(p) \/ NoneMatch(p)
       PROVE  StreamInv'
  <2> DEFINE x == execute(progresses, initial).out
             r == RunUntil(progresses, initial, p)
             q == RunUntil(progresses, initial, Int \ p)
             any == Meets(r.out, p)
             no == ~Meets(r.out, p)
             all == ~Strays(q.out, p)
  <2>1. p \in SUBSET Int
    BY PipelineAssumption
  <2>2. any = SpecValue("any", p, x) /\ no = SpecValue("no", p, x) /\ all = SpecValue("all", p, x)
    BY <2>1, <1>1, MatchValues
  <2>3. {"any", "all", "no"} \cap (Complete \cup {"last"}) = {}
    BY DEF Complete
  <2>4. CASE AnyMatch(p)
    <3>1. Answer("any", p, r, any)
      BY <2>4 DEF AnyMatch, Meets
    <3> HIDE DEF any, r, x
    <3>2. any = SpecValue("any", p, IF "any" = "last"
                                    THEN Reverse(execute(progresses, initial).out)
                                    ELSE execute(progresses, initial).out)
      BY <2>2 DEF x
    <3> QED BY <3>1, <3>2, <2>3, <1>1, EarlyKeeps DEF r
  <2>5. CASE AllMatch(p)
    <3>1. Answer("all", p, q, all)
      BY <2>5 DEF AllMatch, Strays
    <3> HIDE DEF all, q, x
    <3>2. all = SpecValue("all", p, IF "all" = "last"
                                    THEN Reverse(execute(progresses, initial).out)
                                    ELSE execute(progresses, initial).out)
      BY <2>2 DEF x
    <3> QED BY <3>1, <3>2, <2>3, <1>1, EarlyKeeps DEF q
  <2>6. CASE NoneMatch(p)
    <3>1. Answer("no", p, r, no)
      BY <2>6 DEF NoneMatch, Meets
    <3> HIDE DEF no, r, x
    <3>2. no = SpecValue("no", p, IF "no" = "last"
                                  THEN Reverse(execute(progresses, initial).out)
                                  ELSE execute(progresses, initial).out)
      BY <2>2 DEF x
    <3> QED BY <3>1, <3>2, <2>3, <1>1, EarlyKeeps DEF r
  <2> QED BY <1>13, <2>4, <2>5, <2>6
<1> QED BY <1>4, <1>5, <1>6, <1>7, <1>8, <1>9, <1>10, <1>11, <1>12, <1>13 DEF Terminal

LEMMA IntermediateKeeps ==
  ASSUME StreamInv, Intermediate
  PROVE  StreamInv'
<1>1. StreamTypes
  BY DEF StreamInv
<1>2. ASSUME NEW st, AddStage(st), NEW op \in FusedOps, NewStage(st, {op})
      PROVE  StreamInv'
  <2>1. NewStage(st, FusedOps)
    BY <1>2 DEF NewStage, StageSet
  <2> QED BY <2>1, <1>2, AddKeeps
<1>3. ASSUME NEW p \in Predicates, Filter(p) PROVE StreamInv'
  <2>1. AddStage([Stage("filter") EXCEPT !.keep = p]) /\ p \in SUBSET Int /\ 0 \in Nat
    BY <1>3, PipelineAssumption DEF Filter
  <2>2. NewStage([Stage("filter") EXCEPT !.keep = p], {"filter"})
    BY <2>1, <1>1, StageIs DEF AddStage
  <2>3. "filter" \in FusedOps
    BY DEF FusedOps
  <2> QED BY <2>1, <2>2, <2>3, <1>2
<1>4. ASSUME NEW m \in Limits, Limit(m) PROVE StreamInv'
  <2>1. AddStage([Stage("limit") EXCEPT !.n = m]) /\ {} \in SUBSET Int /\ m \in Nat
    BY <1>4, PipelineAssumption DEF Limit
  <2>2. NewStage([Stage("limit") EXCEPT !.n = m], {"limit"})
    BY <2>1, <1>1, StageIs DEF AddStage
  <2>3. "limit" \in FusedOps
    BY DEF FusedOps
  <2> QED BY <2>1, <2>2, <2>3, <1>2
<1>5. ASSUME NEW m \in Limits, Skip(m) PROVE StreamInv'
  <2>1. AddStage([Stage("skip") EXCEPT !.n = m]) /\ {} \in SUBSET Int /\ m \in Nat
    BY <1>5, PipelineAssumption DEF Skip
  <2>2. NewStage([Stage("skip") EXCEPT !.n = m], {"skip"})
    BY <2>1, <1>1, StageIs DEF AddStage
  <2>3. "skip" \in FusedOps
    BY DEF FusedOps
  <2> QED BY <2>1, <2>2, <2>3, <1>2
<1>6. CASE Peek
  <2>1. AddStage(Stage("peek")) /\ {} \in SUBSET Int /\ 0 \in Nat
    BY <1>6 DEF Peek
  <2>2. NewStage(Stage("peek"), {"peek"})
    BY <2>1, <1>1, StageIs DEF AddStage
  <2>3. "peek" \in FusedOps
    BY DEF FusedOps
  <2> QED BY <2>1, <2>2, <2>3, <1>2
<1>7. CASE Sorted
  BY <1>7, SortedKeeps
<1> QED BY <1>3, <1>4, <1>5, <1>6, <1>7 DEF Intermediate

LEMMA StreamStutter ==
  ASSUME StreamInv, UNCHANGED plvars
  PROVE  StreamInv'
<1>1. /\ initial' = initial /\ progresses' = progresses /\ peeked' = peeked
      /\ stages' = stages /\ source' = source /\ answer' = answer
  BY DEF plvars
<1>2. (StreamTypes /\ LimitInv)'
  BY <1>1 DEF StreamInv, StreamTypes, LimitInv
<1>3. (UnusedInv /\ FusionIsStaged /\ PeekSees)'
  BY <1>1 DEF StreamInv, UnusedInv, FusionIsStaged, PeekSees, RunOnce, WellFormed,
     Clean, Staged, Backwards, LastSort
<1> QED BY <1>2, <1>3 DEF StreamInv

\* The first terminal operation of a stream agrees with stage by stage processing,
\* each Peek is called with what reaches it, and the Limits keep their counts over
\* all of them (pipelinestream.go:50-110, 112-313), for any slice and stages.
THEOREM StreamsCorrect == PipeSpec => []StreamsAgree
<1>1. PipeInit => StreamInv
  BY StreamStart
<1>2. StreamInv /\ [PipeNext]_plvars => StreamInv'
  BY TerminalKeeps, IntermediateKeeps, StreamStutter DEF PipeNext
<1>3. StreamInv => StreamsAgree
  <2> SUFFICES ASSUME StreamInv PROVE StreamsAgree
    OBVIOUS
  <2>1. StreamTypes /\ LimitInv
    BY DEF StreamInv
  <2>2. DOMAIN progresses = 1..Len(progresses) /\ progresses \in Seq(Fused)
    BY <2>1 DEF StreamTypes
  <2>3. ASSUME NEW k \in 1..Len(progresses)
        PROVE  /\ progresses[k].op # "sorted" /\ progresses[k].index \in 0..progresses[k].n
               /\ progresses[k].op = "limit" =>
                     answer.count - progresses[k].since <= progresses[k].n
    <3> DEFINE a == progresses[k]
    <3>1. a \in Fused
      BY <2>2
    <3>2. a.index <= a.n /\ (a.op = "limit" => answer.count - a.since <= a.index)
      BY <2>1 DEF LimitInv
    <3> HIDE DEF a
    <3>3. a.op # "sorted" /\ a.index \in Nat /\ a.n \in Nat /\ a.since \in Nat
      BY <3>1 DEF Fused, StageSet, FusedOps
    <3>4. answer.count \in Nat
      BY <2>1 DEF StreamTypes
    <3>5. a.index \in 0..a.n /\ (a.op = "limit" => answer.count - a.since <= a.n)
      BY <3>2, <3>3, <3>4
    <3> QED BY <3>3, <3>5 DEF a
  <2>4. PipeTypeOK
    BY <2>1, <2>2, <2>3 DEF PipeTypeOK, StreamTypes
  <2>5. LimitIsTotal
    BY <2>2, <2>3 DEF LimitIsTotal
  <2> QED BY <2>4, <2>5 DEF StreamInv, StreamsAgree
<1> QED BY <1>1, <1>2, <1>3, PTL DEF PipeSpec

=============================================================================
