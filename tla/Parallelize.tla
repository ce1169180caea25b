---------------------------- MODULE Parallelize ----------------------------
(***************************************************************************)
(* One call of Parallelize or of ParallelizeResult of                      *)
(* tools/parallel/parallel.go: worker goroutines take chunks of pieces     *)
(* from a closed channel, the first error stops the others, and in         *)
(* ParallelizeResult a collector goroutine gathers what the pieces return. *)
(*                                                                         *)
(* One action is one channel operation, one call of doWorkPiece, one       *)
(* cancel or one wg.Done.                                                  *)
(***************************************************************************)
EXTENDS Integers, Sequences, FiniteSets

CONSTANTS
    MaxPieces,   \* bound on len(tasks)
    MaxWorkers,  \* bound on the parameter workers
    ChunkSizes,  \* values of WithChunkSize, 0 when the option is not given
    ResultCap    \* bound on the capacity of resultCh (1024 in the code)

ASSUME ParallelAssumption ==
    /\ MaxPieces \in Nat /\ MaxWorkers \in Nat
    /\ ChunkSizes \subseteq Nat
    /\ ResultCap \in Nat \ {0}

Workers == 1..MaxWorkers
Pieces  == 0..MaxPieces - 1
NoErr   == -1       \* no piece has this number

VARIABLES
    call,       \* the parameters and options of the call
    toProcess,  \* the chunks left in the closed channel
    userDone,   \* the context of the caller is done
    cancelled,  \* cancel() was called
    errCh,      \* the piece whose error is in errCh, or NoErr
    resultCh,   \* the results in resultCh
    wpc,        \* where each worker is
    pos, end,   \* p and end of the inner loop of each worker
    collector,  \* "loop" or "done"
    result,     \* what the collector has gathered
    main,       \* "wait" (wg.Wait), "read" (of errCh) or "returned"
    ret,        \* the error returned, or NoErr
    runs,       \* how often doWorkPiece was called for each piece
    failed, panicked  \* the pieces that ended so

controlVars == <<toProcess, userDone, cancelled, errCh>>
workerVars  == <<wpc, pos, end>>
resultVars  == <<resultCh, collector, result>>
mainVars    == <<main, ret>>
pieceVars   == <<runs, failed, panicked>>
vars == <<call, controlVars, workerVars, resultVars, mainVars, pieceVars>>

WorkerPc == {"range", "check", "work", "send", "cancel", "leave",
             "unwind", "recover", "recancel", "exit"}

TypeOK ==
    /\ call \in [withResult : BOOLEAN, stopOnErr : BOOLEAN, pieces : 0..MaxPieces,
                 workers : 0..MaxWorkers, chunkSize : ChunkSizes \cup {1}]
    /\ toProcess \in Seq(Pieces)
    /\ userDone \in BOOLEAN /\ cancelled \in BOOLEAN
    /\ errCh \in Pieces \cup {NoErr}
    /\ resultCh \in Seq(Pieces) /\ result \in Seq(Pieces)
    /\ wpc \in [Workers -> WorkerPc]
    /\ pos \in [Workers -> 0..MaxPieces] /\ end \in [Workers -> 0..MaxPieces]
    /\ collector \in {"loop", "done"}
    /\ main \in {"wait", "read", "returned"} /\ ret \in Pieces \cup {NoErr}
    /\ runs \in [Pieces -> Nat]
    /\ failed \subseteq Pieces /\ panicked \subseteq Pieces

-----------------------------------------------------------------------------
\* Chunks.

\* Mutant: rounded down.
CeilDiv_Down(a, b) == a \div b

CeilDiv(a, b) == (a + b - 1) \div b

ChunkStart(chunk) == chunk * call.chunkSize

\* Mutant: one piece too many.
ChunkEnd_Overlap(chunk) ==
    LET last == ChunkStart(chunk) + call.chunkSize + 1 IN
    IF last > call.pieces THEN call.pieces ELSE last

\* The last chunk may be shorter.
ChunkEnd(chunk) ==
    LET last == ChunkStart(chunk) + call.chunkSize IN
    IF last > call.pieces THEN call.pieces ELSE last

-----------------------------------------------------------------------------
\* The call, up to the launch of the goroutines.

\* The workers that are launched: no more than there are chunks.
Crew(c) ==
    LET chunks == CeilDiv(c.pieces, c.chunkSize) IN
    1..(IF chunks < c.workers THEN chunks ELSE c.workers)

Init ==
    /\ \E withResult, stopOnErr \in BOOLEAN, pieces \in 0..MaxPieces,
          workers \in 0..MaxWorkers, chunkSize \in ChunkSizes :
          call = [withResult |-> withResult, stopOnErr |-> stopOnErr,
                  pieces |-> pieces, workers |-> workers,
                  chunkSize |-> IF chunkSize < 1 THEN 1 ELSE chunkSize]
    /\ toProcess = [i \in 1..CeilDiv(call.pieces, call.chunkSize) |-> i - 1]
    /\ userDone = FALSE /\ cancelled = FALSE
    /\ errCh = NoErr
    /\ wpc = [w \in Workers |-> IF w \in Crew(call) THEN "range" ELSE "exit"]
    /\ pos = [w \in Workers |-> 0] /\ end = [w \in Workers |-> 0]
    /\ resultCh = <<>> /\ result = <<>>
    /\ collector = IF call.withResult /\ call.pieces > 0 THEN "loop" ELSE "done"
    /\ main = IF call.pieces = 0 THEN "returned" ELSE "wait"
    /\ ret = NoErr
    /\ runs = [p \in Pieces |-> 0]
    /\ failed = {} /\ panicked = {}

\* stopCtx, derived from the context of the caller.
Stopped == userDone \/ cancelled

\* The caller's context ends.
UserCancel ==
    /\ ~userDone /\ main # "returned"
    /\ userDone' = TRUE
    /\ UNCHANGED <<call, toProcess, cancelled, errCh, workerVars, resultVars, mainVars, pieceVars>>

-----------------------------------------------------------------------------
\* A worker.

\* for chunk := range toProcess.
WorkerChunk(w) ==
    /\ wpc[w] = "range"
    /\ IF toProcess = <<>>
       THEN wpc' = [wpc EXCEPT ![w] = "leave"] /\ UNCHANGED <<toProcess, pos, end>>
       ELSE /\ toProcess' = Tail(toProcess)
            /\ pos' = [pos EXCEPT ![w] = ChunkStart(Head(toProcess))]
            /\ end' = [end EXCEPT ![w] = ChunkEnd(Head(toProcess))]
            /\ wpc' = [wpc EXCEPT ![w] = "check"]
    /\ UNCHANGED <<call, userDone, cancelled, errCh, resultVars, mainVars, pieceVars>>

\* The select on stopCtx.Done, with a default: doWorkPiece is called.
WorkerCheck(w) ==
    /\ wpc[w] = "check"
    /\ IF Stopped
       THEN wpc' = [wpc EXCEPT ![w] = "leave"] /\ UNCHANGED runs
       ELSE wpc' = [wpc EXCEPT ![w] = "work"] /\ runs' = [runs EXCEPT ![pos[w]] = @ + 1]
    /\ UNCHANGED <<call, controlVars, pos, end, resultVars, mainVars, failed, panicked>>

\* p++ and the condition of the inner loop.
NextPiece(w) ==
    /\ pos' = [pos EXCEPT ![w] = @ + 1]
    /\ wpc' = [wpc EXCEPT ![w] = IF pos[w] + 1 < end[w] THEN "check" ELSE "range"]

\* The piece is over, with an error that stops nothing or without one.
Continue(w) ==
    IF call.withResult THEN wpc' = [wpc EXCEPT ![w] = "send"] /\ UNCHANGED pos
                       ELSE NextPiece(w)

\* doWorkPiece returned nil.
WorkerOk(w) ==
    /\ wpc[w] = "work"
    /\ Continue(w)
    /\ UNCHANGED <<call, controlVars, end, resultVars, mainVars, pieceVars>>

\* The select on errCh, with a default: only the first error is kept.
OfferError(p) == errCh' = IF errCh = NoErr THEN p ELSE errCh

\* Mutant: the worker cancels and forgets to send the error.
WorkerError_Unsent(w) ==
    /\ wpc[w] = "work"
    /\ failed' = failed \cup {pos[w]}
    /\ IF call.stopOnErr
       THEN wpc' = [wpc EXCEPT ![w] = "cancel"] /\ UNCHANGED pos
       ELSE Continue(w)
    /\ UNCHANGED <<call, controlVars, end, resultVars, mainVars, runs, panicked>>

\* doWorkPiece returned an error.
WorkerError(w) ==
    /\ wpc[w] = "work"
    /\ failed' = failed \cup {pos[w]}
    /\ IF call.stopOnErr
       THEN /\ OfferError(pos[w])
            /\ wpc' = [wpc EXCEPT ![w] = "cancel"]
            /\ UNCHANGED pos
       ELSE Continue(w) /\ UNCHANGED errCh
    /\ UNCHANGED <<call, toProcess, userDone, cancelled, end, resultVars, mainVars, runs, panicked>>

\* doWorkPiece panicked.
WorkerPanic(w) ==
    /\ wpc[w] = "work"
    /\ panicked' = panicked \cup {pos[w]}
    /\ wpc' = [wpc EXCEPT ![w] = "unwind"]
    /\ UNCHANGED <<call, controlVars, pos, end, resultVars, mainVars, runs, failed>>

\* resultCh <- v: blocks while the channel is full.
WorkerSend(w) ==
    /\ wpc[w] = "send"
    /\ Len(resultCh) < (IF call.pieces > ResultCap THEN ResultCap ELSE call.pieces)
    /\ resultCh' = Append(resultCh, pos[w])
    /\ NextPiece(w)
    /\ UNCHANGED <<call, controlVars, end, collector, result, mainVars, pieceVars>>

WorkerCancel(w) ==
    /\ wpc[w] \in {"cancel", "recancel"}
    /\ cancelled' = TRUE
    /\ wpc' = [wpc EXCEPT ![w] = IF @ = "cancel" THEN "leave" ELSE "exit"]
    /\ UNCHANGED <<call, toProcess, userDone, errCh, pos, end, resultVars, mainVars, pieceVars>>

\* The deferred wg.Done, which runs before the deferred recover.
WorkerDone(w) ==
    /\ wpc[w] \in {"leave", "unwind"}
    /\ wpc' = [wpc EXCEPT ![w] = IF @ = "leave" THEN "exit" ELSE "recover"]
    /\ UNCHANGED <<call, controlVars, pos, end, resultVars, mainVars, pieceVars>>

\* Mutant: the recovered panic is not passed on.
WorkerRecover_Swallows(w) ==
    /\ wpc[w] = "recover"
    /\ wpc' = [wpc EXCEPT ![w] = "exit"]
    /\ UNCHANGED <<call, controlVars, pos, end, resultVars, mainVars, pieceVars>>

\* The deferred recover: Parallelize swallows the panic, ParallelizeResult
\* makes it the error if errors stop it.
WorkerRecover(w) ==
    /\ wpc[w] = "recover"
    /\ LET reports == call.withResult /\ call.stopOnErr /\ errCh = NoErr IN
          /\ wpc' = [wpc EXCEPT ![w] = IF reports THEN "recancel" ELSE "exit"]
          /\ errCh' = IF reports THEN pos[w] ELSE errCh
    /\ UNCHANGED <<call, toProcess, userDone, cancelled, pos, end, resultVars, mainVars, pieceVars>>

WorkerStep(w) ==
    \/ WorkerChunk(w) \/ WorkerCheck(w) \/ WorkerOk(w) \/ WorkerError(w) \/ WorkerPanic(w)
    \/ WorkerSend(w) \/ WorkerCancel(w) \/ WorkerDone(w) \/ WorkerRecover(w)

-----------------------------------------------------------------------------
\* The collector and the caller.

CollectorTake ==
    /\ collector = "loop" /\ resultCh # <<>>
    /\ resultCh' = Tail(resultCh)
    /\ result' = Append(result, Head(resultCh))
    /\ collector' = IF Len(result') = call.pieces THEN "done" ELSE "loop"
    /\ UNCHANGED <<call, controlVars, workerVars, mainVars, pieceVars>>

\* The other branch of its select, even if results are waiting.
CollectorStop ==
    /\ collector = "loop" /\ Stopped
    /\ collector' = "done"
    /\ UNCHANGED <<call, controlVars, workerVars, resultCh, result, mainVars, pieceVars>>

Collector == CollectorTake \/ CollectorStop

AllDone ==
    /\ \A w \in Workers : wpc[w] \in {"recover", "recancel", "exit"}
    /\ collector = "done"

\* Mutant: the caller waits for the collector only.
MainWait_Collector ==
    /\ main = "wait" /\ collector = "done"
    /\ main' = "read"
    /\ UNCHANGED <<call, controlVars, workerVars, resultVars, ret, pieceVars>>

\* wg.Wait, for the workers and the collector.
MainWait ==
    /\ main = "wait" /\ AllDone
    /\ main' = "read"
    /\ UNCHANGED <<call, controlVars, workerVars, resultVars, ret, pieceVars>>

\* The select on errCh, with a default, and the deferred cancel.
MainReturn ==
    /\ main = "read"
    /\ main' = "returned" /\ ret' = errCh
    /\ errCh' = NoErr /\ cancelled' = TRUE
    /\ UNCHANGED <<call, toProcess, userDone, workerVars, resultVars, pieceVars>>

Terminated ==
    /\ main = "returned" /\ AllDone
    /\ \A w \in Workers : wpc[w] = "exit"
    /\ UNCHANGED vars

Next ==
    \/ UserCancel
    \/ \E w \in Workers : WorkerStep(w)
    \/ Collector
    \/ MainWait \/ MainReturn
    \/ Terminated

Spec == Init /\ [][Next]_vars

\* Goroutines that can run do, and the pieces end in one way or another.
Fairness ==
    /\ \A w \in Workers : WF_vars(WorkerStep(w))
    /\ WF_vars(Collector)
    /\ WF_vars(MainWait \/ MainReturn)

FairSpec == Spec /\ Fairness

-----------------------------------------------------------------------------
\* Properties.

Done == {p \in Pieces : runs[p] > 0}
Gathered == {result[i] : i \in DOMAIN result}

\* However chunks, workers and pieces divide, no piece is worked on twice and
\* no worker leaves the range of the tasks.
AtMostOnce == \A p \in Pieces : runs[p] <= IF p < call.pieces THEN 1 ELSE 0

\* A call that returns no error did everything: unless the context ended, a
\* piece panicked, or there was nobody to work, each piece was worked on, and
\* the result holds one value of each.
NilMeansComplete ==
    main = "returned" /\ ret = NoErr /\ ~userDone /\ panicked = {} /\ call.workers > 0 =>
        /\ Done = 0..call.pieces - 1
        /\ call.withResult => Gathered = Done /\ Len(result) = call.pieces

\* With stopOnErr an error is never lost, even when the context ends at the
\* same time: the caller gets the error of some piece that ended badly.
ErrorReported ==
    main = "returned" /\ call.stopOnErr /\ failed # {} => ret \in failed \cup panicked

\* When the call has returned no goroutine is in doWorkPiece, nor about to be,
\* nor blocked on resultCh: what is left of them is their deferred recover.
QuietAfterReturn ==
    main = "returned" => \A w \in Workers : wpc[w] \in {"recover", "recancel", "exit"}

\* The call returns, whatever the pieces do and whenever the context ends.
\* ParallelizeResult does not if it has no workers, or after a panic without
\* stopOnErr (its collector waits for a result that never comes), and may not
\* if the results do not fit in resultCh.
Excused ==
    call.withResult /\ \/ call.workers = 0
                       \/ call.pieces > ResultCap
                       \/ panicked # {} /\ ~call.stopOnErr

Returns == main = "wait" ~> main = "returned" \/ Excused

=============================================================================
