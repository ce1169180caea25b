------------------------- MODULE Parallelize_proofs -------------------------
(***************************************************************************)
(* Proofs about Parallelize for any number of pieces and workers and any   *)
(* size of the chunks:                                                     *)
(*   TypeCorrect        the type invariant;                                *)
(*   AtMostOnceCorrect  no piece is worked on twice;                       *)
(*   QuietCorrect       nobody works once the call has returned;           *)
(*   ErrorCorrect       an error that stops the call is reported;          *)
(*   NilMeansCompleteCorrect  a call without error did everything.         *)
(***************************************************************************)
EXTENDS Parallelize, TLAPS, SequenceTheorems, FiniteSetTheorems

-----------------------------------------------------------------------------
\* Chunks.

LEMMA CeilDivBound ==
  ASSUME NEW a \in Nat, NEW b \in Nat \ {0}
  PROVE  /\ CeilDiv(a, b) \in Nat
         /\ \A i \in 1..CeilDiv(a, b) : (i - 1) * b < a
<1> DEFINE q == (a + b - 1) \div b
<1>1. q \in Nat /\ b * q <= a + b - 1
  OBVIOUS
<1>2. ASSUME NEW i \in 1..q PROVE (i - 1) * b < a
  <2>1. b * i <= b * q
    BY <1>1, <1>2
  <2>2. (i - 1) * b = b * i - b
    OBVIOUS
  <2> QED
    BY <1>1, <2>1, <2>2
<1> QED
  BY <1>1, <1>2 DEF CeilDiv

\* A chunk ends where the next one starts, or before.
LEMMA ChunksDisjoint ==
  ASSUME call.chunkSize \in Nat \ {0}, call.pieces \in Nat,
         NEW c \in Nat, NEW d \in Nat, c < d
  PROVE  ChunkEnd(c) <= ChunkStart(d)
<1> DEFINE s == call.chunkSize
<1>1. (c + 1) * s <= d * s
  OBVIOUS
<1>2. (c + 1) * s = c * s + s /\ c * s \in Nat /\ d * s \in Nat
  OBVIOUS
<1> QED
  BY <1>1, <1>2 DEF ChunkEnd, ChunkStart

\* A chunk that starts in the range of the tasks has a piece, and its number is
\* that of a piece.
LEMMA ChunkInRange ==
  ASSUME call.chunkSize \in Nat \ {0}, call.pieces \in Nat,
         NEW c \in Nat, ChunkStart(c) < call.pieces
  PROVE  /\ ChunkStart(c) \in Nat /\ ChunkEnd(c) \in Nat
         /\ ChunkStart(c) < ChunkEnd(c) /\ ChunkEnd(c) <= call.pieces
         /\ c <= ChunkStart(c)
<1> DEFINE s == call.chunkSize
<1>1. c * s \in Nat /\ c <= c * s
  OBVIOUS
<1> QED
  BY <1>1 DEF ChunkEnd, ChunkStart

-----------------------------------------------------------------------------
\* Types.  What a worker is about to do concerns a piece of the tasks.

Active == {"check", "work", "send"}
OnPiece == Active \cup {"cancel", "unwind", "recover"}

CallOK ==
  /\ call.withResult \in BOOLEAN /\ call.stopOnErr \in BOOLEAN
  /\ call.pieces \in 0..MaxPieces /\ call.workers \in 0..MaxWorkers
  /\ call.chunkSize \in Nat \ {0}

RangeOK ==
  /\ \A i \in 1..Len(toProcess) : ChunkStart(toProcess[i]) < call.pieces
  /\ \A w \in Workers : wpc[w] \in OnPiece => pos[w] < end[w] /\ end[w] <= call.pieces

TypeInv == TypeOK /\ CallOK /\ RangeOK

LEMMA TypeInit == Init => TypeInv
<1> SUFFICES ASSUME Init
             PROVE  TypeInv
  OBVIOUS
<1> USE ParallelAssumption
<1>1. call \in [withResult : BOOLEAN, stopOnErr : BOOLEAN, pieces : 0..MaxPieces,
                workers : 0..MaxWorkers, chunkSize : ChunkSizes \cup {1}]
      /\ call.chunkSize \in Nat \ {0}
  <2>1. PICK withResult \in BOOLEAN, stopOnErr \in BOOLEAN, pieces \in 0..MaxPieces,
             workers \in 0..MaxWorkers, chunkSize \in ChunkSizes :
          call = [withResult |-> withResult, stopOnErr |-> stopOnErr,
                  pieces |-> pieces, workers |-> workers,
                  chunkSize |-> IF chunkSize < 1 THEN 1 ELSE chunkSize]
    BY DEF Init
  <2> QED
    BY <2>1
<1> DEFINE n == CeilDiv(call.pieces, call.chunkSize)
<1>2. CallOK
  BY <1>1 DEF CallOK
<1>3. n \in Nat /\ \A i \in 1..n : (i - 1) * call.chunkSize < call.pieces
  BY <1>2, CeilDivBound DEF CallOK
<1>4. toProcess = [i \in 1..n |-> i - 1]
  BY DEF Init
<1>5. \A i \in 1..n : toProcess[i] \in Nat /\ ChunkStart(toProcess[i]) < call.pieces
  BY <1>3, <1>4 DEF ChunkStart
<1>6. \A i \in 1..n : toProcess[i] \in Pieces
  BY <1>2, <1>5, ChunkInRange DEF CallOK, Pieces
<1>7. toProcess \in Seq(Pieces) /\ Len(toProcess) = n
  <2> HIDE DEF n
  <2>1. [i \in 1..n |-> i - 1] \in [1..n -> Pieces]
    BY <1>4, <1>6
  <2> QED
    BY <1>3, <1>4, <2>1
<1>8. RangeOK
  BY <1>5, <1>7 DEF Init, RangeOK, OnPiece, Active
<1>9. wpc \in [Workers -> WorkerPc] /\ pos \in [Workers -> 0..MaxPieces]
      /\ end \in [Workers -> 0..MaxPieces] /\ runs \in [Pieces -> Nat]
  BY DEF Init, WorkerPc
<1>10. resultCh \in Seq(Pieces) /\ result \in Seq(Pieces)
  BY DEF Init
<1>11. collector \in {"loop", "done"} /\ main \in {"wait", "read", "returned"}
       /\ errCh = NoErr /\ ret = NoErr
  BY DEF Init
<1>12. userDone \in BOOLEAN /\ cancelled \in BOOLEAN
       /\ failed \subseteq Pieces /\ panicked \subseteq Pieces
  BY DEF Init
<1> QED
  BY <1>1, <1>2, <1>7, <1>8, <1>9, <1>10, <1>11, <1>12 DEF TypeInv, TypeOK

\* The call is fixed: chunks start and end where they did.
LEMMA CallFixed == [Next]_vars => call' = call
  BY DEF Next, vars, UserCancel, WorkerStep, WorkerChunk, WorkerCheck, WorkerOk, WorkerError,
         WorkerPanic, WorkerSend, WorkerCancel, WorkerDone, WorkerRecover, Collector,
         CollectorTake, CollectorStop, MainWait, MainReturn, Terminated

\* The type invariant in parts, one for each group of variables.
CallType == /\ CallOK
            /\ call \in [withResult : BOOLEAN, stopOnErr : BOOLEAN, pieces : 0..MaxPieces,
                         workers : 0..MaxWorkers, chunkSize : ChunkSizes \cup {1}]
ChunksOK == /\ toProcess \in Seq(Pieces)
            /\ \A i \in 1..Len(toProcess) : ChunkStart(toProcess[i]) < call.pieces
ContextOK == userDone \in BOOLEAN /\ cancelled \in BOOLEAN
ErrorOK == errCh \in Pieces \cup {NoErr}
CrewOK == /\ wpc \in [Workers -> WorkerPc]
          /\ pos \in [Workers -> 0..MaxPieces] /\ end \in [Workers -> 0..MaxPieces]
          /\ \A w \in Workers : wpc[w] \in OnPiece => pos[w] < end[w] /\ end[w] <= call.pieces
ResultsOK == resultCh \in Seq(Pieces) /\ result \in Seq(Pieces) /\ collector \in {"loop", "done"}
MainOK == main \in {"wait", "read", "returned"} /\ ret \in Pieces \cup {NoErr}
PiecesOK == runs \in [Pieces -> Nat] /\ failed \subseteq Pieces /\ panicked \subseteq Pieces

AllParts == /\ CallType /\ ChunksOK /\ ContextOK /\ ErrorOK /\ CrewOK
            /\ ResultsOK /\ MainOK /\ PiecesOK

LEMMA TypeParts == (TypeInv <=> AllParts) /\ (TypeInv <=> AllParts)'
  BY Zenon DEF AllParts, TypeInv, TypeOK, RangeOK, CallType, ChunksOK, ContextOK, ErrorOK,
               CrewOK, ResultsOK, MainOK, PiecesOK

\* A part holds as long as its variables keep their values.
LEMMA TypeFrame ==
  ASSUME call' = call
  PROVE  /\ CallType => CallType'
         /\ ChunksOK /\ UNCHANGED toProcess => ChunksOK'
         /\ ContextOK /\ UNCHANGED <<userDone, cancelled>> => ContextOK'
         /\ ErrorOK /\ UNCHANGED errCh => ErrorOK'
         /\ CrewOK /\ UNCHANGED workerVars => CrewOK'
         /\ ResultsOK /\ UNCHANGED resultVars => ResultsOK'
         /\ MainOK /\ UNCHANGED mainVars => MainOK'
         /\ PiecesOK /\ UNCHANGED pieceVars => PiecesOK'
<1>1. CallType => CallType'
  BY DEF CallType, CallOK
<1>2. ChunksOK /\ UNCHANGED toProcess => ChunksOK'
  BY DEF ChunksOK, ChunkStart
<1>3. CrewOK /\ UNCHANGED workerVars => CrewOK'
  BY DEF CrewOK, workerVars
<1>4. /\ ContextOK /\ UNCHANGED <<userDone, cancelled>> => ContextOK'
      /\ ErrorOK /\ UNCHANGED errCh => ErrorOK'
  BY DEF ContextOK, ErrorOK
<1>5. /\ ResultsOK /\ UNCHANGED resultVars => ResultsOK'
      /\ MainOK /\ UNCHANGED mainVars => MainOK'
      /\ PiecesOK /\ UNCHANGED pieceVars => PiecesOK'
  BY DEF ResultsOK, MainOK, PiecesOK, resultVars, mainVars, pieceVars
<1> QED
  BY <1>1, <1>2, <1>3, <1>4, <1>5

\* A worker that is about to do something works on a piece.
LEMMA PieceOf ==
  ASSUME CallType, CrewOK, NEW w \in Workers, wpc[w] \in OnPiece
  PROVE  pos[w] \in Pieces
<1>1. pos[w] \in 0..MaxPieces /\ end[w] \in 0..MaxPieces
  BY DEF CrewOK
<1>2. pos[w] < end[w] /\ end[w] <= call.pieces
  BY DEF CrewOK
<1>3. call.pieces \in 0..MaxPieces
  BY DEF CallType, CallOK
<1> QED
  BY <1>1, <1>2, <1>3, ParallelAssumption DEF Pieces

\* A worker that goes on, with the same piece or without one.
LEMMA CrewGoes ==
  ASSUME CrewOK, call' = call, UNCHANGED <<pos, end>>,
         NEW w \in Workers, NEW pc \in WorkerPc,
         pc \in OnPiece => wpc[w] \in OnPiece,
         wpc' = [wpc EXCEPT ![w] = pc]
  PROVE  CrewOK'
<1>1. wpc' \in [Workers -> WorkerPc]
  BY DEF CrewOK
<1>2. \A v \in Workers : wpc'[v] \in OnPiece => wpc[v] \in OnPiece
  BY DEF CrewOK
<1> QED
  BY <1>1, <1>2 DEF CrewOK

\* Where a worker goes after a piece.
LEMMA CrewContinues ==
  ASSUME CallType, CrewOK, call' = call, UNCHANGED end, NEW w \in Workers,
         wpc[w] \in {"work", "send"},
         Continue(w) \/ NextPiece(w)
  PROVE  CrewOK'
<1>1. wpc[w] \in OnPiece
  BY DEF OnPiece, Active
<1>2. CASE NextPiece(w)
  <2>1. pos[w] + 1 \in 0..MaxPieces
    BY <1>1, PieceOf, ParallelAssumption DEF Pieces
  <2>2. PICK pc \in {"check", "range"} :
          /\ wpc' = [wpc EXCEPT ![w] = pc]
          /\ pc = "check" => pos[w] + 1 < end[w]
    BY <1>2 DEF NextPiece
  <2>3. pos' = [pos EXCEPT ![w] = pos[w] + 1] /\ pos' \in [Workers -> 0..MaxPieces]
    BY <1>2, <2>1 DEF NextPiece, CrewOK
  <2>4. wpc' \in [Workers -> WorkerPc]
    BY <2>2 DEF CrewOK, WorkerPc
  <2>5. ASSUME NEW v \in Workers, wpc'[v] \in OnPiece
        PROVE  pos'[v] < end'[v] /\ end'[v] <= call'.pieces
    <3>1. CASE v = w
      <4>1. pc = "check"
        BY <2>2, <2>5, <3>1 DEF CrewOK, OnPiece, Active
      <4> QED
        BY <1>1, <2>2, <2>3, <3>1, <4>1 DEF CrewOK
    <3>2. CASE v # w
      BY <2>2, <2>3, <2>5, <3>2 DEF CrewOK
    <3> QED
      BY <3>1, <3>2
  <2> QED
    BY <2>3, <2>4, <2>5 DEF CrewOK
<1>3. CASE Continue(w) /\ call.withResult
  BY <1>1, <1>3, CrewGoes DEF Continue, WorkerPc
<1>4. CASE Continue(w) /\ ~call.withResult
  BY <1>2, <1>4 DEF Continue
<1> QED
  BY <1>2, <1>3, <1>4

\* Every step keeps the type invariant.
LEMMA TypeStep == TypeInv /\ [Next]_vars => TypeInv'
<1> SUFFICES ASSUME TypeInv, [Next]_vars
             PROVE  TypeInv'
  OBVIOUS
<1>0. call' = call
  BY CallFixed
<1> USE <1>0, TypeParts, TypeFrame DEF AllParts
<1>1. CASE UserCancel
  <2>1. ContextOK'
    BY <1>1 DEF UserCancel, ContextOK
  <2> QED
    BY <1>1, <2>1 DEF UserCancel
<1>2. ASSUME NEW w \in Workers, WorkerChunk(w) PROVE TypeInv'
  <2>1. CASE toProcess = <<>>
    <3>1. CrewOK'
      BY <1>2, <2>1, CrewGoes DEF WorkerChunk, WorkerPc, OnPiece, Active
    <3> QED
      BY <1>2, <2>1, <3>1 DEF WorkerChunk
  <2>2. CASE toProcess # <<>>
    <3> DEFINE c == Head(toProcess)
    <3>1. c \in Pieces /\ c = toProcess[1] /\ 1 \in 1..Len(toProcess)
          /\ Tail(toProcess) \in Seq(Pieces)
          /\ \A i \in 1..Len(Tail(toProcess)) :
                i + 1 \in 1..Len(toProcess) /\ Tail(toProcess)[i] = toProcess[i + 1]
      BY <2>2, HeadTailProperties DEF ChunksOK
    <3>2. ChunkStart(c) < call.pieces /\ c \in Nat
      BY <3>1 DEF ChunksOK, Pieces
    <3>3. ChunkStart(c) \in 0..MaxPieces /\ ChunkEnd(c) \in 0..MaxPieces
          /\ ChunkStart(c) < ChunkEnd(c) /\ ChunkEnd(c) <= call.pieces
      <4>1. call.chunkSize \in Nat \ {0} /\ call.pieces \in 0..MaxPieces
        BY DEF CallType, CallOK
      <4>2. ChunkStart(c) \in Nat /\ ChunkEnd(c) \in Nat
            /\ ChunkStart(c) < ChunkEnd(c) /\ ChunkEnd(c) <= call.pieces
        BY <3>2, <4>1, ChunkInRange
      <4> QED
        BY <4>1, <4>2, ParallelAssumption
    <3>4. /\ toProcess' = Tail(toProcess)
          /\ pos' = [pos EXCEPT ![w] = ChunkStart(c)] /\ end' = [end EXCEPT ![w] = ChunkEnd(c)]
          /\ wpc' = [wpc EXCEPT ![w] = "check"]
          /\ UNCHANGED <<userDone, cancelled, errCh, resultVars, mainVars, pieceVars>>
      BY <1>2, <2>2 DEF WorkerChunk
    <3> HIDE DEF c
    <3>5. ChunksOK'
      <4>1. \A i \in 1..Len(toProcess') : ChunkStart(toProcess'[i]) < call.pieces
        BY <3>1, <3>4 DEF ChunksOK
      <4> QED
        BY <3>1, <3>4, <4>1 DEF ChunksOK, ChunkStart
    <3>6. CrewOK'
      <4>1. /\ wpc' \in [Workers -> WorkerPc]
            /\ pos' \in [Workers -> 0..MaxPieces] /\ end' \in [Workers -> 0..MaxPieces]
        BY <3>3, <3>4 DEF CrewOK, WorkerPc
      <4>2. pos'[w] = ChunkStart(c) /\ end'[w] = ChunkEnd(c)
        BY <3>4 DEF CrewOK
      <4>3. \A v \in Workers \ {w} : wpc'[v] = wpc[v] /\ pos'[v] = pos[v] /\ end'[v] = end[v]
        BY <3>4 DEF CrewOK
      <4>4. \A v \in Workers : wpc'[v] \in OnPiece => pos'[v] < end'[v] /\ end'[v] <= call.pieces
        BY <3>3, <4>2, <4>3 DEF CrewOK
      <4> QED
        BY <4>1, <4>4 DEF CrewOK
    <3> QED
      BY <3>4, <3>5, <3>6
  <2> QED
    BY <2>1, <2>2
<1>3. ASSUME NEW w \in Workers, WorkerCheck(w) PROVE TypeInv'
  <2>1. pos[w] \in Pieces
    BY <1>3, PieceOf DEF WorkerCheck, OnPiece, Active
  <2>2. runs' = runs \/ runs' = [runs EXCEPT ![pos[w]] = runs[pos[w]] + 1]
    BY <1>3 DEF WorkerCheck
  <2>3. PiecesOK'
    BY <1>3, <2>1, <2>2 DEF PiecesOK, WorkerCheck
  <2>4. PICK pc \in {"leave", "work"} : wpc' = [wpc EXCEPT ![w] = pc]
    BY <1>3 DEF WorkerCheck
  <2>5. CrewOK'
    BY <1>3, <2>4, CrewGoes DEF WorkerCheck, WorkerPc, OnPiece, Active
  <2> QED
    BY <1>3, <2>3, <2>5 DEF WorkerCheck, controlVars
<1>4. ASSUME NEW w \in Workers, WorkerOk(w) PROVE TypeInv'
  <2>1. CrewOK'
    BY <1>4, CrewContinues DEF WorkerOk
  <2> QED
    BY <1>4, <2>1 DEF WorkerOk, controlVars
<1>5. ASSUME NEW w \in Workers, WorkerError(w) PROVE TypeInv'
  <2>1. pos[w] \in Pieces
    BY <1>5, PieceOf DEF WorkerError, OnPiece, Active
  <2>2. PiecesOK'
    BY <1>5, <2>1 DEF PiecesOK, WorkerError
  <2>3. ErrorOK'
    BY <1>5, <2>1 DEF ErrorOK, WorkerError, OfferError
  <2>4. CASE call.stopOnErr
    <3>1. CrewOK'
      BY <1>5, <2>4, CrewGoes DEF WorkerError, WorkerPc, OnPiece, Active
    <3> QED
      BY <1>5, <2>2, <2>3, <3>1 DEF WorkerError
  <2>5. CASE ~call.stopOnErr
    <3>1. CrewOK'
      BY <1>5, <2>5, CrewContinues DEF WorkerError
    <3> QED
      BY <1>5, <2>2, <2>3, <3>1 DEF WorkerError
  <2> QED
    BY <2>4, <2>5
<1>6. ASSUME NEW w \in Workers, WorkerPanic(w) PROVE TypeInv'
  <2>1. pos[w] \in Pieces
    BY <1>6, PieceOf DEF WorkerPanic, OnPiece, Active
  <2>2. PiecesOK'
    BY <1>6, <2>1 DEF PiecesOK, WorkerPanic
  <2>3. CrewOK'
    BY <1>6, CrewGoes DEF WorkerPanic, WorkerPc, OnPiece, Active
  <2> QED
    BY <1>6, <2>2, <2>3 DEF WorkerPanic, controlVars
<1>7. ASSUME NEW w \in Workers, WorkerSend(w) PROVE TypeInv'
  <2>1. pos[w] \in Pieces
    BY <1>7, PieceOf DEF WorkerSend, OnPiece, Active
  <2>2. ResultsOK'
    BY <1>7, <2>1, AppendProperties DEF ResultsOK, WorkerSend
  <2>3. CrewOK'
    BY <1>7, CrewContinues DEF WorkerSend
  <2> QED
    BY <1>7, <2>2, <2>3 DEF WorkerSend, controlVars
<1>8. ASSUME NEW w \in Workers, WorkerCancel(w) PROVE TypeInv'
  <2>1. PICK pc \in {"leave", "exit"} : wpc' = [wpc EXCEPT ![w] = pc]
    BY <1>8 DEF WorkerCancel
  <2>2. CrewOK'
    BY <1>8, <2>1, CrewGoes DEF WorkerCancel, WorkerPc, OnPiece, Active
  <2>3. ContextOK'
    BY <1>8 DEF WorkerCancel, ContextOK
  <2> QED
    BY <1>8, <2>2, <2>3 DEF WorkerCancel
<1>9. ASSUME NEW w \in Workers, WorkerDone(w) PROVE TypeInv'
  <2>1. PICK pc \in {"exit", "recover"} :
          /\ wpc' = [wpc EXCEPT ![w] = pc]
          /\ pc = "recover" => wpc[w] = "unwind"
    BY <1>9 DEF WorkerDone
  <2>2. CrewOK'
    BY <1>9, <2>1, CrewGoes DEF WorkerDone, WorkerPc, OnPiece, Active
  <2> QED
    BY <1>9, <2>2 DEF WorkerDone, controlVars
<1>10. ASSUME NEW w \in Workers, WorkerRecover(w) PROVE TypeInv'
  <2>1. pos[w] \in Pieces
    BY <1>10, PieceOf DEF WorkerRecover, OnPiece, Active
  <2>2. PICK pc \in {"recancel", "exit"} : wpc' = [wpc EXCEPT ![w] = pc]
    BY <1>10 DEF WorkerRecover
  <2>3. CrewOK'
    BY <1>10, <2>2, CrewGoes DEF WorkerRecover, WorkerPc, OnPiece, Active
  <2>4. ErrorOK'
    BY <1>10, <2>1 DEF ErrorOK, WorkerRecover
  <2> QED
    BY <1>10, <2>3, <2>4 DEF WorkerRecover
<1>11. CASE CollectorTake
  <2>1. Head(resultCh) \in Pieces /\ Tail(resultCh) \in Seq(Pieces)
    BY <1>11, HeadTailProperties DEF CollectorTake, ResultsOK
  <2>2. ResultsOK'
    BY <1>11, <2>1, AppendProperties DEF CollectorTake, ResultsOK
  <2> QED
    BY <1>11, <2>2 DEF CollectorTake, controlVars
<1>12. CASE CollectorStop
  <2>1. ResultsOK'
    BY <1>12 DEF CollectorStop, ResultsOK
  <2> QED
    BY <1>12, <2>1 DEF CollectorStop, controlVars
<1>13. CASE MainWait
  <2>1. MainOK'
    BY <1>13 DEF MainWait, MainOK
  <2> QED
    BY <1>13, <2>1 DEF MainWait, controlVars
<1>14. CASE MainReturn
  <2>1. MainOK' /\ ErrorOK' /\ ContextOK'
    BY <1>14 DEF MainReturn, MainOK, ErrorOK, ContextOK
  <2> QED
    BY <1>14, <2>1 DEF MainReturn
<1>15. CASE UNCHANGED vars
  BY <1>15 DEF vars, controlVars
<1> QED
  BY <1>1, <1>2, <1>3, <1>4, <1>5, <1>6, <1>7, <1>8, <1>9, <1>10, <1>11, <1>12, <1>13, <1>14,
     <1>15 DEF Next, WorkerStep, Collector, Terminated

\* Every reachable state is well typed: no worker leaves the range of the tasks
\* (tasks[p], parallel.go:90 and 205, is never out of range).
THEOREM TypeCorrect == Spec => []TypeOK
<1>1. TypeInv => TypeOK
  BY DEF TypeInv
<1> QED
  BY <1>1, TypeInit, TypeStep, PTL DEF Spec

-----------------------------------------------------------------------------
\* The end of the call.

QuietInv == main # "wait" => AllDone

LEMMA QuietInit == Init => QuietInv
<1> SUFFICES ASSUME Init, main # "wait"
             PROVE  AllDone
  BY DEF QuietInv
<1>1. call.pieces = 0 /\ collector = "done"
  BY DEF Init
<1>2. CeilDiv(0, call.chunkSize) = 0
  BY TypeInit DEF TypeInv, CallOK, CeilDiv
<1>3. Crew(call) = {}
  BY <1>1, <1>2, TypeInit DEF TypeInv, CallOK, Crew
<1> QED
  BY <1>1, <1>3 DEF Init, AllDone

LEMMA QuietStep == TypeInv /\ QuietInv /\ [Next]_vars => QuietInv'
<1> SUFFICES ASSUME TypeInv, QuietInv, [Next]_vars, main' # "wait"
             PROVE  AllDone'
  BY DEF QuietInv
<1>1. CASE main = "wait"
  BY <1>1 DEF Next, vars, UserCancel, mainVars, WorkerStep, WorkerChunk, WorkerCheck, WorkerOk,
              WorkerError, WorkerPanic, WorkerSend, WorkerCancel, WorkerDone, WorkerRecover,
              Collector, CollectorTake, CollectorStop, MainWait, MainReturn, AllDone,
              workerVars, resultVars, Terminated
<1>2. CASE main # "wait"
  <2>1. wpc \in [Workers -> WorkerPc] /\ AllDone
    BY <1>2 DEF TypeInv, TypeOK, QuietInv
  <2>2. ASSUME NEW w \in Workers, WorkerStep(w) PROVE WorkerCancel(w) \/ WorkerRecover(w)
    BY <2>1, <2>2 DEF AllDone, WorkerStep, WorkerChunk, WorkerCheck, WorkerOk, WorkerError,
                      WorkerPanic, WorkerSend, WorkerDone
  <2>3. ASSUME NEW w \in Workers, WorkerStep(w) PROVE AllDone'
    BY <2>1, <2>2, <2>3 DEF AllDone, WorkerCancel, WorkerRecover, resultVars
  <2>4. ~Collector
    BY <2>1 DEF AllDone, Collector, CollectorTake, CollectorStop
  <2>5. CASE UserCancel \/ MainWait \/ MainReturn \/ UNCHANGED vars
    BY <2>1, <2>5 DEF AllDone, UserCancel, MainWait, MainReturn, vars, workerVars, resultVars
  <2> QED
    BY <2>3, <2>4, <2>5 DEF Next, Terminated
<1> QED
  BY <1>1, <1>2

\* No goroutine is in doWorkPiece, nor blocked on resultCh, once Parallelize or
\* ParallelizeResult has returned (wg.Wait, parallel.go:98 and 238).
THEOREM QuietCorrect == Spec => []QuietAfterReturn
<1>1. QuietInv => QuietAfterReturn
  BY DEF QuietInv, QuietAfterReturn, AllDone
<1> QED
  BY <1>1, TypeInit, TypeStep, QuietInit, QuietStep, PTL DEF Spec

\* The error of the call: as long as the call has not returned, errCh holds the
\* first one.
BadEnd == failed \cup panicked

ErrorInv ==
  /\ main # "returned" => errCh \in BadEnd \cup {NoErr}
  /\ main # "returned" /\ call.stopOnErr /\ failed # {} => errCh \in BadEnd
  /\ \A w \in Workers : wpc[w] \in {"unwind", "recover"} => pos[w] \in panicked
  /\ ErrorReported

LEMMA ErrorStep == TypeInv /\ QuietInv /\ ErrorInv /\ [Next]_vars => ErrorInv'
<1> SUFFICES ASSUME TypeInv, QuietInv, ErrorInv, [Next]_vars
             PROVE  ErrorInv'
  OBVIOUS
<1>0. wpc \in [Workers -> WorkerPc] /\ pos \in [Workers -> 0..MaxPieces] /\ call' = call
  BY CallFixed DEF TypeInv, TypeOK
<1> USE <1>0 DEF ErrorInv, ErrorReported, BadEnd
<1>1. CASE UserCancel
  BY <1>1 DEF UserCancel, workerVars, mainVars, pieceVars
<1>2. ASSUME NEW w \in Workers, WorkerChunk(w) \/ WorkerCheck(w) \/ WorkerOk(w) \/ WorkerSend(w)
      PROVE  ErrorInv'
  <2>1. UNCHANGED <<errCh, failed, panicked, main, ret>>
    BY <1>2 DEF WorkerChunk, WorkerCheck, WorkerOk, WorkerSend, controlVars, mainVars, pieceVars
  <2>2. \A v \in Workers : wpc'[v] \in {"unwind", "recover"} =>
            wpc[v] \in {"unwind", "recover"} /\ pos'[v] = pos[v]
    BY <1>2 DEF WorkerChunk, WorkerCheck, WorkerOk, WorkerSend, Continue, NextPiece
  <2> QED
    BY <2>1, <2>2
<1>3. ASSUME NEW w \in Workers, WorkerError(w) PROVE ErrorInv'
  <2>1. main # "returned" /\ main' = main
    BY <1>3 DEF QuietInv, AllDone, WorkerError, mainVars
  <2>2. failed' = failed \cup {pos[w]} /\ panicked' = panicked
    BY <1>3 DEF WorkerError
  <2>3. \A v \in Workers : wpc'[v] \in {"unwind", "recover"} =>
            wpc[v] \in {"unwind", "recover"} /\ pos'[v] = pos[v]
    BY <1>3 DEF WorkerError, Continue, NextPiece
  <2>4. CASE call.stopOnErr
    <3>0. OfferError(pos[w])
      BY <1>3, <2>4 DEF WorkerError
    <3>1. errCh' = pos[w] \/ (errCh' = errCh /\ errCh # NoErr)
      BY <3>0 DEF OfferError
    <3>2. errCh' \in failed' \cup panicked'
      BY <2>1, <2>2, <3>1
    <3> QED
      BY <2>1, <2>2, <2>3, <3>2
  <2>5. CASE ~call.stopOnErr
    <3>1. errCh' = errCh
      BY <1>3, <2>5 DEF WorkerError
    <3> QED
      BY <2>1, <2>2, <2>3, <2>5, <3>1
  <2> QED
    BY <2>4, <2>5
<1>4. ASSUME NEW w \in Workers, WorkerPanic(w) PROVE ErrorInv'
  BY <1>4 DEF WorkerPanic, controlVars, mainVars
<1>5. ASSUME NEW w \in Workers, WorkerCancel(w) \/ WorkerDone(w) PROVE ErrorInv'
  <2>1. UNCHANGED <<errCh, failed, panicked, main, ret, pos>>
    BY <1>5 DEF WorkerCancel, WorkerDone, controlVars, mainVars, pieceVars
  <2>2. \A v \in Workers : wpc'[v] \in {"unwind", "recover"} => wpc[v] \in {"unwind", "recover"}
    BY <1>5 DEF WorkerCancel, WorkerDone
  <2> QED
    BY <2>1, <2>2
<1>6. ASSUME NEW w \in Workers, WorkerRecover(w) PROVE ErrorInv'
  <2>1. UNCHANGED <<failed, panicked, main, ret, pos>> /\ pos[w] \in panicked
    BY <1>6 DEF WorkerRecover, mainVars, pieceVars
  <2>2. errCh' \in {errCh, pos[w]} /\ (errCh' # errCh => errCh' \in panicked)
    BY <1>6, <2>1 DEF WorkerRecover
  <2>3. \A v \in Workers : wpc'[v] \in {"unwind", "recover"} => wpc[v] \in {"unwind", "recover"}
    BY <1>6 DEF WorkerRecover
  <2> QED
    BY <2>1, <2>2, <2>3
<1>7. CASE Collector
  BY <1>7 DEF Collector, CollectorTake, CollectorStop, controlVars, workerVars, mainVars, pieceVars
<1>8. CASE MainWait
  BY <1>8 DEF MainWait, controlVars, workerVars, pieceVars
<1>9. CASE MainReturn
  BY <1>9 DEF MainReturn, workerVars, pieceVars
<1>10. CASE UNCHANGED vars
  BY <1>10 DEF vars, controlVars, workerVars, mainVars, pieceVars
<1> QED
  BY <1>1, <1>2, <1>3, <1>4, <1>5, <1>6, <1>7, <1>8, <1>9, <1>10
     DEF Next, WorkerStep, Terminated

\* With WithStopOnError an error is never lost to the select on errCh
\* (parallel.go:83-89, 100-104): some piece that ended badly is reported.
THEOREM ErrorCorrect == Spec => []ErrorReported
<1>1. Init => ErrorInv
  BY DEF Init, ErrorInv, ErrorReported, BadEnd
<1>2. ErrorInv => ErrorReported
  BY DEF ErrorInv
<1> QED
  BY <1>1, <1>2, TypeInit, TypeStep, QuietInit, QuietStep, ErrorStep, PTL DEF Spec

-----------------------------------------------------------------------------
\* No piece twice.  The chunks are taken in order, so that whoever is at work
\* stays below the chunks that are left; two workers never share a piece; and
\* what lies ahead of a worker was not worked on.

Ahead(w, p) ==
  \/ wpc[w] = "check" /\ pos[w] <= p /\ p < end[w]
  \/ wpc[w] \in {"work", "send"} /\ pos[w] < p /\ p < end[w]

OnceInv ==
  /\ \A i, j \in 1..Len(toProcess) : i < j => toProcess[i] < toProcess[j]
  /\ \A i \in 1..Len(toProcess), p \in Pieces :
        ChunkStart(toProcess[i]) <= p => runs[p] = 0
  /\ \A i \in 1..Len(toProcess), w \in Workers :
        wpc[w] \in Active => end[w] <= ChunkStart(toProcess[i])
  /\ \A v, w \in Workers : v # w /\ wpc[v] \in Active /\ wpc[w] \in Active =>
        end[v] <= pos[w] \/ end[w] <= pos[v]
  /\ \A w \in Workers, p \in Pieces : Ahead(w, p) => runs[p] = 0
  /\ AtMostOnce

LEMMA OnceInit == Init => OnceInv
<1> SUFFICES ASSUME Init
             PROVE  OnceInv
  OBVIOUS
<1> DEFINE n == CeilDiv(call.pieces, call.chunkSize)
<1>1. n \in Nat
  BY TypeInit, CeilDivBound DEF TypeInv, CallOK
<1>2. Len(toProcess) = n /\ \A i \in 1..n : toProcess[i] = i - 1
  BY <1>1 DEF Init
<1>3. \A w \in Workers : wpc[w] \in {"range", "exit"}
  BY DEF Init
<1>4. \A p \in Pieces : runs[p] = 0
  BY DEF Init
<1>5. AtMostOnce
  BY <1>4 DEF AtMostOnce
<1> HIDE DEF n
<1>6. \A i, j \in 1..Len(toProcess) : i < j => toProcess[i] < toProcess[j]
  BY <1>1, <1>2
<1> QED
  BY <1>3, <1>4, <1>5, <1>6 DEF OnceInv, Ahead, Active

\* A worker that goes on leaves the other workers and the pieces alone.
LEMMA OnceMove ==
  ASSUME TypeInv, OnceInv, NEW w \in Workers, call' = call,
         UNCHANGED <<toProcess, end, runs>>,
         pos' \in [Workers -> Nat],
         \A v \in Workers \ {w} : wpc'[v] = wpc[v] /\ pos'[v] = pos[v],
         wpc'[w] \in Active => wpc[w] \in Active /\ pos[w] <= pos'[w],
         \A p \in Pieces : Ahead(w, p)' => Ahead(w, p)
  PROVE  OnceInv'
<1>0. pos \in [Workers -> 0..MaxPieces] /\ end \in [Workers -> 0..MaxPieces]
      /\ \A c : ChunkStart(c)' = ChunkStart(c)
  BY DEF TypeInv, TypeOK, ChunkStart
<1>1. \A v \in Workers, p \in Pieces : Ahead(v, p)' => Ahead(v, p)
  BY DEF Ahead
<1>2. \A v \in Workers : wpc'[v] \in Active => wpc[v] \in Active
  OBVIOUS
<1>3. \A i \in 1..Len(toProcess), v \in Workers :
        wpc'[v] \in Active => end[v] <= ChunkStart(toProcess[i])
  BY <1>2 DEF OnceInv
<1>4. AtMostOnce'
  BY DEF OnceInv, AtMostOnce
<1>5. ASSUME NEW u \in Workers, NEW v \in Workers, u # v,
             wpc'[u] \in Active, wpc'[v] \in Active
      PROVE  end[u] <= pos'[v] \/ end[v] <= pos'[u]
  <2>1. end[u] <= pos[v] \/ end[v] <= pos[u]
    BY <1>2, <1>5 DEF OnceInv
  <2>2. pos[u] <= pos'[u] /\ pos[v] <= pos'[v]
    BY <1>0, <1>5
  <2>3. pos'[u] \in Nat /\ pos'[v] \in Nat
    BY <1>0
  <2> QED
    BY <1>0, <2>1, <2>2, <2>3
<1>6. \A i \in 1..Len(toProcess), p \in Pieces :
        ChunkStart(toProcess[i])' <= p => runs[p] = 0
  BY <1>0 DEF OnceInv
<1> QED
  BY <1>0, <1>1, <1>3, <1>4, <1>5, <1>6 DEF OnceInv

LEMMA OnceStep == TypeInv /\ OnceInv /\ [Next]_vars => OnceInv'
<1> SUFFICES ASSUME TypeInv, OnceInv, [Next]_vars
             PROVE  OnceInv'
  OBVIOUS
<1>0. /\ call' = call /\ \A c : ChunkStart(c)' = ChunkStart(c)
      /\ wpc \in [Workers -> WorkerPc]
      /\ pos \in [Workers -> Nat] /\ end \in [Workers -> Nat]
      /\ \A w \in Workers : wpc[w] \in OnPiece => pos[w] < end[w] /\ end[w] <= call.pieces
      /\ call.pieces \in Nat /\ call.pieces <= MaxPieces /\ call.chunkSize \in Nat \ {0}
  BY CallFixed, ParallelAssumption DEF TypeInv, TypeOK, RangeOK, CallOK, ChunkStart
<1>a. TypeInv'
  BY TypeStep
<1>b. pos' \in [Workers -> Nat]
  BY <1>a, ParallelAssumption DEF TypeInv, TypeOK
<1>1. ASSUME UNCHANGED <<toProcess, wpc, pos, end, runs>> PROVE OnceInv'
  <2>1. \A w \in Workers, p \in Pieces : Ahead(w, p)' => Ahead(w, p)
    BY <1>1 DEF Ahead
  <2>2. AtMostOnce'
    BY <1>0, <1>1 DEF OnceInv, AtMostOnce
  <2> QED
    BY <1>0, <1>1, <2>1, <2>2 DEF OnceInv
<1>2. ASSUME NEW w \in Workers, WorkerChunk(w) PROVE OnceInv'
  <2>1. CASE toProcess = <<>>
    BY <1>0, <1>2, <1>b, <2>1, OnceMove DEF WorkerChunk, Ahead, Active, pieceVars
  <2>2. CASE toProcess # <<>>
    <3> DEFINE c == Head(toProcess)
    <3>1. c = toProcess[1] /\ c \in Nat /\ 1 \in 1..Len(toProcess)
          /\ \A i \in 1..Len(Tail(toProcess)) :
                /\ i + 1 \in 1..Len(toProcess) /\ Tail(toProcess)[i] = toProcess[i + 1]
                /\ toProcess[i + 1] \in Nat /\ c < toProcess[i + 1]
      <4>1. toProcess \in Seq(Pieces) /\ Len(toProcess) \in Nat
        BY DEF TypeInv, TypeOK
      <4>2. c = toProcess[1] /\ 1 \in 1..Len(toProcess)
            /\ \A i \in 1..Len(Tail(toProcess)) :
                  i + 1 \in 1..Len(toProcess) /\ Tail(toProcess)[i] = toProcess[i + 1]
        BY <2>2, <4>1, HeadTailProperties
      <4>3. \A i \in 1..Len(toProcess) : toProcess[i] \in Nat
        <5>1. \A i \in 1..Len(toProcess) : toProcess[i] \in Pieces
          BY <4>1, ElementOfSeq
        <5> QED
          BY <5>1 DEF Pieces
      <4>4. \A i \in 1..Len(Tail(toProcess)) : toProcess[1] < toProcess[i + 1]
        BY <4>1, <4>2 DEF OnceInv
      <4> QED
        BY <4>2, <4>3, <4>4
    <3>2. /\ toProcess' = Tail(toProcess)
          /\ pos' = [pos EXCEPT ![w] = ChunkStart(c)] /\ end' = [end EXCEPT ![w] = ChunkEnd(c)]
          /\ wpc' = [wpc EXCEPT ![w] = "check"] /\ UNCHANGED runs
      BY <1>2, <2>2 DEF WorkerChunk, pieceVars
    <3>3. ChunkStart(c) \in Nat /\ ChunkEnd(c) \in Nat
      BY <3>1, <1>0 DEF ChunkStart, ChunkEnd
    <3>4. \A i \in 1..Len(toProcess') : ChunkEnd(c) <= ChunkStart(toProcess'[i])
      BY <1>0, <3>1, <3>2, ChunksDisjoint
    <3>5. \A p \in Pieces : ChunkStart(c) <= p => runs[p] = 0
      BY <3>1 DEF OnceInv
    <3>6. \A v \in Workers \ {w} : wpc[v] \in Active => end[v] <= ChunkStart(c)
      BY <3>1 DEF OnceInv
    <3> HIDE DEF c
    <3>7. \A v \in Workers : v # w => wpc'[v] = wpc[v] /\ pos'[v] = pos[v] /\ end'[v] = end[v]
      BY <1>0, <3>2
    <3>8. wpc'[w] = "check" /\ pos'[w] = ChunkStart(c) /\ end'[w] = ChunkEnd(c)
      BY <1>0, <3>2
    <3>9. \A i \in 1..Len(toProcess'), v \in Workers :
              wpc'[v] \in Active => end'[v] <= ChunkStart(toProcess'[i])
      <4>1. SUFFICES ASSUME NEW i \in 1..Len(toProcess'), NEW v \in Workers, wpc'[v] \in Active
                     PROVE  end'[v] <= ChunkStart(toProcess'[i])
        OBVIOUS
      <4>2. CASE v = w
        BY <3>4, <3>8, <4>2
      <4>3. CASE v # w
        BY <3>1, <3>2, <3>7, <4>1, <4>3 DEF OnceInv
      <4> QED
        BY <4>2, <4>3
    <3>10. \A u, v \in Workers : u # v /\ wpc'[u] \in Active /\ wpc'[v] \in Active =>
              end'[u] <= pos'[v] \/ end'[v] <= pos'[u]
      <4>1. SUFFICES ASSUME NEW u \in Workers, NEW v \in Workers, u # v,
                            wpc'[u] \in Active, wpc'[v] \in Active
                     PROVE  end'[u] <= pos'[v] \/ end'[v] <= pos'[u]
        OBVIOUS
      <4>2. CASE u = w
        BY <3>6, <3>7, <3>8, <4>1, <4>2
      <4>3. CASE v = w
        BY <3>6, <3>7, <3>8, <4>1, <4>3
      <4>4. CASE u # w /\ v # w
        BY <3>7, <4>1, <4>4 DEF OnceInv
      <4> QED
        BY <4>2, <4>3, <4>4
    <3>11. \A v \in Workers, p \in Pieces : Ahead(v, p)' => runs[p] = 0
      BY <3>5, <3>7, <3>8 DEF OnceInv, Ahead
    <3>12. \A i, j \in 1..Len(toProcess') : i < j => toProcess'[i] < toProcess'[j]
      BY <3>1, <3>2 DEF OnceInv
    <3>13. \A i \in 1..Len(toProcess'), p \in Pieces :
              ChunkStart(toProcess'[i]) <= p => runs[p] = 0
      BY <3>1, <3>2 DEF OnceInv
    <3>14. AtMostOnce'
      BY <1>0, <3>2 DEF OnceInv, AtMostOnce
    <3> QED
      BY <1>0, <3>2, <3>9, <3>10, <3>11, <3>12, <3>13, <3>14 DEF OnceInv
  <2> QED
    BY <2>1, <2>2
<1>3. ASSUME NEW w \in Workers, WorkerCheck(w) PROVE OnceInv'
  <2>1. UNCHANGED <<toProcess, pos, end>> /\ wpc[w] = "check"
    BY <1>3 DEF WorkerCheck, controlVars
  <2>2. CASE wpc' = [wpc EXCEPT ![w] = "leave"] /\ UNCHANGED runs
    BY <1>0, <1>b, <2>1, <2>2, OnceMove DEF Ahead, Active
  <2>3. CASE wpc' = [wpc EXCEPT ![w] = "work"] /\ runs' = [runs EXCEPT ![pos[w]] = @ + 1]
    <3>1. runs \in [Pieces -> Nat] /\ pos[w] \in Pieces /\ pos[w] < end[w] /\ pos[w] < call.pieces
      BY <1>0, <2>1, ParallelAssumption DEF TypeInv, TypeOK, OnPiece, Active, Pieces
    <3>2. runs[pos[w]] = 0 /\ wpc[w] \in Active
      BY <1>0, <2>1, <3>1 DEF OnceInv, Ahead, Active
    <3>3. runs'[pos[w]] = 1 /\ \A p \in Pieces : p # pos[w] => runs'[p] = runs[p]
      BY <2>3, <3>1, <3>2
    <3>4. AtMostOnce'
      <4>1. ASSUME NEW p \in Pieces, p # pos[w]
            PROVE  runs'[p] <= IF p < call.pieces THEN 1 ELSE 0
        BY <3>3, <4>1 DEF OnceInv, AtMostOnce
      <4>2. runs'[pos[w]] <= IF pos[w] < call.pieces THEN 1 ELSE 0
        BY <3>1, <3>3
      <4> QED
        BY <1>0, <4>1, <4>2 DEF AtMostOnce
    <3>5. \A v \in Workers : wpc'[v] \in Active => wpc[v] \in Active
      BY <1>0, <2>1, <2>3 DEF Active
    <3>6. \A v \in Workers, p \in Pieces : Ahead(v, p)' => Ahead(v, p) /\ p # pos[w]
      <4>1. SUFFICES ASSUME NEW v \in Workers, NEW p \in Pieces, Ahead(v, p)'
                     PROVE  Ahead(v, p) /\ p # pos[w]
        OBVIOUS
      <4>2. CASE v = w
        BY <1>0, <2>1, <2>3, <4>1, <4>2 DEF Ahead, Pieces
      <4>3. CASE v # w
        <5>1. Ahead(v, p) /\ wpc[v] \in Active /\ pos[v] <= p /\ p < end[v]
          BY <1>0, <2>1, <2>3, <4>1, <4>3 DEF Ahead, Active, Pieces
        <5>2. end[v] <= pos[w] \/ end[w] <= pos[v]
          BY <3>2, <4>3, <5>1 DEF OnceInv
        <5> QED
          BY <1>0, <3>1, <5>1, <5>2 DEF Pieces
      <4> QED
        BY <4>2, <4>3
    <3>7. \A i \in 1..Len(toProcess), p \in Pieces :
              ChunkStart(toProcess[i]) <= p => p # pos[w] /\ runs'[p] = 0
      <4>1. SUFFICES ASSUME NEW i \in 1..Len(toProcess), NEW p \in Pieces,
                            ChunkStart(toProcess[i]) <= p
                     PROVE  p # pos[w] /\ runs[p] = 0
        BY <3>3
      <4>2. toProcess[i] \in Nat /\ ChunkStart(toProcess[i]) \in Nat
        <5>1. toProcess[i] \in Pieces
          BY ElementOfSeq DEF TypeInv, TypeOK
        <5> QED
          BY <1>0, <5>1 DEF ChunkStart, Pieces
      <4>3. end[w] <= ChunkStart(toProcess[i])
        BY <3>2 DEF OnceInv
      <4> QED
        BY <1>0, <3>1, <4>1, <4>2, <4>3 DEF OnceInv, Pieces
    <3>8. \A v \in Workers, p \in Pieces : Ahead(v, p)' => runs'[p] = 0
      BY <3>3, <3>6 DEF OnceInv
    <3> QED
      BY <1>0, <2>1, <3>4, <3>5, <3>7, <3>8 DEF OnceInv
  <2> QED
    BY <1>3, <2>2, <2>3 DEF WorkerCheck
<1>4. ASSUME NEW w \in Workers, wpc[w] \in {"work", "send"}, Continue(w) \/ NextPiece(w),
             UNCHANGED <<toProcess, end, runs>>
      PROVE  OnceInv'
  <2>1. \A v \in Workers \ {w} : wpc'[v] = wpc[v] /\ pos'[v] = pos[v]
    BY <1>0, <1>4 DEF Continue, NextPiece
  <2>2. pos'[w] \in {pos[w], pos[w] + 1} /\ wpc[w] \in Active
    BY <1>0, <1>4 DEF Continue, NextPiece, Active
  <2>3. wpc'[w] = "check" => pos'[w] = pos[w] + 1
    BY <1>0, <1>4 DEF Continue, NextPiece
  <2>4. \A p \in Pieces : Ahead(w, p)' => Ahead(w, p)
    BY <1>0, <1>4, <2>2, <2>3 DEF Ahead, Pieces
  <2>5. pos[w] <= pos'[w]
    BY <1>0, <2>2
  <2> QED
    BY <1>0, <1>4, <1>b, <2>1, <2>2, <2>4, <2>5, OnceMove
<1>5. ASSUME NEW w \in Workers, WorkerOk(w) \/ WorkerSend(w) PROVE OnceInv'
  BY <1>4, <1>5 DEF WorkerOk, WorkerSend, controlVars, pieceVars
<1>6. ASSUME NEW w \in Workers, UNCHANGED <<toProcess, pos, end, runs>>,
             \A v \in Workers \ {w} : wpc'[v] = wpc[v], wpc'[w] \notin Active
      PROVE  OnceInv'
  <2>1. \A p \in Pieces : ~Ahead(w, p)'
    BY <1>6 DEF Ahead, Active
  <2> QED
    BY <1>0, <1>6, <1>b, <2>1, OnceMove
<1>7. ASSUME NEW w \in Workers, WorkerError(w) PROVE OnceInv'
  <2>1. UNCHANGED <<toProcess, end, runs>> /\ wpc[w] = "work"
    BY <1>7 DEF WorkerError
  <2>2. CASE call.stopOnErr
    <3>1. wpc' = [wpc EXCEPT ![w] = "cancel"] /\ UNCHANGED pos
      BY <1>7, <2>2 DEF WorkerError
    <3>2. wpc'[w] \notin Active /\ \A v \in Workers \ {w} : wpc'[v] = wpc[v]
      BY <1>0, <3>1 DEF Active
    <3> QED
      BY <1>6, <2>1, <3>1, <3>2
  <2>3. CASE ~call.stopOnErr
    BY <1>4, <1>7, <2>1, <2>3 DEF WorkerError
  <2> QED
    BY <2>2, <2>3
<1>8. ASSUME NEW w \in Workers,
             WorkerPanic(w) \/ WorkerCancel(w) \/ WorkerDone(w) \/ WorkerRecover(w)
      PROVE  OnceInv'
  <2>1. UNCHANGED <<toProcess, pos, end, runs>>
    BY <1>8 DEF WorkerPanic, WorkerCancel, WorkerDone, WorkerRecover, controlVars, pieceVars
  <2>2. wpc'[w] \notin Active /\ \A v \in Workers \ {w} : wpc'[v] = wpc[v]
    BY <1>0, <1>8 DEF WorkerPanic, WorkerCancel, WorkerDone, WorkerRecover, Active
  <2> QED
    BY <1>6, <2>1, <2>2
<1>9. CASE UserCancel \/ Collector \/ MainWait \/ MainReturn \/ UNCHANGED vars
  BY <1>1, <1>9 DEF UserCancel, Collector, CollectorTake, CollectorStop, MainWait, MainReturn,
                    vars, controlVars, workerVars, pieceVars
<1> QED
  BY <1>2, <1>3, <1>5, <1>7, <1>8, <1>9 DEF Next, WorkerStep, Terminated

\* However the tasks divide into chunks and whoever takes them, doWorkPiece is
\* called at most once for a piece (parallel.go:39-54 and 60-96).
THEOREM AtMostOnceCorrect == Spec => []AtMostOnce
<1>1. OnceInv => AtMostOnce
  BY DEF OnceInv
<1> QED
  BY <1>1, TypeInit, TypeStep, OnceInit, OnceStep, PTL DEF Spec

-----------------------------------------------------------------------------
\* Success means complete.

\* Nothing has happened so far that excuses the call from doing everything.
Clean == /\ ~userDone /\ panicked = {}
         /\ IF main = "returned" THEN ret = NoErr ELSE errCh = NoErr

\* The goroutines are stopped only after an error is in errCh, and only a panic
\* takes a worker through the deferred recover.
StopInv ==
  /\ main # "returned" /\ (cancelled \/ \E w \in Workers : wpc[w] \in {"cancel", "recancel"})
        => errCh # NoErr
  /\ \A w \in Workers : wpc[w] \in {"unwind", "recover", "recancel"} => panicked # {}

InChunk(p, c) == ChunkStart(c) <= p /\ p < ChunkEnd(c)

\* A piece is done, or waits in a chunk, or is ahead of a worker.
Covered(p) ==
  \/ runs[p] > 0
  \/ \E i \in 1..Len(toProcess) : InChunk(p, toProcess[i])
  \/ \E w \in Workers : Ahead(w, p)

\* In a clean call no piece is forgotten, and a worker leaves only when no
\* chunk is left.
CoverInv ==
  Clean => /\ \A p \in 0..call.pieces - 1 : Covered(p)
           /\ \A w \in Crew(call) : wpc[w] \in {"leave", "exit"} => toProcess = <<>>

LEMMA StopInit == Init => StopInv
  BY DEF Init, StopInv

\* A worker that is at work: the call has not returned.
LEMMA AtWork ==
  ASSUME QuietInv, NEW w \in Workers, wpc[w] \notin {"recover", "recancel", "exit"}
  PROVE  main = "wait"
  BY DEF QuietInv, AllDone

LEMMA StopStep ==
  ASSUME TypeInv, QuietInv, StopInv, [Next]_vars
  PROVE  StopInv'
<1>0. wpc \in [Workers -> WorkerPc] /\ CallType /\ CrewOK
  BY TypeParts DEF AllParts, CrewOK
<1>p. \A p \in Pieces : p # NoErr
  BY DEF Pieces, NoErr
<1>1. ASSUME UNCHANGED <<main, cancelled, errCh, panicked>>,
             \A w \in Workers : wpc'[w] \in {"cancel", "recancel", "unwind", "recover"} =>
                \/ wpc[w] = wpc'[w]
                \/ wpc[w] = "unwind" /\ wpc'[w] = "recover"
      PROVE  StopInv'
  BY <1>1 DEF StopInv
<1>2. CASE UserCancel \/ MainWait \/ Collector \/ UNCHANGED vars
  BY <1>2 DEF UserCancel, MainWait, Collector, CollectorTake, CollectorStop, vars, controlVars,
              workerVars, pieceVars, mainVars, StopInv
<1>3. ASSUME NEW w \in Workers,
             WorkerChunk(w) \/ WorkerCheck(w) \/ WorkerOk(w) \/ WorkerSend(w) \/ WorkerDone(w)
      PROVE  StopInv'
  <2>1. UNCHANGED <<main, cancelled, errCh, panicked>>
    BY <1>3 DEF WorkerChunk, WorkerCheck, WorkerOk, WorkerSend, WorkerDone, controlVars,
                mainVars, pieceVars
  <2>2. PICK pc \in {"leave", "check", "work", "send", "range", "exit", "recover"} :
          /\ wpc' = [wpc EXCEPT ![w] = pc]
          /\ pc = "recover" => wpc[w] = "unwind"
    BY <1>3 DEF WorkerChunk, WorkerCheck, WorkerOk, WorkerSend, WorkerDone, Continue, NextPiece
  <2>3. ASSUME NEW v \in Workers, wpc'[v] \in {"cancel", "recancel", "unwind", "recover"}
        PROVE  \/ wpc[v] = wpc'[v]
               \/ wpc[v] = "unwind" /\ wpc'[v] = "recover"
    BY <1>0, <2>2, <2>3
  <2> QED
    BY <1>1, <2>1, <2>3
<1>4. ASSUME NEW w \in Workers, WorkerError(w) PROVE StopInv'
  <2>1. pos[w] # NoErr
    BY <1>0, <1>4, <1>p, PieceOf DEF WorkerError, OnPiece, Active
  <2>2. UNCHANGED <<main, cancelled, panicked>>
    BY <1>4 DEF WorkerError, mainVars
  <2>3. CASE call.stopOnErr
    <3>1. errCh' # NoErr /\ wpc' = [wpc EXCEPT ![w] = "cancel"]
      BY <1>4, <2>1, <2>3 DEF WorkerError, OfferError
    <3> QED
      BY <1>0, <2>2, <3>1 DEF StopInv
  <2>4. CASE ~call.stopOnErr
    <3>1. errCh' = errCh /\ Continue(w)
      BY <1>4, <2>4 DEF WorkerError
    <3>2. PICK pc \in {"check", "send", "range"} : wpc' = [wpc EXCEPT ![w] = pc]
      BY <3>1 DEF Continue, NextPiece
    <3>3. \A v \in Workers : wpc'[v] \in {"cancel", "recancel", "unwind", "recover"} =>
             wpc[v] = wpc'[v]
      BY <1>0, <3>2
    <3> QED
      BY <1>1, <2>2, <3>1, <3>3
  <2> QED
    BY <2>3, <2>4
<1>5. ASSUME NEW w \in Workers, WorkerPanic(w) PROVE StopInv'
  <2>1. wpc' = [wpc EXCEPT ![w] = "unwind"] /\ panicked' # {} /\ UNCHANGED <<main, cancelled, errCh>>
    BY <1>5 DEF WorkerPanic, controlVars, mainVars
  <2> QED
    BY <1>0, <2>1 DEF StopInv
<1>6. ASSUME NEW w \in Workers, WorkerCancel(w) PROVE StopInv'
  <2>1. /\ wpc[w] \in {"cancel", "recancel"} /\ UNCHANGED <<main, errCh, panicked>>
    BY <1>6 DEF WorkerCancel, mainVars, pieceVars
  <2>2. PICK pc \in {"leave", "exit"} : wpc' = [wpc EXCEPT ![w] = pc]
    BY <1>6 DEF WorkerCancel
  <2> QED
    BY <1>0, <2>1, <2>2 DEF StopInv
<1>7. ASSUME NEW w \in Workers, WorkerRecover(w) PROVE StopInv'
  <2>1. pos[w] # NoErr
    BY <1>0, <1>7, <1>p, PieceOf DEF WorkerRecover, OnPiece, Active
  <2>2. wpc[w] = "recover" /\ UNCHANGED <<main, cancelled, panicked>>
    BY <1>7 DEF WorkerRecover, mainVars, pieceVars
  <2>3. \/ wpc' = [wpc EXCEPT ![w] = "recancel"] /\ errCh' = pos[w]
        \/ wpc' = [wpc EXCEPT ![w] = "exit"] /\ errCh' = errCh
    BY <1>7 DEF WorkerRecover
  <2> QED
    BY <1>0, <2>1, <2>2, <2>3 DEF StopInv
<1>8. CASE MainReturn
  BY <1>8 DEF MainReturn, workerVars, pieceVars, StopInv
<1> QED
  BY <1>2, <1>3, <1>4, <1>5, <1>6, <1>7, <1>8 DEF Next, WorkerStep, Terminated

\* What is clean was clean before.
LEMMA CleanBack ==
  ASSUME TypeInv, QuietInv, [Next]_vars, Clean'
  PROVE  Clean
<1>0. CallType /\ CrewOK /\ \A p \in Pieces : p # NoErr
  BY TypeParts DEF AllParts, Pieces, NoErr
<1>1. ASSUME UNCHANGED <<main, ret, errCh, userDone, panicked>> PROVE Clean
  BY <1>1 DEF Clean
<1>2. CASE UserCancel
  BY <1>2 DEF UserCancel, Clean
<1>3. ASSUME NEW w \in Workers,
             \/ WorkerChunk(w) \/ WorkerCheck(w) \/ WorkerOk(w) \/ WorkerSend(w)
             \/ WorkerCancel(w) \/ WorkerDone(w)
      PROVE  Clean
  <2>1. UNCHANGED <<main, ret, errCh, userDone, panicked>>
    BY <1>3 DEF WorkerChunk, WorkerCheck, WorkerOk, WorkerSend, WorkerCancel, WorkerDone,
                controlVars, mainVars, pieceVars
  <2> QED
    BY <1>1, <2>1
<1>4. ASSUME NEW w \in Workers, WorkerError(w) PROVE Clean
  <2>1. main = "wait" /\ UNCHANGED <<main, ret, userDone, panicked>>
    BY <1>4, AtWork DEF WorkerError, mainVars
  <2>2. pos[w] # NoErr
    BY <1>0, <1>4, PieceOf DEF WorkerError, OnPiece, Active
  <2>3. errCh' = NoErr => errCh = NoErr
    BY <1>4, <2>2 DEF WorkerError, OfferError
  <2> QED
    BY <2>1, <2>3 DEF Clean
<1>5. ASSUME NEW w \in Workers, WorkerPanic(w) PROVE Clean
  BY <1>5 DEF WorkerPanic, Clean
<1>6. ASSUME NEW w \in Workers, WorkerRecover(w) PROVE Clean
  <2>1. UNCHANGED <<main, ret, userDone, panicked>>
    BY <1>6 DEF WorkerRecover, mainVars, pieceVars
  <2>2. pos[w] # NoErr
    BY <1>0, <1>6, PieceOf DEF WorkerRecover, OnPiece, Active
  <2>3. errCh' = NoErr => errCh = NoErr
    BY <1>6, <2>2 DEF WorkerRecover
  <2> QED
    BY <2>1, <2>3 DEF Clean
<1>7. CASE Collector \/ UNCHANGED vars
  BY <1>1, <1>7 DEF Collector, CollectorTake, CollectorStop, controlVars, mainVars, pieceVars, vars
<1>8. CASE MainWait
  BY <1>8 DEF MainWait, controlVars, pieceVars, Clean
<1>9. CASE MainReturn
  BY <1>9 DEF MainReturn, pieceVars, Clean
<1> QED
  BY <1>2, <1>3, <1>4, <1>5, <1>6, <1>7, <1>8, <1>9 DEF Next, WorkerStep, Terminated

\* Every piece is in one of the chunks.
LEMMA ChunksCover ==
  ASSUME NEW a \in Nat, NEW b \in Nat \ {0}, NEW p \in 0..a - 1
  PROVE  \E c \in 0..CeilDiv(a, b) - 1 : c * b <= p /\ p < c * b + b
<1> DEFINE q == (a + b - 1) \div b
           c == p \div b
<1>1. q \in Nat /\ a + b - 1 < b * q + b
  OBVIOUS
<1>2. c \in Nat /\ b * c <= p /\ p < b * c + b
  OBVIOUS
<1>3. b * c = c * b
  BY <1>2
<1>4. c < q
  <2>1. SUFFICES ASSUME q <= c PROVE FALSE
    BY <1>1, <1>2
  <2>2. b * q <= b * c
    BY <1>1, <1>2, <2>1
  <2>3. b * q \in Nat /\ b * c \in Nat
    BY <1>1, <1>2
  <2> HIDE DEF q, c
  <2> QED
    BY <1>1, <1>2, <2>2, <2>3
<1>5. c \in 0..q - 1
  <2> HIDE DEF q, c
  <2> QED
    BY <1>1, <1>2, <1>4
<1>6. c * b <= p /\ p < c * b + b
  BY <1>2, <1>3
<1> QED
  BY <1>5, <1>6 DEF CeilDiv

\* The workers that are launched are workers, and there is one if it matters.
LEMMA CrewIn ==
  ASSUME CallOK
  PROVE  /\ Crew(call) \subseteq Workers
         /\ call.pieces > 0 /\ call.workers > 0 => 1 \in Crew(call)
<1> DEFINE n == CeilDiv(call.pieces, call.chunkSize)
<1>1. call.workers \in Nat /\ call.workers <= MaxWorkers
      /\ call.pieces \in Nat /\ call.chunkSize \in Nat \ {0}
  BY ParallelAssumption DEF CallOK
<1>2. n \in Nat
  BY <1>1, CeilDivBound
<1>3. call.pieces > 0 => n > 0
  <2>1. ASSUME call.pieces > 0 PROVE \E c \in 0..n - 1 : TRUE
    <3>1. 0 \in 0..call.pieces - 1
      BY <1>1, <2>1
    <3>2. \E c \in 0..n - 1 : c * call.chunkSize <= 0 /\ 0 < c * call.chunkSize + call.chunkSize
      BY <1>1, <3>1, ChunksCover
    <3> QED
      BY <3>2
  <2> HIDE DEF n
  <2> QED
    BY <1>2, <2>1
<1> HIDE DEF n
<1> QED
  BY <1>1, <1>2, <1>3, ParallelAssumption DEF Crew, Workers, n

LEMMA CoverInit == Init => CoverInv
<1> SUFFICES ASSUME Init
             PROVE  CoverInv
  OBVIOUS
<1> DEFINE n == CeilDiv(call.pieces, call.chunkSize)
<1>1. call.pieces \in Nat /\ call.chunkSize \in Nat \ {0} /\ n \in Nat
  BY TypeInit, CeilDivBound DEF TypeInv, CallOK
<1>2. Len(toProcess) = n /\ \A i \in 1..n : toProcess[i] = i - 1
  BY <1>1 DEF Init
<1>3. ASSUME NEW p \in 0..call.pieces - 1 PROVE Covered(p)
  <2>1. PICK c \in 0..n - 1 : c * call.chunkSize <= p /\ p < c * call.chunkSize + call.chunkSize
    BY <1>1, <1>3, ChunksCover
  <2> HIDE DEF n
  <2>2. c + 1 \in 1..Len(toProcess) /\ toProcess[c + 1] = c
    BY <1>1, <1>2, <2>1
  <2>3. InChunk(p, c)
    BY <1>1, <1>3, <2>1 DEF InChunk, ChunkStart, ChunkEnd
  <2> QED
    BY <2>2, <2>3 DEF Covered
<1>4. ASSUME NEW w \in Crew(call) PROVE wpc[w] \notin {"leave", "exit"}
  <2>1. w \in Workers
    BY TypeInit, CrewIn DEF TypeInv
  <2> QED
    BY <1>4, <2>1 DEF Init
<1> QED
  BY <1>3, <1>4 DEF CoverInv

\* A worker that goes on takes what lies ahead of it along, or has done it.
LEMMA CoverMove ==
  ASSUME call' = call, UNCHANGED toProcess, runs \in [Pieces -> Nat],
         NEW w \in Workers, NEW p \in 0..call.pieces - 1,
         runs[p] > 0 => runs'[p] > 0,
         \A v \in Workers \ {w} : wpc'[v] = wpc[v] /\ pos'[v] = pos[v] /\ end'[v] = end[v],
         Ahead(w, p) => Ahead(w, p)' \/ runs'[p] > 0,
         Covered(p)
  PROVE  Covered(p)'
<1>1. CASE runs[p] > 0
  BY <1>1 DEF Covered
<1>2. ASSUME NEW i \in 1..Len(toProcess), InChunk(p, toProcess[i]) PROVE Covered(p)'
  BY <1>2 DEF Covered, InChunk, ChunkStart, ChunkEnd
<1>3. ASSUME NEW v \in Workers, Ahead(v, p) PROVE Covered(p)'
  <2>1. CASE v = w
    BY <1>3, <2>1 DEF Covered
  <2>2. CASE v # w
    BY <1>3, <2>2 DEF Covered, Ahead
  <2> QED
    BY <2>1, <2>2
<1> QED
  BY <1>1, <1>2, <1>3 DEF Covered

\* Nothing that counts is touched.
LEMMA CoverKeep ==
  ASSUME call' = call, UNCHANGED <<toProcess, runs, workerVars>>, CoverInv, Clean
  PROVE  CoverInv'
<1>1. \A p \in 0..call.pieces - 1 : Covered(p) => Covered(p)'
  BY DEF Covered, InChunk, ChunkStart, ChunkEnd, Ahead, workerVars
<1> QED
  BY <1>1 DEF CoverInv, workerVars, Crew

LEMMA CoverStep ==
  ASSUME TypeInv, QuietInv, StopInv, CoverInv, [Next]_vars
  PROVE  CoverInv'
<1> SUFFICES ASSUME Clean'
             PROVE  CoverInv'
  BY DEF CoverInv
<1>0. /\ call' = call /\ Clean /\ TypeInv' /\ Crew(call)' = Crew(call)
      /\ wpc \in [Workers -> WorkerPc]
      /\ pos \in [Workers -> 0..MaxPieces] /\ end \in [Workers -> 0..MaxPieces]
      /\ runs \in [Pieces -> Nat] /\ toProcess \in Seq(Pieces)
      /\ call.pieces \in 0..MaxPieces /\ call.chunkSize \in Nat \ {0}
  <2>1. call' = call /\ Clean /\ TypeInv'
    BY CallFixed, CleanBack, TypeStep
  <2>2. CallType /\ ChunksOK /\ CrewOK /\ PiecesOK
    BY TypeParts DEF AllParts
  <2> QED
    BY <2>1, <2>2 DEF CallType, CallOK, ChunksOK, CrewOK, PiecesOK, Crew
<1>p. \A p \in 0..call.pieces - 1 : p \in Pieces /\ p \in Nat
  BY <1>0, ParallelAssumption DEF Pieces
<1>c. /\ \A p \in 0..call.pieces - 1 : Covered(p)
      /\ \A w \in Crew(call) : wpc[w] \in {"leave", "exit"} => toProcess = <<>>
  BY <1>0 DEF CoverInv
<1>1. ASSUME NEW w \in Workers, UNCHANGED toProcess,
             \A p \in 0..call.pieces - 1 : runs[p] > 0 => runs'[p] > 0,
             \A v \in Workers \ {w} : wpc'[v] = wpc[v] /\ pos'[v] = pos[v] /\ end'[v] = end[v],
             \A p \in 0..call.pieces - 1 : Ahead(w, p) => Ahead(w, p)' \/ runs'[p] > 0,
             wpc'[w] \in {"leave", "exit"} => wpc[w] \in {"leave", "exit"}
      PROVE  CoverInv'
  <2>1. \A p \in 0..call.pieces - 1 : Covered(p)'
    BY <1>0, <1>1, <1>c, CoverMove
  <2>2. \A v \in Crew(call) : wpc'[v] \in {"leave", "exit"} => toProcess = <<>>
    <3>1. Crew(call) \subseteq Workers
      BY CrewIn DEF TypeInv
    <3> QED
      BY <1>1, <1>c, <3>1
  <2> QED
    BY <1>0, <1>1, <2>1, <2>2 DEF CoverInv
<1>2. CASE UserCancel
  BY <1>2 DEF UserCancel, Clean
<1>3. ASSUME NEW w \in Workers, WorkerChunk(w) PROVE CoverInv'
  <2>1. CASE toProcess = <<>>
    <3>1. UNCHANGED <<toProcess, pos, end, runs>> /\ wpc[w] = "range" /\ wpc' = [wpc EXCEPT ![w] = "leave"]
      BY <1>3, <2>1 DEF WorkerChunk, pieceVars
    <3>2. \A p \in 0..call.pieces - 1 : ~Ahead(w, p)
      BY <3>1 DEF Ahead
    <3>3. \A p \in 0..call.pieces - 1 : Covered(p)'
      BY <1>0, <1>c, <3>1, <3>2, CoverMove
    <3> QED
      BY <1>0, <2>1, <3>1, <3>3 DEF CoverInv
  <2>2. CASE toProcess # <<>>
    <3> DEFINE c == Head(toProcess)
    <3>1. /\ toProcess' = Tail(toProcess) /\ UNCHANGED runs /\ wpc[w] = "range"
          /\ pos' = [pos EXCEPT ![w] = ChunkStart(c)] /\ end' = [end EXCEPT ![w] = ChunkEnd(c)]
          /\ wpc' = [wpc EXCEPT ![w] = "check"]
      BY <1>3, <2>2 DEF WorkerChunk, pieceVars
    <3>2. /\ Len(toProcess) \in Nat /\ Len(Tail(toProcess)) = Len(toProcess) - 1 /\ c = toProcess[1]
          /\ \A i \in 1..Len(Tail(toProcess)) : Tail(toProcess)[i] = toProcess[i + 1]
      BY <1>0, <2>2, HeadTailProperties
    <3> HIDE DEF c
    <3>3. wpc'[w] = "check" /\ pos'[w] = ChunkStart(c) /\ end'[w] = ChunkEnd(c)
          /\ \A v \in Workers \ {w} : wpc'[v] = wpc[v] /\ pos'[v] = pos[v] /\ end'[v] = end[v]
      BY <1>0, <3>1
    <3>4. \A p, d : InChunk(p, d)' <=> InChunk(p, d)
      BY <1>0 DEF InChunk, ChunkStart, ChunkEnd
    <3>5. ASSUME NEW p \in 0..call.pieces - 1 PROVE Covered(p)'
      <4>1. CASE runs[p] > 0
        BY <3>1, <4>1 DEF Covered
      <4>2. ASSUME NEW i \in 1..Len(toProcess), InChunk(p, toProcess[i]) PROVE Covered(p)'
        <5>1. CASE i = 1
          <6>1. Ahead(w, p)'
            BY <3>2, <3>3, <4>2, <5>1 DEF Ahead, InChunk
          <6> QED
            BY <6>1 DEF Covered
        <5>2. CASE i # 1
          <6>1. i - 1 \in 1..Len(Tail(toProcess)) /\ (i - 1) + 1 = i
            BY <3>2, <5>2
          <6>2. Tail(toProcess)[i - 1] = toProcess[i]
            BY <3>2, <6>1
          <6> QED
            BY <3>1, <3>4, <4>2, <6>1, <6>2 DEF Covered
        <5> QED
          BY <5>1, <5>2
      <4>3. ASSUME NEW v \in Workers, Ahead(v, p) PROVE Covered(p)'
        <5>1. v # w
          BY <3>1, <4>3 DEF Ahead
        <5>2. Ahead(v, p)'
          BY <3>3, <4>3, <5>1 DEF Ahead
        <5> QED
          BY <5>2 DEF Covered
      <4>4. Covered(p)
        BY <1>c
      <4> QED
        BY <4>1, <4>2, <4>3, <4>4 DEF Covered
    <3>6. \A v \in Crew(call) : wpc'[v] \notin {"leave", "exit"}
      <4>1. Crew(call) \subseteq Workers
        BY CrewIn DEF TypeInv
      <4> QED
        BY <1>c, <2>2, <3>3, <4>1
    <3> QED
      BY <1>0, <3>5, <3>6 DEF CoverInv
  <2> QED
    BY <2>1, <2>2
<1>4. ASSUME NEW w \in Workers, WorkerCheck(w) PROVE CoverInv'
  <2>1. ~Stopped
    <3>1. main # "returned"
      BY <1>4, AtWork DEF WorkerCheck
    <3> QED
      BY <1>0, <3>1 DEF Clean, StopInv, Stopped
  <2>2. /\ wpc[w] = "check" /\ UNCHANGED <<toProcess, pos, end>>
        /\ wpc' = [wpc EXCEPT ![w] = "work"] /\ runs' = [runs EXCEPT ![pos[w]] = runs[pos[w]] + 1]
    BY <1>4, <2>1 DEF WorkerCheck, controlVars
  <2>3. pos[w] \in Pieces
    BY <2>2, PieceOf, TypeParts DEF AllParts, OnPiece, Active
  <2>4. runs'[pos[w]] > 0 /\ \A p \in Pieces : runs[p] > 0 => runs'[p] > 0
    BY <1>0, <2>2, <2>3
  <2>5. wpc'[w] = "work" /\ \A v \in Workers \ {w} : wpc'[v] = wpc[v]
    BY <1>0, <2>2
  <2>6. ASSUME NEW p \in 0..call.pieces - 1, Ahead(w, p) PROVE Ahead(w, p)' \/ runs'[p] > 0
    <3>1. pos[w] <= p /\ p < end[w]
      BY <2>2, <2>6 DEF Ahead
    <3>2. CASE p = pos[w]
      BY <2>4, <3>2
    <3>3. CASE p # pos[w]
      <4>1. pos[w] < p
        BY <1>p, <2>3, <3>1, <3>3 DEF Pieces
      <4> QED
        BY <2>2, <2>5, <3>1, <4>1 DEF Ahead
    <3> QED
      BY <3>2, <3>3
  <2> QED
    BY <1>1, <1>p, <2>2, <2>4, <2>5, <2>6
<1>5. ASSUME NEW w \in Workers, wpc[w] \in {"work", "send"}, Continue(w) \/ NextPiece(w),
             UNCHANGED <<toProcess, end, runs>>
      PROVE  CoverInv'
  <2>1. \A v \in Workers \ {w} : wpc'[v] = wpc[v] /\ pos'[v] = pos[v]
    BY <1>0, <1>5 DEF Continue, NextPiece
  <2>2. \/ wpc'[w] = "send" /\ pos'[w] = pos[w]
        \/ wpc'[w] = "check" /\ pos'[w] = pos[w] + 1
        \/ wpc'[w] = "range" /\ ~(pos[w] + 1 < end[w])
    BY <1>0, <1>5 DEF Continue, NextPiece
  <2>3. ASSUME NEW p \in 0..call.pieces - 1, Ahead(w, p) PROVE Ahead(w, p)'
    <3>1. pos[w] < p /\ p < end[w]
      BY <1>5, <2>3 DEF Ahead
    <3>2. pos[w] \in Int /\ end[w] \in Int /\ p \in Int
      BY <1>0
    <3>3. pos[w] + 1 < end[w] /\ pos[w] + 1 <= p
      BY <3>1, <3>2
    <3> QED
      BY <1>5, <2>2, <3>1, <3>3 DEF Ahead
  <2> QED
    BY <1>1, <1>5, <2>1, <2>2, <2>3
<1>6. ASSUME NEW w \in Workers, WorkerOk(w) \/ WorkerSend(w) PROVE CoverInv'
  BY <1>5, <1>6 DEF WorkerOk, WorkerSend, controlVars, pieceVars
<1>7. ASSUME NEW w \in Workers, WorkerError(w) PROVE CoverInv'
  <2>1. CASE call.stopOnErr
    <3>1. wpc'[w] = "cancel"
      BY <1>0, <1>7, <2>1 DEF WorkerError
    <3>2. main' = "wait"
      BY <1>7, AtWork DEF WorkerError, mainVars
    <3>3. errCh' # NoErr
      BY <3>1, <3>2, StopStep DEF StopInv
    <3> QED
      BY <3>2, <3>3 DEF Clean
  <2>2. CASE ~call.stopOnErr
    BY <1>5, <1>7, <2>2 DEF WorkerError
  <2> QED
    BY <2>1, <2>2
<1>8. ASSUME NEW w \in Workers, WorkerPanic(w) \/ WorkerRecover(w) PROVE CoverInv'
  <2>1. panicked' # {}
    BY <1>8 DEF WorkerPanic, WorkerRecover, pieceVars, StopInv
  <2> QED
    BY <2>1 DEF Clean
<1>9. ASSUME NEW w \in Workers, WorkerCancel(w) PROVE CoverInv'
  <2>1. wpc[w] \in {"cancel", "recancel"}
    BY <1>9 DEF WorkerCancel
  <2>2. CASE wpc[w] = "recancel"
    BY <1>0, <2>2 DEF StopInv, Clean
  <2>3. CASE wpc[w] = "cancel"
    <3>1. main = "wait"
      BY <2>3, AtWork
    <3> QED
      BY <1>0, <2>3, <3>1 DEF StopInv, Clean
  <2> QED
    BY <2>1, <2>2, <2>3
<1>10. ASSUME NEW w \in Workers, WorkerDone(w) PROVE CoverInv'
  <2>1. /\ UNCHANGED <<toProcess, pos, end, runs>> /\ wpc[w] \in {"leave", "unwind"}
        /\ wpc' = [wpc EXCEPT ![w] = IF @ = "leave" THEN "exit" ELSE "recover"]
    BY <1>10 DEF WorkerDone, controlVars, pieceVars
  <2>2. /\ \A v \in Workers \ {w} : wpc'[v] = wpc[v]
        /\ wpc'[w] \in {"leave", "exit"} => wpc[w] = "leave"
    BY <1>0, <2>1
  <2>3. \A p \in 0..call.pieces - 1 : ~Ahead(w, p)
    BY <2>1 DEF Ahead
  <2> QED
    BY <1>1, <2>1, <2>2, <2>3
<1>11. CASE Collector \/ MainWait \/ MainReturn \/ UNCHANGED vars
  <2>1. UNCHANGED <<toProcess, runs, workerVars>>
    BY <1>11 DEF Collector, CollectorTake, CollectorStop, MainWait, MainReturn, vars, controlVars,
                 pieceVars
  <2> QED
    BY <1>0, <2>1, CoverKeep
<1> QED
  BY <1>2, <1>3, <1>4, <1>6, <1>7, <1>8, <1>9, <1>10, <1>11 DEF Next, WorkerStep, Terminated

\* The results, in the order in which the pieces sent them: no piece sends twice,
\* and who is at work has not sent yet.  In a clean call the collector is done
\* when it has them all.
Results == result \o resultCh

ResultsInv ==
  /\ \A i, j \in 1..Len(Results) : Results[i] = Results[j] => i = j
  /\ \A i \in 1..Len(Results) : runs[Results[i]] > 0
  /\ \A i \in 1..Len(Results), w \in Workers :
        wpc[w] \in {"work", "send"} => Results[i] # pos[w]
  /\ \A w \in Workers : wpc[w] \in {"work", "send"} => runs[pos[w]] > 0
  /\ Clean /\ call.withResult /\ call.pieces > 0 /\ collector = "done" =>
        Len(result) = call.pieces

\* Moving the head of a sequence to the end of another one.
LEMMA MoveHead ==
  ASSUME NEW S, NEW s \in Seq(S), NEW t \in Seq(S), t # <<>>
  PROVE  s \o t = Append(s, Head(t)) \o Tail(t)
BY HeadTailProperties

LEMMA ResultsType ==
  ASSUME TypeInv
  PROVE  /\ Results \in Seq(Pieces) /\ Len(result) \in Nat /\ Len(resultCh) \in Nat
         /\ Len(Results) = Len(result) + Len(resultCh)
         /\ \A i \in 1..Len(Results) : Results[i] \in Pieces
         /\ \A i \in 1..Len(result) : i \in 1..Len(Results) /\ Results[i] = result[i]
<1>1. result \in Seq(Pieces) /\ resultCh \in Seq(Pieces)
  BY DEF TypeInv, TypeOK
<1>2. /\ Results \in Seq(Pieces) /\ Len(Results) = Len(result) + Len(resultCh)
      /\ \A i \in 1..Len(result) + Len(resultCh) :
            Results[i] = IF i <= Len(result) THEN result[i] ELSE resultCh[i - Len(result)]
  BY <1>1, ConcatProperties DEF Results
<1>3. Len(result) \in Nat /\ Len(resultCh) \in Nat
  BY <1>1
<1>4. \A i \in 1..Len(Results) : Results[i] \in Pieces
  BY <1>2, ElementOfSeq
<1> QED
  BY <1>2, <1>3, <1>4

LEMMA ResultsInit == Init => ResultsInv
<1> SUFFICES ASSUME Init
             PROVE  ResultsInv
  OBVIOUS
<1>1. Len(Results) = 0
  BY DEF Init, Results
<1>2. \A w \in Workers : wpc[w] \in {"range", "exit"}
  BY DEF Init
<1>3. call.withResult /\ call.pieces > 0 => collector # "done"
  BY DEF Init
<1> QED
  BY <1>1, <1>2, <1>3 DEF ResultsInv

\* What does not touch the results: a piece may be done once more.
LEMMA ResultsMove ==
  ASSUME TypeInv, ResultsInv, call' = call, UNCHANGED resultVars, Clean' => Clean,
         \A p \in Pieces : runs[p] > 0 => runs'[p] > 0,
         \A w \in Workers : wpc'[w] \in {"work", "send"} =>
            /\ runs'[pos'[w]] > 0
            /\ \A i \in 1..Len(Results) : Results[i] # pos'[w]
  PROVE  ResultsInv'
<1>1. Results' = Results /\ result' = result /\ collector' = collector
  BY DEF resultVars, Results
<1>2. \A i \in 1..Len(Results) : runs'[Results[i]] > 0
  BY ResultsType DEF ResultsInv
<1> QED
  BY <1>1, <1>2 DEF ResultsInv

LEMMA ResultsStep ==
  ASSUME TypeInv, QuietInv, StopInv, OnceInv, ResultsInv, [Next]_vars
  PROVE  ResultsInv'
<1>0. /\ call' = call /\ (Clean' => Clean)
      /\ wpc \in [Workers -> WorkerPc] /\ pos \in [Workers -> 0..MaxPieces]
      /\ runs \in [Pieces -> Nat] /\ result \in Seq(Pieces) /\ resultCh \in Seq(Pieces)
  <2>1. call' = call /\ (Clean' => Clean)
    BY CallFixed, CleanBack
  <2>2. CrewOK /\ PiecesOK /\ ResultsOK
    BY TypeParts DEF AllParts
  <2> QED
    BY <2>1, <2>2 DEF CrewOK, PiecesOK, ResultsOK
<1>1. ASSUME UNCHANGED <<resultVars, runs>>,
             \A w \in Workers : wpc'[w] \in {"work", "send"} =>
                wpc[w] \in {"work", "send"} /\ pos'[w] = pos[w]
      PROVE  ResultsInv'
  BY <1>0, <1>1, ResultsMove DEF ResultsInv
<1>2. CASE UserCancel \/ MainWait \/ MainReturn \/ UNCHANGED vars
  BY <1>1, <1>2 DEF UserCancel, MainWait, MainReturn, vars, workerVars, pieceVars
<1>3. ASSUME NEW w \in Workers, WorkerChunk(w) PROVE ResultsInv'
  <2>1. UNCHANGED <<resultVars, runs>>
    BY <1>3 DEF WorkerChunk, pieceVars
  <2>2. \A v \in Workers : wpc'[v] \in {"work", "send"} =>
           wpc[v] \in {"work", "send"} /\ pos'[v] = pos[v]
    BY <1>0, <1>3 DEF WorkerChunk
  <2> QED
    BY <1>1, <2>1, <2>2
<1>4. ASSUME NEW w \in Workers, WorkerCheck(w) PROVE ResultsInv'
  <2>1. wpc[w] = "check" /\ UNCHANGED <<resultVars, pos>>
    BY <1>4 DEF WorkerCheck
  <2>2. CASE Stopped
    <3>1. UNCHANGED runs /\ wpc' = [wpc EXCEPT ![w] = "leave"]
      BY <1>4, <2>2 DEF WorkerCheck
    <3>2. \A v \in Workers : wpc'[v] \in {"work", "send"} => wpc[v] \in {"work", "send"}
      BY <1>0, <3>1
    <3> QED
      BY <1>1, <2>1, <3>1, <3>2
  <2>3. CASE ~Stopped
    <3>1. wpc' = [wpc EXCEPT ![w] = "work"] /\ runs' = [runs EXCEPT ![pos[w]] = runs[pos[w]] + 1]
      BY <1>4, <2>3 DEF WorkerCheck
    <3>2. pos[w] \in Pieces
      BY <2>1, PieceOf, TypeParts DEF AllParts, OnPiece, Active
    <3>3. runs'[pos[w]] > 0 /\ \A p \in Pieces : runs[p] > 0 => runs'[p] > 0
      BY <1>0, <3>1, <3>2
    <3>4. runs[pos[w]] = 0
      <4>1. pos[w] < end[w] /\ pos[w] <= pos[w]
        BY <1>0, <2>1, TypeParts DEF AllParts, CrewOK, OnPiece, Active
      <4>2. Ahead(w, pos[w])
        BY <2>1, <4>1 DEF Ahead
      <4> QED
        BY <3>2, <4>2 DEF OnceInv
    <3>5. \A i \in 1..Len(Results) : Results[i] # pos[w]
      BY <3>4 DEF ResultsInv
    <3>6. ASSUME NEW v \in Workers, wpc'[v] \in {"work", "send"}
          PROVE  /\ runs'[pos[v]] > 0
                 /\ \A i \in 1..Len(Results) : Results[i] # pos[v]
      <4>1. CASE v = w
        BY <3>3, <3>5, <4>1
      <4>2. CASE v # w
        <5>1. wpc[v] \in {"work", "send"}
          BY <1>0, <3>1, <3>6, <4>2
        <5>2. pos[v] \in Pieces
          BY <5>1, PieceOf, TypeParts DEF AllParts, OnPiece, Active
        <5> QED
          BY <3>3, <5>1, <5>2 DEF ResultsInv
      <4> QED
        BY <4>1, <4>2
    <3> QED
      BY <1>0, <2>1, <3>3, <3>6, ResultsMove
  <2> QED
    BY <2>2, <2>3
<1>5. ASSUME NEW w \in Workers, WorkerOk(w) \/ WorkerError(w) PROVE ResultsInv'
  <2>1. wpc[w] = "work" /\ UNCHANGED <<resultVars, runs>>
    BY <1>5 DEF WorkerOk, WorkerError, pieceVars
  <2>2. \A v \in Workers : wpc'[v] \in {"work", "send"} =>
           wpc[v] \in {"work", "send"} /\ pos'[v] = pos[v]
    BY <1>0, <1>5 DEF WorkerOk, WorkerError, Continue, NextPiece
  <2> QED
    BY <1>1, <2>1, <2>2
<1>6. ASSUME NEW w \in Workers,
             WorkerPanic(w) \/ WorkerCancel(w) \/ WorkerDone(w) \/ WorkerRecover(w)
      PROVE  ResultsInv'
  <2>1. UNCHANGED <<resultVars, runs, pos>>
    BY <1>6 DEF WorkerPanic, WorkerCancel, WorkerDone, WorkerRecover, pieceVars
  <2>2. \A v \in Workers : wpc'[v] \in {"work", "send"} => wpc[v] \in {"work", "send"}
    BY <1>0, <1>6 DEF WorkerPanic, WorkerCancel, WorkerDone, WorkerRecover
  <2> QED
    BY <1>1, <2>1, <2>2
<1>7. ASSUME NEW w \in Workers, WorkerSend(w) PROVE ResultsInv'
  <2>1. /\ wpc[w] = "send" /\ UNCHANGED <<result, collector, runs>>
        /\ resultCh' = Append(resultCh, pos[w]) /\ NextPiece(w)
    BY <1>7 DEF WorkerSend, pieceVars
  <2>2. pos[w] \in Pieces /\ runs[pos[w]] > 0
    BY <2>1, PieceOf, TypeParts DEF AllParts, OnPiece, Active, ResultsInv
  <2>3. Results' = Append(Results, pos[w])
    BY <1>0, <2>1, <2>2 DEF Results
  <2>4. /\ Len(Results') = Len(Results) + 1 /\ Len(Results) \in Nat
        /\ \A i \in 1..Len(Results) : Results'[i] = Results[i]
        /\ Results'[Len(Results) + 1] = pos[w]
    BY <2>2, <2>3, ResultsType, AppendProperties
  <2>5. \A i \in 1..Len(Results') : i \in 1..Len(Results) \/ i = Len(Results) + 1
    BY <2>4
  <2>6. \A i \in 1..Len(Results) : Results[i] # pos[w]
    BY <2>1 DEF ResultsInv
  <2>7. \A i, j \in 1..Len(Results') : Results'[i] = Results'[j] => i = j
    BY <2>4, <2>5, <2>6 DEF ResultsInv
  <2>8. ASSUME NEW i \in 1..Len(Results')
        PROVE  runs[Results'[i]] > 0
    <3>1. CASE i \in 1..Len(Results)
      <4>1. runs[Results[i]] > 0
        BY <3>1 DEF ResultsInv
      <4>2. Results'[i] = Results[i]
        BY <2>4, <3>1
      <4> QED
        BY <4>1, <4>2
    <3>2. CASE i = Len(Results) + 1
      <4>1. Results'[i] = pos[w]
        BY <2>4, <3>2
      <4> QED
        BY <2>2, <4>1
    <3> QED
      BY <2>5, <3>1, <3>2
  <2>9. ASSUME NEW v \in Workers, wpc'[v] \in {"work", "send"}
        PROVE  /\ wpc[v] \in {"work", "send"} /\ pos'[v] = pos[v] /\ pos[v] # pos[w]
    <3>1. v # w /\ wpc'[v] = wpc[v] /\ pos'[v] = pos[v]
      BY <1>0, <2>1, <2>9 DEF NextPiece
    <3>2. end[v] <= pos[w] \/ end[w] <= pos[v]
      BY <2>1, <2>9, <3>1 DEF OnceInv, Active
    <3>3. pos[v] < end[v] /\ pos[w] < end[w]
      BY <2>1, <2>9, <3>1, TypeParts DEF AllParts, CrewOK, OnPiece, Active
    <3>4. pos[v] \in Int /\ pos[w] \in Int /\ end[v] \in Int /\ end[w] \in Int
      BY TypeParts DEF AllParts, CrewOK
    <3> QED
      BY <2>9, <3>1, <3>2, <3>3, <3>4
  <2>10. ASSUME NEW i \in 1..Len(Results'), NEW v \in Workers, wpc'[v] \in {"work", "send"}
         PROVE  Results'[i] # pos'[v]
    <3>1. CASE i \in 1..Len(Results)
      BY <2>4, <2>9, <2>10, <3>1 DEF ResultsInv
    <3>2. CASE i = Len(Results) + 1
      <4>1. Results'[i] = pos[w]
        BY <2>4, <3>2
      <4>2. pos'[v] # pos[w]
        BY <2>9, <2>10
      <4> QED
        BY <4>1, <4>2
    <3> QED
      BY <2>5, <3>1, <3>2
  <2>11. \A v \in Workers : wpc'[v] \in {"work", "send"} => runs[pos'[v]] > 0
    BY <2>9 DEF ResultsInv
  <2> QED
    BY <1>0, <2>1, <2>7, <2>8, <2>10, <2>11 DEF ResultsInv
<1>8. CASE CollectorTake
  <2>1. /\ resultCh # <<>> /\ resultCh' = Tail(resultCh) /\ result' = Append(result, Head(resultCh))
        /\ collector' = IF Len(result') = call.pieces THEN "done" ELSE "loop"
        /\ UNCHANGED <<workerVars, pieceVars>>
    BY <1>8 DEF CollectorTake
  <2>2. Results' = Results
    BY <1>0, <2>1, MoveHead DEF Results
  <2>3. collector' = "done" => Len(result') = call.pieces
    BY <2>1
  <2>4. UNCHANGED <<wpc, pos, runs>>
    BY <2>1 DEF workerVars, pieceVars
  <2> QED
    BY <1>0, <2>2, <2>3, <2>4 DEF ResultsInv
<1>9. CASE CollectorStop
  <2>1. Stopped /\ collector = "loop" /\ UNCHANGED <<resultCh, result, workerVars, mainVars, pieceVars>>
    BY <1>9 DEF CollectorStop
  <2>2. ~Clean
    BY <2>1 DEF Stopped, StopInv, Clean, QuietInv, AllDone
  <2> QED
    BY <1>0, <2>1, <2>2 DEF ResultsInv, Results, workerVars, pieceVars
<1> QED
  BY <1>2, <1>3, <1>4, <1>5, <1>6, <1>7, <1>8, <1>9 DEF Next, WorkerStep, Collector, Terminated

\* What is complete: the pieces are done because no chunk and no worker is left,
\* and as many different results as pieces are the results of all pieces.
LEMMA CompleteHolds ==
  ASSUME TypeInv, QuietInv, StopInv, CoverInv, ResultsInv, AtMostOnce
  PROVE  NilMeansComplete
<1> SUFFICES ASSUME main = "returned", ret = NoErr, ~userDone, panicked = {}, call.workers > 0
             PROVE  /\ Done = 0..call.pieces - 1
                    /\ call.withResult => Gathered = Done /\ Len(result) = call.pieces
  BY DEF NilMeansComplete
<1>0. /\ Clean /\ call.pieces \in 0..MaxPieces /\ CallOK /\ runs \in [Pieces -> Nat]
      /\ result \in Seq(Pieces)
  BY DEF Clean, TypeInv, TypeOK, CallOK
<1>1. collector = "done" /\ \A w \in Workers : wpc[w] = "exit"
  BY DEF QuietInv, AllDone, StopInv
<1>2. \A p \in 0..call.pieces - 1 : p \in Pieces
  BY <1>0, ParallelAssumption DEF Pieces
<1>3. ASSUME NEW p \in 0..call.pieces - 1 PROVE runs[p] > 0
  <2>1. call.pieces > 0
    BY <1>0, <1>3
  <2>2. toProcess = <<>>
    BY <1>0, <1>1, <2>1, CrewIn DEF CoverInv
  <2>3. Len(toProcess) = 0
    BY <2>2
  <2>4. Covered(p)
    BY <1>0 DEF CoverInv
  <2> QED
    BY <1>1, <2>3, <2>4 DEF Covered, Ahead
<1>4. ASSUME NEW p \in Pieces, runs[p] > 0 PROVE p \in 0..call.pieces - 1
  BY <1>0, <1>4, ParallelAssumption DEF AtMostOnce, Pieces
<1>5. Done = 0..call.pieces - 1
  BY <1>2, <1>3, <1>4 DEF Done
<1>6. ASSUME call.withResult PROVE Gathered = Done /\ Len(result) = call.pieces
  <2> DEFINE n == call.pieces
  <2>1. \A i \in 1..Len(result) : result[i] \in Pieces /\ runs[result[i]] > 0
    BY ResultsType DEF ResultsInv
  <2>2. \A i \in 1..Len(result) : result[i] \in 0..n - 1
    BY <1>4, <2>1
  <2>3. \A i, j \in 1..Len(result) : result[i] = result[j] => i = j
    BY ResultsType DEF ResultsInv
  <2>4. Len(result) = n
    <3>1. CASE n > 0
      BY <1>0, <1>1, <1>6, <3>1 DEF ResultsInv
    <3>2. CASE n = 0
      <4>1. 1 \notin 1..Len(result)
        BY <2>2, <3>2
      <4> QED
        BY <3>2, <4>1, ResultsType
    <3> QED
      BY <1>0, <3>1, <3>2
  <2> HIDE DEF n
  <2>5. n \in Nat
    BY <1>0 DEF n
  <2>6. result \in Injection(1..n, 0..n - 1)
    <3>1. result \in [1..n -> 0..n - 1]
      BY <1>0, <2>2, <2>4, LenProperties
    <3> QED
      BY <2>3, <2>4, <3>1 DEF Injection, IsInjective
  <2>7. /\ IsFiniteSet(1..n) /\ Cardinality(1..n) = n
        /\ IsFiniteSet(0..n - 1) /\ Cardinality(0..n - 1) = n
    BY <2>5, FS_Interval
  <2>8. result \in Surjection(1..n, 0..n - 1)
    BY <2>6, <2>7, FS_Injection
  <2>9. {result[i] : i \in 1..n} = 0..n - 1
    BY <2>8 DEF Surjection
  <2>10. DOMAIN result = 1..n
    BY <1>0, <2>4, LenProperties
  <2> QED
    BY <1>5, <2>4, <2>9, <2>10 DEF Gathered, n
<1> QED
  BY <1>5, <1>6

\* A call that returns no error did everything, unless the context ended, a piece
\* panicked, or there was nobody to work; and the result of ParallelizeResult
\* holds one value of each piece (parallel.go:39-113 and 115-229).
THEOREM NilMeansCompleteCorrect == Spec => []NilMeansComplete
<1>1. Spec => [](TypeInv /\ QuietInv)
  BY TypeInit, TypeStep, QuietInit, QuietStep, PTL DEF Spec
<1>2. Spec => []StopInv
  BY <1>1, StopInit, StopStep, PTL DEF Spec
<1>3. Spec => []OnceInv
  BY <1>1, OnceInit, OnceStep, PTL DEF Spec
<1>4. Spec => []CoverInv
  BY <1>1, <1>2, CoverInit, CoverStep, PTL DEF Spec
<1>5. Spec => []ResultsInv
  BY <1>1, <1>2, <1>3, ResultsInit, ResultsStep, PTL DEF Spec
<1>6. OnceInv => AtMostOnce
  BY DEF OnceInv
<1> QED
  BY <1>1, <1>2, <1>3, <1>4, <1>5, <1>6, CompleteHolds, PTL

=============================================================================
