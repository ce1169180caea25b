----------------------------- MODULE Containers -----------------------------
(***************************************************************************)
(* The queue and the priority queue of tools/collection, with elements     *)
(* that are pointers, as the blocking queue and the heap timer use them.   *)
(* Elements move between the two and the caller.                           *)
(*                                                                         *)
(* container/heap is external: SiftUp and SiftDown are what it does with   *)
(* the Less, Swap, Push and Pop of heapQueue.                              *)
(***************************************************************************)
EXTENDS Slices, FiniteSets

CONSTANTS
    Elements,       \* pointers to elements
    Priority        \* less(a, b) is Priority[a] < Priority[b]

ASSUME ContainerAssumption ==
    /\ Zero \notin Elements
    /\ Priority \in [Elements -> Int]

VARIABLES
    elems,          \* queue.elems
    arr,            \* heapQueue.arr
    held            \* elements the caller holds

cvars == <<elems, arr, held>>

ContInit ==
    /\ elems = Nil
    /\ arr = Nil
    /\ held = Elements

-----------------------------------------------------------------------------
(* queue                                                                   *)

PushQueue(e) ==
    /\ e \in held
    /\ \E spare \in 0..1 : elems' = AppendTo(elems, e, spare)
    /\ held' = held \ {e}
    /\ UNCHANGED arr

\* The cell is cleared, since the array outlives it.
PopQueue ==
    /\ Len_(elems) > 0
    /\ held' = held \cup {At(elems, 0)}
    /\ elems' = Window(Put(elems, 0, Zero), 1, Len_(elems))
    /\ UNCHANGED arr

ClearQueue ==
    /\ Len_(elems) > 0
    /\ elems' = Nil
    /\ held' = held \cup ToSet(Elems(elems))
    /\ UNCHANGED arr

-----------------------------------------------------------------------------
(* priorityQueue                                                           *)

\* Mutant: the order is reversed.
Less_Greater(h, i, j) == Priority[At(h, j)] < Priority[At(h, i)]

Less(h, i, j) == Priority[At(h, i)] < Priority[At(h, j)]

Swap(h, i, j) == Put(Put(h, i, At(h, j)), j, At(h, i))

\* One turn of the loop that moves the element at t.i up, and one of the loop that
\* moves it down in the first n cells; a loop that is done stays as it is.
UpTurn(t) ==
    LET parent == (t.i - 1) \div 2 IN
    IF t.i = 0 \/ ~Less(t.h, t.i, parent) THEN t
    ELSE [h |-> Swap(t.h, parent, t.i), i |-> parent]

DownTurn(t, n) ==
    LET left == 2 * t.i + 1
        child == IF left + 1 < n /\ Less(t.h, left + 1, left) THEN left + 1 ELSE left
    IN  IF left >= n \/ ~Less(t.h, child, t.i) THEN t
        ELSE [h |-> Swap(t.h, t.i, child), i |-> child]

\* No loop takes more turns than there are cells.
UpTurns(h, j) ==
    LET turn[k \in 0..j] == IF k = 0 THEN [h |-> h, i |-> j] ELSE UpTurn(turn[k - 1])
    IN  turn

DownTurns(h, n) ==
    LET turn[k \in 0..n] == IF k = 0 THEN [h |-> h, i |-> 0] ELSE DownTurn(turn[k - 1], n)
    IN  turn

SiftUp(h, j) == UpTurns(h, j)[j].h
SiftDown(h, n) == DownTurns(h, n)[n].h

\* heapQueue.Pop: the last element, whose cell is cleared.
HeapPop(h) ==
    LET n == Len_(h) - 1 IN [item |-> At(h, n), rest |-> Window(Put(h, n, Zero), 0, n)]

PushPriority(e) ==
    /\ e \in held
    /\ \E spare \in 0..1 : arr' = SiftUp(AppendTo(arr, e, spare), Len_(arr))
    /\ held' = held \ {e}
    /\ UNCHANGED elems

\* heap.Pop brings the root to the end first.
PopPriority ==
    /\ Len_(arr) > 0
    /\ LET n == Len_(arr) - 1
           r == HeapPop(SiftDown(Swap(arr, 0, n), n))
       IN  /\ arr' = r.rest
           /\ held' = held \cup {r.item}
    /\ UNCHANGED elems

ClearPriority ==
    /\ Len_(arr) > 0
    /\ arr' = Nil
    /\ held' = held \cup ToSet(Elems(arr))
    /\ UNCHANGED elems

ContNext ==
    \/ \E e \in Elements : PushQueue(e) \/ PushPriority(e)
    \/ PopQueue \/ ClearQueue
    \/ PopPriority \/ ClearPriority

ContSpec == ContInit /\ [][ContNext]_cvars

-----------------------------------------------------------------------------
(* Properties                                                              *)

IsSlice(s) ==
    /\ s.back \in Seq(Elements \cup {Zero})
    /\ 0 <= s.lo /\ s.lo <= s.hi /\ s.hi <= Len(s.back)

ContTypeOK ==
    /\ DOMAIN elems = {"back", "lo", "hi"} /\ IsSlice(elems)
    /\ DOMAIN arr = {"back", "lo", "hi"} /\ IsSlice(arr)
    /\ held \subseteq Elements

\* Every element is in one place, once: neither the cells that are cleared nor the
\* swaps of the heap nor an append in place lose or repeat one.
Conserved ==
    \A e \in Elements :
        LET places == [q |-> {n \in 1..Len_(elems) : Elems(elems)[n] = e},
                       h |-> {n \in 1..Len_(arr) : Elems(arr)[n] = e}]
        IN  Cardinality(places.q) + Cardinality(places.h)
              + (IF e \in held THEN 1 ELSE 0) = 1

\* Peek and the next Pop of the priority queue are about an element that none
\* precedes, after any history of pushes and pops with equal priorities.
LeastFirst ==
    \A n \in 1..Len_(arr) : Priority[At(arr, 0)] <= Priority[Elems(arr)[n]]

\* No array holds a pointer to an element that left its container.
NoReferenceKept ==
    \A s \in {elems, arr} : \A c \in Outside(s) : s.back[c] = Zero

\* No operation of a queue loses or repeats an element, no element of the priority
\* queue precedes the one Peek shows, and no array holds a pointer to an element
\* that has left.
QueuesKeep == ContTypeOK /\ Conserved /\ LeastFirst /\ NoReferenceKept
=============================================================================
