--------------------------- MODULE ConcurrentMap ---------------------------
(***************************************************************************)
(* The maps of tools/collection/map.go, each a Go map and a sync.RWMutex,  *)
(* and the merge of one into another, which holds the mutexes of both: the *)
(* one at the lower address is taken first.                                *)
(*                                                                         *)
(* A method that needs one mutex is one action for what it does under it.  *)
(* Lock is two: it announces itself, which keeps new readers out, and gets *)
(* the mutex when those inside have left.                                  *)
(***************************************************************************)
EXTENDS Integers, Sequences, MapOps

CONSTANTS
    Clients,   \* goroutines that use the maps
    Addrs,     \* the maps, as their addresses
    Keys, Vals,
    Initial,   \* what the maps may hold in the beginning
    Batches,   \* arguments of MergeMap
    None       \* not a client, not an address

ASSUME MapAssumption ==
    /\ Addrs \subseteq Nat
    /\ Initial \subseteq [Addrs -> MapsOf(Keys, Vals)]
    /\ Batches \subseteq MapsOf(Keys, Vals)
    /\ None \notin Clients /\ None \notin Addrs

VARIABLES
    content,   \* c.m of each map
    writer,    \* who holds the mutex for writing, or None
    readers,   \* who holds it for reading
    pending,   \* who waits in Lock
    plan,      \* the mutexes a client has yet to take, in order
    job        \* the call a client is in, or NoJob

lockVars == <<writer, readers, pending>>
mapVars  == <<content, lockVars, plan, job>>

Lock(a)  == [kind |-> "Lock", map |-> a]
RLock(a) == [kind |-> "RLock", map |-> a]
Locks    == {Lock(a) : a \in Addrs} \cup {RLock(a) : a \in Addrs}

\* dst: the map that is changed.  src: the map that is copied, or None.  data:
\* what is copied if src is None.  del: the keys that are deleted.  copied:
\* the keys that were copied so far.
Jobs == [dst : Addrs \cup {None}, src : Addrs \cup {None}, data : MapsOf(Keys, Vals),
         del : SUBSET Keys, copied : SUBSET Keys]
NoJob == [dst |-> None, src |-> None, data |-> EmptyMap, del |-> {}, copied |-> {}]

Idle(c) == job[c] = NoJob

\* Types, and: who holds a mutex or waits for it is inside a call.
MapTypeOK ==
    /\ content \in [Addrs -> MapsOf(Keys, Vals)]
    /\ writer \in [Addrs -> Clients \cup {None}]
    /\ readers \in [Addrs -> SUBSET Clients]
    /\ pending \in [Addrs -> SUBSET Clients]
    /\ plan \in [Clients -> Seq(Locks)]
    /\ job \in [Clients -> Jobs]
    /\ \A a \in Addrs : \A c \in Clients :
          writer[a] = c \/ c \in readers[a] \cup pending[a] => ~Idle(c)

MapInit ==
    /\ content \in Initial
    /\ writer = [a \in Addrs |-> None]
    /\ readers = [a \in Addrs |-> {}]
    /\ pending = [a \in Addrs |-> {}]
    /\ plan = [c \in Clients |-> <<>>]
    /\ job = [c \in Clients |-> NoJob]

-----------------------------------------------------------------------------
\* sync.RWMutex.

Readable(a) == writer[a] = None /\ pending[a] = {}

\* Lock, up to the point where it waits for the readers and the writer inside.
Announce(c) ==
    /\ plan[c] # <<>> /\ Head(plan[c]).kind = "Lock"
    /\ LET a == Head(plan[c]).map IN
          /\ c \notin pending[a]
          /\ pending' = [pending EXCEPT ![a] = @ \cup {c}]
    /\ UNCHANGED <<content, writer, readers, plan, job>>

AcquireLock(c) ==
    /\ plan[c] # <<>> /\ Head(plan[c]).kind = "Lock"
    /\ LET a == Head(plan[c]).map IN
          /\ c \in pending[a] /\ writer[a] = None /\ readers[a] = {}
          /\ writer' = [writer EXCEPT ![a] = c]
          /\ pending' = [pending EXCEPT ![a] = @ \ {c}]
    /\ plan' = [plan EXCEPT ![c] = Tail(@)]
    /\ UNCHANGED <<content, readers, job>>

AcquireRLock(c) ==
    /\ plan[c] # <<>> /\ Head(plan[c]).kind = "RLock"
    /\ LET a == Head(plan[c]).map IN
          /\ Readable(a)
          /\ readers' = [readers EXCEPT ![a] = @ \cup {c}]
    /\ plan' = [plan EXCEPT ![c] = Tail(@)]
    /\ UNCHANGED <<content, writer, pending, job>>

\* The deferred Unlock and RUnlock.
Release(c) ==
    /\ writer' = [a \in Addrs |-> IF writer[a] = c THEN None ELSE writer[a]]
    /\ readers' = [a \in Addrs |-> readers[a] \ {c}]

-----------------------------------------------------------------------------
\* The calls.

Call(c, j, locks) ==
    /\ Idle(c)
    /\ job' = [job EXCEPT ![c] = j]
    /\ plan' = [plan EXCEPT ![c] = locks]
    /\ UNCHANGED <<content, lockVars>>

Set(c, a, k, v) ==
    Call(c, [NoJob EXCEPT !.dst = a, !.data = MapSet(EmptyMap, k, v)], <<Lock(a)>>)

Delete(c, a, k) == Call(c, [NoJob EXCEPT !.dst = a, !.del = {k}], <<Lock(a)>>)

MergeMap(c, a, m) == Call(c, [NoJob EXCEPT !.dst = a, !.data = m], <<Lock(a)>>)

\* Merge of a map that is no PLM: ToMap copies it under its own mutex.
MergeCopy(c, dst, src) ==
    /\ Readable(src)
    /\ Call(c, [NoJob EXCEPT !.dst = dst, !.data = content[src]], <<Lock(dst)>>)

\* Mutant: the destination is always locked first.
MergeLocks_Unordered(dst, src) == <<Lock(dst), RLock(src)>>

\* Mutant: the source is not locked.
MergeLocks_DstOnly(dst, src) == <<Lock(dst)>>

\* The mutexes mergeOther takes, by address.
MergeLocks(dst, src) ==
    IF dst < src THEN <<Lock(dst), RLock(src)>> ELSE <<RLock(src), Lock(dst)>>

\* mergeOther, of two different maps: the merge of a map with itself returns.
Merge(c, dst, src) ==
    /\ dst # src
    /\ Call(c, [NoJob EXCEPT !.dst = dst, !.src = src], MergeLocks(dst, src))

\* The Go map a call copies from.
Source(c) == IF job[c].src = None THEN job[c].data ELSE content[job[c].src]

\* One round of the loop over the source of mergeOther.
CopyKey(c) ==
    /\ ~Idle(c) /\ plan[c] = <<>> /\ job[c].src # None
    /\ \E k \in DOMAIN Source(c) \ job[c].copied :
          /\ content' = [content EXCEPT ![job[c].dst] = MapSet(@, k, Source(c)[k])]
          /\ job' = [job EXCEPT ![c].copied = @ \cup {k}]
    /\ UNCHANGED <<lockVars, plan>>

\* What the other calls do under their mutex, and the return.
Finish(c) ==
    /\ ~Idle(c) /\ plan[c] = <<>>
    /\ LET j == job[c] IN
          IF j.src # None
          THEN DOMAIN Source(c) \subseteq j.copied /\ UNCHANGED content
          ELSE content' = [content EXCEPT ![j.dst] =
                             [k \in DOMAIN MapMerge(@, j.data) \ j.del |-> MapMerge(@, j.data)[k]]]
    /\ Release(c)
    /\ job' = [job EXCEPT ![c] = NoJob]
    /\ UNCHANGED <<pending, plan>>

Proceed(c) == Announce(c) \/ AcquireLock(c) \/ AcquireRLock(c) \/ CopyKey(c) \/ Finish(c)

StartCall(c) ==
    \E a \in Addrs :
        \/ \E k \in Keys : Delete(c, a, k) \/ \E v \in Vals : Set(c, a, k, v)
        \/ \E m \in Batches : MergeMap(c, a, m)
        \/ \E src \in Addrs : Merge(c, a, src) \/ MergeCopy(c, a, src)

MapNext == \E c \in Clients : StartCall(c) \/ Proceed(c)

MapSpec == MapInit /\ [][MapNext]_mapVars

-----------------------------------------------------------------------------
\* Properties.

Holds(c, a) == writer[a] = c \/ c \in readers[a]

\* Who holds a mutex only waits for one at a higher address, so that no circle
\* of merges waits for each other, whatever maps they merge.
LockOrder ==
    \A c \in Clients : plan[c] # <<>> =>
        \A a \in Addrs : Holds(c, a) => a < Head(plan[c]).map

\* A merge is a snapshot: while a map is copied nobody else changes either of
\* the two maps, and at the end the destination has every entry of the source
\* as the source has it at that moment.
MergeIsSnapshot ==
    \A c \in Clients :
        ~Idle(c) /\ plan[c] = <<>> /\ job[c].src # None =>
            \A k \in job[c].copied :
                /\ MapHas(Source(c), k)
                /\ MapHas(content[job[c].dst], k)
                /\ content[job[c].dst][k] = Source(c)[k]

=============================================================================
