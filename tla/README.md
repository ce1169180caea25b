# gowlb in TLA+

Specifications of the concurrent parts of gowlb, a Go toolbox (worker pool,
timers, queues, caches, streams, an HTTP layer and code generators). Each module
is translated from the source it names; `PROJECT.json` maps every definition to
the lines it stands for.

## 1. Inventory

### Components with state and concurrency

**Worker pool** (`tools/workerpool`). State: an atomic state (init, running,
drain, shutdown), an atomic worker count, a buffered channel of tasks, a mutex
for growing, a WaitGroup. Operations: `Start`, `Submit`, `Shutdown`,
`ShutdownWait`, the loop of a worker, five rejection policies. Used by both
timers. Hard: every decision is a check of one atomic followed by an access to
something else; the channel is closed while others send; workers leave when idle.
Correct when the count is exact and bounded, no task is lost, repeated or
reordered, a drain is complete, and all goroutines end.

**Heap timer** (`tools/timer/heaptimer.go`). State: a heap owned by one goroutine,
three channels towards it, the timer objects, a stop channel. Operations:
`SetTimer`, `SetTicker`, `Stop`, `Reset`, `Shutdown`, the loop `tick`. Hard: an
object is in a channel, in a helper goroutine or in the heap; Stop and Reset
overtake it; the loop reads the clock at different places. Correct when nothing
is duplicated, forgotten or early, and Stop is effective.

**Timer wheel** (`tools/timer/timerwheel.go`). State: slots with a list and a mutex
each, the pointer, and per timer its slot and its circles. Operations as above.
Hard: users and the wheel change lists directly, the wheel without the mutex of
the slot a ticker moves to, users after an unsynchronised read. Correct when a
timer is where its `pos` says, callbacks come at the right move of the pointer, and
Stop works.

**Blocking queue** (`tools/collection/blockingqueue.go`). State: a queue, a flag, a
condition variable. Operations: `Push`, `Pop`, `Shutdown`, `ShutdownWithDrained`.
Hard: one condition variable for two kinds of waiters, woken one at a time.
Correct when no wakeup is lost, order is kept, a drain is final.

**Delaying queue** (`delayingqueue.go`). A blocking queue and a timer scheduler:
`PushAfter` sets a timer whose callback pushes. Hard: the check of the scheduler's
state before the timer is set; items in flight during a shutdown. Correct when
each item arrives once, or is refused.

**Expiration map, concurrent map** (`expirationmap.go`, `map.go`). Maps under locks,
a cleaner goroutine, merges of two maps. Hard: an entry that is renewed while the
cleaner looks at it; lock order. Correct when an entry that is not due stays, merges
do not deadlock and copy one moment of their source.

**Parallel iteration** (`tools/parallel`, `cmd/gowlb/internal/parallel`). Worker
goroutines over a channel of pieces, with cancellation, errors, panics and a
collector. Hard: who still sends when the collector has left. Correct when success
means that every piece was processed and the call returns.

**Database cache** (`tools/cache`). A database and a map that mirrors it; options
that generate SQL. Hard: updates in two or three steps, `Load` against `Insert`.
Correct when the map agrees with the table once the operations have ended.

**Process control** (`proc`). Signal handlers and profiles. Hard: signals against
programmatic start and stop. Correct when profiles do not
overlap, and one that is stopped has ended all it started and gives the flag back.

### Components without concurrency

**Streams** (`tools/stream`): stages that each element passes one by one; the stage of
`Limit` counts, and every terminal operation runs the same closures again.

**Queue, priority queue** (`tools/collection`) and **slice helpers**
(`tools/collectionutils`): slices that share an array with other slices.

**HTTP transport** (`transport/http`), stack, set, `tools/sync`, `math`, `parse`,
`strutil`, `errors`, `llog`, `transport/binding`, `serialize`, the code generators
under `cmd` and the vendored definitions under `third_party`: see section 7.

### Interactions

Both timers start a pool, submit callbacks to it and shut it down; the delaying
queue owns a blocking queue and a scheduler; the expiration map owns two concurrent
maps; the heap timer uses the priority queue; the blocking queue uses the queue; the
signal loop starts profiles. Everything else is used by applications only.

## 2. Modules

| Module | Of | Composes |
|---|---|---|
| `WorkerPool`, `TaskLedger`, `WorkerPoolMC`, `WorkerPool_proofs` | worker pool | `WorkerPool` implements `TaskLedger` |
| `BlockingQueue`, `Collections_proofs` | blocking queue | |
| `DelayingQueue`, `Collections_proofs` | delaying queue | `BlockingQueue` and what both schedulers promise; implements `BlockingQueue` |
| `HeapTimer`, `HeapTimer_proofs` | heap timer | |
| `TimerWheel`, `TimerWheel_proofs` | timer wheel | |
| `ConcurrentMap`, `MapOps`, `Maps_proofs` | concurrent map | |
| `ExpirationMap`, `ExpirationMapMC`, `Maps_proofs` | expiration map | `ConcurrentMap`, which it implements, and a private map |
| `Parallelize`, `Parallelize_proofs` | `tools/parallel` | |
| `ParallelResult`, `Tools_proofs` | `cmd/gowlb/internal/parallel` | |
| `DBCache`, `DBCache_proofs` | database cache | |
| `Profile`, `Tools_proofs` | profiles and signals | |
| `Pipeline`, `Tools_proofs` | streams | |
| `Slices`, `Containers`, `Collections_proofs` | queue, priority queue | |
| `Slices`, `SliceOps`, `Collections_proofs` | slice helpers | |
| `ToolsMC` | | the last four side by side, for TLC |

Abstract specifications: `TaskLedger` is what a pool promises about its tasks, and
`WorkerPool` instantiates it with a refinement mapping (`Ledger`; `LedgerSpec` is a
property of `PoolMisused`). `BlockingQueue` is the abstract specification of
`DelayingQueue`, and `ConcurrentMap` that of `ExpirationMap`. All three refinements are
theorems. The abstract view of a stream is `FusionIsStaged`: the fused execution is
compared with stage by stage processing.

## 3. How modules correspond to the code

**WorkerPool.** One action is one atomic access: the load of the state, the length
of the channel, the load of the count, the mutex, the Add, the send. `cpc` is the
program counter of a caller, `wpc` that of a worker goroutine. The identities in
`Workers` are those of live goroutines and are reused; the runs have enough of
them that no launch has to wait for one for ever. The policies are records
(number of retries, ending). Timers of idle workers may fire at any time. The
tasks themselves are events. `StartFirst` is the discipline under which the bound
holds: the pool is used once `Start` has returned.

**TaskLedger.** Fates of a task, and the queue of accepted ones.

**BlockingQueue.** Every method holds the mutex except inside `cond.Wait`, so one
action is one stretch between two waits. `Signal` picks any waiter (Go picks the
oldest; the properties hold for any choice).

**HeapTimer.** Objects are indices, as pointers are in the code; `Reset` appends a
copy. A call of `Stop` or `Reset` is the moment its send gets through, a `SetTimer`
has a separate moment for the object and for the send. The clock is discrete and
ends at `MaxClock`, an instant that stands for all later ones.

**TimerWheel.** Durations are in units of which `SI` make an interval; `Moves` truncates
them to whole intervals and `Circles` to whole circles, as the divisions of `add` do.
Time is counted in moves of the pointer, since sleeps have no other meaning to the
wheel. `waited` counts the moves since a timer was pushed; above the longest duration
(`MaxMoves`) it goes around by whole circles, which the phase does not see. The pointer
is written twice (`sp++`, `sp %= sc`); a reader between the two computes the same slot as
a reader after them.

`damaged` are the slots whose list the wheel pushed to, without its mutex, while a user
was at work on it. Two unsynchronised operations of `container/list` can cross its links
and lose an increment of its length, and this stays: elements pushed later, which raced
with nothing, may be left out as well. From then on a pass over the list may start
and go on at any element of it or end (`Fronts`, `Nexts`), a length that counts too
much gives the root as the front, which has no value (`WheelLock` to "crashed"), and a
push may meet a nil link (`PushCrash`, `WheelCrash`). `slots` says which elements have
which list, as an element does, so that `Remove` still works. A list is followed
through one such race; a second one on the same list can make a removed element
reachable again, and the behaviour ends there (`WheelCrash`).

**DelayingQueue.** `stage` follows a delayed item: checked, set, running, and then pushed, or
refused, lost, panic. The
check of the scheduler's state and the call of `SetTimer` are two actions. Of the
scheduler the module has what both implementations provide: a timer that is set
expires and is called back once, in a goroutine of a pool that may refuse it; after
`Shutdown` nothing is promised and `SetTimer` panics.

**ConcurrentMap.** A method under one mutex is one action. `Lock` is two: it announces
itself, which keeps new readers out as `sync.RWMutex` does, and gets the mutex when
the readers have left. `plan` is the list of mutexes a call still has to take, `job`
what it does then. The addresses of the maps are numbers, compared as `mergeOther`
compares pointers; a merge of a map with itself returns at once, as in the code.

**ExpirationMap.** Adds the map of the deadlines, private and hence one action per
method, and the steps of `SetExpired`, `Get` and the cleaner between them. The clock
is discrete, durations are at least one instant.

**Parallelize.** One action is one channel operation, one call of `doWorkPiece`, one
cancel or one `wg.Done`. The call record has the pieces, the workers, the size of the
chunks and the options; the pieces fail, panic or return as they like; the context
ends at any time. The deferred calls run in the order of the language: `wg.Done` comes
before the `recover`.

**ParallelResult.** The distributor, the workers and the loop of the caller with its four
channels. `WorkerYield` is what the callers in `cmd` do in a task: send to `resultCh`.

**DBCache.** One action is one statement to the database or one method of the map. The
primary key is what the database assigns. `opts` is the set of options, and the
functions that exist are derived from it as `NewDBCache` does. `signedKey` says
whether reflection can set the primary key: the generated insert panics after the
INSERT if not (`InsertPanic`), with a row in the table that the map does not have. V is
a pointer to a struct with a primary key and exported fields.

**Profile.** One action is one collector switched on or off, in the order of `profile.go`.
The settings of the runtime are variables of their own, which name the profile that
switched a collector on, or `Application` for one that was on before (`preset`). A start
that fails because the collector is on already leaves nothing to close for a trace and
a closer for the CPU profile, whose error is discarded; a closer switches off, whoever
switched on. The signal loop is a goroutine with a channel of two signals.

**Pipeline.** A stage is a record with the count of its closure, a predicate the set
it accepts. A terminal operation is one action: a loop over the slice (`Turns`) runs the
stages element by element, as `execute` does, and leaves the counts of `Limit` behind.
What each `Peek` was called with is kept by the place of the stage in the history.

**Containers, SliceOps.** A slice is a window on an array that other windows share. The
actions apply the operations in any order; results are compared with definitions over
sequences. `SiftUp` and `SiftDown` are what `container/heap` does (external). A loop over a
slice is `Loop`: the turn of an element, applied from the first to the last. Integers
have 2 * `Half` values and wrap around.

## 4. Runs

| Run | Properties | Bounds |
|---|---|---|
| `PoolElastic` | `WorkerBound` | 2 submitters, 4 tasks, 1 to 2 workers, channel of 2 that grows above 1, policies callerRuns and a retry without inner policy |
| `PoolMisused` | `CountExact`, `LedgerSpec` | Start, Submit and two stops in any order, 2 submitters, 2 tasks, channel of 1, three policies |
| `PoolFixed` | `DrainComplete`, `TaskServed`, `ShutdownEnds` | 2 workers, 2 tasks, channel of 1, one stop of any kind |
| `PoolShutdownPanic` | `SubmitReturns`, violated | 1 submitter, 1 worker, 1 task |
| `QueueDrain` | `FirstInFirstOut`, `NoLostWakeup`, `DrainedForGood`, `CallersReleased`, `DelayedArrives` | 2 consumers that keep popping, 3 items, each pushed directly or delayed, 1 drainer, Shutdown of the queue and of the scheduler at any time |
| `Heap` | `HeldOnce`, `TimerKept`, `NeverEarly`, `StopSilences`, `TimerFires` | a timer with one Reset and a ticker, channels of 1, durations 1 and 2, 3 instants |
| `Wheel` | `WheelInv`, `OnTime`, `TimerStopSilences`, `TimerFires` | a timer with one Reset and a ticker, 2 slots, intervals of 2 units, durations of 1, 2 and 5 units |
| `Parallelize` | `AtMostOnce`, `NilMeansComplete`, `ErrorReported`, `QuietAfterReturn`, `Returns` | up to 3 pieces, up to 3 workers, chunks of 2 or the default, room for 2 results |
| `ParallelResult` | `ResultInv`, `Returns` | up to 4 tasks, 2 workers, channels of 1 (tasks) and 3 (completions, results) |
| `DBCache` | `CacheInv`, `LoadedIsSafe` | 2 goroutines, 5 operations, 2 rows of 2 fields, 5 sets of options, tags of none or one field, primary keys that are a signed integer or not |
| `Maps` | `ExpirationInv`, `LockOrder`, `MergeIsSnapshot`, `NeverEarly`, `Cleaned`, `CallsReturn` | 2 goroutines with two calls in all and the cleaner, 2 maps, 2 keys, 2 values, duration 1, instants 0 to 2 |
| `Tools` | `ProfilesKeep`, `ProfilesEnd`, `StreamsAgree`, `QueuesKeep`, `SlicesKeep` | 2 goroutines and the signal loop, 3 profiles, 3 signals, 1 file that cannot be created, none, two or three collectors on before; streams of 3 elements, 3 stages, 2 terminal operations; 4 elements in the queues; slices of up to 4 elements, integers of 2 bits |

What they show, beyond the properties' own comments:

- *Pool.* The count on which Submit, Start and idle workers decide is exact, the
  bound holds once Start has returned, a task has one fate, and a fixed pool drains
  and ends. Elastic pools do not drain completely: all workers may leave as idle.
- *Queue.* One condition variable is enough for consumers and one drainer although
  `Signal` may pick either; delayed pushes do not disturb it.
- *Timers.* With a ticker, a Reset and a Stop in every order, objects are neither
  lost nor doubled on their way between channels, helper goroutines and the heap,
  or between the slots of the wheel. The exceptions of the wheel are in `TimerFires`: a
  list that an unlocked push has damaged (`damaged`), and two tickers below the interval in
  one slot, a pass over which never ends (`Endless`; the run has one ticker only).
- *Parallel iteration.* In which cases the call may hang is part of `Returns`
  (`Excused`); in all others it returns, with the right error, and leaves nobody behind
  that still works.
- *Cache.* Where operations on a key overlap, map and table may differ until the
  next Load (`spoiled`); everywhere else they agree. A loaded cache panics in the two
  calls that `LoadedIsSafe` names.
- *Maps.* Merges in both directions, a renewal and the cleaner meet on the same
  two maps. A value whose last `SetExpired` overlapped its removal (`raced`) is exempt
  from `NeverEarly` and `NoOrphan` until it is set again.
- *Tools.* Profiles never overlap and end all that they have started (and more than
  that, see section 5). Profiles and signals are concurrent; streams, containers and slices are
  sequential and compared with reference definitions over all short histories.

**Why the bounds are enough.** They are the smallest at which the interesting cases
meet. Two submitters see the same count; four tasks fill a channel of two, a worker
and a caller. Channels of one are full when a second party comes, so that helper
goroutines (`addProcs`), rejections and blocked sends happen. Two slots let the wheel
and a user work on different lists; with two units to an interval a duration of 1 is no
move, one of 2 a move, and one of 5 a full circle and a bit that is cut off. Three
pieces in chunks of two leave a short last chunk, and three results do not fit in
two cells. Four tasks are one more than `counter` holds. Two maps are enough for a
circle of locks, two keys for a merge that is interrupted between them. Two bits
are enough for an increment to wrap around. `PoolElastic` and `PoolMisused` reduce
by the symmetry of submitters, stoppers, workers and tasks; no liveness property is
checked with symmetry. `GrowLen` and `ChanSize` stand for 3 and at least 64,
`CounterCap` for 64: only their order matters.

The type invariants of the pool, the queue, the heap timer and the parallel iteration
are theorems and need no run. The others are conjuncts of `WheelInv`, `ResultInv`,
`CacheInv`, `ExpirationInv`, `ProfilesKeep`, `StreamsAgree` and `QueuesKeep`.

**Deadlock** is checked for the pool, the queue and both timers: a terminated pool and
a timer goroutine that has ended stutter explicitly. The other runs stop by
themselves: a parallel iteration is one call, the operations on the cache and the
calls on the maps are counted, the process of `Profile` ends. That no call is stuck is
what `Returns`, `CallsReturn` and `ProfilesEnd` say there.

**Fairness.** A goroutine that can run runs (WF). Three things are stronger than that.
Go's select chooses at random among ready branches, so that a branch that is ready
again and again is taken: SF on the receives of a worker (`WorkerReceive`,
`WorkerClosed`), of tick (`TickAdd`) and on the done branch of `ParallelResult`
(`WorkerQuit`). Senders blocked on a channel are served in order: SF on `SetSend` of the heap
timer. Waiters for a mutex are served in turn: SF on `PushLock` of the wheel and on
`Inside` of the maps. Callers are never obliged to call, with two exceptions:
`DelayFairSpec` has consumers that keep popping, without which a drain cannot end,
and in the timers and maps time passes. `DelayFairSpec` assumes of the scheduler that a
timer that is set expires unless the scheduler is shut down, which is what `TimerFires`
says of both. `ProfileFairness` lets the signal loop and calls that have begun go on.
No fairness is assumed of the database.

## 5. Where the code disagrees with its words

`PoolShutdownPanic` is the disagreement a run is kept for: a Submit that races with a
Shutdown panics on the closed channel instead of returning "work pool has been
shutdown" (workerpool.go:170).

The models reach more behaviour that names, comments or documents do not suggest. The
properties are stated around it, each with the exception in its formula or comment.

*Timers.* A ticker that is overdue when it leaves `addCh` is called once and never
again (heaptimer.go:190). A timer that was stopped is called back if it was overdue in
`addCh` (190) or had been Reset before (210, the handle names the old object). `tick`
sleeps the whole duration of the head after each interruption instead of the time
that is left (179). An error of `pool.Submit` is ignored, and with it that callback
(85). On the wheel, a Shutdown can end the process: the callback submitter of a ticker
that is added again panics (timerwheel.go:221, 145). A pass over a slot ends at the first
timer with circles to go, and those behind it are late by whole circles (213). A
ticker with the duration of a circle fires every other circle (221). A Stop that
races with the re-add of a ticker removes nothing (244). A duration that is no multiple
of the interval is truncated (164-166), so that its callback comes up to an interval
early, and one below the interval at the next move of the pointer or at once; two
tickers below the interval that share a slot hold the wheel there for ever (210-223). The push of a
ticker without the mutex of its slot (171) can damage the list there for good: timers
in it may never fire, or the wheel crashes. After two such races on one list a removed
element may be reached again, so that a stopped timer is called; this one is
beyond the model.

*Parallel iteration.* `Parallelize` swallows a panic when it is not to stop on errors
(parallel.go:74). `ParallelizeResult` never returns with zero workers, or after a panic
without stopOnErr. `ParallelResult` of the command line tool never returns for zero
tasks, and may hang with more tasks than `counter` holds (parallel.go:64 under `cmd`).

*Database cache.* The generated select function returns nothing, so that a Load of it
empties the map (dbcache.go:225). A scanner without a connection is accepted and fails
at Load (67). An update without tags panics. The generated insert panics when the
primary key is not a signed integer (347), with the row in the table and not in the map.
An operation that gets to the map before the
first Load panics.

*Maps.* `Get` of the expiration map calls itself (expirationmap.go:70): the model ends
the process there (`crashed`). A `SetExpired` that comes between the cleaner's check of
the key and its `Delete` loses the new value, and one that comes before the deadline is
deleted leaves a value without a deadline (99-105).

*Streams.* A stream without a stage, or whose last stage is `Sorted`, emits zero values
(pipelinestream.go:95). `Skip(0)` drops everything and `Skip(n)` nothing (66). `Limit`
counts over all terminal operations (51).

*Slices.* `SliceRange` up to the largest value of its type does not end at it
(utils.go:188).

*Profiles.* A profile does not put back what it found: its closers set the rates of
the block and mutex profiles to 0 (profile.go:62, 124), and the closer of the CPU profile
stops that of an application, which made StartCPUProfile fail unseen (76, 80). The file of
a trace stays open. After a refused start SIGUSR1 toggles a fake
stopper. Signals beyond the capacity of the channel are dropped (signal.go:20). Dumps
within one second have the same file name (profile.go:200).

## 6. Proofs

Eight modules hold the theorems; each holds for every value of the constants under the
assumptions that the modules name (`PoolAssumption`, `PoolFinite`, `QueueAssumption`,
`TimerAssumption`, `WheelAssumption`, `MapAssumption`, `ExpirationAssumption`,
`ParallelAssumption`, `ResultAssumption`, `CacheAssumption`, `ProfileAssumption`,
`ContainerAssumption`, `PipelineAssumption`, `SliceAssumption`). They say that bounds are
natural numbers (capacities and the rows of the cache positive, a wheel with at least
one slot and an interval of at least one unit), that the sets of callers and workers which are counted are finite, that
there is a value to store, that timers and tickers have different handles, and that the
addresses of maps and the places that stand for "none" differ from what they must not
be confused with. Streams and slices are of integers, a type of integers has a positive
even number of values, a predicate is a set of them and a limit a natural
number; priorities are integers; no more signals than `MaxProfiles` are sent; what an
application has switched on is a set of the collectors there are.
Every safety invariant and every action property that a passing run checks is a theorem.

`WorkerPool_proofs`: `TypeCorrect`, `CountCorrect` (`[]CountExact`) and `BoundCorrect`
(`[]WorkerBound`), for all finite sets of callers and workers. `CountExact` is inductive
together with the types: every launch is counted between its Add and its Go
(`Launching`), every worker until its deferred Add(-1) (`Counted`). `WorkerBound` needs
more: the mutex is held exactly by the submitters inside the critical section, one
of them at most has seen room, nobody is there before Start has finished its loop,
and Start has added no more than it has launched. It assumes `StartFirst` and a
single Start call, which is what makes the unlocked adds of Start harmless.
`DrainCorrect` (`[]DrainComplete`) assumes in addition one stopper and
`MinWorker = MaxWorker > 0`. Its invariant says that the crew which Start has launched
is complete until the pool is drained (`CrewInv`), because no worker has a reason to
leave before (`NobodyLeaves`). The stopper's Wait therefore ends only when the workers
left, and the first of them leaves when the closed channel is empty (`StopInv`). With
elastic workers this fails, as idle ones may all leave before.

`LedgerCorrect`: the pool implements `TaskLedger`, with no
assumption on how Start, Submit and Shutdown are called. `FateInv` says that a pending
task belongs to one submitter and that an accepted one is in one place once: the
channel, a worker, a detached goroutine, or done. From it each kind of step (`Quiet`,
`Moves`) is shown to move one task at most, along the ledger's edges, and to keep the
order of the queued ones.

`Collections_proofs`, of the blocking queue: `TypeCorrect`, `FifoCorrect` (`[]FirstInFirstOut`) and
`WakeupCorrect` (`[]NoLostWakeup`). The last one counts: each queued element is
matched by a woken caller as long as a consumer waits; a signal moves one caller from
the waiting to the woken, a pop removes one element and one woken caller.
`DrainedCorrect` (`[][..]`, `DrainedForGood`): a caller that has returned has seen an
empty queue after a shutdown that nobody takes back, so no push is accepted any more.

`Collections_proofs`, of the delaying queue: `ImplementsQueue`, every step of a delaying queue is a step or a
stutter of `BlockingQueue`; hence `DelayedInOrder`,
`DelayedWakeups` and `DelayedDrained`. `LateCorrect`:
an item whose PushAfter began after the shutdown of the scheduler is refused (`LateInv`).

`HeapTimer_proofs`: `TypeCorrect`, `NeverEarlyCorrect`, `HeldOnceCorrect`,
`TimerKeptCorrect`, `StopSilencesCorrect`, for any handles, durations, capacity and
length of time. `TypeInv` says that every reference (in a channel, the heap, a handle)
is to an object that exists; objects are only added (`Grown`). `HandleInv` says which
object a handle names and that a stopped one is marked as removed. `PlaceInv` is the
core: the places an object can be in (addCh, heap, helper goroutine, caller, tick) are
disjoint, no channel names an object twice, a one-shot timer that was called is in
none of them, and every object that is still due is in one. `HeldPlaces` turns the
count of `HeldOnce` into these sets.

`TimerWheel_proofs`: `WheelCorrect` (`[]WheelInv`) and `SilenceCorrect`
(`TimerStopSilences`), for any handles, durations, interval and number of slots, damaged lists included. `WheelInv` needs
to know (`HandleInv`) that a handle is pushed only when it is in no list and that Stop
and Reset still look at the slot it was pushed to, and (`CursorInv`) that the wheel's
next timer stays in the slot it has locked while tickers are pushed to others without
their mutex. `WithoutList` and `AppendList` say what `container/list` keeps.
`OnTimeCorrect` (`[][..]`, `OnTime`: never out of phase, and early by less than the interval
that the division cuts off) rests on `TimeInv`: a timer in a slot has still to
wait as many moves as the pointer needs to that slot plus a circle for each circle it
has left, and what it has waited and has still to wait differ from the whole intervals
of its duration by whole circles (`Timed`). The solvers do not reason about remainders: `AddMath` and
`MultipleMod` derive what is needed of `%` once, and the steps (`AddTimed`,
`MoveTimed`) only use `Gap`, the distance to a slot.

`Parallelize_proofs`: `TypeCorrect`, `AtMostOnceCorrect`, `ErrorCorrect`, `QuietCorrect`,
`NilMeansCompleteCorrect`.
Chunks are disjoint by arithmetic (`ChunksDisjoint`), so that `OnceInv` can say that the
pieces done and the chunks in the channel or in work do not overlap; `ErrorInv` follows a
bad end from the piece to the channel and to the caller; `QuietInv` says that the caller
passes `wg.Wait` only when every worker has called Done. `NilMeansComplete` takes three
more: a call that is cancelled, or about to be, has an error to return (`StopInv`), in a
call that nothing has stopped a piece that is
not done lies in a chunk that is still in the channel or in work, and workers leave
an empty channel only (`CoverInv`), and each result is at a worker, in the channel or
gathered, once (`ResultsInv`). That the result has one value of each piece is then
the pigeonhole principle.

`Tools_proofs`, of `ParallelResult`: `ResultCorrect` (`[]ResultInv`). Tasks are taken in the order in
which they are sent (`TakenInv`), each by one worker (`JobInv`), and every one taken is
finished, counted, at work or failed (`CountInv`, with cardinalities): when as many
are finished as there are, all were taken, nobody is at work and nothing has failed
(`AllFinished`). `YieldInv` counts the results in the same way, and `EndInv` says why
the loop of the caller has ended and that it leaves no result in the channel.

`DBCache_proofs`: `CacheCorrect` (`[]CacheInv`) and `LoadedIsSafeCorrect` (`[][..]`,
`LoadedIsSafe`: two calls panic and no other), for any goroutines, rows and sets of options. `Agreement` alone is not
inductive, as it says nothing of keys that are being written or of a Load under way.
`Settled(k)` does, for a key whose operations did not overlap: one client works on it
at most; what the Loads have in hand is what the table has; what a writer has in hand
will make the map agree (`Written`, which needs that an update made twice changes
nothing, `MergeAgain`, for a Load between its steps); and the map agrees when nobody is
at work. A step leaves the keys it does not touch alone (`Frame`), begins
the only work on a key (`FirstStep`), or ends it (`LastStep`).

`Maps_proofs`, of the concurrent map: `LockOrderCorrect`, for any number of maps: who waits
for a mutex holds only lower ones, so that no circle of merges can close.
`SnapshotCorrect`: what a merge has copied is what the source still holds, since every
writer of it is kept out (`SnapInv`: who works holds the mutexes of its job, and
writers are alone). Of the expiration map: `ImplementsMap`, it uses its map as a
`ConcurrentMap`, cleaner included, and inherits both theorems; `NeverEarlyCorrect`, from
`DueInv`: what the cleaner is about to remove was due when it looked, or has been
renewed since and is exempt, as the code then removes it early; `ExpirationCorrect` (`[]ExpirationInv`), from `OrphanInv`: a
deadline is written before `SetExpired` returns, and the cleaner, which removes it after
the value, has at hand only keys whose values it removed or whose renewal is exempt.

`Collections_proofs`, of the containers: `ContainersCorrect` (`[]QueuesKeep`), for any elements and
priorities. A slice queue is its window on the array (`SliceInv`); the priority queue is a heap but
for one place while `SiftUp` and `SiftDown` are under way (`UpInv`, `DownInv`), and each turn
of their loops swaps two elements (`Rearranged`), so that what `Pop` takes is a smallest
element and the rest is what was there.

`Collections_proofs`, of the slice helpers: `SlicesCorrect` (`[]SlicesKeep`), for any slices and
predicates of integers and any width. `KeptInv` says that the slice and the one of before
are windows on the same array and that the slice holds what should be kept; it survives
`DeleteFunc`, whose loop overwrites the array that it reads, as the place it
writes to is never past the one it reads (`Compacting`, `CompactedIs`). `AnswersInv`
is about the last call that only reads: a loop that returns early has seen the elements
up to the first that decides (`VisitedIs`), the groups are the selections of a predicate and of its
complement (`GroupedIs`), and any order of the keys gives the same parts (`PartsAre`).
`SliceRange` counts in the integers until its end, which it passes unless that is the
largest value (`TurnsIs`, `RangedIs`); `Sum` wraps around at each step to what the total
wraps around to (`WrapOnce`, by `Residue`, which derives what is needed of `%`).

`Tools_proofs`, of profiling: `ProfilesCorrect` (`[]ProfilesKeep`). `BoundInv` says how many profiles there
are, `OwnerInv` to whom a collector that runs belongs, `StepInv` what a Start or a Stop has done at the statement
it has reached, `PresetInv` that a collector which no profile has had is as the application left it, and
`UndoInv` that a profile which is stopped has ended what it started and put back the
rate of the memory profile.

`Tools_proofs`, of the streams: `StreamsCorrect` (`[]StreamsAgree`), for streams of any length and
pipelines of any number of stages. `StreamInv` says which stages there can be and that a
`Limit` which no run has used counts from its bound. The core is that the loop
over the elements, which takes each one through all the stages, gives what the stages
give one after the other (`FusedInv`, `FusedRun`), and that an operation which leaves the
loop early has seen what decides its answer (`StopFirst`, `StopAgrees`). The loops are recursive
functions; `Recursion` says that they exist, from the library's well-founded recursion,
and the inductions are over sets of numbers (`Upto`), as a theorem with an operator
as its parameter cannot be used.

Only model-checked: liveness, which is out of reach of the prover, as is ENABLED.

## 7. Not modelled

**HTTP transport.** The code as it is handles no request: `New` copies the handler out of
a router that does not exist yet (server.go:121-147), so that `http.Server` gets a nil
`*routeWrapper`; the pool of contexts has no `New` function; the interceptors a client is
configured with are never called. A model would describe a program that does not run.

**Of the timers**: callbacks that use the scheduler they run in, the restart of `tick` after
a panic, a second `Shutdown`, what the pool does with a callback.

**No state whose order matters**: the stack (no exported constructor, no user) and the set,
`tools/sync` but for the WaitGroup of the pool, `math`, `parse`, `strutil`, `errors`,
`llog`, `transport/binding`, `serialize`, the code generators under `cmd` and the vendored
definitions under `third_party`. `Reduce` and `SliceGen` of the slice helpers are loops
over a function of the caller. Memory, wall-clock durations, the text of statements
and of dumps are abstracted everywhere.
