--------------------------- MODULE ExpirationMap ---------------------------
(***************************************************************************)
(* The map with deadlines of tools/collection/expirationmap.go: a          *)
(* ConcurrentMap with the values, whose other methods it exposes, a second *)
(* one with the deadlines, and a goroutine that removes what is due.       *)
(*                                                                         *)
(* The map with the values is the one at address Inner of ConcurrentMap,   *)
(* shared with the goroutines that use and merge it.  The map with the     *)
(* deadlines is private, and each method of it is one action.              *)
(***************************************************************************)
EXTENDS ConcurrentMap

CONSTANTS
    Inner,      \* the address of the embedded map
    Cleaner,    \* the goroutine of the cleaner, one of Clients
    Durations,  \* arguments of SetExpired
    MaxTime,    \* the last instant
    MaxCalls    \* bound on the calls of the other goroutines

ASSUME ExpirationAssumption ==
    /\ Inner \in Addrs /\ Cleaner \in Clients /\ None \notin Keys
    /\ Durations \subseteq Nat \ {0}
    /\ MaxTime \in Nat /\ MaxCalls \in Nat

VARIABLES
    expired,    \* the deadlines
    now,        \* the clock
    destroyed,  \* e.stop is closed
    crashed,    \* a Get has exhausted the stack: the process is gone
    cleaner,    \* "select", "keys", "delete", "forget" or "exit"
    todo,       \* the keys the cleaner has not looked at yet
    current,    \* the key it removes, or None
    setting,    \* clients between the two writes of SetExpired
    timed,      \* keys whose value was written by SetExpired
    raced,      \* keys whose last SetExpired overlapped their removal by the cleaner
    calls

users == Clients \ {Cleaner}
cleanVars == <<cleaner, todo, current>>
histVars  == <<setting, timed, raced>>
vars == <<mapVars, expired, now, destroyed, crashed, cleanVars, histVars, calls>>

TypeOK ==
    /\ MapTypeOK
    /\ expired \in MapsOf(Keys, 0..MaxTime)
    /\ now \in 0..MaxTime
    /\ destroyed \in BOOLEAN /\ crashed \in BOOLEAN
    /\ cleaner \in {"select", "keys", "delete", "forget", "exit"}
    /\ todo \subseteq Keys
    /\ current \in Keys \cup {None}
    /\ cleaner \in {"delete", "forget"} <=> current # None
    /\ setting \subseteq users
    /\ timed \subseteq DOMAIN content[Inner]
    /\ raced \subseteq Keys
    /\ calls \in 0..MaxCalls

\* NewExpirationMap, with an empty map or with WithConcurrentMap.
Init ==
    /\ MapInit
    /\ expired = EmptyMap /\ now = 0
    /\ destroyed = FALSE /\ crashed = FALSE
    /\ cleaner = "select" /\ todo = {} /\ current = None
    /\ setting = {} /\ timed = {} /\ raced = {}
    /\ calls = 0

Counted == calls < MaxCalls /\ calls' = calls + 1

-----------------------------------------------------------------------------
\* The users.

\* A call of a method of ConcurrentMap, on either map.
UserCall(c) ==
    /\ Counted /\ StartCall(c)
    /\ UNCHANGED <<expired, now, destroyed, crashed, cleanVars, histVars>>

\* Keys that the cleaner and a SetExpired are at work on at the same time.
SettingKeys == UNION {DOMAIN job[c].data : c \in setting}

\* Mutant: the value is stored for good, the deadline is lost.
SetExpired_NoDeadline(c, k, v, d) ==
    /\ now + d <= MaxTime
    /\ Counted /\ Set(c, Inner, k, v)
    /\ setting' = setting \cup {c}
    /\ raced' = IF current = k THEN raced \cup {k} ELSE raced \ {k}
    /\ UNCHANGED <<expired, now, destroyed, crashed, cleanVars, timed>>

\* SetExpired: the deadline is stored, then the value.
SetExpired(c, k, v, d) ==
    /\ now + d <= MaxTime
    /\ Counted /\ Set(c, Inner, k, v)
    /\ expired' = MapSet(expired, k, now + d)
    /\ setting' = setting \cup {c}
    /\ raced' = IF current = k THEN raced \cup {k} ELSE raced \ {k}
    /\ UNCHANGED <<now, destroyed, crashed, cleanVars, timed>>

\* Get calls itself before anything else.
Get(c) ==
    /\ Idle(c) /\ Counted
    /\ crashed' = TRUE
    /\ UNCHANGED <<mapVars, expired, now, destroyed, cleanVars, histVars>>

\* Destroy.  A second one panics in its caller, which changes nothing here.
Destroy(c) ==
    /\ Idle(c) /\ Counted
    /\ destroyed' = TRUE
    /\ UNCHANGED <<mapVars, expired, now, crashed, cleanVars, histVars>>

\* A step inside a method of ConcurrentMap, of a user or of the cleaner.
Inside(c) ==
    /\ Proceed(c)
    /\ LET written == IF job[c].dst # Inner THEN {}
                      ELSE {k \in DOMAIN content'[Inner] :
                               k \in DOMAIN job[c].data \/ k \in job'[c].copied \ job[c].copied}
       IN IF content' = content /\ job'[c] # NoJob
          THEN UNCHANGED <<timed, setting>>
          ELSE /\ timed' = (IF c \in setting THEN timed \cup written ELSE timed \ written)
                              \cap DOMAIN content'[Inner]
               /\ setting' = IF job'[c] = NoJob THEN setting \ {c} ELSE setting
    /\ UNCHANGED <<expired, now, destroyed, crashed, cleanVars, raced, calls>>

Tick ==
    /\ now < MaxTime /\ now' = now + 1
    /\ UNCHANGED <<mapVars, expired, destroyed, crashed, cleanVars, histVars, calls>>

-----------------------------------------------------------------------------
\* The cleaner.

CleanerStop ==
    /\ cleaner = "select" /\ destroyed
    /\ cleaner' = "exit"
    /\ UNCHANGED <<mapVars, expired, now, destroyed, crashed, todo, current, histVars, calls>>

\* The ticker, and e.expired.Keys().
CleanerTick ==
    /\ cleaner = "select"
    /\ cleaner' = "keys" /\ todo' = DOMAIN expired
    /\ UNCHANGED <<mapVars, expired, now, destroyed, crashed, current, histVars, calls>>

CleanerEnd ==
    /\ cleaner = "keys" /\ todo = {}
    /\ cleaner' = "select"
    /\ UNCHANGED <<mapVars, expired, now, destroyed, crashed, todo, current, histVars, calls>>

\* Mutant: an entry is removed before its deadline.
Due_Early(k) == MapHas(expired, k) /\ expired[k] <= now + 1

\* The entry has a deadline that is not after now.
Due(k) == MapHas(expired, k) /\ expired[k] <= now

\* The deadline of the next key is read; if it is due, e.Delete is called.
CleanerCheck(k) ==
    /\ cleaner = "keys" /\ k \in todo
    /\ todo' = todo \ {k}
    /\ IF Due(k)
       THEN /\ current' = k /\ cleaner' = "delete"
            /\ Delete(Cleaner, Inner, k)
            /\ raced' = IF k \in SettingKeys THEN raced \cup {k} ELSE raced
       ELSE UNCHANGED <<mapVars, current, cleaner, raced>>
    /\ UNCHANGED <<expired, now, destroyed, crashed, setting, timed, calls>>

\* e.Delete has returned.
CleanerDeleted ==
    /\ cleaner = "delete" /\ Idle(Cleaner)
    /\ cleaner' = "forget"
    /\ UNCHANGED <<mapVars, expired, now, destroyed, crashed, todo, current, histVars, calls>>

\* Mutant: the deadline is kept.
CleanerForget_Keeps ==
    /\ cleaner = "forget"
    /\ cleaner' = "keys" /\ current' = None
    /\ UNCHANGED <<mapVars, expired, now, destroyed, crashed, todo, histVars, calls>>

\* e.expired.Delete.
CleanerForget ==
    /\ cleaner = "forget"
    /\ expired' = MapDelete(expired, current)
    /\ cleaner' = "keys" /\ current' = None
    /\ UNCHANGED <<mapVars, now, destroyed, crashed, todo, histVars, calls>>

CleanerStep ==
    \/ CleanerTick \/ CleanerEnd \/ (\E k \in Keys : CleanerCheck(k))
    \/ CleanerDeleted \/ CleanerForget \/ CleanerStop

UserStep(c) ==
    \/ UserCall(c) \/ Get(c) \/ Destroy(c)
    \/ \E k \in Keys, v \in Vals, d \in Durations : SetExpired(c, k, v, d)

Next ==
    /\ ~crashed
    /\ \/ \E c \in users : UserStep(c)
       \/ \E c \in Clients : Inside(c)
       \/ Tick
       \/ CleanerStep

Spec == Init /\ [][Next]_vars

\* Time passes, the cleaner runs, and whoever waits for a mutex gets it in
\* turn: a pending Lock keeps new readers out, and mutexes are handed over.
FairSpec ==
    /\ Spec
    /\ WF_vars(~crashed /\ Tick) /\ WF_vars(~crashed /\ CleanerStep)
    /\ \A c \in Clients : SF_vars(~crashed /\ Inside(c))

-----------------------------------------------------------------------------
\* Properties.

\* Nothing that SetExpired stored disappears through the cleaner before its
\* deadline, unless its last SetExpired overlapped a removal of the key: between
\* the cleaner's check and the end of its Delete the code removes a renewed
\* value early.  The next SetExpired of the key that meets no removal is safe.
NeverEarly ==
    [][\A k \in timed \ raced :
          k \notin timed' /\ job[Cleaner].del = {k} /\ job'[Cleaner] = NoJob => expired[k] <= now]_vars

\* What SetExpired stored has a deadline, so that it does not stay for ever,
\* unless the cleaner was at work on its key between the two writes.
NoOrphan == \A k \in timed \ raced : MapHas(expired, k)

\* Every deadline is removed in the end, with its value before it, until
\* Destroy ends the cleaner.
Cleaned ==
    \A k \in Keys : MapHas(expired, k) ~> ~MapHas(expired, k) \/ destroyed \/ crashed

\* Every call of a user returns, merges in both directions included.
CallsReturn == \A c \in users : ~Idle(c) ~> Idle(c) \/ crashed

\* Types, and: the deadlines cover the values.
ExpirationInv == TypeOK /\ NoOrphan

=============================================================================
