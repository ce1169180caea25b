------------------------------ MODULE DBCache ------------------------------
(***************************************************************************)
(* The mirror of a database table in memory of tools/cache/dbcache.go.     *)
(* Every operation changes the table first and the map in a second step,   *)
(* an update in a third one, with nothing to keep the steps of two         *)
(* goroutines apart; Load puts a new map in the place of the old one.      *)
(*                                                                         *)
(* One action is one statement sent to the database or one method of the   *)
(* map.  V points to a struct with a primary key, which the database       *)
(* assigns, and the fields in Fields, all exported and with a db tag.      *)
(***************************************************************************)
EXTENDS Integers, FiniteSets, MapOps

CONSTANTS
    Clients,     \* goroutines that use the cache
    Fields,      \* fields with a db tag, save the primary key
    UpdateTags,  \* the sets of fields that may have "update" in their tag
    Vals,        \* values of a field
    MaxKeys,     \* bound on the rows ever inserted
    MaxOps,      \* bound on the operations started
    OptionSets,  \* the sets of options NewDBCache may be called with
    SignedKeys   \* whether the primary key may be a signed integer, or may not

Options == {"select", "scanner", "insert", "update", "delete", "table", "conn"}

ASSUME CacheAssumption ==
    /\ MaxKeys \in Nat \ {0} /\ MaxOps \in Nat
    /\ Vals # {}
    /\ UpdateTags \subseteq SUBSET Fields
    /\ OptionSets \subseteq SUBSET Options
    /\ SignedKeys \subseteq BOOLEAN

Keys == 1..MaxKeys
Zero == 0           \* the primary key of a struct that was not given one
Rows == [Fields -> Vals]

VARIABLES
    opts,        \* the options of the cache
    updateNames, \* the fields an update sets
    signedKey,   \* the primary key is a signed integer
    db,          \* the table
    nextId,      \* the next primary key
    loaded,      \* d.m is not nil
    cache,       \* d.m
    pc,          \* where each client is
    op,          \* key, row and intermediate result of its operation
    started,     \* how many operations have been started
    spoiled      \* keys whose operations overlapped, see "Bookkeeping"

configVars == <<opts, updateNames, signedKey>>
vars == <<configVars, db, nextId, loaded, cache, pc, op, started, spoiled>>

Pcs == {"idle", "loaded", "inserted", "updated", "merging", "deleted", "panic"}

NoRow == [f \in Fields |-> CHOOSE v \in Vals : TRUE]
NoOp  == [key |-> Zero, row |-> NoRow, old |-> NoRow, rows |-> EmptyMap]

\* The keys that rows of the table and of the map may have.
TableKeys == 1..nextId - 1
CacheKeys == 0..nextId - 1

TypeOK ==
    /\ opts \in OptionSets /\ updateNames \in UpdateTags /\ signedKey \in SignedKeys
    /\ db \in MapsOf(TableKeys, Rows)
    /\ nextId \in 1..MaxKeys + 1
    /\ loaded \in BOOLEAN
    /\ cache \in MapsOf(CacheKeys, Rows)
    /\ "insert" \in opts => ~MapHas(cache, Zero)
    /\ pc \in [Clients -> Pcs]
    /\ \A c \in Clients :
          /\ op[c].key \in 0..MaxKeys
          /\ op[c].row \in Rows /\ op[c].old \in Rows
          /\ op[c].rows \in MapsOf(Keys, Rows)
    /\ started \in 0..MaxOps
    /\ spoiled \subseteq Keys

-----------------------------------------------------------------------------
\* NewDBCache.

\* Mutant: a database is required only if nothing is given.
Accepted_Any(o) ==
    \/ o \cap {"select", "scanner", "insert", "update", "delete"} # {}
    \/ {"table", "conn"} \subseteq o

\* A function that was not given is generated, which takes a table and a
\* connection.  A row scanner passes for a select function.
Accepted(o) ==
    \/ {"insert", "update", "delete"} \subseteq o /\ o \cap {"select", "scanner"} # {}
    \/ {"table", "conn"} \subseteq o

\* genUpdateFunc repeats a placeholder len(updateKeys)-1 times.
Generated(o, tags) == "update" \in o \/ tags # {}

Init ==
    /\ opts \in {o \in OptionSets : Accepted(o)}
    /\ updateNames \in {tags \in UpdateTags : Generated(opts, tags)}
    /\ signedKey \in SignedKeys
    /\ db \in {EmptyMap} \cup [{1} -> Rows]
    /\ nextId = Cardinality(DOMAIN db) + 1
    /\ loaded = FALSE /\ cache = EmptyMap
    /\ pc = [c \in Clients |-> "idle"]
    /\ op = [c \in Clients |-> NoOp]
    /\ started = 0 /\ spoiled = {}

\* A generated function needs the connection.
Callable(fn) == fn \in opts \/ "conn" \in opts

-----------------------------------------------------------------------------
\* Bookkeeping: the keys that two operations changed at the same time, or that
\* were changed behind the back of a Load.

Writers(k) == {c \in Clients : pc[c] \in {"inserted", "updated", "merging", "deleted"} /\ op[c].key = k}
Loaders    == {c \in Clients : pc[c] = "loaded"}

\* A client writes key k to the database.
Spoil(c, k) ==
    spoiled' = IF (Writers(k) \cup Loaders) \ {c} # {} THEN spoiled \cup ({k} \cap Keys)
                                                       ELSE spoiled

-----------------------------------------------------------------------------
\* The operations.

Go(c, where) == pc' = [pc EXCEPT ![c] = where]

\* Every operation starts in the database, which may refuse it: then the call
\* returns an error and nothing has changed.
Start(c) ==
    /\ pc[c] = "idle" /\ started < MaxOps
    /\ started' = started + 1

Refuse(c, fn) ==
    /\ Start(c) /\ Callable(fn)
    /\ UNCHANGED <<configVars, db, nextId, loaded, cache, pc, op, spoiled>>

\* A generated function without a connection.
NilConn(c, fn) ==
    /\ Start(c) /\ ~Callable(fn)
    /\ Go(c, "panic")
    /\ UNCHANGED <<configVars, db, nextId, loaded, cache, op, spoiled>>

\* The rows that selectFn returns.  The generated one scans each row and keeps
\* none of them.
Selected == IF "select" \in opts THEN db ELSE EmptyMap

LoadSelect(c) ==
    /\ Start(c) /\ Callable("select")
    /\ IF "select" \notin opts /\ "scanner" \notin opts /\ DOMAIN db # {}
       THEN Go(c, "panic") /\ UNCHANGED <<op, spoiled>>
       ELSE /\ op' = [op EXCEPT ![c] = [NoOp EXCEPT !.rows = Selected]]
            /\ Go(c, "loaded")
            /\ spoiled' = IF Loaders # {} THEN spoiled
                          ELSE {k \in spoiled : Writers(k) # {}}
                                 \cup (DOMAIN db \ DOMAIN Selected)
    /\ UNCHANGED <<configVars, db, nextId, loaded, cache>>

\* d.m = NewConcurrentMapFromMap(m)
LoadStore(c) ==
    /\ pc[c] = "loaded"
    /\ loaded' = TRUE
    /\ cache' = op[c].rows
    /\ Go(c, "idle") /\ op' = [op EXCEPT ![c] = NoOp]
    /\ UNCHANGED <<configVars, db, nextId, started, spoiled>>

\* INSERT adds a row.
AddRow(row) ==
    /\ nextId <= MaxKeys
    /\ db' = MapSet(db, nextId, row)
    /\ nextId' = nextId + 1

\* INSERT, and the primary key that is set in the struct.  The generated
\* function ignores that it may not learn the key, and can set no other than a
\* signed integer.
InsertDb(c, row) ==
    /\ Start(c) /\ Callable("insert")
    /\ AddRow(row)
    /\ \E known \in IF "insert" \in opts THEN {TRUE} ELSE {signedKey, FALSE} :
          /\ op' = [op EXCEPT ![c] = [NoOp EXCEPT !.row = row, !.key = IF known THEN nextId ELSE Zero]]
          /\ IF known THEN Spoil(c, nextId) ELSE spoiled' = spoiled \cup {nextId}
    /\ Go(c, "inserted")
    /\ UNCHANGED <<configVars, loaded, cache>>

\* The row is in the table when SetInt panics in the generated function.
InsertPanic(c, row) ==
    /\ Start(c) /\ Callable("insert") /\ "insert" \notin opts
    /\ ~signedKey
    /\ AddRow(row)
    /\ spoiled' = spoiled \cup {nextId}
    /\ Go(c, "panic")
    /\ UNCHANGED <<configVars, loaded, cache, op>>

\* d.m.Set, a call on a nil interface before the first Load.
InsertCache(c) ==
    /\ pc[c] = "inserted"
    /\ IF ~loaded THEN Go(c, "panic") /\ UNCHANGED <<cache, op>>
       ELSE /\ cache' = MapSet(cache, op[c].key, op[c].row)
            /\ Go(c, "idle") /\ op' = [op EXCEPT ![c] = NoOp]
    /\ UNCHANGED <<configVars, db, nextId, loaded, started, spoiled>>

\* What UPDATE makes of a row, and update of the cached value: the fields
\* with "update" in their tag are the new ones.
Merged(old, new) == [f \in Fields |-> IF f \in updateNames THEN new[f] ELSE old[f]]

\* UPDATE, of no row if the key is not there.
UpdateDb(c, k, row) ==
    /\ Start(c) /\ Callable("update")
    /\ db' = IF MapHas(db, k)
             THEN MapSet(db, k, [f \in Fields |-> IF f \in updateNames THEN row[f] ELSE db[k][f]])
             ELSE db
    /\ op' = [op EXCEPT ![c] = [NoOp EXCEPT !.key = k, !.row = row]]
    /\ Spoil(c, k)
    /\ Go(c, "updated")
    /\ UNCHANGED <<configVars, nextId, loaded, cache>>

UpdateGet(c) ==
    /\ pc[c] = "updated"
    /\ LET k == op[c].key IN
       CASE ~loaded -> Go(c, "panic") /\ UNCHANGED op
         [] loaded /\ ~MapHas(cache, k) -> Go(c, "idle") /\ op' = [op EXCEPT ![c] = NoOp]
         [] OTHER -> Go(c, "merging") /\ op' = [op EXCEPT ![c].old = cache[k]]
    /\ UNCHANGED <<configVars, db, nextId, loaded, cache, started, spoiled>>

UpdateSet(c) ==
    /\ pc[c] = "merging"
    /\ cache' = MapSet(cache, op[c].key, Merged(op[c].old, op[c].row))
    /\ Go(c, "idle") /\ op' = [op EXCEPT ![c] = NoOp]
    /\ UNCHANGED <<configVars, db, nextId, loaded, started, spoiled>>

DeleteDb(c, k) ==
    /\ Start(c) /\ Callable("delete")
    /\ db' = MapDelete(db, k)
    /\ op' = [op EXCEPT ![c] = [NoOp EXCEPT !.key = k]]
    /\ Spoil(c, k)
    /\ Go(c, "deleted")
    /\ UNCHANGED <<configVars, nextId, loaded, cache>>

\* Mutant: the map is left alone.
DeleteCache_Forgets(c) ==
    /\ pc[c] = "deleted"
    /\ Go(c, "idle") /\ op' = [op EXCEPT ![c] = NoOp]
    /\ UNCHANGED <<configVars, db, nextId, loaded, cache, started, spoiled>>

DeleteCache(c) ==
    /\ pc[c] = "deleted"
    /\ IF ~loaded THEN Go(c, "panic") /\ UNCHANGED <<cache, op>>
       ELSE /\ cache' = MapDelete(cache, op[c].key)
            /\ Go(c, "idle") /\ op' = [op EXCEPT ![c] = NoOp]
    /\ UNCHANGED <<configVars, db, nextId, loaded, started, spoiled>>

\* Get, GetBatch and GetAll: one method of the map, or of nil.
Read(c) ==
    /\ Start(c)
    /\ IF loaded THEN UNCHANGED pc ELSE Go(c, "panic")
    /\ UNCHANGED <<configVars, db, nextId, loaded, cache, op, spoiled>>

Next ==
    \E c \in Clients :
        \/ \E fn \in {"select", "insert", "update", "delete"} : Refuse(c, fn) \/ NilConn(c, fn)
        \/ LoadSelect(c) \/ LoadStore(c)
        \/ \E row \in Rows : InsertDb(c, row) \/ InsertPanic(c, row)
        \/ InsertCache(c)
        \/ \E k \in DOMAIN db \cup DOMAIN cache, row \in Rows : UpdateDb(c, k, row)
        \/ UpdateGet(c) \/ UpdateSet(c)
        \/ \E k \in DOMAIN db \cup DOMAIN cache : DeleteDb(c, k)
        \/ DeleteCache(c)
        \/ Read(c)

Spec == Init /\ [][Next]_vars

-----------------------------------------------------------------------------
\* Properties.

\* Between operations a loaded cache is the table: for every key whose
\* operations did not overlap each other or a Load since the last Load, and
\* whose insert learned its key, the map has the row if the table has it, and
\* the same one.  A Load repairs the keys that nobody is working on, unless
\* the select function is the generated one, which returns nothing.
Agreement ==
    loaded /\ Loaders = {} =>
        \A k \in Keys \ spoiled : Writers(k) = {} =>
            /\ MapHas(cache, k) <=> MapHas(db, k)
            /\ MapHas(db, k) => cache[k] = db[k]

\* Once it was loaded a cache with accepted options does not panic, except in
\* two calls: another Load, when its select function has to be generated from
\* a connection or a row scanner that is not there, and the insert of a row by
\* the generated function when the primary key is not a signed integer.
LoadPanics   == nextId' = nextId /\ "select" \notin opts /\ ~({"scanner", "conn"} \subseteq opts)
InsertPanics == nextId' # nextId /\ "insert" \notin opts /\ ~signedKey

LoadedIsSafe ==
    [][\A c \in Clients : pc[c] # "panic" /\ pc'[c] = "panic" /\ loaded =>
           pc[c] = "idle" /\ (LoadPanics \/ InsertPanics)]_vars

\* Types, and: the map agrees with the table.
CacheInv == TypeOK /\ Agreement

=============================================================================
