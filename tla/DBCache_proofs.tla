--------------------------- MODULE DBCache_proofs ---------------------------
(***************************************************************************)
(* Proofs about DBCache for any goroutines, tables and options:            *)
(*   LoadedIsSafeCorrect  in which two calls a loaded cache may panic;     *)
(*   CacheCorrect         types, and: the map agrees with the table        *)
(*                        wherever operations did not overlap.             *)
(***************************************************************************)
EXTENDS DBCache, TLAPS, FiniteSetTheorems

-----------------------------------------------------------------------------
\* Maps.

LEMMA MapForm ==
  ASSUME NEW Ks, NEW Vs, NEW m
  PROVE  m \in MapsOf(Ks, Vs) <=> DOMAIN m \subseteq Ks /\ m \in [DOMAIN m -> Vs]
BY DEF MapsOf

LEMMA MapGrows ==
  ASSUME NEW Ks, NEW Ls, NEW Vs, Ks \subseteq Ls, NEW m \in MapsOf(Ks, Vs)
  PROVE  m \in MapsOf(Ls, Vs)
BY MapForm

LEMMA EmptyIsMap ==
  ASSUME NEW Ks, NEW Vs
  PROVE  EmptyMap \in MapsOf(Ks, Vs) /\ DOMAIN EmptyMap = {}
<1>1. DOMAIN EmptyMap = {} /\ EmptyMap \in [{} -> Vs]
  BY DEF EmptyMap
<1> QED
  BY <1>1, MapForm

LEMMA SetIsMap ==
  ASSUME NEW Ks, NEW Vs, NEW m \in MapsOf(Ks, Vs), NEW k \in Ks, NEW v \in Vs
  PROVE  /\ MapSet(m, k, v) \in MapsOf(Ks, Vs)
         /\ DOMAIN MapSet(m, k, v) = DOMAIN m \cup {k}
         /\ MapSet(m, k, v)[k] = v
         /\ \A x \in DOMAIN m : x # k => MapSet(m, k, v)[x] = m[x]
<1> DEFINE s == MapSet(m, k, v)
<1>1. DOMAIN m \subseteq Ks /\ m \in [DOMAIN m -> Vs]
  BY MapForm
<1>2. /\ DOMAIN s = DOMAIN m \cup {k} /\ s[k] = v
      /\ \A x \in DOMAIN m : x # k => s[x] = m[x]
  BY DEF MapSet
<1>3. s \in [DOMAIN s -> Vs]
  BY <1>1 DEF MapSet
<1>4. DOMAIN s \subseteq Ks
  BY <1>1, <1>2
<1> QED
  BY <1>2, <1>3, <1>4, MapForm

LEMMA DeleteIsMap ==
  ASSUME NEW Ks, NEW Vs, NEW m \in MapsOf(Ks, Vs), NEW k
  PROVE  /\ MapDelete(m, k) \in MapsOf(Ks, Vs)
         /\ DOMAIN MapDelete(m, k) = DOMAIN m \ {k}
         /\ \A x \in DOMAIN m : x # k => MapDelete(m, k)[x] = m[x]
<1> DEFINE s == MapDelete(m, k)
<1>1. DOMAIN m \subseteq Ks /\ m \in [DOMAIN m -> Vs]
  BY MapForm
<1>2. /\ DOMAIN s = DOMAIN m \ {k}
      /\ \A x \in DOMAIN m : x # k => s[x] = m[x]
  BY DEF MapDelete
<1>3. s \in [DOMAIN s -> Vs]
  BY <1>1 DEF MapDelete
<1>4. DOMAIN s \subseteq Ks
  BY <1>1, <1>2
<1> QED
  BY <1>2, <1>3, <1>4, MapForm

\* An update with what a row was updated with changes nothing.
LEMMA MergeAgain ==
  ASSUME NEW old \in Rows, NEW new \in Rows
  PROVE  Merged(old, new) \in Rows /\ Merged(Merged(old, new), new) = Merged(old, new)
BY DEF Merged, Rows

-----------------------------------------------------------------------------
\* The inductive invariant.

WriterPcs == {"inserted", "updated", "merging", "deleted"}

Ops == [key : 0..MaxKeys, row : Rows, old : Rows, rows : MapsOf(Keys, Rows)]

\* What an operation in progress has in hand.
InHand(c) ==
    /\ pc[c] = "loaded" => op[c].rows \in MapsOf(TableKeys, Rows)
    /\ pc[c] \in WriterPcs => op[c].key \in CacheKeys
    /\ pc[c] \in WriterPcs /\ "insert" \in opts => op[c].key # Zero
    /\ "select" \notin opts /\ pc[c] = "loaded" => op[c].rows = EmptyMap

TypeInv ==
    /\ TypeOK
    /\ op \in [Clients -> Ops]
    /\ Accepted(opts)
    /\ \A c \in Clients : InHand(c)

\* c is between its write of key k to the table and the one to the map.
Works(c, k) == pc[c] \in WriterPcs /\ op[c].key = k

\* Map m has of key k what the table has.
Agrees(m, k) ==
    /\ MapHas(m, k) <=> MapHas(db, k)
    /\ MapHas(db, k) => m[k] = db[k]

\* The last step of c will make the map agree: what the table has of key k is
\* what c wrote, an update being the merge of its row into what the map has.
Written(c, k) ==
    /\ pc[c] = "inserted" => MapHas(db, k) /\ db[k] = op[c].row
    /\ pc[c] = "updated" =>
          /\ MapHas(db, k) => db[k] = Merged(db[k], op[c].row)
          /\ loaded => (MapHas(cache, k) <=> MapHas(db, k))
          /\ loaded /\ MapHas(db, k) => db[k] = Merged(cache[k], op[c].row)
    /\ pc[c] = "merging" => MapHas(db, k) /\ db[k] = Merged(op[c].old, op[c].row)
    /\ pc[c] = "deleted" => ~MapHas(db, k)

\* A key whose operations did not overlap: one client works on it at most, a
\* Load has seen what is still in the table, and between operations the map
\* agrees.
Settled(k) ==
    /\ \A c, d \in Clients : Works(c, k) /\ Works(d, k) => c = d
    /\ \A c \in Clients : pc[c] = "loaded" => Agrees(op[c].rows, k)
    /\ \A c \in Clients : Works(c, k) => Written(c, k)
    /\ loaded /\ (\A c \in Clients : pc[c] # "loaded" /\ ~Works(c, k)) => Agrees(cache, k)

CacheIInv == \A k \in Keys \ spoiled : Settled(k)

-----------------------------------------------------------------------------
\* Types.

LEMMA KeysKept ==
  ASSUME nextId' = nextId
  PROVE  TableKeys' = TableKeys /\ CacheKeys' = CacheKeys
BY DEF TableKeys, CacheKeys

LEMMA KeysGrow ==
  ASSUME nextId \in Nat \ {0}, nextId' = nextId + 1
  PROVE  /\ TableKeys \subseteq TableKeys' /\ nextId \in TableKeys'
         /\ CacheKeys \subseteq CacheKeys' /\ nextId \in CacheKeys' /\ Zero \in CacheKeys'
<1>1. TableKeys' = 1..nextId /\ CacheKeys' = 0..nextId
  BY DEF TableKeys, CacheKeys
<1>2. TableKeys = 1..nextId - 1 /\ CacheKeys = 0..nextId - 1
  BY DEF TableKeys, CacheKeys
<1> QED
  BY <1>1, <1>2 DEF Zero

LEMMA KeysBound ==
  ASSUME nextId \in Nat
  PROVE  /\ TableKeys \subseteq CacheKeys /\ Zero \notin TableKeys /\ nextId \notin CacheKeys
         /\ nextId <= MaxKeys + 1 => TableKeys \subseteq Keys /\ CacheKeys \subseteq 0..MaxKeys
BY CacheAssumption DEF TableKeys, CacheKeys, Zero, Keys

LEMMA NoOpIsOp ==
  /\ NoOp \in Ops
  /\ \A k \in 0..MaxKeys, row \in Rows :
        /\ [NoOp EXCEPT !.key = k] \in Ops
        /\ [NoOp EXCEPT !.row = row, !.key = k] \in Ops
        /\ [NoOp EXCEPT !.key = k, !.row = row] \in Ops
  /\ \A m \in MapsOf(Keys, Rows) : [NoOp EXCEPT !.rows = m] \in Ops
<1>1. NoRow \in Rows
  BY CacheAssumption DEF NoRow, Rows
<1>2. EmptyMap \in MapsOf(Keys, Rows)
  BY EmptyIsMap
<1>3. Zero \in 0..MaxKeys
  BY CacheAssumption DEF Zero
<1> QED
  BY <1>1, <1>2, <1>3 DEF NoOp, Ops

\* The parts of the state that a step of client c may change.
LEMMA TypeFrom ==
  ASSUME TypeInv, NEW c \in Clients, UNCHANGED configVars,
         nextId' = nextId \/ nextId' = nextId + 1, nextId' \in 1..MaxKeys + 1,
         db' \in MapsOf(TableKeys', Rows), loaded' \in BOOLEAN,
         cache' \in MapsOf(CacheKeys', Rows),
         "insert" \in opts => ~MapHas(cache', Zero),
         pc' \in [Clients -> Pcs], op' \in [Clients -> Ops],
         \A d \in Clients : d # c => pc'[d] = pc[d] /\ op'[d] = op[d],
         InHand(c)', started' \in 0..MaxOps, spoiled' \subseteq Keys
  PROVE  TypeInv'
<1>1. opts' = opts /\ updateNames' = updateNames /\ signedKey' = signedKey
  BY DEF configVars
<1>2. \A d \in Clients : /\ op'[d].key \in 0..MaxKeys /\ op'[d].row \in Rows
                         /\ op'[d].old \in Rows /\ op'[d].rows \in MapsOf(Keys, Rows)
  BY DEF Ops
<1>3. TypeOK'
  BY <1>1, <1>2 DEF TypeInv, TypeOK
<1>4. nextId \in Nat \ {0}
  BY DEF TypeInv, TypeOK
<1>5. TableKeys \subseteq TableKeys' /\ CacheKeys \subseteq CacheKeys'
  <2>1. CASE nextId' = nextId
    BY <2>1, KeysKept
  <2>2. CASE nextId' = nextId + 1
    BY <1>4, <2>2, KeysGrow
  <2> QED
    BY <2>1, <2>2
<1>6. ASSUME NEW d \in Clients, d # c PROVE InHand(d)'
  <2>1. InHand(d) /\ pc'[d] = pc[d] /\ op'[d] = op[d]
    BY <1>6 DEF TypeInv
  <2>2. pc[d] = "loaded" => op[d].rows \in MapsOf(TableKeys', Rows)
    <3>1. ASSUME pc[d] = "loaded" PROVE op[d].rows \in MapsOf(TableKeys', Rows)
      <4>1. op[d].rows \in MapsOf(TableKeys, Rows)
        BY <2>1, <3>1 DEF InHand
      <4> QED
        BY <1>5, <4>1, MapGrows
    <3> QED
      BY <3>1
  <2> QED
    BY <1>1, <1>5, <2>1, <2>2 DEF InHand
<1> QED
  BY <1>1, <1>3, <1>6 DEF TypeInv, Accepted

LEMMA TypeInit == Init => TypeInv
<1> SUFFICES ASSUME Init
             PROVE  TypeInv
  OBVIOUS
<1>0. MaxKeys \in Nat \ {0} /\ MaxOps \in Nat
  BY CacheAssumption
<1>1. db \in MapsOf(TableKeys, Rows) /\ nextId \in 1..MaxKeys + 1
  <2>1. CASE db = EmptyMap
    <3>1. DOMAIN db = {} /\ nextId = 1
      BY <2>1, EmptyIsMap, FS_EmptySet DEF Init
    <3> QED
      BY <1>0, <2>1, <3>1, EmptyIsMap
  <2>2. CASE db \in [{1} -> Rows]
    <3>1. DOMAIN db = {1} /\ nextId = 2
      <4>1. DOMAIN db = {1} /\ nextId = Cardinality(DOMAIN db) + 1
        BY <2>2 DEF Init
      <4>2. Cardinality({1}) = 1
        BY FS_Singleton
      <4> QED
        BY <4>1, <4>2
    <3>2. TableKeys = {1}
      BY <3>1 DEF TableKeys
    <3>3. db \in MapsOf(TableKeys, Rows)
      BY <2>2, <3>1, <3>2, MapForm
    <3> QED
      BY <1>0, <3>1, <3>3
  <2> QED
    BY <2>1, <2>2 DEF Init
<1>2. cache \in MapsOf(CacheKeys, Rows) /\ ~MapHas(cache, Zero)
  BY EmptyIsMap DEF Init, MapHas
<1>3. op \in [Clients -> Ops]
  BY NoOpIsOp DEF Init
<1>4. \A d \in Clients : /\ op[d].key \in 0..MaxKeys /\ op[d].row \in Rows
                         /\ op[d].old \in Rows /\ op[d].rows \in MapsOf(Keys, Rows)
  BY <1>3 DEF Ops
<1>5. /\ opts \in OptionSets /\ updateNames \in UpdateTags /\ signedKey \in SignedKeys
      /\ Accepted(opts)
      /\ loaded \in BOOLEAN /\ pc \in [Clients -> Pcs]
      /\ started \in 0..MaxOps /\ spoiled \subseteq Keys
  <2>1. opts \in OptionSets /\ Accepted(opts)
    BY DEF Init
  <2>2. updateNames \in UpdateTags /\ signedKey \in SignedKeys
    BY DEF Init
  <2>3. loaded = FALSE /\ started = 0 /\ spoiled = {}
    BY DEF Init
  <2>4. pc \in [Clients -> Pcs]
    BY DEF Init, Pcs
  <2>5. started \in 0..MaxOps
    BY <1>0, <2>3
  <2> QED
    BY <2>1, <2>2, <2>3, <2>4, <2>5
<1>6. \A c \in Clients : pc[c] = "idle"
  BY DEF Init
<1>7. \A c \in Clients : InHand(c)
  BY <1>6 DEF InHand, WriterPcs
<1> QED
  BY <1>1, <1>2, <1>3, <1>4, <1>5, <1>7 DEF TypeInv, TypeOK

LEMMA TypeStep ==
  ASSUME TypeInv, [Next]_vars
  PROVE  TypeInv'
<1>0. /\ MaxKeys \in Nat \ {0} /\ nextId \in 1..MaxKeys + 1 /\ Keys = 1..MaxKeys
      /\ db \in MapsOf(TableKeys, Rows) /\ loaded \in BOOLEAN
      /\ cache \in MapsOf(CacheKeys, Rows)
      /\ "insert" \in opts => ~MapHas(cache, Zero)
      /\ pc \in [Clients -> Pcs] /\ op \in [Clients -> Ops]
      /\ started \in 0..MaxOps /\ MaxOps \in Nat /\ spoiled \subseteq Keys
      /\ \A d \in Clients : InHand(d)
  <2>1. MaxKeys \in Nat \ {0} /\ MaxOps \in Nat /\ Keys = 1..MaxKeys
    BY CacheAssumption DEF Keys
  <2>2. TypeOK /\ op \in [Clients -> Ops] /\ \A d \in Clients : InHand(d)
    BY DEF TypeInv
  <2> QED
    BY <2>1, <2>2 DEF TypeOK
<1>a. ASSUME NEW c \in Clients, Start(c) PROVE pc[c] = "idle" /\ started' \in 0..MaxOps
  BY <1>0, <1>a DEF Start
<1>b. /\ TableKeys \subseteq Keys /\ CacheKeys \subseteq 0..MaxKeys
      /\ TableKeys \subseteq CacheKeys /\ Zero \notin TableKeys
  BY <1>0, KeysBound
<1>c. ASSUME NEW c \in Clients, NEW k, Spoil(c, k) PROVE spoiled' \subseteq Keys
  BY <1>0, <1>c DEF Spoil
<1>d. \A c \in Clients : op[c].key \in 0..MaxKeys /\ op[c].row \in Rows /\ op[c].old \in Rows
  BY <1>0 DEF Ops
\* Where the table and the map stay.
<1>e. ASSUME NEW c \in Clients, UNCHANGED <<configVars, db, nextId, loaded, cache>>,
             pc' \in [Clients -> Pcs], op' \in [Clients -> Ops],
             \A d \in Clients : d # c => pc'[d] = pc[d] /\ op'[d] = op[d],
             InHand(c)', started' \in 0..MaxOps, spoiled' \subseteq Keys
      PROVE  TypeInv'
  <2>1. TableKeys' = TableKeys /\ CacheKeys' = CacheKeys
    BY <1>e, KeysKept
  <2>2. /\ db' \in MapsOf(TableKeys', Rows) /\ cache' \in MapsOf(CacheKeys', Rows)
        /\ "insert" \in opts => ~MapHas(cache', Zero)
    BY <1>0, <1>e, <2>1
  <2> QED
    BY <1>0, <1>e, <2>2, TypeFrom
<1>1. ASSUME NEW c \in Clients, NEW fn, Refuse(c, fn) \/ NilConn(c, fn) PROVE TypeInv'
  <2>1. /\ Start(c) /\ UNCHANGED <<configVars, db, nextId, loaded, cache, op, spoiled>>
        /\ pc' = pc \/ pc' = [pc EXCEPT ![c] = "panic"]
    BY <1>1 DEF Refuse, NilConn, Go
  <2>2. pc' \in [Clients -> Pcs] /\ \A d \in Clients : d # c => pc'[d] = pc[d]
    BY <1>0, <2>1 DEF Pcs
  <2>3. pc'[c] \in {"idle", "panic"}
    BY <1>0, <1>a, <2>1
  <2> QED
    BY <1>0, <1>a, <1>e, <2>1, <2>2, <2>3 DEF InHand, WriterPcs
<1>2. ASSUME NEW c \in Clients, Read(c) PROVE TypeInv'
  <2>1. /\ Start(c) /\ UNCHANGED <<configVars, db, nextId, loaded, cache, op, spoiled>>
        /\ pc' = pc \/ pc' = [pc EXCEPT ![c] = "panic"]
    BY <1>2 DEF Read, Go
  <2>2. pc' \in [Clients -> Pcs] /\ \A d \in Clients : d # c => pc'[d] = pc[d]
    BY <1>0, <2>1 DEF Pcs
  <2>3. pc'[c] \in {"idle", "panic"}
    BY <1>0, <1>a, <2>1
  <2> QED
    BY <1>0, <1>a, <1>e, <2>1, <2>2, <2>3 DEF InHand, WriterPcs
<1>3. ASSUME NEW c \in Clients, LoadSelect(c) PROVE TypeInv'
  <2>1. /\ Start(c) /\ UNCHANGED <<configVars, db, nextId, loaded, cache>>
        /\ \/ pc' = [pc EXCEPT ![c] = "panic"] /\ UNCHANGED <<op, spoiled>>
           \/ /\ pc' = [pc EXCEPT ![c] = "loaded"]
              /\ op' = [op EXCEPT ![c] = [NoOp EXCEPT !.rows = Selected]]
              /\ spoiled' \subseteq spoiled \cup DOMAIN db
    BY <1>3 DEF LoadSelect, Go
  <2>2. Selected \in MapsOf(TableKeys, Rows) /\ Selected \in MapsOf(Keys, Rows)
    BY <1>0, <1>b, EmptyIsMap, MapGrows DEF Selected
  <2>3. [NoOp EXCEPT !.rows = Selected] \in Ops
        /\ [NoOp EXCEPT !.rows = Selected].rows = Selected
    BY <2>2, NoOpIsOp DEF NoOp
  <2>4. DOMAIN db \subseteq Keys
    BY <1>0, <1>b, MapForm
  <2>5. CASE pc' = [pc EXCEPT ![c] = "panic"] /\ UNCHANGED <<op, spoiled>>
    <3>1. pc' \in [Clients -> Pcs] /\ pc'[c] = "panic"
          /\ \A d \in Clients : d # c => pc'[d] = pc[d]
      BY <1>0, <2>5 DEF Pcs
    <3> QED
      BY <1>0, <1>a, <1>e, <2>1, <2>5, <3>1 DEF InHand, WriterPcs
  <2>6. CASE /\ pc' = [pc EXCEPT ![c] = "loaded"]
             /\ op' = [op EXCEPT ![c] = [NoOp EXCEPT !.rows = Selected]]
             /\ spoiled' \subseteq spoiled \cup DOMAIN db
    <3>1. /\ pc' \in [Clients -> Pcs] /\ pc'[c] = "loaded" /\ op' \in [Clients -> Ops]
          /\ op'[c].rows = Selected
          /\ \A d \in Clients : d # c => pc'[d] = pc[d] /\ op'[d] = op[d]
      BY <1>0, <2>3, <2>6 DEF Pcs
    <3>2. opts' = opts /\ nextId' = nextId
      BY <2>1 DEF configVars
    <3>3. "select" \notin opts => Selected = EmptyMap
      BY DEF Selected
    <3>4. InHand(c)'
      <4>1. Selected \in MapsOf(TableKeys', Rows)
        BY <2>2, <3>2, KeysKept
      <4> QED
        BY <3>1, <3>2, <3>3, <4>1 DEF InHand, WriterPcs
    <3>5. spoiled' \subseteq Keys
      BY <1>0, <2>4, <2>6
    <3> QED
      BY <1>a, <1>e, <2>1, <3>1, <3>4, <3>5
  <2> QED
    BY <2>1, <2>5, <2>6
<1>4. ASSUME NEW c \in Clients, LoadStore(c) PROVE TypeInv'
  <2>1. /\ pc[c] = "loaded" /\ pc' = [pc EXCEPT ![c] = "idle"] /\ op' = [op EXCEPT ![c] = NoOp]
        /\ loaded' = TRUE /\ cache' = op[c].rows
        /\ UNCHANGED <<configVars, db, nextId, started, spoiled>>
    BY <1>4 DEF LoadStore, Go
  <2>2. op[c].rows \in MapsOf(TableKeys, Rows)
    BY <1>0, <2>1 DEF InHand
  <2>3. cache' \in MapsOf(CacheKeys, Rows) /\ ~MapHas(cache', Zero)
    <3>1. op[c].rows \in MapsOf(CacheKeys, Rows)
      BY <1>b, <2>2, MapGrows
    <3>2. DOMAIN op[c].rows \subseteq TableKeys
      BY <2>2, MapForm
    <3> QED
      BY <1>b, <2>1, <3>1, <3>2 DEF MapHas
  <2>4. /\ pc' \in [Clients -> Pcs] /\ pc'[c] = "idle" /\ op' \in [Clients -> Ops]
        /\ \A d \in Clients : d # c => pc'[d] = pc[d] /\ op'[d] = op[d]
    BY <1>0, <2>1, NoOpIsOp DEF Pcs
  <2>5. InHand(c)'
    BY <2>4 DEF InHand, WriterPcs
  <2>6. db' \in MapsOf(TableKeys', Rows) /\ cache' \in MapsOf(CacheKeys', Rows)
    BY <1>0, <2>1, <2>3, KeysKept
  <2>7. started' \in 0..MaxOps /\ spoiled' \subseteq Keys /\ nextId' \in 1..MaxKeys + 1
    BY <1>0, <2>1
  <2> QED
    BY <2>1, <2>3, <2>4, <2>5, <2>6, <2>7, TypeFrom

\* A row more in the table.
<1>v. ASSUME NEW row \in Rows, AddRow(row), cache' = cache
      PROVE  /\ nextId' = nextId + 1 /\ nextId \in Keys /\ nextId' \in 1..MaxKeys + 1
             /\ nextId \in CacheKeys' /\ Zero \in CacheKeys'
             /\ db' \in MapsOf(TableKeys', Rows) /\ cache' \in MapsOf(CacheKeys', Rows)
  <2>1. nextId <= MaxKeys /\ db' = MapSet(db, nextId, row) /\ nextId' = nextId + 1
    BY <1>v DEF AddRow
  <2>2. /\ TableKeys \subseteq TableKeys' /\ nextId \in TableKeys'
        /\ CacheKeys \subseteq CacheKeys' /\ nextId \in CacheKeys' /\ Zero \in CacheKeys'
    BY <1>0, <2>1, KeysGrow
  <2>3. db \in MapsOf(TableKeys', Rows) /\ cache \in MapsOf(CacheKeys', Rows)
    BY <1>0, <2>2, MapGrows
  <2>4. db' \in MapsOf(TableKeys', Rows)
    BY <2>1, <2>2, <2>3, SetIsMap
  <2>5. nextId \in Keys /\ nextId' \in 1..MaxKeys + 1
    BY <1>0, <2>1
  <2> QED
    BY <1>v, <2>1, <2>2, <2>3, <2>4, <2>5
<1>5. ASSUME NEW c \in Clients, NEW row \in Rows, InsertDb(c, row) PROVE TypeInv'
  <2>1. /\ Start(c) /\ AddRow(row)
        /\ pc' = [pc EXCEPT ![c] = "inserted"] /\ UNCHANGED <<configVars, loaded, cache>>
    BY <1>5 DEF InsertDb, Go
  <2>2. PICK known \in IF "insert" \in opts THEN {TRUE} ELSE {signedKey, FALSE} :
          /\ op' = [op EXCEPT ![c] = [NoOp EXCEPT !.row = row, !.key = IF known THEN nextId ELSE Zero]]
          /\ IF known THEN Spoil(c, nextId) ELSE spoiled' = spoiled \cup {nextId}
    BY <1>5 DEF InsertDb
  <2> DEFINE k == IF known THEN nextId ELSE Zero
             o == [NoOp EXCEPT !.row = row, !.key = k]
  <2>3. /\ k \in 0..MaxKeys /\ k \in CacheKeys' /\ nextId \in Keys
        /\ known => k # Zero
    <3>1. nextId \in 1..MaxKeys /\ Zero = 0
      BY <1>0, <1>v, <2>1 DEF Zero
    <3>2. k = nextId \/ k = Zero
      OBVIOUS
    <3> QED
      BY <1>0, <1>v, <2>1, <3>1, <3>2
  <2>4. o \in Ops /\ o.key = k
    BY <2>3, NoOpIsOp DEF NoOp
  <2> HIDE DEF k, o
  <2>5. /\ pc' \in [Clients -> Pcs] /\ pc'[c] = "inserted" /\ op' \in [Clients -> Ops]
        /\ op'[c].key = k
        /\ \A d \in Clients : d # c => pc'[d] = pc[d] /\ op'[d] = op[d]
    BY <1>0, <2>1, <2>2, <2>4 DEF Pcs, k, o
  <2>6. "insert" \in opts => known
    BY <2>2
  <2>7. opts' = opts
    BY <2>1 DEF configVars
  <2>8. InHand(c)'
    BY <2>3, <2>5, <2>6, <2>7 DEF InHand
  <2>9. spoiled' \subseteq Keys
    BY <1>0, <1>c, <2>2, <2>3
  <2> QED
    BY <1>0, <1>a, <1>v, <2>1, <2>5, <2>8, <2>9, TypeFrom
<1>i. ASSUME NEW c \in Clients, NEW row \in Rows, InsertPanic(c, row) PROVE TypeInv'
  <2>1. /\ Start(c) /\ AddRow(row) /\ spoiled' = spoiled \cup {nextId}
        /\ pc' = [pc EXCEPT ![c] = "panic"] /\ UNCHANGED <<configVars, loaded, cache, op>>
    BY <1>i DEF InsertPanic, Go
  <2>2. /\ pc' \in [Clients -> Pcs] /\ pc'[c] = "panic"
        /\ \A d \in Clients : d # c => pc'[d] = pc[d]
    BY <1>0, <2>1 DEF Pcs
  <2>3. InHand(c)'
    BY <2>2 DEF InHand, WriterPcs
  <2> QED
    BY <1>0, <1>a, <1>v, <2>1, <2>2, <2>3, TypeFrom
\* The key of an update or a delete, which is one of the table or of the map.
<1>f. ASSUME NEW k \in DOMAIN db \cup DOMAIN cache
      PROVE  k \in 0..MaxKeys /\ k \in CacheKeys /\ ("insert" \in opts => k # Zero)
  <2>1. DOMAIN db \subseteq TableKeys /\ DOMAIN cache \subseteq CacheKeys
    BY <1>0, MapForm
  <2>2. k \in CacheKeys
    BY <1>b, <2>1
  <2>3. "insert" \in opts => Zero \notin DOMAIN db \cup DOMAIN cache
    <3>1. "insert" \in opts => Zero \notin DOMAIN cache
      BY <1>0 DEF MapHas
    <3> QED
      BY <1>b, <2>1, <3>1
  <2> QED
    BY <1>b, <2>2, <2>3
<1>6. ASSUME NEW c \in Clients, NEW k \in DOMAIN db \cup DOMAIN cache, NEW row \in Rows,
             UpdateDb(c, k, row)
      PROVE  TypeInv'
  <2> DEFINE o == [NoOp EXCEPT !.key = k, !.row = row]
  <2>1. /\ Start(c) /\ op' = [op EXCEPT ![c] = o] /\ Spoil(c, k)
        /\ db' = db \/ (MapHas(db, k) /\ db' = MapSet(db, k, Merged(db[k], row)))
        /\ pc' = [pc EXCEPT ![c] = "updated"] /\ UNCHANGED <<configVars, nextId, loaded, cache>>
    BY <1>6 DEF UpdateDb, Go, Merged
  <2>2. o \in Ops /\ o.key = k
    BY <1>f, NoOpIsOp DEF NoOp
  <2> HIDE DEF o
  <2>3. db' \in MapsOf(TableKeys, Rows)
    <3>1. CASE MapHas(db, k) /\ db' = MapSet(db, k, Merged(db[k], row))
      <4>1. k \in TableKeys /\ db[k] \in Rows
        BY <1>0, <3>1, MapForm DEF MapHas
      <4>2. Merged(db[k], row) \in Rows
        BY <4>1, MergeAgain
      <4> QED
        BY <1>0, <3>1, <4>1, <4>2, SetIsMap
    <3> QED
      BY <1>0, <2>1, <3>1
  <2>4. /\ pc' \in [Clients -> Pcs] /\ pc'[c] = "updated" /\ op' \in [Clients -> Ops]
        /\ op'[c].key = k
        /\ \A d \in Clients : d # c => pc'[d] = pc[d] /\ op'[d] = op[d]
    BY <1>0, <2>1, <2>2 DEF Pcs
  <2>5. opts' = opts /\ nextId' = nextId
    BY <2>1 DEF configVars
  <2>6. InHand(c)'
    <3>1. CacheKeys' = CacheKeys
      BY <2>5, KeysKept
    <3> QED
      BY <1>f, <2>4, <2>5, <3>1 DEF InHand
  <2>7. db' \in MapsOf(TableKeys', Rows) /\ cache' \in MapsOf(CacheKeys', Rows)
    BY <1>0, <2>1, <2>3, <2>5, KeysKept
  <2>8. started' \in 0..MaxOps /\ spoiled' \subseteq Keys /\ nextId' \in 1..MaxKeys + 1
    BY <1>0, <1>a, <1>c, <2>1
  <2>9. loaded' \in BOOLEAN /\ ("insert" \in opts => ~MapHas(cache', Zero))
    BY <1>0, <2>1
  <2> QED
    BY <2>1, <2>4, <2>6, <2>7, <2>8, <2>9, TypeFrom
<1>7. ASSUME NEW c \in Clients, NEW k \in DOMAIN db \cup DOMAIN cache, DeleteDb(c, k)
      PROVE  TypeInv'
  <2> DEFINE o == [NoOp EXCEPT !.key = k]
  <2>1. /\ Start(c) /\ op' = [op EXCEPT ![c] = o] /\ Spoil(c, k) /\ db' = MapDelete(db, k)
        /\ pc' = [pc EXCEPT ![c] = "deleted"] /\ UNCHANGED <<configVars, nextId, loaded, cache>>
    BY <1>7 DEF DeleteDb, Go
  <2>2. o \in Ops /\ o.key = k
    <3>1. NoRow \in Rows
      BY CacheAssumption DEF NoRow, Rows
    <3> QED
      BY <1>f, <3>1, NoOpIsOp DEF NoOp
  <2> HIDE DEF o
  <2>3. db' \in MapsOf(TableKeys, Rows)
    BY <1>0, <2>1, DeleteIsMap
  <2>4. /\ pc' \in [Clients -> Pcs] /\ pc'[c] = "deleted" /\ op' \in [Clients -> Ops]
        /\ op'[c].key = k
        /\ \A d \in Clients : d # c => pc'[d] = pc[d] /\ op'[d] = op[d]
    BY <1>0, <2>1, <2>2 DEF Pcs
  <2>5. opts' = opts /\ nextId' = nextId
    BY <2>1 DEF configVars
  <2>6. InHand(c)'
    <3>1. CacheKeys' = CacheKeys
      BY <2>5, KeysKept
    <3> QED
      BY <1>f, <2>4, <2>5, <3>1 DEF InHand
  <2>7. db' \in MapsOf(TableKeys', Rows) /\ cache' \in MapsOf(CacheKeys', Rows)
    BY <1>0, <2>1, <2>3, <2>5, KeysKept
  <2>8. started' \in 0..MaxOps /\ spoiled' \subseteq Keys /\ nextId' \in 1..MaxKeys + 1
    BY <1>0, <1>a, <1>c, <2>1
  <2>9. loaded' \in BOOLEAN /\ ("insert" \in opts => ~MapHas(cache', Zero))
    BY <1>0, <2>1
  <2> QED
    BY <2>1, <2>4, <2>6, <2>7, <2>8, <2>9, TypeFrom
\* The steps on the map end the operation, or panic.
<1>g. ASSUME NEW c \in Clients, UNCHANGED <<configVars, db, nextId, loaded, started, spoiled>>,
             cache' \in MapsOf(CacheKeys, Rows), "insert" \in opts => ~MapHas(cache', Zero),
             \/ pc' = [pc EXCEPT ![c] = "panic"] /\ op' = op
             \/ pc' = [pc EXCEPT ![c] = "idle"] /\ op' = [op EXCEPT ![c] = NoOp]
      PROVE  TypeInv'
  <2>1. /\ pc' \in [Clients -> Pcs] /\ pc'[c] \in {"idle", "panic"} /\ op' \in [Clients -> Ops]
        /\ \A d \in Clients : d # c => pc'[d] = pc[d] /\ op'[d] = op[d]
    BY <1>0, <1>g, NoOpIsOp DEF Pcs
  <2>2. InHand(c)'
    BY <2>1 DEF InHand, WriterPcs
  <2>3. db' \in MapsOf(TableKeys', Rows) /\ cache' \in MapsOf(CacheKeys', Rows)
    BY <1>0, <1>g, KeysKept
  <2>4. /\ started' \in 0..MaxOps /\ spoiled' \subseteq Keys /\ nextId' \in 1..MaxKeys + 1
        /\ loaded' \in BOOLEAN
    BY <1>0, <1>g
  <2> QED
    BY <1>g, <2>1, <2>2, <2>3, <2>4, TypeFrom
<1>h. ASSUME NEW c \in Clients, pc[c] \in WriterPcs
      PROVE  /\ op[c].key \in CacheKeys /\ ("insert" \in opts => op[c].key # Zero)
             /\ op[c].row \in Rows /\ op[c].old \in Rows
             /\ \A row \in Rows : MapSet(cache, op[c].key, row) \in MapsOf(CacheKeys, Rows)
             /\ \A row \in Rows : "insert" \in opts => ~MapHas(MapSet(cache, op[c].key, row), Zero)
  <2>1. op[c].key \in CacheKeys /\ ("insert" \in opts => op[c].key # Zero)
    BY <1>0, <1>h DEF InHand
  <2>2. ASSUME NEW k \in CacheKeys, "insert" \in opts => k # Zero, NEW row \in Rows
        PROVE  /\ MapSet(cache, k, row) \in MapsOf(CacheKeys, Rows)
               /\ "insert" \in opts => ~MapHas(MapSet(cache, k, row), Zero)
    <3>1. cache \in MapsOf(CacheKeys, Rows) /\ ("insert" \in opts => Zero \notin DOMAIN cache)
      BY <1>0 DEF MapHas
    <3>2. /\ MapSet(cache, k, row) \in MapsOf(CacheKeys, Rows)
          /\ DOMAIN MapSet(cache, k, row) = DOMAIN cache \cup {k}
      BY <3>1, SetIsMap
    <3> QED
      BY <2>2, <3>1, <3>2 DEF MapHas
  <2> QED
    BY <1>d, <2>1, <2>2
<1>8. ASSUME NEW c \in Clients, InsertCache(c) PROVE TypeInv'
  <2>1. /\ pc[c] = "inserted" /\ UNCHANGED <<configVars, db, nextId, loaded, started, spoiled>>
        /\ \/ pc' = [pc EXCEPT ![c] = "panic"] /\ op' = op /\ cache' = cache
           \/ /\ pc' = [pc EXCEPT ![c] = "idle"] /\ op' = [op EXCEPT ![c] = NoOp]
              /\ cache' = MapSet(cache, op[c].key, op[c].row)
    BY <1>8 DEF InsertCache, Go
  <2> QED
    BY <1>0, <1>g, <1>h, <2>1 DEF WriterPcs
<1>9. ASSUME NEW c \in Clients, UpdateSet(c) PROVE TypeInv'
  <2>1. /\ pc[c] = "merging" /\ UNCHANGED <<configVars, db, nextId, loaded, started, spoiled>>
        /\ pc' = [pc EXCEPT ![c] = "idle"] /\ op' = [op EXCEPT ![c] = NoOp]
        /\ cache' = MapSet(cache, op[c].key, Merged(op[c].old, op[c].row))
    BY <1>9 DEF UpdateSet, Go
  <2>2. Merged(op[c].old, op[c].row) \in Rows
    BY <1>d, MergeAgain
  <2> QED
    BY <1>0, <1>g, <1>h, <2>1, <2>2 DEF WriterPcs
<1>10. ASSUME NEW c \in Clients, DeleteCache(c) PROVE TypeInv'
  <2>1. /\ pc[c] = "deleted" /\ UNCHANGED <<configVars, db, nextId, loaded, started, spoiled>>
        /\ \/ pc' = [pc EXCEPT ![c] = "panic"] /\ op' = op /\ cache' = cache
           \/ /\ pc' = [pc EXCEPT ![c] = "idle"] /\ op' = [op EXCEPT ![c] = NoOp]
              /\ cache' = MapDelete(cache, op[c].key)
    BY <1>10 DEF DeleteCache, Go
  <2>2. ASSUME NEW k
        PROVE  /\ MapDelete(cache, k) \in MapsOf(CacheKeys, Rows)
               /\ "insert" \in opts => ~MapHas(MapDelete(cache, k), Zero)
    <3>1. cache \in MapsOf(CacheKeys, Rows) /\ ("insert" \in opts => Zero \notin DOMAIN cache)
      BY <1>0 DEF MapHas
    <3>2. /\ MapDelete(cache, k) \in MapsOf(CacheKeys, Rows)
          /\ DOMAIN MapDelete(cache, k) = DOMAIN cache \ {k}
      BY <3>1, DeleteIsMap
    <3> QED
      BY <3>1, <3>2 DEF MapHas
  <2> QED
    BY <1>0, <1>g, <2>1, <2>2
<1>11. ASSUME NEW c \in Clients, UpdateGet(c) PROVE TypeInv'
  <2> DEFINE k == op[c].key
             o == [op[c] EXCEPT !.old = cache[k]]
  <2>1. /\ pc[c] = "updated" /\ UNCHANGED <<configVars, db, nextId, loaded, cache, started, spoiled>>
        /\ \/ pc' = [pc EXCEPT ![c] = "panic"] /\ op' = op
           \/ pc' = [pc EXCEPT ![c] = "idle"] /\ op' = [op EXCEPT ![c] = NoOp]
           \/ /\ MapHas(cache, k) /\ pc' = [pc EXCEPT ![c] = "merging"]
              /\ op' = [op EXCEPT ![c] = o]
    BY <1>11 DEF UpdateGet, Go
  <2>2. CASE /\ MapHas(cache, k) /\ pc' = [pc EXCEPT ![c] = "merging"]
             /\ op' = [op EXCEPT ![c] = o]
    <3>1. cache[k] \in Rows
      BY <1>0, <2>2, MapForm DEF MapHas
    <3>2. o \in Ops /\ o.key = k
      BY <1>0, <3>1 DEF Ops
    <3>3. /\ pc' \in [Clients -> Pcs] /\ pc'[c] = "merging" /\ op' \in [Clients -> Ops]
          /\ op'[c].key = op[c].key
          /\ \A d \in Clients : d # c => pc'[d] = pc[d] /\ op'[d] = op[d]
      BY <1>0, <2>2, <3>2 DEF Pcs
    <3>4. opts' = opts /\ nextId' = nextId
      BY <2>1 DEF configVars
    <3>5. InHand(c)'
      <4>1. CacheKeys' = CacheKeys
        BY <3>4, KeysKept
      <4>2. op[c].key \in CacheKeys /\ ("insert" \in opts => op[c].key # Zero)
        BY <1>h, <2>1 DEF WriterPcs
      <4> QED
        BY <3>3, <3>4, <4>1, <4>2 DEF InHand, WriterPcs
    <3> QED
      BY <1>0, <1>e, <2>1, <3>3, <3>5
  <2> HIDE DEF o
  <2> QED
    BY <1>0, <1>g, <2>1, <2>2
<1>12. CASE UNCHANGED vars
  <2>1. /\ opts' = opts /\ updateNames' = updateNames /\ signedKey' = signedKey
        /\ db' = db /\ nextId' = nextId
        /\ loaded' = loaded /\ cache' = cache /\ pc' = pc /\ op' = op
        /\ started' = started /\ spoiled' = spoiled
    BY <1>12 DEF vars, configVars
  <2>2. TableKeys' = TableKeys /\ CacheKeys' = CacheKeys
    BY <2>1, KeysKept
  <2>3. TypeOK'
    BY <2>1, <2>2 DEF TypeInv, TypeOK
  <2>4. \A c \in Clients : InHand(c)'
    BY <1>0, <2>1, <2>2 DEF InHand
  <2> QED
    BY <2>1, <2>3, <2>4 DEF TypeInv, Accepted
<1> QED
  BY <1>1, <1>2, <1>3, <1>4, <1>5, <1>i, <1>6, <1>7, <1>8, <1>9, <1>10, <1>11, <1>12 DEF Next

LEMMA TypeAlways == Spec => []TypeInv
  BY TypeInit, TypeStep, PTL DEF Spec

\* Once it was loaded a cache with accepted options panics in two calls only:
\* another Load, and the generated insert of a row whose primary key is not a
\* signed integer (dbcache.go:67-71, 206-243, 247-269, 337-348).
THEOREM LoadedIsSafeCorrect == Spec => LoadedIsSafe
<1>1. ASSUME TypeInv, [Next]_vars, NEW c \in Clients, pc[c] # "panic", pc'[c] = "panic", loaded
      PROVE  pc[c] = "idle" /\ (LoadPanics \/ InsertPanics)
  <2>0. pc \in [Clients -> Pcs]
    BY <1>1 DEF TypeInv, TypeOK
  <2>1. ASSUME NEW d \in Clients, NEW where, Go(d, where), where # "panic" PROVE FALSE
    BY <1>1, <2>0, <2>1 DEF Go
  <2>2. pc' # pc
    BY <1>1
  <2>3. ASSUME NEW d \in Clients, Go(d, "panic") PROVE c = d
    BY <1>1, <2>0, <2>3 DEF Go
  <2>4. ASSUME NEW d \in Clients, NEW fn \in {"select", "insert", "update", "delete"},
               Refuse(d, fn) \/ NilConn(d, fn)
        PROVE  pc[c] = "idle" /\ LoadPanics
    <3>1. Start(d) /\ ~Callable(fn) /\ Go(d, "panic") /\ nextId' = nextId
      BY <2>2, <2>4 DEF Refuse, NilConn
    <3>2. Accepted(opts) /\ fn \notin opts /\ "conn" \notin opts
      BY <1>1, <3>1 DEF TypeInv, Callable
    <3> QED
      BY <2>3, <3>1, <3>2 DEF Accepted, LoadPanics, Start
  <2>5. ASSUME NEW d \in Clients, LoadSelect(d) PROVE pc[c] = "idle" /\ LoadPanics
    <3>1. /\ Start(d) /\ "select" \notin opts /\ "scanner" \notin opts /\ Go(d, "panic")
          /\ nextId' = nextId
      BY <2>1, <2>5 DEF LoadSelect
    <3> QED
      BY <2>3, <3>1 DEF Start, LoadPanics
  <2>6. ASSUME NEW d \in Clients, NEW row \in Rows, InsertPanic(d, row)
        PROVE  pc[c] = "idle" /\ InsertPanics
    <3>1. /\ Start(d) /\ "insert" \notin opts /\ ~signedKey /\ Go(d, "panic")
          /\ nextId' = nextId + 1
      BY <2>6 DEF InsertPanic, AddRow
    <3>2. nextId \in Nat
      BY <1>1 DEF TypeInv, TypeOK
    <3> QED
      BY <2>3, <3>1, <3>2 DEF Start, InsertPanics
  <2>7. ASSUME NEW d \in Clients,
               \/ LoadStore(d) \/ InsertCache(d) \/ UpdateGet(d) \/ UpdateSet(d)
               \/ DeleteCache(d) \/ Read(d)
        PROVE  FALSE
    BY <1>1, <2>1, <2>2, <2>7
       DEF LoadStore, InsertCache, UpdateGet, UpdateSet, DeleteCache, Read
  <2>8. ASSUME NEW d \in Clients, NEW k, NEW row,
               InsertDb(d, row) \/ UpdateDb(d, k, row) \/ DeleteDb(d, k)
        PROVE  FALSE
    BY <2>1, <2>8 DEF InsertDb, UpdateDb, DeleteDb
  <2>9. ~UNCHANGED vars
    BY <2>2 DEF vars
  <2> QED
    BY <1>1, <2>4, <2>5, <2>6, <2>7, <2>8, <2>9 DEF Next
<1>2. TypeInv /\ [Next]_vars
      => [\A c \in Clients : pc[c] # "panic" /\ pc'[c] = "panic" /\ loaded =>
             pc[c] = "idle" /\ (LoadPanics \/ InsertPanics)]_vars
  BY <1>1
<1> QED
  BY <1>2, TypeAlways, PTL DEF Spec, LoadedIsSafe

-----------------------------------------------------------------------------
\* The map agrees with the table.

\* What is written rests on key k alone.
LEMMA WrittenKept ==
  ASSUME NEW k, NEW c, Written(c, k), pc'[c] = pc[c], op'[c] = op[c],
         MapHas(db', k) <=> MapHas(db, k), MapHas(db, k) => db'[k] = db[k],
         MapHas(cache', k) <=> MapHas(cache, k), MapHas(cache, k) => cache'[k] = cache[k],
         loaded' = loaded, updateNames' = updateNames
  PROVE  Written(c, k)'
BY DEF Written, MapHas, Merged

\* Client c has nothing to do with key k.
LEMMA Frame ==
  ASSUME NEW k, NEW c \in Clients, Settled(k),
         MapHas(db', k) <=> MapHas(db, k), MapHas(db, k) => db'[k] = db[k],
         MapHas(cache', k) <=> MapHas(cache, k), MapHas(cache, k) => cache'[k] = cache[k],
         loaded' = loaded, updateNames' = updateNames,
         \A d \in Clients : d # c => pc'[d] = pc[d] /\ op'[d] = op[d],
         ~Works(c, k), ~Works(c, k)', pc[c] # "loaded", pc'[c] # "loaded"
  PROVE  Settled(k)'
<1>1. \A d \in Clients : Works(d, k)' <=> Works(d, k)
  BY DEF Works
<1>2. \A d, e \in Clients : Works(d, k)' /\ Works(e, k)' => d = e
  BY <1>1 DEF Settled
<1>3. ASSUME NEW d \in Clients, pc'[d] = "loaded" PROVE Agrees(op[d].rows, k)'
  <2>1. pc[d] = "loaded" /\ op'[d] = op[d]
    BY <1>3
  <2>2. Agrees(op[d].rows, k)
    BY <2>1 DEF Settled
  <2> QED
    BY <2>1, <2>2 DEF Agrees, MapHas
<1>4. ASSUME NEW d \in Clients, Works(d, k)' PROVE Written(d, k)'
  <2>1. Works(d, k) /\ d # c
    BY <1>1, <1>4
  <2>2. Written(d, k) /\ pc'[d] = pc[d] /\ op'[d] = op[d]
    BY <2>1 DEF Settled
  <2> QED
    BY <2>2, WrittenKept
<1>5. ASSUME loaded', \A d \in Clients : pc'[d] # "loaded" /\ ~Works(d, k)'
      PROVE  Agrees(cache, k)'
  <2>1. \A d \in Clients : pc[d] # "loaded" /\ ~Works(d, k)
    BY <1>1, <1>5
  <2>2. Agrees(cache, k)
    BY <1>5, <2>1 DEF Settled
  <2> QED
    BY <2>2 DEF Agrees, MapHas
<1> QED
  BY <1>2, <1>3, <1>4, <1>5 DEF Settled

\* Client c, which alone works on key k, ends.
LEMMA LastStep ==
  ASSUME NEW k, NEW c \in Clients, Settled(k), Works(c, k),
         db' = db, loaded' = loaded, pc'[c] \in {"idle", "panic"},
         \A d \in Clients : d # c => pc'[d] = pc[d] /\ op'[d] = op[d],
         loaded => Agrees(cache, k)'
  PROVE  Settled(k)'
<1>1. \A d \in Clients : ~Works(d, k)'
  BY DEF Works, Settled, WriterPcs
<1>2. ASSUME NEW d \in Clients, pc'[d] = "loaded" PROVE Agrees(op[d].rows, k)'
  <2>1. pc[d] = "loaded" /\ op'[d] = op[d]
    BY <1>2
  <2>2. Agrees(op[d].rows, k)
    BY <2>1 DEF Settled
  <2> QED
    BY <2>1, <2>2 DEF Agrees, MapHas
<1> QED
  BY <1>1, <1>2 DEF Settled

\* Client c starts to work on key k, on which nobody works, with no Load
\* under way.
LEMMA FirstStep ==
  ASSUME NEW k, NEW c \in Clients, Works(c, k)', Written(c, k)',
         \A d \in Clients : d # c => /\ pc'[d] = pc[d] /\ op'[d] = op[d]
                                     /\ pc[d] # "loaded" /\ ~Works(d, k)
  PROVE  Settled(k)'
<1>1. \A d \in Clients : d # c => ~Works(d, k)' /\ pc'[d] # "loaded"
  BY DEF Works
<1>2. pc'[c] # "loaded"
  BY DEF Works, WriterPcs
<1> QED
  BY <1>1, <1>2 DEF Settled

LEMMA SettledInit == Init => CacheIInv
<1> SUFFICES ASSUME Init, NEW k \in Keys
             PROVE  Settled(k)
  BY DEF CacheIInv
<1>1. ~loaded /\ \A c \in Clients : pc[c] = "idle"
  BY DEF Init
<1> QED
  BY <1>1 DEF Settled, Works, WriterPcs

LEMMA SettledStep ==
  ASSUME TypeInv, CacheIInv, [Next]_vars
  PROVE  CacheIInv'
<1>0. /\ nextId \in 1..MaxKeys + 1 /\ loaded \in BOOLEAN
      /\ db \in MapsOf(TableKeys, Rows) /\ cache \in MapsOf(CacheKeys, Rows)
      /\ pc \in [Clients -> Pcs] /\ op \in [Clients -> Ops]
      /\ \A d \in Clients : InHand(d)
  <2>1. TypeOK /\ op \in [Clients -> Ops] /\ \A d \in Clients : InHand(d)
    BY DEF TypeInv
  <2> QED
    BY <2>1 DEF TypeOK
<1>a. \A k \in Keys \ spoiled : Settled(k)
  BY DEF CacheIInv
<1>b. \A d \in Clients : op[d].row \in Rows /\ op[d].old \in Rows
  BY <1>0 DEF Ops
\* A step that touches neither the table nor the map, of a client that works
\* on nothing.
<1>c. ASSUME NEW c \in Clients, pc[c] = "idle",
             pc' = pc \/ pc' = [pc EXCEPT ![c] = "panic"],
             UNCHANGED <<configVars, db, loaded, cache, op, spoiled>>
      PROVE  CacheIInv'
  <2> SUFFICES ASSUME NEW k \in Keys \ spoiled'
               PROVE  Settled(k)'
    BY DEF CacheIInv
  <2>1. Settled(k)
    BY <1>a, <1>c
  <2>2. /\ \A d \in Clients : d # c => pc'[d] = pc[d] /\ op'[d] = op[d]
        /\ pc'[c] \in {"idle", "panic"}
    BY <1>0, <1>c
  <2>3. ~Works(c, k) /\ ~Works(c, k)'
    BY <1>c, <2>2 DEF Works, WriterPcs
  <2>4. /\ db' = db /\ cache' = cache /\ loaded' = loaded /\ updateNames' = updateNames
        /\ pc[c] # "loaded" /\ pc'[c] # "loaded"
    BY <1>c, <2>2 DEF configVars
  <2> QED
    BY <2>1, <2>2, <2>3, <2>4, Frame
<1>1. ASSUME NEW c \in Clients, NEW fn, Refuse(c, fn) \/ NilConn(c, fn) PROVE CacheIInv'
  BY <1>1, <1>c DEF Refuse, NilConn, Start, Go
<1>2. ASSUME NEW c \in Clients, Read(c) PROVE CacheIInv'
  BY <1>2, <1>c DEF Read, Start, Go
\* What a Load has read is the table, save the keys that it spoils.
<1>3. ASSUME NEW c \in Clients, LoadSelect(c) PROVE CacheIInv'
  <2>1. /\ pc[c] = "idle" /\ UNCHANGED <<configVars, db, nextId, loaded, cache>>
        /\ \/ pc' = [pc EXCEPT ![c] = "panic"] /\ UNCHANGED <<op, spoiled>>
           \/ /\ pc' = [pc EXCEPT ![c] = "loaded"]
              /\ op' = [op EXCEPT ![c] = [NoOp EXCEPT !.rows = Selected]]
              /\ spoiled' = IF Loaders # {} THEN spoiled
                            ELSE {k \in spoiled : Writers(k) # {}} \cup (DOMAIN db \ DOMAIN Selected)
    BY <1>3 DEF LoadSelect, Start, Go
  <2>2. CASE pc' = [pc EXCEPT ![c] = "panic"] /\ UNCHANGED <<op, spoiled>>
    BY <1>c, <2>1, <2>2
  <2>3. CASE /\ pc' = [pc EXCEPT ![c] = "loaded"]
             /\ op' = [op EXCEPT ![c] = [NoOp EXCEPT !.rows = Selected]]
             /\ spoiled' = IF Loaders # {} THEN spoiled
                            ELSE {k \in spoiled : Writers(k) # {}} \cup (DOMAIN db \ DOMAIN Selected)
    <3> SUFFICES ASSUME NEW k \in Keys \ spoiled'
                 PROVE  Settled(k)'
      BY DEF CacheIInv
    <3>1. /\ pc'[c] = "loaded" /\ op'[c].rows = Selected
          /\ \A d \in Clients : d # c => pc'[d] = pc[d] /\ op'[d] = op[d]
      BY <1>0, <2>3 DEF NoOp
    <3>2. /\ db' = db /\ cache' = cache /\ loaded' = loaded /\ updateNames' = updateNames
      BY <2>1 DEF configVars
    <3>3. DOMAIN Selected \subseteq DOMAIN db /\ \A x \in DOMAIN Selected : Selected[x] = db[x]
      BY EmptyIsMap DEF Selected
    <3>4. k \in DOMAIN db => k \in DOMAIN Selected
      <4>1. CASE Loaders = {}
        BY <2>3, <4>1
      <4>2. ASSUME Loaders # {}, k \in DOMAIN db PROVE k \in DOMAIN Selected
        <5>1. PICK d \in Clients : pc[d] = "loaded"
          BY <4>2 DEF Loaders
        <5>2. Agrees(op[d].rows, k)
          <6>1. Settled(k)
            BY <1>a, <2>3, <4>2
          <6> QED
            BY <5>1, <6>1 DEF Settled
        <5>3. op[d].rows # EmptyMap
          BY <4>2, <5>2, EmptyIsMap DEF Agrees, MapHas
        <5>4. "select" \in opts
          BY <1>0, <5>1, <5>3 DEF InHand
        <5> QED
          BY <4>2, <5>4 DEF Selected
      <4> QED
        BY <4>1, <4>2
    <3>5. Agrees(op[c].rows, k)'
      BY <3>1, <3>2, <3>3, <3>4 DEF Agrees, MapHas
    <3>6. ~Works(c, k) /\ ~Works(c, k)'
      BY <2>1, <3>1 DEF Works, WriterPcs
    <3>7. \A d \in Clients : Works(d, k)' <=> Works(d, k)
      BY <3>1, <3>6 DEF Works
    <3>8. CASE Settled(k)
      <4>1. \A d, e \in Clients : Works(d, k)' /\ Works(e, k)' => d = e
        BY <3>7, <3>8 DEF Settled
      <4>2. ASSUME NEW d \in Clients, pc'[d] = "loaded" PROVE Agrees(op[d].rows, k)'
        <5>1. CASE d = c
          BY <3>5, <5>1
        <5>2. CASE d # c
          <6>1. pc[d] = "loaded" /\ op'[d] = op[d]
            BY <3>1, <4>2, <5>2
          <6>2. Agrees(op[d].rows, k)
            BY <3>8, <6>1 DEF Settled
          <6> QED
            BY <3>2, <6>1, <6>2 DEF Agrees
        <5> QED
          BY <5>1, <5>2
      <4>3. ASSUME NEW d \in Clients, Works(d, k)' PROVE Written(d, k)'
        <5>1. Works(d, k) /\ d # c
          BY <3>6, <3>7, <4>3
        <5>2. Written(d, k) /\ pc'[d] = pc[d] /\ op'[d] = op[d]
          BY <3>1, <3>8, <5>1 DEF Settled
        <5> QED
          BY <3>2, <5>2, WrittenKept
      <4> QED
        BY <3>1, <4>1, <4>2, <4>3 DEF Settled
    <3>9. CASE ~Settled(k)
      <4>1. k \in spoiled
        BY <1>a, <3>9
      <4>2. Loaders = {} /\ Writers(k) = {}
        BY <2>3, <4>1
      <4>3. \A d \in Clients : pc[d] # "loaded" /\ ~Works(d, k)
        BY <4>2 DEF Loaders, Writers, Works, WriterPcs
      <4>4. \A d \in Clients : ~Works(d, k)' /\ (d # c => pc'[d] # "loaded")
        BY <3>1, <3>7, <4>3
      <4> QED
        BY <3>1, <3>5, <4>4 DEF Settled
    <3> QED
      BY <3>8, <3>9
  <2> QED
    BY <2>1, <2>2, <2>3
\* The map becomes what the Load has read.
<1>4. ASSUME NEW c \in Clients, LoadStore(c) PROVE CacheIInv'
  <2>1. /\ pc[c] = "loaded" /\ pc' = [pc EXCEPT ![c] = "idle"] /\ op' = [op EXCEPT ![c] = NoOp]
        /\ loaded' = TRUE /\ cache' = op[c].rows
        /\ db' = db /\ updateNames' = updateNames /\ spoiled' = spoiled
    BY <1>4 DEF LoadStore, Go, configVars
  <2> SUFFICES ASSUME NEW k \in Keys \ spoiled'
               PROVE  Settled(k)'
    BY DEF CacheIInv
  <2>2. Settled(k)
    BY <1>a, <2>1
  <2>3. /\ pc'[c] = "idle"
        /\ \A d \in Clients : d # c => pc'[d] = pc[d] /\ op'[d] = op[d]
    BY <1>0, <2>1
  <2>4. Agrees(cache, k)'
    <3>1. Agrees(op[c].rows, k)
      BY <2>1, <2>2 DEF Settled
    <3> QED
      BY <2>1, <3>1 DEF Agrees
  <2>5. ~Works(c, k) /\ ~Works(c, k)'
    BY <2>1, <2>3 DEF Works, WriterPcs
  <2>6. \A d \in Clients : Works(d, k)' <=> Works(d, k)
    BY <2>3, <2>5 DEF Works
  <2>7. \A d, e \in Clients : Works(d, k)' /\ Works(e, k)' => d = e
    BY <2>2, <2>6 DEF Settled
  <2>8. ASSUME NEW d \in Clients, pc'[d] = "loaded" PROVE Agrees(op[d].rows, k)'
    <3>1. pc[d] = "loaded" /\ op'[d] = op[d]
      BY <2>3, <2>8
    <3>2. Agrees(op[d].rows, k)
      BY <2>2, <3>1 DEF Settled
    <3> QED
      BY <2>1, <3>1, <3>2 DEF Agrees
  <2>9. ASSUME NEW d \in Clients, Works(d, k)' PROVE Written(d, k)'
    <3>1. Works(d, k) /\ d # c
      BY <2>5, <2>6, <2>9
    <3>2. Written(d, k) /\ pc'[d] = pc[d] /\ op'[d] = op[d]
      BY <2>2, <2>3, <3>1 DEF Settled
    <3>3. (MapHas(cache', k) <=> MapHas(db, k)) /\ (MapHas(db, k) => cache'[k] = db[k])
      BY <2>1, <2>4 DEF Agrees
    <3> QED
      BY <2>1, <3>2, <3>3 DEF Written, Merged
  <2> QED
    BY <2>4, <2>7, <2>8, <2>9 DEF Settled
\* A write to the table: of the key that is written, and of the others.
<1>d. ASSUME NEW c \in Clients, NEW k, Spoil(c, k)
      PROVE  /\ spoiled \subseteq spoiled'
             /\ k \in Keys \ spoiled' =>
                   \A d \in Clients : d # c => pc[d] # "loaded" /\ ~Works(d, k)
  BY <1>d DEF Spoil, Loaders, Writers, Works, WriterPcs
<1>e. ASSUME NEW c \in Clients, pc[c] = "idle", NEW where \in WriterPcs, NEW o,
             pc' = [pc EXCEPT ![c] = where], op' = [op EXCEPT ![c] = o],
             UNCHANGED <<configVars, loaded, cache>>,
             NEW k \in Keys \ spoiled', spoiled \subseteq spoiled', o.key # k,
             MapHas(db', k) <=> MapHas(db, k), MapHas(db, k) => db'[k] = db[k]
      PROVE  Settled(k)'
  <2>1. Settled(k)
    BY <1>a, <1>e
  <2>2. /\ \A d \in Clients : d # c => pc'[d] = pc[d] /\ op'[d] = op[d]
        /\ pc'[c] = where /\ op'[c] = o
    BY <1>0, <1>e
  <2>3. ~Works(c, k) /\ ~Works(c, k)'
    BY <1>e, <2>2 DEF Works, WriterPcs
  <2>4. /\ cache' = cache /\ loaded' = loaded /\ updateNames' = updateNames
        /\ pc[c] # "loaded" /\ pc'[c] # "loaded"
    BY <1>e, <2>2 DEF configVars, WriterPcs
  <2> QED
    BY <1>e, <2>1, <2>2, <2>3, <2>4, Frame
<1>f. ASSUME NEW c \in Clients, NEW where \in WriterPcs, NEW o,
             pc' = [pc EXCEPT ![c] = where], op' = [op EXCEPT ![c] = o],
             NEW k, Spoil(c, k), k \in Keys \ spoiled', o.key = k, Written(c, k)'
      PROVE  Settled(k)'
  <2>1. /\ \A d \in Clients : d # c => pc'[d] = pc[d] /\ op'[d] = op[d]
        /\ pc'[c] = where /\ op'[c] = o
    BY <1>0, <1>f
  <2>2. Works(c, k)'
    BY <1>f, <2>1 DEF Works
  <2>3. \A d \in Clients : d # c => pc[d] # "loaded" /\ ~Works(d, k)
    BY <1>d, <1>f
  <2> QED
    BY <1>f, <2>1, <2>2, <2>3, FirstStep
<1>5. ASSUME NEW c \in Clients, NEW row \in Rows, InsertDb(c, row) PROVE CacheIInv'
  <2>1. /\ pc[c] = "idle" /\ db' = MapSet(db, nextId, row)
        /\ pc' = [pc EXCEPT ![c] = "inserted"] /\ UNCHANGED <<configVars, loaded, cache>>
    BY <1>5 DEF InsertDb, AddRow, Start, Go
  <2>2. PICK known \in {TRUE, FALSE, signedKey} :
          /\ op' = [op EXCEPT ![c] = [NoOp EXCEPT !.row = row, !.key = IF known THEN nextId ELSE Zero]]
          /\ IF known THEN Spoil(c, nextId) ELSE spoiled' = spoiled \cup {nextId}
    BY <1>5 DEF InsertDb
  <2> DEFINE o == [NoOp EXCEPT !.row = row, !.key = IF known THEN nextId ELSE Zero]
  <2>3. /\ op' = [op EXCEPT ![c] = o] /\ o.row = row
        /\ o.key = IF known THEN nextId ELSE Zero
    BY <2>2 DEF NoOp
  <2> HIDE DEF o
  <2>4. spoiled \subseteq spoiled'
    BY <1>d, <2>2
  <2> SUFFICES ASSUME NEW k \in Keys \ spoiled'
               PROVE  Settled(k)'
    BY DEF CacheIInv
  <2>5. k # Zero
    BY CacheAssumption DEF Keys, Zero
  <2>6. CASE k # nextId
    <3>1. o.key # k
      BY <2>3, <2>5, <2>6
    <3>2. (MapHas(db', k) <=> MapHas(db, k)) /\ (MapHas(db, k) => db'[k] = db[k])
      BY <2>1, <2>6 DEF MapHas, MapSet
    <3>3. "inserted" \in WriterPcs
      BY DEF WriterPcs
    <3> QED
      BY <1>e, <2>1, <2>3, <2>4, <3>1, <3>2, <3>3
  <2>7. CASE k = nextId
    <3>1. known /\ Spoil(c, k) /\ o.key = k
      BY <2>2, <2>3, <2>7
    <3>2. pc'[c] = "inserted" /\ op'[c].row = row
      BY <1>0, <2>1, <2>3
    <3>3. MapHas(db', k) /\ db'[k] = row
      BY <2>1, <2>7 DEF MapHas, MapSet
    <3>4. Written(c, k)'
      BY <3>2, <3>3 DEF Written
    <3>5. "inserted" \in WriterPcs
      BY DEF WriterPcs
    <3> QED
      BY <1>f, <2>1, <2>3, <3>1, <3>4, <3>5
  <2> QED
    BY <2>6, <2>7
\* The row that a panic leaves in the table alone is one of a spoiled key.
<1>i. ASSUME NEW c \in Clients, NEW row \in Rows, InsertPanic(c, row) PROVE CacheIInv'
  <2>1. /\ pc[c] = "idle" /\ db' = MapSet(db, nextId, row) /\ spoiled' = spoiled \cup {nextId}
        /\ pc' = [pc EXCEPT ![c] = "panic"] /\ UNCHANGED <<configVars, loaded, cache, op>>
    BY <1>i DEF InsertPanic, AddRow, Start, Go
  <2> SUFFICES ASSUME NEW k \in Keys \ spoiled'
               PROVE  Settled(k)'
    BY DEF CacheIInv
  <2>2. Settled(k) /\ k # nextId
    BY <1>a, <2>1
  <2>3. (MapHas(db', k) <=> MapHas(db, k)) /\ (MapHas(db, k) => db'[k] = db[k])
    BY <2>1, <2>2 DEF MapHas, MapSet
  <2>4. pc'[c] = "panic" /\ \A d \in Clients : d # c => pc'[d] = pc[d] /\ op'[d] = op[d]
    BY <1>0, <2>1
  <2>5. ~Works(c, k) /\ ~Works(c, k)' /\ pc[c] # "loaded" /\ pc'[c] # "loaded"
    BY <2>1, <2>4 DEF Works, WriterPcs
  <2>6. cache' = cache /\ loaded' = loaded /\ updateNames' = updateNames
    BY <2>1 DEF configVars
  <2> QED
    BY <2>2, <2>3, <2>4, <2>5, <2>6, Frame
<1>6. ASSUME NEW c \in Clients, NEW k \in DOMAIN db \cup DOMAIN cache, NEW row \in Rows,
             UpdateDb(c, k, row)
      PROVE  CacheIInv'
  <2> DEFINE o == [NoOp EXCEPT !.key = k, !.row = row]
  <2>1. /\ pc[c] = "idle" /\ op' = [op EXCEPT ![c] = o] /\ Spoil(c, k)
        /\ ~MapHas(db, k) => db' = db
        /\ MapHas(db, k) => db' = MapSet(db, k, Merged(db[k], row))
        /\ pc' = [pc EXCEPT ![c] = "updated"] /\ UNCHANGED <<configVars, loaded, cache>>
    BY <1>6 DEF UpdateDb, Start, Go, Merged
  <2>2. o.key = k /\ o.row = row
    BY DEF NoOp
  <2> HIDE DEF o
  <2>3. spoiled \subseteq spoiled' /\ "updated" \in WriterPcs
    BY <1>d, <2>1 DEF WriterPcs
  <2> SUFFICES ASSUME NEW x \in Keys \ spoiled'
               PROVE  Settled(x)'
    BY DEF CacheIInv
  <2>4. CASE x # k
    <3>1. (MapHas(db', x) <=> MapHas(db, x)) /\ (MapHas(db, x) => db'[x] = db[x])
      BY <2>1, <2>4 DEF MapHas, MapSet
    <3> QED
      BY <1>e, <2>1, <2>2, <2>3, <2>4, <3>1
  <2>5. CASE x = k
    <3>1. pc'[c] = "updated" /\ op'[c].row = row
      BY <1>0, <2>1, <2>2
    <3>2. loaded => Agrees(cache, k)
      <4>1. Settled(k)
        BY <1>a, <2>3, <2>5
      <4>2. \A d \in Clients : pc[d] # "loaded" /\ ~Works(d, k)
        BY <1>d, <2>1, <2>5 DEF Works, WriterPcs
      <4> QED
        BY <4>1, <4>2 DEF Settled
    <3>3. MapHas(db', k) <=> MapHas(db, k)
      BY <2>1 DEF MapHas, MapSet
    <3>4. MapHas(db, k) => db'[k] = Merged(db[k], row)
      BY <2>1 DEF MapHas, MapSet
    <3>5. MapHas(db, k) => Merged(db'[k], row) = db'[k]
      <4>1. MapHas(db, k) => db[k] \in Rows
        BY <1>0, MapForm DEF MapHas
      <4> QED
        BY <3>4, <4>1, MergeAgain
    <3>6. MapHas(db, k) /\ loaded => cache[k] = db[k]
      BY <3>2 DEF Agrees
    <3>7. loaded => (MapHas(cache, k) <=> MapHas(db, k))
      BY <3>2 DEF Agrees
    <3>8. /\ cache' = cache /\ loaded' = loaded /\ updateNames' = updateNames
      BY <2>1 DEF configVars
    <3>9. Written(c, k)'
      BY <3>1, <3>3, <3>4, <3>5, <3>6, <3>7, <3>8 DEF Written, Merged
    <3> QED
      BY <1>f, <2>1, <2>2, <2>3, <2>5, <3>9
  <2> QED
    BY <2>4, <2>5
<1>7. ASSUME NEW c \in Clients, NEW k \in DOMAIN db \cup DOMAIN cache, DeleteDb(c, k)
      PROVE  CacheIInv'
  <2> DEFINE o == [NoOp EXCEPT !.key = k]
  <2>1. /\ pc[c] = "idle" /\ op' = [op EXCEPT ![c] = o] /\ Spoil(c, k) /\ db' = MapDelete(db, k)
        /\ pc' = [pc EXCEPT ![c] = "deleted"] /\ UNCHANGED <<configVars, loaded, cache>>
    BY <1>7 DEF DeleteDb, Start, Go
  <2>2. o.key = k
    BY DEF NoOp
  <2> HIDE DEF o
  <2>3. spoiled \subseteq spoiled' /\ "deleted" \in WriterPcs
    BY <1>d, <2>1 DEF WriterPcs
  <2> SUFFICES ASSUME NEW x \in Keys \ spoiled'
               PROVE  Settled(x)'
    BY DEF CacheIInv
  <2>4. CASE x # k
    <3>1. (MapHas(db', x) <=> MapHas(db, x)) /\ (MapHas(db, x) => db'[x] = db[x])
      BY <2>1, <2>4 DEF MapHas, MapDelete
    <3> QED
      BY <1>e, <2>1, <2>2, <2>3, <2>4, <3>1
  <2>5. CASE x = k
    <3>1. pc'[c] = "deleted"
      BY <1>0, <2>1
    <3>2. ~MapHas(db', k)
      BY <2>1 DEF MapHas, MapDelete
    <3>3. Written(c, k)'
      BY <3>1, <3>2 DEF Written
    <3> QED
      BY <1>f, <2>1, <2>2, <2>3, <2>5, <3>3
  <2> QED
    BY <2>4, <2>5
\* The last step of a write: c was the only client that worked on its key,
\* and the others are left alone.
<1>g. ASSUME NEW c \in Clients, pc[c] \in WriterPcs, pc'[c] \in {"idle", "panic"},
             \A d \in Clients : d # c => pc'[d] = pc[d] /\ op'[d] = op[d],
             UNCHANGED <<configVars, db, loaded, spoiled>>,
             \A x \in Keys : x # op[c].key => (MapHas(cache', x) <=> MapHas(cache, x)),
             \A x \in Keys : x # op[c].key /\ MapHas(cache, x) => cache'[x] = cache[x],
             \A k : loaded /\ k = op[c].key /\ Written(c, k) => Agrees(cache, k)'
      PROVE  CacheIInv'
  <2> SUFFICES ASSUME NEW k \in Keys \ spoiled'
               PROVE  Settled(k)'
    BY DEF CacheIInv
  <2>1. Settled(k)
    BY <1>a, <1>g
  <2>2. /\ db' = db /\ loaded' = loaded /\ updateNames' = updateNames
        /\ pc[c] # "loaded" /\ pc'[c] # "loaded"
    BY <1>g DEF configVars, WriterPcs
  <2>3. CASE op[c].key # k
    <3>1. ~Works(c, k) /\ ~Works(c, k)'
      BY <1>g, <2>3 DEF Works, WriterPcs
    <3> QED
      BY <1>g, <2>1, <2>2, <2>3, <3>1, Frame
  <2>4. CASE op[c].key = k
    <3>1. Works(c, k)
      BY <1>g, <2>4 DEF Works
    <3>2. Written(c, k)
      BY <2>1, <3>1 DEF Settled
    <3>3. loaded => Agrees(cache, k)'
      BY <1>g, <2>4, <3>2
    <3> QED
      BY <1>g, <2>1, <2>2, <3>1, <3>3, LastStep
  <2> QED
    BY <2>3, <2>4
\* Where pc and op go when an operation ends.
<1>h. ASSUME NEW c \in Clients,
             \/ pc' = [pc EXCEPT ![c] = "panic"] /\ op' = op
             \/ pc' = [pc EXCEPT ![c] = "idle"] /\ op' = [op EXCEPT ![c] = NoOp]
      PROVE  /\ pc'[c] \in {"idle", "panic"}
             /\ \A d \in Clients : d # c => pc'[d] = pc[d] /\ op'[d] = op[d]
  BY <1>0, <1>h
<1>8. ASSUME NEW c \in Clients, InsertCache(c) PROVE CacheIInv'
  <2>1. /\ pc[c] = "inserted" /\ UNCHANGED <<configVars, db, loaded, spoiled>>
        /\ \/ pc' = [pc EXCEPT ![c] = "panic"] /\ op' = op
           \/ pc' = [pc EXCEPT ![c] = "idle"] /\ op' = [op EXCEPT ![c] = NoOp]
        /\ ~loaded => cache' = cache
        /\ loaded => cache' = MapSet(cache, op[c].key, op[c].row)
    BY <1>8 DEF InsertCache, Go
  <2>2. /\ \A x \in Keys : x # op[c].key => (MapHas(cache', x) <=> MapHas(cache, x))
        /\ \A x \in Keys : x # op[c].key /\ MapHas(cache, x) => cache'[x] = cache[x]
    BY <1>0, <2>1 DEF MapHas, MapSet
  <2>3. \A k : loaded /\ k = op[c].key /\ Written(c, k) => Agrees(cache, k)'
    <3> SUFFICES ASSUME NEW k, loaded, k = op[c].key, Written(c, k)
                 PROVE  Agrees(cache, k)'
      OBVIOUS
    <3>1. MapHas(db, k) /\ db[k] = op[c].row
      BY <2>1 DEF Written
    <3>2. MapHas(cache', k) /\ cache'[k] = op[c].row
      BY <2>1 DEF MapHas, MapSet
    <3> QED
      BY <2>1, <3>1, <3>2 DEF Agrees
  <2>4. pc[c] \in WriterPcs
    BY <2>1 DEF WriterPcs
  <2> QED
    BY <1>g, <1>h, <2>1, <2>2, <2>3, <2>4
<1>9. ASSUME NEW c \in Clients, UpdateSet(c) PROVE CacheIInv'
  <2>1. /\ pc[c] = "merging" /\ UNCHANGED <<configVars, db, loaded, spoiled>>
        /\ pc' = [pc EXCEPT ![c] = "idle"] /\ op' = [op EXCEPT ![c] = NoOp]
        /\ cache' = MapSet(cache, op[c].key, Merged(op[c].old, op[c].row))
    BY <1>9 DEF UpdateSet, Go
  <2>2. /\ \A x \in Keys : x # op[c].key => (MapHas(cache', x) <=> MapHas(cache, x))
        /\ \A x \in Keys : x # op[c].key /\ MapHas(cache, x) => cache'[x] = cache[x]
    BY <1>0, <2>1 DEF MapHas, MapSet
  <2>3. \A k : loaded /\ k = op[c].key /\ Written(c, k) => Agrees(cache, k)'
    <3> SUFFICES ASSUME NEW k, loaded, k = op[c].key, Written(c, k)
                 PROVE  Agrees(cache, k)'
      OBVIOUS
    <3>1. MapHas(db, k) /\ db[k] = Merged(op[c].old, op[c].row)
      BY <2>1 DEF Written
    <3>2. MapHas(cache', k) /\ cache'[k] = Merged(op[c].old, op[c].row)
      BY <2>1 DEF MapHas, MapSet
    <3> QED
      BY <2>1, <3>1, <3>2 DEF Agrees
  <2>4. pc[c] \in WriterPcs
    BY <2>1 DEF WriterPcs
  <2> QED
    BY <1>g, <1>h, <2>1, <2>2, <2>3, <2>4
<1>10. ASSUME NEW c \in Clients, DeleteCache(c) PROVE CacheIInv'
  <2>1. /\ pc[c] = "deleted" /\ UNCHANGED <<configVars, db, loaded, spoiled>>
        /\ \/ pc' = [pc EXCEPT ![c] = "panic"] /\ op' = op
           \/ pc' = [pc EXCEPT ![c] = "idle"] /\ op' = [op EXCEPT ![c] = NoOp]
        /\ ~loaded => cache' = cache
        /\ loaded => cache' = MapDelete(cache, op[c].key)
    BY <1>10 DEF DeleteCache, Go
  <2>2. /\ \A x \in Keys : x # op[c].key => (MapHas(cache', x) <=> MapHas(cache, x))
        /\ \A x \in Keys : x # op[c].key /\ MapHas(cache, x) => cache'[x] = cache[x]
    BY <1>0, <2>1 DEF MapHas, MapDelete
  <2>3. \A k : loaded /\ k = op[c].key /\ Written(c, k) => Agrees(cache, k)'
    <3> SUFFICES ASSUME NEW k, loaded, k = op[c].key, Written(c, k)
                 PROVE  Agrees(cache, k)'
      OBVIOUS
    <3>1. ~MapHas(db, k)
      BY <2>1 DEF Written
    <3>2. ~MapHas(cache', k)
      BY <2>1 DEF MapHas, MapDelete
    <3> QED
      BY <2>1, <3>1, <3>2 DEF Agrees
  <2>4. pc[c] \in WriterPcs
    BY <2>1 DEF WriterPcs
  <2> QED
    BY <1>g, <1>h, <2>1, <2>2, <2>3, <2>4
\* An update of what the map does not have ends, otherwise it has the old
\* value in hand.
<1>11. ASSUME NEW c \in Clients, UpdateGet(c) PROVE CacheIInv'
  <2>1. /\ pc[c] = "updated" /\ UNCHANGED <<configVars, db, loaded, cache, spoiled>>
        /\ \/ ~loaded /\ pc' = [pc EXCEPT ![c] = "panic"] /\ op' = op
           \/ /\ ~MapHas(cache, op[c].key)
              /\ pc' = [pc EXCEPT ![c] = "idle"] /\ op' = [op EXCEPT ![c] = NoOp]
           \/ /\ loaded /\ MapHas(cache, op[c].key) /\ pc' = [pc EXCEPT ![c] = "merging"]
              /\ op' = [op EXCEPT ![c] = [op[c] EXCEPT !.old = cache[op[c].key]]]
    BY <1>11 DEF UpdateGet, Go
  <2>2. pc[c] \in WriterPcs
    BY <2>1 DEF WriterPcs
  <2>3. CASE \/ ~loaded /\ pc' = [pc EXCEPT ![c] = "panic"] /\ op' = op
             \/ /\ ~MapHas(cache, op[c].key)
                /\ pc' = [pc EXCEPT ![c] = "idle"] /\ op' = [op EXCEPT ![c] = NoOp]
    <3>1. \A k : loaded /\ k = op[c].key /\ Written(c, k) => Agrees(cache, k)'
      <4> SUFFICES ASSUME NEW k, loaded, k = op[c].key, Written(c, k)
                   PROVE  Agrees(cache, k)'
        OBVIOUS
      <4>1. ~MapHas(cache, k)
        BY <2>3
      <4>2. ~MapHas(db, k)
        BY <2>1, <4>1 DEF Written
      <4> QED
        BY <2>1, <4>1, <4>2 DEF Agrees
    <3>2. /\ pc'[c] \in {"idle", "panic"}
          /\ \A d \in Clients : d # c => pc'[d] = pc[d] /\ op'[d] = op[d]
      BY <1>h, <2>3
    <3> QED
      BY <1>g, <2>1, <2>2, <3>1, <3>2
  <2>4. CASE /\ loaded /\ MapHas(cache, op[c].key) /\ pc' = [pc EXCEPT ![c] = "merging"]
             /\ op' = [op EXCEPT ![c] = [op[c] EXCEPT !.old = cache[op[c].key]]]
    <3> SUFFICES ASSUME NEW k \in Keys \ spoiled'
                 PROVE  Settled(k)'
      BY DEF CacheIInv
    <3>1. Settled(k)
      BY <1>a, <2>1
    <3>2. /\ pc'[c] = "merging" /\ op'[c].key = op[c].key /\ op'[c].row = op[c].row
          /\ op'[c].old = cache[op[c].key]
          /\ \A d \in Clients : d # c => pc'[d] = pc[d] /\ op'[d] = op[d]
      BY <1>0, <2>4 DEF Ops
    <3>3. /\ db' = db /\ cache' = cache /\ loaded' = loaded /\ updateNames' = updateNames
      BY <2>1 DEF configVars
    <3>4. CASE op[c].key # k
      <4>1. ~Works(c, k) /\ ~Works(c, k)' /\ pc[c] # "loaded" /\ pc'[c] # "loaded"
        BY <2>1, <3>2, <3>4 DEF Works, WriterPcs
      <4> QED
        BY <3>1, <3>2, <3>3, <4>1, Frame
    <3>5. CASE op[c].key = k
      <4>1. Works(c, k) /\ Works(c, k)'
        BY <2>2, <3>2, <3>5 DEF Works, WriterPcs
      <4>2. \A d \in Clients : d # c => ~Works(d, k)
        BY <3>1, <4>1 DEF Settled
      <4>3. \A d \in Clients : d # c => ~Works(d, k)'
        BY <3>2, <4>2 DEF Works
      <4>4. Written(c, k)
        BY <3>1, <4>1 DEF Settled
      <4>5. MapHas(db, k) /\ db[k] = Merged(cache[k], op[c].row)
        BY <2>1, <2>4, <3>5, <4>4 DEF Written
      <4>6. Written(c, k)'
        BY <3>2, <3>3, <3>5, <4>5 DEF Written, Merged
      <4>7. ASSUME NEW d \in Clients, pc'[d] = "loaded" PROVE Agrees(op[d].rows, k)'
        <5>1. pc[d] = "loaded" /\ op'[d] = op[d]
          BY <3>2, <4>7
        <5>2. Agrees(op[d].rows, k)
          BY <3>1, <5>1 DEF Settled
        <5> QED
          BY <3>3, <5>1, <5>2 DEF Agrees
      <4>8. \A d \in Clients : Works(d, k)' => d = c
        BY <4>3
      <4> QED
        BY <4>1, <4>6, <4>7, <4>8 DEF Settled
    <3> QED
      BY <3>4, <3>5
  <2> QED
    BY <2>1, <2>3, <2>4
<1>12. CASE UNCHANGED vars
  <2>1. /\ db' = db /\ loaded' = loaded /\ cache' = cache /\ pc' = pc /\ op' = op
        /\ spoiled' = spoiled /\ updateNames' = updateNames
    BY <1>12 DEF vars, configVars
  <2> QED
    BY <2>1 DEF CacheIInv, Settled, Works, Agrees, Written, Merged
<1> QED
  BY <1>1, <1>2, <1>3, <1>4, <1>5, <1>i, <1>6, <1>7, <1>8, <1>9, <1>10, <1>11, <1>12 DEF Next

LEMMA SettledAlways == Spec => []CacheIInv
  BY TypeAlways, SettledInit, SettledStep, PTL DEF Spec

\* Types, and: between operations a loaded cache is the table, for every key
\* whose operations did not overlap (dbcache.go:132-245).
THEOREM CacheCorrect == Spec => []CacheInv
<1>1. TypeInv /\ CacheIInv => CacheInv
  <2> SUFFICES ASSUME TypeInv, CacheIInv PROVE CacheInv
    OBVIOUS
  <2>1. ASSUME loaded, Loaders = {}, NEW k \in Keys \ spoiled, Writers(k) = {}
        PROVE  Agrees(cache, k)
    <3>1. \A c \in Clients : pc[c] # "loaded" /\ ~Works(c, k)
      BY <2>1 DEF Loaders, Writers, Works, WriterPcs
    <3>2. Settled(k)
      BY DEF CacheIInv
    <3> QED
      BY <2>1, <3>1, <3>2 DEF Settled
  <2>2. Agreement
    BY <2>1 DEF Agreement, Agrees
  <2> QED
    BY <2>2 DEF TypeInv, CacheInv
<1> QED
  BY <1>1, TypeAlways, SettledAlways, PTL

=============================================================================
