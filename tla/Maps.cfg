\* Two goroutines and the cleaner on the map of an expiration map and on
\* another map.
SPECIFICATION FairSpec
CONSTANTS
    k1 = k1
    k2 = k2
    v1 = v1
    v2 = v2
    Clients = {c1, c2, cleaner}
    Cleaner = cleaner
    Addrs = {1, 2}
    Inner = 1
    Keys = {k1, k2}
    Vals = {v1, v2}
    Initial <- InitialMaps
    Batches <- AllOf
    None = None
    Durations = {1}
    MaxTime = 2
    MaxCalls = 2
INVARIANTS ExpirationInv LockOrder MergeIsSnapshot
PROPERTIES NeverEarly Cleaned CallsReturn
CHECK_DEADLOCK FALSE
