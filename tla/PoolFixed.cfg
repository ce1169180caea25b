\* A pool of two workers that never grows nor shrinks, shut down once.
SPECIFICATION FairSpec
CONSTANTS
    Submitters = {s1}
    Starters = {b}
    Stoppers = {e}
    Workers = {w1, w2}
    Tasks = {t1, t2}
    MinWorker = 2
    MaxWorker = 2
    ChanSize = 1
    GrowLen = 0
    RejectPolicies <- Abort
    StartFirst = TRUE
    None = None
INVARIANT DrainComplete
PROPERTIES TaskServed ShutdownEnds
