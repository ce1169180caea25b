\* Submit races with Shutdown in a pool that is started first and stopped once.
SPECIFICATION FairSpec
CONSTANTS
    Submitters = {s1}
    Starters = {b}
    Stoppers = {e}
    Workers = {w1}
    Tasks = {t1}
    MinWorker = 1
    MaxWorker = 1
    ChanSize = 1
    GrowLen = 0
    RejectPolicies <- Abort
    StartFirst = TRUE
    None = None
INVARIANT SubmitReturns
