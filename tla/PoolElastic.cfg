\* An elastic pool, started once and then used: 1 to 2 workers, 2 submitters.
SPECIFICATION Spec
CONSTANTS
    Submitters = {s1, s2}
    Starters = {b}
    Stoppers = {e}
    Workers = {w1, w2, w3}
    Tasks = {t1, t2, t3, t4}
    MinWorker = 1
    MaxWorker = 2
    ChanSize = 2
    GrowLen = 1
    RejectPolicies <- ElasticPolicies
    StartFirst = TRUE
    None = None
SYMMETRY Symmetry
INVARIANT WorkerBound
