\* The pool is used before, while and after it is started, and stopped twice.
SPECIFICATION Spec
CONSTANTS
    Submitters = {s1, s2}
    Starters = {b}
    Stoppers = {e1, e2}
    Workers = {w1, w2}
    Tasks = {t1, t2}
    MinWorker = 1
    MaxWorker = 2
    ChanSize = 1
    GrowLen = 0
    RejectPolicies <- LedgerPolicies
    StartFirst = FALSE
    None = None
SYMMETRY Symmetry
INVARIANT CountExact
PROPERTY LedgerSpec
