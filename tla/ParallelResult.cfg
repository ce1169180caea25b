\* Up to four tasks for two workers; three completions fill counter, one task
\* fills taskCh.
SPECIFICATION FairSpec
CONSTANTS
    MaxTasks = 4
    Workers = {w1, w2}
    TaskCap = 1
    CounterCap = 3
    ResultCap = 3
INVARIANT ResultInv
PROPERTY Returns
CHECK_DEADLOCK FALSE
