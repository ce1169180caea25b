\* Two consumers that keep popping, one caller of ShutdownWithDrained,
\* delayed pushes, and Shutdown at any time.
SPECIFICATION DelayFairSpec
CONSTANTS
    Consumers = {c1, c2}
    Drainers = {d}
    Items = {i1, i2, i3}
    MayShutdown = TRUE
INVARIANTS FirstInFirstOut NoLostWakeup
PROPERTIES DrainedForGood CallersReleased DelayedArrives
