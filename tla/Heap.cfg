\* A one-shot timer that may be reset once, and a ticker, on channels of one.
SPECIFICATION FairSpec
CONSTANTS
    Timers = {a}
    Tickers = {k}
    Durations = {1, 2}
    ChanCap = 1
    MaxResets = 1
    LastCall = 1
    MaxClock = 2
INVARIANTS HeldOnce TimerKept
PROPERTIES NeverEarly StopSilences TimerFires
