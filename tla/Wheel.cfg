\* A one-shot timer that may be reset, and a ticker: their pushes can race, and
\* either can stand in front of the other with circles to go.  The durations are
\* a truncated one of no interval, one interval, and a truncated whole circle.
SPECIFICATION FairSpec
CONSTANTS
    Timers = {a}
    Tickers = {k}
    SC = 2
    SI = 2
    Durations = {1, 2, 5}
    MaxDuration = 5
    MaxResets = 1
    Wheel = Wheel
    None = None
INVARIANT WheelInv
PROPERTIES OnTime TimerStopSilences TimerFires
