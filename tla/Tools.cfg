\* Profiles: two goroutines of the application that share their stoppers and the
\* signal loop, three profiles, three signals, one file that cannot be created;
\* the application may run a block and a CPU profile, or a trace, of its own.
SPECIFICATION Spec
CONSTANTS
    e1 = e1
    e2 = e2
    e3 = e3
    e4 = e4
    Elements = {e1, e2, e3, e4}
    Priority <- FourPriorities
    Zero = 0
    Sources <- OneSource
    Predicates = {{2, 3}}
    Given <- ThreeSlices
    Accepted = {{1}, {2, 3}, {}}
    Half = 2
    Limits = {0, 2}
    MaxStages = 3
    MaxRuns = 2
    Apps = {a1, a2}
    SignalLoop = loop
    MaxProfiles = 3
    MaxSignals = 3
    MaxFailures = 1
    Presets = {{}, {"block", "cpu"}, {"cpu", "mutex", "trace"}}
INVARIANTS ProfilesKeep StreamsAgree QueuesKeep SlicesKeep
PROPERTY ProfilesEnd
CHECK_DEADLOCK FALSE
