\* Up to three pieces in chunks of one or two, for up to three workers; two
\* results fill the channel of results.
SPECIFICATION FairSpec
CONSTANTS
    MaxPieces = 3
    MaxWorkers = 3
    ChunkSizes = {0, 2}
    ResultCap = 2
INVARIANTS AtMostOnce NilMeansComplete ErrorReported QuietAfterReturn
PROPERTY Returns
CHECK_DEADLOCK FALSE
