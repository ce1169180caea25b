\* Two goroutines on a table of up to two rows with two fields, one of which
\* an update sets; caches with given, with generated and with half given
\* functions, and with a primary key that is a signed integer or not.
SPECIFICATION Spec
CONSTANTS
    Clients = {c1, c2}
    Fields = {"name", "state"}
    UpdateTags = {{}, {"state"}}
    Vals = {0, 1}
    MaxKeys = 2
    MaxOps = 5
    OptionSets = {{"table", "conn", "scanner"}, {"select", "insert", "update", "delete"},
                  {"scanner", "insert", "update", "delete"}, {"table", "conn", "select"},
                  {"select", "insert", "update"}}
    SignedKeys = {TRUE, FALSE}
INVARIANT CacheInv
PROPERTY LoadedIsSafe
CHECK_DEADLOCK FALSE
