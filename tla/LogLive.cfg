\* More callers than the log has room for: two calls run, the third sleeps.
SPECIFICATION LiveSpec
CONSTANTS
    Procs = {p1, p2, p3}
    Blocks = {b1, b2}
    Values = {v0}
    InitValue = v0
    Torn = Torn
    NoBuf = NoBuf
    MAXOPBLOCKS = 3
    OPBLOCKS = 1
    LOGSIZE = 6
    NLOG = 6
 
PROPERTY SleeperIsWoken
