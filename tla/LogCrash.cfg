\* Two calls at a time, three blocks, the mkfs layout (NLOG = LOGSIZE): crash
\* anywhere, also inside a disk write and during recovery.
SPECIFICATION Spec
CONSTANTS
    Procs = {p1, p2}
    Blocks = {b1, b2, b3}
    Values = {v0, v1}
    InitValue = v0
    Torn = Torn
    NoBuf = NoBuf
    MAXOPBLOCKS = 2
    OPBLOCKS = 2
    LOGSIZE = 4
    NLOG = 4
SYMMETRY Symmetry
INVARIANTS LogInvariant QuietMeansInstalled
PROPERTY ImplementsTransactions
