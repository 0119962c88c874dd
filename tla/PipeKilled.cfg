\* Three processes with any share of the two ends, a ring of two bytes, counters
\* that wrap after four, calls that may have to stop half way.
SPECIFICATION Spec
CONSTANTS
    Procs = {p1, p2, p3}
    Bytes = {a, b}
    PIPESIZE = 2
    MODULUS = 4
    MAXN = 2
    None = None
SYMMETRY Symmetry
CHECK_DEADLOCK FALSE
INVARIANT ReaderSleepsOnEmpty
