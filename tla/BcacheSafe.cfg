\* A buffer for each of two processes and for the log's pin; one block more
\* than buffers, so that buffers are recycled.
SPECIFICATION Spec
CONSTANTS
    Procs = {p1, p2}
    Blocks = {b1, b2, b3, b4}
    Values = {v0, v1}
    InitValue = v0
    Bufs = {f1, f2, f3}
    MaxPins = 1
    None = None
SYMMETRY Symmetry
INVARIANT NoLostWakeup
PROPERTY ImplementsBlockStore
