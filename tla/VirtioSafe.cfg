\* Two transfers fit in the queue, the third waits; the idx counters wrap.
SPECIFICATION Spec
CONSTANTS
    Procs = {p1, p2, p3}
    Sectors = {s1, s2, s3}
    Values = {v0, v1}
    InitValue = v0
    NUM = 8
    IdxMod = 8
    Start = 6
    MaxCalls = 4
    Intr = Intr
    None = None
SYMMETRY Symmetry
INVARIANTS TransferIsSomewhere NoLostSignal
PROPERTY ImplementsDiskRequests
