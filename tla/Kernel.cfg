\* Proc: init, a process, its child; two CPUs.  Vm: memory for two processes and
\* an exec() that may fail.  Fs: two processes, a root with room for one directory
\* and one file.
SPECIFICATION KernelSpec
CONSTANTS
    Procs = {init, p1, p2}
    CPUs = {c1, c2}
    initproc = init
    None = None
    Clients = {x1, x2}
    NINODES = 4
    Names = {"a", "x"}
    Calls <- TreeCalls
    Tasks = {t1, t2}
    FirstTask = t1
    NPAGES = 17
    PGSIZE = 2
    FANOUT = 3
    Segments = {0, 3}
    USERSTACK = 1
    MAXARG = 1
    Increments = {1, 4}
SYMMETRY Symmetry
INVARIANTS
    OneCpuPerStack HasParent NoLostWakeup MemoryAccounted
     RefsCounted LocksCannotDeadlock 
