\* One CPU: threads interleave only where the timer may interrupt.
SPECIFICATION LiveSpec
CONSTANTS
    Procs = {init, p1, p2}
    CPUs = {c1}
    initproc = init
    None = None
PROPERTIES InitKeepsReaping KilledExits
