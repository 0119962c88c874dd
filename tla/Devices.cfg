\* Rings of two or three bytes, counters that wrap, two actors of every kind, file
\* tables that fill up.
SPECIFICATION Spec
CONSTANTS
    MODULUS = 6
    None = None
    Readers = {p1, p2}
    INPUT_BUF_SIZE = 3
    MAXN = 3
    Chars = {a, nl, eof}
    Newline = nl
    Eof = eof
    Writers = {w1, w2}
    Syncers = {s1, s2}
    Handler = h
    OutBytes = {a, b}
    Echo = echo
    UART_TX_BUF_SIZE = 2
    FIFO = 3
    Sleepers = {q1, q2}
    MAXTICKS = 3
    MAXLAG = 2
    Threads = {t1, t2}
    CPUs = {c1, c2}
    lk = lk
    People = {q3, q4}
    FirstPerson = q3
    NFILE = 3
    NOFILE = 3
    PipeIds = {k1}
    InodeIds = {i1}
SYMMETRY Symmetry
INVARIANTS ReaderIsWoken OutputMoves LocksMaskInterrupts InterruptStateFollows
    OpenWhileDescribed
PROPERTIES ImplementsLineDiscipline ImplementsFifo SleepsForN
