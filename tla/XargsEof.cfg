\* Every input of up to four characters, and a line buffer shorter than that.
SPECIFICATION XargsSpec
CONSTANTS
    Inputs <- SmallInputs
    BaseArgs <- EchoBye
    LINEBUF = 4
    ARGLIMIT = 3
CHECK_DEADLOCK FALSE
INVARIANT StopsAtEof
