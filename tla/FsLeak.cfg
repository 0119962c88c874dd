\* The instance of Kernel.cfg; the last reference to an inode without links is dropped.
SPECIFICATION FsSpec
CONSTANTS
    Clients = {p1, p2}
    NINODES = 4
    Names = {"a", "x"}
    Calls <- TreeCalls
SYMMETRY FsSymmetry
PROPERTY LastPutFrees
