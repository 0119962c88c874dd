\* FileData: two files that meet the limits of the disk and of an inode.  The rest:
\* every input of a small size.
SPECIFICATION ProgSpec
CONSTANTS
    u1 = u1
    u2 = u2
    Users = {u1, u2}
    Inos = {"x", "y"}
    OpenFiles = {"f", "g"}
    Holds <- FilesHeld
    InodeOf <- InodesOpen
    ByteOf <- BytesWritten
    NBLOCKS = 3
    BSIZE = 2
    NDIRECT = 1
    NINDIRECT = 1
    Counts = {3}
    MaxPerOp = 2
    Letters = {"w"}
    MaxLine = 4
    LongLines <- LongCommandLines
    MAXARGS = 3
    Commands <- CommandTrees
    Jobs = 6
    Descs = 5
    Chunks = 1
    TOP = 9
    STAGES = 5
    PIPECAP = 2
    HEAPTOP = 12
    MINCORE = 4
    HEADER = 2
    Sizes = {2, 3, 8}
    ADDRESSES = 8
    MAXVA = 6
    PAGE = 2
    MaxCopy = 5
    DIRSIZ = 2
    NameChars = {"x", "y"}
    MaxPath = 7
    GREPBUF = 4
    Patterns <- Expressions
    Texts <- ShortTexts
    FSBLOCKS = 24
    NMETA = 3
    UNIT = 2
    DIRECT = 1
    FileLists <- SizeLists
INVARIANTS
    BitmapMatches LineUnderstood PipelinesEnd  HeapPartitioned
    CopiesLikeBytes NamesRoundTrip GrepPrintsMatches ImageConsistent
 
