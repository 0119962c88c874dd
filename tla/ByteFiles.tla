----------------------------- MODULE ByteFiles -----------------------------
(***************************************************************************)
(* What reading and writing files promises: a file is a sequence of bytes  *)
(* of bounded length without holes, an open file has an offset in it, and  *)
(* read(), write() and truncation act on them one at a time.               *)
(***************************************************************************)
EXTENDS Naturals, Sequences

CONSTANTS
    FileSet, OpenSet, FileOfOpen, ByteValues,
    MaxLength,  \* of a file
    MaxPiece,   \* bytes that are read or written at once
    MaxExtra    \* bytes that a failed copy may change besides

VARIABLES
    content,    \* the bytes of each file
    offset      \* of each open file

BInit ==
    /\ content = [i \in FileSet |-> <<>>]
    /\ offset = [f \in OpenSet |-> 0]

\* s with k bytes v written at position at; there is no hole before them.
Overwrite(s, at, k, v) ==
    [j \in 1 .. (IF at + k > Len(s) THEN at + k ELSE Len(s)) |->
        IF at < j /\ j <= at + k THEN v ELSE s[j]]

\* k bytes are written and counted.  A copy from user memory that fails may
\* leave a few more bytes of the old contents changed that are not counted.
BWrite(f, k, more, v) ==
    LET i == FileOfOpen[f] IN
    /\ offset[f] <= Len(content[i]) /\ offset[f] + k <= MaxLength
    /\ offset[f] + k + more <= Len(content[i]) \/ more = 0
    /\ content' = [content EXCEPT ![i] = Overwrite(@, offset[f], k + more, v)]
    /\ offset' = [offset EXCEPT ![f] = @ + k]

\* The bytes from the offset on, as many as there are, up to n.
BRead(f, n) ==
    LET rest == Len(content[FileOfOpen[f]]) - offset[f] IN
    /\ offset[f] <= Len(content[FileOfOpen[f]])
    /\ offset' = [offset EXCEPT ![f] = @ + (IF n < rest THEN n ELSE rest)]
    /\ UNCHANGED content

BTruncate(i) == content' = [content EXCEPT ![i] = <<>>] /\ UNCHANGED offset

BOpen(f) == offset' = [offset EXCEPT ![f] = 0] /\ UNCHANGED content

BNext ==
    \/ \E f \in OpenSet, k \in 0 .. MaxPiece, more \in 0 .. MaxExtra, v \in ByteValues :
          BWrite(f, k, more, v)
    \/ \E f \in OpenSet, n \in 0 .. MaxPiece : BRead(f, n)
    \/ \E i \in FileSet : BTruncate(i)
    \/ \E f \in OpenSet : BOpen(f)

BSpec == BInit /\ [][BNext]_<<content, offset>>
===========================================================================
