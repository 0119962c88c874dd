----------------------------- MODULE PathNames -----------------------------
(***************************************************************************)
(* Names of files: skipelem() takes a path apart (kernel/fs.c), dirlink()  *)
(* stores a name with strncpy() and dirlookup() compares with namecmp(),   *)
(* that is strncmp() (kernel/string.c).  A name field has DIRSIZ bytes and *)
(* no room for a NUL after a name of that length.                          *)
(***************************************************************************)
EXTENDS Naturals, Sequences, FiniteSets, FiniteSetsExt, SequencesExt

CONSTANTS
    DIRSIZ,
    NameChars,  \* characters of names
    MaxPath     \* length of the paths that are tried

VARIABLE path

\* The byte at position k of a string or of a field that is not terminated.
Byte(s, k) == IF k > Len(s) THEN "nul" ELSE s[k]

SkipSlashes(s) == Min({k \in s .. Len(path) + 1 : Byte(path, k) # "/"})
ElementEnd(s) == Min({k \in s .. Len(path) + 1 : Byte(path, k) \in {"/", "nul"}})

\* skipelem() from position k on, into a field that still holds the last name.
NameField_Unterminated(s, len, old) ==
    [i \in 1 .. DIRSIZ |-> IF i <= len THEN path[s + i - 1] ELSE old[i]]

NameField(s, len, old) ==
    [i \in 1 .. DIRSIZ |-> IF i <= len THEN path[s + i - 1]
                           ELSE IF i = len + 1 THEN "nul" ELSE old[i]]

skipelem(k, old) ==
    LET s == SkipSlashes(k)
        end == ElementEnd(s)
    IN  IF Byte(path, s) = "nul" THEN [found |-> FALSE]
        ELSE [found |-> TRUE, name |-> NameField(s, end - s, old), rest |-> SkipSlashes(end)]

\* The fields that the loop of namex() sees, and whether each was the last one.
RECURSIVE Walk(_, _)
Walk(k, old) ==
    LET e == skipelem(k, old) IN
    IF ~ e.found THEN <<>>
    ELSE <<[name |-> e.name, last |-> Byte(path, e.rest) = "nul"]>> \o Walk(e.rest, e.name)

\* strncpy() of a name into an empty directory entry.
strncpy(t) ==
    LET nul == Min({k \in 1 .. DIRSIZ + 1 : k > DIRSIZ \/ Byte(t, k) = "nul"}) IN
    [i \in 1 .. DIRSIZ |-> IF i < nul THEN t[i] ELSE "nul"]

\* strncmp(s, t, DIRSIZ) = 0.
namecmp(s, t) ==
    LET stop == {k \in 1 .. DIRSIZ : Byte(s, k) = "nul" \/ Byte(s, k) # Byte(t, k)} IN
    stop = {} \/ Byte(s, Min(stop)) = Byte(t, Min(stop))

PathInit == path \in UNION {[1 .. n -> NameChars \union {"/"}] : n \in 0 .. MaxPath}
---------------------------------------------------------------------------
\* The elements of a path: the maximal runs of characters other than "/".
ElementStarts ==
    SelectSeq([k \in DOMAIN path |-> k],
              LAMBDA k : path[k] # "/" /\ (k = 1 \/ path[k - 1] = "/"))

Element(n) == SubSeq(path, ElementStarts[n], ElementEnd(ElementStarts[n]) - 1)
Truncated(e) == SubSeq(e, 1, Min({DIRSIZ, Len(e)}))

\* A path leads where it says: namex() looks for each element in turn and knows the
\* last one, and two elements name the same entry if and only if they agree in their
\* first DIRSIZ characters, although the name field is reused from element to element
\* and a long name has no NUL.
NamesRoundTrip ==
    LET names == Walk(1, [i \in 1 .. DIRSIZ |-> "?"]) IN
    /\ Len(names) = Len(ElementStarts)
    /\ \A n \in DOMAIN names :
          /\ names[n].last = (n = Len(names))
          /\ \A o \in DOMAIN names :
                namecmp(names[n].name, strncpy(names[o].name))
                    = (Truncated(Element(n)) = Truncated(Element(o)))
===========================================================================
