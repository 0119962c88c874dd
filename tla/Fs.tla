-------------------------------- MODULE Fs --------------------------------
(***************************************************************************)
(* Inodes, directories and path names (kernel/fs.c) and the system calls   *)
(* that create, open, link and remove files (kernel/sysfile.c).            *)
(*                                                                         *)
(* One step is what a process does between two points where another one   *)
(* can interfere: from an ilock() to the iunlock() or to the next ilock(), *)
(* and each part of iput().  A path is the sequence of its elements, with  *)
(* "/" first when it is absolute.  File contents are left to FileData; a   *)
(* directory is the function from its names to inode numbers, 0 standing   *)
(* for no entry.                                                           *)
(*                                                                         *)
(* The log makes the calls atomic (Log, Transactions): a crash brings back *)
(* the disk as it was when no call was running last.  So nothing is lost   *)
(* by letting the system crash only at such a moment.                      *)
(***************************************************************************)
EXTENDS Naturals, Sequences, FiniteSets, FiniteSetsExt, SequencesExt

CONSTANTS
    Clients,      \* processes, each with room for one open file
    NINODES,    \* sb.ninodes: inode numbers are 1 .. NINODES - 1
    Names,      \* file names other than "." and ".."
    Calls       \* the calls that are made, see CallType

ROOTINO == 1
Inodes == 1 .. NINODES - 1
Entries == Names \cup {".", ".."}
Files == {"file", "device"}
Path == Seq(Entries \cup {"/"})
CallType ==
    [op : {"read", "write", "create", "mkdir", "mknod", "unlink", "link",
           "chdir"}, path : Path, new : Path]

ASSUME CallsAssumption == Calls \subseteq CallType

VARIABLES
    inode,      \* type, link count and entries of each inode
    ref,        \* itable: number of pointers to the entry of the inode
    valid,      \* itable: the entry has been read from the disk
    lock,       \* itable: the holder of the sleep-lock, or "free"
    at          \* each process: its directory cwd and open file fd (0: none);
                \* the call, where it is in it, the rest of its path, its locals
                \* ip and dp; the inodes it has to iput() before it goes on, and
                \* how far it is in iput() of the first of them

fsVars == <<inode, ref, valid, lock, at>>

NoCall == [op |-> "none", path |-> <<>>, new |-> <<>>]
Empty == [n \in Entries |-> 0]
Free == [type |-> "none", nlink |-> 0, ents |-> Empty]
Directory(i, parent) == [Empty EXCEPT !["."] = i, ![".."] = parent]

\* Memory after boot: each process is at the root and does nothing.
Booted(r, v, l, a) ==
    /\ r = [i \in Inodes |-> IF i = ROOTINO THEN Cardinality(Clients) ELSE 0]
    /\ v = [i \in Inodes |-> FALSE]
    /\ l = [i \in Inodes |-> "free"]
    /\ a = [p \in Clients |->
              [pc |-> "idle", call |-> NoCall, path |-> <<>>, ip |-> 0, dp |-> 0,
               puts |-> <<>>, put |-> "test", cwd |-> ROOTINO, fd |-> 0]]

FsInit ==
    /\ inode = [i \in Inodes |->
                  IF i = ROOTINO
                  THEN [type |-> "dir", nlink |-> 1, ents |-> Directory(i, i)]
                  ELSE Free]
    /\ Booted(ref, valid, lock, at)
---------------------------------------------------------------------------
(* The inode table.                                                        *)

Putting(p) == at[p].puts # <<>>
At(p, label) == at[p].pc = label /\ ~Putting(p)
Entry(p) == inode[at[p].dp].ents[Head(at[p].path)]

\* iget() finds the entry or recycles one that nobody refers to, with valid
\* cleared; here valid is cleared when the last reference goes.
iget(i) == ref' = [ref EXCEPT ![i] = @ + 1]

\* ilock() sleeps until the lock is free and reads the inode from the disk.
ilock(i) ==
    /\ lock[i] = "free" /\ inode[i].type # "none"
    /\ valid' = [valid EXCEPT ![i] = TRUE]

\* A step that locks i and unlocks it again.
Locked(i) == ilock(i) /\ UNCHANGED <<ref, lock>>

\* A step that does so and takes a reference to the entry next of directory d.
Found_NoGet(d, next) == Locked(d)

Found(d, next) == ilock(d) /\ iget(next) /\ UNCHANGED lock

\* The same, but p goes on holding the lock of d.
Hold(p, d, next) == ilock(d) /\ iget(next) /\ lock' = [lock EXCEPT ![d] = p]

\* p locks i and lets go of directory d.
Pass(p, d, i) ==
    ilock(i) /\ lock' = [lock EXCEPT ![i] = p, ![d] = "free"] /\ UNCHANGED ref

Unlock(i) == lock' = [lock EXCEPT ![i] = "free"] /\ UNCHANGED <<ref, valid>>

\* iput() frees the inode if this is the last reference to it and it has no link.
LastPut_IgnoringRef(i) == valid[i] /\ inode[i].nlink = 0

LastPut(i) == ref[i] = 1 /\ valid[i] /\ inode[i].nlink = 0

PutLast(p) ==
    LET i == Head(at[p].puts) IN
    /\ Putting(p)
    /\ at[p].put = "test" /\ LastPut(i) /\ lock[i] = "free"
    /\ lock' = [lock EXCEPT ![i] = p]
    /\ at' = [at EXCEPT ![p].put = "free"]
    /\ UNCHANGED <<inode, ref, valid>>

\* itrunc(), type = 0, iupdate(), valid = 0, releasesleep().
PutFree(p) ==
    LET i == Head(at[p].puts) IN
    /\ at[p].put = "free"
    /\ inode' = [inode EXCEPT ![i] = Free]
    /\ valid' = [valid EXCEPT ![i] = FALSE]
    /\ lock' = [lock EXCEPT ![i] = "free"]
    /\ at' = [at EXCEPT ![p].put = "drop"]
    /\ UNCHANGED ref

PutDrop(p) ==
    LET i == Head(at[p].puts) IN
    /\ Putting(p)
    /\ at[p].put = "drop" \/ (at[p].put = "test" /\ ~LastPut(i))
    /\ ref' = [ref EXCEPT ![i] = @ - 1]
    /\ valid' = [valid EXCEPT ![i] = @ /\ ref[i] > 1]
    /\ at' = [at EXCEPT ![p].puts = Tail(@), ![p].put = "test"]
    /\ UNCHANGED <<inode, lock>>
---------------------------------------------------------------------------
(* namex(): walk a path, locking one directory at a time.                  *)

\* Where a call continues with the inode, or the parent, that it looked up.
Continue(op) ==
    CASE op \in {"read", "write"} -> "open"
      [] op \in {"create", "mkdir", "mknod"} -> "create"
      [] OTHER -> op

\* The locals a of a process whose walk has come to inode i.
Arrive(a, walk, op, i, rest) ==
    IF rest = <<>> /\ walk = "namei"
    THEN [a EXCEPT !.pc = Continue(op), !.ip = i, !.dp = 0, !.path = <<>>]
    ELSE [a EXCEPT !.pc = walk, !.dp = i, !.path = rest]

\* Absolute paths start at the root, others at the process's directory.
Start(p, walk, c, route) ==
    LET absolute == route # <<>> /\ Head(route) = "/"
        i == IF absolute THEN ROOTINO ELSE at[p].cwd
        rest == IF absolute THEN Tail(route) ELSE route
    IN  /\ iget(i)
        /\ at' = [at EXCEPT ![p] = [Arrive(@, walk, c.op, i, rest) EXCEPT !.call = c]]
        /\ UNCHANGED <<inode, valid, lock>>

\* A lookup that fails: link() takes back its count, the other calls end.
Failed(p) == IF at[p].call.op = "link" /\ at[p].pc \in {"nameiparent", "undo"}
             THEN "linkbad" ELSE "end"

\* p gives up its directory, after which it goes on at label.
Leave(p, label) ==
    at' = [at EXCEPT ![p].pc = label, ![p].puts = <<at[p].dp>>, ![p].dp = 0]

\* The same for the inode.
Release(p, label) ==
    at' = [at EXCEPT ![p].pc = label, ![p].puts = <<at[p].ip>>, ![p].ip = 0]

\* begin_op() and the start of the walk.
Begin(p, c) ==
    /\ At(p, "idle")
    /\ Start(p, IF c.op \in {"create", "mkdir", "mknod", "unlink"}
                THEN "nameiparent" ELSE "namei", c, c.path)

\* nameiparent() of a path without elements.
WalkNoParent(p) ==
    /\ At(p, "nameiparent") /\ at[p].path = <<>>
    /\ Leave(p, Failed(p))
    /\ UNCHANGED <<inode, ref, valid, lock>>

\* nameiparent() stops one level early; path keeps the last name.
WalkParent(p) ==
    LET op == at[p].call.op IN
    /\ At(p, "nameiparent") /\ Len(at[p].path) = 1
    /\ Locked(at[p].dp)
    /\ inode[at[p].dp].type = "dir"
    /\ at' = [at EXCEPT ![p].pc = IF op = "link" THEN "linkentry" ELSE Continue(op)]
    /\ UNCHANGED inode

Walking(p) ==
    /\ At(p, "namei") \/ (At(p, "nameiparent") /\ Len(at[p].path) > 1)
    /\ at[p].path # <<>>

\* The directory is none (then it has no entries here), or has no such entry.
WalkFail(p) ==
    /\ \/ Walking(p) /\ Entry(p) = 0
       \/ At(p, "nameiparent") /\ Len(at[p].path) = 1 /\ inode[at[p].dp].type # "dir"
    /\ Locked(at[p].dp)
    /\ Leave(p, Failed(p))
    /\ UNCHANGED inode

WalkStep(p) ==
    /\ Walking(p) /\ Entry(p) # 0
    /\ Found(at[p].dp, Entry(p))
    /\ at' = [at EXCEPT ![p] = [Arrive(@, @.pc, @.call.op, Entry(p), Tail(@.path))
                                  EXCEPT !.puts = <<at[p].dp>>]]
    /\ UNCHANGED inode
---------------------------------------------------------------------------
(* sys_open(), sys_close(), sys_chdir().                                   *)

\* The end of open(), with the inode locked: filealloc() and fdalloc() find
\* room, or the inode is put again.
Opened(p, mayOpen) ==
    IF mayOpen /\ at[p].fd = 0
    THEN at' = [at EXCEPT ![p].pc = "end", ![p].fd = at[p].ip, ![p].ip = 0]
    ELSE Release(p, "end")

\* A directory may only be opened for reading.
Open(p) ==
    /\ At(p, "open")
    /\ Locked(at[p].ip)
    /\ Opened(p, inode[at[p].ip].type # "dir" \/ at[p].call.op = "read")
    /\ UNCHANGED inode

\* fileclose() of the last reference to an open file.
Close(p) ==
    /\ At(p, "idle") /\ at[p].fd # 0
    /\ at' = [at EXCEPT ![p].pc = "end", ![p].puts = <<at[p].fd>>, ![p].fd = 0]
    /\ UNCHANGED <<inode, ref, valid, lock>>

Chdir(p) ==
    /\ At(p, "chdir")
    /\ Locked(at[p].ip)
    /\ IF inode[at[p].ip].type = "dir"
       THEN at' = [at EXCEPT ![p].pc = "chdirend", ![p].puts = <<at[p].cwd>>]
       ELSE Release(p, "end")
    /\ UNCHANGED inode

\* end_op(), after which chdir() sets the directory.
End(p) ==
    /\ At(p, "end") \/ At(p, "chdirend")
    /\ at' = [at EXCEPT ![p].pc = "idle", ![p].call = NoCall, ![p].path = <<>>, ![p].ip = 0,
                        ![p].cwd = IF at[p].pc = "chdirend" THEN at[p].ip ELSE @]
    /\ UNCHANGED <<inode, ref, valid, lock>>
---------------------------------------------------------------------------
(* create(): open with O_CREATE, mkdir, mknod.                             *)

TypeOf(op) == CASE op = "mkdir" -> "dir" [] op = "mknod" -> "device" [] OTHER -> "file"

\* The name exists: unlock and put the directory, then look at the inode.
CreateFound(p) ==
    /\ At(p, "create") /\ Entry(p) # 0
    /\ Found(at[p].dp, Entry(p))
    /\ at' = [at EXCEPT ![p].pc = "exists", ![p].puts = <<at[p].dp>>,
                        ![p].ip = Entry(p), ![p].dp = 0]
    /\ UNCHANGED inode

CreateExists(p) ==
    /\ At(p, "exists")
    /\ Locked(at[p].ip)
    /\ Opened(p, at[p].call.op = "create" /\ inode[at[p].ip].type \in Files)
    /\ UNCHANGED inode

\* ialloc() takes the first free inode; the directory stays locked.
CreateAlloc(p) ==
    LET unused == {i \in Inodes : inode[i].type = "none"}
        i == Min(unused)
    IN  /\ At(p, "create") /\ Entry(p) = 0
        /\ IF unused = {}
           THEN Locked(at[p].dp) /\ Leave(p, "end") /\ UNCHANGED inode
           ELSE /\ Hold(p, at[p].dp, i)
                /\ inode' = [inode EXCEPT ![i].type = TypeOf(at[p].call.op)]
                /\ at' = [at EXCEPT ![p].pc = "fill", ![p].ip = i]

\* The new inode gets its link, its own entries and its name; a directory
\* also counts the ".." of a new subdirectory.
CreateLink(p) ==
    LET i == at[p].ip
        d == at[p].dp
        dir == inode[i].type = "dir"
    IN  /\ At(p, "fill")
        /\ Pass(p, d, i)
        /\ inode' = [inode EXCEPT ![i].nlink = 1,
                                  ![i].ents = IF dir THEN Directory(i, d) ELSE @,
                                  ![d].ents[Head(at[p].path)] = i,
                                  ![d].nlink = IF dir THEN @ + 1 ELSE @]
        /\ Leave(p, "made")

\* dirlink() fails for want of a block: give the inode back.
CreateFail(p) ==
    /\ At(p, "fill")
    /\ Locked(at[p].ip)
    /\ Release(p, "undo")
    /\ UNCHANGED inode

\* iunlockput(dp) on the way out of create(), unlink() and link().
Undo(p) ==
    /\ At(p, "undo")
    /\ Unlock(at[p].dp)
    /\ Leave(p, Failed(p))
    /\ UNCHANGED inode

Made(p) ==
    /\ At(p, "made")
    /\ Unlock(at[p].ip)
    /\ Opened(p, at[p].call.op = "create")
    /\ UNCHANGED inode
---------------------------------------------------------------------------
(* sys_unlink().                                                           *)

Removable(p) == Head(at[p].path) \in Names /\ Entry(p) # 0

UnlinkMissing(p) ==
    /\ At(p, "unlink") /\ ~Removable(p)
    /\ Locked(at[p].dp)
    /\ Leave(p, "end")
    /\ UNCHANGED inode

\* The directory stays locked while the inode is looked up and locked.
UnlinkFound(p) ==
    /\ At(p, "unlink") /\ Removable(p)
    /\ Hold(p, at[p].dp, Entry(p))
    /\ at' = [at EXCEPT ![p].pc = "unlinkentry", ![p].ip = Entry(p)]
    /\ UNCHANGED inode

isdirempty(i) == \A n \in Names : inode[i].ents[n] = 0

UnlinkRefused(p) ==
    /\ At(p, "unlinkentry")
    /\ ~isdirempty(at[p].ip)
    /\ Locked(at[p].ip)
    /\ Release(p, "undo")
    /\ UNCHANGED inode

\* Without its entry n for i the directory also loses a subdirectory's "..".
Removed_KeepsCount(d, n, i) == [inode EXCEPT ![d].ents[n] = 0]

Removed(d, n, i) ==
    [inode EXCEPT ![d].ents[n] = 0,
                  ![d].nlink = IF inode[i].type = "dir" THEN @ - 1 ELSE @]

\* Clear the entry and unlock the directory.
UnlinkEntry(p) ==
    /\ At(p, "unlinkentry")
    /\ isdirempty(at[p].ip)
    /\ Pass(p, at[p].dp, at[p].ip)
    /\ inode' = Removed(at[p].dp, Head(at[p].path), at[p].ip)
    /\ Leave(p, "unlinkcount")

UnlinkCount(p) ==
    /\ At(p, "unlinkcount")
    /\ inode' = [inode EXCEPT ![at[p].ip].nlink = @ - 1]
    /\ Unlock(at[p].ip)
    /\ Release(p, "end")
---------------------------------------------------------------------------
(* sys_link().                                                             *)

\* Count the link before the new name exists, then look its directory up.
LinkCount(p) ==
    /\ At(p, "link")
    /\ Locked(at[p].ip)
    /\ IF inode[at[p].ip].type = "dir"
       THEN Release(p, "end") /\ UNCHANGED inode
       ELSE /\ inode' = [inode EXCEPT ![at[p].ip].nlink = @ + 1]
            /\ at' = [at EXCEPT ![p].pc = "linkwalk"]

LinkWalk(p) == At(p, "linkwalk") /\ Start(p, "nameiparent", at[p].call, at[p].call.new)

\* dirlink() finds the name taken, and puts what it found.
LinkTaken(p) ==
    /\ At(p, "linkentry") /\ Entry(p) # 0
    /\ Hold(p, at[p].dp, Entry(p))
    /\ at' = [at EXCEPT ![p].pc = "undo", ![p].puts = <<Entry(p)>>]
    /\ UNCHANGED inode

LinkEntry(p) ==
    /\ At(p, "linkentry") /\ Entry(p) = 0
    /\ Locked(at[p].dp)
    /\ \/ /\ inode' = [inode EXCEPT ![at[p].dp].ents[Head(at[p].path)] = at[p].ip]
          /\ at' = [at EXCEPT ![p].pc = "end", ![p].puts = <<at[p].dp, at[p].ip>>,
                              ![p].dp = 0, ![p].ip = 0]
       \/ Leave(p, "linkbad") /\ UNCHANGED inode     \* no block for the entry

LinkBad(p) ==
    /\ At(p, "linkbad")
    /\ Locked(at[p].ip)
    /\ inode' = [inode EXCEPT ![at[p].ip].nlink = @ - 1]
    /\ Release(p, "end")
---------------------------------------------------------------------------
Quiet == \A p \in Clients : at[p].pc = "idle"

\* A crash loses memory; after recovery processes start at the root again.
Crash ==
    /\ Quiet
    /\ Booted(ref', valid', lock', at')
    /\ UNCHANGED inode

Step(p) ==
    \/ \E c \in Calls : Begin(p, c)
    \/ PutLast(p) \/ PutFree(p) \/ PutDrop(p)
    \/ WalkNoParent(p) \/ WalkFail(p) \/ WalkParent(p) \/ WalkStep(p)
    \/ Open(p) \/ Close(p) \/ Chdir(p) \/ End(p)
    \/ CreateFound(p) \/ CreateExists(p) \/ CreateAlloc(p)
    \/ CreateLink(p) \/ CreateFail(p) \/ Undo(p) \/ Made(p)
    \/ UnlinkMissing(p) \/ UnlinkFound(p) \/ UnlinkRefused(p)
    \/ UnlinkEntry(p) \/ UnlinkCount(p)
    \/ LinkCount(p) \/ LinkWalk(p) \/ LinkTaken(p) \/ LinkEntry(p) \/ LinkBad(p)

FsNext == Crash \/ \E p \in Clients : Step(p)

FsSpec == FsInit /\ [][FsNext]_fsVars
---------------------------------------------------------------------------
\* The inode that p is about to lock, or 0.
Wants(p) ==
    CASE Putting(p) -> IF at[p].put = "test" /\ LastPut(Head(at[p].puts)) THEN Head(at[p].puts) ELSE 0
      [] at[p].pc \in {"namei", "nameiparent", "create", "unlink", "linkentry"} -> at[p].dp
      [] at[p].pc \in {"open", "exists", "fill", "unlinkentry", "link", "linkbad", "chdir"} -> at[p].ip
      [] OTHER -> 0

\* iput() frees no inode that somebody still uses: whatever a process has open,
\* has as its directory or is about to lock is allocated, so that ilock() never
\* meets its panic("ilock: no type") (fs.c:314).
UsedIsAllocated ==
    \A p \in Clients :
        \A i \in ({Wants(p), at[p].fd} \cup (IF at[p].pc = "chdirend" THEN {} ELSE {at[p].cwd})) \ {0} :
            inode[i].type # "none"

\* ref counts the pointers to an inode exactly, on every path through the
\* calls, the failing ones included: none is put twice and none is forgotten.
RefsCounted ==
    \A i \in Inodes :
        ref[i] = MapThenSumSet(
                   LAMBDA p :
                     Cardinality({k \in DOMAIN at[p].puts : at[p].puts[k] = i})
                     + Cardinality({v \in {"cwd", "fd", "ip", "dp"} :
                           CASE v = "cwd" -> at[p].cwd = i /\ at[p].pc # "chdirend"
                             [] v = "fd" -> at[p].fd = i
                             [] v = "ip" -> at[p].ip = i
                             [] v = "dp" -> at[p].dp = i}),
                   Clients)

\* Locks are taken in an order in which nobody waits for anybody who waits for
\* them (namex() holds one lock, unlink() and create() a directory and then
\* its entry), and the acquiresleep() of iput() (fs.c:346), which runs with
\* itable.lock held, never has to wait at all.
LocksCannotDeadlock ==
    /\ \A S \in SUBSET Clients \ {{}} :
          \E p \in S : Wants(p) = 0 \/ lock[Wants(p)] \notin S
    /\ \A p \in Clients : Putting(p) /\ Wants(p) # 0 => lock[Wants(p)] = "free"

\* The disk is consistent after a crash at any moment: every name of a
\* directory leads to an allocated inode whose link count covers all its names,
\* and a directory has one name only, in the directory that its ".." leads to.
DiskConsistent ==
    Quiet =>
    LET dirs == {d \in Inodes : inode[d].type = "dir" /\ inode[d].nlink > 0}
        names(i) == {e \in dirs \X Names : inode[e[1]].ents[e[2]] = i}
        below(i) == {d \in dirs \ {ROOTINO} : inode[d].ents[".."] = i}
    IN  /\ \A i \in Inodes :
              /\ names(i) # {} => inode[i].type # "none"
              /\ inode[i].nlink >= Cardinality(names(i))
        /\ \A i \in dirs :
              /\ Cardinality(names(i)) = IF i = ROOTINO THEN 0 ELSE 1
              /\ \A e \in names(i) : inode[i].ents[".."] = e[1]
              /\ inode[i].nlink = 1 + Cardinality(below(i))

\* "If that was the last reference and the inode has no links to it, free the
\* inode (and its content) on disk" (fs.c:332): an inode that loses its last
\* reference other than by a crash is linked or free.
LastPutFrees ==
    [][\A i \in Inodes :
          ref[i] > 0 /\ ref'[i] = 0
              => inode'[i].type = "none" \/ inode'[i].nlink > 0 \/ Crash]_fsVars
===========================================================================
