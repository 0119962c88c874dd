-------------------------------- MODULE Vm --------------------------------
(***************************************************************************)
(* Physical pages and user address spaces: kernel/kalloc.c, the user half  *)
(* of kernel/vm.c, kernel/exec.c, and the parts of kernel/proc.c that      *)
(* build, grow and free an address space.                                  *)
(*                                                                         *)
(* The free list is the number of its pages: kalloc() and kfree() hand     *)
(* pages around and nothing looks at an address.  An address space has the *)
(* page-table pages and the virtual pages that are mapped; each of them    *)
(* takes a physical page, but for the trampoline, which is kernel text,    *)
(* and the trapframe, which allocproc() allocates for the process.  Loops  *)
(* over pages take a step per page, since other processes take and free    *)
(* pages in between.                                                       *)
(***************************************************************************)
EXTENDS Naturals, FiniteSets, FiniteSetsExt

CONSTANTS
    Tasks,      \* slots of the process table; one of them is initproc
    FirstTask,
    NPAGES,     \* physical pages that kinit() puts on the free list
    PGSIZE,     \* bytes per page
    FANOUT,     \* entries of a page-table page, 512 in the code
    Segments,   \* ends of the loadable segments of a program, in bytes
    USERSTACK, MAXARG,
    Increments  \* arguments of sbrk(), either way

Pages == 0 .. FANOUT * FANOUT * FANOUT - 1
TRAMPOLINE == FANOUT * FANOUT * FANOUT - 1
TRAPFRAME == TRAMPOLINE - 1

\* Physical memory is smaller than the user part of the address space.
ASSUME VmAssumption ==
    /\ FirstTask \in Tasks
    /\ NPAGES \in Nat /\ PGSIZE \in Nat \ {0} /\ FANOUT \in Nat \ {0, 1}
    /\ NPAGES < TRAPFRAME

VARIABLES
    nfree,      \* length of kmem.freelist
    task,       \* one record per process
    panicked

vmVars == <<nfree, task, panicked>>

Nowhere == [root |-> FALSE, tables |-> {}, leaves |-> {}, guard |-> {}]
NoTask == [pc |-> "unused", sz |-> 0, space |-> Nowhere, frame |-> 0, args |-> 0,
           child |-> FirstTask, new |-> Nowhere, newsz |-> 0, a |-> 0, goal |-> 0]

PGROUNDUP(n) == ((n + PGSIZE - 1) \div PGSIZE) * PGSIZE
PageOf(n) == n \div PGSIZE

\* The page-table pages below the root that lead to virtual page v.
Path1(v) == <<1, v \div (FANOUT * FANOUT)>>
Path0(v) == <<0, v \div FANOUT>>

\* Pages that an address space takes from the allocator.
Size(s) ==
    (IF s.root THEN 1 ELSE 0) + Cardinality(s.tables)
    + Cardinality(s.leaves \ {TRAMPOLINE, TRAPFRAME})
---------------------------------------------------------------------------
(* vm.c.  m is the free list and an address space, and how it went:        *)
(* ok is the return value, panic that a panic() was reached.               *)

M(free, s) == [free |-> free, space |-> s, ok |-> TRUE, panic |-> FALSE]

\* walk(..., alloc = 1): page-table pages are added from the top down.
walk(m, v) ==
    LET missing == {Path1(v), Path0(v)} \ m.space.tables
        enough == Cardinality(missing) <= m.free
        got == IF enough THEN missing
               ELSE IF m.free = 1 THEN {Path1(v)} ELSE {}
    IN  [m EXCEPT !.free = @ - Cardinality(got),
                  !.space.tables = @ \cup got,
                  !.ok = enough]

\* mappages() of one page.
mappages(m, v) ==
    LET w == walk(m, v) IN
    IF ~w.ok THEN w
    ELSE [w EXCEPT !.space.leaves = @ \cup {v}, !.panic = @ \/ v \in m.space.leaves]

\* kalloc() of a page and mappages(); the page goes back if that fails.
MapNew_Leaks(m, v) ==
    IF m.free = 0 THEN [m EXCEPT !.ok = FALSE] ELSE mappages([m EXCEPT !.free = @ - 1], v)

MapNew(m, v) ==
    IF m.free = 0 THEN [m EXCEPT !.ok = FALSE]
    ELSE LET w == mappages([m EXCEPT !.free = @ - 1], v) IN
         IF w.ok THEN w ELSE [w EXCEPT !.free = @ + 1]

\* uvmunmap() of the virtual pages V; it panics unless all are mapped.
uvmunmap(m, V, do_free) ==
    [m EXCEPT !.space.leaves = @ \ V, !.space.guard = @ \ V,
              !.free = IF do_free THEN @ + Cardinality(V \cap m.space.leaves) ELSE @,
              !.panic = @ \/ ~(V \subseteq m.space.leaves)]

PagesBetween(from, to) == {v \in Pages : PageOf(from) <= v /\ v < PageOf(to)}

uvmdealloc(m, oldsz, newsz) ==
    uvmunmap(m, PagesBetween(PGROUNDUP(newsz), PGROUNDUP(oldsz)), TRUE)

\* freewalk() panics if a page is still mapped.
freewalk(m) ==
    [m EXCEPT !.free = @ + 1 + Cardinality(m.space.tables),
              !.space = Nowhere,
              !.panic = @ \/ m.space.leaves # {}]

uvmfree(m, sz) == freewalk(uvmunmap(m, PagesBetween(0, PGROUNDUP(sz)), TRUE))

proc_freepagetable(m, sz) == uvmfree(uvmunmap(m, {TRAMPOLINE, TRAPFRAME}, FALSE), sz)

\* proc_pagetable(), with uvmcreate(); both special pages are next to each
\* other, and a failure frees what is there.
proc_pagetable(free) ==
    IF free = 0 THEN [M(free, Nowhere) EXCEPT !.ok = FALSE]
    ELSE LET t == mappages(M(free - 1, [Nowhere EXCEPT !.root = TRUE]), TRAMPOLINE)
             f == mappages(t, TRAPFRAME)
         IN  CASE ~t.ok -> [uvmfree(t, 0) EXCEPT !.ok = FALSE]
               [] t.ok /\ ~f.ok -> [uvmfree(uvmunmap(f, {TRAMPOLINE}, FALSE), 0) EXCEPT !.ok = FALSE]
               [] OTHER -> f
---------------------------------------------------------------------------
VmInit ==
    LET m == proc_pagetable(NPAGES - 1)
        u == MapNew(m, 0)
    IN  /\ nfree = u.free
        /\ task = [t \in Tasks |->
                     IF t = FirstTask
                     THEN [NoTask EXCEPT !.pc = "user", !.frame = 1, !.space = u.space,
                                         !.sz = PGSIZE]
                     ELSE NoTask]
        /\ panicked = FALSE

\* A step of t leaves memory and one of its address spaces as in m.
Now(m) == nfree' = m.free /\ panicked' = (panicked \/ m.panic)

\* growproc(): uvmalloc() page by page, from the old size rounded up.
GrowBegin(t, n) ==
    /\ task[t].pc = "user"
    /\ task' = [task EXCEPT ![t].pc = "grow", ![t].a = PGROUNDUP(task[t].sz),
                            ![t].goal = task[t].sz + n]
    /\ UNCHANGED <<nfree, panicked>>

GrowStep(t) ==
    LET m == MapNew(M(nfree, task[t].space), PageOf(task[t].a))
        undo == uvmdealloc(m, task[t].a, PGROUNDUP(task[t].sz))
    IN  /\ task[t].pc = "grow" /\ task[t].a < task[t].goal
        /\ IF m.ok
           THEN /\ Now(m)
                /\ task' = [task EXCEPT ![t].space = m.space, ![t].a = @ + PGSIZE]
           ELSE /\ Now(undo)
                /\ task' = [task EXCEPT ![t].space = undo.space, ![t].pc = "user",
                                        ![t].a = 0, ![t].goal = 0]

GrowEnd(t) ==
    /\ task[t].pc = "grow" /\ task[t].a >= task[t].goal
    /\ task' = [task EXCEPT ![t].pc = "user", ![t].sz = task[t].goal,
                            ![t].a = 0, ![t].goal = 0]
    /\ UNCHANGED <<nfree, panicked>>

\* growproc() with a negative argument; below zero the size wraps around, is
\* larger than before, and uvmdealloc() does nothing.
Shrink(t, n) ==
    LET m == uvmdealloc(M(nfree, task[t].space), task[t].sz, task[t].sz - n) IN
    /\ task[t].pc = "user"
    /\ IF n > task[t].sz THEN UNCHANGED vmVars
       ELSE Now(m) /\ task' = [task EXCEPT ![t].space = m.space, ![t].sz = @ - n]

\* freeproc() of a task that has address space s and size sz.
freeproc(free, s, sz) == LET m == proc_freepagetable(M(free, s), sz) IN [m EXCEPT !.free = @ + 1]

\* fork(): allocproc() takes a page for the trapframe and builds a page table.
ForkAlloc(t, c) ==
    LET m == proc_pagetable(nfree - 1) IN
    /\ task[t].pc = "user" /\ task[c].pc = "unused"
    /\ nfree > 0
    /\ IF m.ok
       THEN /\ Now(m)
            /\ task' = [task EXCEPT
                          ![c] = [NoTask EXCEPT !.pc = "embryo", !.frame = 1, !.space = m.space],
                          ![t].pc = "copy", ![t].child = c]
       ELSE Now([m EXCEPT !.free = @ + 1]) /\ UNCHANGED task

\* uvmcopy() of one page, with its flags; on failure the pages copied so far
\* are unmapped and freeproc() frees the rest.
CopyUndo(m, a) == uvmunmap(m, PagesBetween(0, a), TRUE)

ForkCopy(t) ==
    LET c == task[t].child
        v == PageOf(task[t].a)
        m == MapNew(M(nfree, task[c].space), v)
        undo == CopyUndo(m, task[t].a)
        done == freeproc(undo.free, undo.space, 0)
    IN  /\ task[t].pc = "copy" /\ task[t].a < task[t].sz
        /\ IF m.ok
           THEN /\ Now([m EXCEPT !.panic = @ \/ v \notin task[t].space.leaves])
                /\ task' = [task EXCEPT
                              ![c].space = [m.space EXCEPT
                                  !.guard = @ \cup ({v} \cap task[t].space.guard)],
                              ![t].a = @ + PGSIZE]
           ELSE /\ Now([done EXCEPT !.panic = @ \/ undo.panic])
                /\ task' = [task EXCEPT ![c] = NoTask, ![t].pc = "user", ![t].a = 0,
                                        ![t].child = FirstTask]

ForkEnd(t) ==
    /\ task[t].pc = "copy" /\ task[t].a >= task[t].sz
    /\ task' = [task EXCEPT ![task[t].child].pc = "user", ![task[t].child].sz = task[t].sz,
                            ![t].pc = "user", ![t].a = 0, ![t].child = FirstTask]
    /\ UNCHANGED <<nfree, panicked>>

\* exit() and the parent's wait(), which calls freeproc().
Reap(t) ==
    LET m == freeproc(nfree, task[t].space, task[t].sz) IN
    /\ task[t].pc = "user" /\ t # FirstTask
    /\ Now(m)
    /\ task' = [task EXCEPT ![t] = NoTask]
---------------------------------------------------------------------------
(* exec.                                                                   *)

\* t gives up its new image and the pages of its arguments: exec() returns -1.
ExecFail(t, m) ==
    /\ Now([m EXCEPT !.free = @ + task[t].args])
    /\ task' = [task EXCEPT ![t].pc = "user", ![t].args = 0, ![t].new = Nowhere,
                            ![t].newsz = 0, ![t].a = 0, ![t].goal = 0]

\* sys_exec() copies each argument to a page of its own, or fails to.
ExecArgs(t) ==
    /\ \/ task[t].pc = "user" /\ task' = [task EXCEPT ![t].pc = "args"] /\ UNCHANGED nfree
       \/ /\ task[t].pc = "args" /\ nfree > 0 /\ task[t].args < MAXARG
          /\ nfree' = nfree - 1
          /\ task' = [task EXCEPT ![t].args = @ + 1]
    /\ UNCHANGED panicked

ExecArgsBad(t) == task[t].pc = "args" /\ ExecFail(t, M(nfree, Nowhere))

ExecBegin(t) ==
    LET m == proc_pagetable(nfree) IN
    /\ task[t].pc = "args"
    /\ IF m.ok THEN Now(m) /\ task' = [task EXCEPT ![t].pc = "load", ![t].new = m.space]
       ELSE ExecFail(t, m)

\* A loadable segment that ends at e, and then the stack with its guard page.
LoadBegin(t, e) ==
    /\ task[t].pc = "load"
    /\ task' = [task EXCEPT ![t].pc = "segment", ![t].a = PGROUNDUP(task[t].newsz),
                            ![t].goal = IF e < task[t].newsz THEN task[t].newsz ELSE e]
    /\ UNCHANGED <<nfree, panicked>>

StackBegin(t) ==
    LET base == PGROUNDUP(task[t].newsz) IN
    /\ task[t].pc = "load"
    /\ task' = [task EXCEPT ![t].pc = "stack", ![t].newsz = base, ![t].a = base,
                            ![t].goal = base + (USERSTACK + 1) * PGSIZE]
    /\ UNCHANGED <<nfree, panicked>>

\* uvmalloc() of one page of the new image; bad: frees the image.
ImageStep(t) ==
    LET m == MapNew(M(nfree, task[t].new), PageOf(task[t].a))
        undo == uvmdealloc(m, task[t].a, PGROUNDUP(task[t].newsz))
    IN  /\ task[t].pc \in {"segment", "stack"} /\ task[t].a < task[t].goal
        /\ IF m.ok
           THEN /\ Now(m)
                /\ task' = [task EXCEPT ![t].new = m.space, ![t].a = @ + PGSIZE]
           ELSE ExecFail(t, proc_freepagetable(undo, task[t].newsz))

\* loadseg() finds every page of the segment mapped for the user; an image of
\* size 0 is taken for a failure of uvmalloc().
SegmentEnd(t) ==
    LET below == PagesBetween(0, PGROUNDUP(task[t].goal)) IN
    /\ task[t].pc = "segment" /\ task[t].a >= task[t].goal
    /\ IF task[t].goal = 0 THEN ExecFail(t, proc_freepagetable(M(nfree, task[t].new), 0))
       ELSE /\ task' = [task EXCEPT ![t].pc = "load", ![t].newsz = task[t].goal,
                                    ![t].a = 0, ![t].goal = 0]
            /\ panicked' = (panicked \/ ~(below \subseteq task[t].new.leaves \ task[t].new.guard))
            /\ UNCHANGED nfree

StackEnd(t) ==
    /\ task[t].pc = "stack" /\ task[t].a >= task[t].goal
    /\ task' = [task EXCEPT ![t].pc = "ready", ![t].newsz = task[t].goal,
                            ![t].new.guard = {PageOf(task[t].newsz)},
                            ![t].a = 0, ![t].goal = 0]
    /\ UNCHANGED <<nfree, panicked>>

\* A malformed header, a short read, arguments that do not fit on the stack.
ExecBad(t) ==
    /\ task[t].pc \in {"load", "ready"}
    /\ ExecFail(t, proc_freepagetable(M(nfree, task[t].new), task[t].newsz))

\* Commit to the new image and free the old one.
ExecEnd(t) ==
    LET m == proc_freepagetable(M(nfree, task[t].space), task[t].sz) IN
    /\ task[t].pc = "ready"
    /\ Now([m EXCEPT !.free = @ + task[t].args])
    /\ task' = [task EXCEPT ![t].pc = "user", ![t].space = task[t].new,
                            ![t].sz = task[t].newsz, ![t].args = 0,
                            ![t].new = Nowhere, ![t].newsz = 0]

VmNext ==
    \E t \in Tasks :
        \/ \E n \in Increments : GrowBegin(t, n) \/ Shrink(t, n)
        \/ GrowStep(t) \/ GrowEnd(t)
        \/ (\E c \in Tasks : ForkAlloc(t, c)) \/ ForkCopy(t) \/ ForkEnd(t) \/ Reap(t)
        \/ ExecArgs(t) \/ ExecArgsBad(t) \/ ExecBegin(t)
        \/ (\E e \in Segments : LoadBegin(t, e)) \/ StackBegin(t)
        \/ ImageStep(t) \/ SegmentEnd(t) \/ StackEnd(t) \/ ExecBad(t) \/ ExecEnd(t)

VmSpec == VmInit /\ [][VmNext]_vmVars
---------------------------------------------------------------------------
\* No page is lost and none is free and in use, whatever call failed wherever
\* in its loop: the free list, the trapframes, the page tables, the mapped pages
\* and the argument pages of exec() together are all of physical memory.
PagesConserved ==
    nfree + MapThenSumSet(LAMBDA t : task[t].frame + task[t].args
                                     + Size(task[t].space) + Size(task[t].new), Tasks)
        = NPAGES

\* A process that runs has exactly the pages below its size mapped, so the
\* panics of vm.c about mappings (remap, not mapped, leaf, pte should exist) and
\* of loadseg() are out of reach, also on the error paths.
ImageMatchesSize ==
    /\ ~panicked
    /\ \A t \in Tasks : task[t].pc = "user" =>
          /\ task[t].space.leaves =
                PagesBetween(0, PGROUNDUP(task[t].sz)) \cup {TRAMPOLINE, TRAPFRAME}
          /\ task[t].space.guard \subseteq task[t].space.leaves

\* fork(), exec(), sbrk() and exit() account for all memory, on every path.
MemoryAccounted == PagesConserved /\ ImageMatchesSize
===========================================================================
