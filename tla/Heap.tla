-------------------------------- MODULE Heap --------------------------------
(***************************************************************************)
(* malloc() and free() (user/umalloc.c): a circular list of free blocks in *)
(* the order of their addresses.  Addresses count units of one header;     *)
(* unit 0 is the static header base, which lies below the heap.            *)
(***************************************************************************)
EXTENDS Naturals, FiniteSets, FiniteSetsExt

CONSTANTS
    HEAPTOP,    \* units that sbrk() can give in all
    MINCORE,    \* least number of units morecore() asks for (4096)
    HEADER,     \* bytes of a header
    Sizes       \* numbers of bytes that programs ask for

NULL == HEAPTOP + 1

VARIABLES
    hptr, hsize,    \* the headers' fields; what a unit holds otherwise is 0
    freep,
    brk,            \* first unit that sbrk() has not given
    gaps,           \* units the program took with sbrk() itself
    mine            \* blocks (their headers) that the program has

heapVars == <<hptr, hsize, freep, brk, gaps, mine>>

Units == 0 .. HEAPTOP

HeapInit ==
    /\ hptr = [u \in Units |-> 0] /\ hsize = [u \in Units |-> 0]
    /\ freep = NULL /\ brk = 1 /\ gaps = {} /\ mine = {}

\* A heap as a value, so that malloc() can free what morecore() gets it.
HeapNow == [ptr |-> hptr, size |-> hsize, freep |-> freep, brk |-> brk]
---------------------------------------------------------------------------
\* The loop of free(): the node after which block bp belongs.
RECURSIVE Place(_, _, _)
Place(h, p, bp) ==
    IF \/ bp > p /\ bp < h.ptr[p]
       \/ p >= h.ptr[p] /\ (bp > p \/ bp < h.ptr[p])
    THEN p ELSE Place(h, h.ptr[p], bp)

MergesUp_Never(h, p, bp) == FALSE

MergesUp(h, p, bp) == bp + h.size[bp] = h.ptr[p]

MergesDown(h, p, bp) == p + h.size[p] = bp

free(h, bp) ==
    LET p == Place(h, h.freep, bp)
        next == h.ptr[p]
        up == IF MergesUp(h, p, bp)
              THEN [h EXCEPT !.size[bp] = @ + h.size[next], !.ptr[bp] = h.ptr[next]]
              ELSE [h EXCEPT !.ptr[bp] = next]
        down == IF MergesDown(h, p, bp)
                THEN [up EXCEPT !.size[p] = @ + up.size[bp], !.ptr[p] = up.ptr[bp]]
                ELSE [up EXCEPT !.ptr[p] = bp]
    IN  [down EXCEPT !.freep = p]

\* morecore(): sbrk() of at least MINCORE units, given to free().
CoreUnits(nu) == IF nu < MINCORE THEN MINCORE ELSE nu
morecore(h, nu) == free([h EXCEPT !.brk = @ + CoreUnits(nu), !.size[h.brk] = CoreUnits(nu)], h.brk)

\* malloc() from node p on: the block it takes and the heap it leaves; block NULL
\* when sbrk() fails.
RECURSIVE Search(_, _, _, _)
Search(h, prevp, p, nu) ==
    LET rest == h.size[p] - nu
        more == morecore(h, nu)
    IN  IF h.size[p] = nu
          THEN [block |-> p, heap |-> [h EXCEPT !.ptr[prevp] = h.ptr[p], !.freep = prevp]]
        ELSE IF h.size[p] > nu
          THEN [block |-> p + rest,
                heap |-> [h EXCEPT !.size[p] = rest, !.size[p + rest] = nu, !.freep = prevp]]
        ELSE IF p # h.freep THEN Search(h, p, h.ptr[p], nu)
        ELSE IF h.brk + CoreUnits(nu) > HEAPTOP + 1 THEN [block |-> NULL, heap |-> h]
        ELSE Search(more, more.freep, more.ptr[more.freep], nu)

Started(h) == IF h.freep = NULL THEN [h EXCEPT !.freep = 0, !.ptr[0] = 0, !.size[0] = 0] ELSE h

RECURSIVE Ring(_, _, _)
Ring(ptr, p, seen) == IF p \in seen THEN seen ELSE Ring(ptr, ptr[p], seen \union {p})

\* The fields of units that are no header any more are never read again: 0.
Becomes(h, blocks) ==
    LET list == Ring(h.ptr, h.freep, {}) IN
    /\ hptr' = [u \in Units |-> IF u \in list THEN h.ptr[u] ELSE 0]
    /\ hsize' = [u \in Units |-> IF u \in list \union blocks THEN h.size[u] ELSE 0]
    /\ freep' = h.freep /\ brk' = h.brk
    /\ mine' = blocks
    /\ UNCHANGED gaps

\* Whole units for the bytes, and one for the header.
nunits(nbytes) == (nbytes + HEADER - 1) \div HEADER + 1

Malloc(nbytes) ==
    LET h == Started(HeapNow)
        r == Search(h, h.freep, h.ptr[h.freep], nunits(nbytes))
    IN  Becomes(r.heap, mine \union ({r.block} \ {NULL}))

FreeBlock(b) == b \in mine /\ Becomes(free(HeapNow, b), mine \ {b})

\* The program may call sbrk() itself; the heap is then not contiguous.
Sbrk ==
    /\ brk <= HEAPTOP
    /\ brk' = brk + 1 /\ gaps' = gaps \union {brk}
    /\ UNCHANGED <<hptr, hsize, freep, mine>>

HeapNext == (\E nbytes \in Sizes : Malloc(nbytes)) \/ (\E b \in mine : FreeBlock(b)) \/ Sbrk
HeapSpec == HeapInit /\ [][HeapNext]_heapVars
---------------------------------------------------------------------------
Extent(b) == b .. b + hsize[b] - 1

\* Every unit of the heap is in exactly one block, free or the program's, whatever
\* the order of malloc() and free(): none is lost and none is given twice.  The
\* free list goes once through the free blocks in the order of their addresses, and
\* free() leaves no two free blocks side by side that it could have merged.
HeapPartitioned ==
    freep # NULL =>
        LET list == Ring(hptr, freep, {})
            blocks == (list \ {0}) \union mine
        IN  /\ 0 \in list /\ list \intersect mine = {}
            /\ \A p \in list : LET above == {q \in list : q > p} IN
                               hptr[p] = Min(IF above = {} THEN list ELSE above)
            /\ \A b, c \in blocks : b # c => Extent(b) \intersect Extent(c) = {}
            /\ UNION {Extent(b) : b \in blocks} = (1 .. brk - 1) \ gaps
            /\ \A p \in list \ {0} : p + hsize[p] \notin list
===========================================================================
