------------------------------ MODULE UserCopy ------------------------------
(***************************************************************************)
(* Copying between the kernel and user memory (copyin, copyout, copyinstr  *)
(* and walkaddr in kernel/vm.c, fetchaddr and fetchstr in                  *)
(* kernel/syscall.c) and memmove() of the kernel and of user programs.     *)
(* Addresses are unsigned words; a byte is known by its physical address.  *)
(***************************************************************************)
EXTENDS Naturals, Sequences, FiniteSets, FiniteSetsExt, SequencesExt

CONSTANTS
    ADDRESSES,  \* number of addresses of a word (2^64)
    MAXVA,      \* first address that no page table maps
    PAGE,       \* bytes of a page
    MaxCopy     \* longest copy that is tried

\* A page is unmapped, the kernel's (no PTE_U), read-only, or writable.
PageKinds == {"none", "kernel", "readonly", "writable"}
UserPages == 0 .. (MAXVA \div PAGE) - 1

VARIABLE copying    \* the page table, the address and the length of a call

PGROUNDDOWN(va) == va - (va % PAGE)
Plus(va, n) == (va + n) % ADDRESSES

\* Pages lie in memory in another order than in the address space.
PhysAddr(va) == (MAXVA - PAGE - PGROUNDDOWN(va)) + (va % PAGE)

walkaddr(va0, kinds) == va0 < MAXVA /\ copying.pages[va0 \div PAGE] \in kinds

Chunk_WholePage(va, len) == IF PAGE > len THEN len ELSE PAGE

Chunk(va, len) == LET n == PAGE - (va - PGROUNDDOWN(va)) IN IF n > len THEN len ELSE n

\* The loop of copyin() and copyout(), page by page.
RECURSIVE CopyPages(_, _, _, _)
CopyPages(kinds, va, len, done) ==
    LET n == Chunk(va, len) IN
    IF len = 0 THEN [ok |-> TRUE, bytes |-> done]
    ELSE IF ~ walkaddr(PGROUNDDOWN(va), kinds) THEN [ok |-> FALSE, bytes |-> done]
    ELSE CopyPages(kinds, Plus(PGROUNDDOWN(va), PAGE), len - n,
                   done \o [i \in 1 .. n |-> PhysAddr(va) + i - 1])

copyin(va, len) == CopyPages({"readonly", "writable"}, va, len, <<>>)
copyout(va, len) == CopyPages({"writable"}, va, len, <<>>)

\* copyinstr(): also stops at a NUL, which is the byte at address copying.nul.
RECURSIVE copyinstr(_, _, _)
copyinstr(va, max, done) ==
    LET n == Chunk(va, max)
        bytes == [i \in 1 .. n |-> PhysAddr(va) + i - 1]
        nul == {i \in 1 .. n : Plus(va, i - 1) = copying.nul}
    IN  IF max = 0 \/ ~ walkaddr(PGROUNDDOWN(va), {"readonly", "writable"})
          THEN [ok |-> FALSE, bytes |-> done]
        ELSE IF nul # {} THEN [ok |-> TRUE, bytes |-> done \o SubSeq(bytes, 1, Min(nul) - 1)]
        ELSE copyinstr(Plus(PGROUNDDOWN(va), PAGE), max - n, done \o bytes)

\* fetchaddr() of a word of `len` bytes below the process's size; fetchstr().
fetchaddr(va, len, sz) ==
    /\ ~ (va >= sz \/ Plus(va, len) > sz)
    /\ copyin(va, len).ok

fetchstr(va, max) ==
    LET r == copyinstr(va, max, <<>>) IN IF r.ok THEN Len(r.bytes) ELSE MaxCopy + 1

\* memmove() one byte at a time: downwards in the kernel only where the regions
\* overlap, in user programs always unless the source is above.
MoveBytes(mem, dst, src, order) ==
    FoldLeft(LAMBDA m, i : [m EXCEPT ![dst + i] = m[src + i]], mem, order)

Upwards(n) == [i \in 1 .. n |-> i - 1]
memmove(mem, dst, src, n) ==
    MoveBytes(mem, dst, src, IF src < dst /\ src + n > dst THEN Reverse(Upwards(n)) ELSE Upwards(n))
umemmove(mem, dst, src, n) ==
    MoveBytes(mem, dst, src, IF src > dst THEN Upwards(n) ELSE Reverse(Upwards(n)))

CopyInit ==
    copying \in [pages : [UserPages -> PageKinds], va : 0 .. ADDRESSES - 1, len : 0 .. MaxCopy,
                 nul : 0 .. MAXVA]
---------------------------------------------------------------------------
\* What user code could access itself, byte by byte, up to the first fault.
Accessible(kinds, va, len) ==
    LET bad == {i \in 0 .. len - 1 :
                  va + i >= MAXVA \/ copying.pages[(va + i) \div PAGE] \notin kinds}
    IN  IF bad = {} THEN len ELSE Min(bad)

\* A copy moves exactly the bytes that lead up to the first address that a user
\* program could not access itself, and succeeds if and only if there is none in
\* the range: page boundaries, the end of the address space, wrapped-around lengths
\* and permissions make no difference.  A string ends at its NUL, which must lie
\* within `max` bytes.  fetchaddr() never reads past the process's size.  Both
\* memmove() leave in the destination what the source held before, however the two
\* overlap, and change nothing else.
CopiesLikeBytes ==
    LET va == copying.va
        len == copying.len
        Agrees(r, kinds) ==
            /\ r.ok = (Accessible(kinds, va, len) = len)
            /\ r.bytes = [i \in 1 .. Accessible(kinds, va, len) |-> PhysAddr(va + i - 1)]
        readable == Accessible({"readonly", "writable"}, va, len)
        dst == copying.nul
        mem == [a \in 0 .. ADDRESSES + MaxCopy |-> a]
    IN  /\ Agrees(copyin(va, len), {"readonly", "writable"})
        /\ Agrees(copyout(va, len), {"writable"})
        /\ fetchstr(va, len) = IF \E i \in 0 .. readable - 1 : va + i = copying.nul
                               THEN copying.nul - va ELSE MaxCopy + 1
        /\ \A sz \in 0 .. MAXVA : len > 0 /\ fetchaddr(va, len, sz) => va + len <= sz
        /\ memmove(mem, dst, va, len) = umemmove(mem, dst, va, len)
        /\ memmove(mem, dst, va, len) =
             [a \in DOMAIN mem |-> IF a \in dst .. dst + len - 1 THEN va + (a - dst) ELSE a]

===========================================================================
