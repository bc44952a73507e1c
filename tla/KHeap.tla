------------------------------- MODULE KHeap -------------------------------
(***************************************************************************)
(* The kernel heap, kernel/memory/kheap.c: a doubly linked list of blocks  *)
(* that tile heap_area, first fit, split on allocation, coalesced on       *)
(* release.                                                                *)
(*                                                                         *)
(* Addresses are offsets into heap_area (which is page aligned).  heap     *)
(* maps the offset of each block header to its fields; a header that a     *)
(* merge makes dead leaves the domain.  live is what the callers know: the *)
(* pointers they got, the block each belongs to and the size they asked    *)
(* for.  The heap has no lock and is called with interrupts off or from    *)
(* the boot thread before any interrupt handler uses it.                   *)
(*                                                                         *)
(* krealloc of a size that (size + 7) & ~7 wraps gets a tiny block and     *)
(* copies past its end.  The headers in the way then hold bytes of the     *)
(* caller's, so that what a later call does is not determined: the step is *)
(* modelled and recorded in overrun, and no walk of the list after it.     *)
(***************************************************************************)
EXTENDS Integers, FiniteSets

CONSTANTS
    WORD,        \* 2^32: the range of size_t
    KHEAP_SIZE,  \* bytes in heap_area
    Sizes,       \* the sizes callers ask for
    Alignments   \* the alignments they ask for, powers of two

HEAP_BLOCK_HEADER_SIZE == 16
HEAP_MIN_BLOCK_SIZE    == 16
NULL                   == -1

ASSUME KHeapAssumption ==
    /\ WORD \in Nat /\ KHEAP_SIZE \in Nat
    /\ HEAP_BLOCK_HEADER_SIZE <= KHEAP_SIZE
    /\ KHEAP_SIZE + HEAP_BLOCK_HEADER_SIZE + HEAP_MIN_BLOCK_SIZE <= WORD
    /\ KHEAP_SIZE % 8 = 0
    /\ Sizes \subseteq 0 .. WORD - 1
    /\ Alignments \subseteq 1 .. WORD - 1

Header == [size : 0 .. KHEAP_SIZE, free : BOOLEAN, next : Int, prev : Int]

Pointer == [block : 0 .. KHEAP_SIZE, ptr : Nat, size : Nat]

VARIABLES
    heap_initialized,
    heap,    \* the block headers, by offset
    live,    \* the pointers callers hold
    failed,  \* the rounded size of the request, when the last call printed
             \* "Out of kernel heap memory"; NULL otherwise
    overrun  \* history: the new_size of the krealloc that copied past the
             \* end of its block; NULL if none did

vars == <<heap_initialized, heap, live, failed, overrun>>

Intact == overrun = NULL

-----------------------------------------------------------------------------
End(h, a) == a + HEAP_BLOCK_HEADER_SIZE + h[a].size

(***************************************************************************)
(* size = (size + 7) & ~7, on 32 bits, and the mutant size & ~7.           *)
(***************************************************************************)
Round8Down(size) == (size \div 8) * 8
Round8(size) == (((size + 7) % WORD) \div 8) * 8

(***************************************************************************)
(* Mutant of split_block: the following block keeps its old prev link.     *)
(***************************************************************************)
split_block_stale_prev(h, block, size) ==
    IF h[block].size >= size + HEAP_BLOCK_HEADER_SIZE + HEAP_MIN_BLOCK_SIZE
    THEN LET new_block == block + HEAP_BLOCK_HEADER_SIZE + size
         IN  [a \in DOMAIN h \cup {new_block} |->
                 IF a = new_block
                 THEN   [size |-> h[block].size - size - HEAP_BLOCK_HEADER_SIZE,
                         free |-> TRUE, next |-> h[block].next, prev |-> block]
                 ELSE IF a = block
                 THEN   [h[a] EXCEPT !.next = new_block, !.size = size]
                 ELSE   h[a]]
    ELSE h

(***************************************************************************)
(* split_block: when the rest can hold a header and a minimal block, it    *)
(* becomes a free block of its own.                                        *)
(***************************************************************************)
split_block(h, block, size) ==
    IF h[block].size >= size + HEAP_BLOCK_HEADER_SIZE + HEAP_MIN_BLOCK_SIZE
    THEN LET new_block == block + HEAP_BLOCK_HEADER_SIZE + size
         IN  [a \in DOMAIN h \cup {new_block} |->
                 IF a = new_block
                 THEN   [size |-> h[block].size - size - HEAP_BLOCK_HEADER_SIZE,
                         free |-> TRUE, next |-> h[block].next, prev |-> block]
                 ELSE IF a = block
                 THEN   [h[a] EXCEPT !.next = new_block, !.size = size]
                 ELSE IF a = h[block].next
                 THEN   [h[a] EXCEPT !.prev = new_block]
                 ELSE   h[a]]
    ELSE h

(***************************************************************************)
(* One half of coalesce_block: block a takes over block b, which follows.  *)
(***************************************************************************)
Absorb(h, a, b) ==
    [c \in DOMAIN h \ {b} |->
        IF c = a
        THEN [h[c] EXCEPT !.size = @ + HEAP_BLOCK_HEADER_SIZE + h[b].size,
                          !.next = h[b].next]
        ELSE IF c = h[b].next THEN [h[c] EXCEPT !.prev = a]
        ELSE h[c]]

IsFree(h, a) == a # NULL /\ h[a].free

AbsorbNext(h, block) ==
    IF IsFree(h, h[block].next) THEN Absorb(h, block, h[block].next) ELSE h

AbsorbedByPrev(h, block) ==
    IF IsFree(h, h[block].prev) THEN Absorb(h, h[block].prev, block) ELSE h

(***************************************************************************)
(* coalesce_block, and the mutant that forgets the block before.           *)
(***************************************************************************)
coalesce_next_only(h, block) == AbsorbNext(h, block)
coalesce_block(h, block) == AbsorbedByPrev(AbsorbNext(h, block), block)

(***************************************************************************)
(* The search of kmalloc.  It follows the next links from offset 0 and     *)
(* takes the first free block that is large enough; by Tiling, which holds *)
(* while the headers are intact, those links visit the blocks in address   *)
(* order.                                                                  *)
(***************************************************************************)
Fitting(h, size) == {a \in DOMAIN h : h[a].free /\ h[a].size >= size}

FirstFit(a, size) ==
    /\ a \in Fitting(heap, size)
    /\ \A c \in Fitting(heap, size) : a <= c

(***************************************************************************)
(* Splitting and marking the block found, the mutant that leaves it marked *)
(* free, and giving a block back.                                          *)
(***************************************************************************)
TakeUnmarked(h, a, size) == split_block(h, a, size)
Take(h, a, size) == [split_block(h, a, size) EXCEPT ![a].free = FALSE]

Release(h, a) == coalesce_block([h EXCEPT ![a].free = TRUE], a)

-----------------------------------------------------------------------------
Init ==
    /\ heap_initialized = FALSE
    /\ heap = [a \in {} |-> a]
    /\ live = {}
    /\ failed = NULL /\ overrun = NULL

WholeHeap == [a \in {0} |-> [size |-> KHEAP_SIZE - HEAP_BLOCK_HEADER_SIZE,
                             free |-> TRUE, next |-> NULL, prev |-> NULL]]

kheap_init ==
    /\ ~heap_initialized
    /\ heap_initialized' = TRUE
    /\ heap' = WholeHeap
    /\ UNCHANGED <<live, failed, overrun>>

(***************************************************************************)
(* kmalloc(request), returning a pointer and returning NULL.               *)
(***************************************************************************)
Accepted(request) == heap_initialized /\ request # 0

Returns(request, a) ==
    Accepted(request) /\ Intact /\ FirstFit(a, Round8(request))

NoRoom(request) ==
    Accepted(request) /\ Intact /\ Fitting(heap, Round8(request)) = {}

ReturnsNull(request) ==
    /\ ~Accepted(request) \/ NoRoom(request)
    /\ failed' = IF Accepted(request) THEN Round8(request) ELSE NULL
    /\ UNCHANGED <<heap_initialized, heap, live, overrun>>

kmalloc(size) ==
    \/ \E a \in DOMAIN heap :
          /\ Returns(size, a)
          /\ heap' = Take(heap, a, Round8(size))
          /\ live' = live \cup {[block |-> a, size |-> size,
                                 ptr |-> a + HEAP_BLOCK_HEADER_SIZE]}
          /\ failed' = NULL
          /\ UNCHANGED <<heap_initialized, overrun>>
    \/ ReturnsNull(size)

(***************************************************************************)
(* kmalloc_aligned: over-allocate and round the pointer up.                *)
(***************************************************************************)
AlignUp(ptr, alignment) ==
    ((ptr + alignment - 1) \div alignment) * alignment

kmalloc_aligned(size, alignment) ==
    LET request == (size + alignment) % WORD
    IN  \/ \E a \in DOMAIN heap :
              /\ Returns(request, a)
              /\ heap' = Take(heap, a, Round8(request))
              /\ live' = live \cup {[block |-> a, size |-> size,
                                     ptr |-> AlignUp(a + HEAP_BLOCK_HEADER_SIZE,
                                                     alignment)]}
              /\ failed' = NULL
              /\ UNCHANGED <<heap_initialized, overrun>>
        \/ ReturnsNull(request)

(***************************************************************************)
(* kfree(p.ptr): the code subtracts the header size, so a caller may only  *)
(* give back the first byte of a block.  kfree(NULL) does nothing.         *)
(***************************************************************************)
IsBlockStart(p) == p.ptr = p.block + HEAP_BLOCK_HEADER_SIZE

kfree(p) ==
    /\ IsBlockStart(p) /\ Intact
    /\ heap' = Release(heap, p.block)
    /\ live' = live \ {p}
    /\ failed' = NULL
    /\ UNCHANGED <<heap_initialized, overrun>>

(***************************************************************************)
(* krealloc(p.ptr, new_size): free, keep, or allocate, copy and free.      *)
(* krealloc(NULL, new_size) is kmalloc(new_size).                          *)
(***************************************************************************)
Keep(p, new_size) ==
    /\ live' = (live \ {p}) \cup {[p EXCEPT !.size = new_size]}
    /\ failed' = NULL
    /\ UNCHANGED <<heap_initialized, heap, overrun>>

(***************************************************************************)
(* The copy and the release at the end of krealloc, in a heap h where      *)
(* kmalloc has returned block a.  memcpy copies as many bytes as the old   *)
(* block has; the headers it overwrites are headers no longer.             *)
(***************************************************************************)
Overwritten(h, a, old) ==
    {b \in DOMAIN h : End(h, a) <= b /\ b < a + HEAP_BLOCK_HEADER_SIZE + h[old].size}

(***************************************************************************)
(* The mutant does not free the old block.                                 *)
(***************************************************************************)
CopyOnly(h, a, old, new_size) == heap' = h /\ UNCHANGED overrun

CopyAndFree(h, a, old, new_size) ==
    IF h[old].size <= h[a].size
    THEN heap' = Release(h, old) /\ UNCHANGED overrun
    ELSE /\ heap' = [b \in DOMAIN h \ Overwritten(h, a, old) |-> h[b]]
         /\ overrun' = new_size

Move(p, new_size) ==
    \E a \in DOMAIN heap :
        /\ Returns(new_size, a)
        /\ CopyAndFree(Take(heap, a, Round8(new_size)), a, p.block, new_size)
        /\ live' = (live \ {p})
                   \cup {[block |-> a, size |-> new_size,
                          ptr |-> a + HEAP_BLOCK_HEADER_SIZE]}
        /\ failed' = NULL
        /\ UNCHANGED heap_initialized

krealloc(p, new_size) ==
    /\ IsBlockStart(p) /\ Intact
    /\ \/ new_size = 0 /\ kfree(p)
       \/ new_size # 0 /\ heap[p.block].size >= new_size /\ Keep(p, new_size)
       \/ /\ new_size # 0 /\ heap[p.block].size < new_size
          /\ Move(p, new_size) \/ ReturnsNull(new_size)

Next ==
    \/ kheap_init
    \/ \E size \in Sizes : kmalloc(size)
    \/ \E size \in Sizes, alignment \in Alignments :
          kmalloc_aligned(size, alignment)
    \/ \E p \in live : kfree(p)
    \/ \E p \in live, size \in Sizes : krealloc(p, size)

Spec == Init /\ [][Next]_vars

-----------------------------------------------------------------------------
(***************************************************************************)
(* Type invariant: every header of kheap.c holds a size within the heap.   *)
(***************************************************************************)
TypeOK ==
    /\ heap_initialized \in BOOLEAN
    /\ DOMAIN heap \subseteq 0 .. KHEAP_SIZE
    /\ heap = [a \in DOMAIN heap |-> heap[a]]
    /\ \A a \in DOMAIN heap : heap[a] \in Header
    /\ live \subseteq Pointer
    /\ failed \in Int /\ overrun \in Int

(***************************************************************************)
(* The list that split_block and coalesce_block maintain covers heap_area  *)
(* without gap or overlap: each next link is the block's physical end, the *)
(* prev link undoes it, the last block ends the heap, no header lies in    *)
(* another block, and headers and sizes are multiples of 8.  Nothing but a *)
(* krealloc that overruns its block, which RequestsFit is about, ends it.  *)
(***************************************************************************)
Tiled(h) ==
    /\ 0 \in DOMAIN h /\ h[0].prev = NULL
    /\ \A a \in DOMAIN h \ {0} :
          h[a].prev \in DOMAIN h /\ End(h, h[a].prev) = a
    /\ \A a \in DOMAIN h :
          /\ a % 8 = 0 /\ h[a].size % 8 = 0
          /\ End(h, a) <= KHEAP_SIZE
          /\ IF End(h, a) = KHEAP_SIZE
             THEN h[a].next = NULL
             ELSE /\ End(h, a) \in DOMAIN h
                  /\ h[a].next = End(h, a)
                  /\ h[End(h, a)].prev = a
    /\ \A a, b \in DOMAIN h : a < b => End(h, a) <= b

Tiling == heap_initialized /\ Intact => Tiled(heap)

(***************************************************************************)
(* kfree leaves no two neighbouring free blocks, although coalesce_block   *)
(* looks at one neighbour on each side only.                               *)
(***************************************************************************)
Coalesced(h) ==
    \A a \in DOMAIN h : h[a].free /\ h[a].next # NULL => ~h[h[a].next].free

FullyCoalesced == heap_initialized /\ Intact => Coalesced(heap)

(***************************************************************************)
(* The blocks that are not free are exactly the ones callers hold, and     *)
(* each belongs to one caller: kmalloc and krealloc never hand out a block *)
(* twice, and no path of krealloc loses one, until one overruns.           *)
(***************************************************************************)
LiveBlocks ==
    Intact =>
    /\ {p.block : p \in live} = {a \in DOMAIN heap : ~heap[a].free}
    /\ \A p, q \in live : p.block = q.block => p = q

(***************************************************************************)
(* Every byte a caller asked for lies inside the block it was given, for   *)
(* requests that neither (size + 7) & ~7 in kmalloc nor size + alignment   *)
(* in kmalloc_aligned wraps around 32 bits; and only for a request that    *)
(* wraps does the memcpy of krealloc, which copies all of the old block,   *)
(* leave the new one.                                                      *)
(***************************************************************************)
RequestsFit ==
    /\ Intact =>
          \A p \in live :
              \/ p.ptr + p.size <= End(heap, p.block)
              \/ \E slack \in Alignments \cup {0} : p.size + slack + 7 >= WORD
    /\ overrun # NULL => overrun + 7 >= WORD

(***************************************************************************)
(* When kmalloc prints that it is out of memory, no run of bytes outside   *)
(* the allocated blocks could hold the header and the request: first fit   *)
(* never fails because of boundaries between free blocks.                  *)
(***************************************************************************)
FailsOnlyWhenFull ==
    failed # NULL =>
        \A x \in 0 .. KHEAP_SIZE - HEAP_BLOCK_HEADER_SIZE - failed :
            \E a \in DOMAIN heap :
                /\ ~heap[a].free
                /\ a < x + HEAP_BLOCK_HEADER_SIZE + failed
                /\ x < End(heap, a)

(***************************************************************************)
(* When the callers have given everything back, the heap is the single     *)
(* block kheap_init made: no sequence of kmalloc, krealloc and kfree       *)
(* leaves memory behind or splits it for good.                             *)
(***************************************************************************)
AllReturned == heap_initialized /\ Intact /\ live = {} => heap = WholeHeap
=============================================================================
