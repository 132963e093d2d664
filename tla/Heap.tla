---------------------------------- MODULE Heap ----------------------------------
(****************************************************************************)
(* The kernel heap, src/kernel/mm/heap.c, on top of the physical memory     *)
(* manager: a doubly linked list of blocks, each a header of HDR bytes      *)
(* followed by its usable bytes, kept in the pages pmm_alloc_page gave out. *)
(*                                                                          *)
(* hdr maps the address of every header on the list to its fields.  The     *)
(* heap is the only client of the page allocator.  kmalloc and kfree run to *)
(* completion: no interrupt handler allocates, and there is one thread.     *)
(****************************************************************************)
EXTENDS Pmm, Functions

CONSTANTS
    HDR,            \* sizeof(heap_block_t)
    Align,          \* ALIGNMENT
    MinSplit,       \* MIN_SPLIT_SIZE
    InitialPages,   \* HEAP_INITIAL_PAGES
    Word,           \* one more than the largest unsigned int, 2^32
    Sizes           \* the sizes callers of kmalloc ask for

ASSUME HeapAssumption ==
    /\ HDR \in Nat \ {0} /\ Align \in Nat \ {0} /\ MinSplit \in Nat
    /\ InitialPages \in Nat \ {0}
    /\ HDR % Align = 0 /\ PageSize % Align = 0
    /\ HDR < PageSize
    /\ Word \in Nat /\ MaxPages * PageSize <= Word
    /\ Sizes \subseteq Nat
    \* no request is so near 2^32 that the sums of kmalloc wrap around
    /\ \A size \in Sizes : size + Align + HDR + MinSplit + PageSize <= Word

VARIABLES
    heap_up,      \* heap_init has returned
    heap_head,
    hdr,          \* the blocks on the list: [size, free, next, prev]
    used_bytes,
    free_bytes,
    granted,      \* pointers the callers hold, with the size they asked for
    regions       \* how often heap_extend has added a block (history)

list_vars  == <<heap_head, hdr>>
byte_vars  == <<used_bytes, free_bytes>>
caller_vars == <<heap_up, granted>>
heap_vars  == <<list_vars, byte_vars, caller_vars, regions>>
vars       == <<pmm_vars, heap_vars>>

Blocks == DOMAIN hdr

BlockEnd(h, b) == b + HDR + h[b].size

\* Mutant: rounds down.
AlignDown(n, align) == (n \div align) * align

\* align_up, in unsigned arithmetic.
AlignUp(n, align) == (((n + align - 1) % Word) \div align) * align

--------------------------------------------------------------------------------
\* heap_extend's dealings with the page allocator, when a page is free: want
\* pages are asked for one at a time, each the lowest that is free; the first
\* that does not follow its predecessor is given back at once, which leaves
\* the bitmap and the counter as they were.

\* Mutant: the highest page that is free.
HighestFreePage == Max(FreePages)

FirstFreePage == Min(FreePages)

RunLength(want) ==
    Min({k \in 1 .. want : k = want \/ FirstFreePage + k \notin FreePages})

TakePages(got) ==
    LET region == FirstFreePage .. FirstFreePage + got - 1
    IN  /\ bitmap' = bitmap \cup region
        /\ free_pages_count' = free_pages_count - got
        /\ held' = held \cup region
        /\ UNCHANGED <<mmap, next_entry, pmm_up>>

RegionSize(got) == got * PageSize - HDR

\* The last block of the list, where heap_extend's walk over it ends.
ListTail == IF Blocks = {} THEN NULL ELSE CHOOSE b \in Blocks : hdr[b].next = NULL

\* The list with the block new, of size bytes and free, after its tail.
Appended(new, size) ==
    [b \in Blocks \cup {new} |->
        IF b = new THEN [size |-> size, free |-> TRUE, next |-> NULL, prev |-> ListTail]
        ELSE IF b = ListTail THEN [hdr[b] EXCEPT !.next = new]
        ELSE hdr[b]]

\* Mutant: a block in use is taken too.
FitsInUse(n) == {b \in Blocks : hdr[b].size >= n}

\* kmalloc's walk from heap_head to the first free block of n bytes or more;
\* NULL when it reaches the end of the list.
Fits(n) == {b \in Blocks : hdr[b].free /\ hdr[b].size >= n}

FirstFit(n) ==
    LET walk[b \in Blocks \cup {NULL}] ==
            IF b = NULL \/ b \in Fits(n) THEN b ELSE walk[hdr[b].next]
    IN  IF walk[heap_head] \in Fits(n) THEN walk[heap_head] ELSE NULL

\* Mutant: the link back is forgotten.
NotLinkedBack(h, b, to) == h

\* "if (b->...) b->prev = to", at the end of a split and of a merge.
LinkedBack(h, b, to) == IF b = NULL THEN h ELSE [h EXCEPT ![b].prev = to]

\* Mutant: the remainder begins where the bytes granted end, less a header.
RemainderTooLow(b, n) == b + n

\* Where the remainder of block b begins when n bytes of it are granted.
Remainder(b, n) == b + HDR + n

\* Block b cut down to n bytes; what is left becomes a free block, if it is
\* big enough to be worth its own header.
Split(h, b, n) ==
    LET r   == Remainder(b, n)
        cut == [a \in DOMAIN h \cup {r} |->
                  IF a = b THEN [h[b] EXCEPT !.size = n, !.next = r]
                  ELSE IF a = r THEN [size |-> h[b].size - n - HDR, free |-> TRUE,
                                      next |-> h[b].next, prev |-> b]
                  ELSE h[a]]
    IN  IF h[b].size >= n + HDR + MinSplit THEN LinkedBack(cut, h[b].next, r)
                                           ELSE h

\* try_merge's conditions: both blocks are there and free, and nothing lies
\* between them.
Mergeable(h, lower, higher) ==
    /\ {lower, higher} \subseteq DOMAIN h
    /\ h[lower].free /\ h[higher].free
    /\ BlockEnd(h, lower) = higher

TryMerge(h, lower, higher) ==
    LET joined == [a \in DOMAIN h \ {higher} |->
                     IF a = lower
                       THEN [h[a] EXCEPT !.size = @ + HDR + h[higher].size,
                                         !.next = h[higher].next]
                       ELSE h[a]]
    IN  IF Mergeable(h, lower, higher)
          THEN LinkedBack(joined, h[higher].next, lower)
          ELSE h

\* The list after kfree of block b: b is merged with its successor, then with
\* its predecessor.
Freed(b) ==
    LET marked == [hdr EXCEPT ![b].free = TRUE]
        after  == TryMerge(marked, b, marked[b].next)
    IN  TryMerge(after, after[b].prev, b)

\* Mutant: the size is read after the merges.
ReleasedSizeLate(b) ==
    IF b \in DOMAIN Freed(b) THEN Freed(b)[b].size ELSE hdr[b].size

\* The size kfree takes off used_bytes, read before the merges.
ReleasedSize(b) == hdr[b].size

--------------------------------------------------------------------------------
Init ==
    /\ PmmInit
    /\ heap_up = FALSE
    /\ heap_head = NULL
    /\ hdr = [b \in {} |-> 0]
    /\ used_bytes = 0
    /\ free_bytes = 0
    /\ granted = [ptr \in {} |-> 0]
    /\ regions = 0

\* pmm_init runs before heap_init (init.h).
Boot == (ScanEntry \/ ReserveKernel) /\ UNCHANGED heap_vars

\* heap_init: the heap's first region; none if no page is free.
HeapInit ==
    /\ pmm_up /\ ~heap_up
    /\ heap_up' = TRUE
    /\ IF FreePages = {}
         THEN UNCHANGED <<pmm_vars, list_vars, free_bytes, regions>>
         ELSE LET got == RunLength(InitialPages)
                  new == AddressOf(FirstFreePage)
              IN  /\ TakePages(got)
                  /\ hdr' = Appended(new, RegionSize(got))
                  /\ heap_head' = new
                  /\ free_bytes' = RegionSize(got)
                  /\ regions' = 1
    /\ UNCHANGED <<used_bytes, granted>>

\* The end of kmalloc: block b of list h is split and handed out, the counters
\* starting from what heap_extend made of free_bytes.
GrantBlock(h, b, n, size, free) ==
    /\ hdr' = [Split(h, b, n) EXCEPT ![b].free = FALSE]
    /\ free_bytes' = (free - hdr'[b].size) % Word
    /\ used_bytes' = (used_bytes + hdr'[b].size) % Word
    /\ granted' = [p \in DOMAIN granted \cup {b + HDR} |->
                      IF p = b + HDR THEN size ELSE granted[p]]

\* kmalloc finds a block on the list.
KmallocFromList(size) ==
    LET n == AlignUp(size, Align)
    IN  /\ heap_up /\ size # 0
        /\ FirstFit(n) # NULL
        /\ GrantBlock(hdr, FirstFit(n), n, size, free_bytes)
        /\ UNCHANGED <<pmm_vars, heap_up, heap_head, regions>>

\* No block is big enough: the heap grows by as many pages as follow the first
\* free one, up to those needed.  When they are too few, kmalloc returns NULL
\* and the pages stay in the heap.
KmallocExtends(size) ==
    LET n          == AlignUp(size, Align)
        need_pages == (n + HDR + PageSize - 1) \div PageSize
        got        == RunLength(need_pages)
        new        == AddressOf(FirstFreePage)
        grown      == Appended(new, RegionSize(got))
        free       == (free_bytes + RegionSize(got)) % Word
    IN  /\ heap_up /\ size # 0
        /\ FirstFit(n) = NULL
        /\ FreePages # {}
        /\ TakePages(got)
        /\ heap_head' = IF Blocks = {} THEN new ELSE heap_head
        /\ regions' = regions + 1
        /\ IF RegionSize(got) < n
             THEN /\ hdr' = grown
                  /\ free_bytes' = free
                  /\ UNCHANGED <<used_bytes, granted>>
             ELSE GrantBlock(grown, new, n, size, free)
        /\ UNCHANGED heap_up

\* kmalloc with nothing to give: size 0, or no fitting block and no free page.
KmallocFails(size) ==
    /\ heap_up
    /\ size = 0 \/ (FirstFit(AlignUp(size, Align)) = NULL /\ FreePages = {})
    /\ UNCHANGED vars

\* kfree of a pointer kmalloc returned; kfree(NULL) does nothing.
Kfree(ptr) ==
    LET b == ptr - HDR
    IN  /\ hdr' = Freed(b)
        /\ used_bytes' = (used_bytes - ReleasedSize(b)) % Word
        /\ free_bytes' = (free_bytes + ReleasedSize(b)) % Word
        /\ granted' = Restrict(granted, DOMAIN granted \ {ptr})
        /\ UNCHANGED <<pmm_vars, heap_up, heap_head, regions>>

Next ==
    \/ Boot
    \/ HeapInit
    \/ \E size \in Sizes :
          KmallocFromList(size) \/ KmallocExtends(size) \/ KmallocFails(size)
    \/ \E ptr \in DOMAIN granted : Kfree(ptr)

Spec == Init /\ [][Next]_vars

--------------------------------------------------------------------------------
Links == Blocks \cup {NULL}

HeapTypeOK ==
    /\ hdr \in [Blocks -> [size : Nat, free : BOOLEAN, next : Links, prev : Links]]
    /\ Blocks \subseteq Nat \ {NULL}
    /\ heap_head \in Links
    /\ used_bytes \in 0 .. Word - 1 /\ free_bytes \in 0 .. Word - 1
    /\ heap_up \in BOOLEAN
    /\ granted \in [DOMAIN granted -> Sizes]

\* heap.c:139-141, "list order matching address order is an invariant we
\* maintain": next and prev are each other's inverse, addresses rise along the
\* list, and heap_head is the one block without a predecessor.
ListInAddressOrder ==
    /\ \A b \in Blocks :
          /\ hdr[b].next # NULL => b < hdr[b].next /\ hdr[hdr[b].next].prev = b
          /\ hdr[b].prev # NULL => hdr[hdr[b].prev].next = b
          /\ hdr[b].prev = NULL <=> b = heap_head
    /\ heap_head = NULL => Blocks = {}
    /\ \A b, c \in Blocks : hdr[b].next = NULL /\ hdr[c].next = NULL => b = c

\* The blocks cover the bytes of the heap's pages, each byte once: no split,
\* merge or extension loses memory or lets two blocks overlap (heap.c:20-177).
BlocksTilePages ==
    /\ \A b, c \in Blocks : b < c => BlockEnd(hdr, b) <= c
    /\ UNION {b .. BlockEnd(hdr, b) - 1 : b \in Blocks}
         = UNION {AddressOf(p) .. AddressOf(p + 1) - 1 : p \in held}

\* heap.c:62-65: "heap_extend always gets a higher address than anything already
\* in the heap", since every free page lies above every page of the heap.
HeapBelowFreePages == \A p \in held, q \in FreePages : p < q

\* The blocks in use are exactly those whose pointers the callers hold, and
\* each is as large as its caller asked.
GrantsBacked ==
    /\ {b + HDR : b \in {c \in Blocks : ~hdr[c].free}} = DOMAIN granted
    /\ \A ptr \in DOMAIN granted : hdr[ptr - HDR].size >= granted[ptr]

SizeOf(S) == MapThenSumSet(LAMBDA b : hdr[b].size, S)

\* The two counters of meminfo (sysinfo_commands.c:117-121): used_bytes is
\* exact; free_bytes is off by a header for each split, less one for each
\* merge, modulo 2^32.
BytesAccounted ==
    LET free == {b \in Blocks : hdr[b].free}
    IN  /\ used_bytes = SizeOf(Blocks \ free)
        /\ free_bytes =
             (SizeOf(free) + HDR * (Cardinality(Blocks) - regions)) % Word

\* kmalloc and kfree implement MemoryPool.
Pool == INSTANCE MemoryPool WITH Addresses <- 0 .. MaxPages * PageSize - 1

PoolSpec == Pool!Spec
================================================================================
