---------------------------------- MODULE Pmm ----------------------------------
(****************************************************************************)
(* The physical memory manager, src/kernel/mm/pmm.c: one bit per 4 KB page  *)
(* of the managed memory, set while the page may not be given out, and a    *)
(* counter of the clear bits.                                               *)
(*                                                                          *)
(* The memory map the bootloader hands over is an external input: a         *)
(* sequence of entries [base, length, usable], in bytes.  `held' is the     *)
(* clients' half of the interface: the pages pmm_alloc_page has returned    *)
(* and that have not been passed to pmm_free_page since.                    *)
(*                                                                          *)
(* A definition marked "Mutant" is a faulty variant of the one below it,    *)
(* used to show that a property can fail.                                   *)
(****************************************************************************)
EXTENDS Integers, Sequences, FiniteSets, FiniteSetsExt

CONSTANTS
    PageSize,     \* bytes in a page
    MaxPages,     \* pages managed, MAX_PAGES
    KernelEnd,    \* address right after the kernel's image, &_kernel_end
    MemoryMaps    \* the memory maps a bootloader may hand over

ASSUME PmmAssumption ==
    /\ PageSize \in Nat \ {0}
    /\ MaxPages \in Nat \ {0}
    /\ KernelEnd \in Nat
    /\ MemoryMaps \subseteq
          Seq([base : Nat, length : Nat, usable : BOOLEAN])

VARIABLES
    bitmap,            \* the pages whose bit is set: not available
    free_pages_count,
    mmap,              \* the memory map of this boot; read only
    next_entry,        \* the entry pmm_init looks at next
    pmm_up,            \* pmm_init has returned
    held               \* the pages the clients own

pmm_vars == <<bitmap, free_pages_count, mmap, next_entry, pmm_up, held>>

Pages     == 0 .. MaxPages - 1
FreePages == Pages \ bitmap
NULL      == 0

AddressOf(page) == page * PageSize

--------------------------------------------------------------------------------
\* The pages one entry makes available: those from the page the entry begins
\* in, up to the last one that ends inside the entry and inside the managed
\* memory.  The sum of base and length does not wrap at 2^64 (line 55), nor is the
\* number of the first page cut to 32 bits (line 60): both matter only for entries at
\* or above 2^44.
EntryPages(entry) ==
    LET region_end == Min({entry.base + entry.length, MaxPages * PageSize})
        first_page == entry.base \div PageSize
        last_page  == region_end \div PageSize
    IN  {p \in Pages : first_page <= p /\ p < last_page}

\* Mutant: a page counts again when a later entry covers it too.
OpenedAgain(entry) == IF entry.usable THEN EntryPages(entry) ELSE {}

\* Mutant: every entry is taken for usable memory.
OpenedAnyType(entry) == EntryPages(entry) \cap bitmap

\* The bits pmm_init clears for the entry.
Opened(entry) == IF entry.usable THEN EntryPages(entry) \cap bitmap ELSE {}

\* Mutants: the page the image ends in is left out; nothing is reserved.
KernelEndPageDown == KernelEnd \div PageSize
KernelEndPageZero == 0

\* The number of pages pmm_init reserves whatever the memory map says.
KernelEndPage == KernelEnd \div PageSize + 1

\* The bits reserve_page sets for the kernel.
Reserved == {p \in Pages : p < KernelEndPage} \ bitmap

PmmInit ==
    /\ mmap \in MemoryMaps
    /\ bitmap = Pages
    /\ free_pages_count = 0
    /\ next_entry = 1
    /\ pmm_up = FALSE
    /\ held = {}

\* One turn of pmm_init's loop over the memory map.
ScanEntry ==
    /\ ~pmm_up
    /\ next_entry <= Len(mmap)
    /\ LET opened == Opened(mmap[next_entry])
       IN  /\ bitmap' = bitmap \ opened
           /\ free_pages_count' = free_pages_count + Cardinality(opened)
    /\ next_entry' = next_entry + 1
    /\ UNCHANGED <<mmap, pmm_up, held>>

\* The end of pmm_init: the kernel's image and all below it are reserved.
ReserveKernel ==
    /\ ~pmm_up
    /\ next_entry > Len(mmap)
    /\ bitmap' = bitmap \cup Reserved
    /\ free_pages_count' = free_pages_count - Cardinality(Reserved)
    /\ pmm_up' = TRUE
    /\ UNCHANGED <<mmap, next_entry, held>>

\* Mutant: the page is handed out with its bit still clear.
AllocPageBitClear ==
    /\ pmm_up
    /\ FreePages # {}
    /\ free_pages_count' = free_pages_count - 1
    /\ held' = held \cup {Min(FreePages)}
    /\ UNCHANGED <<bitmap, mmap, next_entry, pmm_up>>

\* pmm_alloc_page: the lowest free page, or NULL and no change when there is
\* none.  A client takes the address NULL for a failure.
AllocPage ==
    /\ pmm_up
    /\ IF FreePages = {}
         THEN UNCHANGED <<bitmap, free_pages_count, held>>
         ELSE LET page == Min(FreePages)
              IN  /\ bitmap' = bitmap \cup {page}
                  /\ free_pages_count' = free_pages_count - 1
                  /\ held' = IF AddressOf(page) = NULL THEN held
                                                       ELSE held \cup {page}
    /\ UNCHANGED <<mmap, next_entry, pmm_up>>

\* pmm_free_page: a page whose bit is clear is left alone.
FreePage(page) ==
    /\ pmm_up
    /\ IF page \in bitmap
         THEN /\ bitmap' = bitmap \ {page}
              /\ free_pages_count' = free_pages_count + 1
         ELSE UNCHANGED <<bitmap, free_pages_count>>
    /\ held' = held \ {page}
    /\ UNCHANGED <<mmap, next_entry, pmm_up>>

\* A client gives back a page it holds, or one that has already been given
\* back and not been handed out again.
ClientFree == \E page \in held \cup FreePages : FreePage(page)

PmmNext ==
    \/ ScanEntry
    \/ ReserveKernel
    \/ AllocPage
    \/ ClientFree

PmmSpec == PmmInit /\ [][PmmNext]_pmm_vars

--------------------------------------------------------------------------------
PmmTypeOK ==
    /\ bitmap \subseteq Pages
    /\ free_pages_count \in Nat
    /\ mmap \in MemoryMaps
    /\ next_entry \in 1 .. Len(mmap) + 1
    /\ pmm_up \in BOOLEAN
    /\ held \subseteq Pages

\* The counter that meminfo prints (pmm_get_free_page_count) is the number of
\* clear bits, whatever overlaps in the memory map and however often a page is
\* given back (pmm.c:24, 64 and 100 guard the counter by the bit).
CountExact == free_pages_count = Cardinality(FreePages)

\* pmm.c:75-77: once pmm_init is done no page that holds a byte of the kernel's
\* image, or of what lies below it, is free or handed out.
KernelNeverGivenOut ==
    pmm_up => \A page \in FreePages \cup held : AddressOf(page) >= KernelEnd

\* No page is at the same time free and in a client's hands: nothing is handed
\* out twice (heap.c:63-64 relies on it).
HeldNotFree == held \cap FreePages = {}

\* pmm_alloc_page and pmm_free_page neither lose a page nor make one up: a page
\* is either free or in a client's hands, and only pmm_init changes which pages
\* there are.
PagesConserved ==
    [][pmm_up => (held \cup FreePages)' = held \cup FreePages]_pmm_vars

\* The bytes of the page lie in one usable entry of the memory map.
WhollyUsable(page) ==
    \E i \in DOMAIN mmap :
        /\ mmap[i].usable
        /\ mmap[i].base <= AddressOf(page)
        /\ AddressOf(page + 1) <= mmap[i].base + mmap[i].length

\* pmm.c:34-35: "we only free pages the memory map explicitly tells us are
\* usable RAM".
OnlyUsableRam == \A page \in FreePages \cup held : WhollyUsable(page)
================================================================================
