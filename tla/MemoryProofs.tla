------------------------------ MODULE MemoryProofs ------------------------------
(****************************************************************************)
(* Proofs about Pmm and Heap, for every number and size of pages, header,   *)
(* request and memory map.  Of Pmm: its invariants, and that it scans the   *)
(* whole map.  Of Heap: what a split, a merge and an extension make of a    *)
(* list of blocks, the invariants of the list, the two counters of bytes,   *)
(* and that kmalloc and kfree implement MemoryPool.                         *)
(****************************************************************************)
EXTENDS Heap, FiniteSetTheorems, WellFoundedInduction, TLAPS

\* Division rounds down.
LEMMA PartsFit ==
    ASSUME NEW a \in Nat, NEW d \in Nat, d >= 1
    PROVE  a \div d \in Nat /\ (a \div d) * d <= a
OBVIOUS

LEMMA WholePages ==
    ASSUME NEW k \in Nat, NEW d \in Nat, d >= 1
    PROVE  (k * d) \div d = k
OBVIOUS

\* Every set of pages is finite, and its cardinality is a natural number.
LEMMA PagesFinite ==
    ASSUME PmmAssumption, NEW S \in SUBSET Pages
    PROVE  IsFiniteSet(S) /\ Cardinality(S) \in Nat
<1>1. IsFiniteSet(Pages)
  BY FS_Interval DEF PmmAssumption, Pages
<1>2. IsFiniteSet(S)
  BY <1>1, FS_Subset
<1>. QED
  BY <1>2, FS_CardinalityType

\* A nonempty set of natural numbers has a least element.
LEMMA NatHasLeast ==
    ASSUME NEW S, S \subseteq Nat, S # {}
    PROVE  \E m \in S : \A k \in S : m <= k
<1>1. PICK m \in S : \A k \in S : ~(<<k, m>> \in OpToRel(<, Nat))
  BY NatLessThanWellFounded, WFMin
<1>2. ASSUME NEW k \in S PROVE m <= k
  <2>1. k < m => <<k, m>> \in OpToRel(<, Nat)
    BY Zenon DEF OpToRel
  <2>2. ~(k < m)
    BY <2>1, <1>1, Zenon
  <2>. QED
    BY <2>2
<1>. QED
  BY <1>2, Zenon

\* ... the one Min chooses.
LEMMA MinIsLeast ==
    ASSUME NEW S \in SUBSET Nat, S # {}
    PROVE  Min(S) \in S /\ \A x \in S : Min(S) <= x
BY NatHasLeast DEF Min

--------------------------------------------------------------------------------
\* The conjunction that is inductive.  While pmm_init runs, nobody holds a page;
\* afterwards every page below KernelEndPage keeps its bit.
PmmInv ==
    /\ PmmTypeOK
    /\ CountExact
    /\ HeldNotFree
    /\ ~pmm_up => held = {}
    /\ pmm_up => \A page \in FreePages \cup held : page >= KernelEndPage

LEMMA PmmInitInv == ASSUME PmmAssumption, PmmInit PROVE PmmInv
<1>1. mmap \in Seq([base : Nat, length : Nat, usable : BOOLEAN])
  BY DEF PmmInit, PmmAssumption
<1>2. PmmTypeOK
  <2>1. Len(mmap) \in Nat
    BY <1>1
  <2>2. 1 \in 1 .. Len(mmap) + 1
    BY <2>1
  <2>. QED
    BY <2>2 DEF PmmInit, PmmTypeOK
<1>3. FreePages = {}
  BY DEF PmmInit, FreePages
<1>. QED
  BY <1>2, <1>3, FS_EmptySet DEF PmmInit, PmmInv, CountExact, HeldNotFree

LEMMA ScanEntryInv ==
    ASSUME PmmAssumption, PmmInv, ScanEntry PROVE PmmInv'
<1>. DEFINE opened == Opened(mmap[next_entry])
<1>1. opened \subseteq bitmap /\ opened \subseteq Pages /\ bitmap \subseteq Pages
  BY DEF Opened, EntryPages, PmmInv, PmmTypeOK
<1>2. FreePages' = FreePages \cup opened /\ FreePages \cap opened = {}
  BY <1>1 DEF ScanEntry, FreePages
<1>3. Cardinality(FreePages') = Cardinality(FreePages) + Cardinality(opened)
  <2>1. FreePages \subseteq Pages
    BY DEF FreePages
  <2>2. Cardinality(FreePages \cup opened)
          = Cardinality(FreePages) + Cardinality(opened) - Cardinality({})
    BY <1>1, <1>2, <2>1, PagesFinite, FS_Union
  <2>. QED
    BY <1>1, <1>2, <2>1, <2>2, PagesFinite, FS_EmptySet
<1>4. free_pages_count' = Cardinality(FreePages') /\ free_pages_count' \in Nat
  <2>1. FreePages \subseteq Pages /\ FreePages' \subseteq Pages
    BY DEF FreePages, Pages
  <2>2. Cardinality(FreePages') \in Nat
    BY <2>1, PagesFinite
  <2>. QED
    BY <1>3, <2>2 DEF ScanEntry, PmmInv, CountExact
<1>5. Len(mmap) \in Nat
  BY DEF PmmInv, PmmTypeOK, PmmAssumption
<1>6. PmmTypeOK'
  BY <1>1, <1>4, <1>5 DEF ScanEntry, PmmInv, PmmTypeOK
<1>. QED
  BY <1>4, <1>6 DEF ScanEntry, PmmInv, CountExact, HeldNotFree

LEMMA ReserveKernelInv ==
    ASSUME PmmAssumption, PmmInv, ReserveKernel PROVE PmmInv'
<1>1. Reserved \subseteq FreePages /\ FreePages' = FreePages \ Reserved
  BY DEF ReserveKernel, Reserved, FreePages
<1>2. FreePages \subseteq Pages
  BY DEF FreePages
<1>3. Cardinality(FreePages') = Cardinality(FreePages) - Cardinality(Reserved)
  <2>1. Cardinality(FreePages \ Reserved)
          = Cardinality(FreePages) - Cardinality(FreePages \cap Reserved)
    BY <1>1, <1>2, PagesFinite, FS_Difference
  <2>2. FreePages \cap Reserved = Reserved
    BY <1>1
  <2>. QED
    BY <2>1, <2>2, <1>1
<1>4. free_pages_count' = Cardinality(FreePages') /\ free_pages_count' \in Nat
  BY <1>1, <1>2, <1>3, PagesFinite DEF ReserveKernel, PmmInv, CountExact
<1>5. PmmTypeOK'
  BY <1>4 DEF ReserveKernel, Reserved, PmmInv, PmmTypeOK
<1>6. \A page \in FreePages' : page >= KernelEndPage
  <2>1. KernelEndPage \in Int
    BY DEF KernelEndPage, PmmAssumption
  <2>. QED
    BY <2>1, <1>1, <1>2 DEF Reserved, FreePages, Pages
<1>. QED
  BY <1>4, <1>5, <1>6 DEF ReserveKernel, PmmInv, CountExact, HeldNotFree

LEMMA AllocPageInv ==
    ASSUME PmmAssumption, PmmInv, AllocPage PROVE PmmInv'
<1>1. CASE FreePages = {}
  BY <1>1 DEF AllocPage, PmmInv, PmmTypeOK, CountExact, HeldNotFree, FreePages
<1>2. CASE FreePages # {}
  <2>. DEFINE page == Min(FreePages)
  <2>1. FreePages \subseteq Pages /\ FreePages \subseteq Nat
    BY DEF FreePages, Pages
  <2>2. page \in FreePages
    BY <1>2, <2>1, MinIsLeast
  <2>3. FreePages' = FreePages \ {page}
    BY <1>2 DEF AllocPage, FreePages
  <2>4. Cardinality(FreePages') = Cardinality(FreePages) - 1
    BY <2>1, <2>2, <2>3, PagesFinite, FS_RemoveElement
  <2>5. free_pages_count' = Cardinality(FreePages') /\ free_pages_count' \in Nat
    BY <1>2, <2>1, <2>3, <2>4, PagesFinite DEF AllocPage, PmmInv, CountExact
  <2>6. held' \subseteq held \cup {page}
    BY <1>2 DEF AllocPage
  <2>7. PmmTypeOK'
    BY <1>2, <2>1, <2>2, <2>5, <2>6 DEF AllocPage, PmmInv, PmmTypeOK
  <2>. QED
    BY <1>2, <2>2, <2>3, <2>5, <2>6, <2>7
    DEF AllocPage, PmmInv, CountExact, HeldNotFree, KernelEndPage
<1>. QED
  BY <1>1, <1>2

LEMMA FreePageInv ==
    ASSUME PmmAssumption, PmmInv, NEW page \in held \cup FreePages,
           FreePage(page)
    PROVE  PmmInv'
<1>1. FreePages \subseteq Pages /\ page \in Pages
  BY DEF FreePages, PmmInv, PmmTypeOK
<1>2. CASE page \in bitmap
  <2>1. FreePages' = FreePages \cup {page} /\ page \notin FreePages
    BY <1>1, <1>2 DEF FreePage, FreePages
  <2>2. Cardinality(FreePages') = Cardinality(FreePages) + 1
    BY <1>1, <2>1, PagesFinite, FS_AddElement
  <2>3. free_pages_count' = Cardinality(FreePages') /\ free_pages_count' \in Nat
    BY <1>1, <1>2, <2>2, PagesFinite DEF FreePage, PmmInv, CountExact
  <2>4. PmmTypeOK'
    BY <1>2, <2>3 DEF FreePage, PmmInv, PmmTypeOK
  <2>. QED
    BY <1>2, <2>1, <2>3, <2>4
    DEF FreePage, PmmInv, CountExact, HeldNotFree, KernelEndPage
<1>3. CASE page \notin bitmap
  BY <1>3 DEF FreePage, PmmInv, PmmTypeOK, CountExact, HeldNotFree, FreePages,
              KernelEndPage
<1>. QED
  BY <1>2, <1>3

--------------------------------------------------------------------------------
\* Type correctness, and the invariants CountExact and HeldNotFree: the counter
\* of free pages is exact and no page in use is free (pmm.c:22-104).
THEOREM PmmInvariant == PmmSpec => []PmmInv
<1>1. PmmInit => PmmInv
  BY PmmAssumption, PmmInitInv
<1>2. PmmInv /\ [PmmNext]_pmm_vars => PmmInv'
  <2>. SUFFICES ASSUME PmmInv, [PmmNext]_pmm_vars PROVE PmmInv'
    OBVIOUS
  <2>1. CASE ScanEntry
    BY <2>1, PmmAssumption, ScanEntryInv
  <2>2. CASE ReserveKernel
    BY <2>2, PmmAssumption, ReserveKernelInv
  <2>3. CASE AllocPage
    BY <2>3, PmmAssumption, AllocPageInv
  <2>4. CASE ClientFree
    BY <2>4, PmmAssumption, FreePageInv DEF ClientFree
  <2>5. CASE UNCHANGED pmm_vars
    BY <2>5 DEF pmm_vars, PmmInv, PmmTypeOK, CountExact, HeldNotFree, FreePages
  <2>. QED
    BY <2>1, <2>2, <2>3, <2>4, <2>5 DEF PmmNext
<1>. QED
  BY <1>1, <1>2, PTL DEF PmmSpec

THEOREM PmmCountExact == PmmSpec => []CountExact
BY PmmInvariant, PTL DEF PmmInv

THEOREM PmmHeldNotFree == PmmSpec => []HeldNotFree
BY PmmInvariant, PTL DEF PmmInv

\* Page arithmetic: the pages kept back are those that hold a byte below
\* KernelEnd, page 0 among them.
LEMMA KernelEndPageBound ==
    ASSUME PmmAssumption, NEW page \in Pages, page >= KernelEndPage
    PROVE  /\ page >= 1
           /\ AddressOf(page) >= KernelEnd
           /\ AddressOf(page) # NULL
<1>. DEFINE q == KernelEnd \div PageSize
<1>1. /\ q \in Nat
      /\ KernelEnd < (q + 1) * PageSize
  BY DEF PmmAssumption
<1>2. page \in Nat /\ page >= q + 1
  BY <1>1 DEF KernelEndPage, Pages
<1>3. page * PageSize >= (q + 1) * PageSize
  BY <1>1, <1>2 DEF PmmAssumption
<1>. QED
  BY <1>1, <1>2, <1>3 DEF PmmAssumption, AddressOf, NULL

\* pmm.c:75-83: no page with a byte of the kernel's image is ever given out.
THEOREM PmmKernelNeverGivenOut == PmmSpec => []KernelNeverGivenOut
<1>1. PmmInv => KernelNeverGivenOut
  <2>. SUFFICES ASSUME PmmInv, pmm_up, NEW page \in FreePages \cup held
                PROVE  AddressOf(page) >= KernelEnd
    BY DEF KernelNeverGivenOut
  <2>1. page \in Pages /\ page >= KernelEndPage
    BY DEF PmmInv, PmmTypeOK, FreePages
  <2>. QED
    BY <2>1, PmmAssumption, KernelEndPageBound
<1>. QED
  BY <1>1, PmmInvariant, PTL

\* pmm.c:85-104: allocation and release neither lose nor invent a page.
THEOREM PmmPagesConserved == PmmSpec => PagesConserved
<1>1. PmmInv /\ [PmmNext]_pmm_vars
        => [pmm_up => (held \cup FreePages)' = held \cup FreePages]_pmm_vars
  <2>. SUFFICES ASSUME PmmInv, PmmNext, pmm_up
                PROVE  (held \cup FreePages)' = held \cup FreePages
    OBVIOUS
  <2>1. CASE AllocPage
    <3>1. CASE FreePages = {}
      BY <2>1, <3>1 DEF AllocPage, FreePages
    <3>2. CASE FreePages # {}
      <4>. DEFINE page == Min(FreePages)
      <4>1. FreePages \subseteq Pages /\ FreePages \subseteq Nat
        BY DEF FreePages, Pages
      <4>2. page \in FreePages
        BY <3>2, <4>1, MinIsLeast
      <4>3. AddressOf(page) # NULL
        BY <4>1, <4>2, PmmAssumption, KernelEndPageBound DEF PmmInv
      <4>4. held' = held \cup {page} /\ FreePages' = FreePages \ {page}
        BY <2>1, <3>2, <4>3 DEF AllocPage, FreePages
      <4>. QED
        BY <4>2, <4>4
    <3>. QED
      BY <3>1, <3>2
  <2>2. CASE ClientFree
    BY <2>2 DEF ClientFree, FreePage, FreePages, PmmInv, PmmTypeOK
  <2>3. ~ScanEntry /\ ~ReserveKernel
    BY DEF ScanEntry, ReserveKernel
  <2>. QED
    BY <2>1, <2>2, <2>3 DEF PmmNext
<1>. QED
  BY <1>1, PmmInvariant, PTL DEF PmmSpec, PagesConserved

--------------------------------------------------------------------------------
\* The bootloader's usable entries begin on page boundaries.
UsableAligned ==
    \A map \in MemoryMaps : \A i \in DOMAIN map :
        map[i].usable => \E k \in Nat : map[i].base = k * PageSize

\* What pmm_init opens for an entry lies in the entry.
LEMMA OpenedUsable ==
    ASSUME PmmAssumption, UsableAligned, PmmInv, ScanEntry,
           NEW page \in Opened(mmap[next_entry])
    PROVE  WhollyUsable(page)
<1>. DEFINE entry == mmap[next_entry]
            ends  == {entry.base + entry.length, MaxPages * PageSize}
            q     == Min(ends) \div PageSize
<1>1. next_entry \in DOMAIN mmap /\ entry \in [base : Nat, length : Nat, usable : BOOLEAN]
  <2>1. mmap \in Seq([base : Nat, length : Nat, usable : BOOLEAN])
    BY DEF PmmInv, PmmTypeOK, PmmAssumption
  <2>2. Len(mmap) \in Nat /\ DOMAIN mmap = 1 .. Len(mmap)
    BY <2>1
  <2>3. next_entry \in 1 .. Len(mmap)
    BY <2>2 DEF PmmInv, PmmTypeOK, ScanEntry
  <2>4. mmap[next_entry] \in [base : Nat, length : Nat, usable : BOOLEAN]
    <3>. DEFINE R == [base : Nat, length : Nat, usable : BOOLEAN]
    <3>. HIDE DEF R
    <3>1. mmap \in Seq(R)
      BY <2>1 DEF R
    <3>2. mmap[next_entry] \in R
      BY <3>1, <2>3
    <3>. QED
      BY <3>2 DEF R
  <2>. QED
    BY <2>2, <2>3, <2>4
<1>2. /\ entry.usable /\ page \in Nat
      /\ entry.base \div PageSize <= page
      /\ page < q
  BY DEF Opened, EntryPages, Pages
<1>3. PICK k \in Nat : entry.base = k * PageSize
  BY <1>1, <1>2 DEF UsableAligned, PmmInv, PmmTypeOK
<1>4. PageSize \in Nat /\ PageSize >= 1 /\ MaxPages \in Nat
  BY DEF PmmAssumption
<1>5. entry.base <= AddressOf(page)
  <2>1. k = entry.base \div PageSize
    BY <1>3, <1>4, WholePages
  <2>2. k * PageSize <= page * PageSize
    BY <1>2, <1>4, <2>1
  <2>. QED
    BY <1>3, <2>2 DEF AddressOf
<1>6. AddressOf(page + 1) <= entry.base + entry.length
  <2>1. ends \subseteq Nat /\ ends # {}
    BY <1>1, <1>4
  <2>2. Min(ends) \in Nat /\ Min(ends) <= entry.base + entry.length
    BY <2>1, MinIsLeast
  <2>3. q \in Nat /\ q * PageSize <= Min(ends)
    BY <2>2, <1>4, PartsFit
  <2>4. (page + 1) * PageSize <= q * PageSize
    BY <1>2, <1>4, <2>3
  <2>. QED
    BY <2>2, <2>3, <2>4, <1>1, <1>2, <1>4 DEF AddressOf
<1>. QED
  BY <1>1, <1>2, <1>5, <1>6 DEF WhollyUsable

\* pmm.c:34-35: no page that is free or handed out reaches outside the usable
\* entries of the memory map, if those begin on page boundaries; pmm.c:60 rounds
\* others down.
THEOREM PmmOnlyUsableRam ==
    ASSUME UsableAligned
    PROVE  PmmSpec => []OnlyUsableRam
<1>1. PmmInit => OnlyUsableRam
  BY DEF PmmInit, OnlyUsableRam, FreePages
<1>2. PmmInv /\ OnlyUsableRam /\ [PmmNext]_pmm_vars => OnlyUsableRam'
  <2>. SUFFICES ASSUME PmmInv, OnlyUsableRam, [PmmNext]_pmm_vars PROVE OnlyUsableRam'
    OBVIOUS
  <2>1. mmap' = mmap
    BY DEF PmmNext, ScanEntry, ReserveKernel, AllocPage, ClientFree, FreePage, pmm_vars
  <2>2. \A page : WhollyUsable(page)' = WhollyUsable(page)
    BY <2>1 DEF WhollyUsable, AddressOf
  <2>3. ASSUME NEW page \in (FreePages \cup held)'
        PROVE  page \in FreePages \cup held \/ (ScanEntry /\ page \in Opened(mmap[next_entry]))
    <3>1. CASE ScanEntry
      BY <3>1, <2>3 DEF ScanEntry, FreePages
    <3>2. CASE ReserveKernel
      BY <3>2, <2>3 DEF ReserveKernel, FreePages
    <3>3. CASE AllocPage
      <4>1. CASE FreePages = {}
        BY <3>3, <4>1, <2>3 DEF AllocPage, FreePages
      <4>2. CASE FreePages # {}
        <5>1. FreePages \subseteq Nat
          BY DEF FreePages, Pages
        <5>2. Min(FreePages) \in FreePages
          BY <4>2, <5>1, MinIsLeast
        <5>. QED
          BY <3>3, <4>2, <5>2, <2>3 DEF AllocPage, FreePages
      <4>. QED
        BY <4>1, <4>2
    <3>4. CASE ClientFree
      BY <3>4, <2>3 DEF ClientFree, FreePage, FreePages
    <3>5. CASE UNCHANGED pmm_vars
      BY <3>5, <2>3 DEF pmm_vars, FreePages
    <3>. QED
      BY <3>1, <3>2, <3>3, <3>4, <3>5 DEF PmmNext
  <2>4. ASSUME NEW page \in (FreePages \cup held)' PROVE WhollyUsable(page)
    BY <2>3, PmmAssumption, OpenedUsable DEF OnlyUsableRam
  <2>. QED
    BY <2>2, <2>4 DEF OnlyUsableRam
<1>. QED
  BY <1>1, <1>2, PmmInvariant, PTL DEF PmmSpec

--------------------------------------------------------------------------------
\* The heap.

Multiple(x) == \E k \in Nat : x = k * Align

Header(L) == [size : Nat, free : BOOLEAN, next : L, prev : L]

\* The list h, which begins at head, is one of headers, ...
Headers(h, head) ==
    /\ h \in [DOMAIN h -> Header(DOMAIN h \cup {NULL})]
    /\ DOMAIN h \subseteq Nat \ {NULL}
    /\ head \in DOMAIN h \cup {NULL}

\* ... with next and prev each other's inverse, from head to the one last block, ...
Chained(h, head) ==
    /\ \A b \in DOMAIN h :
          /\ h[b].next # NULL => b < h[b].next /\ h[h[b].next].prev = b
          /\ h[b].prev # NULL => h[h[b].prev].next = b
          /\ h[b].prev = NULL <=> b = head
    /\ head = NULL => DOMAIN h = {}
    /\ \A b, c \in DOMAIN h : h[b].next = NULL /\ h[c].next = NULL => b = c
    /\ DOMAIN h # {} => \E b \in DOMAIN h : h[b].next = NULL

\* ... and blocks that do not overlap and are aligned.
Apart(h) == \A b, c \in DOMAIN h : b < c => BlockEnd(h, b) <= c

Aligned(h) == \A b \in DOMAIN h : Multiple(b) /\ Multiple(h[b].size)

Sound(h, head) == Headers(h, head) /\ Chained(h, head) /\ Apart(h) /\ Aligned(h)

\* The bytes of the blocks, and of pages.
Cover(h) == UNION {b .. BlockEnd(h, b) - 1 : b \in DOMAIN h}

BytesOf(S) == UNION {AddressOf(p) .. AddressOf(p + 1) - 1 : p \in S}

InUse(h) == {b \in DOMAIN h : ~h[b].free}

\* The list new has the bytes of h, and the same blocks in use but for those in S.
Keeps(h, new, head, S) ==
    /\ Sound(new, head) /\ Cover(new) = Cover(h)
    /\ InUse(new) = InUse(h) \ S
    /\ \A a \in InUse(h) \ S : new[a].size = h[a].size

\* The conjunction that is inductive.
HeapInv ==
    /\ PmmInv
    /\ Sound(hdr, heap_head)
    /\ Cover(hdr) = BytesOf(held)
    /\ HeapBelowFreePages
    /\ granted \in [DOMAIN granted -> Sizes]
    /\ GrantsBacked
    /\ used_bytes \in 0 .. Word - 1 /\ free_bytes \in 0 .. Word - 1
    /\ heap_up \in BOOLEAN
    /\ ~pmm_up => ~heap_up
    /\ ~heap_up => held = {} /\ Blocks = {} /\ granted = [ptr \in {} |-> 0]

--------------------------------------------------------------------------------
\* Multiples of the alignment.
LEMMA MultipleSum ==
    ASSUME Align \in Nat, NEW x, NEW y, Multiple(x), Multiple(y)
    PROVE  Multiple(x + y) /\ x \in Nat /\ (y <= x => Multiple(x - y))
<1>1. PICK j \in Nat : x = j * Align
  BY DEF Multiple
<1>2. PICK k \in Nat : y = k * Align
  BY DEF Multiple
<1>3. x + y = (j + k) * Align /\ x - y = (j - k) * Align /\ x \in Nat
  BY <1>1, <1>2
<1>4. Multiple(x + y)
  <2>1. j + k \in Nat
    OBVIOUS
  <2>. QED
    BY <1>3, <2>1, Zenon DEF Multiple
<1>5. ASSUME y <= x PROVE Multiple(x - y)
  <2>1. CASE k <= j
    <3>1. j - k \in Nat
      BY <2>1
    <3>. QED
      BY <1>3, <3>1, Zenon DEF Multiple
  <2>2. CASE j < k
    <3>1. j * Align <= k * Align
      BY <2>2
    <3>2. x - y = 0 * Align
      BY <1>1, <1>2, <1>5, <3>1
    <3>. QED
      BY <3>2 DEF Multiple
  <2>. QED
    BY <2>1, <2>2
<1>. QED
  BY <1>3, <1>4, <1>5

LEMMA MultipleMod ==
    ASSUME NEW d \in Nat, d >= 1, NEW x \in Nat
    PROVE  x % d = 0 <=> \E k \in Nat : x = k * d
<1>1. x = (x \div d) * d + (x % d) /\ x \div d \in Nat
  OBVIOUS
<1>2. ASSUME NEW k \in Nat PROVE (k * d) % d = 0
  OBVIOUS
<1>. QED
  BY <1>1, <1>2

\* What HeapAssumption says, in the form it is used.
LEMMA HeapConstants ==
    ASSUME PmmAssumption, HeapAssumption
    PROVE  /\ HDR \in Nat /\ HDR >= 1 /\ Align \in Nat /\ Align >= 1
           /\ MinSplit \in Nat /\ Word \in Nat /\ InitialPages \in Nat /\ InitialPages >= 1
           /\ PageSize \in Nat /\ PageSize > HDR /\ MaxPages \in Nat
           /\ Multiple(HDR) /\ Multiple(PageSize)
<1>1. /\ HDR \in Nat /\ HDR >= 1 /\ Align \in Nat /\ Align >= 1
      /\ MinSplit \in Nat /\ Word \in Nat /\ InitialPages \in Nat /\ InitialPages >= 1
      /\ PageSize \in Nat /\ PageSize > HDR /\ MaxPages \in Nat
      /\ HDR % Align = 0 /\ PageSize % Align = 0
  BY DEF HeapAssumption, PmmAssumption
<1>. QED
  BY <1>1, MultipleMod DEF Multiple

--------------------------------------------------------------------------------
\* A list of blocks.

\* The fields of a header on a list.
LEMMA HeaderFields ==
    ASSUME NEW h, NEW head, Headers(h, head), NEW b \in DOMAIN h
    PROVE  /\ b \in Nat /\ b # NULL
           /\ h[b] \in Header(DOMAIN h \cup {NULL})
           /\ h[b].size \in Nat /\ h[b].free \in BOOLEAN
           /\ h[b].next \in DOMAIN h \cup {NULL} /\ h[b].prev \in DOMAIN h \cup {NULL}
<1>1. h[b] \in Header(DOMAIN h \cup {NULL})
  BY DEF Headers
<1>. QED
  BY <1>1 DEF Headers, Header

\* The header with one link changed.
LEMMA LinkedBackFields ==
    ASSUME NEW L, NEW h, h \in [DOMAIN h -> Header(L)], NEW b \in DOMAIN h \cup {NULL},
           NULL \notin DOMAIN h, NEW to \in L
    PROVE  /\ LinkedBack(h, b, to) \in [DOMAIN h -> Header(L)]
           /\ \A a \in DOMAIN h :
                 /\ LinkedBack(h, b, to)[a].size = h[a].size
                 /\ LinkedBack(h, b, to)[a].free = h[a].free
                 /\ LinkedBack(h, b, to)[a].next = h[a].next
                 /\ LinkedBack(h, b, to)[a].prev = IF a = b THEN to ELSE h[a].prev
<1>1. CASE b = NULL
  BY <1>1 DEF LinkedBack
<1>2. CASE b # NULL
  <2>. DEFINE new == [h EXCEPT ![b].prev = to]
  <2>1. LinkedBack(h, b, to) = new
    BY <1>2 DEF LinkedBack
  <2>2. ASSUME NEW a \in DOMAIN h
        PROVE  /\ new[a] \in Header(L) /\ new[a].size = h[a].size
               /\ new[a].free = h[a].free /\ new[a].next = h[a].next
               /\ new[a].prev = IF a = b THEN to ELSE h[a].prev
    <3>1. h[a] \in Header(L)
      OBVIOUS
    <3>2. new[a] = IF a = b THEN [h[a] EXCEPT !.prev = to] ELSE h[a]
      OBVIOUS
    <3>. QED
      BY <3>1, <3>2 DEF Header
  <2>3. new = [a \in DOMAIN h |-> new[a]]
    OBVIOUS
  <2>. HIDE DEF new
  <2>. QED
    BY <2>1, <2>2, <2>3
<1>. QED
  BY <1>1, <1>2

\* Between a block and its end no other block begins.
LEMMA NothingInside ==
    ASSUME PmmAssumption, HeapAssumption, NEW h, NEW head, Sound(h, head),
           NEW b \in DOMAIN h, NEW x \in Nat, b < x, x < BlockEnd(h, b)
    PROVE  x \notin DOMAIN h
<1>. SUFFICES ASSUME x \in DOMAIN h PROVE FALSE
  OBVIOUS
<1>1. BlockEnd(h, b) <= x
  BY DEF Sound, Apart
<1>2. BlockEnd(h, b) \in Nat
  <2>1. Headers(h, head)
    BY DEF Sound
  <2>2. b \in Nat /\ h[b].size \in Nat
    BY <2>1, HeaderFields
  <2>. QED
    BY <2>2, HeapConstants DEF BlockEnd
<1>. QED
  BY <1>1, <1>2

\* The list new is h with block b cut down to n bytes, and r for the rest.
CutInTwo(h, b, n, r, new) ==
    /\ r \in Nat /\ b < r /\ r < BlockEnd(h, b) /\ r \notin DOMAIN h /\ r # NULL
    /\ DOMAIN new = DOMAIN h \cup {r}
    /\ new \in [DOMAIN new -> Header(DOMAIN new \cup {NULL})]
    /\ \A a \in DOMAIN new :
          /\ new[a].size = IF a = b THEN n
                           ELSE IF a = r THEN h[b].size - n - HDR ELSE h[a].size
          /\ new[a].free = IF a = r THEN TRUE ELSE h[a].free
          /\ new[a].next = IF a = b THEN r
                           ELSE IF a = r THEN h[b].next ELSE h[a].next
          /\ new[a].prev = IF a = h[b].next THEN r
                           ELSE IF a = r THEN b ELSE h[a].prev

\* heap.c:121-137: a split puts the remainder between the block and its successor.
LEMMA SplitFields ==
    ASSUME PmmAssumption, HeapAssumption, NEW h, NEW head, Sound(h, head),
           NEW b \in DOMAIN h, NEW n \in Nat, h[b].size >= n + HDR + MinSplit,
           NEW new, new = Split(h, b, n), NEW r, r = Remainder(b, n)
    PROVE  CutInTwo(h, b, n, r, new)
<1>. DEFINE D   == DOMAIN h \cup {r}
            L   == D \cup {NULL}
            cut == [a \in D |->
                       IF a = b THEN [h[b] EXCEPT !.size = n, !.next = r]
                       ELSE IF a = r THEN [size |-> h[b].size - n - HDR, free |-> TRUE,
                                           next |-> h[b].next, prev |-> b]
                       ELSE h[a]]
<1>1. Headers(h, head) /\ b \in Nat /\ h[b].size \in Nat
  BY HeaderFields DEF Sound
<1>2. r \in Nat /\ b < r /\ r < BlockEnd(h, b) /\ r # NULL
  <2>1. HDR \in Nat /\ HDR >= 1 /\ MinSplit \in Nat
    BY HeapConstants, Zenon
  <2>2. r = b + HDR + n /\ BlockEnd(h, b) = b + HDR + h[b].size
    BY Zenon DEF Remainder, BlockEnd
  <2>3. PICK s : s = h[b].size
    OBVIOUS
  <2>4. s >= n + HDR + MinSplit /\ s \in Nat
    BY <1>1, <2>3, Zenon
  <2>5. b + HDR + n < b + HDR + s /\ b + HDR + n \in Nat /\ b + HDR + n > b
    BY ONLY <1>1, <2>1, <2>4, n \in Nat
  <2>. QED
    BY <1>1, <2>2, <2>3, <2>5 DEF NULL
<1>3. r \notin DOMAIN h
  BY <1>2, NothingInside
<1>4. new = LinkedBack(cut, h[b].next, r)
  BY Zenon DEF Split, Remainder
<1>5. ASSUME NEW a \in D
      PROVE  /\ cut[a] \in Header(L)
             /\ cut[a].size = IF a = b THEN n
                              ELSE IF a = r THEN h[b].size - n - HDR ELSE h[a].size
             /\ cut[a].free = IF a = r THEN TRUE ELSE h[a].free
             /\ cut[a].next = IF a = b THEN r
                              ELSE IF a = r THEN h[b].next ELSE h[a].next
             /\ cut[a].prev = IF a = r THEN b ELSE h[a].prev
  <2>1. CASE a = b
    <3>1. cut[a] = [h[b] EXCEPT !.size = n, !.next = r]
      BY <2>1
    <3>2. h[b] \in Header(DOMAIN h \cup {NULL})
      BY <1>1, HeaderFields
    <3>3. PICK e, M, c : e = h[b] /\ M = L /\ c = cut[a]
      OBVIOUS
    <3>4. e \in [size : Nat, free : BOOLEAN, next : M, prev : M] /\ r \in M
      <4>1. DOMAIN h \cup {NULL} \subseteq M /\ r \in M
        BY <3>3
      <4>. QED
        BY <3>2, <3>3, <4>1 DEF Header
    <3>5. c = [e EXCEPT !.size = n, !.next = r]
      BY <3>1, <3>3, Zenon
    <3>6. /\ c \in [size : Nat, free : BOOLEAN, next : M, prev : M]
          /\ c.size = n /\ c.free = e.free /\ c.next = r /\ c.prev = e.prev
      BY ONLY <3>4, <3>5, n \in Nat
    <3>7. a # r
      BY <1>3, <2>1
    <3>. HIDE DEF cut
    <3>. QED
      BY <2>1, <3>3, <3>6, <3>7, Zenon DEF Header
  <2>2. CASE a = r
    <3>1. cut[a] = [size |-> h[b].size - n - HDR, free |-> TRUE,
                    next |-> h[b].next, prev |-> b]
      BY <1>3, <2>2
    <3>2. h[b].size - n - HDR \in Nat
      BY <1>1, HeapConstants
    <3>3. h[b].next \in L
      BY <1>1, HeaderFields, Zenon
    <3>. HIDE DEF cut
    <3>. QED
      BY <1>3, <2>2, <3>1, <3>2, <3>3 DEF Header
  <2>3. CASE a # b /\ a # r
    <3>1. cut[a] = h[a] /\ a \in DOMAIN h
      BY <2>3
    <3>2. h[a] \in Header(DOMAIN h \cup {NULL})
      BY <1>1, <3>1, HeaderFields
    <3>. HIDE DEF cut
    <3>. QED
      BY <2>3, <3>1, <3>2 DEF Header
  <2>. QED
    BY <2>1, <2>2, <2>3
<1>6. DOMAIN cut = D /\ cut \in [D -> Header(L)]
  <2>1. cut = [a \in D |-> cut[a]]
    OBVIOUS
  <2>. HIDE DEF cut, L
  <2>. QED
    BY <1>5, <2>1
<1>7. h[b].next \in D \cup {NULL} /\ r \in L /\ NULL \notin D /\ h[b].next # r
  BY <1>1, <1>2, <1>3, HeaderFields DEF Headers
<1>. HIDE DEF cut, L, D
<1>8. /\ new \in [D -> Header(L)]
      /\ \A a \in D :
            /\ new[a].size = cut[a].size
            /\ new[a].free = cut[a].free
            /\ new[a].next = cut[a].next
            /\ new[a].prev = IF a = h[b].next THEN r ELSE cut[a].prev
  <2>1. PICK x : x = h[b].next
    OBVIOUS
  <2>2. /\ cut \in [DOMAIN cut -> Header(L)] /\ r \in L /\ DOMAIN cut = D
        /\ x \in DOMAIN cut \cup {NULL} /\ NULL \notin DOMAIN cut
    BY <1>6, <1>7, <2>1
  <2>3. new = LinkedBack(cut, x, r)
    BY <1>4, <2>1, Zenon
  <2>4. /\ new \in [DOMAIN cut -> Header(L)]
        /\ \A a \in DOMAIN cut :
              /\ new[a].size = cut[a].size
              /\ new[a].free = cut[a].free
              /\ new[a].next = cut[a].next
              /\ new[a].prev = IF a = x THEN r ELSE cut[a].prev
    <3>1. /\ LinkedBack(cut, x, r) \in [DOMAIN cut -> Header(L)]
          /\ \A a \in DOMAIN cut :
                /\ LinkedBack(cut, x, r)[a].size = cut[a].size
                /\ LinkedBack(cut, x, r)[a].free = cut[a].free
                /\ LinkedBack(cut, x, r)[a].next = cut[a].next
                /\ LinkedBack(cut, x, r)[a].prev = IF a = x THEN r ELSE cut[a].prev
      BY ONLY <2>2, LinkedBackFields
    <3>. QED
      BY <2>3, <3>1, Zenon
  <2>. QED
    BY <2>1, <2>2, <2>4, Zenon
<1>9. DOMAIN new = D
  BY <1>8
<1>10. new \in [DOMAIN new -> Header(DOMAIN new \cup {NULL})]
  BY <1>8, <1>9 DEF L
<1>11. \A a \in D :
          /\ new[a].size = IF a = b THEN n
                           ELSE IF a = r THEN h[b].size - n - HDR ELSE h[a].size
          /\ new[a].free = IF a = r THEN TRUE ELSE h[a].free
          /\ new[a].next = IF a = b THEN r
                           ELSE IF a = r THEN h[b].next ELSE h[a].next
          /\ new[a].prev = IF a = h[b].next THEN r
                           ELSE IF a = r THEN b ELSE h[a].prev
  <2>. TAKE a \in D
  <2>1. new[a].size = cut[a].size /\ new[a].free = cut[a].free /\ new[a].next = cut[a].next
    BY <1>8
  <2>2. new[a].prev = IF a = h[b].next THEN r ELSE cut[a].prev
    BY <1>8
  <2>3. /\ new[a].size = IF a = b THEN n
                         ELSE IF a = r THEN h[b].size - n - HDR ELSE h[a].size
        /\ new[a].next = IF a = b THEN r
                         ELSE IF a = r THEN h[b].next ELSE h[a].next
    BY <1>5, <2>1, Zenon
  <2>4. new[a].free = IF a = r THEN TRUE ELSE h[a].free
    BY <1>5, <2>1, Zenon
  <2>5. cut[a].prev = IF a = r THEN b ELSE h[a].prev
    BY <1>5
  <2>. QED
    BY <2>2, <2>3, <2>4, <2>5, Zenon
<1>. QED
  BY <1>2, <1>3, <1>9, <1>10, <1>11 DEF D, CutInTwo

LEMMA SplitChained ==
    ASSUME PmmAssumption, HeapAssumption, NEW h, NEW head, Sound(h, head),
           NEW b \in DOMAIN h, NEW n \in Nat, h[b].size >= n + HDR + MinSplit,
           NEW new, new = Split(h, b, n)
    PROVE  Chained(new, head)
<1>1. PICK r : r = Remainder(b, n)
  OBVIOUS
<1>0. CutInTwo(h, b, n, r, new)
  BY <1>1, SplitFields, Zenon
<1>2. /\ r \in Nat /\ b < r /\ r < BlockEnd(h, b) /\ r \notin DOMAIN h /\ r # NULL
      /\ DOMAIN new = DOMAIN h \cup {r}
  BY <1>0, Zenon DEF CutInTwo
<1>3. \A a \in DOMAIN new :
          /\ new[a].next = IF a = b THEN r
                           ELSE IF a = r THEN h[b].next ELSE h[a].next
          /\ new[a].prev = IF a = h[b].next THEN r
                           ELSE IF a = r THEN b ELSE h[a].prev
  BY <1>0, Zenon DEF CutInTwo
<1>4. Chained(h, head) /\ head \in DOMAIN h \cup {NULL} /\ NULL \notin DOMAIN h
  BY DEF Sound, Headers
<1>5. \A a \in DOMAIN h : /\ h[a].next \in DOMAIN h \cup {NULL}
                           /\ h[a].prev \in DOMAIN h \cup {NULL}
  BY HeaderFields DEF Sound
<1>6. h[b].next # NULL => r < h[b].next
  <2>. SUFFICES ASSUME h[b].next # NULL PROVE r < h[b].next
    OBVIOUS
  <2>1. b < h[b].next /\ h[b].next \in DOMAIN h
    BY <1>4, <1>5 DEF Chained
  <2>2. BlockEnd(h, b) <= h[b].next
    BY <2>1 DEF Sound, Apart
  <2>3. h[b].next \in Nat /\ BlockEnd(h, b) \in Nat
    <3>1. Headers(h, head)
      BY DEF Sound
    <3>2. h[b].next \in Nat /\ b \in Nat /\ h[b].size \in Nat
      BY <2>1, <3>1, HeaderFields
    <3>. QED
      BY <3>2, HeapConstants DEF BlockEnd
  <2>. QED
    BY <1>2, <2>2, <2>3
<1>7. ASSUME NEW a \in DOMAIN new, new[a].next # NULL
      PROVE  a < new[a].next /\ new[new[a].next].prev = a
  <2>1. CASE a = b
    BY <1>2, <1>3, <1>4, <1>5, <2>1
  <2>2. CASE a = r
    BY <1>2, <1>3, <1>4, <1>5, <1>6, <1>7, <2>2
  <2>3. CASE a # b /\ a # r
    <3>1. /\ a \in DOMAIN h /\ new[a].next = h[a].next
          /\ h[a].next \in DOMAIN h /\ a < h[a].next /\ h[h[a].next].prev = a
      BY <1>2, <1>3, <1>4, <1>5, <1>7, <2>3 DEF Chained
    <3>2. h[a].next # h[b].next
      BY <1>4, <1>5, <2>3, <3>1 DEF Chained
    <3>. QED
      BY <1>2, <1>3, <3>1, <3>2
  <2>. QED
    BY <2>1, <2>2, <2>3
<1>8. ASSUME NEW a \in DOMAIN new, new[a].prev # NULL
      PROVE  new[new[a].prev].next = a
  <2>1. CASE a = h[b].next \/ a = r
    BY <1>2, <1>3, <1>5, <2>1
  <2>2. CASE a # h[b].next /\ a # r
    <3>1. /\ a \in DOMAIN h /\ new[a].prev = h[a].prev
          /\ h[a].prev \in DOMAIN h /\ h[h[a].prev].next = a
      BY <1>2, <1>3, <1>4, <1>5, <1>8, <2>2 DEF Chained
    <3>. QED
      BY <1>2, <1>3, <2>2, <3>1
  <2>. QED
    BY <2>1, <2>2
<1>9. ASSUME NEW a \in DOMAIN new PROVE new[a].prev = NULL <=> a = head
  <2>1. CASE a = h[b].next
    BY <1>2, <1>3, <1>4, <1>5, <2>1 DEF Chained
  <2>2. CASE a = r
    BY <1>2, <1>3, <1>4, <1>5, <2>2
  <2>3. CASE a # h[b].next /\ a # r
    BY <1>2, <1>3, <1>4, <2>3 DEF Chained
  <2>. QED
    BY <2>1, <2>2, <2>3
<1>10. \A a \in DOMAIN new : new[a].next = NULL <=>
          IF a = r THEN h[b].next = NULL ELSE a # b /\ h[a].next = NULL
  BY <1>2, <1>3
<1>11. \A a, c \in DOMAIN new : new[a].next = NULL /\ new[c].next = NULL => a = c
  BY <1>2, <1>4, <1>10 DEF Chained
<1>12. \E a \in DOMAIN new : new[a].next = NULL
  <2>1. PICK t \in DOMAIN h : h[t].next = NULL
    BY <1>4 DEF Chained
  <2>. QED
    BY <1>2, <1>10, <2>1
<1>13. head # NULL
  BY <1>4 DEF Chained
<1>. QED
  BY <1>7, <1>8, <1>9, <1>11, <1>12, <1>13 DEF Chained

\* A split leaves the list sound, its bytes the same, and the blocks in use alone.
LEMMA SplitSound ==
    ASSUME PmmAssumption, HeapAssumption, NEW h, NEW head, Sound(h, head),
           NEW b \in DOMAIN h, h[b].free, NEW n, Multiple(n), n <= h[b].size,
           NEW new, new = Split(h, b, n)
    PROVE  Keeps(h, new, head, {}) /\ b \in DOMAIN new /\ new[b].size >= n
<1>0. n \in Nat /\ h[b].size \in Nat
  BY MultipleSum, HeapConstants, HeaderFields DEF Sound
<1>1. CASE ~(h[b].size >= n + HDR + MinSplit)
  <2>1. new = h
    BY <1>1 DEF Split
  <2>. QED
    BY <1>0, <2>1 DEF Keeps
<1>2. CASE h[b].size >= n + HDR + MinSplit
  <2>1. PICK r : r = Remainder(b, n)
    OBVIOUS
  <2>0. CutInTwo(h, b, n, r, new)
    BY <1>0, <1>2, <2>1, SplitFields, Zenon
  <2>2. /\ r \in Nat /\ b < r /\ r < BlockEnd(h, b) /\ r \notin DOMAIN h /\ r # NULL
        /\ DOMAIN new = DOMAIN h \cup {r}
        /\ new \in [DOMAIN new -> Header(DOMAIN new \cup {NULL})]
    BY <2>0, Zenon DEF CutInTwo
  <2>3. \A a \in DOMAIN new :
          /\ new[a].size = IF a = b THEN n
                           ELSE IF a = r THEN h[b].size - n - HDR ELSE h[a].size
          /\ new[a].free = IF a = r THEN TRUE ELSE h[a].free
    BY <2>0, Zenon DEF CutInTwo
  <2>4. Headers(h, head) /\ DOMAIN h \subseteq Nat
    BY DEF Sound, Headers
  <2>5. Headers(new, head)
    BY <2>2, <2>4 DEF Headers
  <2>6. /\ BlockEnd(new, b) = r /\ BlockEnd(new, r) = BlockEnd(h, b)
        /\ \A a \in DOMAIN h : a # b => BlockEnd(new, a) = BlockEnd(h, a)
    <3>1. new[b].size = n /\ new[r].size = h[b].size - n - HDR /\ b \in Nat
      BY <2>2, <2>3, <2>4
    <3>2. \A a \in DOMAIN h : a # b => new[a].size = h[a].size
      BY <2>2, <2>3
    <3>3. b + HDR + n = r /\ r + HDR + (h[b].size - n - HDR) = b + HDR + h[b].size
      <4>1. r = b + HDR + n
        BY <2>1, Zenon DEF Remainder
      <4>2. PICK s : s = h[b].size
        OBVIOUS
      <4>3. b \in Nat /\ n \in Nat /\ HDR \in Nat /\ s \in Nat
        BY <1>0, <3>1, <4>2, HeapConstants
      <4>4. b + HDR + n + HDR + (s - n - HDR) = b + HDR + s
        BY ONLY <4>3
      <4>. QED
        BY <4>1, <4>2, <4>4, Zenon
    <3>. QED
      BY <3>1, <3>2, <3>3 DEF BlockEnd
  <2>7. \A a \in DOMAIN h : BlockEnd(h, a) \in Nat /\ a < BlockEnd(h, a)
    <3>1. \A a \in DOMAIN h : a \in Nat /\ h[a].size \in Nat
      BY <2>4, HeaderFields
    <3>2. HDR \in Nat /\ HDR >= 1
      BY HeapConstants, Zenon
    <3>3. \A x, z \in Nat : x < x + HDR + z /\ x + HDR + z \in Nat
      BY ONLY <3>2
    <3>4. ASSUME NEW a \in DOMAIN h PROVE BlockEnd(h, a) \in Nat /\ a < BlockEnd(h, a)
      <4>1. a \in Nat /\ h[a].size \in Nat
        BY <3>1, Zenon
      <4>. QED
        BY <3>3, <4>1, Zenon DEF BlockEnd
    <3>. QED
      BY <3>4, Zenon
  <2>8. Apart(new)
    <3>. SUFFICES ASSUME NEW a \in DOMAIN new, NEW c \in DOMAIN new, a < c
                  PROVE  BlockEnd(new, a) <= c
      BY DEF Apart
    <3>1. \A x, y \in DOMAIN h : x < y => BlockEnd(h, x) <= y
      BY DEF Sound, Apart
    <3>2. CASE a \in DOMAIN h /\ c \in DOMAIN h
      <4>1. CASE a = b
        <5>1. BlockEnd(h, b) <= c /\ c \in Nat /\ BlockEnd(h, b) \in Nat
          BY <2>4, <2>7, <3>1, <3>2, <4>1
        <5>. QED
          BY <2>2, <2>6, <4>1, <5>1
      <4>2. CASE a # b
        BY <2>6, <3>1, <3>2, <4>2
      <4>. QED
        BY <4>1, <4>2
    <3>3. CASE a = r /\ c \in DOMAIN h
      <4>1. b < c
        BY <2>2, <2>4, <3>3
      <4>. QED
        BY <2>6, <3>1, <3>3, <4>1
    <3>4. CASE a \in DOMAIN h /\ c = r
      <4>1. a <= b
        <5>1. b < a => BlockEnd(h, b) <= a
          BY <3>1, <3>4
        <5>. QED
          BY <2>2, <2>4, <2>7, <3>4, <5>1
      <4>2. CASE a = b
        BY <2>2, <2>6, <3>4, <4>2
      <4>3. CASE a < b
        <5>1. BlockEnd(h, a) <= b
          BY <3>1, <3>4, <4>3
        <5>2. BlockEnd(new, a) = BlockEnd(h, a)
          BY <2>4, <2>6, <3>4, <4>3
        <5>3. PICK e : e = BlockEnd(h, a)
          OBVIOUS
        <5>4. e \in Nat /\ b \in Nat /\ r \in Nat /\ e <= b /\ b < r
          BY <2>2, <2>4, <2>7, <3>4, <5>1, <5>3
        <5>5. e <= r
          BY ONLY <5>4
        <5>. QED
          BY ONLY <3>4, <5>2, <5>3, <5>5, Zenon
      <4>. QED
        BY <2>4, <3>4, <4>1, <4>2, <4>3
    <3>5. CASE a = r /\ c = r
      BY <2>2, <3>5
    <3>. QED
      BY <2>2, <3>2, <3>3, <3>4, <3>5
  <2>9. Aligned(new)
    <3>1. \A a \in DOMAIN h : Multiple(a) /\ Multiple(h[a].size)
      BY DEF Sound, Aligned
    <3>2. Multiple(b + HDR) /\ Multiple(h[b].size - n)
      BY <1>0, <3>1, MultipleSum, HeapConstants
    <3>3. Multiple(r)
      BY <2>1, <3>2, MultipleSum, HeapConstants DEF Remainder
    <3>4. Multiple(h[b].size - n - HDR)
      BY <1>0, <1>2, <3>2, MultipleSum, HeapConstants
    <3>. QED
      BY <2>2, <2>3, <3>1, <3>3, <3>4 DEF Aligned
  <2>10. Cover(new) = Cover(h)
    <3>1. b .. BlockEnd(h, b) - 1 = (b .. BlockEnd(new, b) - 1) \cup (r .. BlockEnd(new, r) - 1)
      <4>1. PICK end : end = BlockEnd(h, b)
        OBVIOUS
      <4>2. b \in Nat /\ r \in Nat /\ end \in Nat /\ b < r /\ r < end
        BY <2>2, <2>4, <2>7, <4>1
      <4>3. b .. end - 1 = (b .. r - 1) \cup (r .. end - 1)
        BY ONLY <4>2
      <4>. QED
        BY <2>6, <4>1, <4>3, Zenon
    <3>2. ASSUME NEW x, NEW a \in DOMAIN h, x \in a .. BlockEnd(h, a) - 1
          PROVE  x \in Cover(new)
      <4>1. CASE a = b
        BY <2>2, <3>1, <3>2, <4>1, Zenon DEF Cover
      <4>2. CASE a # b
        <5>1. a \in DOMAIN new /\ x \in a .. BlockEnd(new, a) - 1
          BY <2>2, <2>6, <3>2, <4>2, Zenon
        <5>. QED
          BY <5>1, Zenon DEF Cover
      <4>. QED
        BY <4>1, <4>2
    <3>3. ASSUME NEW x, NEW a \in DOMAIN new, x \in a .. BlockEnd(new, a) - 1
          PROVE  x \in Cover(h)
      <4>1. CASE a = b \/ a = r
        BY <2>2, <3>1, <3>3, <4>1, Zenon DEF Cover
      <4>2. CASE a # b /\ a # r
        <5>1. a \in DOMAIN h /\ x \in a .. BlockEnd(h, a) - 1
          BY <2>2, <2>6, <3>3, <4>2, Zenon
        <5>. QED
          BY <5>1, Zenon DEF Cover
      <4>. QED
        BY <4>1, <4>2
    <3>. QED
      BY <3>2, <3>3, Zenon DEF Cover
  <2>11. InUse(new) = InUse(h) /\ \A a \in InUse(h) : new[a].size = h[a].size
    BY <2>2, <2>3 DEF InUse
  <2>12. Chained(new, head)
    BY <1>0, <1>2, SplitChained
  <2>13. b \in DOMAIN new /\ new[b].size = n
    BY <2>2, <2>3
  <2>. QED
    BY <1>0, <2>5, <2>8, <2>9, <2>10, <2>11, <2>12, <2>13 DEF Sound, Keeps
<1>. QED
  BY <1>1, <1>2

--------------------------------------------------------------------------------
\* Two headers that differ in the mark of use at most.
SameButMark(old, new) ==
    new.size = old.size /\ new.next = old.next /\ new.prev = old.prev

\* Marks are nothing to the shape of the list.
LEMMA MarkSound ==
    ASSUME PmmAssumption, HeapAssumption, NEW h, NEW head, Sound(h, head), NEW new,
           new \in [DOMAIN h -> Header(DOMAIN h \cup {NULL})],
           \A a \in DOMAIN h : SameButMark(h[a], new[a])
    PROVE  Sound(new, head) /\ Cover(new) = Cover(h)
<1>1. Headers(h, head) /\ DOMAIN new = DOMAIN h
  BY DEF Sound
<1>2. Headers(new, head)
  BY <1>1 DEF Headers
<1>3. \A a \in DOMAIN h : /\ new[a].size = h[a].size /\ new[a].next = h[a].next
                           /\ new[a].prev = h[a].prev
  BY DEF SameButMark
<1>4. \A a \in DOMAIN h : BlockEnd(new, a) = BlockEnd(h, a)
  BY <1>3 DEF BlockEnd
<1>5. Apart(new) /\ Aligned(new) /\ Cover(new) = Cover(h)
  BY <1>1, <1>3, <1>4 DEF Sound, Apart, Aligned, Cover
<1>6. Chained(new, head)
  <2>1. \A a \in DOMAIN h : /\ h[a].next \in DOMAIN h \cup {NULL}
                             /\ h[a].prev \in DOMAIN h \cup {NULL}
    BY <1>1, HeaderFields
  <2>. QED
    BY <1>1, <1>3, <2>1 DEF Sound, Chained
<1>. QED
  BY <1>2, <1>5, <1>6 DEF Sound

\* A block given back: it is no longer in use.
Released(h, b) == [h EXCEPT ![b].free = TRUE]

LEMMA MarkFree ==
    ASSUME PmmAssumption, HeapAssumption, NEW h, NEW head, Sound(h, head),
           NEW b \in DOMAIN h, NEW new, new = Released(h, b)
    PROVE  /\ Sound(new, head) /\ Cover(new) = Cover(h) /\ DOMAIN new = DOMAIN h
           /\ InUse(new) = InUse(h) \ {b}
           /\ \A a \in DOMAIN h : new[a].size = h[a].size
<1>1. /\ DOMAIN new = DOMAIN h
      /\ new = [a \in DOMAIN h |-> new[a]]
      /\ \A a \in DOMAIN h : new[a] = IF a = b THEN [h[a] EXCEPT !.free = TRUE] ELSE h[a]
  BY DEF Released
<1>2. ASSUME NEW a \in DOMAIN h
      PROVE  /\ new[a] \in Header(DOMAIN h \cup {NULL}) /\ SameButMark(h[a], new[a])
             /\ new[a].free = IF a = b THEN TRUE ELSE h[a].free
  <2>1. h[a] \in Header(DOMAIN h \cup {NULL})
    BY HeaderFields DEF Sound
  <2>2. CASE a = b
    <3>1. new[a] = [h[a] EXCEPT !.free = TRUE]
      BY <1>1, <2>2
    <3>2. new[a] \in Header(DOMAIN h \cup {NULL}) /\ new[a].free = TRUE
      BY <2>1, <3>1 DEF Header
    <3>3. SameButMark(h[a], new[a])
      BY <2>1, <3>1 DEF Header, SameButMark
    <3>. QED
      BY <2>2, <3>2, <3>3
  <2>3. CASE a # b
    BY <1>1, <2>1, <2>3 DEF SameButMark
  <2>. QED
    BY <2>2, <2>3
<1>3. InUse(new) = InUse(h) \ {b}
  BY <1>1, <1>2 DEF InUse
<1>4. new \in [DOMAIN h -> Header(DOMAIN h \cup {NULL})]
  BY <1>1, <1>2
<1>5. \A a \in DOMAIN h : SameButMark(h[a], new[a])
  BY <1>2
<1>6. Sound(new, head) /\ Cover(new) = Cover(h)
  BY <1>4, <1>5, MarkSound
<1>. QED
  BY <1>1, <1>3, <1>5, <1>6 DEF SameButMark

\* A block handed out: it is in use.
Taken(h, b) == [h EXCEPT ![b].free = FALSE]

LEMMA MarkInUse ==
    ASSUME PmmAssumption, HeapAssumption, NEW h, NEW head, Sound(h, head),
           NEW b \in DOMAIN h, NEW new, new = Taken(h, b)
    PROVE  /\ Sound(new, head) /\ Cover(new) = Cover(h) /\ DOMAIN new = DOMAIN h
           /\ InUse(new) = InUse(h) \cup {b}
           /\ \A a \in DOMAIN h : new[a].size = h[a].size
<1>1. /\ DOMAIN new = DOMAIN h
      /\ new = [a \in DOMAIN h |-> new[a]]
      /\ \A a \in DOMAIN h : new[a] = IF a = b THEN [h[a] EXCEPT !.free = FALSE] ELSE h[a]
  BY DEF Taken
<1>2. ASSUME NEW a \in DOMAIN h
      PROVE  /\ new[a] \in Header(DOMAIN h \cup {NULL}) /\ SameButMark(h[a], new[a])
             /\ new[a].free = IF a = b THEN FALSE ELSE h[a].free
  <2>1. h[a] \in Header(DOMAIN h \cup {NULL})
    BY HeaderFields DEF Sound
  <2>2. CASE a = b
    <3>1. new[a] = [h[a] EXCEPT !.free = FALSE]
      BY <1>1, <2>2
    <3>2. new[a] \in Header(DOMAIN h \cup {NULL}) /\ new[a].free = FALSE
      BY <2>1, <3>1 DEF Header
    <3>3. SameButMark(h[a], new[a])
      BY <2>1, <3>1 DEF Header, SameButMark
    <3>. QED
      BY <2>2, <3>2, <3>3
  <2>3. CASE a # b
    BY <1>1, <2>1, <2>3 DEF SameButMark
  <2>. QED
    BY <2>2, <2>3
<1>3. InUse(new) = InUse(h) \cup {b}
  BY <1>1, <1>2 DEF InUse
<1>4. new \in [DOMAIN h -> Header(DOMAIN h \cup {NULL})]
  BY <1>1, <1>2
<1>5. \A a \in DOMAIN h : SameButMark(h[a], new[a])
  BY <1>2
<1>6. Sound(new, head) /\ Cover(new) = Cover(h)
  BY <1>4, <1>5, MarkSound
<1>. QED
  BY <1>1, <1>3, <1>5, <1>6 DEF SameButMark

\* The list new is h with block higher made part of block lower.
JoinedInto(h, lower, higher, new) ==
    /\ DOMAIN new = DOMAIN h \ {higher}
    /\ new \in [DOMAIN new -> Header(DOMAIN h \cup {NULL})]
    /\ \A a \in DOMAIN new :
          /\ new[a].size = IF a = lower THEN h[lower].size + HDR + h[higher].size
                                        ELSE h[a].size
          /\ new[a].free = h[a].free
          /\ new[a].next = IF a = lower THEN h[higher].next ELSE h[a].next
          /\ new[a].prev = IF a = h[higher].next THEN lower ELSE h[a].prev

\* heap.c:20-39: a merge takes the higher block off the list.
LEMMA MergeFields ==
    ASSUME PmmAssumption, HeapAssumption, NEW h, NEW head, Sound(h, head),
           NEW lower, NEW higher, Mergeable(h, lower, higher), h[lower].next = higher
    PROVE  JoinedInto(h, lower, higher, TryMerge(h, lower, higher))
<1>. DEFINE D == DOMAIN h \ {higher}
            L == DOMAIN h \cup {NULL}
            joined == [a \in D |->
                         IF a = lower
                           THEN [h[a] EXCEPT !.size = @ + HDR + h[higher].size,
                                             !.next = h[higher].next]
                           ELSE h[a]]
            new == TryMerge(h, lower, higher)
<1>1. Headers(h, head) /\ lower \in DOMAIN h /\ higher \in DOMAIN h /\ NULL \notin DOMAIN h
  BY DEF Sound, Mergeable, Headers
<1>2. new = LinkedBack(joined, h[higher].next, lower)
  BY Zenon DEF TryMerge
<1>3. ASSUME NEW a \in D
      PROVE  /\ joined[a] \in Header(L)
             /\ joined[a].size = IF a = lower THEN h[lower].size + HDR + h[higher].size
                                              ELSE h[a].size
             /\ joined[a].free = h[a].free
             /\ joined[a].next = IF a = lower THEN h[higher].next ELSE h[a].next
             /\ joined[a].prev = h[a].prev
  <2>1. h[a] \in Header(L) /\ h[higher] \in Header(L)
    BY <1>1, HeaderFields
  <2>2. CASE a = lower
    <3>1. joined[a] = [h[a] EXCEPT !.size = @ + HDR + h[higher].size,
                                   !.next = h[higher].next]
      BY <2>2
    <3>2. h[a].size + HDR + h[higher].size \in Nat /\ h[higher].next \in L
      BY <2>1, HeapConstants DEF Header
    <3>. HIDE DEF joined, L
    <3>. QED
      BY <2>1, <2>2, <3>1, <3>2 DEF Header
  <2>3. CASE a # lower
    <3>1. joined[a] = h[a]
      BY <2>3
    <3>. HIDE DEF joined, L
    <3>. QED
      BY <2>1, <2>3, <3>1
  <2>. QED
    BY <2>2, <2>3
<1>4. DOMAIN joined = D /\ joined \in [D -> Header(L)]
  <2>1. joined = [a \in D |-> joined[a]]
    OBVIOUS
  <2>. HIDE DEF joined, L
  <2>. QED
    BY <1>3, <2>1
<1>5. /\ h[higher].next \in D \cup {NULL} /\ lower \in L /\ NULL \notin D
  <2>1. h[higher].next \in DOMAIN h \cup {NULL}
    BY <1>1, HeaderFields
  <2>2. h[higher].next # higher
    <3>1. higher \in Nat
      BY <1>1 DEF Headers
    <3>2. h[higher].next # NULL => higher < h[higher].next
      BY <1>1 DEF Sound, Chained
    <3>. QED
      BY <1>1, <3>1, <3>2
  <2>. QED
    BY <1>1, <2>1, <2>2
<1>. HIDE DEF joined, L, D, new
<1>6. /\ LinkedBack(joined, h[higher].next, lower) \in [DOMAIN joined -> Header(L)]
      /\ \A a \in DOMAIN joined :
            /\ LinkedBack(joined, h[higher].next, lower)[a].size = joined[a].size
            /\ LinkedBack(joined, h[higher].next, lower)[a].free = joined[a].free
            /\ LinkedBack(joined, h[higher].next, lower)[a].next = joined[a].next
            /\ LinkedBack(joined, h[higher].next, lower)[a].prev
                  = IF a = h[higher].next THEN lower ELSE joined[a].prev
  <2>1. /\ joined \in [DOMAIN joined -> Header(L)] /\ lower \in L
        /\ h[higher].next \in DOMAIN joined \cup {NULL} /\ NULL \notin DOMAIN joined
    BY <1>4, <1>5
  <2>. QED
    BY <2>1, LinkedBackFields
<1>7. /\ new \in [D -> Header(L)]
      /\ \A a \in D :
            /\ new[a].size = joined[a].size /\ new[a].free = joined[a].free
            /\ new[a].next = joined[a].next
            /\ new[a].prev = IF a = h[higher].next THEN lower ELSE joined[a].prev
  BY <1>2, <1>4, <1>6, Zenon
<1>8. DOMAIN new = D
  BY <1>7
<1>9. ASSUME NEW a \in D
      PROVE  /\ new[a].size = IF a = lower THEN h[lower].size + HDR + h[higher].size
                                           ELSE h[a].size
             /\ new[a].free = h[a].free
             /\ new[a].next = IF a = lower THEN h[higher].next ELSE h[a].next
             /\ new[a].prev = IF a = h[higher].next THEN lower ELSE h[a].prev
  <2>1. /\ new[a].size = joined[a].size /\ new[a].free = joined[a].free
        /\ new[a].next = joined[a].next
    BY <1>7
  <2>2. new[a].prev = IF a = h[higher].next THEN lower ELSE joined[a].prev
    BY <1>7
  <2>3. joined[a].free = h[a].free /\ joined[a].prev = h[a].prev
    BY <1>3
  <2>4. /\ new[a].size = IF a = lower THEN h[lower].size + HDR + h[higher].size
                                      ELSE h[a].size
        /\ new[a].next = IF a = lower THEN h[higher].next ELSE h[a].next
    BY <1>3, <2>1, Zenon
  <2>. QED
    BY <2>1, <2>2, <2>3, <2>4, Zenon
<1>. QED
  BY <1>7, <1>8, <1>9, Zenon DEF JoinedInto, D, L, new

LEMMA MergeChained ==
    ASSUME PmmAssumption, HeapAssumption, NEW h, NEW head, Sound(h, head),
           NEW lower, NEW higher, Mergeable(h, lower, higher), h[lower].next = higher,
           NEW new, JoinedInto(h, lower, higher, new)
    PROVE  Headers(new, head) /\ Chained(new, head)
<1>1. /\ DOMAIN new = DOMAIN h \ {higher}
      /\ new \in [DOMAIN new -> Header(DOMAIN h \cup {NULL})]
      /\ \A a \in DOMAIN new :
            /\ new[a].next = IF a = lower THEN h[higher].next ELSE h[a].next
            /\ new[a].prev = IF a = h[higher].next THEN lower ELSE h[a].prev
  BY Zenon DEF JoinedInto
<1>2. /\ Headers(h, head) /\ Chained(h, head) /\ lower \in DOMAIN h /\ higher \in DOMAIN h
      /\ NULL \notin DOMAIN h /\ DOMAIN h \subseteq Nat /\ head \in DOMAIN h \cup {NULL}
  BY DEF Sound, Mergeable, Headers
<1>3. \A a \in DOMAIN h : /\ h[a].next \in DOMAIN h \cup {NULL}
                           /\ h[a].prev \in DOMAIN h \cup {NULL}
  BY <1>2, HeaderFields
<1>4. PICK x : x = h[higher].next
  OBVIOUS
<1>5. /\ lower < higher /\ h[higher].prev = lower /\ higher # head
      /\ x # NULL => higher < x /\ h[x].prev = higher
  BY <1>2, <1>4 DEF Chained
<1>6. /\ lower \in DOMAIN new /\ lower # higher
      /\ x \in DOMAIN new \cup {NULL}
  BY <1>1, <1>2, <1>3, <1>4, <1>5
<1>7. ASSUME NEW a \in DOMAIN new, new[a].next # NULL
      PROVE  /\ a < new[a].next /\ new[new[a].next].prev = a
             /\ new[a].next \in DOMAIN new
  <2>1. CASE a = lower
    <3>1. new[a].next = x /\ x # NULL /\ x \in DOMAIN new /\ new[x].prev = lower
      BY <1>1, <1>4, <1>6, <1>7, <2>1
    <3>. QED
      BY <1>1, <1>2, <1>5, <2>1, <3>1
  <2>2. CASE a # lower
    <3>1. /\ a \in DOMAIN h /\ new[a].next = h[a].next
          /\ h[a].next \in DOMAIN h /\ a < h[a].next /\ h[h[a].next].prev = a
      BY <1>1, <1>2, <1>3, <1>7, <2>2 DEF Chained
    <3>2. h[a].next # higher /\ h[a].next # x
      BY <1>1, <1>2, <1>5, <2>2, <3>1
    <3>. QED
      BY <1>1, <1>4, <3>1, <3>2
  <2>. QED
    BY <2>1, <2>2
<1>8. ASSUME NEW a \in DOMAIN new, new[a].prev # NULL
      PROVE  new[new[a].prev].next = a /\ new[a].prev \in DOMAIN new
  <2>1. CASE a = x
    BY <1>1, <1>4, <1>6, <2>1
  <2>2. CASE a # x
    <3>1. /\ a \in DOMAIN h /\ a # higher /\ new[a].prev = h[a].prev
          /\ h[a].prev \in DOMAIN h /\ h[h[a].prev].next = a
      <4>1. a \in DOMAIN h /\ a # higher
        BY <1>1, <1>8
      <4>2. new[a].prev = h[a].prev
        BY <1>1, <1>4, <1>8, <2>2, Zenon
      <4>3. h[a].prev # NULL
        BY <1>8, <4>2, Zenon
      <4>4. h[a].prev \in DOMAIN h
        BY <1>3, <4>1, <4>3, Zenon
      <4>5. h[h[a].prev].next = a
        BY <1>2, <4>1, <4>3, Zenon DEF Chained
      <4>. QED
        BY <4>1, <4>2, <4>4, <4>5, Zenon
    <3>2. h[a].prev # higher /\ h[a].prev # lower
      BY <1>4, <2>2, <3>1
    <3>. QED
      BY <1>1, <3>1, <3>2
  <2>. QED
    BY <2>1, <2>2
<1>9. ASSUME NEW a \in DOMAIN new PROVE new[a].prev = NULL <=> a = head
  <2>0. a \in DOMAIN h /\ (h[a].prev = NULL <=> a = head)
    BY <1>1, <1>2, <1>9, Zenon DEF Chained
  <2>1. CASE a = x
    <3>1. new[a].prev = lower /\ lower # NULL
      BY <1>1, <1>2, <1>4, <1>9, <2>1, Zenon
    <3>2. h[a].prev = higher /\ higher # NULL
      BY <1>2, <1>5, <2>0, <2>1, Zenon
    <3>. QED
      BY <2>0, <3>1, <3>2
  <2>2. CASE a # x
    <3>1. new[a].prev = h[a].prev
      BY <1>1, <1>4, <1>9, <2>2, Zenon
    <3>. QED
      BY <2>0, <3>1, Zenon
  <2>. QED
    BY <2>1, <2>2
<1>10. \A a \in DOMAIN new : new[a].next = NULL <=>
          IF a = lower THEN x = NULL ELSE h[a].next = NULL
  BY <1>1, <1>4
<1>11. ASSUME NEW a \in DOMAIN new, NEW c \in DOMAIN new,
              new[a].next = NULL, new[c].next = NULL
       PROVE  a = c
  <2>1. \A y, z \in DOMAIN h : h[y].next = NULL /\ h[z].next = NULL => y = z
    BY <1>2, Zenon DEF Chained
  <2>2. a \in DOMAIN h /\ c \in DOMAIN h /\ a # higher /\ c # higher
    BY <1>1, <1>11
  <2>3. /\ IF a = lower THEN x = NULL ELSE h[a].next = NULL
        /\ IF c = lower THEN x = NULL ELSE h[c].next = NULL
    BY <1>10, <1>11, Zenon
  <2>4. x = NULL => h[higher].next = NULL
    BY <1>4
  <2>. QED
    BY <1>1, <1>2, <2>1, <2>2, <2>3, <2>4, Zenon
<1>12. \E a \in DOMAIN new : new[a].next = NULL
  <2>1. PICK t \in DOMAIN h : h[t].next = NULL
    BY <1>2 DEF Chained
  <2>2. t # lower
    BY <1>2, <2>1
  <2>3. t = higher => x = NULL
    BY <1>4, <2>1
  <2>. QED
    BY <1>1, <1>6, <1>10, <2>1, <2>2, <2>3
<1>13. head # NULL /\ head \in DOMAIN new
  BY <1>1, <1>2, <1>5 DEF Chained
<1>14. Chained(new, head)
  BY <1>7, <1>8, <1>9, <1>11, <1>12, <1>13 DEF Chained
<1>15. ASSUME NEW a \in DOMAIN new PROVE new[a] \in Header(DOMAIN new \cup {NULL})
  <2>1. new[a] \in Header(DOMAIN h \cup {NULL})
    BY <1>1
  <2>2. new[a].next \in DOMAIN new \cup {NULL} /\ new[a].prev \in DOMAIN new \cup {NULL}
    BY <1>7, <1>8
  <2>. QED
    BY <2>1, <2>2 DEF Header
<1>16. Headers(new, head)
  BY <1>1, <1>2, <1>13, <1>15 DEF Headers
<1>. QED
  BY <1>14, <1>16

\* A merge leaves the list sound, its bytes the same, and the blocks in use alone.
LEMMA MergeSound ==
    ASSUME PmmAssumption, HeapAssumption, NEW h, NEW head, Sound(h, head),
           NEW lower, NEW higher, Mergeable(h, lower, higher) => h[lower].next = higher,
           NEW new, new = TryMerge(h, lower, higher)
    PROVE  Keeps(h, new, head, {}) /\ (lower \in DOMAIN h => lower \in DOMAIN new)
<1>1. CASE ~Mergeable(h, lower, higher)
  BY <1>1 DEF TryMerge, Keeps
<1>2. CASE Mergeable(h, lower, higher)
  <2>1. JoinedInto(h, lower, higher, new)
    BY <1>2, MergeFields
  <2>2. Headers(new, head) /\ Chained(new, head)
    BY <1>2, <2>1, MergeChained
  <2>3. /\ DOMAIN new = DOMAIN h \ {higher}
        /\ \A a \in DOMAIN new :
              /\ new[a].size = IF a = lower THEN h[lower].size + HDR + h[higher].size
                                            ELSE h[a].size
              /\ new[a].free = h[a].free
    BY <2>1, Zenon DEF JoinedInto
  <2>4. /\ lower \in DOMAIN h /\ higher \in DOMAIN h /\ h[lower].free /\ h[higher].free
        /\ BlockEnd(h, lower) = higher
    BY <1>2 DEF Mergeable
  <2>5. Headers(h, head) /\ DOMAIN h \subseteq Nat
    BY DEF Sound, Headers
  <2>6. \A a \in DOMAIN h : a \in Nat /\ h[a].size \in Nat
    BY <2>5, HeaderFields
  <2>7. \A a \in DOMAIN h : BlockEnd(h, a) \in Nat /\ a < BlockEnd(h, a)
    BY <2>6, HeapConstants DEF BlockEnd
  <2>8. lower \in DOMAIN new /\ lower # higher /\ lower < higher
    BY <2>3, <2>4, <2>7, <2>6
  <2>9. /\ BlockEnd(new, lower) = BlockEnd(h, higher)
        /\ \A a \in DOMAIN new : a # lower => BlockEnd(new, a) = BlockEnd(h, a)
    <3>1. new[lower].size = h[lower].size + HDR + h[higher].size
      BY <2>3, <2>8
    <3>2. lower + HDR + (h[lower].size + HDR + h[higher].size) = higher + HDR + h[higher].size
      BY <2>4, <2>6, HeapConstants DEF BlockEnd
    <3>. QED
      BY <2>3, <3>1, <3>2 DEF BlockEnd
  <2>10. Apart(new)
    <3>. SUFFICES ASSUME NEW a \in DOMAIN new, NEW c \in DOMAIN new, a < c
                  PROVE  BlockEnd(new, a) <= c
      BY DEF Apart
    <3>1. \A y, z \in DOMAIN h : y < z => BlockEnd(h, y) <= z
      BY DEF Sound, Apart
    <3>2. CASE a = lower
      <4>1. higher <= c /\ c # higher
        BY <2>3, <2>4, <3>1, <3>2
      <4>2. BlockEnd(h, higher) <= c
        BY <2>3, <2>4, <2>6, <3>1, <4>1
      <4>. QED
        BY <2>9, <3>2, <4>2
    <3>3. CASE a # lower
      BY <2>3, <2>9, <3>1, <3>3
    <3>. QED
      BY <3>2, <3>3
  <2>11. Aligned(new)
    <3>1. \A a \in DOMAIN h : Multiple(a) /\ Multiple(h[a].size)
      BY DEF Sound, Aligned
    <3>2. Multiple(h[lower].size + HDR)
      BY <2>4, <3>1, MultipleSum, HeapConstants
    <3>3. Multiple(h[lower].size + HDR + h[higher].size)
      BY <2>4, <3>1, <3>2, MultipleSum, HeapConstants
    <3>. QED
      BY <2>3, <3>1, <3>3 DEF Aligned
  <2>12. Cover(new) = Cover(h)
    <3>1. lower .. BlockEnd(new, lower) - 1
            = (lower .. BlockEnd(h, lower) - 1) \cup (higher .. BlockEnd(h, higher) - 1)
      BY <2>4, <2>6, <2>7, <2>8, <2>9
    <3>. QED
      BY <2>3, <2>4, <2>8, <2>9, <3>1 DEF Cover
  <2>13. InUse(new) = InUse(h) /\ \A a \in InUse(h) : new[a].size = h[a].size
    BY <2>3, <2>4 DEF InUse
  <2>. QED
    BY <2>2, <2>8, <2>10, <2>11, <2>12, <2>13 DEF Sound, Keeps
<1>. QED
  BY <1>1, <1>2

LEMMA KeepsOn ==
    ASSUME NEW h, NEW mid, NEW after, NEW new, NEW head, NEW S,
           Keeps(h, mid, head, S), Keeps(mid, after, head, {}), Keeps(after, new, head, {})
    PROVE  Keeps(h, new, head, S)
<1>1. Sound(new, head) /\ Cover(new) = Cover(h) /\ InUse(new) = InUse(h) \ S
  BY DEF Keeps
<1>2. ASSUME NEW a \in InUse(h) \ S PROVE new[a].size = h[a].size
  <2>1. a \in InUse(mid) /\ mid[a].size = h[a].size
    BY DEF Keeps
  <2>2. a \in InUse(after) /\ after[a].size = mid[a].size
    BY <2>1 DEF Keeps
  <2>. QED
    BY <2>1, <2>2 DEF Keeps
<1>. QED
  BY <1>1, <1>2 DEF Keeps

\* kfree: the block is no longer in use; otherwise the list is as sound as before.
LEMMA FreedSound ==
    ASSUME PmmAssumption, HeapAssumption, Sound(hdr, heap_head), NEW b \in Blocks
    PROVE  Keeps(hdr, Freed(b), heap_head, {b})
<1>a. PICK marked : marked = Released(hdr, b)
  OBVIOUS
<1>b. PICK after : after = TryMerge(marked, b, marked[b].next)
  OBVIOUS
<1>1. Keeps(hdr, marked, heap_head, {b}) /\ b \in DOMAIN marked
  <2>1. /\ Sound(marked, heap_head) /\ Cover(marked) = Cover(hdr)
        /\ DOMAIN marked = DOMAIN hdr
        /\ InUse(marked) = InUse(hdr) \ {b}
        /\ \A a \in DOMAIN hdr : marked[a].size = hdr[a].size
    <3>1. b \in DOMAIN hdr
      BY DEF Blocks
    <3>. QED
      BY <1>a, <3>1, MarkFree
  <2>. QED
    BY <2>1 DEF Keeps, InUse, Blocks
<1>2. Sound(marked, heap_head)
  BY <1>1 DEF Keeps
<1>3. Keeps(marked, after, heap_head, {}) /\ b \in DOMAIN after
  <2>. PICK next : next = marked[b].next
    OBVIOUS
  <2>1. after = TryMerge(marked, b, next)
    BY <1>b
  <2>2. Mergeable(marked, b, next) => marked[b].next = next
    OBVIOUS
  <2>3. Keeps(marked, after, heap_head, {})
          /\ (b \in DOMAIN marked => b \in DOMAIN after)
    BY <1>2, <2>1, <2>2, MergeSound, Zenon
  <2>. QED
    BY <1>1, <2>3
<1>4. Mergeable(after, after[b].prev, b) => after[after[b].prev].next = b
  <2>1. after[b].prev # NULL => after[after[b].prev].next = b
    BY <1>3 DEF Keeps, Sound, Chained
  <2>2. NULL \notin DOMAIN after
    BY <1>3 DEF Keeps, Sound, Headers
  <2>. QED
    BY <2>1, <2>2 DEF Mergeable
<1>5. Freed(b) = TryMerge(after, after[b].prev, b)
  BY <1>a, <1>b, Zenon DEF Freed, Released
<1>6. Sound(after, heap_head)
  BY <1>3 DEF Keeps
<1>7. Keeps(after, Freed(b), heap_head, {})
  BY <1>4, <1>5, <1>6, MergeSound
<1>. QED
  BY <1>1, <1>3, <1>7, KeepsOn, Zenon

\* The last block, which exists unless the list is empty.
LEMMA TailIsLast ==
    ASSUME NEW head, Sound(hdr, head), Blocks # {}
    PROVE  ListTail \in Blocks /\ hdr[ListTail].next = NULL /\ ListTail # NULL
<1>1. \E b \in Blocks : hdr[b].next = NULL
  BY DEF Sound, Chained, Blocks
<1>2. NULL \notin Blocks
  BY DEF Sound, Headers, Blocks
<1>. QED
  BY <1>1, <1>2, Zenon DEF ListTail

\* The list h is hdr with block new, of size bytes and free, after the block t.
PutLast(t, new, size, h) ==
    /\ DOMAIN h = Blocks \cup {new}
    /\ h \in [DOMAIN h -> Header(DOMAIN h \cup {NULL})]
    /\ \A a \in DOMAIN h :
          /\ h[a].size = IF a = new THEN size ELSE hdr[a].size
          /\ h[a].free = IF a = new THEN TRUE ELSE hdr[a].free
          /\ h[a].next = IF a = new THEN NULL ELSE IF a = t THEN new ELSE hdr[a].next
          /\ h[a].prev = IF a = new THEN t ELSE hdr[a].prev

LEMMA AppendFields ==
    ASSUME NEW head, Sound(hdr, head), NEW new \in Nat, new \notin Blocks,
           NEW size \in Nat, NEW h, h = Appended(new, size), NEW t, t = ListTail
    PROVE  PutLast(t, new, size, h)
<1>. DEFINE D == Blocks \cup {new}
            L == D \cup {NULL}
<1>1. /\ DOMAIN h = D /\ h = [a \in D |-> h[a]]
      /\ \A a \in D : h[a] = IF a = new
             THEN [size |-> size, free |-> TRUE, next |-> NULL, prev |-> t]
             ELSE IF a = t THEN [hdr[a] EXCEPT !.next = new] ELSE hdr[a]
  BY DEF Appended
<1>2. t \in L
  <2>1. CASE Blocks = {}
    BY <2>1 DEF ListTail
  <2>2. CASE Blocks # {}
    BY <2>2, TailIsLast
  <2>. QED
    BY <2>1, <2>2
<1>3. \A a \in Blocks : hdr[a] \in Header(Blocks \cup {NULL})
  BY HeaderFields DEF Sound, Blocks
<1>4. ASSUME NEW a \in D
      PROVE  /\ h[a] \in Header(L)
             /\ h[a].size = IF a = new THEN size ELSE hdr[a].size
             /\ h[a].free = IF a = new THEN TRUE ELSE hdr[a].free
             /\ h[a].next = IF a = new THEN NULL ELSE IF a = t THEN new ELSE hdr[a].next
             /\ h[a].prev = IF a = new THEN t ELSE hdr[a].prev
  <2>1. CASE a = new
    <3>1. h[a] = [size |-> size, free |-> TRUE, next |-> NULL, prev |-> t]
      BY <1>1, <2>1
    <3>. QED
      BY <1>2, <2>1, <3>1 DEF Header
  <2>2. CASE a # new /\ a = t
    <3>1. h[a] = [hdr[a] EXCEPT !.next = new] /\ a \in Blocks
      BY <1>1, <2>2
    <3>2. hdr[a] \in Header(Blocks \cup {NULL})
      BY <1>3, <3>1
    <3>. QED
      BY <2>2, <3>1, <3>2 DEF Header
  <2>3. CASE a # new /\ a # t
    <3>1. h[a] = hdr[a] /\ a \in Blocks
      BY <1>1, <2>3
    <3>2. hdr[a] \in Header(Blocks \cup {NULL})
      BY <1>3, <3>1
    <3>. QED
      BY <2>3, <3>1, <3>2 DEF Header
  <2>. QED
    BY <2>1, <2>2, <2>3
<1>. HIDE DEF D, L
<1>5. h \in [D -> Header(L)]
  BY <1>1, <1>4
<1>. QED
  BY <1>1, <1>4, <1>5, Zenon DEF PutLast, D, L

LEMMA AppendChained ==
    ASSUME NEW new \in Nat, NEW head, head = (IF Blocks = {} THEN new ELSE heap_head),
           Sound(hdr, heap_head), new # NULL, \A b \in Blocks : b < new,
           NEW t, t = ListTail, NEW size, NEW h, PutLast(t, new, size, h)
    PROVE  Chained(h, head) /\ Headers(h, head)
<1>1. /\ DOMAIN h = Blocks \cup {new}
      /\ h \in [DOMAIN h -> Header(DOMAIN h \cup {NULL})]
      /\ \A a \in DOMAIN h :
            /\ h[a].next = IF a = new THEN NULL ELSE IF a = t THEN new ELSE hdr[a].next
            /\ h[a].prev = IF a = new THEN t ELSE hdr[a].prev
  BY Zenon DEF PutLast
<1>2. /\ Chained(hdr, heap_head) /\ NULL \notin Blocks /\ Blocks \subseteq Nat
      /\ heap_head \in Blocks \cup {NULL} /\ new \notin Blocks
  BY DEF Sound, Headers, Blocks
<1>3. \A a \in Blocks : /\ hdr[a].next \in Blocks \cup {NULL}
                         /\ hdr[a].prev \in Blocks \cup {NULL}
  BY HeaderFields DEF Sound, Blocks
<1>4. /\ Blocks = {} => t = NULL
      /\ Blocks # {} => t \in Blocks /\ t # NULL /\ hdr[t].next = NULL
  <2>1. Blocks = {} => t = NULL
    BY DEF ListTail
  <2>. QED
    BY <2>1, TailIsLast
<1>5. ASSUME NEW a \in DOMAIN h, h[a].next # NULL
      PROVE  a < h[a].next /\ h[h[a].next].prev = a
  <2>1. a \in Blocks
    BY <1>1, <1>5
  <2>2. CASE a = t
    BY <1>1, <1>2, <2>1, <2>2
  <2>3. CASE a # t
    <3>1. h[a].next = hdr[a].next /\ hdr[a].next \in Blocks
      BY <1>1, <1>2, <1>3, <1>5, <2>1, <2>3
    <3>2. a < hdr[a].next /\ hdr[hdr[a].next].prev = a
      BY <1>2, <1>5, <2>1, <3>1 DEF Chained, Blocks
    <3>. QED
      BY <1>1, <1>2, <3>1, <3>2
  <2>. QED
    BY <2>2, <2>3
<1>6. ASSUME NEW a \in DOMAIN h, h[a].prev # NULL
      PROVE  h[h[a].prev].next = a
  <2>1. CASE a = new
    BY <1>1, <1>2, <1>4, <1>6, <2>1
  <2>2. CASE a # new
    <3>1. /\ a \in Blocks /\ h[a].prev = hdr[a].prev /\ hdr[a].prev \in Blocks
      BY <1>1, <1>3, <1>6, <2>2
    <3>2. hdr[hdr[a].prev].next = a
      BY <1>2, <1>6, <3>1 DEF Chained, Blocks
    <3>3. hdr[a].prev # t
      BY <1>2, <1>4, <3>1, <3>2
    <3>. QED
      BY <1>1, <1>2, <3>1, <3>2, <3>3
  <2>. QED
    BY <2>1, <2>2
<1>7. ASSUME NEW a \in DOMAIN h PROVE h[a].prev = NULL <=> a = head
  <2>1. CASE a = new
    BY <1>1, <1>2, <1>4, <2>1
  <2>2. CASE a # new
    <3>1. a \in Blocks /\ h[a].prev = hdr[a].prev /\ head = heap_head
      BY <1>1, <2>2
    <3>. QED
      BY <1>2, <3>1 DEF Chained, Blocks
  <2>. QED
    BY <2>1, <2>2
<1>8. ASSUME NEW a \in DOMAIN h, h[a].next = NULL PROVE a = new
  <2>. SUFFICES ASSUME a # new PROVE FALSE
    OBVIOUS
  <2>1. a \in Blocks /\ a # t /\ hdr[a].next = NULL
    BY <1>1, <1>8
  <2>2. \A b, c \in Blocks : hdr[b].next = NULL /\ hdr[c].next = NULL => b = c
    BY <1>2 DEF Chained, Blocks
  <2>. QED
    BY <1>4, <2>1, <2>2
<1>9. h[new].next = NULL /\ new \in DOMAIN h
  BY <1>1
<1>10. head # NULL /\ head \in DOMAIN h
  <2>1. Blocks # {} => heap_head # NULL
    BY <1>2 DEF Chained, Blocks
  <2>. QED
    BY <1>1, <1>2, <2>1
<1>11. Chained(h, head)
  BY <1>5, <1>6, <1>7, <1>8, <1>9, <1>10 DEF Chained
<1>12. DOMAIN h \subseteq Nat \ {NULL}
  BY <1>1, <1>2
<1>. QED
  BY <1>1, <1>10, <1>11, <1>12, Zenon DEF Headers

\* The list h is hdr and the free block new, of size bytes.
LongerBy(new, size, head, h) ==
    /\ Sound(h, head) /\ DOMAIN h = Blocks \cup {new} /\ new \notin Blocks
    /\ Cover(h) = Cover(hdr) \cup (new .. new + HDR + size - 1)
    /\ h[new].free /\ h[new].size = size
    /\ InUse(h) = InUse(hdr)
    /\ \A a \in InUse(hdr) : h[a].size = hdr[a].size

\* heap.c:62-66: a block that begins behind the end of all others goes to the end.
LEMMA AppendSound ==
    ASSUME PmmAssumption, HeapAssumption, Sound(hdr, heap_head),
           NEW new \in Nat, new # NULL, Multiple(new), NEW size, Multiple(size),
           \A b \in Blocks : BlockEnd(hdr, b) <= new,
           NEW head, head = (IF Blocks = {} THEN new ELSE heap_head),
           NEW h, h = Appended(new, size)
    PROVE  LongerBy(new, size, head, h)
<1>1. size \in Nat
  BY MultipleSum, HeapConstants
<1>2. \A b \in Blocks : /\ b \in Nat /\ hdr[b].size \in Nat
                         /\ BlockEnd(hdr, b) \in Nat /\ b < BlockEnd(hdr, b)
  <2>1. \A b \in Blocks : b \in Nat /\ hdr[b].size \in Nat
    BY HeaderFields DEF Sound, Blocks
  <2>. QED
    BY <2>1, HeapConstants DEF BlockEnd
<1>3. \A b \in Blocks : b < new
  BY <1>2
<1>4. new \notin Blocks
  BY <1>3
<1>5. PICK t : t = ListTail
  OBVIOUS
<1>6. PutLast(t, new, size, h)
  BY <1>1, <1>4, <1>5, AppendFields
<1>7. Chained(h, head) /\ Headers(h, head)
  BY <1>3, <1>5, <1>6, AppendChained
<1>8. /\ DOMAIN h = Blocks \cup {new}
      /\ \A a \in DOMAIN h :
            /\ h[a].size = IF a = new THEN size ELSE hdr[a].size
            /\ h[a].free = IF a = new THEN TRUE ELSE hdr[a].free
  BY <1>6, Zenon DEF PutLast
<1>9. /\ \A a \in Blocks : h[a].size = hdr[a].size /\ h[a].free = hdr[a].free
      /\ h[new].size = size /\ h[new].free = TRUE
  BY <1>4, <1>8
<1>10. /\ \A a \in Blocks : BlockEnd(h, a) = BlockEnd(hdr, a)
       /\ BlockEnd(h, new) = new + HDR + size
  BY <1>9 DEF BlockEnd
<1>11. Apart(h)
  <2>. SUFFICES ASSUME NEW a \in DOMAIN h, NEW c \in DOMAIN h, a < c
                PROVE  BlockEnd(h, a) <= c
    BY DEF Apart
  <2>1. a # new
    BY <1>2, <1>3, <1>8
  <2>2. \A x, y \in Blocks : x < y => BlockEnd(hdr, x) <= y
    BY DEF Sound, Apart, Blocks
  <2>. QED
    BY <1>8, <1>10, <2>1, <2>2
<1>12. Aligned(h)
  <2>1. \A a \in Blocks : Multiple(a) /\ Multiple(hdr[a].size)
    BY DEF Sound, Aligned, Blocks
  <2>. QED
    BY <1>8, <1>9, <2>1 DEF Aligned
<1>13. Cover(h) = Cover(hdr) \cup (new .. new + HDR + size - 1)
  <2>1. \A a \in Blocks : (a .. BlockEnd(h, a) - 1) = (a .. BlockEnd(hdr, a) - 1)
    BY <1>10
  <2>2. (new .. BlockEnd(h, new) - 1) = (new .. new + HDR + size - 1)
    BY <1>1, <1>10, HeapConstants
  <2>3. /\ Cover(h) = UNION {a .. BlockEnd(h, a) - 1 : a \in Blocks \cup {new}}
        /\ Cover(hdr) = UNION {a .. BlockEnd(hdr, a) - 1 : a \in Blocks}
    BY <1>8 DEF Cover, Blocks
  <2>. QED
    BY <2>1, <2>2, <2>3, Zenon
<1>14. InUse(h) = InUse(hdr) /\ \A a \in InUse(hdr) : h[a].size = hdr[a].size
  BY <1>8, <1>9 DEF InUse, Blocks
<1>. QED
  <2>1. Sound(h, head)
    BY <1>7, <1>11, <1>12 DEF Sound
  <2>. QED
    BY <1>4, <1>8, <1>9, <1>13, <1>14, <2>1, Zenon DEF LongerBy

--------------------------------------------------------------------------------
\* heap_extend and the page allocator.

\* The pages heap_extend takes are free, one after the other from the first.
LEMMA RunIsFree ==
    ASSUME PmmAssumption, FreePages # {}, NEW want \in Nat, want >= 1,
           NEW got, got = RunLength(want)
    PROVE  /\ got \in 1 .. want /\ FirstFreePage \in FreePages
           /\ FirstFreePage \in Pages /\ FirstFreePage \in Nat
           /\ \A q \in FreePages : FirstFreePage <= q
           /\ FirstFreePage .. FirstFreePage + got - 1 \subseteq FreePages
<1>. DEFINE S == {k \in 1 .. want : k = want \/ FirstFreePage + k \notin FreePages}
<1>1. FreePages \subseteq Nat /\ FreePages \subseteq Pages
  BY DEF FreePages, Pages
<1>2. FirstFreePage \in FreePages /\ \A q \in FreePages : FirstFreePage <= q
  BY <1>1, MinIsLeast DEF FirstFreePage
<1>3. want \in S /\ S \subseteq Nat
  OBVIOUS
<1>4. got \in S /\ \A k \in S : got <= k
  <2>1. Min(S) \in S /\ \A k \in S : Min(S) <= k
    BY <1>3, MinIsLeast, Zenon
  <2>2. got = Min(S)
    BY Zenon DEF RunLength
  <2>. QED
    BY <2>1, <2>2
<1>5. ASSUME NEW q \in FirstFreePage .. FirstFreePage + got - 1
      PROVE  q \in FreePages
  <2>1. FirstFreePage \in Nat /\ got \in Nat /\ q \in Nat
    BY <1>1, <1>2, <1>4
  <2>2. CASE q = FirstFreePage
    BY <1>2, <2>2
  <2>3. CASE q # FirstFreePage
    <3>. PICK k : k = q - FirstFreePage
      OBVIOUS
    <3>1. k \in 1 .. want /\ k < got /\ k # want /\ FirstFreePage + k = q
      BY <1>4, <1>5, <2>1, <2>3
    <3>. QED
      BY <1>4, <2>1, <3>1
  <2>. QED
    BY <2>2, <2>3
<1>. QED
  BY <1>1, <1>2, <1>4, <1>5

\* The bytes of consecutive pages.
LEMMA BytesOfRun ==
    ASSUME PmmAssumption, NEW first \in Nat, NEW got \in Nat
    PROVE  BytesOf(first .. first + got - 1)
             = AddressOf(first) .. AddressOf(first) + got * PageSize - 1
<1>1. PageSize \in Nat /\ PageSize >= 1
  BY DEF PmmAssumption
<1>2. ASSUME NEW p \in first .. first + got - 1, NEW x \in AddressOf(p) .. AddressOf(p + 1) - 1
      PROVE  x \in AddressOf(first) .. AddressOf(first) + got * PageSize - 1
  <2>1. first * PageSize <= p * PageSize /\ (p + 1) * PageSize <= (first + got) * PageSize
    BY <1>1
  <2>2. (first + got) * PageSize = first * PageSize + got * PageSize
    BY <1>1
  <2>. QED
    BY <1>1, <2>1, <2>2 DEF AddressOf
<1>3. ASSUME NEW x \in AddressOf(first) .. AddressOf(first) + got * PageSize - 1
      PROVE  \E p \in first .. first + got - 1 : x \in AddressOf(p) .. AddressOf(p + 1) - 1
  <2>1. x \in Nat
    BY <1>1 DEF AddressOf
  <2>2. PICK p \in Nat : p * PageSize <= x /\ x < (p + 1) * PageSize
    <3>1. /\ x \div PageSize \in Nat /\ (x \div PageSize) * PageSize <= x
          /\ x < (x \div PageSize + 1) * PageSize
      BY <1>1, <2>1
    <3>. QED
      BY <3>1
  <2>3. first <= p
    <3>1. p + 1 <= first => (p + 1) * PageSize <= first * PageSize
      BY <1>1
    <3>. QED
      BY <1>1, <2>1, <2>2, <3>1 DEF AddressOf
  <2>4. p <= first + got - 1
    <3>1. first + got <= p => (first + got) * PageSize <= p * PageSize
      BY <1>1
    <3>2. (first + got) * PageSize = first * PageSize + got * PageSize
      BY <1>1
    <3>. QED
      BY <1>1, <2>1, <2>2, <3>1, <3>2 DEF AddressOf
  <2>5. x \in AddressOf(p) .. AddressOf(p + 1) - 1
    BY <1>1, <2>1, <2>2 DEF AddressOf
  <2>. QED
    BY <2>3, <2>4, <2>5
<1>. QED
  BY <1>2, <1>3 DEF BytesOf

LEMMA MultipleOfPage ==
    ASSUME PmmAssumption, HeapAssumption, NEW k \in Nat
    PROVE  Multiple(k * PageSize)
<1>1. PICK j \in Nat : PageSize = j * Align
  BY HeapConstants DEF Multiple
<1>2. k * (j * Align) = (k * j) * Align /\ k * j \in Nat
  BY HeapConstants
<1>3. k * PageSize = (k * j) * Align
  BY <1>1, <1>2, Zenon
<1>. QED
  BY <1>2, <1>3, Zenon DEF Multiple

LEMMA TakePagesInv ==
    ASSUME PmmAssumption, PmmInv, pmm_up, HeapBelowFreePages, FreePages # {},
           NEW want \in Nat, want >= 1, NEW got, got = RunLength(want), TakePages(got)
    PROVE  /\ PmmInv' /\ HeapBelowFreePages' /\ pmm_up'
           /\ BytesOf(held)' = BytesOf(held) \cup
                 (AddressOf(FirstFreePage) .. AddressOf(FirstFreePage) + got * PageSize - 1)
<1>. PICK region : region = FirstFreePage .. FirstFreePage + got - 1
  OBVIOUS
<1>1. /\ got \in Nat /\ FirstFreePage \in Nat /\ region \subseteq FreePages
      /\ \A q \in FreePages : FirstFreePage <= q
  BY RunIsFree
<1>2. /\ bitmap' = bitmap \cup region /\ held' = held \cup region
      /\ free_pages_count' = free_pages_count - got
      /\ mmap' = mmap /\ next_entry' = next_entry /\ pmm_up' = pmm_up
  BY DEF TakePages
<1>3. FreePages' = FreePages \ region /\ FreePages \subseteq Pages /\ FreePages' \subseteq Pages
  BY <1>1, <1>2 DEF FreePages
<1>4. Cardinality(FreePages') = Cardinality(FreePages) - got
  <2>1. Cardinality(FreePages \ region)
          = Cardinality(FreePages) - Cardinality(FreePages \cap region)
    BY <1>1, <1>3, PagesFinite, FS_Difference
  <2>2. FreePages \cap region = region
    BY <1>1
  <2>. PICK last : last = FirstFreePage + got - 1
    OBVIOUS
  <2>3. last \in Int /\ FirstFreePage \in Int /\ region = FirstFreePage .. last
    BY <1>1
  <2>5. Cardinality(region) = IF FirstFreePage > last THEN 0 ELSE last - FirstFreePage + 1
    BY <2>3, FS_Interval, Zenon
  <2>4. Cardinality(region) = got
    BY <1>1, <2>3, <2>5
  <2>. QED
    BY <1>3, <2>1, <2>2, <2>4
<1>5. free_pages_count' = Cardinality(FreePages') /\ free_pages_count' \in Nat
  BY <1>1, <1>2, <1>3, <1>4, PagesFinite DEF PmmInv, CountExact
<1>6. PmmTypeOK'
  BY <1>1, <1>2, <1>3, <1>5 DEF PmmInv, PmmTypeOK
<1>7. PmmInv'
  BY <1>1, <1>2, <1>3, <1>5, <1>6
  DEF PmmInv, CountExact, HeldNotFree, KernelEndPage
<1>8. HeapBelowFreePages'
  <2>. SUFFICES ASSUME NEW p \in held \cup region, NEW q \in FreePages \ region
                PROVE  p < q
    BY <1>2, <1>3 DEF HeapBelowFreePages
  <2>1. q \in Nat /\ q > FirstFreePage + got - 1
    BY <1>1 DEF FreePages, Pages
  <2>. QED
    BY <1>1, <2>1 DEF HeapBelowFreePages
<1>9. BytesOf(held)' = BytesOf(held) \cup BytesOf(region)
  BY <1>2 DEF BytesOf, AddressOf
<1>. QED
  BY <1>1, <1>2, <1>7, <1>8, <1>9, BytesOfRun

\* heap.c:62-66: the heap's blocks end before the first free page.
LEMMA EndsBelowFree ==
    ASSUME PmmAssumption, HeapAssumption, Sound(hdr, heap_head), NEW first \in Nat,
           Cover(hdr) = BytesOf(held), \A p \in held : p \in Nat /\ p < first,
           NEW b \in Blocks
    PROVE  BlockEnd(hdr, b) <= AddressOf(first)
<1>1. PageSize \in Nat /\ PageSize >= 1
  BY DEF PmmAssumption
<1>2. b \in Nat /\ hdr[b].size \in Nat
  BY HeaderFields DEF Sound, Blocks
<1>3. PICK last : last = BlockEnd(hdr, b) - 1
  OBVIOUS
<1>4. BlockEnd(hdr, b) \in Nat /\ last \in b .. BlockEnd(hdr, b) - 1
  <2>1. BlockEnd(hdr, b) \in Nat /\ b < BlockEnd(hdr, b)
    BY <1>2, HeapConstants DEF BlockEnd
  <2>. QED
    BY <1>2, <1>3, <2>1
<1>5. last \in BytesOf(held)
  BY <1>4 DEF Cover, Blocks
<1>6. PICK p \in held : last \in AddressOf(p) .. AddressOf(p + 1) - 1
  BY <1>5 DEF BytesOf
<1>7. p \in Nat /\ (p + 1) * PageSize <= first * PageSize
  <2>1. p \in Nat /\ p + 1 <= first
    OBVIOUS
  <2>. QED
    BY <1>1, <2>1
<1>. QED
  BY <1>1, <1>3, <1>4, <1>6, <1>7 DEF AddressOf

\* heap_extend: the list after the walk over the new pages is sound, and covers
\* the pages the heap holds then.
Grown(new, size, head, h) ==
    /\ Sound(h, head) /\ Cover(h) = BytesOf(held)'
    /\ new \in DOMAIN h /\ h[new].free /\ h[new].size = size /\ size \in Nat
    /\ InUse(h) = InUse(hdr)
    /\ \A a \in InUse(hdr) : h[a].size = hdr[a].size

LEMMA ExtendGrows ==
    ASSUME PmmAssumption, HeapAssumption, HeapInv, pmm_up, FreePages # {},
           NEW want \in Nat, want >= 1, NEW got, got = RunLength(want), TakePages(got),
           NEW new, new = AddressOf(FirstFreePage), NEW size, size = RegionSize(got),
           NEW head, head = (IF Blocks = {} THEN new ELSE heap_head),
           NEW h, h = Appended(new, size)
    PROVE  PmmInv' /\ HeapBelowFreePages' /\ pmm_up' /\ Grown(new, size, head, h)
<1>1. PmmInv /\ HeapBelowFreePages /\ Sound(hdr, heap_head) /\ Cover(hdr) = BytesOf(held)
  BY DEF HeapInv
<1>2. /\ PmmInv' /\ HeapBelowFreePages' /\ pmm_up'
      /\ BytesOf(held)' = BytesOf(held) \cup
            (AddressOf(FirstFreePage) .. AddressOf(FirstFreePage) + got * PageSize - 1)
  BY <1>1, TakePagesInv
<1>3. /\ got \in Nat /\ got >= 1 /\ FirstFreePage \in FreePages
      /\ FirstFreePage \in Pages /\ FirstFreePage \in Nat
  BY RunIsFree
<1>4. new # NULL /\ new \in Nat /\ Multiple(new)
  <2>1. FirstFreePage >= KernelEndPage
    BY <1>1, <1>3 DEF PmmInv
  <2>2. new # NULL
    BY <1>3, <2>1, KernelEndPageBound
  <2>3. Multiple(new)
    BY <1>3, MultipleOfPage DEF AddressOf
  <2>. QED
    BY <2>2, <2>3, HeapConstants, MultipleSum
<1>5. Multiple(size) /\ size \in Nat /\ HDR + size = got * PageSize
  <2>1. Multiple(got * PageSize) /\ got * PageSize \in Nat /\ got * PageSize >= HDR
    <3>1. PICK bytes : bytes = got * PageSize
      OBVIOUS
    <3>2. PageSize <= bytes /\ bytes \in Nat
      <4>1. 1 * PageSize <= got * PageSize
        BY <1>3, HeapConstants
      <4>. QED
        BY <1>3, <3>1, <4>1, HeapConstants
    <3>3. Multiple(bytes)
      BY <1>3, <3>1, MultipleOfPage
    <3>. QED
      BY <3>1, <3>2, <3>3, HeapConstants
  <2>2. Multiple(got * PageSize - HDR)
    BY <2>1, MultipleSum, HeapConstants
  <2>. QED
    BY <2>1, <2>2, HeapConstants DEF RegionSize
<1>6. \A b \in Blocks : BlockEnd(hdr, b) <= new
  <2>1. \A p \in held : p \in Nat /\ p < FirstFreePage
    BY <1>1, <1>3 DEF HeapBelowFreePages, PmmInv, PmmTypeOK, Pages
  <2>. QED
    BY <1>1, <1>3, <2>1, EndsBelowFree
<1>7. /\ Sound(h, head) /\ DOMAIN h = Blocks \cup {new}
      /\ Cover(h) = Cover(hdr) \cup (new .. new + HDR + size - 1)
      /\ h[new].free /\ h[new].size = size /\ InUse(h) = InUse(hdr)
      /\ \A a \in InUse(hdr) : h[a].size = hdr[a].size
  <2>1. LongerBy(new, size, head, h)
    BY <1>1, <1>4, <1>5, <1>6, AppendSound
  <2>. QED
    BY <2>1, Zenon DEF LongerBy
<1>8. (new .. new + HDR + size - 1) = (new .. new + got * PageSize - 1)
  <2>1. new + HDR + size - 1 = new + got * PageSize - 1
    BY <1>3, <1>4, <1>5, HeapConstants
  <2>. QED
    BY <2>1
<1>9. Cover(h) = BytesOf(held)'
  BY <1>1, <1>2, <1>7, <1>8
<1>. QED
  BY <1>2, <1>5, <1>7, <1>9 DEF Grown

--------------------------------------------------------------------------------
\* kmalloc.

LEMMA WordPositive ==
    ASSUME PmmAssumption, HeapAssumption
    PROVE  Word \in Nat /\ Word >= 1 /\ \A i \in Int : i % Word \in 0 .. Word - 1
<1>1. MaxPages * PageSize >= 1 * PageSize
  BY DEF PmmAssumption
<1>2. Word \in Nat /\ Word >= 1
  BY <1>1 DEF PmmAssumption, HeapAssumption
<1>. QED
  BY <1>2

\* Rounding up a request keeps its bytes and makes a multiple of the alignment.
LEMMA AlignUpSize ==
    ASSUME PmmAssumption, HeapAssumption, NEW size \in Sizes, NEW n, n = AlignUp(size, Align)
    PROVE  n \in Nat /\ size \in Nat /\ size <= n /\ Multiple(n)
<1>1. PICK x : x = size + Align - 1
  OBVIOUS
<1>2. size \in Nat /\ x \in Nat /\ x < Word /\ Align \in Nat /\ Align >= 1 /\ Word \in Nat
  <2>1. /\ size \in Nat /\ Align \in Nat /\ Align >= 1 /\ HDR \in Nat /\ MinSplit \in Nat
        /\ PageSize \in Nat /\ Word \in Nat /\ PageSize >= 1
        /\ size + Align + HDR + MinSplit + PageSize <= Word
    BY HeapConstants DEF HeapAssumption
  <2>. QED
    BY <1>1, <2>1
<1>3. x % Word = x
  BY <1>2
<1>4. x \div Align \in Nat /\ (x \div Align) * Align <= x /\ x < (x \div Align) * Align + Align
  BY <1>2
<1>5. n = (x \div Align) * Align
  BY <1>1, <1>3, Zenon DEF AlignUp
<1>6. Multiple(n)
  BY <1>4, <1>5, Zenon DEF Multiple
<1>. QED
  BY <1>1, <1>2, <1>4, <1>5, <1>6

LEMMA FirstFitFits ==
    ASSUME NEW n, FirstFit(n) # NULL
    PROVE  FirstFit(n) \in Fits(n)
BY Zenon DEF FirstFit

LEMMA NeedsAPage ==
    ASSUME PmmAssumption, HeapAssumption, NEW n \in Nat
    PROVE  /\ (n + HDR + PageSize - 1) \div PageSize \in Nat
           /\ (n + HDR + PageSize - 1) \div PageSize >= 1
<1>1. PICK x : x = n + HDR + PageSize - 1
  OBVIOUS
<1>2. PageSize \in Nat /\ PageSize >= 1 /\ x \in Nat /\ x >= PageSize
  BY <1>1, HeapConstants
<1>3. x \div PageSize \in Nat /\ x < (x \div PageSize) * PageSize + PageSize
  BY <1>2
<1>4. x \div PageSize >= 1
  BY <1>2, <1>3
<1>. QED
  BY <1>1, <1>3, <1>4

\* What the callers hold agrees with the list h: GrantsBacked, for any list.
Backed(h, grants) ==
    /\ {b + HDR : b \in InUse(h)} = DOMAIN grants
    /\ \A ptr \in DOMAIN grants : h[ptr - HDR].size >= grants[ptr]

LEMMA BackedIsGrantsBacked == GrantsBacked <=> Backed(hdr, granted)
BY DEF GrantsBacked, Backed, InUse, Blocks

\* A block handed out for size bytes.
GrantTo(ptr, size) ==
    [p \in DOMAIN granted \cup {ptr} |-> IF p = ptr THEN size ELSE granted[p]]

LEMMA GrantIsBacked ==
    ASSUME PmmAssumption, HeapAssumption, GrantsBacked, Headers(hdr, heap_head),
           granted \in [DOMAIN granted -> Sizes],
           NEW b \in Nat, NEW ptr, ptr = b + HDR, NEW size \in Sizes,
           NEW h, InUse(h) = InUse(hdr) \cup {b}, b \notin InUse(hdr),
           \A a \in InUse(hdr) : h[a].size = hdr[a].size, h[b].size >= size,
           NEW grants, grants = GrantTo(ptr, size)
    PROVE  Backed(h, grants) /\ grants \in [DOMAIN grants -> Sizes]
<1>1. /\ DOMAIN grants = DOMAIN granted \cup {ptr} /\ grants \in [DOMAIN grants -> Sizes]
      /\ \A p \in DOMAIN grants : grants[p] = IF p = ptr THEN size ELSE granted[p]
  BY DEF GrantTo
<1>2. {a + HDR : a \in InUse(hdr)} = DOMAIN granted
  BY DEF GrantsBacked, InUse, Blocks
<1>3. {a + HDR : a \in InUse(h)} = DOMAIN grants
  BY <1>1, <1>2
<1>4. ASSUME NEW p \in DOMAIN grants PROVE h[p - HDR].size >= grants[p]
  <2>1. CASE p = ptr
    <3>1. p - HDR = b
      BY <2>1, HeapConstants
    <3>. QED
      BY <1>1, <2>1, <3>1
  <2>2. CASE p # ptr
    <3>1. p \in DOMAIN granted /\ grants[p] = granted[p]
      BY <1>1, <2>2
    <3>2. PICK a \in InUse(hdr) : p = a + HDR
      BY <1>2, <3>1
    <3>3. a \in Nat
      BY DEF InUse, Headers
    <3>4. p - HDR = a
      BY <3>2, <3>3, HeapConstants
    <3>5. hdr[p - HDR].size >= granted[p]
      BY <3>1 DEF GrantsBacked
    <3>. QED
      BY <3>1, <3>4, <3>5
  <2>. QED
    BY <2>1, <2>2
<1>. QED
  BY <1>1, <1>3, <1>4 DEF Backed

\* The part of HeapInv that is about the list, once it is h, begins at head and
\* covers the given bytes.
ListInv(h, head, bytes, grants) ==
    /\ Sound(h, head) /\ Cover(h) = bytes
    /\ grants \in [DOMAIN grants -> Sizes]
    /\ Backed(h, grants)

\* heap.c:121-137: the end of kmalloc.
LEMMA GrantBlockInv ==
    ASSUME PmmAssumption, HeapAssumption, HeapInv, NEW h, NEW head, Sound(h, head),
           InUse(h) = InUse(hdr), \A a \in InUse(hdr) : h[a].size = hdr[a].size,
           NEW b \in DOMAIN h, h[b].free, NEW size \in Sizes,
           NEW n, n = AlignUp(size, Align), n <= h[b].size, NEW free \in Nat,
           GrantBlock(h, b, n, size, free)
    PROVE  /\ ListInv(hdr', head, Cover(h), granted')
           /\ used_bytes' \in 0 .. Word - 1 /\ free_bytes' \in 0 .. Word - 1
<1>1. PICK cut : cut = Split(h, b, n)
  OBVIOUS
<1>2. n \in Nat /\ size \in Nat /\ size <= n /\ Multiple(n)
  BY AlignUpSize
<1>3. Keeps(h, cut, head, {}) /\ b \in DOMAIN cut /\ cut[b].size >= n
  BY <1>1, <1>2, SplitSound
<1>4. /\ Sound(cut, head) /\ Cover(cut) = Cover(h) /\ InUse(cut) = InUse(hdr)
      /\ \A a \in InUse(hdr) : cut[a].size = hdr[a].size
  <2>1. /\ Sound(cut, head) /\ Cover(cut) = Cover(h) /\ InUse(cut) = InUse(h)
        /\ \A a \in InUse(h) : cut[a].size = h[a].size
    BY <1>3 DEF Keeps
  <2>. QED
    BY <2>1
<1>5. hdr' = Taken(cut, b)
  BY <1>1, Zenon DEF GrantBlock, Taken
<1>6. /\ Sound(hdr', head) /\ Cover(hdr') = Cover(cut) /\ DOMAIN hdr' = DOMAIN cut
      /\ InUse(hdr') = InUse(cut) \cup {b}
      /\ \A a \in DOMAIN cut : hdr'[a].size = cut[a].size
  BY <1>3, <1>4, <1>5, MarkInUse
<1>7. b \in Nat /\ hdr'[b].size \in Nat
  BY <1>3, <1>6, HeaderFields DEF Sound
<1>8. Backed(hdr', granted') /\ granted' \in [DOMAIN granted' -> Sizes]
  <2>1. PICK ptr : ptr = b + HDR
    OBVIOUS
  <2>2. granted' = GrantTo(ptr, size)
    BY <2>1, Zenon DEF GrantBlock, GrantTo
  <2>3. b \notin InUse(hdr)
    BY DEF InUse
  <2>4. hdr'[b].size >= size
    <3>1. hdr'[b].size = cut[b].size
      BY ONLY <1>3, <1>6, Zenon
    <3>2. PICK k : k = hdr'[b].size
      OBVIOUS
    <3>3. k >= n /\ k \in Nat
      BY ONLY <1>3, <1>7, <3>1, <3>2, Zenon
    <3>4. k >= size
      BY ONLY <1>2, <3>3
    <3>. QED
      BY ONLY <3>2, <3>4, Zenon
  <2>5. \A a \in InUse(hdr) : hdr'[a].size = hdr[a].size
    BY <1>4, <1>6 DEF InUse
  <2>6. GrantsBacked /\ Headers(hdr, heap_head) /\ granted \in [DOMAIN granted -> Sizes]
    BY DEF HeapInv, Sound
  <2>7. InUse(hdr') = InUse(hdr) \cup {b}
    BY <1>4, <1>6
  <2>. QED
    BY <1>7, <2>1, <2>2, <2>3, <2>4, <2>5, <2>6, <2>7, GrantIsBacked
<1>9. used_bytes' \in 0 .. Word - 1 /\ free_bytes' \in 0 .. Word - 1
  <2>1. /\ free_bytes' = (free - hdr'[b].size) % Word
        /\ used_bytes' = (used_bytes + hdr'[b].size) % Word
    BY Zenon DEF GrantBlock
  <2>2. used_bytes \in Int
    BY WordPositive DEF HeapInv
  <2>3. PICK less, more : less = free - hdr'[b].size /\ more = used_bytes + hdr'[b].size
    OBVIOUS
  <2>4. PICK k : k = hdr'[b].size
    OBVIOUS
  <2>5. k \in Nat /\ less = free - k /\ more = used_bytes + k
    BY ONLY <1>7, <2>3, <2>4, Zenon
  <2>6. less \in Int /\ more \in Int
    BY <2>2, <2>5
  <2>7. free_bytes' = less % Word /\ used_bytes' = more % Word
    BY ONLY <2>1, <2>3, Zenon
  <2>. QED
    BY <2>6, <2>7, WordPositive
<1>. QED
  BY <1>4, <1>6, <1>8, <1>9 DEF ListInv

LEMMA HeapInvNext ==
    ASSUME PmmInv', HeapBelowFreePages', ListInv(hdr', heap_head', BytesOf(held)', granted'),
           used_bytes' \in 0 .. Word - 1, free_bytes' \in 0 .. Word - 1,
           heap_up', pmm_up', heap_up' \in BOOLEAN
    PROVE  HeapInv'
<1>1. GrantsBacked' <=> Backed(hdr', granted')
  BY DEF GrantsBacked, Backed, InUse, Blocks
<1>2. Cover(hdr)' = Cover(hdr') /\ (Sound(hdr, heap_head)' <=> Sound(hdr', heap_head'))
  BY DEF Cover, Sound, Headers, Chained, Apart, Aligned, BlockEnd, Multiple, Header
<1>. QED
  BY <1>1, <1>2 DEF HeapInv, ListInv

--------------------------------------------------------------------------------
\* The steps.

LEMMA BootInv == ASSUME PmmAssumption, HeapInv, Boot PROVE HeapInv'
<1>1. /\ PmmInv /\ ~pmm_up /\ ~heap_up /\ held = {}
      /\ heap_up' = heap_up /\ heap_head' = heap_head /\ hdr' = hdr
      /\ used_bytes' = used_bytes /\ free_bytes' = free_bytes /\ granted' = granted
  BY DEF HeapInv, Boot, ScanEntry, ReserveKernel, heap_vars, list_vars, byte_vars, caller_vars
<1>2. PmmInv' /\ held' = held
  BY <1>1, ScanEntryInv, ReserveKernelInv DEF Boot, ScanEntry, ReserveKernel
<1>3. HeapBelowFreePages'
  BY <1>1, <1>2 DEF HeapBelowFreePages
<1>4. Sound(hdr, heap_head)' <=> Sound(hdr, heap_head)
  BY <1>1 DEF Sound, Headers, Chained, Apart, Aligned, BlockEnd, Multiple, Header
<1>5. Cover(hdr)' = Cover(hdr) /\ BytesOf(held)' = BytesOf(held) /\ Blocks' = Blocks
  BY <1>1, <1>2 DEF Cover, BlockEnd, BytesOf, AddressOf, Blocks
<1>6. GrantsBacked' <=> GrantsBacked
  BY <1>1 DEF GrantsBacked, Blocks
<1>. QED
  BY <1>1, <1>2, <1>3, <1>4, <1>5, <1>6 DEF HeapInv

LEMMA HeapInitInv ==
    ASSUME PmmAssumption, HeapAssumption, HeapInv, HeapInit PROVE HeapInv'
<1>1. /\ pmm_up /\ ~heap_up /\ heap_up' = TRUE
      /\ used_bytes' = used_bytes /\ granted' = granted
      /\ Blocks = {} /\ granted = [ptr \in {} |-> 0]
  BY DEF HeapInv, HeapInit
<1>2. CASE FreePages = {}
  <2>1. /\ hdr' = hdr /\ heap_head' = heap_head /\ free_bytes' = free_bytes
        /\ UNCHANGED pmm_vars
    BY <1>2 DEF HeapInit, list_vars
  <2>2. PmmInv' /\ HeapBelowFreePages' /\ pmm_up' /\ held' = held
    BY <1>1, <2>1
    DEF HeapInv, pmm_vars, PmmInv, PmmTypeOK, CountExact, HeldNotFree, FreePages,
        KernelEndPage, HeapBelowFreePages
  <2>3. ListInv(hdr', heap_head', BytesOf(held)', granted')
    <3>1. BytesOf(held)' = BytesOf(held)
      BY <2>2 DEF BytesOf, AddressOf
    <3>. QED
      BY <1>1, <2>1, <3>1, BackedIsGrantsBacked DEF HeapInv, ListInv
  <2>4. used_bytes' \in 0 .. Word - 1 /\ free_bytes' \in 0 .. Word - 1
    BY <1>1, <2>1 DEF HeapInv
  <2>. QED
    BY <1>1, <2>2, <2>3, <2>4, HeapInvNext
<1>3. CASE FreePages # {}
  <2>1. PICK got, new, size, h :
          /\ got = RunLength(InitialPages) /\ new = AddressOf(FirstFreePage)
          /\ size = RegionSize(got) /\ h = Appended(new, size)
    OBVIOUS
  <2>2. /\ TakePages(got) /\ hdr' = h /\ heap_head' = new /\ free_bytes' = size
    BY <1>3, <2>1, Zenon DEF HeapInit
  <2>3. new = IF Blocks = {} THEN new ELSE heap_head
    BY <1>1
  <2>4. PmmInv' /\ HeapBelowFreePages' /\ pmm_up' /\ Grown(new, size, new, h)
    BY <1>1, <1>3, <2>1, <2>2, <2>3, ExtendGrows, HeapConstants
  <2>5. Backed(h, granted)
    <3>1. InUse(h) = {} /\ DOMAIN granted = {}
      BY <1>1, <2>4 DEF Grown, InUse, Blocks
    <3>. QED
      BY <3>1 DEF Backed
  <2>6. ListInv(hdr', heap_head', BytesOf(held)', granted')
    BY <1>1, <2>2, <2>4, <2>5 DEF HeapInv, ListInv, Grown
  <2>7. size \in 0 .. Word - 1
    <3>1. size \in Nat
      BY <2>4 DEF Grown
    <3>2. size < Word
      <4>1. got \in 1 .. InitialPages /\ FirstFreePage .. FirstFreePage + got - 1 \subseteq Pages
              /\ FirstFreePage \in Nat
        BY <1>3, <2>1, RunIsFree, HeapConstants DEF FreePages
      <4>2. got \in Nat /\ got <= MaxPages
        <5>1. got \in Nat /\ got >= 1
          BY <4>1
        <5>2. FirstFreePage + got - 1 \in Pages
          BY <4>1, <5>1
        <5>. QED
          BY <4>1, <5>1, <5>2 DEF Pages
      <4>3. got * PageSize <= MaxPages * PageSize /\ MaxPages * PageSize <= Word
        BY <4>2, HeapConstants DEF HeapAssumption
      <4>4. PICK bytes, limit : bytes = got * PageSize /\ limit = MaxPages * PageSize
        OBVIOUS
      <4>5. bytes \in Nat /\ limit \in Nat /\ HDR \in Nat /\ HDR >= 1 /\ Word \in Nat
        BY <4>2, <4>4, HeapConstants
      <4>6. size = bytes - HDR
        BY ONLY <2>1, <4>4, Zenon DEF RegionSize
      <4>7. bytes <= limit /\ limit <= Word
        BY ONLY <4>3, <4>4, Zenon
      <4>. QED
        BY ONLY <4>5, <4>6, <4>7
    <3>. QED
      BY <3>1, <3>2, HeapConstants
  <2>8. used_bytes' \in 0 .. Word - 1 /\ free_bytes' \in 0 .. Word - 1
    BY <1>1, <2>2, <2>7 DEF HeapInv
  <2>. QED
    BY <1>1, <2>4, <2>6, <2>8, HeapInvNext
<1>. QED
  BY <1>2, <1>3

LEMMA KmallocFromListInv ==
    ASSUME PmmAssumption, HeapAssumption, HeapInv, NEW size \in Sizes, KmallocFromList(size)
    PROVE  HeapInv'
<1>1. PICK n, b : n = AlignUp(size, Align) /\ b = FirstFit(n)
  OBVIOUS
<1>2. /\ heap_up /\ b # NULL /\ GrantBlock(hdr, b, n, size, free_bytes)
      /\ UNCHANGED <<pmm_vars, heap_up, heap_head, regions>>
  BY <1>1, Zenon DEF KmallocFromList
<1>3. b \in Blocks /\ hdr[b].free /\ hdr[b].size >= n
  BY <1>1, <1>2, FirstFitFits DEF Fits
<1>4. Sound(hdr, heap_head) /\ Cover(hdr) = BytesOf(held) /\ free_bytes \in Nat
  BY WordPositive DEF HeapInv
<1>5. /\ ListInv(hdr', heap_head, Cover(hdr), granted')
      /\ used_bytes' \in 0 .. Word - 1 /\ free_bytes' \in 0 .. Word - 1
  <2>1. n <= hdr[b].size
    <3>1. n \in Nat
      BY <1>1, AlignUpSize
    <3>2. hdr[b].size \in Nat
      BY <1>3, <1>4, HeaderFields DEF Sound, Blocks
    <3>. QED
      BY <1>3, <3>1, <3>2
  <2>2. b \in DOMAIN hdr
    BY <1>3 DEF Blocks
  <2>. QED
    BY <1>1, <1>2, <1>3, <1>4, <2>1, <2>2, GrantBlockInv
<1>6. PmmInv' /\ HeapBelowFreePages' /\ pmm_up' /\ held' = held
  BY <1>2
  DEF HeapInv, pmm_vars, PmmInv, PmmTypeOK, CountExact, HeldNotFree, FreePages,
      KernelEndPage, HeapBelowFreePages
<1>7. ListInv(hdr', heap_head', BytesOf(held)', granted')
  BY <1>2, <1>4, <1>5, <1>6 DEF BytesOf, AddressOf
<1>. QED
  BY <1>2, <1>5, <1>6, <1>7, HeapInvNext

LEMMA KmallocExtendsInv ==
    ASSUME PmmAssumption, HeapAssumption, HeapInv, NEW size \in Sizes, KmallocExtends(size)
    PROVE  HeapInv'
<1>1. PICK n, want : n = AlignUp(size, Align) /\ want = (n + HDR + PageSize - 1) \div PageSize
  OBVIOUS
<1>2. PICK got, new : got = RunLength(want) /\ new = AddressOf(FirstFreePage)
  OBVIOUS
<1>3. PICK more, head, h, free :
        /\ more = RegionSize(got) /\ head = (IF Blocks = {} THEN new ELSE heap_head)
        /\ h = Appended(new, more) /\ free = (free_bytes + more) % Word
  OBVIOUS
<1>4. /\ heap_up /\ FreePages # {} /\ TakePages(got) /\ heap_head' = head
      /\ heap_up' = heap_up
      /\ IF more < n
           THEN /\ hdr' = h /\ free_bytes' = free
                /\ UNCHANGED <<used_bytes, granted>>
           ELSE GrantBlock(h, new, n, size, free)
  BY <1>1, <1>2, <1>3, Zenon DEF KmallocExtends
<1>5. n \in Nat /\ want \in Nat /\ want >= 1
  BY <1>1, AlignUpSize, NeedsAPage
<1>6. pmm_up
  BY <1>4 DEF HeapInv
<1>7. PmmInv' /\ HeapBelowFreePages' /\ pmm_up' /\ Grown(new, more, head, h)
  BY <1>2, <1>3, <1>4, <1>5, <1>6, ExtendGrows
<1>8. /\ Sound(h, head) /\ Cover(h) = BytesOf(held)'
      /\ new \in DOMAIN h /\ h[new].free /\ h[new].size = more /\ more \in Nat
      /\ InUse(h) = InUse(hdr)
      /\ \A a \in InUse(hdr) : h[a].size = hdr[a].size
  BY <1>7, Zenon DEF Grown
<1>9. free \in 0 .. Word - 1 /\ free \in Nat
  <2>1. free_bytes \in Int
    BY WordPositive DEF HeapInv
  <2>2. free_bytes + more \in Int
    BY <1>8, <2>1
  <2>3. free \in 0 .. Word - 1
    BY <1>3, <2>2, WordPositive
  <2>. QED
    BY <2>3, WordPositive
<1>10. CASE more < n
  <2>1. /\ hdr' = h /\ free_bytes' = free /\ used_bytes' = used_bytes /\ granted' = granted
    BY <1>4, <1>10
  <2>2. Backed(h, granted)
    <3>1. Backed(hdr, granted)
      BY BackedIsGrantsBacked DEF HeapInv
    <3>2. \A ptr \in DOMAIN granted : ptr - HDR \in InUse(hdr)
      <4>1. \A a \in InUse(hdr) : a \in Nat
        BY DEF HeapInv, Sound, Headers, InUse
      <4>. QED
        BY <3>1, <4>1, HeapConstants DEF Backed
    <3>. QED
      BY <1>8, <3>1, <3>2 DEF Backed
  <2>3. ListInv(hdr', heap_head', BytesOf(held)', granted')
    BY <1>4, <1>8, <2>1, <2>2 DEF HeapInv, ListInv
  <2>4. used_bytes' \in 0 .. Word - 1 /\ free_bytes' \in 0 .. Word - 1
    BY <1>9, <2>1 DEF HeapInv
  <2>. QED
    BY <1>4, <1>7, <2>3, <2>4, HeapInvNext
<1>11. CASE ~(more < n)
  <2>1. GrantBlock(h, new, n, size, free) /\ n <= h[new].size
    BY <1>4, <1>5, <1>8, <1>11
  <2>2. /\ ListInv(hdr', head, Cover(h), granted')
        /\ used_bytes' \in 0 .. Word - 1 /\ free_bytes' \in 0 .. Word - 1
    BY <1>1, <1>8, <1>9, <2>1, GrantBlockInv
  <2>3. ListInv(hdr', heap_head', BytesOf(held)', granted')
    BY <1>4, <1>8, <2>2
  <2>. QED
    BY <1>4, <1>7, <2>2, <2>3, HeapInvNext
<1>. QED
  BY <1>10, <1>11

LEMMA KfreeInv ==
    ASSUME PmmAssumption, HeapAssumption, HeapInv, NEW ptr \in DOMAIN granted, Kfree(ptr)
    PROVE  HeapInv'
<1>1. PICK b : b = ptr - HDR
  OBVIOUS
<1>2. /\ hdr' = Freed(b) /\ UNCHANGED <<pmm_vars, heap_up, heap_head, regions>>
      /\ used_bytes' = (used_bytes - ReleasedSize(b)) % Word
      /\ free_bytes' = (free_bytes + ReleasedSize(b)) % Word
      /\ granted' = Restrict(granted, DOMAIN granted \ {ptr})
  BY <1>1, Zenon DEF Kfree
<1>3. Sound(hdr, heap_head) /\ Cover(hdr) = BytesOf(held) /\ Backed(hdr, granted)
  BY BackedIsGrantsBacked DEF HeapInv
<1>4. \A a \in InUse(hdr) : a \in Nat /\ a \in Blocks
  BY <1>3 DEF Sound, Headers, InUse, Blocks
<1>5. b \in InUse(hdr) /\ b \in Blocks /\ ptr = b + HDR
  <2>1. PICK a \in InUse(hdr) : ptr = a + HDR
    BY <1>3 DEF Backed
  <2>2. a = b
    BY <1>1, <1>4, <2>1, HeapConstants
  <2>. QED
    BY <1>4, <2>1, <2>2
<1>6. Keeps(hdr, hdr', heap_head, {b})
  BY <1>2, <1>3, <1>5, FreedSound
<1>7. /\ Sound(hdr', heap_head) /\ Cover(hdr') = Cover(hdr)
      /\ InUse(hdr') = InUse(hdr) \ {b}
      /\ \A a \in InUse(hdr) \ {b} : hdr'[a].size = hdr[a].size
  BY <1>6, Zenon DEF Keeps
<1>8. /\ DOMAIN granted' = DOMAIN granted \ {ptr}
      /\ \A p \in DOMAIN granted' : granted'[p] = granted[p]
      /\ granted' \in [DOMAIN granted' -> Sizes]
  BY <1>2 DEF HeapInv, Restrict
<1>9. Backed(hdr', granted')
  <2>1. {a + HDR : a \in InUse(hdr')} = DOMAIN granted'
    BY <1>3, <1>4, <1>5, <1>7, <1>8, HeapConstants DEF Backed
  <2>2. ASSUME NEW p \in DOMAIN granted' PROVE hdr'[p - HDR].size >= granted'[p]
    <3>1. p \in DOMAIN granted /\ granted'[p] = granted[p]
      BY <1>8
    <3>2. PICK a \in InUse(hdr') : p = a + HDR
      BY <2>1
    <3>3. a \in InUse(hdr) /\ a # b /\ p - HDR = a
      BY <1>4, <1>7, <3>2, HeapConstants
    <3>4. hdr[p - HDR].size >= granted[p]
      BY <1>3, <3>1 DEF Backed
    <3>. QED
      BY <1>7, <3>1, <3>3, <3>4
  <2>. QED
    BY <2>1, <2>2 DEF Backed
<1>10. used_bytes' \in 0 .. Word - 1 /\ free_bytes' \in 0 .. Word - 1
  <2>1. ReleasedSize(b) \in Nat
    BY <1>3, <1>5, HeaderFields DEF ReleasedSize, Sound, Blocks
  <2>2. used_bytes \in Int /\ free_bytes \in Int
    BY WordPositive DEF HeapInv
  <2>3. PICK less, more :
          less = used_bytes - ReleasedSize(b) /\ more = free_bytes + ReleasedSize(b)
    OBVIOUS
  <2>4. less \in Int /\ more \in Int
    BY <2>1, <2>2, <2>3
  <2>. QED
    BY <1>2, <2>3, <2>4, WordPositive
<1>11. heap_up
  <2>1. ~heap_up => DOMAIN granted = {}
    BY DEF HeapInv
  <2>. QED
    BY <2>1 DEF HeapInv
<1>12. PmmInv' /\ HeapBelowFreePages' /\ pmm_up' /\ heap_up' /\ held' = held
  BY <1>2, <1>11
  DEF HeapInv, pmm_vars, PmmInv, PmmTypeOK, CountExact, HeldNotFree, FreePages,
      KernelEndPage, HeapBelowFreePages
<1>13. ListInv(hdr', heap_head', BytesOf(held)', granted')
  BY <1>2, <1>3, <1>7, <1>8, <1>9, <1>12 DEF ListInv, BytesOf, AddressOf
<1>. QED
  BY <1>10, <1>12, <1>13, HeapInvNext

LEMMA HeapInitialInv == ASSUME PmmAssumption, HeapAssumption, Init PROVE HeapInv
<1>1. PmmInv /\ pmm_up = FALSE /\ heap_up = FALSE /\ held = {}
  BY PmmInitInv DEF Init, PmmInit
<1>2. /\ hdr = [b \in {} |-> 0] /\ heap_head = NULL /\ DOMAIN hdr = {} /\ Blocks = {}
      /\ granted = [ptr \in {} |-> 0] /\ DOMAIN granted = {}
      /\ used_bytes = 0 /\ free_bytes = 0
  BY DEF Init, Blocks
<1>3. Sound(hdr, heap_head)
  BY <1>2 DEF Sound, Headers, Chained, Apart, Aligned
<1>4. Cover(hdr) = BytesOf(held) /\ HeapBelowFreePages
  BY <1>1, <1>2 DEF Cover, BytesOf, HeapBelowFreePages
<1>5. GrantsBacked /\ granted \in [DOMAIN granted -> Sizes]
  BY <1>2 DEF GrantsBacked
<1>6. used_bytes \in 0 .. Word - 1 /\ free_bytes \in 0 .. Word - 1
  BY <1>2, WordPositive
<1>. QED
  BY <1>1, <1>2, <1>3, <1>4, <1>5, <1>6 DEF HeapInv

LEMMA HeapStepInv == ASSUME PmmAssumption, HeapAssumption, HeapInv, [Next]_vars PROVE HeapInv'
<1>1. CASE Boot
  BY <1>1, BootInv
<1>2. CASE HeapInit
  BY <1>2, HeapInitInv
<1>3. ASSUME NEW size \in Sizes, KmallocFromList(size) PROVE HeapInv'
  BY <1>3, KmallocFromListInv
<1>4. ASSUME NEW size \in Sizes, KmallocExtends(size) PROVE HeapInv'
  BY <1>4, KmallocExtendsInv
<1>5. ASSUME NEW ptr \in DOMAIN granted, Kfree(ptr) PROVE HeapInv'
  BY <1>5, KfreeInv
<1>6. CASE UNCHANGED vars
  <2>1. /\ UNCHANGED pmm_vars /\ heap_up' = heap_up /\ heap_head' = heap_head
        /\ hdr' = hdr /\ used_bytes' = used_bytes /\ free_bytes' = free_bytes
        /\ granted' = granted /\ held' = held /\ pmm_up' = pmm_up
    BY <1>6 DEF vars, heap_vars, list_vars, byte_vars, caller_vars, pmm_vars
  <2>2. (PmmInv /\ HeapBelowFreePages) => (PmmInv /\ HeapBelowFreePages)'
    BY <2>1
    DEF pmm_vars, PmmInv, PmmTypeOK, CountExact, HeldNotFree, FreePages,
        KernelEndPage, HeapBelowFreePages
  <2>3. Sound(hdr, heap_head)' <=> Sound(hdr, heap_head)
    BY <2>1 DEF Sound, Headers, Chained, Apart, Aligned, BlockEnd, Multiple, Header
  <2>4. Cover(hdr)' = Cover(hdr) /\ BytesOf(held)' = BytesOf(held) /\ Blocks' = Blocks
    BY <2>1 DEF Cover, BlockEnd, BytesOf, AddressOf, Blocks
  <2>5. GrantsBacked' <=> GrantsBacked
    BY <2>1 DEF GrantsBacked, Blocks
  <2>. QED
    BY <2>1, <2>2, <2>3, <2>4, <2>5 DEF HeapInv
<1>7. ASSUME NEW size \in Sizes, KmallocFails(size) PROVE HeapInv'
  BY <1>6, <1>7 DEF KmallocFails
<1>. QED
  BY <1>1, <1>2, <1>3, <1>4, <1>5, <1>6, <1>7 DEF Next

--------------------------------------------------------------------------------
\* heap.c:20-177: the blocks are a sound list of the heap's pages, and those in
\* use are the callers'; everything else about the heap follows from it.
THEOREM HeapInvariant == Spec => []HeapInv
<1>1. Init => HeapInv
  BY PmmAssumption, HeapAssumption, HeapInitialInv
<1>2. HeapInv /\ [Next]_vars => HeapInv'
  BY PmmAssumption, HeapAssumption, HeapStepInv
<1>. QED
  BY <1>1, <1>2, PTL DEF Spec

\* The type invariant.
THEOREM HeapTypes == Spec => []HeapTypeOK
<1>1. HeapInv => HeapTypeOK
  BY DEF HeapInv, HeapTypeOK, Sound, Headers, Header, Links, Blocks
<1>. QED
  BY <1>1, HeapInvariant, PTL

\* heap.c:139-141: the list is doubly linked and in address order, whatever is
\* split, merged and appended.
THEOREM HeapListInAddressOrder == Spec => []ListInAddressOrder
<1>1. HeapInv => ListInAddressOrder
  BY Zenon DEF HeapInv, ListInAddressOrder, Sound, Chained, Blocks
<1>. QED
  BY <1>1, HeapInvariant, PTL

\* No operation of the heap loses a byte of its pages or puts one in two blocks.
THEOREM HeapBlocksTilePages == Spec => []BlocksTilePages
<1>1. HeapInv => BlocksTilePages
  BY Zenon DEF HeapInv, BlocksTilePages, Sound, Apart, Cover, BytesOf, Blocks
<1>. QED
  BY <1>1, HeapInvariant, PTL

\* heap.c:62-65: what heap_extend appends lies above all of the heap.
THEOREM HeapGrowsUpwards == Spec => []HeapBelowFreePages
<1>1. HeapInv => HeapBelowFreePages
  BY DEF HeapInv
<1>. QED
  BY <1>1, HeapInvariant, PTL

\* heap.c:98-177: the blocks marked in use are those the callers hold, and are
\* as large as asked.
THEOREM HeapGrantsBacked == Spec => []GrantsBacked
<1>1. HeapInv => GrantsBacked
  BY DEF HeapInv
<1>. QED
  BY <1>1, HeapInvariant, PTL

--------------------------------------------------------------------------------
\* kmalloc and kfree implement MemoryPool.

\* The end of a block, and where in it its caller's bytes are.
LEMMA SpanInBlock ==
    ASSUME PmmAssumption, HeapAssumption, NEW b \in Nat, NEW size \in Nat,
           NEW asked \in Nat, asked <= size
    PROVE  /\ b + HDR \in Nat /\ b <= b + HDR /\ (b + HDR) - HDR = b
           /\ b + HDR + size \in Nat /\ b + HDR + asked <= b + HDR + size
BY HeapConstants

LEMMA SpansApart ==
    ASSUME NEW p \in Nat, NEW asked \in Nat, NEW q \in Nat, NEW other \in Nat,
           NEW end \in Nat, p + asked <= end, end <= q
    PROVE  (p .. p + asked - 1) \cap (q .. q + other - 1) = {}
OBVIOUS

\* The bytes asked bytes at p take lie in the block from b up to end.
SpanOf(h, b, p, asked, end) ==
    /\ b \in DOMAIN h /\ b \in Nat /\ p = b + HDR /\ p \in Nat /\ b <= p
    /\ end = BlockEnd(h, b) /\ end \in Nat /\ asked \in Nat /\ p + asked <= end

LEMMA GrantInBlock ==
    ASSUME PmmAssumption, HeapAssumption, NEW h, NEW head, Sound(h, head),
           NEW grants, Backed(h, grants), grants \in [DOMAIN grants -> Sizes],
           NEW p \in DOMAIN grants
    PROVE  \E b, end : SpanOf(h, b, p, grants[p], end)
<1>1. PICK b \in InUse(h) : p = b + HDR
  BY DEF Backed
<1>2. PICK asked, size, end : asked = grants[p] /\ size = h[b].size /\ end = BlockEnd(h, b)
  OBVIOUS
<1>3. b \in DOMAIN h /\ b \in Nat /\ size \in Nat
  BY <1>2, HeaderFields DEF Sound, InUse
<1>4. asked \in Nat
  BY <1>2 DEF HeapAssumption
<1>5. p - HDR = b
  BY <1>1, <1>3, HeapConstants
<1>6. h[p - HDR].size >= grants[p]
  BY Zenon DEF Backed
<1>7. size >= asked
  BY <1>2, <1>5, <1>6, Zenon
<1>8. end = b + HDR + size
  BY <1>2, Zenon DEF BlockEnd
<1>9. p \in Nat /\ b <= p /\ end \in Nat /\ p + asked <= end
  BY <1>1, <1>3, <1>4, <1>7, <1>8, SpanInBlock
<1>10. SpanOf(h, b, p, asked, end)
  BY <1>1, <1>2, <1>3, <1>4, <1>9, Zenon DEF SpanOf
<1>. QED
  BY <1>2, <1>10, Zenon

\* Memory in use lies in the heap's pages, is aligned, and does not overlap.
LEMMA GrantsApart ==
    ASSUME PmmAssumption, HeapAssumption, NEW h, NEW head, Sound(h, head),
           NEW S \in SUBSET Pages, Cover(h) = BytesOf(S), NEW b, NEW p, NEW asked, NEW end,
           SpanOf(h, b, p, asked, end)
    PROVE  /\ p \in Nat /\ p % Align = 0 /\ asked \in Nat
           /\ p .. p + asked - 1 \subseteq 0 .. MaxPages * PageSize - 1
           /\ \A c, q, other, last :
                 SpanOf(h, c, q, other, last) /\ q # p
                   => (p .. p + asked - 1) \cap (q .. q + other - 1) = {}
<1>1. /\ b \in DOMAIN h /\ b \in Nat /\ p = b + HDR /\ p \in Nat /\ b <= p
      /\ end = BlockEnd(h, b) /\ end \in Nat /\ asked \in Nat /\ p + asked <= end
  BY Zenon DEF SpanOf
<1>2. p % Align = 0
  <2>1. Multiple(b) /\ Multiple(HDR)
    BY <1>1, HeapConstants DEF Sound, Aligned
  <2>2. Multiple(p)
    BY <1>1, <2>1, MultipleSum, HeapConstants
  <2>. QED
    BY <1>1, <2>2, MultipleMod, HeapConstants DEF Multiple
<1>3. ASSUME NEW x \in p .. p + asked - 1 PROVE x \in 0 .. MaxPages * PageSize - 1
  <2>1. x \in b .. end - 1 /\ x \in Nat
    BY <1>1
  <2>2. x \in BytesOf(S)
    BY <1>1, <2>1 DEF Cover
  <2>3. PICK page \in S : x \in AddressOf(page) .. AddressOf(page + 1) - 1
    BY <2>2 DEF BytesOf
  <2>4. page \in Nat /\ page + 1 <= MaxPages
    BY HeapConstants DEF Pages
  <2>5. PICK low, high : low = page * PageSize /\ high = (page + 1) * PageSize
    OBVIOUS
  <2>6. low \in Nat /\ high \in Nat /\ high <= MaxPages * PageSize
    BY <2>4, <2>5, HeapConstants
  <2>7. x < high
    BY <2>1, <2>3, <2>5, <2>6 DEF AddressOf
  <2>. QED
    BY <2>1, <2>6, <2>7, HeapConstants
<1>4. ASSUME NEW c, NEW q, NEW other, NEW last, SpanOf(h, c, q, other, last), q # p
      PROVE  (p .. p + asked - 1) \cap (q .. q + other - 1) = {}
  <2>1. /\ c \in DOMAIN h /\ c \in Nat /\ q = c + HDR /\ q \in Nat /\ c <= q
        /\ last = BlockEnd(h, c) /\ last \in Nat /\ other \in Nat /\ q + other <= last
    BY <1>4, Zenon DEF SpanOf
  <2>2. b # c
    BY <1>1, <1>4, <2>1
  <2>3. (b < c => end <= c) /\ (c < b => last <= b)
    BY <1>1, <2>1 DEF Sound, Apart
  <2>4. CASE b < c
    <3>1. end <= c
      BY <2>3, <2>4
    <3>2. end <= q
      BY ONLY <1>1, <2>1, <3>1
    <3>. QED
      BY <1>1, <2>1, <3>2, SpansApart
  <2>5. CASE c < b
    <3>1. last <= b
      BY <2>3, <2>5
    <3>2. last <= p
      BY ONLY <1>1, <2>1, <3>1
    <3>3. (q .. q + other - 1) \cap (p .. p + asked - 1) = {}
      BY <1>1, <2>1, <3>2, SpansApart
    <3>. QED
      BY <3>3
  <2>6. b < c \/ c < b
    BY ONLY <1>1, <2>1, <2>2
  <2>. QED
    BY <2>4, <2>5, <2>6, Zenon
<1>. QED
  BY <1>1, <1>2, <1>3, <1>4

\* A grant that leaves the invariant true is one the pool allows.
LEMMA GrantIsPools ==
    ASSUME PmmAssumption, HeapAssumption, HeapInv', NEW ptr, ptr \notin DOMAIN granted,
           NEW size \in Sizes, size # 0, granted' = GrantTo(ptr, size)
    PROVE  Pool!Next
<1>1. /\ DOMAIN granted' = DOMAIN granted \cup {ptr} /\ granted'[ptr] = size
      /\ \A p \in DOMAIN granted : granted'[p] = granted[p]
  BY DEF GrantTo
<1>2. PICK h, head, S, grants :
        h = hdr' /\ head = heap_head' /\ S = held' /\ grants = granted'
  OBVIOUS
<1>3. /\ Sound(h, head) /\ Cover(h) = BytesOf(S) /\ Backed(h, grants)
      /\ S \in SUBSET Pages /\ grants \in [DOMAIN grants -> Sizes]
  <2>1. Sound(h, head)
    <3>1. /\ Headers(hdr, heap_head)' /\ Chained(hdr, heap_head)'
          /\ Apart(hdr)' /\ Aligned(hdr)'
      BY DEF HeapInv, Sound
    <3>2. Headers(hdr', heap_head') /\ Chained(hdr', heap_head')
      BY <3>1 DEF Headers, Chained, Header
    <3>3. Apart(hdr') /\ Aligned(hdr')
      BY <3>1 DEF Apart, Aligned, BlockEnd, Multiple
    <3>. QED
      BY <1>2, <3>2, <3>3, Zenon DEF Sound
  <2>2. Cover(h) = BytesOf(S)
    <3>1. Cover(hdr)' = Cover(hdr') /\ BytesOf(held)' = BytesOf(held')
      BY DEF Cover, BytesOf, BlockEnd, AddressOf
    <3>2. Cover(hdr)' = BytesOf(held)'
      BY DEF HeapInv
    <3>. QED
      BY <1>2, <3>1, <3>2
  <2>3. Backed(h, grants)
    BY <1>2 DEF HeapInv, GrantsBacked, Backed, InUse, Blocks
  <2>4. S \in SUBSET Pages /\ grants \in [DOMAIN grants -> Sizes]
    BY <1>2 DEF HeapInv, PmmInv, PmmTypeOK, Pages
  <2>. QED
    BY <2>1, <2>2, <2>3, <2>4
<1>4. ptr \in DOMAIN grants /\ size = grants[ptr]
  BY <1>1, <1>2
<1>5. PICK b, end : SpanOf(h, b, ptr, size, end)
  BY <1>3, <1>4, GrantInBlock
<1>6. /\ ptr \in Nat /\ ptr % Align = 0 /\ size \in Nat
      /\ ptr .. ptr + size - 1 \subseteq 0 .. MaxPages * PageSize - 1
      /\ \A c, q, other, last :
            SpanOf(h, c, q, other, last) /\ q # ptr
              => (ptr .. ptr + size - 1) \cap (q .. q + other - 1) = {}
  BY <1>3, <1>5, GrantsApart
<1>7. Pool!Grant(ptr, size)
  <2>1. ASSUME NEW q \in DOMAIN granted
        PROVE  (ptr .. ptr + size - 1) \cap (q .. q + granted[q] - 1) = {}
    <3>1. q \in DOMAIN grants /\ grants[q] = granted[q] /\ q # ptr
      BY <1>1, <1>2
    <3>2. PICK c, last : SpanOf(h, c, q, grants[q], last)
      BY <1>3, <3>1, GrantInBlock
    <3>. QED
      BY <1>6, <3>1, <3>2
  <2>. QED
    BY <1>6, <2>1, Zenon DEF Pool!Grant, Pool!Span, GrantTo
<1>8. ptr \in 0 .. MaxPages * PageSize - 1
  <2>1. ptr \in ptr .. ptr + size - 1
    BY <1>6
  <2>. QED
    BY <1>6, <2>1
<1>. QED
  BY <1>7, <1>8, Zenon DEF Pool!Next

\* A pointer that the callers did not hold before, granted for size bytes.
Gives(size) ==
    \E ptr \in Nat : ptr # NULL /\ ptr \notin DOMAIN granted /\ granted' = GrantTo(ptr, size)

LEMMA PointerIsNew ==
    ASSUME PmmAssumption, HeapAssumption, HeapInv, NEW b \in Nat, b \notin InUse(hdr)
    PROVE  b + HDR \notin DOMAIN granted /\ b + HDR \in Nat /\ b + HDR # NULL
<1>1. Backed(hdr, granted) /\ Headers(hdr, heap_head)
  BY BackedIsGrantsBacked DEF HeapInv, Sound
<1>2. \A a \in InUse(hdr) : a \in Nat
  BY <1>1 DEF Headers, InUse
<1>3. b + HDR \in Nat /\ b + HDR > 0
  BY HeapConstants
<1>. QED
  BY <1>1, <1>2, <1>3, HeapConstants DEF Backed, NULL

LEMMA FromListGives ==
    ASSUME PmmAssumption, HeapAssumption, HeapInv, NEW size \in Sizes, KmallocFromList(size)
    PROVE  Gives(size) /\ size # 0
<1>1. PICK n, b : n = AlignUp(size, Align) /\ b = FirstFit(n)
  OBVIOUS
<1>2. b # NULL /\ size # 0 /\ granted' = GrantTo(b + HDR, size)
  BY <1>1, Zenon DEF KmallocFromList, GrantBlock, GrantTo
<1>3. b \in Blocks /\ hdr[b].free
  BY <1>1, <1>2, FirstFitFits DEF Fits
<1>4. b \in Nat /\ b \notin InUse(hdr)
  BY <1>3 DEF HeapInv, Sound, Headers, InUse, Blocks
<1>. QED
  BY <1>2, <1>4, PointerIsNew DEF Gives

\* What heap_extend makes of the heap is too little for the request, or holds it.
LEMMA ExtendsGives ==
    ASSUME PmmAssumption, HeapAssumption, HeapInv, NEW size \in Sizes, KmallocExtends(size),
           NEW n, n = AlignUp(size, Align),
           NEW got, got = RunLength((n + HDR + PageSize - 1) \div PageSize)
    PROVE  /\ size # 0 /\ got \in Nat /\ got >= 1
           /\ IF RegionSize(got) < n THEN UNCHANGED granted ELSE Gives(size)
<1>1. PICK want, new :
        want = (n + HDR + PageSize - 1) \div PageSize /\ new = AddressOf(FirstFreePage)
  OBVIOUS
<1>2. PICK more, h, free :
        /\ more = RegionSize(got) /\ h = Appended(new, more)
        /\ free = (free_bytes + more) % Word
  OBVIOUS
<1>3. /\ size # 0 /\ heap_up /\ FreePages # {}
      /\ IF more < n THEN UNCHANGED granted ELSE GrantBlock(h, new, n, size, free)
  BY <1>1, <1>2, Zenon DEF KmallocExtends
<1>4. n \in Nat /\ want \in Nat /\ want >= 1
  BY <1>1, AlignUpSize, NeedsAPage
<1>5. FirstFreePage \in Nat /\ FirstFreePage \in FreePages /\ got \in Nat /\ got >= 1
  <2>1. got = RunLength(want)
    BY <1>1
  <2>. QED
    BY ONLY PmmAssumption, <1>3, <1>4, <2>1, RunIsFree
<1>6. new \in Nat /\ new \notin InUse(hdr)
  <2>1. new \in Nat
    BY <1>1, <1>5, HeapConstants DEF AddressOf
  <2>2. \A p \in held : p \in Nat /\ p < FirstFreePage
    <3>1. held \subseteq Nat
      BY DEF HeapInv, PmmInv, PmmTypeOK, Pages
    <3>2. HeapBelowFreePages
      BY DEF HeapInv
    <3>. QED
      BY <1>5, <3>1, <3>2 DEF HeapBelowFreePages
  <2>3. \A b \in Blocks : BlockEnd(hdr, b) <= new
    BY <1>1, <1>5, <2>2, EndsBelowFree DEF HeapInv
  <2>4. ASSUME NEW b \in Blocks PROVE b # new
    <3>1. b \in Nat /\ hdr[b].size \in Nat
      BY HeaderFields DEF HeapInv, Sound, Blocks
    <3>2. PICK k : k = hdr[b].size
      OBVIOUS
    <3>3. HDR \in Nat /\ HDR >= 1 /\ b + HDR + k <= new /\ k \in Nat
      BY <2>3, <3>1, <3>2, HeapConstants, Zenon DEF BlockEnd
    <3>. QED
      BY ONLY <2>1, <3>1, <3>3
  <2>. QED
    BY <2>1, <2>4 DEF InUse, Blocks
<1>7. GrantBlock(h, new, n, size, free) => Gives(size)
  <2>1. GrantBlock(h, new, n, size, free) => granted' = GrantTo(new + HDR, size)
    BY Zenon DEF GrantBlock, GrantTo
  <2>. QED
    BY <1>6, <2>1, PointerIsNew DEF Gives
<1>. QED
  BY <1>2, <1>3, <1>5, <1>7

LEMMA HeapStepIsPools ==
    ASSUME PmmAssumption, HeapAssumption, HeapInv, HeapInv', [Next]_vars
    PROVE  Pool!Next \/ UNCHANGED granted
<1>1. ASSUME NEW size \in Sizes, size # 0, Gives(size) PROVE Pool!Next
  BY <1>1, GrantIsPools DEF Gives
<1>2. ASSUME NEW size \in Sizes, KmallocFromList(size) PROVE Pool!Next
  BY <1>1, <1>2, FromListGives
<1>3. ASSUME NEW size \in Sizes, KmallocExtends(size)
      PROVE  Pool!Next \/ UNCHANGED granted
  BY <1>1, <1>3, ExtendsGives
<1>4. ASSUME NEW ptr \in DOMAIN granted, Kfree(ptr) PROVE Pool!Next
  <2>1. granted' = Restrict(granted, DOMAIN granted \ {ptr})
    BY <1>4, Zenon DEF Kfree
  <2>. QED
    BY <2>1, Zenon DEF Pool!Next, Pool!Release, Pool!Restrict, Restrict
<1>5. CASE UNCHANGED vars \/ Boot \/ HeapInit
  BY <1>5 DEF vars, heap_vars, caller_vars, Boot, HeapInit
<1>6. ASSUME NEW size \in Sizes, KmallocFails(size) PROVE UNCHANGED granted
  BY <1>6 DEF KmallocFails, vars, heap_vars, caller_vars
<1>. QED
  BY <1>2, <1>3, <1>4, <1>5, <1>6 DEF Next

\* heap.h: memory kmalloc returns is aligned, lies in the managed memory and
\* overlaps no other memory in use, until it is given to kfree.
THEOREM HeapImplementsPool == Spec => PoolSpec
<1>1. Init => Pool!Init
  BY DEF Init, Pool!Init
<1>2. HeapInv /\ HeapInv' /\ [Next]_vars => [Pool!Next]_granted
  BY PmmAssumption, HeapAssumption, HeapStepIsPools
<1>. QED
  BY <1>1, <1>2, HeapInvariant, PTL DEF Spec, PoolSpec, Pool!Spec

--------------------------------------------------------------------------------
\* Sums over finite sets, by induction on them: of the counters of bytes, and of
\* whatever the library's MapThenSumSet adds up.

Any(s) == CHOOSE x \in s : TRUE

LEMMA AnyIsOne == ASSUME NEW s, s # {} PROVE Any(s) \in s
BY DEF Any

\* iter is the sum of f over each subset of S, as the fold computes it.
IsSum(iter, f, S) ==
    iter = [s \in SUBSET S |-> IF s = {} THEN 0 ELSE f[Any(s)] + iter[s \ {Any(s)}]]

Total(f, S) == (CHOOSE iter : IsSum(iter, f, S))[S]

LEMMA Smaller ==
    ASSUME NEW s, IsFiniteSet(s), NEW x \in s
    PROVE  /\ IsFiniteSet(s \ {x}) /\ Cardinality(s \ {x}) \in Nat
           /\ Cardinality(s) \in Nat /\ Cardinality(s \ {x}) < Cardinality(s)
<1>1. Cardinality(s) \in Nat /\ IsFiniteSet(s \ {x})
  BY FS_CardinalityType, FS_Subset
<1>2. Cardinality(s \ {x}) = Cardinality(s) - 1 /\ Cardinality(s \ {x}) \in Nat
  BY <1>1, FS_RemoveElement, FS_CardinalityType
<1>. QED
  BY <1>1, <1>2

\* A set of finite sets that has, with each set all of whose subsets with an
\* element less are in it, that set, has all: the induction on finite sets, for
\* what holds of the sets in P.
LEMMA OnFinite ==
    ASSUME NEW S, IsFiniteSet(S), NEW P,
           \A s \in SUBSET S : (\A t \in SUBSET S : Cardinality(t) < Cardinality(s) => t \in P)
                                 => s \in P
    PROVE  S \in P
<1>. SUFFICES ASSUME S \notin P PROVE FALSE
  OBVIOUS
<1>. DEFINE bad == {s \in SUBSET S : s \notin P}
            N   == {Cardinality(s) : s \in bad}
<1>1. N \subseteq Nat /\ N # {}
  <2>1. \A s \in SUBSET S : Cardinality(s) \in Nat
    BY FS_Subset, FS_CardinalityType
  <2>. QED
    BY <2>1
<1>2. PICK m \in N : \A k \in N : m <= k
  <2>. HIDE DEF N
  <2>. QED
    BY <1>1, NatHasLeast
<1>3. PICK s \in bad : m = Cardinality(s)
  OBVIOUS
<1>4. ASSUME NEW t \in SUBSET S, Cardinality(t) < Cardinality(s) PROVE t \in P
  <2>1. Cardinality(t) \in Nat /\ m \in Nat
    BY <1>1, FS_Subset, FS_CardinalityType
  <2>2. t \in bad => m <= Cardinality(t)
    BY <1>2
  <2>3. t \notin bad
    BY <1>3, <1>4, <2>1, <2>2
  <2>. QED
    BY <2>3
<1>. QED
  BY <1>4

LEMMA SameSums ==
    ASSUME NEW f, NEW g, NEW S, NEW T, NEW i, NEW j, IsSum(i, f, S), IsSum(j, g, T),
           NEW U, U \subseteq S, U \subseteq T, IsFiniteSet(U), \A x \in U : f[x] = g[x]
    PROVE  i[U] = j[U]
<1>. DEFINE P == {s \in SUBSET U : i[s] = j[s]}
<1>1. ASSUME NEW s \in SUBSET U,
             \A t \in SUBSET U : Cardinality(t) < Cardinality(s) => t \in P
      PROVE  s \in P
  <2>1. /\ i[s] = IF s = {} THEN 0 ELSE f[Any(s)] + i[s \ {Any(s)}]
        /\ j[s] = IF s = {} THEN 0 ELSE g[Any(s)] + j[s \ {Any(s)}]
    <3>1. s \in SUBSET S /\ s \in SUBSET T
      OBVIOUS
    <3>. QED
      BY <3>1 DEF IsSum
  <2>2. CASE s = {}
    BY <2>1, <2>2
  <2>3. CASE s # {}
    <3>1. Any(s) \in s /\ IsFiniteSet(s)
      BY <2>3, AnyIsOne, FS_Subset
    <3>2. s \ {Any(s)} \in P
      BY <1>1, <3>1, Smaller
    <3>3. f[Any(s)] = g[Any(s)]
      BY <3>1
    <3>. QED
      BY <2>1, <2>3, <3>2, <3>3
  <2>. QED
    BY <2>2, <2>3
<1>2. U \in P
  <2>. HIDE DEF P
  <2>. QED
    BY <1>1, OnFinite
<1>. QED
  BY <1>2

LEMMA SumExists ==
    ASSUME NEW f, NEW S, IsFiniteSet(S) PROVE \E iter : IsSum(iter, f, S)
<1>. DEFINE P == {s \in SUBSET S : \E iter : IsSum(iter, f, s)}
<1>1. ASSUME NEW s \in SUBSET S,
             \A t \in SUBSET S : Cardinality(t) < Cardinality(s) => t \in P
      PROVE  s \in P
  <2>. DEFINE g == [t \in SUBSET s |->
                      IF t = {} THEN 0 ELSE f[Any(t)] + Total(f, t \ {Any(t)})]
  <2>1. ASSUME NEW t \in SUBSET s, t # {}
        PROVE  g[t] = f[Any(t)] + g[t \ {Any(t)}]
    <3>. DEFINE u == t \ {Any(t)}
    <3>1. Any(t) \in t /\ IsFiniteSet(t) /\ IsFiniteSet(s) /\ u \in SUBSET s
      BY <2>1, AnyIsOne, FS_Subset
    <3>2. Cardinality(u) < Cardinality(s)
      <4>1. Cardinality(u) < Cardinality(t) /\ Cardinality(u) \in Nat /\ Cardinality(t) \in Nat
        BY <3>1, Smaller
      <4>2. Cardinality(t) <= Cardinality(s) /\ Cardinality(s) \in Nat
        BY <3>1, FS_Subset, FS_CardinalityType
      <4>. QED
        BY <4>1, <4>2
    <3>3. IsSum(CHOOSE iter : IsSum(iter, f, u), f, u)
      <4>1. \E iter : IsSum(iter, f, u)
        BY <1>1, <3>2
      <4>. QED
        BY <4>1, Zenon
    <3>4. Total(f, u) = g[u]
      <4>. DEFINE j == CHOOSE iter : IsSum(iter, f, u)
      <4>1. Total(f, u) = j[u] /\ IsSum(j, f, u)
        BY <3>3 DEF Total
      <4>. HIDE DEF j
      <4>2. j[u] = IF u = {} THEN 0 ELSE f[Any(u)] + j[u \ {Any(u)}]
        BY <4>1 DEF IsSum
      <4>3. ASSUME u # {} PROVE j[u \ {Any(u)}] = Total(f, u \ {Any(u)})
        <5>. DEFINE v == u \ {Any(u)}
                    k == CHOOSE iter : IsSum(iter, f, v)
        <5>1. IsFiniteSet(v) /\ v \subseteq u /\ v \in SUBSET s
          BY <3>1, FS_Subset
        <5>2. Cardinality(v) < Cardinality(s)
          <6>1. Any(u) \in u /\ IsFiniteSet(u)
            BY <3>1, <4>3, AnyIsOne, FS_Subset
          <6>2. Cardinality(v) < Cardinality(u) /\ Cardinality(v) \in Nat /\ Cardinality(u) \in Nat
            BY <6>1, Smaller
          <6>3. Cardinality(s) \in Nat
            BY <3>1, FS_CardinalityType
          <6>. QED
            BY <3>2, <6>2, <6>3
        <5>3. \E iter : IsSum(iter, f, v)
          BY <1>1, <5>1, <5>2
        <5>4. IsSum(k, f, v) /\ Total(f, v) = k[v]
          BY <5>3, Zenon DEF Total
        <5>. HIDE DEF k
        <5>. QED
          BY <4>1, <5>1, <5>4, SameSums
      <4>. QED
        BY <3>1, <4>1, <4>2, <4>3
    <3>. QED
      BY <2>1, <3>4
  <2>2. IsSum(g, f, s)
    <3>1. \A t \in SUBSET s : g[t] = IF t = {} THEN 0 ELSE f[Any(t)] + g[t \ {Any(t)}]
      BY <2>1
    <3>2. g = [t \in SUBSET s |-> g[t]]
      OBVIOUS
    <3>. HIDE DEF g
    <3>. QED
      BY <3>1, <3>2 DEF IsSum
  <2>. QED
    BY <2>2
<1>2. S \in P
  <2>. HIDE DEF P
  <2>. QED
    BY <1>1, OnFinite
<1>. QED
  BY <1>2

LEMMA TotalEmpty == ASSUME NEW f PROVE Total(f, {}) = 0
<1>1. IsFiniteSet({})
  BY FS_EmptySet
<1>2. \E iter : IsSum(iter, f, {})
  BY <1>1, SumExists
<1>3. PICK j : j = CHOOSE iter : IsSum(iter, f, {})
  OBVIOUS
<1>4. IsSum(j, f, {}) /\ Total(f, {}) = j[{}]
  BY <1>2, <1>3, Zenon DEF Total
<1>. QED
  BY <1>4 DEF IsSum

\* The sum over a set from any function that satisfies the equation on a larger one.
LEMMA TotalIs ==
    ASSUME NEW f, NEW S, NEW iter, IsSum(iter, f, S), NEW T, T \subseteq S, IsFiniteSet(T)
    PROVE  Total(f, T) = iter[T]
<1>1. \E i : IsSum(i, f, T)
  BY SumExists
<1>2. PICK j : j = CHOOSE i : IsSum(i, f, T)
  OBVIOUS
<1>3. IsSum(j, f, T) /\ Total(f, T) = j[T]
  BY <1>1, <1>2, Zenon DEF Total
<1>4. j[T] = iter[T]
  BY <1>3, SameSums
<1>. QED
  BY <1>3, <1>4

LEMMA TotalStep ==
    ASSUME NEW f, NEW S, IsFiniteSet(S), S # {}
    PROVE  Total(f, S) = f[Any(S)] + Total(f, S \ {Any(S)})
<1>1. PICK j : IsSum(j, f, S)
  BY SumExists
<1>2. IsFiniteSet(S \ {Any(S)})
  BY FS_Subset
<1>3. Total(f, S) = j[S] /\ Total(f, S \ {Any(S)}) = j[S \ {Any(S)}]
  BY <1>1, <1>2, TotalIs
<1>4. j[S] = f[Any(S)] + j[S \ {Any(S)}]
  BY <1>1 DEF IsSum
<1>. QED
  BY <1>3, <1>4

LEMMA TotalSame ==
    ASSUME NEW f, NEW g, NEW S, IsFiniteSet(S), \A x \in S : f[x] = g[x]
    PROVE  Total(f, S) = Total(g, S)
<1>1. PICK i, j : IsSum(i, f, S) /\ IsSum(j, g, S)
  BY SumExists
<1>2. Total(f, S) = i[S] /\ Total(g, S) = j[S]
  BY <1>1, TotalIs
<1>3. i[S] = j[S]
  BY <1>1, SameSums
<1>. QED
  BY <1>2, <1>3

LEMMA TotalInt ==
    ASSUME NEW f, NEW S, IsFiniteSet(S), \A x \in S : f[x] \in Int
    PROVE  Total(f, S) \in Int
<1>. DEFINE P == {s \in SUBSET S : Total(f, s) \in Int}
<1>1. ASSUME NEW s \in SUBSET S,
             \A t \in SUBSET S : Cardinality(t) < Cardinality(s) => t \in P
      PROVE  s \in P
  <2>1. CASE s = {}
    BY <2>1, TotalEmpty
  <2>2. CASE s # {}
    <3>1. Any(s) \in s /\ IsFiniteSet(s)
      BY <2>2, AnyIsOne, FS_Subset
    <3>2. s \ {Any(s)} \in P
      BY <1>1, <3>1, Smaller
    <3>3. Total(f, s) = f[Any(s)] + Total(f, s \ {Any(s)})
      BY <2>2, <3>1, TotalStep
    <3>. QED
      BY <3>1, <3>2, <3>3
  <2>. QED
    BY <2>1, <2>2
<1>2. S \in P
  <2>. HIDE DEF P
  <2>. QED
    BY <1>1, OnFinite
<1>. QED
  BY <1>2

LEMMA TotalNat ==
    ASSUME NEW f, NEW S, IsFiniteSet(S), \A x \in S : f[x] \in Nat
    PROVE  Total(f, S) \in Nat
<1>. DEFINE P == {s \in SUBSET S : Total(f, s) \in Nat}
<1>1. ASSUME NEW s \in SUBSET S,
             \A t \in SUBSET S : Cardinality(t) < Cardinality(s) => t \in P
      PROVE  s \in P
  <2>1. CASE s = {}
    BY <2>1, TotalEmpty
  <2>2. CASE s # {}
    <3>1. Any(s) \in s /\ IsFiniteSet(s)
      BY <2>2, AnyIsOne, FS_Subset
    <3>2. s \ {Any(s)} \in P
      BY <1>1, <3>1, Smaller
    <3>3. Total(f, s) = f[Any(s)] + Total(f, s \ {Any(s)})
      BY <2>2, <3>1, TotalStep
    <3>. QED
      BY <3>1, <3>2, <3>3
  <2>. QED
    BY <2>1, <2>2
<1>2. S \in P
  <2>. HIDE DEF P
  <2>. QED
    BY <1>1, OnFinite
<1>. QED
  BY <1>2

\* The sum does not depend on the element that is taken first.
LEMMA TotalAny ==
    ASSUME NEW f, NEW S, IsFiniteSet(S), \A x \in S : f[x] \in Int, NEW y \in S
    PROVE  Total(f, S) = f[y] + Total(f, S \ {y})
<1>. DEFINE P == {s \in SUBSET S : \A x \in s : Total(f, s) = f[x] + Total(f, s \ {x})}
<1>1. ASSUME NEW s \in SUBSET S,
             \A t \in SUBSET S : Cardinality(t) < Cardinality(s) => t \in P
      PROVE  s \in P
  <2>. SUFFICES ASSUME NEW x \in s PROVE Total(f, s) = f[x] + Total(f, s \ {x})
    OBVIOUS
  <2>1. PICK a : a = Any(s)
    OBVIOUS
  <2>2. a \in s /\ IsFiniteSet(s) /\ Total(f, s) = f[a] + Total(f, s \ {a})
    BY <2>1, AnyIsOne, FS_Subset, TotalStep
  <2>3. CASE x = a
    BY ONLY <2>2, <2>3, Zenon
  <2>4. CASE x # a
    <3>1. s \ {a} \in P /\ s \ {x} \in P
      BY <1>1, <2>2, Smaller
    <3>2. Total(f, s \ {a}) = f[x] + Total(f, (s \ {a}) \ {x})
      BY <2>4, <3>1
    <3>3. Total(f, s \ {x}) = f[a] + Total(f, (s \ {x}) \ {a})
      BY <2>2, <2>4, <3>1
    <3>4. (s \ {a}) \ {x} = (s \ {x}) \ {a}
      OBVIOUS
    <3>5. f[a] \in Int /\ f[x] \in Int /\ Total(f, (s \ {x}) \ {a}) \in Int
      <4>1. IsFiniteSet((s \ {x}) \ {a})
        BY <2>2, FS_Subset
      <4>. QED
        BY <2>2, <4>1, TotalInt
    <3>6. PICK rest : rest = Total(f, (s \ {x}) \ {a})
      OBVIOUS
    <3>7. /\ Total(f, s \ {a}) = f[x] + rest /\ Total(f, s \ {x}) = f[a] + rest
          /\ rest \in Int
      BY ONLY <3>2, <3>3, <3>4, <3>5, <3>6, Zenon
    <3>8. Total(f, s) = f[a] + (f[x] + rest)
      BY ONLY <2>2, <3>7, Zenon
    <3>9. f[a] + (f[x] + rest) = f[x] + (f[a] + rest)
      BY ONLY <3>5, <3>7
    <3>. QED
      BY ONLY <3>7, <3>8, <3>9, Zenon
  <2>. QED
    BY <2>3, <2>4
<1>2. S \in P
  <2>. HIDE DEF P
  <2>. QED
    BY <1>1, OnFinite
<1>. QED
  BY <1>2

LEMMA TotalAdd ==
    ASSUME NEW f, NEW S, IsFiniteSet(S), NEW y, y \notin S, \A x \in S \cup {y} : f[x] \in Int
    PROVE  Total(f, S \cup {y}) = f[y] + Total(f, S)
<1>1. (S \cup {y}) \ {y} = S /\ IsFiniteSet(S \cup {y})
  BY FS_AddElement
<1>. QED
  BY <1>1, TotalAny

LEMMA ChangeOne ==
    ASSUME NEW D, IsFiniteSet(D), NEW b \in D, NEW w, NEW new,
           \A x \in D : w[x] \in Int /\ new[x] \in Int, \A x \in D \ {b} : new[x] = w[x]
    PROVE  Total(new, D) = Total(w, D) + (new[b] - w[b])
<1>1. IsFiniteSet(D \ {b})
  BY FS_Subset
<1>2. PICK rest : rest = Total(w, D \ {b})
  OBVIOUS
<1>3. rest \in Int /\ Total(new, D \ {b}) = rest
  BY <1>1, <1>2, TotalInt, TotalSame
<1>4. Total(w, D) = w[b] + rest /\ Total(new, D) = new[b] + rest
  BY <1>2, <1>3, TotalAny
<1>5. w[b] \in Int /\ new[b] \in Int
  OBVIOUS
<1>. QED
  BY <1>3, <1>4, <1>5

\* One number for two that make it up: the sum stays.
MakesUp(D, b, r, w, new) ==
    /\ IsFiniteSet(D) /\ b \in D /\ r \notin D
    /\ \A x \in D : w[x] \in Int
    /\ \A x \in D \cup {r} : new[x] \in Int
    /\ \A x \in D \ {b} : new[x] = w[x]
    /\ new[b] + new[r] = w[b]
LEMMA TwoForOne ==
    ASSUME NEW D, NEW b, NEW r, NEW w, NEW new, MakesUp(D, b, r, w, new)
    PROVE  Total(new, D \cup {r}) = Total(w, D)
<1>1. Total(new, D) = Total(w, D) + (new[b] - w[b])
  BY ChangeOne DEF MakesUp
<1>2. Total(new, D \cup {r}) = new[r] + Total(new, D)
  BY TotalAdd DEF MakesUp
<1>3. Total(w, D) \in Int /\ w[b] \in Int /\ new[b] \in Int /\ new[r] \in Int
  BY TotalInt DEF MakesUp
<1>. QED
  BY <1>1, <1>2, <1>3 DEF MakesUp

LEMMA AddMod ==
    ASSUME NEW w \in Nat, w >= 1, NEW x \in Int, NEW y \in Int
    PROVE  ((x % w) + y) % w = (x + y) % w
<1>1. PICK q \in Int, r \in Int : q = x \div w /\ r = x % w
  OBVIOUS
<1>2. x = q * w + r /\ r \in 0 .. w - 1
  BY <1>1
<1>3. PICK p \in Int, s \in Int : p = (r + y) \div w /\ s = (r + y) % w
  OBVIOUS
<1>4. r + y = p * w + s /\ s \in 0 .. w - 1
  BY <1>3
<1>5. PICK k \in Int : k = q + p
  OBVIOUS
<1>6. x + y = k * w + s
  <2>1. (q + p) * w = q * w + p * w
    OBVIOUS
  <2>. QED
    BY <1>2, <1>4, <1>5, <2>1
<1>7. (x + y) % w = s
  <2>1. PICK j \in Int, t \in Int : j = (x + y) \div w /\ t = (x + y) % w
    OBVIOUS
  <2>2. x + y = j * w + t /\ t \in 0 .. w - 1
    BY <2>1
  <2>3. PICK d \in Int : d = j - k
    OBVIOUS
  <2>4. d * w = s - t
    <3>1. (j - k) * w = j * w - k * w
      OBVIOUS
    <3>. QED
      BY <1>4, <1>6, <2>2, <2>3, <3>1
  <2>5. ~(d >= 1)
    <3>1. d >= 1 => d * w >= 1 * w
      OBVIOUS
    <3>. QED
      BY <1>4, <2>2, <2>4, <3>1
  <2>6. ~(d <= -1)
    <3>1. d <= -1 => d * w <= (-1) * w
      OBVIOUS
    <3>. QED
      BY <1>4, <2>2, <2>4, <3>1
  <2>7. d = 0
    BY <2>5, <2>6
  <2>. QED
    BY <1>4, <2>1, <2>2, <2>4, <2>7
<1>. QED
  BY <1>1, <1>3, <1>7

--------------------------------------------------------------------------------
\* The two counters of bytes.

LEMMA SizeOfIsTotal ==
    ASSUME NEW S, IsFiniteSet(S), NEW f, \A b \in S : f[b] = hdr[b].size
    PROVE  SizeOf(S) = Total(f, S)
<1>. DEFINE E(i) == i = [s \in SUBSET S |->
                    IF s = {} THEN 0 ELSE hdr[CHOOSE x \in s : TRUE].size
                                           + i[s \ {CHOOSE x \in s : TRUE}]]
<1>1. PICK iter : iter = CHOOSE i : E(i)
  OBVIOUS
<1>2. SizeOf(S) = iter[S]
  BY <1>1 DEF SizeOf, MapThenSumSet, MapThenFoldSet
<1>3. \A i : IsSum(i, f, S) <=> E(i)
  <2>. SUFFICES ASSUME NEW i PROVE IsSum(i, f, S) <=> E(i)
    OBVIOUS
  <2>1. \A s \in SUBSET S : s # {} => f[Any(s)] = hdr[CHOOSE x \in s : TRUE].size
    BY AnyIsOne DEF Any
  <2>2. [s \in SUBSET S |-> IF s = {} THEN 0 ELSE f[Any(s)] + i[s \ {Any(s)}]]
          = [s \in SUBSET S |-> IF s = {} THEN 0 ELSE hdr[CHOOSE x \in s : TRUE].size
                                           + i[s \ {CHOOSE x \in s : TRUE}]]
    BY <2>1 DEF Any
  <2>. QED
    BY <2>2 DEF IsSum
<1>. HIDE DEF E
<1>4. E(iter)
  <2>1. \E i : E(i)
    BY <1>3, SumExists
  <2>. QED
    BY <1>1, <2>1, Zenon
<1>. QED
  BY <1>2, <1>3, <1>4, TotalIs

\* The bytes of the blocks in use, and what the heap's blocks take of its pages
\* apart from those.
SizesOf(h) == [b \in DOMAIN h |-> h[b].size]
Used(h) == Total(SizesOf(h), InUse(h))
Weights(h) == [b \in DOMAIN h |-> HDR + (IF h[b].free THEN h[b].size ELSE 0)]
Rest(h) == Total(Weights(h), DOMAIN h)

LEMMA WeightsInt ==
    ASSUME PmmAssumption, HeapAssumption, NEW h, NEW head, Sound(h, head)
    PROVE  /\ \A b \in DOMAIN h : /\ h[b].size \in Nat /\ Weights(h)[b] \in Nat
                                  /\ SizesOf(h)[b] \in Nat
           /\ DOMAIN h \subseteq Nat /\ InUse(h) \subseteq DOMAIN h
<1>1. \A b \in DOMAIN h : b \in Nat /\ h[b].size \in Nat
  BY HeaderFields DEF Sound
<1>. QED
  BY <1>1, HeapConstants DEF Weights, SizesOf, InUse

\* The blocks of a list that covers finitely many bytes are finitely many.
LEMMA FiniteBlocks ==
    ASSUME PmmAssumption, HeapAssumption, NEW h, NEW head, Sound(h, head),
           NEW m \in Nat, \A b \in DOMAIN h : BlockEnd(h, b) <= m
    PROVE  IsFiniteSet(DOMAIN h) /\ IsFiniteSet(InUse(h))
<1>1. \A b \in DOMAIN h : b \in 0 .. m
  <2>1. \A b \in DOMAIN h : b \in Nat /\ h[b].size \in Nat
    BY WeightsInt
  <2>2. HDR \in Nat
    BY HeapConstants
  <2>3. ASSUME NEW b \in DOMAIN h PROVE b \in 0 .. m
    <3>1. PICK size : size = h[b].size
      OBVIOUS
    <3>2. b + HDR + size <= m /\ b \in Nat /\ size \in Nat
      BY <2>1, <3>1, Zenon DEF BlockEnd
    <3>. QED
      BY ONLY <2>2, <3>2, m \in Nat
  <2>. QED
    BY <2>3
<1>2. IsFiniteSet(0 .. m)
  BY FS_Interval
<1>3. DOMAIN h \subseteq 0 .. m /\ InUse(h) \subseteq 0 .. m
  BY <1>1 DEF InUse
<1>. QED
  BY <1>2, <1>3, FS_Subset

\* A nonempty set of natural numbers with a bound has a greatest element.
LEMMA GreatestExists ==
    ASSUME NEW m \in Nat, NEW S, S \subseteq 0 .. m, S # {}
    PROVE  \E k \in S : \A x \in S : x <= k
<1>. DEFINE T == {m - x : x \in S}
<1>1. T \subseteq Nat /\ T # {}
  <2>1. \A x \in 0 .. m : m - x \in Nat
    OBVIOUS
  <2>2. PICK x \in S : TRUE
    OBVIOUS
  <2>3. m - x \in T
    OBVIOUS
  <2>. QED
    BY <2>1, <2>3
<1>2. PICK t \in T : \A u \in T : t <= u
  <2>. HIDE DEF T
  <2>. QED
    BY <1>1, NatHasLeast
<1>3. PICK k \in S : t = m - k
  OBVIOUS
<1>4. ASSUME NEW x \in S PROVE x <= k
  <2>1. m - k <= m - x
    BY <1>2, <1>3
  <2>2. x \in Int /\ k \in Int
    <3>1. x \in 0 .. m /\ k \in 0 .. m
      OBVIOUS
    <3>. QED
      BY ONLY <3>1
  <2>. QED
    BY <2>1, <2>2
<1>. QED
  BY <1>4

\* Blocks that end by m have no more than m bytes, and their headers take some
\* of these.
Fit(h, S, m) ==
    Total(SizesOf(h), S) <= m /\ (S # {} => Total(SizesOf(h), S) + HDR <= m)

LEMMA UsedFits ==
    ASSUME PmmAssumption, HeapAssumption, NEW h, NEW head, Sound(h, head),
           NEW S, S \subseteq DOMAIN h, IsFiniteSet(S),
           NEW m \in Nat, \A b \in S : BlockEnd(h, b) <= m
    PROVE  Fit(h, S, m)
<1>. DEFINE P == {s \in SUBSET S : \A k \in Nat :
                     (\A b \in s : BlockEnd(h, b) <= k) => Fit(h, s, k)}
<1>0. /\ \A b \in DOMAIN h : b \in Nat /\ h[b].size \in Nat /\ SizesOf(h)[b] = h[b].size
      /\ HDR \in Nat /\ HDR >= 1
  BY WeightsInt, HeapConstants DEF SizesOf
<1>1. ASSUME NEW s \in SUBSET S,
             \A t \in SUBSET S : Cardinality(t) < Cardinality(s) => t \in P
      PROVE  s \in P
  <2>. SUFFICES ASSUME NEW k \in Nat, \A b \in s : BlockEnd(h, b) <= k PROVE Fit(h, s, k)
    OBVIOUS
  <2>1. CASE s = {}
    BY <2>1, TotalEmpty DEF Fit
  <2>2. CASE s # {}
    <3>1. s \subseteq 0 .. k
      <4>1. ASSUME NEW b \in s PROVE b \in 0 .. k
        <5>1. PICK size : size = h[b].size
          OBVIOUS
        <5>2. b + HDR + size <= k /\ b \in Nat /\ size \in Nat
          BY <1>0, <5>1, Zenon DEF BlockEnd
        <5>. QED
          BY ONLY <1>0, <5>2, k \in Nat
      <4>. QED
        BY <4>1
    <3>2. PICK b \in s : \A x \in s : x <= b
      BY <2>2, <3>1, GreatestExists
    <3>3. IsFiniteSet(s) /\ s \ {b} \in P /\ b \in Nat /\ IsFiniteSet(s \ {b})
      BY <1>0, <1>1, FS_Subset, Smaller
    <3>4. ASSUME NEW x \in s \ {b} PROVE BlockEnd(h, x) <= b
      <4>1. x \in DOMAIN h /\ b \in DOMAIN h /\ x <= b /\ x # b
        BY <3>2
      <4>2. x < b
        BY <1>0, <4>1
      <4>. QED
        BY <4>1, <4>2 DEF Sound, Apart
    <3>5. Total(SizesOf(h), s \ {b}) <= b
      BY <3>3, <3>4 DEF Fit
    <3>6. PICK rest, size : rest = Total(SizesOf(h), s \ {b}) /\ size = h[b].size
      OBVIOUS
    <3>7. Total(SizesOf(h), s) = size + rest /\ rest \in Int
      <4>1. PICK f : f = SizesOf(h)
        OBVIOUS
      <4>2. \A x \in s : f[x] \in Int
        BY <1>0, <4>1
      <4>3. f[b] = size
        BY <1>0, <3>6, <4>1
      <4>4. \A x \in s \ {b} : f[x] \in Int
        BY <4>2
      <4>5. Total(f, s) = f[b] + Total(f, s \ {b})
        BY <3>3, <4>2, TotalAny, Zenon
      <4>6. Total(f, s \ {b}) \in Int
        BY <3>3, <4>4, TotalInt, Zenon
      <4>. QED
        BY ONLY <3>6, <4>1, <4>3, <4>5, <4>6, Zenon
    <3>9. b + HDR + size <= k /\ rest <= b /\ size \in Nat
      BY <1>0, <3>5, <3>6 DEF BlockEnd
    <3>10. size + rest <= k /\ size + rest + HDR <= k
      BY ONLY <1>0, <3>3, <3>7, <3>9, k \in Nat
    <3>. QED
      BY ONLY <3>7, <3>10, Zenon DEF Fit
  <2>. QED
    BY <2>1, <2>2
<1>2. S \in P
  <2>. HIDE DEF P
  <2>. QED
    BY <1>1, OnFinite
<1>. QED
  BY <1>2

\* A list whose bytes lie below m.
LEMMA EndsIn ==
    ASSUME PmmAssumption, HeapAssumption, NEW h, NEW head, Sound(h, head),
           NEW m \in Nat, Cover(h) \subseteq 0 .. m - 1
    PROVE  /\ \A b \in DOMAIN h : BlockEnd(h, b) <= m
           /\ IsFiniteSet(DOMAIN h) /\ IsFiniteSet(InUse(h))
<1>1. ASSUME NEW b \in DOMAIN h PROVE BlockEnd(h, b) <= m
  <2>1. b \in Nat /\ h[b].size \in Nat
    BY WeightsInt
  <2>2. BlockEnd(h, b) \in Nat /\ b < BlockEnd(h, b)
    BY <2>1, HeapConstants DEF BlockEnd
  <2>3. BlockEnd(h, b) - 1 \in b .. BlockEnd(h, b) - 1
    BY <2>1, <2>2
  <2>4. BlockEnd(h, b) - 1 \in Cover(h)
    BY <2>3 DEF Cover
  <2>. QED
    BY <2>2, <2>4
<1>. QED
  BY <1>1, FiniteBlocks

LEMMA RestSplit ==
    ASSUME PmmAssumption, HeapAssumption, NEW h, NEW head, Sound(h, head),
           IsFiniteSet(DOMAIN h), NEW b \in DOMAIN h, h[b].free, NEW n \in Nat,
           NEW new, new = Split(h, b, n)
    PROVE  Rest(new) = Rest(h)
<1>1. CASE ~(h[b].size >= n + HDR + MinSplit)
  BY <1>1 DEF Split
<1>2. CASE h[b].size >= n + HDR + MinSplit
  <2>1. PICK r : r = Remainder(b, n)
    OBVIOUS
  <2>2. CutInTwo(h, b, n, r, new)
    BY <1>2, <2>1, SplitFields
  <2>3. /\ r \notin DOMAIN h /\ DOMAIN new = DOMAIN h \cup {r}
        /\ \A a \in DOMAIN new :
              /\ new[a].size = IF a = b THEN n
                               ELSE IF a = r THEN h[b].size - n - HDR ELSE h[a].size
              /\ new[a].free = IF a = r THEN TRUE ELSE h[a].free
    BY <2>2, Zenon DEF CutInTwo
  <2>4. /\ \A a \in DOMAIN h : Weights(h)[a] \in Nat /\ h[a].size \in Nat
        /\ HDR \in Nat /\ MinSplit \in Nat
    BY WeightsInt, HeapConstants
  <2>5. /\ Weights(new)[b] = HDR + n /\ Weights(new)[r] = HDR + (h[b].size - n - HDR)
        /\ \A a \in DOMAIN h \ {b} : Weights(new)[a] = Weights(h)[a]
        /\ Weights(h)[b] = HDR + h[b].size
    BY <2>3 DEF Weights
  <2>6. Weights(new)[b] + Weights(new)[r] = Weights(h)[b] /\ Weights(new)[r] \in Int
          /\ Weights(new)[b] \in Int
    <3>1. PICK s : s = h[b].size
      OBVIOUS
    <3>2. s \in Nat
      BY <2>4, <3>1
    <3>3. (HDR + n) + (HDR + (s - n - HDR)) = HDR + s /\ HDR + (s - n - HDR) \in Int
            /\ HDR + n \in Int
      BY ONLY <2>4, <3>2, n \in Nat
    <3>. QED
      BY ONLY <2>5, <3>1, <3>3, Zenon
  <2>7. \A a \in DOMAIN h \cup {r} : Weights(new)[a] \in Int
    BY <2>4, <2>5, <2>6
  <2>8. \A a \in DOMAIN h : Weights(h)[a] \in Int
    BY <2>4
  <2>9. Total(Weights(new), DOMAIN h \cup {r}) = Total(Weights(h), DOMAIN h)
    <3>1. PICK w, v, D : w = Weights(h) /\ v = Weights(new) /\ D = DOMAIN h
      OBVIOUS
    <3>2. \A a \in D : w[a] \in Int
      BY ONLY <2>8, <3>1, Zenon
    <3>3. \A a \in D \cup {r} : v[a] \in Int
      BY ONLY <2>7, <3>1, Zenon
    <3>4. \A a \in D \ {b} : v[a] = w[a]
      BY ONLY <2>5, <3>1, Zenon
    <3>5. v[b] + v[r] = w[b] /\ r \notin D
      BY ONLY <2>3, <2>6, <3>1, Zenon
    <3>6. IsFiniteSet(D) /\ b \in D
      BY <3>1, Zenon
    <3>7. MakesUp(D, b, r, w, v)
      BY ONLY <3>2, <3>3, <3>4, <3>5, <3>6, Zenon DEF MakesUp
    <3>8. Total(v, D \cup {r}) = Total(w, D)
      BY ONLY <3>7, TwoForOne
    <3>. QED
      BY ONLY <3>1, <3>8, Zenon
  <2>. QED
    BY <2>3, <2>9 DEF Rest
<1>. QED
  BY <1>1, <1>2

LEMMA RestMerge ==
    ASSUME PmmAssumption, HeapAssumption, NEW h, NEW head, Sound(h, head),
           IsFiniteSet(DOMAIN h),
           NEW lower, NEW higher, Mergeable(h, lower, higher) => h[lower].next = higher,
           NEW new, new = TryMerge(h, lower, higher)
    PROVE  Rest(new) = Rest(h)
<1>1. CASE ~Mergeable(h, lower, higher)
  BY <1>1 DEF TryMerge
<1>2. CASE Mergeable(h, lower, higher)
  <2>1. JoinedInto(h, lower, higher, new)
    BY <1>2, MergeFields
  <2>2. /\ DOMAIN new = DOMAIN h \ {higher}
        /\ \A a \in DOMAIN new :
              /\ new[a].size = IF a = lower THEN h[lower].size + HDR + h[higher].size
                                            ELSE h[a].size
              /\ new[a].free = h[a].free
    BY <2>1, Zenon DEF JoinedInto
  <2>3. /\ \A a \in DOMAIN h : Weights(h)[a] \in Nat /\ h[a].size \in Nat /\ a \in Nat
        /\ HDR \in Nat /\ HDR >= 1
    BY WeightsInt, HeapConstants
  <2>4. /\ lower \in DOMAIN h /\ higher \in DOMAIN h /\ h[lower].free /\ h[higher].free
        /\ lower # higher
    <3>1. BlockEnd(h, lower) = higher /\ lower \in DOMAIN h /\ higher \in DOMAIN h
      BY <1>2 DEF Mergeable
    <3>2. BlockEnd(h, lower) # lower
      <4>1. PICK s : s = h[lower].size
        OBVIOUS
      <4>2. s \in Nat /\ lower \in Nat
        BY <2>3, <3>1, <4>1
      <4>3. lower + HDR + s # lower
        BY ONLY <2>3, <4>2
      <4>. QED
        BY <4>1, <4>3 DEF BlockEnd
    <3>. QED
      BY <1>2, <3>1, <3>2 DEF Mergeable
  <2>5. /\ Weights(h)[lower] = HDR + h[lower].size
        /\ Weights(h)[higher] = HDR + h[higher].size
        /\ Weights(new)[lower] = HDR + (h[lower].size + HDR + h[higher].size)
        /\ \A a \in DOMAIN new \ {lower} : Weights(h)[a] = Weights(new)[a]
    BY <2>2, <2>4 DEF Weights
  <2>6. Weights(h)[lower] + Weights(h)[higher] = Weights(new)[lower]
          /\ Weights(new)[lower] \in Int
    <3>1. PICK s, t : s = h[lower].size /\ t = h[higher].size
      OBVIOUS
    <3>2. s \in Nat /\ t \in Nat
      BY <2>3, <2>4, <3>1
    <3>3. (HDR + s) + (HDR + t) = HDR + (s + HDR + t) /\ HDR + (s + HDR + t) \in Int
      BY ONLY <2>3, <3>2
    <3>. QED
      BY ONLY <2>5, <3>1, <3>3, Zenon
  <2>7. DOMAIN h = DOMAIN new \cup {higher} /\ higher \notin DOMAIN new
          /\ lower \in DOMAIN new /\ IsFiniteSet(DOMAIN new)
    BY <2>2, <2>4, FS_Subset
  <2>8. /\ \A a \in DOMAIN new : Weights(new)[a] \in Int
        /\ \A a \in DOMAIN new \cup {higher} : Weights(h)[a] \in Int
    <3>1. \A a \in DOMAIN h : Weights(h)[a] \in Int
      BY <2>3
    <3>. QED
      BY ONLY <2>5, <2>6, <2>7, <3>1
  <2>9. Total(Weights(h), DOMAIN new \cup {higher}) = Total(Weights(new), DOMAIN new)
    <3>1. PICK w, v, D : w = Weights(h) /\ v = Weights(new) /\ D = DOMAIN new
      OBVIOUS
    <3>2. \A a \in D : v[a] \in Int
      BY ONLY <2>8, <3>1, Zenon
    <3>3. \A a \in D \cup {higher} : w[a] \in Int
      BY ONLY <2>8, <3>1, Zenon
    <3>4. \A a \in D \ {lower} : w[a] = v[a]
      BY ONLY <2>5, <3>1, Zenon
    <3>5. w[lower] + w[higher] = v[lower] /\ higher \notin D
      BY ONLY <2>6, <2>7, <3>1, Zenon
    <3>6. IsFiniteSet(D) /\ lower \in D
      BY ONLY <2>7, <3>1, Zenon
    <3>7. MakesUp(D, lower, higher, v, w)
      BY ONLY <3>2, <3>3, <3>4, <3>5, <3>6, Zenon DEF MakesUp
    <3>8. Total(w, D \cup {higher}) = Total(v, D)
      BY ONLY <3>7, TwoForOne
    <3>. QED
      BY ONLY <3>1, <3>8, Zenon
  <2>. QED
    BY <2>7, <2>9 DEF Rest
<1>. QED
  BY <1>1, <1>2

\* A block that changes hands: what one sum loses the other gains.
LEMMA RestTaken ==
    ASSUME PmmAssumption, HeapAssumption, NEW h, NEW head, Sound(h, head),
           IsFiniteSet(DOMAIN h), NEW b \in DOMAIN h, h[b].free, NEW new, new = Taken(h, b)
    PROVE  /\ Rest(new) = Rest(h) - h[b].size /\ Used(new) = Used(h) + h[b].size
           /\ Rest(h) \in Int /\ Used(h) \in Int
<1>1. /\ DOMAIN new = DOMAIN h /\ InUse(new) = InUse(h) \cup {b}
      /\ \A a \in DOMAIN h : new[a].size = h[a].size
  BY MarkInUse
<1>2. \A a \in DOMAIN h : /\ h[a].size \in Nat /\ Weights(h)[a] \in Nat
                           /\ SizesOf(h)[a] = h[a].size /\ HDR \in Nat
  BY WeightsInt, HeapConstants DEF SizesOf
<1>3. b \notin InUse(h) /\ InUse(h) \subseteq DOMAIN h /\ IsFiniteSet(InUse(h))
  BY FS_Subset DEF InUse
<1>4. /\ Weights(new)[b] = HDR + 0 /\ Weights(h)[b] = HDR + h[b].size
      /\ \A a \in DOMAIN h \ {b} : Weights(new)[a] = Weights(h)[a]
  <2>1. \A a \in DOMAIN h : ~new[a].free <=> ~h[a].free \/ a = b
    BY <1>1 DEF InUse
  <2>. QED
    BY <1>1, <2>1 DEF Weights
<1>5. Total(Weights(new), DOMAIN h) = Total(Weights(h), DOMAIN h) + (Weights(new)[b] - Weights(h)[b])
  <2>1. \A a \in DOMAIN h : Weights(h)[a] \in Int /\ Weights(new)[a] \in Int
    BY <1>2, <1>4
  <2>. QED
    BY <1>4, <2>1, ChangeOne
<1>6. Total(SizesOf(new), InUse(h) \cup {b}) = SizesOf(new)[b] + Total(SizesOf(new), InUse(h))
  <2>1. \A a \in InUse(h) \cup {b} : SizesOf(new)[a] \in Int
    BY <1>1, <1>2, <1>3 DEF SizesOf
  <2>. QED
    BY <1>3, <2>1, TotalAdd
<1>7. Total(SizesOf(new), InUse(h)) = Total(SizesOf(h), InUse(h)) /\ SizesOf(new)[b] = h[b].size
  <2>1. \A a \in DOMAIN h : SizesOf(new)[a] = SizesOf(h)[a]
    BY <1>1 DEF SizesOf
  <2>2. \A a \in InUse(h) : SizesOf(new)[a] = SizesOf(h)[a]
    BY <1>3, <2>1
  <2>. QED
    BY <1>2, <1>3, <2>1, <2>2, TotalSame
<1>8. Rest(h) \in Int /\ Used(h) \in Int
  <2>1. (\A a \in DOMAIN h : Weights(h)[a] \in Int) /\ (\A a \in InUse(h) : SizesOf(h)[a] \in Int)
    BY <1>2, <1>3
  <2>. QED
    BY <1>3, <2>1, TotalInt DEF Rest, Used
<1>9. PICK rest, used, size : rest = Rest(h) /\ used = Used(h) /\ size = h[b].size
  OBVIOUS
<1>10. rest \in Int /\ used \in Int /\ size \in Nat /\ HDR \in Nat
  BY <1>2, <1>8, <1>9
<1>11. Rest(new) = rest + ((HDR + 0) - (HDR + size))
  BY <1>1, <1>4, <1>5, <1>9, Zenon DEF Rest
<1>12. Used(new) = size + used
  BY <1>1, <1>6, <1>7, <1>9, Zenon DEF Used
<1>13. rest + ((HDR + 0) - (HDR + size)) = rest - size /\ size + used = used + size
  BY ONLY <1>10
<1>. QED
  BY ONLY <1>8, <1>9, <1>11, <1>12, <1>13, Zenon

\* kfree's list before the merges.
LEMMA RestReleased ==
    ASSUME PmmAssumption, HeapAssumption, NEW h, NEW head, Sound(h, head),
           IsFiniteSet(DOMAIN h), NEW b \in DOMAIN h, ~h[b].free,
           NEW new, new = Released(h, b)
    PROVE  /\ Rest(new) = Rest(h) + h[b].size /\ Used(new) = Used(h) - h[b].size
           /\ Rest(h) \in Int /\ Used(h) \in Int
<1>1. /\ Sound(new, head) /\ DOMAIN new = DOMAIN h
      /\ InUse(new) = InUse(h) \ {b}
      /\ \A a \in DOMAIN h : new[a].size = h[a].size
  BY MarkFree
<1>2. \A a \in DOMAIN h : /\ h[a].size \in Nat /\ Weights(h)[a] \in Nat
                           /\ SizesOf(h)[a] = h[a].size /\ HDR \in Nat
  BY WeightsInt, HeapConstants DEF SizesOf
<1>3. b \in InUse(h) /\ InUse(h) \subseteq DOMAIN h /\ IsFiniteSet(InUse(h))
  BY FS_Subset DEF InUse
<1>4. /\ Weights(h)[b] = HDR + 0 /\ Weights(new)[b] = HDR + h[b].size
      /\ \A a \in DOMAIN h \ {b} : Weights(new)[a] = Weights(h)[a]
  <2>1. \A a \in DOMAIN h : ~new[a].free <=> ~h[a].free /\ a # b
    BY <1>1 DEF InUse
  <2>. QED
    BY <1>1, <2>1 DEF Weights
<1>5. Total(Weights(new), DOMAIN h) = Total(Weights(h), DOMAIN h) + (Weights(new)[b] - Weights(h)[b])
  <2>1. \A a \in DOMAIN h : Weights(h)[a] \in Int /\ Weights(new)[a] \in Int
    BY <1>2, <1>4
  <2>. QED
    BY <1>4, <2>1, ChangeOne
<1>6. Total(SizesOf(h), InUse(h)) = SizesOf(h)[b] + Total(SizesOf(h), InUse(h) \ {b})
  <2>1. \A a \in InUse(h) : SizesOf(h)[a] \in Int
    BY <1>2, <1>3
  <2>. QED
    BY <1>3, <2>1, TotalAny
<1>7. Total(SizesOf(new), InUse(h) \ {b}) = Total(SizesOf(h), InUse(h) \ {b})
  <2>1. \A a \in DOMAIN h : SizesOf(new)[a] = SizesOf(h)[a]
    BY <1>1 DEF SizesOf
  <2>2. \A a \in InUse(h) \ {b} : SizesOf(new)[a] = SizesOf(h)[a]
    BY <1>3, <2>1
  <2>3. IsFiniteSet(InUse(h) \ {b})
    BY <1>3, FS_Subset
  <2>. QED
    BY <2>2, <2>3, TotalSame
<1>8. Rest(h) \in Int /\ Total(SizesOf(h), InUse(h) \ {b}) \in Int
  <2>1. (\A a \in DOMAIN h : Weights(h)[a] \in Int) /\ (\A a \in InUse(h) \ {b} : SizesOf(h)[a] \in Int)
    BY <1>2, <1>3
  <2>2. IsFiniteSet(InUse(h) \ {b})
    BY <1>3, FS_Subset
  <2>. QED
    BY <2>1, <2>2, TotalInt DEF Rest
<1>9. PICK rest, used, size : /\ rest = Rest(h) /\ used = Total(SizesOf(h), InUse(h) \ {b})
                              /\ size = h[b].size
  OBVIOUS
<1>10. rest \in Int /\ used \in Int /\ size \in Nat /\ HDR \in Nat
  BY <1>2, <1>8, <1>9
<1>11. Rest(new) = rest + ((HDR + size) - (HDR + 0))
  BY <1>1, <1>4, <1>5, <1>9, Zenon DEF Rest
<1>12. Used(new) = used
  BY <1>1, <1>7, <1>9, Zenon DEF Used
<1>13. Used(h) = size + used
  <2>1. SizesOf(h)[b] = h[b].size
    BY <1>2
  <2>. QED
    BY <1>6, <1>9, <2>1, Zenon DEF Used
<1>14. rest + ((HDR + size) - (HDR + 0)) = rest + size /\ used = (size + used) - size
          /\ size + used \in Int
  BY ONLY <1>10
<1>. QED
  BY ONLY <1>8, <1>9, <1>11, <1>12, <1>13, <1>14, Zenon

\* heap_extend's block.
LEMMA RestAppended ==
    ASSUME PmmAssumption, HeapAssumption, Sound(hdr, heap_head), IsFiniteSet(Blocks),
           NEW new \in Nat, new \notin Blocks, NEW size \in Nat,
           NEW h, h = Appended(new, size)
    PROVE  /\ Rest(h) = Rest(hdr) + size + HDR /\ Used(h) = Used(hdr)
           /\ Rest(hdr) \in Int /\ Used(hdr) \in Int
<1>1. PutLast(ListTail, new, size, h)
  BY AppendFields
<1>2. /\ DOMAIN h = DOMAIN hdr \cup {new} /\ new \notin DOMAIN hdr
      /\ h[new].size = size /\ h[new].free
      /\ \A a \in DOMAIN hdr : h[a].size = hdr[a].size /\ h[a].free = hdr[a].free
  BY <1>1, Zenon DEF PutLast, Blocks
<1>3. /\ \A a \in DOMAIN hdr : Weights(hdr)[a] \in Nat /\ SizesOf(hdr)[a] \in Nat
      /\ HDR \in Nat
  BY WeightsInt, HeapConstants
<1>4. InUse(h) = InUse(hdr) /\ InUse(hdr) \subseteq DOMAIN hdr /\ IsFiniteSet(InUse(hdr))
        /\ IsFiniteSet(DOMAIN hdr)
  BY <1>2, FS_Subset DEF InUse, Blocks
<1>5. /\ Weights(h)[new] = HDR + size
      /\ \A a \in DOMAIN hdr : /\ Weights(h)[a] = Weights(hdr)[a]
                               /\ SizesOf(h)[a] = SizesOf(hdr)[a]
  BY <1>2 DEF Weights, SizesOf
<1>6. Total(SizesOf(h), InUse(h)) = Total(SizesOf(hdr), InUse(hdr))
  <2>1. \A a \in InUse(hdr) : SizesOf(h)[a] = SizesOf(hdr)[a]
    BY <1>4, <1>5
  <2>. QED
    BY <1>4, <2>1, TotalSame
<1>7. Total(Weights(h), DOMAIN hdr) = Total(Weights(hdr), DOMAIN hdr)
  BY <1>4, <1>5, TotalSame
<1>8. Total(Weights(h), DOMAIN hdr \cup {new}) = Weights(h)[new] + Total(Weights(h), DOMAIN hdr)
  <2>1. \A a \in DOMAIN hdr \cup {new} : Weights(h)[a] \in Int
    BY <1>3, <1>5
  <2>. QED
    BY <1>2, <1>4, <2>1, TotalAdd
<1>9. Rest(hdr) \in Int /\ Used(hdr) \in Int
  <2>1. /\ \A a \in DOMAIN hdr : Weights(hdr)[a] \in Int
        /\ \A a \in InUse(hdr) : SizesOf(hdr)[a] \in Int
    BY <1>3, <1>4
  <2>. QED
    BY <1>4, <2>1, TotalInt DEF Rest, Used
<1>10. PICK rest : rest = Rest(hdr)
  OBVIOUS
<1>11. Rest(h) = (HDR + size) + rest
  BY <1>2, <1>5, <1>7, <1>8, <1>10, Zenon DEF Rest
<1>12. (HDR + size) + rest = rest + size + HDR
  BY <1>3, <1>9, <1>10
<1>13. Used(h) = Used(hdr)
  BY <1>6 DEF Used
<1>. QED
  BY ONLY <1>9, <1>10, <1>11, <1>12, <1>13, Zenon

FreeOf(S) == {b \in S : hdr[b].free}

LEMMA RestIs ==
    ASSUME PmmAssumption, HeapAssumption, Sound(hdr, heap_head), IsFiniteSet(Blocks)
    PROVE  Rest(hdr) = Total(SizesOf(hdr), FreeOf(Blocks)) + HDR * Cardinality(Blocks)
<1>. DEFINE W == Weights(hdr)
            Z == SizesOf(hdr)
            P == {s \in SUBSET Blocks : Total(W, s) = Total(Z, FreeOf(s)) + HDR * Cardinality(s)}
<1>0. /\ \A a \in Blocks : W[a] \in Int /\ Z[a] \in Int
      /\ \A a \in Blocks : W[a] = IF hdr[a].free THEN HDR + Z[a] ELSE HDR
      /\ HDR \in Nat
  BY WeightsInt, HeapConstants DEF Weights, SizesOf, Blocks
<1>1. ASSUME NEW s \in SUBSET Blocks,
             \A t \in SUBSET Blocks : Cardinality(t) < Cardinality(s) => t \in P
      PROVE  s \in P
  <2>. HIDE DEF W, Z
  <2>1. CASE s = {}
    <3>1. FreeOf(s) = {} /\ Cardinality(s) = 0
      BY <2>1, FS_EmptySet DEF FreeOf
    <3>2. Total(W, s) = 0 /\ Total(Z, FreeOf(s)) = 0
      BY <2>1, <3>1, TotalEmpty
    <3>3. 0 = 0 + HDR * 0
      BY <1>0
    <3>4. Total(W, s) = Total(Z, FreeOf(s)) + HDR * Cardinality(s)
      BY ONLY <3>1, <3>2, <3>3, Zenon
    <3>. QED
      BY <3>4
  <2>2. CASE s # {}
    <3>1. PICK b \in s : TRUE
      BY <2>2
    <3>2. PICK t : t = s \ {b}
      OBVIOUS
    <3>3. IsFiniteSet(s) /\ IsFiniteSet(t) /\ t \in P /\ t \subseteq Blocks
      <4>1. IsFiniteSet(s)
        BY FS_Subset
      <4>. QED
        BY <1>1, <3>2, <4>1, Smaller
    <3>4. Cardinality(s) = Cardinality(t) + 1 /\ Cardinality(t) \in Nat
      <4>1. Cardinality(t) = Cardinality(s) - 1 /\ Cardinality(s) \in Nat
        BY <3>2, <3>3, FS_RemoveElement, FS_CardinalityType
      <4>. QED
        BY <3>3, <4>1, FS_CardinalityType
    <3>5. Total(W, s) = W[b] + Total(W, t)
      <4>1. \A x \in s : W[x] \in Int
        BY <1>0
      <4>. QED
        BY <3>2, <3>3, <4>1, TotalAny
    <3>6. IsFiniteSet(FreeOf(t)) /\ IsFiniteSet(FreeOf(s)) /\ FreeOf(s) \subseteq Blocks
      BY <3>3, FS_Subset DEF FreeOf
    <3>7. Total(Z, FreeOf(t)) \in Int
      <4>1. \A x \in FreeOf(t) : Z[x] \in Int
        BY <1>0, <3>3 DEF FreeOf
      <4>. QED
        BY <3>6, <4>1, TotalInt
    <3>8. HDR * Cardinality(s) = HDR * Cardinality(t) + HDR /\ HDR * Cardinality(t) \in Int
      BY <1>0, <3>4
    <3>9. Total(W, t) = Total(Z, FreeOf(t)) + HDR * Cardinality(t)
      BY <3>3
    <3>10. PICK c, z : c = HDR * Cardinality(t) /\ z = Total(Z, FreeOf(t))
      OBVIOUS
    <3>11. /\ c \in Int /\ z \in Int /\ HDR * Cardinality(s) = c + HDR
           /\ Total(W, s) = W[b] + (z + c)
      BY ONLY <3>5, <3>7, <3>8, <3>9, <3>10, Zenon
    <3>12. CASE hdr[b].free
      <4>1. FreeOf(t) = FreeOf(s) \ {b} /\ b \in FreeOf(s)
        BY <3>2, <3>12 DEF FreeOf
      <4>2. Total(Z, FreeOf(s)) = Z[b] + z
        <5>1. \A x \in FreeOf(s) : Z[x] \in Int
          BY <1>0, <3>6
        <5>. QED
          BY <3>6, <3>10, <4>1, <5>1, TotalAny
      <4>3. W[b] = HDR + Z[b] /\ Z[b] \in Int
        BY <1>0, <3>12
      <4>4. (HDR + Z[b]) + (z + c) = (Z[b] + z) + (c + HDR)
        BY ONLY <1>0, <3>11, <4>3
      <4>. QED
        BY <3>11, <4>2, <4>3, <4>4, Zenon
    <3>13. CASE ~hdr[b].free
      <4>1. FreeOf(t) = FreeOf(s)
        BY <3>2, <3>13 DEF FreeOf
      <4>2. W[b] = HDR
        BY <1>0, <3>13
      <4>3. HDR + (z + c) = z + (c + HDR)
        BY ONLY <1>0, <3>11
      <4>. QED
        BY <3>10, <3>11, <4>1, <4>2, <4>3, Zenon
    <3>. QED
      BY <3>12, <3>13
  <2>. QED
    BY <2>1, <2>2
<1>2. Blocks \in P
  <2>. HIDE DEF P
  <2>. QED
    BY <1>1, OnFinite
<1>. QED
  BY <1>2 DEF Rest, Blocks

\* The two counters and the number of regions, as the list has them.
Accounts ==
    /\ regions \in Nat
    /\ used_bytes = Used(hdr)
    /\ free_bytes = (Rest(hdr) - HDR * regions) % Word
    /\ ~heap_up => regions = 0

\* Pages lie below 2^32.
LEMMA BytesHeld ==
    ASSUME PmmAssumption, HeapAssumption, NEW S, S \subseteq Pages
    PROVE  BytesOf(S) \subseteq 0 .. Word - 1 /\ Word \in Nat
<1>0. /\ \A p \in S : p \in Nat /\ p + 1 <= MaxPages
      /\ MaxPages \in Nat /\ PageSize \in Nat /\ Word \in Nat
  BY HeapConstants DEF Pages, HeapAssumption
<1>1. ASSUME NEW p \in S, NEW x \in AddressOf(p) .. AddressOf(p + 1) - 1
      PROVE  x \in 0 .. Word - 1
  <2>1. p * PageSize \in Nat /\ (p + 1) * PageSize \in Nat
          /\ (p + 1) * PageSize <= MaxPages * PageSize
    BY <1>0
  <2>2. MaxPages * PageSize <= Word
    BY DEF HeapAssumption
  <2>3. PICK low, high, limit :
          low = p * PageSize /\ high = (p + 1) * PageSize /\ limit = MaxPages * PageSize
    OBVIOUS
  <2>4. x \in low .. high - 1
    BY <2>3 DEF AddressOf
  <2>5. low \in Nat /\ high \in Nat /\ high <= limit /\ limit <= Word
    BY ONLY <2>1, <2>2, <2>3, Zenon
  <2>6. limit \in Nat
    BY <1>0, <2>3
  <2>. QED
    BY ONLY <1>0, <2>4, <2>5, <2>6
<1>. QED
  BY <1>0, <1>1 DEF BytesOf

LEMMA AccountsAre ==
    ASSUME PmmAssumption, HeapAssumption, HeapInv, Accounts PROVE BytesAccounted
<1>1. held \subseteq Pages /\ Sound(hdr, heap_head) /\ Cover(hdr) = BytesOf(held)
  BY DEF HeapInv, PmmInv, PmmTypeOK
<1>2. IsFiniteSet(Blocks) /\ IsFiniteSet(InUse(hdr))
  BY <1>1, BytesHeld, EndsIn DEF Blocks
<1>3. /\ FreeOf(Blocks) = {b \in Blocks : hdr[b].free}
      /\ InUse(hdr) = Blocks \ FreeOf(Blocks) /\ IsFiniteSet(FreeOf(Blocks))
  BY <1>2, FS_Subset DEF FreeOf, InUse, Blocks
<1>4. SizeOf(InUse(hdr)) = Used(hdr)
  <2>1. \A b \in InUse(hdr) : SizesOf(hdr)[b] = hdr[b].size
    BY DEF InUse, SizesOf
  <2>. QED
    BY <1>2, <2>1, SizeOfIsTotal DEF Used
<1>5. SizeOf(FreeOf(Blocks)) = Total(SizesOf(hdr), FreeOf(Blocks))
  <2>1. \A b \in FreeOf(Blocks) : SizesOf(hdr)[b] = hdr[b].size
    BY DEF FreeOf, SizesOf, Blocks
  <2>. QED
    BY <1>3, <2>1, SizeOfIsTotal
<1>6. Rest(hdr) = SizeOf(FreeOf(Blocks)) + HDR * Cardinality(Blocks)
  BY <1>1, <1>2, <1>5, RestIs
<1>7. SizeOf(FreeOf(Blocks)) \in Int
  <2>1. \A b \in FreeOf(Blocks) : SizesOf(hdr)[b] \in Int
    <3>1. \A b \in Blocks : SizesOf(hdr)[b] \in Nat
      BY <1>1, WeightsInt DEF Blocks
    <3>. QED
      BY <3>1 DEF FreeOf
  <2>. QED
    BY <1>3, <1>5, <2>1, TotalInt
<1>8. Rest(hdr) - HDR * regions = SizeOf(FreeOf(Blocks)) + HDR * (Cardinality(Blocks) - regions)
  <2>1. PICK c : c = Cardinality(Blocks)
    OBVIOUS
  <2>2. c \in Nat /\ regions \in Nat /\ HDR \in Nat
    BY <1>2, <2>1, FS_CardinalityType, HeapConstants DEF Accounts
  <2>3. HDR * (c - regions) = HDR * c - HDR * regions /\ HDR * c \in Int /\ HDR * regions \in Int
    BY ONLY <2>2
  <2>4. PICK y, z, s : y = HDR * c /\ z = HDR * regions /\ s = SizeOf(FreeOf(Blocks))
    OBVIOUS
  <2>5. y \in Int /\ z \in Int /\ s \in Int /\ HDR * (c - regions) = y - z /\ Rest(hdr) = s + y
    BY ONLY <1>6, <1>7, <2>1, <2>3, <2>4, Zenon
  <2>6. (s + y) - z = s + (y - z)
    BY ONLY <2>5
  <2>. QED
    BY ONLY <2>1, <2>4, <2>5, <2>6, Zenon
<1>. QED
  BY <1>3, <1>4, <1>8 DEF Accounts, BytesAccounted

--------------------------------------------------------------------------------
\* The steps.

LEMMA ModLess ==
    ASSUME NEW w \in Nat, w >= 1, NEW x \in Nat, x < w PROVE x % w = x
OBVIOUS

\* The bytes in use are fewer than 2^32, so that their counter does not wrap.
LEMMA UsedBelow ==
    ASSUME PmmAssumption, HeapAssumption, NEW h, NEW head, Sound(h, head),
           Cover(h) \subseteq 0 .. Word - 1
    PROVE  Used(h) \in 0 .. Word - 1
<1>1. Word \in Nat /\ Word >= 1 /\ HDR \in Nat /\ HDR >= 1
  BY WordPositive, HeapConstants
<1>2. /\ \A b \in InUse(h) : BlockEnd(h, b) <= Word
      /\ IsFiniteSet(InUse(h)) /\ InUse(h) \subseteq DOMAIN h
  BY <1>1, EndsIn DEF InUse
<1>3. Fit(h, InUse(h), Word)
  BY <1>1, <1>2, UsedFits
<1>4. Used(h) < Word
  <2>1. CASE InUse(h) = {}
    BY <1>1, <2>1, TotalEmpty DEF Used
  <2>2. CASE InUse(h) # {}
    <3>1. Used(h) + HDR <= Word
      BY <1>3, <2>2 DEF Fit, Used
    <3>2. Used(h) \in Int
      <4>1. \A b \in InUse(h) : SizesOf(h)[b] \in Int
        BY <1>2, WeightsInt
      <4>. QED
        BY <1>2, <4>1, TotalInt DEF Used
    <3>. QED
      BY <1>1, <3>1, <3>2
  <2>. QED
    BY <2>1, <2>2
<1>5. Used(h) \in Nat
  <2>1. \A b \in InUse(h) : SizesOf(h)[b] \in Nat
    BY <1>2, WeightsInt
  <2>. QED
    BY <1>2, <2>1, TotalNat DEF Used
<1>. QED
  BY <1>1, <1>4, <1>5

\* The end of kmalloc, when the counters were right for the list it starts from.
LEMMA GrantAccounts ==
    ASSUME PmmAssumption, HeapAssumption, NEW h, NEW head, Sound(h, head),
           Cover(h) \subseteq 0 .. Word - 1, NEW b \in DOMAIN h, h[b].free,
           NEW size \in Sizes, NEW n, n = AlignUp(size, Align), n <= h[b].size,
           NEW free, GrantBlock(h, b, n, size, free),
           NEW c \in Int, used_bytes = Used(h), free = (Rest(h) - c) % Word
    PROVE  used_bytes' = Used(hdr') /\ free_bytes' = (Rest(hdr') - c) % Word
<1>1. PICK cut : cut = Split(h, b, n)
  OBVIOUS
<1>2. n \in Nat /\ Multiple(n) /\ IsFiniteSet(DOMAIN h) /\ IsFiniteSet(InUse(h))
        /\ Word \in Nat /\ Word >= 1
  BY AlignUpSize, EndsIn, WordPositive
<1>3. Keeps(h, cut, head, {}) /\ b \in DOMAIN cut
  BY <1>1, <1>2, SplitSound
<1>4. /\ Sound(cut, head) /\ Cover(cut) = Cover(h) /\ InUse(cut) = InUse(h)
      /\ \A a \in InUse(h) : cut[a].size = h[a].size
  BY <1>3 DEF Keeps
<1>5. IsFiniteSet(DOMAIN cut) /\ cut[b].free
  <2>1. b \notin InUse(cut)
    BY <1>4 DEF InUse
  <2>. QED
    BY <1>2, <1>3, <1>4, <2>1, EndsIn DEF InUse
<1>6. Rest(cut) = Rest(h)
  BY <1>1, <1>2, RestSplit
<1>7. Used(cut) = Used(h)
  <2>1. \A a \in InUse(h) : SizesOf(cut)[a] = SizesOf(h)[a]
    BY <1>4 DEF SizesOf, InUse
  <2>. QED
    BY <1>2, <1>4, <2>1, TotalSame DEF Used
<1>8. hdr' = Taken(cut, b)
  BY <1>1, Zenon DEF GrantBlock, Taken
<1>9. PICK k : k = cut[b].size
  OBVIOUS
<1>10. /\ Rest(hdr') = Rest(h) - k /\ Used(hdr') = Used(h) + k
       /\ Rest(h) \in Int /\ Used(h) \in Int
  BY <1>3, <1>4, <1>5, <1>6, <1>7, <1>8, <1>9, RestTaken
<1>11. /\ Sound(hdr', head) /\ Cover(hdr') = Cover(h) /\ hdr'[b].size = k /\ k \in Nat
  <2>1. /\ Sound(hdr', head) /\ Cover(hdr') = Cover(cut)
        /\ \A a \in DOMAIN cut : hdr'[a].size = cut[a].size
    BY <1>3, <1>4, <1>8, MarkInUse
  <2>. QED
    BY <1>3, <1>4, <1>9, <2>1, WeightsInt
<1>12. Used(hdr') \in 0 .. Word - 1
  BY <1>11, UsedBelow
<1>13. used_bytes' = Used(hdr')
  <2>1. used_bytes' = (used_bytes + k) % Word
    BY <1>11, Zenon DEF GrantBlock
  <2>2. used_bytes' = Used(hdr') % Word
    BY <1>10, <2>1, Zenon
  <2>. QED
    BY <1>2, <1>12, <2>2, ModLess
<1>14. free_bytes' = (Rest(hdr') - c) % Word
  <2>1. free_bytes' = (free - k) % Word
    BY <1>11, Zenon DEF GrantBlock
  <2>2. PICK rest : rest = Rest(h)
    OBVIOUS
  <2>3. rest \in Int /\ rest - c \in Int /\ 0 - k \in Int
    BY <1>10, <1>11, <2>2
  <2>4. (((rest - c) % Word) + (0 - k)) % Word = ((rest - c) + (0 - k)) % Word
    BY <1>2, <2>3, AddMod
  <2>5. (rest - c) % Word \in Int
    BY <1>2, <2>3, WordPositive
  <2>6. ((rest - c) % Word) + (0 - k) = ((rest - c) % Word) - k /\ (rest - c) + (0 - k) = (rest - k) - c
    BY ONLY <1>11, <2>3, <2>5, c \in Int
  <2>. QED
    BY <1>10, <2>1, <2>2, <2>4, <2>6, Zenon
<1>. QED
  BY <1>13, <1>14

\* What HeapInv says of the list, for the sums.
LEMMA ListFacts ==
    ASSUME PmmAssumption, HeapAssumption, HeapInv
    PROVE  /\ Sound(hdr, heap_head) /\ Cover(hdr) = BytesOf(held)
           /\ BytesOf(held) \subseteq 0 .. Word - 1
           /\ IsFiniteSet(DOMAIN hdr) /\ IsFiniteSet(InUse(hdr)) /\ IsFiniteSet(Blocks)
           /\ Word \in Nat /\ Word >= 1 /\ HDR \in Nat /\ HDR >= 1
<1>1. held \subseteq Pages /\ Sound(hdr, heap_head) /\ Cover(hdr) = BytesOf(held)
  BY DEF HeapInv, PmmInv, PmmTypeOK
<1>2. Word \in Nat /\ Word >= 1 /\ HDR \in Nat /\ HDR >= 1
  BY WordPositive, HeapConstants
<1>. QED
  BY <1>1, <1>2, BytesHeld, EndsIn DEF Blocks

LEMMA UnchangedAccounts ==
    ASSUME Accounts, hdr' = hdr, used_bytes' = used_bytes, free_bytes' = free_bytes,
           regions' = regions, heap_up' = heap_up \/ heap_up'
    PROVE  Accounts'
BY DEF Accounts, Rest, Used, Weights, SizesOf, InUse, Total, IsSum, Any

\* heap_extend: what the new block adds.
LEMMA ExtendAccounts ==
    ASSUME PmmAssumption, HeapAssumption, HeapInv, pmm_up, FreePages # {}, Accounts,
           NEW want \in Nat, want >= 1, NEW got, got = RunLength(want), TakePages(got),
           NEW new, new = AddressOf(FirstFreePage), NEW size, size = RegionSize(got),
           NEW h, h = Appended(new, size)
    PROVE  /\ Rest(h) = Rest(hdr) + size + HDR /\ Used(h) = Used(hdr)
           /\ Rest(hdr) \in Int /\ size \in Nat
<1>1. Sound(hdr, heap_head) /\ IsFiniteSet(Blocks)
  BY ListFacts
<1>2. PICK head : head = IF Blocks = {} THEN new ELSE heap_head
  OBVIOUS
<1>3. PmmInv /\ HeapBelowFreePages
  BY DEF HeapInv
<1>4. Grown(new, size, head, h)
  BY <1>2, ExtendGrows
<1>5. size \in Nat
  BY <1>4 DEF Grown
<1>6. new \in Nat /\ new \notin Blocks
  <2>1. FirstFreePage \in FreePages /\ FirstFreePage \in Nat
    BY <1>3, RunIsFree
  <2>2. \A p \in held : p \in Nat /\ p < FirstFreePage
    BY <1>3, <2>1 DEF HeapBelowFreePages, PmmInv, PmmTypeOK, Pages
  <2>3. \A b \in Blocks : BlockEnd(hdr, b) <= new
    BY <1>1, <2>1, <2>2, EndsBelowFree, ListFacts
  <2>4. new \in Nat
    BY <2>1, HeapConstants DEF AddressOf
  <2>5. \A b \in Blocks : b \in Nat /\ hdr[b].size \in Nat
    BY <1>1, WeightsInt DEF Blocks
  <2>6. \A b \in Blocks : b < BlockEnd(hdr, b) /\ BlockEnd(hdr, b) \in Nat
    BY <2>5, HeapConstants DEF BlockEnd
  <2>7. new \notin Blocks
    BY <2>3, <2>4, <2>5, <2>6
  <2>. QED
    BY <2>4, <2>7
<1>. QED
  BY <1>1, <1>5, <1>6, RestAppended

LEMMA HeapInitAccounts ==
    ASSUME PmmAssumption, HeapAssumption, HeapInv, Accounts, HeapInit, HeapInv'
    PROVE  Accounts'
<1>1. CASE FreePages = {}
  <2>1. hdr' = hdr /\ used_bytes' = used_bytes /\ free_bytes' = free_bytes
          /\ regions' = regions /\ heap_up'
    BY <1>1 DEF HeapInit, list_vars
  <2>. QED
    BY <2>1, UnchangedAccounts
<1>2. CASE FreePages # {}
  <2>1. PICK got, new, size, h :
          /\ got = RunLength(InitialPages) /\ new = AddressOf(FirstFreePage)
          /\ size = RegionSize(got) /\ h = Appended(new, size)
    OBVIOUS
  <2>2. /\ pmm_up /\ ~heap_up /\ TakePages(got) /\ hdr' = h /\ free_bytes' = size
        /\ regions' = 1 /\ heap_up' /\ used_bytes' = used_bytes
    BY <1>2, <2>1, Zenon DEF HeapInit
  <2>3. /\ Rest(h) = Rest(hdr) + size + HDR /\ Used(h) = Used(hdr)
        /\ Rest(hdr) \in Int /\ size \in Nat
    BY <1>2, <2>1, <2>2, ExtendAccounts, HeapConstants
  <2>4. Rest(hdr) = 0
    <3>1. DOMAIN hdr = {}
      BY <2>2 DEF HeapInv, Blocks
    <3>. QED
      BY <3>1, TotalEmpty DEF Rest
  <2>5. size \in 0 .. Word - 1 /\ Word \in Nat /\ Word >= 1 /\ HDR \in Nat
    BY <2>2, ListFacts DEF HeapInv
  <2>6. size = (Rest(h) - HDR * 1) % Word
    <3>1. Rest(h) - HDR * 1 = size
      BY <2>3, <2>4, <2>5
    <3>2. size % Word = size
      BY <2>5, ModLess
    <3>. QED
      BY <3>1, <3>2
  <2>7. used_bytes' = Used(hdr') /\ free_bytes' = (Rest(hdr') - HDR * regions') % Word
    BY <2>2, <2>3, <2>6, Zenon DEF Accounts
  <2>. QED
    BY <2>2, <2>7 DEF Accounts, Rest, Used, Weights, SizesOf, InUse
<1>. QED
  BY <1>1, <1>2

LEMMA FromListAccounts ==
    ASSUME PmmAssumption, HeapAssumption, HeapInv, Accounts,
           NEW size \in Sizes, KmallocFromList(size)
    PROVE  Accounts'
<1>1. PICK n, b : n = AlignUp(size, Align) /\ b = FirstFit(n)
  OBVIOUS
<1>2. /\ heap_up /\ b # NULL /\ GrantBlock(hdr, b, n, size, free_bytes)
      /\ heap_up' = heap_up /\ regions' = regions
  BY <1>1, Zenon DEF KmallocFromList
<1>3. b \in DOMAIN hdr /\ hdr[b].free /\ hdr[b].size >= n
  BY <1>1, <1>2, FirstFitFits DEF Fits, Blocks
<1>4. n <= hdr[b].size
  <2>1. n \in Nat /\ hdr[b].size \in Nat
    BY <1>1, <1>3, AlignUpSize, WeightsInt, ListFacts
  <2>. QED
    BY <1>3, <2>1
<1>5. PICK c : c = HDR * regions
  OBVIOUS
<1>6. c \in Int /\ used_bytes = Used(hdr) /\ free_bytes = (Rest(hdr) - c) % Word
  BY <1>5, ListFacts DEF Accounts
<1>7. Sound(hdr, heap_head) /\ Cover(hdr) \subseteq 0 .. Word - 1
  BY ListFacts
<1>8. used_bytes' = Used(hdr') /\ free_bytes' = (Rest(hdr') - c) % Word
  BY <1>1, <1>2, <1>3, <1>4, <1>6, <1>7, GrantAccounts
<1>. QED
  BY <1>2, <1>5, <1>8 DEF Accounts, Rest, Used, Weights, SizesOf, InUse

LEMMA ExtendsAccounts ==
    ASSUME PmmAssumption, HeapAssumption, HeapInv, Accounts, HeapInv',
           NEW size \in Sizes, KmallocExtends(size)
    PROVE  Accounts'
<1>1. PICK n, want : n = AlignUp(size, Align) /\ want = (n + HDR + PageSize - 1) \div PageSize
  OBVIOUS
<1>2. PICK got, new : got = RunLength(want) /\ new = AddressOf(FirstFreePage)
  OBVIOUS
<1>3. PICK more, head, h, free :
        /\ more = RegionSize(got) /\ head = (IF Blocks = {} THEN new ELSE heap_head)
        /\ h = Appended(new, more) /\ free = (free_bytes + more) % Word
  OBVIOUS
<1>4. /\ heap_up /\ FreePages # {} /\ TakePages(got) /\ heap_head' = head
      /\ heap_up' = heap_up /\ regions' = regions + 1
      /\ IF more < n
           THEN /\ hdr' = h /\ free_bytes' = free
                /\ UNCHANGED <<used_bytes, granted>>
           ELSE GrantBlock(h, new, n, size, free)
  BY <1>1, <1>2, <1>3, Zenon DEF KmallocExtends
<1>5. n \in Nat /\ want \in Nat /\ want >= 1 /\ pmm_up
  BY <1>1, <1>4, AlignUpSize, NeedsAPage DEF HeapInv
<1>6. /\ Rest(h) = Rest(hdr) + more + HDR /\ Used(h) = Used(hdr)
      /\ Rest(hdr) \in Int /\ more \in Nat
  BY <1>2, <1>3, <1>4, <1>5, ExtendAccounts
<1>7. PICK c, d : c = HDR * regions /\ d = HDR * (regions + 1)
  OBVIOUS
<1>8. /\ c \in Int /\ d \in Int /\ d = c + HDR /\ HDR \in Nat /\ Word \in Nat /\ Word >= 1
      /\ regions \in Nat /\ free_bytes = (Rest(hdr) - c) % Word
  BY <1>7, ListFacts DEF Accounts
<1>9. free = (Rest(h) - d) % Word
  <2>1. PICK rest : rest = Rest(hdr)
    OBVIOUS
  <2>2. rest - c \in Int /\ rest \in Int
    BY <1>6, <1>8, <2>1
  <2>3. (((rest - c) % Word) + more) % Word = ((rest - c) + more) % Word
    BY <1>6, <1>8, <2>2, AddMod
  <2>4. (rest - c) + more = (rest + more + HDR) - d
    BY ONLY <1>6, <1>8, <2>2
  <2>. QED
    BY <1>3, <1>6, <1>8, <2>1, <2>3, <2>4, Zenon
<1>10. Grown(new, more, head, h)
  BY <1>2, <1>3, <1>4, <1>5, ExtendGrows
<1>11. CASE more < n
  <2>1. hdr' = h /\ free_bytes' = free /\ used_bytes' = used_bytes
    BY <1>4, <1>11
  <2>2. used_bytes' = Used(hdr') /\ free_bytes' = (Rest(hdr') - d) % Word
    BY <1>6, <1>9, <2>1, Zenon DEF Accounts
  <2>. QED
    BY <1>4, <1>7, <1>8, <2>2 DEF Accounts, Rest, Used, Weights, SizesOf, InUse
<1>12. CASE ~(more < n)
  <2>1. GrantBlock(h, new, n, size, free)
    BY <1>4, <1>12
  <2>2. Sound(h, head) /\ new \in DOMAIN h /\ h[new].free /\ h[new].size = more
          /\ Cover(h) = BytesOf(held)'
    BY <1>10 DEF Grown
  <2>3. Cover(h) \subseteq 0 .. Word - 1
    <3>1. BytesOf(held') \subseteq 0 .. Word - 1
      <4>1. held' \subseteq Pages
        BY DEF HeapInv, PmmInv, PmmTypeOK
      <4>. QED
        BY <4>1, BytesHeld
    <3>. QED
      BY <2>2, <3>1 DEF BytesOf, AddressOf
  <2>4. n <= h[new].size
    BY <1>5, <1>6, <1>12, <2>2
  <2>5. used_bytes = Used(h)
    BY <1>6 DEF Accounts
  <2>6. used_bytes' = Used(hdr') /\ free_bytes' = (Rest(hdr') - d) % Word
    BY <1>1, <1>8, <1>9, <2>1, <2>2, <2>3, <2>4, <2>5, GrantAccounts
  <2>. QED
    BY <1>4, <1>7, <1>8, <2>6 DEF Accounts, Rest, Used, Weights, SizesOf, InUse
<1>. QED
  BY <1>11, <1>12

\* kfree, with its two merges.
LEMMA KfreeAccounts ==
    ASSUME PmmAssumption, HeapAssumption, HeapInv, Accounts, HeapInv',
           NEW ptr \in DOMAIN granted, Kfree(ptr)
    PROVE  Accounts'
<1>1. PICK b, k : b = ptr - HDR /\ k = hdr[b].size
  OBVIOUS
<1>2. /\ hdr' = Freed(b) /\ heap_up' = heap_up /\ heap_head' = heap_head /\ regions' = regions
      /\ used_bytes' = (used_bytes - k) % Word
      /\ free_bytes' = (free_bytes + k) % Word
  BY <1>1, Zenon DEF Kfree, ReleasedSize
<1>3. /\ Sound(hdr, heap_head) /\ Cover(hdr) = BytesOf(held) /\ Cover(hdr) \subseteq 0 .. Word - 1
      /\ IsFiniteSet(DOMAIN hdr) /\ Word \in Nat /\ Word >= 1 /\ HDR \in Nat
  BY ListFacts
<1>4. b \in DOMAIN hdr /\ ~hdr[b].free /\ k \in Nat
  <2>1. PICK a \in InUse(hdr) : ptr = a + HDR
    BY DEF HeapInv, GrantsBacked, InUse, Blocks
  <2>2. a \in Nat
    BY <1>3, WeightsInt
  <2>3. a = b
    BY <1>1, <1>3, <2>1, <2>2
  <2>. QED
    BY <1>1, <1>3, <2>3, WeightsInt DEF InUse
<1>a. PICK marked : marked = Released(hdr, b)
  OBVIOUS
<1>b. PICK next, after : next = marked[b].next /\ after = TryMerge(marked, b, next)
  OBVIOUS
<1>5. /\ Rest(marked) = Rest(hdr) + k /\ Used(marked) = Used(hdr) - k
      /\ Rest(hdr) \in Int /\ Used(hdr) \in Int
  BY <1>1, <1>3, <1>4, <1>a, RestReleased
<1>6. /\ Sound(marked, heap_head) /\ Cover(marked) = Cover(hdr) /\ b \in DOMAIN marked
      /\ IsFiniteSet(DOMAIN marked)
  <2>1. /\ Sound(marked, heap_head) /\ Cover(marked) = Cover(hdr)
        /\ DOMAIN marked = DOMAIN hdr
    BY <1>3, <1>4, <1>a, MarkFree
  <2>. QED
    BY <1>3, <1>4, <2>1
<1>7. Rest(after) = Rest(marked) /\ Keeps(marked, after, heap_head, {}) /\ b \in DOMAIN after
  <2>1. Mergeable(marked, b, next) => marked[b].next = next
    BY <1>b
  <2>2. Rest(after) = Rest(marked)
    BY <1>6, <1>b, <2>1, RestMerge
  <2>3. Keeps(marked, after, heap_head, {}) /\ (b \in DOMAIN marked => b \in DOMAIN after)
    BY <1>6, <1>b, <2>1, MergeSound
  <2>. QED
    BY <1>6, <2>2, <2>3
<1>8. /\ Sound(after, heap_head) /\ Cover(after) = Cover(hdr) /\ IsFiniteSet(DOMAIN after)
  <2>1. Sound(after, heap_head) /\ Cover(after) = Cover(hdr)
    BY <1>6, <1>7 DEF Keeps
  <2>. QED
    BY <1>3, <2>1, EndsIn
<1>9. PICK before : before = after[b].prev
  OBVIOUS
<1>10. Mergeable(after, before, b) => after[before].next = b
  <2>1. before # NULL => after[before].next = b
    BY <1>7, <1>8, <1>9 DEF Sound, Chained
  <2>2. NULL \notin DOMAIN after
    BY <1>8 DEF Sound, Headers
  <2>. QED
    BY <2>1, <2>2 DEF Mergeable
<1>11. hdr' = TryMerge(after, before, b)
  BY <1>2, <1>9, <1>a, <1>b, Zenon DEF Freed, Released
<1>12. Rest(hdr') = Rest(after) /\ Keeps(after, hdr', heap_head, {})
  BY <1>8, <1>10, <1>11, RestMerge, MergeSound
<1>13. Used(hdr') = Used(marked)
  <2>1. /\ InUse(hdr') = InUse(marked)
        /\ \A a \in InUse(marked) : hdr'[a].size = marked[a].size
    BY <1>7, <1>12 DEF Keeps
  <2>2. IsFiniteSet(InUse(marked)) /\ InUse(marked) \subseteq DOMAIN marked
          /\ InUse(hdr') \subseteq DOMAIN hdr'
    BY <1>6, FS_Subset DEF InUse
  <2>3. \A a \in InUse(marked) : SizesOf(hdr')[a] = SizesOf(marked)[a]
    BY <2>1, <2>2 DEF SizesOf
  <2>. QED
    BY <2>1, <2>2, <2>3, TotalSame DEF Used
<1>14. Used(hdr') \in 0 .. Word - 1
  <2>1. Sound(hdr', heap_head) /\ Cover(hdr') = Cover(hdr)
    BY <1>8, <1>12 DEF Keeps
  <2>. QED
    BY <1>3, <2>1, UsedBelow
<1>15. used_bytes' = Used(hdr')
  <2>1. used_bytes' = Used(hdr') % Word
    BY <1>2, <1>5, <1>13, Zenon DEF Accounts
  <2>. QED
    BY <1>3, <1>14, <2>1, ModLess
<1>16. PICK c, rest : c = HDR * regions /\ rest = Rest(hdr)
  OBVIOUS
<1>17. free_bytes' = (Rest(hdr') - c) % Word
  <2>1. c \in Int /\ rest \in Int /\ rest - c \in Int /\ free_bytes = (rest - c) % Word
    BY <1>3, <1>5, <1>16 DEF Accounts
  <2>2. (((rest - c) % Word) + k) % Word = ((rest - c) + k) % Word
    <3>1. k \in Int /\ rest - c \in Int
      BY <1>4, <2>1
    <3>. QED
      BY ONLY <1>3, <3>1, AddMod
  <2>3. (rest - c) + k = (rest + k) - c
    BY ONLY <1>4, <2>1
  <2>4. Rest(hdr') = rest + k
    BY <1>5, <1>7, <1>12, <1>16, Zenon
  <2>. QED
    BY <1>2, <2>1, <2>2, <2>3, <2>4, Zenon
<1>. QED
  BY <1>2, <1>15, <1>16, <1>17 DEF Accounts, Rest, Used, Weights, SizesOf, InUse

LEMMA InitialAccounts == ASSUME PmmAssumption, HeapAssumption, Init PROVE Accounts
<1>1. /\ DOMAIN hdr = {} /\ InUse(hdr) = {} /\ used_bytes = 0 /\ free_bytes = 0 /\ regions = 0
  BY DEF Init, InUse
<1>2. Rest(hdr) = 0 /\ Used(hdr) = 0
  BY <1>1, TotalEmpty DEF Rest, Used
<1>3. (0 - HDR * 0) % Word = 0
  <2>1. 0 - HDR * 0 = 0
    BY HeapConstants
  <2>2. 0 % Word = 0
    BY WordPositive, ModLess
  <2>. QED
    BY <2>1, <2>2
<1>. QED
  BY <1>1, <1>2, <1>3 DEF Accounts

LEMMA StepAccounts ==
    ASSUME PmmAssumption, HeapAssumption, HeapInv, HeapInv', Accounts, [Next]_vars
    PROVE  Accounts'
<1>1. CASE Boot
  BY <1>1, UnchangedAccounts DEF Boot, heap_vars, list_vars, byte_vars, caller_vars
<1>2. CASE HeapInit
  BY <1>2, HeapInitAccounts
<1>3. ASSUME NEW size \in Sizes, KmallocFromList(size) PROVE Accounts'
  BY <1>3, FromListAccounts
<1>4. ASSUME NEW size \in Sizes, KmallocExtends(size) PROVE Accounts'
  BY <1>4, ExtendsAccounts
<1>5. ASSUME NEW ptr \in DOMAIN granted, Kfree(ptr) PROVE Accounts'
  BY <1>5, KfreeAccounts
<1>6. CASE UNCHANGED vars
  BY <1>6, UnchangedAccounts DEF vars, heap_vars, list_vars, byte_vars, caller_vars
<1>7. ASSUME NEW size \in Sizes, KmallocFails(size) PROVE Accounts'
  BY <1>6, <1>7 DEF KmallocFails
<1>. QED
  BY <1>1, <1>2, <1>3, <1>4, <1>5, <1>6, <1>7 DEF Next

\* sysinfo_commands.c:117-121: whatever is allocated and freed in whatever order,
\* meminfo's used bytes are those of the blocks in use, and its free bytes are
\* off by no more than the headers of the blocks that splits have made.
THEOREM HeapBytesAccounted == Spec => []BytesAccounted
<1>1. Init => HeapInv /\ Accounts
  BY PmmAssumption, HeapAssumption, HeapInitialInv, InitialAccounts
<1>2. HeapInv /\ Accounts /\ [Next]_vars => (HeapInv /\ Accounts)'
  BY PmmAssumption, HeapAssumption, HeapStepInv, StepAccounts
<1>3. HeapInv /\ Accounts => BytesAccounted
  BY PmmAssumption, HeapAssumption, AccountsAre
<1>. QED
  BY <1>1, <1>2, <1>3, PTL DEF Spec
================================================================================
