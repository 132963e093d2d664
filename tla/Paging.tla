--------------------------------- MODULE Paging ---------------------------------
(****************************************************************************)
(* The identity mapping of src/kernel/mm/paging.c: a page directory whose   *)
(* low slots are filled at boot, and a pool of spare page tables from which *)
(* paging_init maps the framebuffer and paging_map_region maps what drivers *)
(* ask for later.                                                           *)
(*                                                                          *)
(* A page table is kept as the address its first entry maps; the entries    *)
(* that follow are filled by one loop and map the pages that follow.        *)
(* Addresses are 32-bit: the sums wrap around at Word.                      *)
(****************************************************************************)
EXTENDS Integers, FiniteSets

CONSTANTS
    Entries,        \* ENTRIES_PER_TABLE slots of the directory
    Span,           \* TABLE_SPAN, the bytes a table maps
    TablesNeeded,   \* TABLES_NEEDED slots are mapped at boot
    ExtraTables,    \* EXTRA_TABLES in the pool
    Regions         \* the regions [addr, size] that may be asked for

Word == Entries * Span

ASSUME PagingAssumption ==
    /\ Entries \in Nat \ {0} /\ Span \in Nat \ {0}
    /\ TablesNeeded \in 0 .. Entries
    /\ ExtraTables \in Nat
    /\ Regions \subseteq [addr : 0 .. Word - 1, size : 0 .. Word - 1]

VARIABLES
    page_directory,     \* for each slot the table it points to, or NotPresent
    extra_page_tables,  \* for each table of the pool the address it maps
    next_extra_table,
    paging_on,          \* paging_init has returned
    promised            \* the slots with a byte of a region that a caller was
                        \* told is mapped (history)

vars == <<page_directory, extra_page_tables, next_extra_table, paging_on, promised>>

Slots == 0 .. Entries - 1
Pool  == 0 .. ExtraTables - 1

\* Directory entries: a table of the low memory, or one of the pool.
NotPresent == [kind |-> "none", table |-> 0]
Low(i)     == [kind |-> "low", table |-> i]
Extra(i)   == [kind |-> "extra", table |-> i]

Present(dir) == {slot \in Slots : dir[slot] # NotPresent}

--------------------------------------------------------------------------------
\* Mutant: the end of the region is rounded down.
RegionEndDown(region) == (((region.addr + region.size) % Word) \div Span) * Span

\* The end of the region rounded up to a slot; an end that wraps to 0 is
\* clamped to the start of the last slot.
RegionEnd(region) ==
    LET end == (((region.addr + region.size + Span - 1) % Word) \div Span) * Span
    IN  IF end = 0 THEN Word - Span ELSE end

\* The slots map_extra_region's loop visits.
Visited(region) ==
    IF region.size = 0 THEN {}
    ELSE {slot \in Slots : /\ slot >= region.addr \div Span
                           /\ slot * Span < RegionEnd(region)}

\* Mutant: slots that are mapped already get another table.
WantingAll(dir, region) == {slot \in Visited(region) : slot >= TablesNeeded}

\* The visited slots that need a table: neither low memory nor mapped before.
Wanting(dir, region) ==
    {slot \in Visited(region) : slot >= TablesNeeded /\ slot \notin Present(dir)}

\* Mutant: the pool is handed out from its start at every call.
SpareFirst == 0

\* The first table of the pool that has not been handed out.
Spare == next_extra_table

\* The table of the pool a slot gets: the loop goes up the slots and takes the
\* next spare table for each.
TableFor(dir, region, slot) ==
    Spare + Cardinality({s \in Wanting(dir, region) : s < slot})

\* Mutant: one table more than the pool has.
ServedOneMore(dir, region) ==
    {slot \in Wanting(dir, region) : TableFor(dir, region, slot) <= ExtraTables}

\* The slots that do get one, before the pool runs out.
Served(dir, region) ==
    {slot \in Wanting(dir, region) : TableFor(dir, region, slot) < ExtraTables}

\* map_extra_region with the directory dir; it returns 1 if no slot went
\* without a table.
MapExtraRegion(dir, region) ==
    LET served == Served(dir, region)
    IN  /\ page_directory' =
              [slot \in Slots |-> IF slot \in served
                                    THEN Extra(TableFor(dir, region, slot))
                                    ELSE dir[slot]]
        /\ extra_page_tables' =
              [i \in Pool |->
                  IF \E slot \in served : TableFor(dir, region, slot) = i
                    THEN Span * CHOOSE slot \in served :
                                    TableFor(dir, region, slot) = i
                    ELSE extra_page_tables[i]]
        /\ next_extra_table' = Spare + Cardinality(served)

\* Its result.
MapReturnsOne(dir, region) == Served(dir, region) = Wanting(dir, region)

--------------------------------------------------------------------------------
Init ==
    /\ page_directory = [slot \in Slots |-> NotPresent]
    /\ extra_page_tables = [i \in Pool |-> 0]
    /\ next_extra_table = 0
    /\ paging_on = FALSE
    /\ promised = {}

\* paging_init: the low memory, and the framebuffer.  What map_extra_region
\* returns is ignored, so nobody is told whether the framebuffer is mapped.
PagingInit(region) ==
    /\ ~paging_on
    /\ MapExtraRegion([slot \in Slots |-> IF slot < TablesNeeded THEN Low(slot)
                                                                 ELSE NotPresent],
                      region)
    /\ paging_on' = TRUE
    /\ UNCHANGED promised

\* The slots the bytes of a region lie in.
SlotsOf(region) ==
    {byte \div Span : byte \in region.addr .. region.addr + region.size - 1}

\* paging_map_region, which only a driver that looks at the result relies on.
PagingMapRegion(region) ==
    /\ paging_on
    /\ MapExtraRegion(page_directory, region)
    /\ promised' = IF MapReturnsOne(page_directory, region)
                     THEN promised \cup SlotsOf(region) ELSE promised
    /\ UNCHANGED paging_on

Next == \E region \in Regions : PagingInit(region) \/ PagingMapRegion(region)

Spec == Init /\ [][Next]_vars

--------------------------------------------------------------------------------
PagingTypeOK ==
    /\ page_directory \in
          [Slots -> {NotPresent} \cup {Low(i) : i \in 0 .. TablesNeeded - 1}
                                 \cup {Extra(i) : i \in Pool}]
    /\ extra_page_tables \in [Pool -> 0 .. Word - 1]
    /\ next_extra_table \in 0 .. ExtraTables
    /\ paging_on \in BOOLEAN
    /\ promised \subseteq Slots

\* The physical address the first byte of a present slot is mapped to.
BaseOf(slot) ==
    LET entry == page_directory[slot]
    IN  IF entry.kind = "low" THEN entry.table * Span
                              ELSE extra_page_tables[entry.table]

\* paging.h:4 and 128: the mapping is the identity.  No two slots share a table
\* of the pool, and none points to a table that a later call has refilled
\* (paging.c:25-29).
IdentityMapped ==
    \A slot \in Present(page_directory) : BaseOf(slot) = slot * Span

\* paging.c:49-52, "we only ever ADD new PRESENT entries here, never change an
\* existing one": neither the entry nor the table behind it.
OnlyAdds ==
    [][\A slot \in Present(page_directory) :
          page_directory'[slot] = page_directory[slot] /\ BaseOf(slot)' = BaseOf(slot)]_vars

\* paging.c:54, "returns 1 if the whole region ended up mapped": what a caller
\* was told is mapped is present to its last byte.
PromisedIsMapped == promised \subseteq Present(page_directory)
================================================================================
