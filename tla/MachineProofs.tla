------------------------------ MODULE MachineProofs ------------------------------
(****************************************************************************)
(* Proofs about Paging, for every size of the address space and of the pool *)
(* and every region that may be asked for, and about Machine over it: the   *)
(* mapping stays sound whatever drivers ask for and whatever programs are   *)
(* run, a program that is called has been loaded as its file says, the list *)
(* of the bus is right, and a driver reaches its registers and changes no   *)
(* others.                                                                  *)
(****************************************************************************)
EXTENDS Machine, FiniteSetTheorems, WellFoundedInduction, TLAPS

\* Division rounds down.
LEMMA AtMost ==
    ASSUME NEW a \in Nat, NEW d \in Nat, d >= 1
    PROVE  a \div d \in Nat /\ (a \div d) * d <= a /\ a < (a \div d + 1) * d
OBVIOUS

\* The quotient is the greatest number of whole parts.
LEMMA BelowQuotient ==
    ASSUME NEW a \in Nat, NEW d \in Nat, d >= 1, NEW n \in Nat, n * d <= a
    PROVE  n <= a \div d
<1>. DEFINE q == a \div d
<1>1. q \in Nat /\ a < (q + 1) * d
  BY AtMost
<1>. SUFFICES ASSUME n >= q + 1 PROVE FALSE
  BY <1>1
<1>2. n * d >= (q + 1) * d
  BY <1>1
<1>. QED
  BY <1>1, <1>2

LEMMA SlotsFinite ==
    ASSUME PagingAssumption, NEW S \in SUBSET Slots
    PROVE  IsFiniteSet(S) /\ Cardinality(S) \in Nat
<1>1. IsFiniteSet(Slots)
  BY FS_Interval DEF PagingAssumption, Slots
<1>2. IsFiniteSet(S)
  BY <1>1, FS_Subset
<1>. QED
  BY <1>2, FS_CardinalityType

\* The elements of a set below one of its elements are fewer than those below a
\* greater one, which includes the first.
LEMMA FewerBelow ==
    ASSUME PagingAssumption, NEW S \in SUBSET Slots, NEW T \in SUBSET S,
           NEW x \in T,
           \A s \in S : s < x => s \in T
    PROVE  Cardinality({s \in S : s < x}) < Cardinality(T)
<1>. DEFINE below == {s \in S : s < x}
<1>1. below \subseteq T /\ x \notin below
  <2>1. x \in Int /\ ~(x < x)
    BY DEF Slots, PagingAssumption
  <2>. QED
    BY <2>1
<1>2. IsFiniteSet(T) /\ Cardinality(T) \in Nat /\ Cardinality(below) \in Nat
  BY <1>1, SlotsFinite
<1>3. Cardinality(below) <= Cardinality(T) /\ (Cardinality(below) = Cardinality(T) => below = T)
  BY <1>1, <1>2, FS_Subset
<1>. QED
  BY <1>1, <1>2, <1>3

--------------------------------------------------------------------------------
\* map_extra_region takes tables from the pool in the order of the slots: those it
\* takes are distinct, and were not handed out before.
LEMMA TablesInOrder ==
    ASSUME PagingAssumption, NEW dir, NEW region, next_extra_table \in Nat
    PROVE  /\ \A slot \in Wanting(dir, region) :
                 TableFor(dir, region, slot) \in Nat /\ TableFor(dir, region, slot) >= Spare
           /\ \A s, t \in Wanting(dir, region) :
                 s < t => TableFor(dir, region, s) < TableFor(dir, region, t)
<1>. DEFINE W == Wanting(dir, region)
            before(slot) == Cardinality({s \in W : s < slot})
<1>1. W \subseteq Slots /\ W \subseteq Int
  BY DEF Wanting, Visited, Slots
<1>2. ASSUME NEW slot \in W
      PROVE  before(slot) \in Nat
  <2>1. {s \in W : s < slot} \subseteq Slots
    BY <1>1
  <2>. QED
    BY <2>1, SlotsFinite
<1>3. ASSUME NEW s \in W, NEW t \in W, s < t
      PROVE  before(s) < before(t)
  <2>. DEFINE T == {u \in W : u < t}
  <2>1. T \in SUBSET W /\ s \in T /\ \A u \in W : u < s => u \in T
    BY <1>1, <1>3
  <2>2. W \in SUBSET Slots
    BY <1>1
  <2>. HIDE DEF T, W
  <2>3. Cardinality({u \in W : u < s}) < Cardinality(T)
    BY <2>1, <2>2, FewerBelow
  <2>. QED
    BY <2>3 DEF T
<1>4. ASSUME NEW slot \in W
      PROVE  TableFor(dir, region, slot) = Spare + before(slot)
  BY DEF TableFor
<1>5. Spare \in Nat
  BY DEF Spare
<1>. HIDE DEF W, before
<1>6. ASSUME NEW slot \in W
      PROVE  TableFor(dir, region, slot) \in Nat /\ TableFor(dir, region, slot) >= Spare
  BY <1>2, <1>4, <1>5
<1>7. ASSUME NEW s \in W, NEW t \in W, s < t
      PROVE  TableFor(dir, region, s) < TableFor(dir, region, t)
  BY <1>2, <1>3, <1>4, <1>5, <1>7
<1>. QED
  BY <1>6, <1>7 DEF W

\* The tables that are handed out are in the pool, and next_extra_table is past
\* the last of them.
LEMMA PoolSuffices ==
    ASSUME PagingAssumption, NEW dir, NEW region, next_extra_table \in 0 .. ExtraTables
    PROVE  /\ Spare + Cardinality(Served(dir, region)) \in Spare .. ExtraTables
           /\ \A slot \in Served(dir, region) :
                 TableFor(dir, region, slot) < Spare + Cardinality(Served(dir, region))
<1>. DEFINE W == Wanting(dir, region)
            S == Served(dir, region)
            table(slot) == TableFor(dir, region, slot)
<1>1. S \subseteq W /\ W \subseteq Slots /\ W \subseteq Int /\ S \subseteq Int
  BY DEF Served, Wanting, Visited, Slots
<1>2. \A slot \in W : table(slot) \in Nat /\ table(slot) >= Spare
  BY TablesInOrder
<1>3. \A s, t \in W : s < t => table(s) < table(t)
  BY TablesInOrder
<1>4. IsFiniteSet(S) /\ Cardinality(S) \in Nat
  BY <1>1, SlotsFinite
<1>5. Spare + Cardinality(S) <= ExtraTables
  <2>. DEFINE T == Spare .. ExtraTables - 1
              f == [slot \in S |-> table(slot)]
  <2>1. f \in [S -> T]
    BY <1>1, <1>2 DEF Served, PagingAssumption, Spare
  <2>2. \A s, t \in S : f[s] = f[t] => s = t
    BY <1>1, <1>2, <1>3
  <2>3. f \in Injection(S, T)
    BY <2>1, <2>2, Zenon DEF Injection, IsInjective
  <2>4. IsFiniteSet(T) /\ Cardinality(T) = ExtraTables - Spare
    <3>1. Spare \in Int /\ ExtraTables - 1 \in Int /\ Spare <= ExtraTables /\ ExtraTables \in Int
      BY DEF PagingAssumption, Spare
    <3>2. IsFiniteSet(T) /\ Cardinality(T) = IF Spare > ExtraTables - 1 THEN 0
                                              ELSE (ExtraTables - 1) - Spare + 1
      BY <3>1, FS_Interval
    <3>. QED
      BY <3>1, <3>2
  <2>5. Cardinality(S) <= Cardinality(T)
    BY <2>3, <2>4, FS_Injection
  <2>. QED
    BY <2>4, <2>5, <1>4 DEF PagingAssumption, Spare
<1>6. ASSUME NEW slot \in S PROVE table(slot) < Spare + Cardinality(S)
  <2>1. \A s \in W : s < slot => s \in S
    BY <1>1, <1>2, <1>3 DEF Served, PagingAssumption
  <2>2. W \in SUBSET Slots /\ S \in SUBSET W /\ slot \in Int
    BY <1>1
  <2>. HIDE DEF W, S
  <2>3. Cardinality({s \in W : s < slot}) < Cardinality(S)
    BY <2>1, <2>2, FewerBelow
  <2>4. Cardinality({s \in W : s < slot}) \in Nat
    BY <2>2, SlotsFinite
  <2>. QED
    BY <2>3, <2>4, <1>4 DEF TableFor, W, Spare
<1>. QED
  BY <1>4, <1>5, <1>6 DEF Spare

--------------------------------------------------------------------------------
\* A directory that maps each present slot to itself, by tables that have been
\* handed out, and in which the low memory is present.
DirSound(dir) ==
    /\ dir \in [Slots -> {NotPresent} \cup {Low(i) : i \in 0 .. TablesNeeded - 1}
                                      \cup {Extra(i) : i \in Pool}]
    /\ \A slot \in Present(dir) :
          IF dir[slot].kind = "low"
            THEN dir[slot].table * Span = slot * Span
            ELSE /\ dir[slot].table < next_extra_table
                 /\ extra_page_tables[dir[slot].table] = slot * Span
    /\ \A slot \in Slots : slot < TablesNeeded => slot \in Present(dir)

PoolSound ==
    /\ extra_page_tables \in [Pool -> 0 .. Word - 1]
    /\ next_extra_table \in 0 .. ExtraTables

\* What a call of map_extra_region leaves, whatever it is asked for.
LEMMA MapKeepsSound ==
    ASSUME PagingAssumption, PoolSound, NEW dir, DirSound(dir), NEW region,
           MapExtraRegion(dir, region)
    PROVE  /\ PoolSound' /\ DirSound(page_directory)'
           /\ \A slot \in Present(dir) :
                 /\ page_directory'[slot] = dir[slot]
                 /\ dir[slot].kind = "extra" =>
                       extra_page_tables'[dir[slot].table] = extra_page_tables[dir[slot].table]
           /\ Present(page_directory)' = Present(dir) \cup Served(dir, region)
<1>. DEFINE W == Wanting(dir, region)
            S == Served(dir, region)
            table(slot) == TableFor(dir, region, slot)
<1>1. S \subseteq W /\ W \subseteq Slots /\ S \cap Present(dir) = {}
  BY DEF Served, Wanting, Visited
<1>2. /\ \A slot \in W : table(slot) \in Nat /\ table(slot) >= Spare
      /\ \A s, t \in W : s < t => table(s) < table(t)
  BY TablesInOrder DEF PoolSound
<1>3. \A slot \in S : table(slot) \in Pool
  BY <1>1, <1>2 DEF Served, Pool, PagingAssumption
<1>4. \A s, t \in S : table(s) = table(t) => s = t
  BY <1>1, <1>2 DEF Slots
<1>5. next_extra_table' \in 0 .. ExtraTables /\ next_extra_table' >= next_extra_table
  BY PoolSuffices DEF PoolSound, MapExtraRegion, Spare
<1>6. \A slot \in S : table(slot) < next_extra_table'
  BY PoolSuffices DEF PoolSound, MapExtraRegion
<1>7. \A slot \in S : extra_page_tables'[table(slot)] = slot * Span
  <2>. TAKE slot \in S
  <2>1. (CHOOSE s \in S : table(s) = table(slot)) = slot
    BY <1>4
  <2>2. extra_page_tables'[table(slot)] = Span * slot
    BY <1>3, <2>1 DEF MapExtraRegion
  <2>. QED
    BY <2>2, <1>1 DEF Slots, PagingAssumption
<1>8. \A i \in Pool : i < next_extra_table => extra_page_tables'[i] = extra_page_tables[i]
  BY <1>1, <1>2 DEF MapExtraRegion, Spare, Pool, PoolSound
<1>9. extra_page_tables' \in [Pool -> 0 .. Word - 1]
  <2>1. ASSUME NEW i \in Pool, NEW slot \in S, table(slot) = i
        PROVE  extra_page_tables'[i] \in 0 .. Word - 1
    <3>1. extra_page_tables'[i] = slot * Span
      BY <1>7, <2>1
    <3>2. slot \in Nat /\ slot <= Entries - 1 /\ Span \in Nat /\ Span >= 1 /\ Entries \in Nat
      BY <1>1 DEF Slots, PagingAssumption
    <3>3. slot * Span <= (Entries - 1) * Span
      BY <3>2
    <3>4. slot * Span \in Nat /\ (Entries - 1) * Span = Entries * Span - Span
      BY <3>2
    <3>. QED
      BY <3>1, <3>2, <3>3, <3>4 DEF Word
  <2>2. ASSUME NEW i \in Pool, ~\E slot \in S : table(slot) = i
        PROVE  extra_page_tables'[i] \in 0 .. Word - 1
    BY <2>2 DEF MapExtraRegion, PoolSound
  <2>3. extra_page_tables' = [i \in Pool |-> extra_page_tables'[i]]
    BY DEF MapExtraRegion
  <2>. QED
    BY <2>1, <2>2, <2>3
<1>10. /\ page_directory' \in [Slots -> {NotPresent} \cup {Low(i) : i \in 0 .. TablesNeeded - 1}
                                                    \cup {Extra(i) : i \in Pool}]
       /\ \A slot \in Slots : page_directory'[slot] = IF slot \in S THEN Extra(table(slot)) ELSE dir[slot]
  BY <1>3 DEF MapExtraRegion, DirSound
<1>11. Present(page_directory)' = Present(dir) \cup S
  BY <1>1, <1>10 DEF Present, Extra, NotPresent
<1>12. ASSUME NEW slot \in Present(dir)
       PROVE  /\ slot \in Slots
              /\ page_directory'[slot] = dir[slot]
              /\ dir[slot].kind = "low" \/ (dir[slot].table \in Pool /\ dir[slot].table < next_extra_table)
  BY <1>1, <1>10 DEF Present, DirSound, Low, Extra
<1>13. ASSUME NEW slot \in Present(page_directory)'
       PROVE  IF page_directory'[slot].kind = "low"
                THEN page_directory'[slot].table * Span = slot * Span
                ELSE /\ page_directory'[slot].table < next_extra_table'
                     /\ extra_page_tables'[page_directory'[slot].table] = slot * Span
  <2>1. CASE slot \in S
    BY <2>1, <1>1, <1>6, <1>7, <1>10 DEF Extra
  <2>2. CASE slot \in Present(dir)
    BY <2>2, <1>5, <1>8, <1>12 DEF DirSound, PoolSound, Pool, PagingAssumption
  <2>. QED
    BY <1>11, <2>1, <2>2
<1>14. DirSound(page_directory)'
  BY <1>10, <1>11, <1>13 DEF DirSound
<1>. QED
  BY <1>5, <1>8, <1>9, <1>11, <1>12, <1>14 DEF PoolSound

--------------------------------------------------------------------------------
\* The inductive invariant: nothing is present before paging_init, and from then
\* on the directory is sound.
PagingInv ==
    /\ PoolSound
    /\ paging_on \in BOOLEAN
    /\ ~paging_on => Present(page_directory) = {}
    /\ paging_on => DirSound(page_directory)

\* The steps of Paging, for whatever region.
MapStep == \E region : PagingInit(region) \/ PagingMapRegion(region)

\* The directory paging_init begins with: the low memory, nothing else.
LowOnly ==
    [slot \in Slots |-> IF slot < TablesNeeded THEN Low(slot) ELSE NotPresent]

LEMMA LowOnlySound == ASSUME PagingAssumption PROVE DirSound(LowOnly)
<1>1. \A slot \in Slots : slot < TablesNeeded <=> slot \in Present(LowOnly)
  BY DEF LowOnly, Present, Low, NotPresent
<1>2. LowOnly \in [Slots -> {NotPresent} \cup {Low(i) : i \in 0 .. TablesNeeded - 1}]
  BY DEF LowOnly, Slots, PagingAssumption
<1>3. \A slot \in Present(LowOnly) : LowOnly[slot] = Low(slot)
  BY <1>1 DEF LowOnly, Present
<1>. QED
  BY <1>1, <1>2, <1>3 DEF DirSound, Low, Present

LEMMA PagingInitInv == ASSUME PagingAssumption, Init PROVE PagingInv
<1>1. extra_page_tables \in [Pool -> 0 .. Word - 1]
  <2>1. Entries \in Nat /\ Entries >= 1 /\ Span \in Nat /\ Span >= 1
    BY DEF PagingAssumption
  <2>2. Entries * Span >= 1 * Span
    BY <2>1
  <2>3. Word \in Nat /\ Word >= 1
    BY <2>1, <2>2 DEF Word
  <2>. QED
    BY <2>3 DEF Init
<1>2. next_extra_table = 0 /\ 0 \in 0 .. ExtraTables
  BY DEF Init, PagingAssumption
<1>3. paging_on = FALSE
  BY DEF Init
<1>4. Present(page_directory) = {}
  BY DEF Init, Present
<1>. QED
  BY <1>1, <1>2, <1>3, <1>4 DEF PagingInv, PoolSound

LEMMA MapStepInv ==
    ASSUME PagingAssumption, PagingInv, MapStep PROVE PagingInv'
<1>1. CASE \E region : PagingInit(region)
  BY <1>1, LowOnlySound, MapKeepsSound DEF PagingInit, LowOnly, PagingInv
<1>2. CASE \E region : PagingMapRegion(region)
  BY <1>2, MapKeepsSound DEF PagingMapRegion, PagingInv
<1>. QED
  BY <1>1, <1>2 DEF MapStep

LEMMA SoundIsIdentity == ASSUME PagingInv PROVE IdentityMapped
  BY DEF PagingInv, DirSound, IdentityMapped, BaseOf

\* Entries that are present stay, and so do the tables behind them.
LEMMA MapStepAdds ==
    ASSUME PagingAssumption, PagingInv, MapStep, NEW slot \in Present(page_directory)
    PROVE  page_directory'[slot] = page_directory[slot] /\ BaseOf(slot)' = BaseOf(slot)
<1>1. PICK region : PagingMapRegion(region)
  BY DEF MapStep, PagingInit, PagingInv
<1>2. DirSound(page_directory) /\ MapExtraRegion(page_directory, region)
  BY <1>1 DEF PagingMapRegion, PagingInv
<1>3. /\ page_directory'[slot] = page_directory[slot]
      /\ page_directory[slot].kind = "extra" =>
            extra_page_tables'[page_directory[slot].table] =
              extra_page_tables[page_directory[slot].table]
  BY <1>2, MapKeepsSound DEF PagingInv
<1>4. page_directory[slot].kind \in {"low", "extra"}
  BY <1>2 DEF DirSound, Present, Low, Extra
<1>. QED
  BY <1>3, <1>4 DEF BaseOf

\* A region that ends below the last slot.
Fits(region) == region.addr + region.size <= Word - Span

\* Such a region has each of its slots visited.
LEMMA FittingIsVisited ==
    ASSUME PagingAssumption, NEW region \in [addr : Nat, size : Nat], Fits(region)
    PROVE  SlotsOf(region) \subseteq Visited(region)
<1>. DEFINE addr == region.addr
            size == region.size
            sum  == addr + size + Span - 1
<1>1. addr \in Nat /\ size \in Nat /\ Span \in Nat /\ Span >= 1 /\ Entries \in Nat
  BY DEF PagingAssumption
<1>2. Word \in Nat /\ sum \in Nat /\ sum < Word
  BY <1>1 DEF Word, Fits
<1>3. addr \div Span \in Nat /\ (addr \div Span) * Span <= addr
  BY <1>1, AtMost
<1>. SUFFICES ASSUME NEW byte \in addr .. addr + size - 1
              PROVE  byte \div Span \in Visited(region)
  BY <1>1 DEF SlotsOf
<1>. DEFINE slot == byte \div Span
<1>4. byte \in Nat /\ size # 0 /\ addr <= byte /\ byte < addr + size
  BY <1>1
<1>5. slot \in Nat /\ slot * Span <= byte /\ byte < (slot + 1) * Span
  BY <1>1, <1>4, AtMost
<1>6. slot >= addr \div Span
  BY <1>1, <1>4, <1>3, <1>5, BelowQuotient
<1>7. slot <= Entries - 1
  <2>1. slot * Span < Entries * Span
    BY <1>1, <1>2, <1>4, <1>5 DEF Word, Fits
  <2>. QED
    BY <2>1, <1>1, <1>5
<1>8. slot * Span < RegionEnd(region)
  <2>. HIDE DEF slot, sum
  <2>1. sum % Word = sum
    BY <1>2
  <2>2. slot + 1 <= sum \div Span
    <3>1. (slot + 1) * Span <= sum
      <4>1. (slot + 1) * Span = slot * Span + Span
        BY <1>1, <1>5
      <4>. QED
        BY <4>1, <1>1, <1>4, <1>5 DEF sum
    <3>2. slot + 1 \in Nat
      BY <1>5
    <3>. QED
      BY <3>1, <3>2, <1>1, <1>2, BelowQuotient
  <2>3. sum \div Span \in Nat
    BY <1>1, <1>2, AtMost
  <2>4. (slot + 1) * Span <= (sum \div Span) * Span
    BY <2>2, <2>3, <1>1, <1>5
  <2>5. (sum \div Span) * Span >= 1
    BY <2>2, <2>3, <2>4, <1>1, <1>5
  <2>6. RegionEnd(region) = (sum \div Span) * Span
    BY <2>1, <2>5, <2>3, <1>1 DEF RegionEnd, sum
  <2>. QED
    BY <2>4, <2>6, <2>3, <1>1, <1>5
<1>. QED
  BY <1>1, <1>4, <1>5, <1>6, <1>7, <1>8 DEF Visited, Slots

LEMMA MapStepPromises ==
    ASSUME PagingAssumption, PagingInv, promised \subseteq Present(page_directory),
           NEW region \in [addr : Nat, size : Nat], Fits(region),
           PagingMapRegion(region)
    PROVE  promised' \subseteq Present(page_directory)'
<1>1. /\ DirSound(page_directory) /\ PoolSound
      /\ MapExtraRegion(page_directory, region)
  BY DEF PagingMapRegion, PagingInv
<1>2. Present(page_directory)' = Present(page_directory) \cup Served(page_directory, region)
  BY <1>1, MapKeepsSound
<1>3. CASE MapReturnsOne(page_directory, region)
  <2>1. SlotsOf(region) \subseteq Visited(region)
    BY FittingIsVisited
  <2>2. \A slot \in Visited(region) :
          slot \in Present(page_directory) \cup Wanting(page_directory, region)
    <3>1. \A slot \in Visited(region) : slot \in Slots /\ slot \in Int
      BY DEF Visited, Slots
    <3>. QED
      BY <3>1, <1>1 DEF Wanting, DirSound, PagingAssumption
  <2>. QED
    BY <1>2, <1>3, <2>1, <2>2 DEF MapReturnsOne, PagingMapRegion
<1>4. CASE ~MapReturnsOne(page_directory, region)
  BY <1>2, <1>4 DEF PagingMapRegion
<1>. QED
  BY <1>3, <1>4

--------------------------------------------------------------------------------
\* What makes the properties inductive: the pool is handed out in order, and
\* each table of it maps the slot that points to it.
THEOREM PagingInvariant == Spec => []PagingInv
<1>1. Init => PagingInv
  BY PagingInitInv, PagingAssumption
<1>2. PagingInv /\ [Next]_vars => PagingInv'
  <2>1. CASE PagingInv /\ Next
    BY <2>1, MapStepInv, PagingAssumption DEF Next, MapStep
  <2>2. CASE PagingInv /\ UNCHANGED vars
    BY <2>2 DEF vars, PagingInv, PoolSound, DirSound, Present
  <2>. QED
    BY <2>1, <2>2
<1>. QED
  BY <1>1, <1>2, PTL DEF Spec

\* paging.h:4: whatever regions are mapped, in whatever order and past the end of
\* the pool, every address is mapped to itself.
THEOREM PagingIdentity == Spec => []IdentityMapped
<1>1. PagingInv => IdentityMapped
  BY SoundIsIdentity
<1>. QED
  BY <1>1, PagingInvariant, PTL

\* paging.c:49-52: no entry that is present is ever changed.
THEOREM PagingOnlyAdds == Spec => OnlyAdds
<1>1. PagingInv /\ [Next]_vars =>
        [\A slot \in Present(page_directory) :
            page_directory'[slot] = page_directory[slot] /\ BaseOf(slot)' = BaseOf(slot)]_vars
  BY MapStepAdds, PagingAssumption DEF Next, MapStep
<1>. QED
  BY <1>1, PagingInvariant, PTL DEF Spec, OnlyAdds

\* paging.c:54: a region a caller was told is mapped is present to its last byte.
\* The assumption is needed: the clamp at paging.c:68 leaves the last slot out.
THEOREM PagingPromised ==
    ASSUME \A region \in Regions : Fits(region)
    PROVE  Spec => []PromisedIsMapped
<1>1. Init => PromisedIsMapped
  BY DEF Init, PromisedIsMapped
<1>2. PagingInv /\ PromisedIsMapped /\ [Next]_vars => PromisedIsMapped'
  <2>. SUFFICES ASSUME PagingInv, PromisedIsMapped, [Next]_vars PROVE PromisedIsMapped'
    OBVIOUS
  <2>1. ASSUME NEW region \in Regions, PagingInit(region) PROVE PromisedIsMapped'
    BY <2>1 DEF PagingInit, PagingInv, PromisedIsMapped
  <2>2. ASSUME NEW region \in Regions, PagingMapRegion(region) PROVE PromisedIsMapped'
    <3>1. region \in [addr : Nat, size : Nat]
      BY PagingAssumption DEF PagingAssumption
    <3>. QED
      BY <2>2, <3>1, PagingAssumption, MapStepPromises DEF PromisedIsMapped
  <2>3. CASE UNCHANGED vars
    BY <2>3 DEF vars, PromisedIsMapped, Present
  <2>. QED
    BY <2>1, <2>2, <2>3 DEF Next
<1>. QED
  BY <1>1, <1>2, PagingInvariant, PTL DEF Spec

--------------------------------------------------------------------------------
\* The machine.

\* Every step of the machine is one of Paging, or leaves it alone.
LEMMA MachineMaps ==
    ASSUME [MachineNext]_machine_vars PROVE MapStep \/ UNCHANGED vars
<1>1. ASSUME MapAtBoot PROVE MapStep
  BY <1>1, Zenon DEF MapAtBoot, MapStep
<1>2. ASSUME MapOther PROVE MapStep
  BY <1>2, Zenon DEF MapOther, MapStep
<1>3. ASSUME NEW class, NEW i, Attach(class, i) PROVE MapStep
  BY <1>3, Zenon DEF Attach, MapStep
<1>4. ASSUME ScanBoard \/ RunElf \/ UNCHANGED machine_vars PROVE UNCHANGED vars
  BY <1>4, Zenon DEF ScanBoard, RunElf, machine_vars
<1>. QED
  BY <1>1, <1>2, <1>3, <1>4, Zenon DEF MachineNext

THEOREM MachinePagingInv == MachineSpec => []PagingInv
<1>1. MachineInit => PagingInv
  BY PagingInitInv, PagingAssumption DEF MachineInit
<1>2. PagingInv /\ [MachineNext]_machine_vars => PagingInv'
  <2>1. PagingInv /\ MapStep => PagingInv'
    BY MapStepInv, PagingAssumption
  <2>2. PagingInv /\ UNCHANGED vars => PagingInv'
    BY DEF vars, PagingInv, PoolSound, DirSound, Present
  <2>. QED
    BY <2>1, <2>2, MachineMaps
<1>. QED
  BY <1>1, <1>2, PTL DEF MachineSpec

\* paging.h:4: every address is mapped to itself, whatever a driver's base address
\* register holds.
THEOREM MachineIdentity == MachineSpec => []IdentityMapped
<1>1. PagingInv => IdentityMapped
  BY SoundIsIdentity
<1>. QED
  BY <1>1, MachinePagingInv, PTL

\* paging.c:49-52: no driver changes the mapping another one relies on.
THEOREM MachineOnlyAdds == MachineSpec => OnlyAdds
<1>1. PagingInv /\ [MachineNext]_machine_vars =>
        [\A slot \in Present(page_directory) :
            page_directory'[slot] = page_directory[slot] /\ BaseOf(slot)' = BaseOf(slot)]_vars
  BY MachineMaps, MapStepAdds, PagingAssumption
<1>. QED
  BY <1>1, MachinePagingInv, PTL DEF MachineSpec, OnlyAdds

--------------------------------------------------------------------------------
\* No segment reaches past the end of the address space.
ImagesFit ==
    \A file \in Images : \A i \in DOMAIN file.segments :
        file.segments[i].vaddr + file.segments[i].memsz <= Word

\* The addresses a segment is for.
Extended(ph) == ph.vaddr .. ph.vaddr + ph.memsz - 1

\* The segments of a file up to the nth that are for address a.
Covers(file, a, n) ==
    {i \in 1 .. n : file.segments[i].load /\ a \in Extended(file.segments[i])}

\* Address a holds what segment i has for it.
Holds(mem, file, a, i) ==
    LET ph == file.segments[i]
        b  == a - ph.vaddr
    IN  IF b < ph.filesz THEN mem[a] = ph.offset + b /\ mem[a] < file.size
                         ELSE mem[a] = Zero

\* What the first n segments leave: at each address the last of them that is for
\* it, and nothing else.
LoadedAt(mem, file, n, a) ==
    /\ Covers(file, a, n) = {} => mem[a] = Other
    /\ Covers(file, a, n) # {} =>
          \E i \in Covers(file, a, n) :
              Holds(mem, file, a, i) /\ \A j \in Covers(file, a, n) : j <= i

LoadedUpTo(mem, file, n) == \A a \in Memory : LoadedAt(mem, file, n, a)

LoaderInv ==
    /\ image \in Images
    /\ segment \in Nat \ {0}
    /\ runelf = "load" =>
          segment <= Len(image.segments) + 1 /\ LoadedUpTo(memory, image, segment - 1)
    /\ runelf = "call" => LoadedUpTo(memory, image, Len(image.segments))

LEMMA SegmentTypes ==
    ASSUME LoaderAssumption, NEW file \in Images
    PROVE  /\ Len(file.segments) \in Nat /\ file.size \in Nat
           /\ DOMAIN file.segments = 1 .. Len(file.segments)
           /\ \A i \in DOMAIN file.segments :
                 LET ph == file.segments[i]
                 IN  /\ ph.load \in BOOLEAN
                     /\ ph.vaddr \in Memory
                     /\ ph.offset \in Nat /\ ph.filesz \in Nat /\ ph.memsz \in Nat
<1>. DEFINE PH == [load : BOOLEAN, vaddr : Memory, offset : Nat, filesz : Nat, memsz : Nat]
            s  == file.segments
<1>1. s \in Seq(PH) /\ file.size \in Nat
  BY DEF LoaderAssumption
<1>. HIDE DEF PH, s
<1>2. Len(s) \in Nat /\ DOMAIN s = 1 .. Len(s)
  BY <1>1
<1>3. \A i \in DOMAIN s : s[i] \in PH
  BY <1>1, <1>2
<1>4. \A ph \in PH : /\ ph.load \in BOOLEAN /\ ph.vaddr \in Memory
                     /\ ph.offset \in Nat /\ ph.filesz \in Nat /\ ph.memsz \in Nat
  BY DEF PH
<1>. QED
  BY <1>1, <1>2, <1>3, <1>4 DEF s

\* One more segment: what it leaves alone stays as it is, ...
LEMMA OneMoreElsewhere ==
    ASSUME NEW mem, NEW new, NEW file, NEW n \in Nat \ {0}, NEW a,
           LoadedAt(mem, file, n - 1, a), new[a] = mem[a],
           ~file.segments[n].load \/ a \notin Extended(file.segments[n])
    PROVE  LoadedAt(new, file, n, a)
<1>1. Covers(file, a, n) = Covers(file, a, n - 1)
  BY DEF Covers
<1>2. \A i : Holds(new, file, a, i) <=> Holds(mem, file, a, i)
  BY DEF Holds
<1>. QED
  BY <1>1, <1>2 DEF LoadedAt

\* ... and the addresses it is for hold its bytes.
LEMMA OneMoreHere ==
    ASSUME NEW new, NEW file, NEW n \in Nat \ {0}, NEW a,
           file.segments[n].load, a \in Extended(file.segments[n]),
           Holds(new, file, a, n)
    PROVE  LoadedAt(new, file, n, a)
<1>1. n \in Covers(file, a, n) /\ \A j \in Covers(file, a, n) : j <= n
  BY DEF Covers
<1>. QED
  BY <1>1 DEF LoadedAt

LEMMA SkipInv ==
    ASSUME LoaderAssumption, LoaderInv, SkipSegment PROVE LoaderInv'
<1>1. /\ image \in Images /\ image' = image /\ memory' = memory /\ runelf' = "load"
      /\ segment \in Nat \ {0} /\ segment <= Len(image.segments)
      /\ segment' = segment + 1 /\ ~image.segments[segment].load
      /\ LoadedUpTo(memory, image, segment - 1) /\ Len(image.segments) \in Nat
  BY SegmentTypes DEF SkipSegment, AtSegment, LoaderInv
<1>2. LoadedUpTo(memory, image, segment)
  BY <1>1, OneMoreElsewhere DEF LoadedUpTo
<1>3. segment' - 1 = segment
  BY <1>1
<1>. QED
  BY <1>1, <1>2, <1>3 DEF LoaderInv

LEMMA NoWrap ==
    ASSUME NEW x \in Nat, NEW d \in Nat, x < d PROVE x % d = x
OBVIOUS

LEMMA DifferenceIsInt == ASSUME NEW x \in Int, NEW y \in Int PROVE x - y \in Int
OBVIOUS

LEMMA OnlyOne ==
    ASSUME NEW x \in Int, NEW S, S = {x}
    PROVE  (CHOOSE b \in S : \A w \in S : w <= b) = x
OBVIOUS

\* The bytes of a segment of size m at v that go to address a, in an address
\* space of w; if the segment ends within w, the one at a's distance from v.
Lands(v, m, w, a) == {b \in 0 .. m - 1 : (v + b) % w = a}

LEMMA Landing ==
    ASSUME NEW v \in Nat, NEW m \in Nat, NEW w \in Nat, v + m <= w, NEW a \in Int
    PROVE  /\ a \in v .. v + m - 1 => Lands(v, m, w, a) = {a - v}
           /\ a \notin v .. v + m - 1 => Lands(v, m, w, a) = {}
<1>1. ASSUME NEW b \in 0 .. m - 1 PROVE (v + b) % w = v + b
  <2>1. v + b \in Nat /\ v + b < w
    OBVIOUS
  <2>. QED
    BY <2>1, NoWrap
<1>2. Lands(v, m, w, a) = {b \in 0 .. m - 1 : v + b = a}
  BY <1>1 DEF Lands
<1>3. ASSUME a \in v .. v + m - 1 PROVE Lands(v, m, w, a) = {a - v}
  BY <1>2, <1>3
<1>4. ASSUME a \notin v .. v + m - 1 PROVE Lands(v, m, w, a) = {}
  BY <1>2, <1>4
<1>. QED
  BY <1>3, <1>4, Zenon

\* What CopySegment does when no address faults.
LEMMA CopyWrites ==
    ASSUME LoaderAssumption, MachineAssumption, PagingAssumption, ImagesFit,
           NEW mapped, image \in Images, segment \in Nat \ {0},
           CopySegment(mapped), runelf' = "load",
           NEW ph, ph = image.segments[segment], NEW a \in Memory
    PROVE  IF a \in Extended(ph) THEN memory'[a] = Byte(ph, a - ph.vaddr)
                                 ELSE memory'[a] = memory[a]
<1>. DEFINE faults == {b \in 0 .. Extent(ph) - 1 : Address(ph, b) \notin mapped}
            upTo   == IF faults = {} THEN Extent(ph)
                      ELSE CHOOSE b \in faults : \A f \in faults : b <= f
            writes(x) == {b \in 0 .. upTo - 1 : Address(ph, b) = x}
            top(x) == CHOOSE b \in writes(x) : \A w \in writes(x) : w <= b
<1>1. /\ ph.vaddr \in Memory /\ ph.memsz \in Nat /\ ph.vaddr + ph.memsz <= Word
  <2>1. segment \in DOMAIN image.segments
    BY SegmentTypes DEF CopySegment, AtSegment
  <2>. QED
    BY <2>1, SegmentTypes DEF ImagesFit
<1>2. Cardinality(Memory) = Word /\ Word \in Nat /\ Word >= 1 /\ Memory = 0 .. Word - 1
  <2>1. Entries \in Nat /\ Entries >= 1 /\ Span \in Nat /\ Span >= 1
    BY DEF PagingAssumption
  <2>2. Entries * Span >= 1 * Span
    BY <2>1
  <2>3. Word \in Nat /\ Word >= 1
    BY <2>1, <2>2 DEF Word
  <2>4. Cardinality(0 .. Word - 1) = Word
    BY <2>3, FS_Interval
  <2>. QED
    BY <2>3, <2>4 DEF MachineAssumption
<1>3. /\ runelf' = IF faults = {} THEN runelf ELSE "faulted"
      /\ memory' = [x \in Memory |-> IF writes(x) = {} THEN memory[x] ELSE Byte(ph, top(x))]
  BY DEF CopySegment
<1>4. faults = {}
  BY <1>3
<1>5. writes(a) = Lands(ph.vaddr, ph.memsz, Word, a)
  BY <1>2, <1>4 DEF Extent, Address, Lands
<1>. HIDE DEF faults, upTo, writes
<1>6. ph.vaddr \in Nat /\ ph.vaddr \in Int /\ a \in Int
  <2>1. Memory \subseteq Int /\ Memory \subseteq Nat
    BY <1>2
  <2>. QED
    BY <1>1, <2>1, Zenon
<1>7. /\ a \in Extended(ph) => writes(a) = {a - ph.vaddr}
      /\ a \notin Extended(ph) => writes(a) = {}
  <2>1. ph.memsz \in Nat /\ ph.vaddr + ph.memsz <= Word /\ Word \in Nat
    BY <1>1, <1>2
  <2>2. /\ a \in ph.vaddr .. ph.vaddr + ph.memsz - 1 =>
              Lands(ph.vaddr, ph.memsz, Word, a) = {a - ph.vaddr}
        /\ a \notin ph.vaddr .. ph.vaddr + ph.memsz - 1 =>
              Lands(ph.vaddr, ph.memsz, Word, a) = {}
    BY <1>6, <2>1, Landing, Zenon
  <2>. QED
    BY <1>5, <2>2, Zenon DEF Extended
<1>8. CASE a \in Extended(ph)
  <2>1. a - ph.vaddr \in Int
    BY <1>6, DifferenceIsInt, Zenon
  <2>2. top(a) = a - ph.vaddr
    BY <1>7, <1>8, <2>1, OnlyOne, Zenon
  <2>. QED
    BY <1>3, <1>7, <1>8, <2>2
<1>9. CASE a \notin Extended(ph)
  BY <1>3, <1>7, <1>9
<1>. QED
  BY <1>8, <1>9

\* After CopySegment the segment's bytes are what the addresses it is for hold.
LEMMA CopyInv ==
    ASSUME LoaderAssumption, MachineAssumption, PagingAssumption, ImagesFit,
           LoaderInv, NEW mapped, CopySegment(mapped)
    PROVE  LoaderInv'
<1>. PICK n, ph : n = segment /\ ph = image.segments[segment]
  OBVIOUS
<1>1. /\ image \in Images /\ image' = image /\ runelf = "load"
      /\ n \in Nat \ {0} /\ n <= Len(image.segments) /\ Len(image.segments) \in Nat
      /\ segment' = n + 1 /\ LoadedUpTo(memory, image, n - 1)
      /\ runelf' \in {"load", "faulted"}
      /\ ph.load /\ InFile(image, ph) /\ ph.memsz >= ph.filesz
  BY SegmentTypes DEF CopySegment, AtSegment, LoaderInv
<1>2. CASE runelf' = "faulted"
  BY <1>1, <1>2 DEF LoaderInv
<1>3. CASE runelf' = "load"
  <2>1. /\ ph.vaddr \in Memory /\ ph.memsz \in Nat /\ ph.filesz \in Nat /\ ph.offset \in Nat
        /\ image.size \in Nat
    <3>1. n \in DOMAIN image.segments /\ ph = image.segments[n]
      BY <1>1, SegmentTypes
    <3>. QED
      BY <1>1, <3>1, SegmentTypes
  <2>2. Memory = 0 .. Word - 1
    BY DEF MachineAssumption
  <2>3. ASSUME NEW a \in Memory, a \in Extended(ph)
        PROVE  LoadedAt(memory', image, n, a)
    <3>1. memory'[a] = Byte(ph, a - ph.vaddr)
      BY <1>1, <1>3, <2>3, CopyWrites
    <3>2. a - ph.vaddr \in Nat
      BY <2>1, <2>2, <2>3 DEF Extended
    <3>3. ph = image.segments[n] /\ InFile(image, ph)
      BY <1>1
    <3>4. ASSUME a - ph.vaddr < ph.filesz
          PROVE  /\ memory'[a] = ph.offset + (a - ph.vaddr)
                 /\ ph.offset + (a - ph.vaddr) < image.size
      <4>1. memory'[a] = ph.offset + (a - ph.vaddr)
        BY <3>1, <3>4, Zenon DEF Byte
      <4>2. ph.offset <= image.size /\ ph.filesz <= image.size - ph.offset
        BY <3>3, Zenon DEF InFile
      <4>3. PICK i, j, k, x : /\ i = ph.offset /\ j = ph.filesz /\ k = image.size
                              /\ x = a - ph.vaddr
        OBVIOUS
      <4>4. i \in Nat /\ j \in Nat /\ k \in Nat /\ x \in Nat
        BY ONLY <2>1, <3>2, <4>3, Zenon
      <4>5. i <= k /\ j <= k - i /\ x < j
        BY ONLY <3>4, <4>2, <4>3, Zenon
      <4>6. i + x < k
        BY ONLY <4>4, <4>5
      <4>. QED
        BY ONLY <4>1, <4>3, <4>6, Zenon
    <3>5. ~(a - ph.vaddr < ph.filesz) => memory'[a] = Zero
      BY <3>1, Zenon DEF Byte
    <3>6. Holds(memory', image, a, n)
      BY <3>3, <3>4, <3>5, Zenon DEF Holds
    <3>. QED
      BY <1>1, <2>3, <3>6, OneMoreHere
  <2>4. ASSUME NEW a \in Memory, a \notin Extended(ph)
        PROVE  LoadedAt(memory', image, n, a)
    <3>1. memory'[a] = memory[a]
      BY <1>1, <1>3, <2>4, CopyWrites
    <3>. QED
      BY <1>1, <2>4, <3>1, OneMoreElsewhere DEF LoadedUpTo
  <2>5. segment' - 1 = n
    BY <1>1
  <2>6. LoadedUpTo(memory', image, n)
    BY <2>3, <2>4 DEF LoadedUpTo
  <2>. QED
    BY <1>1, <1>3, <2>5, <2>6 DEF LoaderInv
<1>. QED
  BY <1>1, <1>2, <1>3

LEMMA LoaderStepInv ==
    ASSUME LoaderAssumption, MachineAssumption, PagingAssumption, ImagesFit,
           LoaderInv, RunElf
    PROVE  LoaderInv'
<1>1. ASSUME NEW file \in Images, StartLoad(file) PROVE LoaderInv'
  <2>1. \A a \in Memory : memory'[a] = Other
    BY <1>1 DEF StartLoad
  <2>2. LoadedUpTo(memory', file, 0)
    BY <2>1 DEF LoadedUpTo, LoadedAt, Covers
  <2>3. segment' = 1 /\ segment' - 1 = 0 /\ image' = file /\ runelf' = "load"
    BY <1>1 DEF StartLoad
  <2>4. Len(file.segments) \in Nat
    BY SegmentTypes
  <2>. QED
    BY <2>2, <2>3, <2>4 DEF LoaderInv
<1>2. ASSUME RejectHeader \/ RejectSegment \/ Returns PROVE LoaderInv'
  BY <1>2 DEF RejectHeader, RejectSegment, Returns, Reject, LoaderInv
<1>3. ASSUME Call PROVE LoaderInv'
  <2>1. segment - 1 = Len(image.segments)
    <3>1. Len(image.segments) \in Nat
      BY SegmentTypes DEF LoaderInv
    <3>2. /\ segment \in Nat /\ segment > Len(image.segments)
          /\ segment <= Len(image.segments) + 1
      BY <1>3, Zenon DEF Call, LoaderInv
    <3>. QED
      BY <3>1, <3>2
  <2>2. /\ LoadedUpTo(memory, image, Len(image.segments))
        /\ memory' = memory /\ image' = image /\ segment' = segment /\ runelf' = "call"
    BY <1>3, <2>1 DEF Call, LoaderInv
  <2>. QED
    BY <2>2 DEF LoaderInv
<1>. QED
  BY <1>1, <1>2, <1>3, SkipInv, CopyInv DEF RunElf, LoaderSteps

\* elf32.h:4-8: a program that is called has been put where its file says, byte
\* for byte, with zeros after, and nothing else has been written; whatever its
\* segments overlap, and whatever drivers map in between.
THEOREM MachineLoadedIsImage ==
    ASSUME ImagesFit
    PROVE  MachineSpec => []LoadedIsImage
<1>1. MachineInit => LoaderInv
  BY DEF MachineInit, LoaderInit, LoaderInv
<1>2. LoaderInv /\ [MachineNext]_machine_vars => LoaderInv'
  <2>1. LoaderInv /\ RunElf => LoaderInv'
    BY LoaderStepInv, LoaderAssumption, MachineAssumption, PagingAssumption
  <2>2. LoaderInv /\ UNCHANGED loader_vars => LoaderInv'
    BY DEF loader_vars, LoaderInv
  <2>3. [MachineNext]_machine_vars => RunElf \/ UNCHANGED loader_vars
    BY Zenon DEF MachineNext, MapAtBoot, ScanBoard, MapOther, Attach, machine_vars
  <2>. QED
    BY <2>1, <2>2, <2>3
<1>3. LoaderInv => LoadedIsImage
  <2>. SUFFICES ASSUME LoaderInv, runelf = "call", NEW a \in Memory
                PROVE  LET covers == {i \in DOMAIN image.segments :
                              LET ph == image.segments[i]
                              IN  ph.load /\ a \in ph.vaddr .. ph.vaddr + ph.memsz - 1}
                           last   == image.segments[CHOOSE i \in covers : \A j \in covers : j <= i]
                           b      == a - last.vaddr
                       IN  /\ covers = {} => memory[a] = Other
                           /\ covers # {} =>
                                 IF b < last.filesz
                                   THEN memory[a] = last.offset + b /\ memory[a] < image.size
                                   ELSE memory[a] = Zero
    BY Zenon DEF LoadedIsImage
  <2>. DEFINE covers == {i \in DOMAIN image.segments :
                            LET ph == image.segments[i]
                            IN  ph.load /\ a \in ph.vaddr .. ph.vaddr + ph.memsz - 1}
              top    == CHOOSE i \in covers : \A j \in covers : j <= i
  <2>0. covers = Covers(image, a, Len(image.segments))
    <3>1. DOMAIN image.segments = 1 .. Len(image.segments)
      BY SegmentTypes, LoaderAssumption DEF LoaderInv
    <3>. QED
      BY <3>1 DEF Covers, Extended
  <2>1. LoadedAt(memory, image, Len(image.segments), a) /\ covers \subseteq Nat
    BY <2>0 DEF LoaderInv, LoadedUpTo, Covers
  <2>2. CASE covers = {}
    BY <2>0, <2>1, <2>2 DEF LoadedAt
  <2>3. CASE covers # {}
    <3>1. PICK i \in covers : Holds(memory, image, a, i) /\ \A j \in covers : j <= i
      BY <2>0, <2>1, <2>3 DEF LoadedAt
    <3>2. top = i
      <4>1. \A k \in covers : (\A j \in covers : j <= k) => k = i
        BY <2>1, <3>1
      <4>. QED
        BY <3>1, <4>1
    <3>3. Holds(memory, image, a, top)
      BY <3>1, <3>2
    <3>. QED
      BY <2>3, <3>3 DEF Holds
  <2>. QED
    BY <2>2, <2>3
<1>. QED
  BY <1>1, <1>2, <1>3, PTL DEF MachineSpec

--------------------------------------------------------------------------------
\* The list of functions.  A place's number tells it from all others.

LEMMA DigitsTell ==
    ASSUME NEW n \in Nat, n >= 1, NEW a \in Nat, NEW c \in Nat,
           NEW b \in 0 .. n - 1, NEW d \in 0 .. n - 1,
           a * n + b = c * n + d
    PROVE  a = c /\ b = d
<1>1. ASSUME NEW x \in Nat, NEW y \in Nat, NEW u \in 0 .. n - 1, NEW v \in 0 .. n - 1,
             x * n + u = y * n + v
      PROVE  ~(x < y)
  <2>. SUFFICES ASSUME x + 1 <= y PROVE FALSE
    BY <1>1
  <2>1. (x + 1) * n <= y * n
    OBVIOUS
  <2>2. (x + 1) * n = x * n + n
    OBVIOUS
  <2>3. x * n \in Nat /\ y * n \in Nat
    OBVIOUS
  <2>. QED
    BY ONLY <1>1, <2>1, <2>2, <2>3, n \in Nat, u \in 0 .. n - 1, v \in 0 .. n - 1
<1>2. ~(a < c) /\ ~(c < a)
  BY <1>1
<1>3. a = c
  BY <1>2
<1>. QED
  BY <1>3

LEMMA NumberTells ==
    ASSUME PciAssumption
    PROVE  /\ \A p \in Places : Number(p) \in Nat
           /\ \A p, q \in Places : Number(p) = Number(q) => p = q
<1>1. /\ Devices \in Nat /\ Devices >= 1 /\ Functions \in Nat /\ Functions >= 1
      /\ Buses \in Nat
  BY DEF PciAssumption
<1>2. ASSUME NEW p \in Places
      PROVE  /\ p.bus \in Nat /\ p.device \in 0 .. Devices - 1 /\ p.function \in 0 .. Functions - 1
             /\ p.bus * Devices + p.device \in Nat /\ p.bus \in 0 .. Buses - 1
             /\ Number(p) \in Nat
  <2>1. p.bus \in 0 .. Buses - 1 /\ p.device \in 0 .. Devices - 1 /\ p.function \in 0 .. Functions - 1
    BY DEF Places
  <2>2. p.bus * Devices + p.device \in Nat
    BY <1>1, <2>1
  <2>. DEFINE x == p.bus * Devices + p.device
  <2>3. x \in Nat
    BY <2>2
  <2>. HIDE DEF x
  <2>4. x * Functions + p.function \in Nat
    BY <1>1, <2>1, <2>3
  <2>. QED
    BY <1>1, <2>1, <2>2, <2>4 DEF Number, x
<1>3. ASSUME NEW p \in Places, NEW q \in Places, Number(p) = Number(q)
      PROVE  p = q
  <2>1. /\ p.bus * Devices + p.device = q.bus * Devices + q.device
        /\ p.function = q.function
    BY <1>1, <1>2, <1>3, DigitsTell DEF Number
  <2>2. p.bus = q.bus /\ p.device = q.device
    BY <1>1, <1>2, <2>1, DigitsTell
  <2>. QED
    BY <2>1, <2>2 DEF Places
<1>. QED
  BY <1>2, <1>3

LEMMA PlacesFinite ==
    ASSUME PciAssumption, NEW S \in SUBSET Places
    PROVE  IsFiniteSet(S) /\ Cardinality(S) \in Nat
<1>1. IsFiniteSet(0 .. Buses - 1) /\ IsFiniteSet(0 .. Devices - 1) /\ IsFiniteSet(0 .. Functions - 1)
  <2>1. 0 \in Int /\ Buses - 1 \in Int /\ Devices - 1 \in Int /\ Functions - 1 \in Int
    BY DEF PciAssumption
  <2>. QED
    BY <2>1, FS_Interval
<1>. DEFINE X == (0 .. Buses - 1) \X ((0 .. Devices - 1) \X (0 .. Functions - 1))
            f == [x \in X |-> [bus |-> x[1], device |-> x[2][1], function |-> x[2][2]]]
<1>2. IsFiniteSet((0 .. Devices - 1) \X (0 .. Functions - 1))
  BY <1>1, FS_Product
<1>3. IsFiniteSet(X)
  BY <1>1, <1>2, FS_Product
<1>4. f \in Surjection(X, Places)
  <2>1. f \in [X -> Places]
    BY DEF Places
  <2>2. ASSUME NEW p \in Places PROVE \E x \in X : f[x] = p
    <3>1. <<p.bus, <<p.device, p.function>>>> \in X
      BY DEF Places
    <3>2. f[<<p.bus, <<p.device, p.function>>>>] = p
      BY <3>1 DEF Places
    <3>. QED
      BY <3>1, <3>2
  <2>. QED
    BY <2>1, <2>2 DEF Surjection
<1>5. IsFiniteSet(Places)
  BY <1>3, <1>4, FS_Surjection
<1>6. IsFiniteSet(S)
  BY <1>5, FS_Subset
<1>. QED
  BY <1>6, FS_CardinalityType

--------------------------------------------------------------------------------
\* Among some places, those ahead of one are those the scan has come by.
LEMMA FewerAhead ==
    ASSUME PciAssumption, NEW F \in SUBSET Places, NEW T \in SUBSET F, NEW x \in T,
           \A p \in F : Number(p) < Number(x) => p \in T
    PROVE  Ahead(F, x) \in Nat /\ Ahead(F, x) < Cardinality(T)
<1>. DEFINE ahead == {p \in F : Number(p) < Number(x)}
<1>1. ahead \subseteq T /\ x \notin ahead
  <2>1. Number(x) \in Nat /\ ~(Number(x) < Number(x))
    BY NumberTells
  <2>. QED
    BY <2>1
<1>2. IsFiniteSet(T) /\ Cardinality(T) \in Nat /\ Cardinality(ahead) \in Nat
  BY <1>1, PlacesFinite
<1>3. Cardinality(ahead) <= Cardinality(T) /\ (Cardinality(ahead) = Cardinality(T) => ahead = T)
  BY <1>1, <1>2, FS_Subset
<1>4. Ahead(F, x) = Cardinality(ahead)
  BY DEF Ahead
<1>. HIDE DEF ahead
<1>. QED
  BY <1>1, <1>2, <1>3, <1>4

LEMMA AheadInOrder ==
    ASSUME PciAssumption, NEW F \in SUBSET Places, NEW x \in F, NEW y \in F,
           Number(x) < Number(y)
    PROVE  Ahead(F, x) < Ahead(F, y)
<1>. DEFINE T == {p \in F : Number(p) < Number(y)}
<1>1. \A p \in F : Number(p) \in Nat
  BY NumberTells
<1>2. T \in SUBSET F /\ x \in T /\ \A p \in F : Number(p) < Number(x) => p \in T
  BY <1>1
<1>3. Ahead(F, y) = Cardinality(T)
  BY DEF Ahead
<1>. HIDE DEF T
<1>4. Ahead(F, x) < Cardinality(T)
  BY <1>2, FewerAhead
<1>. QED
  BY <1>3, <1>4

\* An initial part of some places: each number of places ahead, from none on, is
\* that of one of them.
LEMMA AheadCounts ==
    ASSUME PciAssumption, NEW F \in SUBSET Places, NEW T \in SUBSET F,
           \A x \in T : \A p \in F : Number(p) < Number(x) => p \in T
    PROVE  /\ \A x \in T : Ahead(F, x) \in 0 .. Cardinality(T) - 1
           /\ \A n \in 0 .. Cardinality(T) - 1 : \E x \in T : Ahead(F, x) = n
<1>. DEFINE N == 0 .. Cardinality(T) - 1
            f == [x \in T |-> Ahead(F, x)]
<1>1. IsFiniteSet(T) /\ Cardinality(T) \in Nat
  BY PlacesFinite
<1>2. ASSUME NEW x \in T PROVE Ahead(F, x) \in N
  <2>1. Ahead(F, x) \in Nat /\ Ahead(F, x) < Cardinality(T)
    BY FewerAhead
  <2>. QED
    BY <1>1, <2>1
<1>3. IsFiniteSet(N) /\ Cardinality(N) = Cardinality(T)
  <2>1. 0 \in Int /\ Cardinality(T) - 1 \in Int
    BY <1>1
  <2>2. /\ IsFiniteSet(N)
        /\ Cardinality(N) = IF 0 > Cardinality(T) - 1 THEN 0 ELSE (Cardinality(T) - 1) - 0 + 1
    BY <2>1, FS_Interval
  <2>. QED
    BY <1>1, <2>2
<1>4. f \in Injection(T, N)
  <2>1. ASSUME NEW x \in T, NEW y \in T, Ahead(F, x) = Ahead(F, y) PROVE x = y
    <3>1. Number(x) \in Nat /\ Number(y) \in Nat
      BY NumberTells
    <3>2. Ahead(F, x) \in Int /\ Ahead(F, y) \in Int
      BY <1>2
    <3>3. ~(Number(x) < Number(y)) /\ ~(Number(y) < Number(x))
      BY <2>1, <3>2, AheadInOrder
    <3>4. Number(x) = Number(y)
      BY <3>1, <3>3
    <3>. QED
      BY <3>4, NumberTells
  <2>2. f \in [T -> N]
    BY <1>2
  <2>. HIDE DEF N
  <2>. QED
    BY <2>1, <2>2 DEF Injection, IsInjective
<1>5. f \in Surjection(T, N)
  <2>. HIDE DEF f, N
  <2>. QED
    BY <1>1, <1>3, <1>4, FS_Injection
<1>6. \A n \in N : \E x \in T : f[x] = n
  BY <1>5 DEF Surjection
<1>. QED
  BY <1>2, <1>6

\* What the list is made of.
Found(board)  == {place \in DOMAIN board : LookedAt(board, place)}
Listed(board) == {place \in Found(board) : Ahead(Found(board), place) < MaxDevices}

LEMMA ListedFirst ==
    ASSUME PciAssumption, NEW board, DOMAIN board \subseteq Places
    PROVE  /\ \A x \in Listed(board) : \A p \in Found(board) :
                 Number(p) < Number(x) => p \in Listed(board)
           /\ Cardinality(Listed(board)) \in Nat /\ Cardinality(Listed(board)) <= MaxDevices
           /\ Cardinality(Listed(board)) < MaxDevices => Listed(board) = Found(board)
<1>. DEFINE F == Found(board)
            L == Listed(board)
<1>1. F \in SUBSET Places /\ L \in SUBSET F
  BY DEF Found, Listed
<1>2. IsFiniteSet(F) /\ Cardinality(F) \in Nat /\ IsFiniteSet(L) /\ Cardinality(L) \in Nat
  BY <1>1, PlacesFinite
<1>3. \A x \in F : Ahead(F, x) \in 0 .. Cardinality(F) - 1
  <2>1. \A x \in F : \A p \in F : Number(p) < Number(x) => p \in F
    OBVIOUS
  <2>. HIDE DEF F
  <2>. QED
    BY <1>1, <2>1, AheadCounts
<1>4. MaxDevices \in Nat
  BY DEF PciAssumption
<1>5. ASSUME NEW x \in L, NEW p \in F, Number(p) < Number(x) PROVE p \in L
  <2>1. Ahead(F, p) < Ahead(F, x)
    BY <1>1, <1>5, AheadInOrder
  <2>2. Ahead(F, x) < MaxDevices /\ Ahead(F, x) \in Int /\ Ahead(F, p) \in Int
    BY <1>1, <1>3 DEF Listed
  <2>3. Ahead(F, p) < MaxDevices
    BY <1>4, <2>1, <2>2
  <2>. QED
    BY <2>3 DEF Listed
<1>6. /\ \A x \in L : Ahead(F, x) \in 0 .. Cardinality(L) - 1
      /\ \A n \in 0 .. Cardinality(L) - 1 : \E x \in L : Ahead(F, x) = n
  BY <1>1, <1>5, AheadCounts
<1>7. Cardinality(L) <= MaxDevices
  <2>. SUFFICES ASSUME Cardinality(L) > MaxDevices PROVE FALSE
    BY <1>2, <1>4
  <2>1. PICK x \in L : Ahead(F, x) = MaxDevices
    <3>1. MaxDevices \in 0 .. Cardinality(L) - 1
      BY <1>2, <1>4
    <3>. QED
      BY <1>6, <3>1
  <2>2. Ahead(F, x) < MaxDevices
    BY DEF Listed
  <2>. QED
    BY <1>4, <2>1, <2>2
<1>8. ASSUME Cardinality(L) < MaxDevices PROVE L = F
  <2>1. Cardinality(L) <= Cardinality(F) /\ (Cardinality(L) = Cardinality(F) => L = F)
    BY <1>1, <1>2, FS_Subset
  <2>. SUFFICES ASSUME Cardinality(L) < Cardinality(F) PROVE FALSE
    BY <1>2, <2>1
  <2>2. PICK x \in F : Ahead(F, x) = Cardinality(L)
    <3>1. Cardinality(L) \in 0 .. Cardinality(F) - 1
      BY <1>2
    <3>2. \A n \in 0 .. Cardinality(F) - 1 : \E x \in F : Ahead(F, x) = n
      <4>1. \A x \in F : \A p \in F : Number(p) < Number(x) => p \in F
        OBVIOUS
      <4>. HIDE DEF F
      <4>. QED
        BY <1>1, <4>1, AheadCounts
    <3>. QED
      BY <3>1, <3>2
  <2>3. x \in L
    BY <1>8, <2>2 DEF Listed
  <2>4. Ahead(F, x) < Cardinality(L)
    BY <1>2, <1>6, <2>3
  <2>. QED
    BY <1>2, <2>2, <2>4
<1>. QED
  BY <1>2, <1>5, <1>7, <1>8

\* The list: of each place listed one entry, in the order of the places.
LEMMA ScannedIsListed ==
    ASSUME PciAssumption, NEW board, DOMAIN board \subseteq Places
    PROVE  LET list == Scanned(board)
           IN  /\ list \in Seq({Recorded(board, place) : place \in DOMAIN board})
               /\ Len(list) = Cardinality(Listed(board))
               /\ \A i \in DOMAIN list :
                     /\ list[i].place \in Listed(board)
                     /\ list[i] = Recorded(board, list[i].place)
               /\ \A i, j \in DOMAIN list :
                     i < j => Number(list[i].place) < Number(list[j].place)
               /\ Listed(board) \subseteq {list[i].place : i \in DOMAIN list}
<1>. DEFINE F == Found(board)
            L == Listed(board)
            n == Cardinality(L)
            nth(i) == CHOOSE place \in L : Ahead(F, place) = i - 1
            list == [i \in 1 .. n |-> Recorded(board, nth(i))]
<1>1. Scanned(board) = list
  BY DEF Scanned, Found, Listed
<1>2. /\ F \in SUBSET Places /\ L \in SUBSET F /\ L \subseteq DOMAIN board
      /\ n \in Nat
  BY ListedFirst DEF Found, Listed
<1>3. /\ \A x \in L : Ahead(F, x) \in 0 .. n - 1
      /\ \A k \in 0 .. n - 1 : \E x \in L : Ahead(F, x) = k
  BY <1>2, ListedFirst, AheadCounts
<1>4. ASSUME NEW i \in 1 .. n PROVE nth(i) \in L /\ Ahead(F, nth(i)) = i - 1
  <2>1. i - 1 \in 0 .. n - 1
    BY <1>2
  <2>. QED
    BY <1>3, <2>1
<1>5. ASSUME NEW x \in L, NEW y \in L, Ahead(F, x) = Ahead(F, y) PROVE x = y
  <2>1. Number(x) \in Nat /\ Number(y) \in Nat /\ x \in Places /\ y \in Places
    BY <1>2, NumberTells
  <2>2. Ahead(F, x) \in Int /\ Ahead(F, y) \in Int
    BY <1>3
  <2>3. ~(Number(x) < Number(y)) /\ ~(Number(y) < Number(x))
    BY <1>2, <1>5, <2>2, AheadInOrder
  <2>4. Number(x) = Number(y)
    BY <2>1, <2>3
  <2>. QED
    BY <2>1, <2>4, NumberTells
<1>6. ASSUME NEW x \in L PROVE \E i \in 1 .. n : nth(i) = x
  <2>1. Ahead(F, x) \in 0 .. n - 1
    BY <1>3
  <2>2. PICK i \in 1 .. n : Ahead(F, x) = i - 1
    <3>1. Ahead(F, x) + 1 \in 1 .. n /\ (Ahead(F, x) + 1) - 1 = Ahead(F, x)
      BY <1>2, <2>1
    <3>. QED
      BY <3>1
  <2>3. nth(i) \in L /\ Ahead(F, nth(i)) = Ahead(F, x)
    BY <1>4, <2>2
  <2>4. nth(i) = x
    BY <1>5, <2>3
  <2>. QED
    BY <2>4
<1>7. ASSUME NEW i \in 1 .. n, NEW j \in 1 .. n, i < j
      PROVE  Number(nth(i)) < Number(nth(j))
  <2>1. nth(i) \in L /\ nth(j) \in L /\ Ahead(F, nth(i)) < Ahead(F, nth(j))
    BY <1>4, <1>7
  <2>. PICK x, y : x = nth(i) /\ y = nth(j)
    OBVIOUS
  <2>2. Number(x) \in Nat /\ Number(y) \in Nat /\ x \in L /\ y \in L
    BY <1>2, <2>1, NumberTells
  <2>3. Ahead(F, x) < Ahead(F, y) /\ Ahead(F, x) \in Int /\ Ahead(F, y) \in Int
    BY <1>3, <2>1
  <2>4. ~(Number(y) < Number(x))
    BY <1>2, <2>2, <2>3, AheadInOrder
  <2>5. x # y
    <3>. SUFFICES ASSUME x = y PROVE FALSE
      OBVIOUS
    <3>. DEFINE a == Ahead(F, x)
    <3>1. a < a /\ a \in Int
      BY <2>3
    <3>. HIDE DEF a
    <3>. QED
      BY <3>1
  <2>6. Number(x) # Number(y)
    BY <1>2, <2>2, <2>5, NumberTells
  <2>. QED
    BY <2>2, <2>4, <2>6
<1>. HIDE DEF L, F, n, nth
<1>8. Len(list) = n /\ DOMAIN list = 1 .. n
  BY <1>2
<1>9. \A place : Recorded(board, place).place = place
  BY DEF Recorded
<1>10. list \in Seq({Recorded(board, place) : place \in DOMAIN board})
  BY <1>2, <1>4
<1>11. \A i \in 1 .. n : list[i].place = nth(i) /\ list[i] = Recorded(board, nth(i))
  BY <1>9
<1>12. L \subseteq {list[i].place : i \in DOMAIN list}
  BY <1>6, <1>8, <1>11
<1>13. /\ \A i \in DOMAIN list : list[i].place \in L /\ list[i] = Recorded(board, list[i].place)
       /\ \A i, j \in DOMAIN list : i < j => Number(list[i].place) < Number(list[j].place)
  BY <1>4, <1>7, <1>8, <1>11
<1>14. Len(list) = Cardinality(L)
  BY <1>8 DEF n
<1>. HIDE DEF list
<1>. QED
  BY <1>1, <1>10, <1>12, <1>13, <1>14 DEF L

--------------------------------------------------------------------------------
\* The least of the indices a search finds.
LEMMA LeastIsOne ==
    ASSUME NEW S \in SUBSET Nat, S # {} PROVE Min(S) \in S
<1>1. PICK m \in S : \A x \in S : ~(<<x, m>> \in OpToRel(<, Nat))
  BY NatLessThanWellFounded, WFMin
<1>2. ASSUME NEW x \in S PROVE m <= x
  <2>1. x < m => <<x, m>> \in OpToRel(<, Nat)
    BY Zenon DEF OpToRel
  <2>2. ~(x < m)
    BY <2>1, <1>1, Zenon
  <2>. QED
    BY <2>2
<1>. QED
  BY <1>2 DEF Min

\* The functions of the board, and the list of them.
BoardInv ==
    /\ DOMAIN config \subseteq Places
    /\ config \in [DOMAIN config -> Registers]
    /\ \A place \in DOMAIN config, i \in 0 .. Bars - 1 :
          /\ config[place].bars[i].base % config[place].bars[i].size = 0
          /\ AddressSpace % config[place].bars[i].size = 0
    /\ devices \in Seq({Recorded(config, place) : place \in DOMAIN config})
    /\ Len(devices) <= MaxDevices
    /\ ScanFinds

LEMMA FoundIsDevice ==
    ASSUME NEW class, devices \in Seq({Recorded(config, place) : place \in DOMAIN config}),
           FindDevice(class) # 0
    PROVE  FindDevice(class) \in DOMAIN devices
<1>. DEFINE I == {i \in 1 .. Len(devices) : devices[i].class = class}
<1>1. FindDevice(class) = IF I # {} THEN Min(I) ELSE 0
  BY DEF FindDevice, SelectInSeq
<1>2. I \in SUBSET Nat /\ I \subseteq DOMAIN devices
  OBVIOUS
<1>3. I # {} => Min(I) \in I
  <2>. HIDE DEF I
  <2>. QED
    BY <1>2, LeastIsOne
<1>. QED
  BY <1>1, <1>2, <1>3

\* A base address register's window: where the address bits end, and the address.
LEMMA Parts ==
    ASSUME NEW n \in Nat, n >= 1, NEW d \in Nat, d >= 1, n % d = 0
    PROVE  /\ (n \div d) * d = n
           /\ ((n - 1) \div d) * d = n - d
           /\ d <= n
<1>1. n = (n \div d) * d /\ n \div d \in Int
  OBVIOUS
<1>2. PICK q \in Int : n = q * d /\ q = n \div d
  BY <1>1
<1>3. q >= 1
  <2>. SUFFICES ASSUME q <= 0 PROVE FALSE
    BY <1>2
  <2>1. q * d <= 0 * d
    OBVIOUS
  <2>. QED
    BY <1>2, <2>1
<1>4. q * d >= 1 * d
  BY <1>3
<1>5. (n - 1) \div d = q - 1
  <2>. DEFINE m == (n - 1) \div d
  <2>1. m \in Nat /\ m * d <= n - 1 /\ n - 1 < (m + 1) * d
    BY AtMost
  <2>. HIDE DEF m
  <2>2. ~(m >= q)
    <3>. SUFFICES ASSUME m >= q PROVE FALSE
      OBVIOUS
    <3>1. m * d >= q * d
      BY <2>1
    <3>. QED
      BY <3>1, <1>2, <2>1
  <2>3. ~(m + 1 <= q - 1)
    <3>. SUFFICES ASSUME m + 1 <= q - 1 PROVE FALSE
      OBVIOUS
    <3>1. (m + 1) * d <= (q - 1) * d
      BY <2>1
    <3>2. (q - 1) * d = q * d - d
      OBVIOUS
    <3>. QED
      BY <3>1, <3>2, <1>2, <2>1
  <2>. QED
    BY <2>1, <2>2, <2>3 DEF m
<1>6. (q - 1) * d = q * d - d
  OBVIOUS
<1>. QED
  BY <1>1, <1>2, <1>4, <1>5, <1>6

LEMMA WindowEnds ==
    ASSUME NEW n \in Nat, n >= 1, NEW d \in Nat, d >= 1, n % d = 0,
           NEW b \in 0 .. n - 1, b % d = 0
    PROVE  b + d <= n
<1>. SUFFICES ASSUME b > n - d PROVE FALSE
  OBVIOUS
<1>1. b = (b \div d) * d /\ n = (n \div d) * d /\ b \div d \in Int /\ n \div d \in Int
  OBVIOUS
<1>2. PICK q \in Int, r \in Int : b = q * d /\ n = r * d
  BY <1>1
<1>3. CASE q >= r
  <2>1. q * d >= r * d
    BY <1>3
  <2>. QED
    BY <1>2, <2>1
<1>4. CASE q <= r - 1
  <2>1. q * d <= (r - 1) * d
    BY <1>4
  <2>2. (r - 1) * d = r * d - d
    OBVIOUS
  <2>. QED
    BY <1>2, <2>1, <2>2
<1>. QED
  BY <1>3, <1>4

--------------------------------------------------------------------------------
\* Functions that differ at most in their command registers and in the errors
\* they report.
SameFunctions ==
    /\ DOMAIN config' = DOMAIN config
    /\ config' \in [DOMAIN config -> Registers]
    /\ \A place \in DOMAIN config :
          /\ config'[place].class = config[place].class
          /\ config'[place].normal = config[place].normal
          /\ config'[place].multi = config[place].multi
          /\ config'[place].bars = config[place].bars
          /\ \/ config'[place].command = config[place].command
             \/ config'[place].command = config[place].command \cup {"memory", "master"}

\* What a driver gets to know and what it leaves.
LEMMA AttachKnows ==
    ASSUME PciAssumption, BoardInv, NEW class, NEW i \in 0 .. Bars - 1, Attach(class, i),
           NEW dev, dev = devices[FindDevice(class)],
           NEW bar, bar = config[dev.place].bars[i]
    PROVE  /\ dev.place \in DOMAIN config
           /\ bar \in BarRegisters /\ bar.base + bar.size <= AddressSpace
           /\ config[dev.place].normal /\ ~bar.io /\ bar.base # 0
           /\ BarAddress(dev, i) = bar.base /\ BarSize(dev, i) = bar.size
           /\ bar.wide => i < Bars - 1 /\ config[dev.place].bars[i + 1].base = 0
           /\ config' = config \/ config' = [config EXCEPT ![dev.place] = Enabled(@)]
<1>. DEFINE place == dev.place
            d     == bar.size
            n     == AddressSpace
<1>1. FindDevice(class) \in DOMAIN devices
  BY FoundIsDevice DEF Attach, BoardInv
<1>2. dev \in {Recorded(config, p) : p \in DOMAIN config}
  BY <1>1 DEF BoardInv
<1>3. PICK p \in DOMAIN config : dev = Recorded(config, p)
  BY <1>2
<1>4. place = p /\ place \in DOMAIN config
  BY <1>3 DEF Recorded
<1>5. config[place] \in Registers /\ bar \in BarRegisters
  <2>1. config[place] \in Registers
    BY <1>4 DEF BoardInv
  <2>. QED
    BY <2>1 DEF Registers
<1>6. /\ n \in Nat /\ n >= 1 /\ d \in Nat /\ d >= 1 /\ bar.base \in 0 .. n - 1
      /\ n % d = 0 /\ bar.base % d = 0 /\ Bars \in Nat
  <2>1. d \in 1 .. n /\ bar.base \in 0 .. n - 1 /\ n \in Nat \ {0} /\ Bars \in Nat
    BY <1>5 DEF BarRegisters, PciAssumption
  <2>2. bar.base % d = 0 /\ n % d = 0
    BY <1>4 DEF BoardInv
  <2>3. n \in Nat /\ n >= 1
    BY <2>1
  <2>4. d \in Nat /\ d >= 1
    BY <2>1
  <2>. QED
    BY <2>1, <2>2, <2>3, <2>4, Zenon
<1>7. \A j \in 0 .. Bars - 1 :
         dev.bars[j] = IF config[place].normal
                         THEN [io |-> config[place].bars[j].io,
                               wide |-> config[place].bars[j].wide,
                               base |-> config[place].bars[j].base]
                         ELSE [io |-> FALSE, wide |-> FALSE, base |-> 0]
  BY <1>3, <1>4 DEF Recorded
<1>8. BarAddress(dev, i) # 0
  BY DEF Attach
<1>9. config[place].normal /\ ~dev.bars[i].io /\ ~AboveFourGB(dev, i)
  <2>1. ~dev.bars[i].io /\ ~AboveFourGB(dev, i) /\ dev.bars[i].base # 0
    BY <1>8 DEF BarAddress
  <2>2. ASSUME ~config[place].normal PROVE dev.bars[i].base = 0
    <3>1. dev.bars[i] = [io |-> FALSE, wide |-> FALSE, base |-> 0]
      BY <1>7, <2>2, Zenon
    <3>. QED
      BY ONLY <3>1
  <2>. QED
    BY <2>1, <2>2, Zenon
<1>10. dev.bars[i] = [io |-> bar.io, wide |-> bar.wide, base |-> bar.base] /\ ~bar.io
  <2>1. dev.bars[i] = [io |-> bar.io, wide |-> bar.wide, base |-> bar.base]
    BY <1>7, <1>9, Zenon
  <2>2. [io |-> bar.io, wide |-> bar.wide, base |-> bar.base].io = bar.io
    BY ONLY TRUE
  <2>. QED
    BY <1>9, <2>1, <2>2, Zenon
<1>11. BarAddress(dev, i) = bar.base /\ bar.base # 0
  <2>1. [io |-> bar.io, wide |-> bar.wide, base |-> bar.base].base = bar.base
    BY ONLY TRUE
  <2>2. dev.bars[i].base = bar.base
    BY <1>10, <2>1, Zenon
  <2>3. BarAddress(dev, i) = bar.base
    BY <1>9, <2>2, Zenon DEF BarAddress
  <2>. QED
    BY <1>8, <2>3, Zenon
<1>12. bar.wide => i < Bars - 1 /\ config[place].bars[i + 1].base = 0
  <2>. SUFFICES ASSUME bar.wide PROVE i < Bars - 1 /\ config[place].bars[i + 1].base = 0
    OBVIOUS
  <2>1. i # Bars - 1 /\ dev.bars[i + 1].base = 0
    BY <1>9, <1>10 DEF AboveFourGB
  <2>2. i + 1 \in 0 .. Bars - 1 /\ i < Bars - 1
    <3>1. i \in 0 .. Bars - 1 /\ i # Bars - 1 /\ Bars \in Nat
      BY <1>6, <2>1
    <3>. QED
      BY ONLY <3>1
  <2>3. dev.bars[i + 1].base = config[place].bars[i + 1].base
    <3>. DEFINE next == i + 1
    <3>1. next \in 0 .. Bars - 1
      BY <2>2
    <3>. HIDE DEF next
    <3>2. dev.bars[next] = [io |-> config[place].bars[next].io,
                            wide |-> config[place].bars[next].wide,
                            base |-> config[place].bars[next].base]
      BY <1>7, <1>9, <3>1, Zenon
    <3>3. dev.bars[next].base = config[place].bars[next].base
      BY <3>2
    <3>. QED
      BY <3>3 DEF next
  <2>. QED
    BY <2>1, <2>2, <2>3
<1>13. /\ (n \div d) * d = n
       /\ ((n - 1) \div d) * d = n - d
       /\ d <= n
  BY <1>6, Parts
<1>14. Probed(dev, i) = [bar EXCEPT !.base = n - d]
  BY <1>13 DEF Probed, Written
<1>15. Probed(dev, i).base = n - d /\ Probed(dev, i).size = d
  BY <1>5, <1>14 DEF BarRegisters
<1>16. BarSize(dev, i) = d
  <2>1. BarSize(dev, i) # 0
    BY DEF Attach
  <2>2. BarSize(dev, i) = (n - (n - d)) % n /\ n - d # 0
    BY <1>15, <2>1 DEF BarSize
  <2>3. n - (n - d) = d /\ d < n
    <3>1. n \in Nat /\ d \in Nat /\ d <= n /\ n - d # 0
      BY <1>6, <1>13, <2>2
    <3>. HIDE DEF n, d
    <3>. QED
      BY <3>1
  <2>. QED
    BY <1>6, <2>2, <2>3, NoWrap
<1>17. bar.base + d <= n
  BY <1>6, WindowEnds
<1>18. PutBack(dev, i) = bar
  <2>1. (bar.base \div d) * d = bar.base
    <3>. PICK b, e : b = bar.base /\ e = d
      OBVIOUS
    <3>0. b \in 0 .. n - 1 /\ n \in Nat
      BY <1>6, Zenon
    <3>1. b \in Nat /\ e \in Nat /\ e >= 1 /\ b % e = 0
      <4>1. b \in Nat
        BY ONLY <3>0
      <4>. QED
        BY <1>6, <4>1, Zenon
    <3>2. (b \div e) * e = b
      BY ONLY <3>1
    <3>. QED
      BY <3>2
  <2>2. PutBack(dev, i) = [Probed(dev, i) EXCEPT !.base = bar.base]
    <3>1. dev.bars[i].base = bar.base
      BY <1>10
    <3>2. PutBack(dev, i) = [Probed(dev, i) EXCEPT !.base =
                               (bar.base \div Probed(dev, i).size) * Probed(dev, i).size]
      BY <3>1, Zenon DEF PutBack, Written
    <3>. QED
      BY <1>15, <2>1, <3>2
  <2>. QED
    BY <1>5, <1>14, <2>2 DEF BarRegisters
<1>. DEFINE probed == [config EXCEPT ![dev.place].bars[i] = PutBack(dev, i)]
<1>19. probed = config
  <2>1. config[place].bars \in [0 .. Bars - 1 -> BarRegisters]
    BY <1>5 DEF Registers
  <2>2. [config[place].bars EXCEPT ![i] = bar] = config[place].bars
    BY <2>1
  <2>3. [config[place] EXCEPT !.bars = config[place].bars] = config[place]
    BY <1>5 DEF Registers
  <2>4. [config EXCEPT ![place] = config[place]] = config
    BY DEF BoardInv
  <2>5. probed = [config EXCEPT ![place] =
                    [config[place] EXCEPT !.bars = [config[place].bars EXCEPT ![i] = bar]]]
    BY <1>18
  <2>6. probed = [config EXCEPT ![place] = [config[place] EXCEPT !.bars = config[place].bars]]
    BY <2>2, <2>5, Zenon
  <2>7. probed = [config EXCEPT ![place] = config[place]]
    BY <2>3, <2>6, Zenon
  <2>. QED
    BY <2>4, <2>7, Zenon
<1>20. config' = probed \/ config' = [probed EXCEPT ![dev.place] = Enabled(@)]
  BY DEF Attach
<1>. QED
  BY <1>4, <1>5, <1>9, <1>10, <1>11, <1>12, <1>16, <1>17, <1>19, <1>20

LEMMA AttachSame ==
    ASSUME PciAssumption, BoardInv, NEW class, NEW i \in 0 .. Bars - 1, Attach(class, i)
    PROVE  SameFunctions
<1>. DEFINE place == devices[FindDevice(class)].place
<1>1. /\ place \in DOMAIN config
      /\ config' = config \/ config' = [config EXCEPT ![place] = Enabled(@)]
  BY AttachKnows
<1>2. config \in [DOMAIN config -> Registers]
  BY DEF BoardInv
<1>3. CASE config' = config
  BY <1>2, <1>3 DEF SameFunctions
<1>4. CASE config' = [config EXCEPT ![place] = Enabled(@)]
  <2>1. \A registers \in Registers :
          /\ Enabled(registers) \in Registers
          /\ Enabled(registers).class = registers.class
          /\ Enabled(registers).normal = registers.normal
          /\ Enabled(registers).multi = registers.multi
          /\ Enabled(registers).bars = registers.bars
          /\ Enabled(registers).command = registers.command \cup {"memory", "master"}
    BY DEF Registers, Enabled
  <2>. HIDE DEF place
  <2>2. \A p \in DOMAIN config : config'[p] = IF p = place THEN Enabled(config[p]) ELSE config[p]
    BY <1>2, <1>4
  <2>3. DOMAIN config' = DOMAIN config
    BY <1>4
  <2>4. \A p \in DOMAIN config : config[p] \in Registers
    BY <1>2
  <2>5. \A p \in DOMAIN config : config'[p] \in Registers
    BY <2>1, <2>2, <2>4
  <2>6. config' = [p \in DOMAIN config |-> config'[p]]
    BY <1>4
  <2>7. config' \in [DOMAIN config -> Registers]
    BY <2>5, <2>6
  <2>8. ASSUME NEW p \in DOMAIN config
        PROVE  /\ config'[p].class = config[p].class
               /\ config'[p].normal = config[p].normal
               /\ config'[p].multi = config[p].multi
               /\ config'[p].bars = config[p].bars
               /\ \/ config'[p].command = config[p].command
                  \/ config'[p].command = config[p].command \cup {"memory", "master"}
    BY <2>1, <2>2, <2>4
  <2>. QED
    BY <2>3, <2>7, <2>8 DEF SameFunctions
<1>. QED
  BY <1>1, <1>3, <1>4

\* What the scan leaves.
LEMMA ScanInv ==
    ASSUME PciAssumption, BoardInv, PciScan PROVE BoardInv'
<1>. DEFINE list == Scanned(config)
<1>1. /\ config' = config /\ devices' = list
  BY DEF PciScan
<1>2. DOMAIN config \subseteq Places
  BY DEF BoardInv
<1>3. /\ list \in Seq({Recorded(config, place) : place \in DOMAIN config})
      /\ Len(list) = Cardinality(Listed(config))
      /\ \A i \in DOMAIN list :
            list[i].place \in Listed(config) /\ list[i] = Recorded(config, list[i].place)
      /\ \A i, j \in DOMAIN list : i < j => Number(list[i].place) < Number(list[j].place)
      /\ Listed(config) \subseteq {list[i].place : i \in DOMAIN list}
  BY <1>2, ScannedIsListed
<1>4. /\ Len(list) <= MaxDevices
      /\ Len(list) < MaxDevices => Listed(config) = Found(config)
  BY <1>2, <1>3, ListedFirst
<1>5. Found(config) = OnBoard
  <2>1. \A place \in Places : place.function # 0 <=> place # [place EXCEPT !.function = 0]
    BY DEF Places
  <2>. QED
    BY <1>2, <2>1 DEF Found, OnBoard, LookedAt
<1>. HIDE DEF list
<1>6. ScanFinds'
  <2>0. OnBoard' = OnBoard
    BY <1>1 DEF OnBoard
  <2>1. ASSUME NEW i \in DOMAIN list
        PROVE  /\ list[i].place \in OnBoard
               /\ config[list[i].place].normal =>
                     \A b \in 0 .. Bars - 1 :
                         list[i].bars[b].base = config[list[i].place].bars[b].base
    <3>1. list[i].place \in OnBoard
      BY <1>3, <1>5 DEF Listed
    <3>2. list[i].bars = Recorded(config, list[i].place).bars
      BY <1>3
    <3>. PICK p : p = list[i].place
      OBVIOUS
    <3>3. ASSUME config[p].normal, NEW b \in 0 .. Bars - 1
          PROVE  Recorded(config, p).bars[b].base = config[p].bars[b].base
      BY ONLY <3>3 DEF Recorded
    <3>. QED
      BY <3>1, <3>2, <3>3, Zenon
  <2>2. ASSUME Len(list) < MaxDevices
        PROVE  OnBoard = {list[i].place : i \in DOMAIN list}
    <3>1. OnBoard = Listed(config)
      BY <1>4, <1>5, <2>2
    <3>. QED
      BY <1>3, <3>1
  <2>. QED
    BY <1>1, <1>3, <2>0, <2>1, <2>2 DEF ScanFinds
<1>. QED
  BY <1>1, <1>3, <1>4, <1>6 DEF BoardInv

\* Nothing a driver does to the functions makes the list wrong.
LEMMA SameInv ==
    ASSUME BoardInv, SameFunctions, UNCHANGED <<devices, scanned>> PROVE BoardInv'
<1>1. ASSUME NEW place \in DOMAIN config
      PROVE  Recorded(config', place) = Recorded(config, place)
  BY <1>1 DEF SameFunctions, Recorded
<1>2. DOMAIN config' = DOMAIN config
  BY DEF SameFunctions
<1>3. {Recorded(config', place) : place \in DOMAIN config'} =
        {Recorded(config, place) : place \in DOMAIN config}
  BY <1>1, <1>2
<1>4. OnBoard' = OnBoard
  BY <1>2 DEF SameFunctions, OnBoard
<1>5. ScanFinds'
  <2>. SUFFICES ASSUME scanned PROVE ScanFinds'
    BY DEF ScanFinds
  <2>1. ASSUME NEW j \in DOMAIN devices
        PROVE  LET place == devices[j].place
               IN  /\ place \in OnBoard
                   /\ config'[place].normal =>
                        \A b \in 0 .. Bars - 1 :
                            devices[j].bars[b].base = config'[place].bars[b].base
    <3>1. devices[j].place \in OnBoard /\ OnBoard \subseteq DOMAIN config
      BY DEF BoardInv, ScanFinds, OnBoard
    <3>. QED
      BY <3>1 DEF BoardInv, ScanFinds, SameFunctions
  <2>. QED
    BY <1>4, <2>1 DEF BoardInv, ScanFinds
<1>. QED
  BY <1>2, <1>3, <1>5 DEF BoardInv, SameFunctions

LEMMA BoardStepInv ==
    ASSUME PciAssumption, BoardInv, [MachineNext]_machine_vars
    PROVE  BoardInv' /\ SameFunctions
<1>1. ASSUME ScanBoard PROVE BoardInv' /\ SameFunctions
  <2>1. PciScan
    BY <1>1 DEF ScanBoard
  <2>. QED
    BY <2>1, ScanInv DEF PciScan, SameFunctions, BoardInv
<1>2. ASSUME NEW class, NEW i \in 0 .. Bars - 1, Attach(class, i)
      PROVE  BoardInv' /\ SameFunctions
  <2>1. SameFunctions
    BY <1>2, AttachSame
  <2>2. UNCHANGED <<devices, scanned>>
    BY <1>2, Zenon DEF Attach
  <2>. QED
    BY <2>1, <2>2, SameInv
<1>3. ASSUME MapAtBoot \/ MapOther \/ RunElf \/ UNCHANGED machine_vars
      PROVE  BoardInv' /\ SameFunctions
  <2>1. UNCHANGED <<config, devices, scanned>>
    BY <1>3, Zenon DEF MapAtBoot, MapOther, RunElf, machine_vars, pci_vars
  <2>2. SameFunctions
    BY <2>1 DEF SameFunctions, BoardInv
  <2>. QED
    BY <2>1, <2>2, SameInv
<1>. QED
  BY <1>1, <1>2, <1>3, Zenon DEF MachineNext

LEMMA BoardInitInv == ASSUME PciAssumption, MachineInit PROVE BoardInv
<1>1. config \in Boards /\ devices = <<>> /\ scanned = FALSE
  BY DEF MachineInit, PciInit
<1>2. ScanFinds
  BY <1>1 DEF ScanFinds
<1>. QED
  BY <1>1, <1>2 DEF BoardInv, PciAssumption

\* The list always has what the drivers rely on.
THEOREM MachineBoardInv == MachineSpec => []BoardInv
<1>1. MachineInit => BoardInv
  BY BoardInitInv, PciAssumption
<1>2. BoardInv /\ [MachineNext]_machine_vars => BoardInv'
  BY BoardStepInv, PciAssumption
<1>. QED
  BY <1>1, <1>2, PTL DEF MachineSpec

\* pci.h:35-38: once the bus has been scanned the list holds the functions of the
\* board, in order and none twice, as they are, whatever drivers have done to
\* them since; it is short of one only if it is full.
THEOREM MachineScanFinds == MachineSpec => []ScanFinds
<1>1. BoardInv => ScanFinds
  BY DEF BoardInv
<1>. QED
  BY <1>1, MachineBoardInv, PTL

\* pci.h:56-71: a driver that asks for the size of its registers and switches its
\* function on changes nothing else in the configuration of any function, and
\* neither does anything else.
THEOREM MachineOnlyEnables == MachineSpec => OnlyEnables
<1>1. BoardInv /\ [MachineNext]_machine_vars =>
        [\A place \in DOMAIN config :
            /\ config'[place].bars = config[place].bars
            /\ \/ config'[place].command = config[place].command
               \/ config'[place].command = config[place].command \cup {"memory", "master"}]_machine_vars
  BY BoardStepInv, PciAssumption DEF SameFunctions
<1>. QED
  BY <1>1, MachineBoardInv, PTL DEF MachineSpec, OnlyEnables

--------------------------------------------------------------------------------
\* The windows of a board's functions, but for those whose registers have no
\* address, end below the last slot.
WindowsFit(board) ==
    \A place \in DOMAIN board, i \in 0 .. Bars - 1 :
        LET bar == board[place].bars[i]
        IN  board[place].normal /\ ~bar.io /\ bar.base # 0 =>
               Fits([addr |-> bar.base, size |-> bar.size])

\* What may be asked for: the assumption the promise of paging.c needs.
AllFits ==
    /\ \A region \in Regions : Fits(region)
    /\ \A board \in Boards : WindowsFit(board)

\* The window of a base address register.
Window(bar) == [addr |-> bar.base, size |-> bar.size]

\* What drivers were promised is there, and each of them was promised the window
\* it uses.
DriverInv ==
    /\ PromisedIsMapped
    /\ WindowsFit(config)
    /\ driven \subseteq [place : DOMAIN config, bar : 0 .. Bars - 1]
    /\ \A used \in driven :
          LET registers == config[used.place].bars
              bar       == registers[used.bar]
          IN  /\ bar.wide => used.bar < Bars - 1 /\ registers[used.bar + 1].base = 0
              /\ bar.base + bar.size <= AddressSpace
              /\ SlotsOf(Window(bar)) \subseteq promised

\* Nothing takes a promise back.
LEMMA PromisesStay == ASSUME [MachineNext]_machine_vars PROVE promised \subseteq promised'
<1>1. MapStep => promised \subseteq promised'
  BY DEF MapStep, PagingInit, PagingMapRegion
<1>. QED
  BY <1>1, MachineMaps DEF vars

LEMMA PromiseStep ==
    ASSUME PagingAssumption, PciAssumption, PagingInv, BoardInv, DriverInv, AllFits,
           [MachineNext]_machine_vars
    PROVE  PromisedIsMapped'
<1>1. ASSUME NEW region \in [addr : Nat, size : Nat], Fits(region), PagingMapRegion(region)
      PROVE  PromisedIsMapped'
  BY <1>1, MapStepPromises DEF PromisedIsMapped, DriverInv
<1>2. ASSUME NEW region, PagingInit(region) PROVE PromisedIsMapped'
  BY <1>2 DEF PagingInit, PagingInv, DriverInv, PromisedIsMapped
<1>3. ASSUME MapAtBoot PROVE PromisedIsMapped'
  BY <1>2, <1>3, Zenon DEF MapAtBoot
<1>4. ASSUME MapOther PROVE PromisedIsMapped'
  <2>1. PICK region \in Regions : PagingMapRegion(region)
    BY <1>4, Zenon DEF MapOther
  <2>2. region \in [addr : Nat, size : Nat] /\ Fits(region)
    BY DEF PagingAssumption, AllFits
  <2>. QED
    BY <1>1, <2>1, <2>2
<1>5. ASSUME NEW class, NEW i \in 0 .. Bars - 1, Attach(class, i) PROVE PromisedIsMapped'
  <2>. DEFINE dev == devices[FindDevice(class)]
              bar == config[dev.place].bars[i]
  <2>1. /\ dev.place \in DOMAIN config /\ bar \in BarRegisters
        /\ config[dev.place].normal /\ ~bar.io /\ bar.base # 0
        /\ BarAddress(dev, i) = bar.base /\ BarSize(dev, i) = bar.size
    BY <1>5, AttachKnows
  <2>2. PagingMapRegion(Window(bar))
    BY <1>5, <2>1 DEF Attach, Window
  <2>3. Fits(Window(bar))
    BY <2>1 DEF DriverInv, WindowsFit, Window
  <2>4. Window(bar) \in [addr : Nat, size : Nat]
    BY <2>1 DEF BarRegisters, Window
  <2>. QED
    BY <1>1, <2>2, <2>3, <2>4
<1>6. ASSUME ScanBoard \/ RunElf \/ UNCHANGED machine_vars PROVE PromisedIsMapped'
  BY <1>6 DEF ScanBoard, RunElf, machine_vars, vars, DriverInv, PromisedIsMapped, Present
<1>. QED
  BY <1>3, <1>4, <1>5, <1>6, Zenon DEF MachineNext

\* A driver that goes on has been promised its window.
LEMMA AttachPromised ==
    ASSUME PagingAssumption, PciAssumption, BoardInv,
           NEW class, NEW i \in 0 .. Bars - 1, Attach(class, i),
           NEW used, used \in driven', used \notin driven
    PROVE  LET registers == config[used.place].bars
               bar       == registers[used.bar]
           IN  /\ used \in [place : DOMAIN config, bar : 0 .. Bars - 1]
               /\ bar.wide => used.bar < Bars - 1 /\ registers[used.bar + 1].base = 0
               /\ bar.base + bar.size <= AddressSpace
               /\ SlotsOf(Window(bar)) \subseteq promised'
<1>. DEFINE dev == devices[FindDevice(class)]
            bar == config[dev.place].bars[i]
<1>1. /\ dev.place \in DOMAIN config /\ bar.base + bar.size <= AddressSpace
      /\ BarAddress(dev, i) = bar.base /\ BarSize(dev, i) = bar.size
      /\ bar.wide => i < Bars - 1 /\ config[dev.place].bars[i + 1].base = 0
  BY AttachKnows
<1>2. PagingMapRegion(Window(bar))
  BY <1>1 DEF Attach, Window
<1>3. used = [place |-> dev.place, bar |-> i] /\ MapReturnsOne(page_directory, Window(bar))
  BY <1>1 DEF Attach, Window
<1>4. SlotsOf(Window(bar)) \subseteq promised'
  BY <1>2, <1>3 DEF PagingMapRegion
<1>. QED
  BY <1>1, <1>3, <1>4

LEMMA DriverStepInv ==
    ASSUME PagingAssumption, PciAssumption, PagingInv, BoardInv, DriverInv, AllFits,
           [MachineNext]_machine_vars
    PROVE  DriverInv'
<1>1. SameFunctions /\ promised \subseteq promised'
  BY BoardStepInv, PromisesStay
<1>2. PromisedIsMapped'
  BY PromiseStep
<1>3. WindowsFit(config)'
  BY <1>1 DEF SameFunctions, DriverInv, WindowsFit
<1>. DEFINE Good(used) ==
        LET registers == config[used.place].bars
            bar       == registers[used.bar]
        IN  /\ used \in [place : DOMAIN config, bar : 0 .. Bars - 1]
            /\ bar.wide => used.bar < Bars - 1 /\ registers[used.bar + 1].base = 0
            /\ bar.base + bar.size <= AddressSpace
            /\ SlotsOf(Window(bar)) \subseteq promised'
<1>4. ASSUME NEW used \in driven PROVE Good(used)
  <2>1. used \in [place : DOMAIN config, bar : 0 .. Bars - 1]
    BY DEF DriverInv
  <2>2. SlotsOf(Window(config[used.place].bars[used.bar])) \subseteq promised'
    BY <1>1 DEF DriverInv
  <2>. QED
    BY <2>1, <2>2 DEF DriverInv
<1>5. ASSUME NEW used \in driven', used \notin driven PROVE Good(used)
  <2>1. PICK class \in Classes, i \in 0 .. Bars - 1 : Attach(class, i)
    <3>1. driven' # driven
      BY <1>5
    <3>2. MapAtBoot \/ ScanBoard \/ MapOther \/ RunElf \/ UNCHANGED machine_vars
            => driven' = driven
      BY Zenon DEF machine_vars, MapAtBoot, MapOther, ScanBoard, RunElf
    <3>. QED
      BY <3>1, <3>2 DEF MachineNext
  <2>. QED
    BY <1>5, <2>1, AttachPromised
<1>6. \A used \in driven' : Good(used)
  BY <1>4, <1>5
<1>7. ASSUME NEW used \in driven'
      PROVE  LET registers == config'[used.place].bars
                 bar       == registers[used.bar]
             IN  /\ used \in [place : DOMAIN config', bar : 0 .. Bars - 1]
                 /\ bar.wide => used.bar < Bars - 1 /\ registers[used.bar + 1].base = 0
                 /\ bar.base + bar.size <= AddressSpace
                 /\ SlotsOf(Window(bar)) \subseteq promised'
  <2>1. used.place \in DOMAIN config
    BY <1>6
  <2>2. config'[used.place].bars = config[used.place].bars /\ DOMAIN config' = DOMAIN config
    BY <1>1, <2>1 DEF SameFunctions
  <2>. QED
    BY <1>6, <2>2
<1>. QED
  BY <1>2, <1>3, <1>7 DEF DriverInv, SlotsOf, Window

\* What a driver relies on: it was promised its window, and that is kept.
THEOREM MachineDriverInv ==
    ASSUME AllFits
    PROVE  MachineSpec => []DriverInv
<1>1. MachineInit => DriverInv
  <2>. SUFFICES ASSUME MachineInit PROVE DriverInv
    OBVIOUS
  <2>1. promised = {} /\ driven = {} /\ config \in Boards
    BY DEF MachineInit, Init, PciInit
  <2>. QED
    BY <2>1 DEF DriverInv, PromisedIsMapped, AllFits
<1>2. PagingInv /\ BoardInv /\ DriverInv /\ [MachineNext]_machine_vars => DriverInv'
  BY DriverStepInv, PagingAssumption, PciAssumption
<1>. QED
  BY <1>1, <1>2, MachinePagingInv, MachineBoardInv, PTL DEF MachineSpec

\* paging.c:54: what a driver or another caller was told is mapped is present to
\* its last byte, as long as nobody asks for the last slot, which the clamp at
\* paging.c:68 leaves out.
THEOREM MachinePromised ==
    ASSUME AllFits
    PROVE  MachineSpec => []PromisedIsMapped
<1>1. DriverInv => PromisedIsMapped
  BY DEF DriverInv
<1>. QED
  BY <1>1, MachineDriverInv, PTL

\* paging.h:12-19, pci.h:37-70: a function that decodes memory for a driver does so
\* at addresses below 4 GB which do not fault, to the last byte of its window,
\* under the same condition.
THEOREM MachineDriverReaches ==
    ASSUME AllFits
    PROVE  MachineSpec => []DriverReaches
<1>1. BoardInv /\ DriverInv => DriverReaches
  <2>. SUFFICES ASSUME BoardInv, DriverInv, NEW used \in driven
                PROVE  LET registers == config[used.place].bars
                           bar       == registers[used.bar]
                       IN  /\ bar.wide => used.bar < Bars - 1 /\ registers[used.bar + 1].base = 0
                           /\ bar.base .. bar.base + bar.size - 1 \subseteq Mapped
    BY DEF DriverReaches
  <2>. DEFINE bar == config[used.place].bars[used.bar]
  <2>1. used \in [place : DOMAIN config, bar : 0 .. Bars - 1]
    BY DEF DriverInv
  <2>2. config[used.place] \in Registers
    BY <2>1 DEF BoardInv
  <2>3. bar \in BarRegisters
    BY <2>1, <2>2 DEF Registers
  <2>4. /\ bar.base + bar.size <= AddressSpace
        /\ SlotsOf(Window(bar)) \subseteq Present(page_directory)
    BY DEF DriverInv, PromisedIsMapped
  <2>5. bar.base \in Nat /\ bar.size \in Nat /\ AddressSpace \in Nat
    BY <2>3, PciAssumption DEF BarRegisters, PciAssumption
  <2>6. ASSUME NEW a \in bar.base .. bar.base + bar.size - 1 PROVE a \in Mapped
    <3>1. a \in Memory
      <4>1. Memory = 0 .. AddressSpace - 1
        BY MachineAssumption DEF MachineAssumption
      <4>. PICK b, d : b = bar.base /\ d = bar.size
        OBVIOUS
      <4>2. b \in Nat /\ d \in Nat /\ AddressSpace \in Nat /\ b + d <= AddressSpace
        BY <2>4, <2>5
      <4>3. a \in b .. b + d - 1
        BY <2>6
      <4>. QED
        BY ONLY <4>1, <4>2, <4>3
    <3>2. a \div Span \in SlotsOf(Window(bar))
      BY <2>6 DEF SlotsOf, Window
    <3>. QED
      BY <2>4, <3>1, <3>2 DEF Mapped
  <2>. QED
    BY <2>6 DEF DriverInv
<1>. QED
  BY <1>1, MachineBoardInv, MachineDriverInv, PTL

--------------------------------------------------------------------------------
\* The types that the other invariants do not mention.
TypeInv ==
    /\ page_directory \in
          [Slots -> {NotPresent} \cup {Low(i) : i \in 0 .. TablesNeeded - 1}
                                 \cup {Extra(i) : i \in Pool}]
    /\ LoaderTypeOK

\* Of the bytes of a segment that go to an address one is the last.
LEMMA GreatestIsOne ==
    ASSUME NEW n \in Nat, NEW S, S \subseteq 0 .. n, S # {}
    PROVE  (CHOOSE b \in S : \A w \in S : w <= b) \in S
<1>. DEFINE T == {n - x : x \in S}
<1>1. T \in SUBSET Nat /\ T # {}
  <2>1. \A x \in 0 .. n : n - x \in Nat
    OBVIOUS
  <2>2. \A x \in S : n - x \in Nat
    BY <2>1, Zenon
  <2>3. PICK x \in S : TRUE
    OBVIOUS
  <2>4. n - x \in T
    OBVIOUS
  <2>. QED
    BY <2>2, <2>4
<1>2. PICK m \in T : \A x \in T : ~(<<x, m>> \in OpToRel(<, Nat))
  <2>. HIDE DEF T
  <2>. QED
    BY <1>1, NatLessThanWellFounded, WFMin
<1>3. ASSUME NEW x \in T PROVE m <= x
  <2>1. x < m => <<x, m>> \in OpToRel(<, Nat)
    <3>1. x \in Nat /\ m \in Nat
      BY <1>1
    <3>. QED
      BY <3>1, Zenon DEF OpToRel
  <2>2. ~(x < m)
    BY <2>1, <1>2, Zenon
  <2>3. x \in Int /\ m \in Int
    BY <1>1
  <2>. QED
    BY ONLY <2>2, <2>3
<1>4. PICK b \in S : m = n - b
  BY <1>2
<1>5. ASSUME NEW w \in S PROVE w <= b
  <2>1. m <= n - w
    BY <1>3
  <2>2. w \in Int /\ b \in Int
    OBVIOUS
  <2>. QED
    BY ONLY <1>4, <2>1, <2>2, n \in Nat
<1>. QED
  BY <1>5

\* What CopySegment puts anywhere is a byte of the file, or zero.
LEMMA CopyTypes ==
    ASSUME LoaderAssumption, LoaderTypeOK, NEW mapped, CopySegment(mapped)
    PROVE  LoaderTypeOK'
<1>. DEFINE ph        == image.segments[segment]
            faults    == {b \in 0 .. Extent(ph) - 1 : Address(ph, b) \notin mapped}
            upTo      == IF faults = {} THEN Extent(ph)
                         ELSE CHOOSE b \in faults : \A f \in faults : b <= f
            writes(x) == {b \in 0 .. upTo - 1 : Address(ph, b) = x}
            top(x)    == CHOOSE b \in writes(x) : \A w \in writes(x) : w <= b
<1>1. /\ runelf = "load" /\ image' = image /\ buffer' = buffer /\ segment' = segment + 1
      /\ segment <= Len(image.segments) /\ image \in Images /\ buffer = TRUE
      /\ segment \in 1 .. Len(image.segments) + 1 /\ memory \in [Memory -> Nat \cup {Other, Zero}]
  BY DEF CopySegment, AtSegment, LoaderTypeOK
<1>2. /\ memory' = [x \in Memory |-> IF writes(x) = {} THEN memory[x] ELSE Byte(ph, top(x))]
      /\ runelf' = IF faults = {} THEN runelf ELSE "faulted"
  BY DEF CopySegment
<1>3. Len(image.segments) \in Nat /\ ph.memsz \in Nat /\ ph.offset \in Nat
  <2>1. segment \in DOMAIN image.segments
    BY <1>1, SegmentTypes
  <2>. QED
    BY <1>1, <2>1, SegmentTypes
<1>4. Extent(ph) \in Nat
  BY <1>3 DEF Extent
<1>5. upTo \in Nat
  <2>1. ASSUME faults # {} PROVE upTo \in faults
    <3>1. faults \in SUBSET Nat
      BY <1>4
    <3>2. upTo = CHOOSE b \in faults : \A f \in faults : b <= f
      BY <2>1
    <3>. HIDE DEF faults, upTo
    <3>3. Min(faults) \in faults
      BY <2>1, <3>1, LeastIsOne
    <3>. QED
      BY <3>2, <3>3 DEF Min
  <2>. QED
    BY <1>4, <2>1
<1>6. ASSUME NEW x \in Memory, writes(x) # {} PROVE Byte(ph, top(x)) \in Nat \cup {Other, Zero}
  <2>. DEFINE w == writes(x)
  <2>1. w \subseteq 0 .. upTo /\ w # {} /\ w \subseteq Nat
    <3>. HIDE DEF upTo, faults
    <3>. QED
      BY <1>5, <1>6
  <2>2. top(x) \in w
    <3>. HIDE DEF w, upTo, faults
    <3>1. (CHOOSE b \in w : \A v \in w : v <= b) \in w
      BY <1>5, <2>1, GreatestIsOne
    <3>. QED
      BY <3>1 DEF w
  <2>3. top(x) \in Nat
    <3>. HIDE DEF w, top
    <3>. QED
      BY <2>1, <2>2
  <2>. HIDE DEF top
  <2>. QED
    BY <1>3, <2>3 DEF Byte
<1>. HIDE DEF writes, top, upTo, faults, ph
<1>7. memory' \in [Memory -> Nat \cup {Other, Zero}]
  BY <1>1, <1>2, <1>6
<1>8. segment' \in 1 .. Len(image.segments) + 1
  BY <1>1, <1>3
<1>. QED
  BY <1>1, <1>2, <1>7, <1>8 DEF LoaderTypeOK

LEMMA LoaderStepTypes ==
    ASSUME LoaderAssumption, LoaderTypeOK, RunElf PROVE LoaderTypeOK'
<1>1. ASSUME NEW file \in Images, StartLoad(file) PROVE LoaderTypeOK'
  <2>1. Len(file.segments) \in Nat
    BY SegmentTypes
  <2>2. 1 \in 1 .. Len(file.segments) + 1
    BY <2>1
  <2>. QED
    BY <1>1, <2>2 DEF StartLoad, LoaderTypeOK
<1>2. ASSUME RejectHeader \/ RejectSegment \/ Returns \/ Call PROVE LoaderTypeOK'
  BY <1>2 DEF RejectHeader, RejectSegment, Returns, Reject, Call, LoaderTypeOK, AtSegment
<1>3. ASSUME SkipSegment PROVE LoaderTypeOK'
  <2>1. Len(image.segments) \in Nat
    BY SegmentTypes DEF LoaderTypeOK
  <2>2. segment + 1 \in 1 .. Len(image.segments) + 1
    BY <1>3, <2>1 DEF SkipSegment, AtSegment, LoaderTypeOK
  <2>. QED
    BY <1>3, <2>2 DEF SkipSegment, LoaderTypeOK
<1>. QED
  BY <1>1, <1>2, <1>3, CopyTypes DEF RunElf, LoaderSteps

\* The types of the machine's state, under the same condition: a promise for the
\* last slot could wrap around.
THEOREM MachineTypes ==
    ASSUME AllFits
    PROVE  MachineSpec => []MachineTypeOK
<1>1. MachineInit => TypeInv
  <2>. SUFFICES ASSUME MachineInit PROVE TypeInv
    OBVIOUS
  <2>1. page_directory = [slot \in Slots |-> NotPresent]
    BY DEF MachineInit, Init
  <2>2. LoaderTypeOK
    <3>1. image \in Images /\ segment = 1 /\ buffer = FALSE /\ runelf = "prompt"
          /\ memory = [a \in Memory |-> Other]
      BY DEF MachineInit, LoaderInit
    <3>2. Len(image.segments) \in Nat
      BY <3>1, SegmentTypes, LoaderAssumption
    <3>3. segment \in 1 .. Len(image.segments) + 1
      BY <3>1, <3>2
    <3>4. memory \in [Memory -> Nat \cup {Other, Zero}]
      BY <3>1
    <3>. QED
      BY <3>1, <3>3, <3>4, Zenon DEF LoaderTypeOK
  <2>. QED
    BY <2>1, <2>2 DEF TypeInv
<1>2. PagingInv /\ TypeInv /\ [MachineNext]_machine_vars => TypeInv'
  <2>. SUFFICES ASSUME PagingInv, TypeInv, [MachineNext]_machine_vars PROVE TypeInv'
    OBVIOUS
  <2>1. LoaderTypeOK'
    <3>1. RunElf \/ UNCHANGED loader_vars
      BY Zenon DEF MachineNext, MapAtBoot, ScanBoard, MapOther, Attach, machine_vars
    <3>2. UNCHANGED loader_vars => LoaderTypeOK'
      BY DEF loader_vars, LoaderTypeOK, TypeInv
    <3>. QED
      BY <3>1, <3>2, LoaderStepTypes, LoaderAssumption DEF TypeInv
  <2>2. CASE MapStep
    <3>1. DirSound(page_directory)'
      <4>1. PagingInv'
        BY <2>2, MapStepInv, PagingAssumption
      <4>2. paging_on' = TRUE
        BY <2>2 DEF MapStep, PagingInit, PagingMapRegion, PagingInv
      <4>. QED
        BY <4>1, <4>2 DEF PagingInv
    <3>. QED
      BY <2>1, <3>1 DEF TypeInv, DirSound
  <2>3. CASE UNCHANGED vars
    BY <2>1, <2>3 DEF TypeInv, vars
  <2>. QED
    BY <2>2, <2>3, MachineMaps
<1>3. PagingInv /\ BoardInv /\ DriverInv /\ TypeInv => MachineTypeOK
  <2>. SUFFICES ASSUME PagingInv, BoardInv, DriverInv, TypeInv PROVE MachineTypeOK
    OBVIOUS
  <2>1. promised \subseteq Slots
    BY DEF DriverInv, PromisedIsMapped, Present
  <2>2. PagingTypeOK
    BY <2>1 DEF PagingTypeOK, PagingInv, PoolSound, TypeInv
  <2>. QED
    BY <2>2 DEF MachineTypeOK, BoardInv, DriverInv, TypeInv
<1>. QED
  BY <1>1, <1>2, <1>3, MachinePagingInv, MachineBoardInv, MachineDriverInv, PTL DEF MachineSpec
================================================================================
