# A verification project for aldise (AlderKernel)

`aldise` is a small 32-bit x86 kernel: it boots through GRUB/Multiboot on one
processor, manages physical memory, page tables and a heap, scans the PCI bus,
reads a PS/2 keyboard by interrupt, runs a shell in ring 0 on a text or
framebuffer console, loads ELF programs, and keeps files in an in-RAM tree and on
a FAT16 disk behind a polled ATA driver. It has no tests. This directory holds
TLA+ models of its stateful parts, their TLC configurations, and proofs checked
by TLAPS.

The code has one thread of control, interrupted by one interrupt (IRQ1;
`pic.c:24-28` masks all others). Concurrency is therefore confined to the
keyboard buffer; elsewhere what is hard is long sequences of legal calls,
boundaries, memory that runs out halfway, errors of the drive, and a power cut
between two writes.

## Inventory

| component | state | operations | used by | what is hard, and what makes it right |
|---|---|---|---|---|
| physical memory manager `mm/pmm.c` | `bitmap`, `free_pages_count` | `pmm_init`, `pmm_alloc_page`, `pmm_free_page` | heap, `meminfo` | overlapping memory maps, double release; the counter equals the bitmap, the kernel image is never given out, no page is owned twice |
| heap `mm/heap.c` | block list, `used_bytes`, `free_bytes` | `heap_init`, `heap_extend`, `kmalloc`, `kfree` | VFS, syscall 2, `catdisk`, `runelf`, `meminfo` | splits, merges and extensions in any order; the blocks tile the heap's pages in address order, no grant overlaps another |
| boot `init.h`, `initramfs.c` | the loader's tags | `mb2_find_tag`, the order of initialisation | | tags of any size before the map; memory that runs out during initialisation |
| in-RAM VFS `fs/vfs.c` | five nodes, current directory | `vfs_init`, `cd`, `ls`, `cat`, `pwd` | shell | a tree that was only half built; `cd` never leaves the tree and `pwd` names the way back |
| paging `mm/paging.c` | `page_directory`, `extra_page_tables`, `next_extra_table` | `paging_init`, `paging_map_region` | boot; drivers later (nobody calls `paging_map_region` yet) | exhausted pool, overlapping regions, wrapping addresses; the mapping is the identity and entries are only ever added |
| PCI `drivers/pci.c` | the device list; the devices' registers | `pci_scan`, `pci_find_device`, `pci_get_bar_address`, `pci_get_bar_size`, `pci_enable_device` | boot, drivers later | echoes of single-function devices, a full list, 64-bit registers; the size probe puts back what it overwrote |
| ELF loader `elf/elf32.c` | the memory it copies to | `elf32_load`, `elf32_run` | `runelf` | overlapping, rejected and unmapped segments; what is called is the image |
| keyboard ring and interrupt stub `drivers/ps2.c`, `idt/idt_asm.asm` | `key_buffer`, head, tail; the registers | `key_buffer_push`, `key_buffer_pop`, `keyboard_stub` | shell, `loop` | the interrupt between any two instructions; keys come out in order, none twice, none invented, none stuck |
| scan code decoder `drivers/ps2.c` | `shift_held`, `capslock_on`, `extended_prefix` | `keyboard_handler` | the ring | sequences of make and break codes |
| console `print.c` | cells, cursor, colours | `print_char`, `print_text`, `print_backspace`, scrolling, `clear_screen` | everything that prints | wrapping and scrolling under a line that is being edited; two back ends |
| shell `shell/shell.c` | `shell_buffer`, history ring, browse index | `shell_start`, `history_add`, `history_get`, `redraw_line`, `command_loop` | `interpret_command` | a full line, a full history, browsing and editing mixed; loops within loops |
| FAT16 volume `fs/fat16.c` | the sectors of the disk, `vol`, `mounted` | format, mount, mkdir, create, read, list, find | the disk commands | an error or a power cut between any two sector accesses |
| ATA driver `drivers/ata.c` | the drive's status | identify, read, write | FAT16, MBR | time-outs, errors that stick, writes reported early |
| MBR `fs/mbr.c`, installer `shell/sysinfo_commands.c` | sector 0 | `mkpart`, `mkfs`, `install` | shell | a cut in the middle of a re-install |
| IDT, PIC, system calls, CPU detection, timer, port I/O | static tables | set-up, dispatch | | order of initialisation |

How they interact: `init` (`init.h:41-85`) turns paging on, enables interrupts,
runs `pmm_init`, `heap_init` and `pci_scan`, builds the VFS from `kmalloc`ed
nodes and enters `shell_start`, which never returns. The heap is the page
allocator's only client. The keyboard handler shares only the ring with the
shell. Disk commands mount the volume, `kmalloc` a buffer and read a file into
it; `runelf` copies it from there to where the program wants to be, which faults
where paging has mapped nothing. There are no locks and no callbacks.

## Modules

```
Pmm <- Heap <- Boot          Paging \
        |                    Pci     >- Machine      Fat16 <- Install
        v implements         Loader /
    MemoryPool

KeyBuffer -> Keystrokes      Console <- LineEditor -> Session      Keyboard
          implements                            implements
```

**`Pmm`** is `pmm.c`. `bitmap` is the set of pages whose bit is set; addresses
and lengths of the memory map are bytes. `ScanEntry` is one turn of the loop of
`pmm_init`, `ReserveKernel` its end, `AllocPage` and `FreePage` are the two
operations. `held` is the clients' side: it is what lets the model say that a
page is not owned twice. `pmm_free_page` may be called with any page a client
holds, or with one that is free already.

**`Heap`** (EXTENDS `Pmm`) is `heap.c` at the level of its block headers: `hdr`
maps the address of each header to `[size, free, next, prev]`, in the pages
that the `Pmm` part handed out. `KmallocFromList`, `KmallocExtends` and
`KmallocFails` are the three ways through `kmalloc`; `Kfree` is `kfree` with
both merges. The page allocator calls of `heap_extend` are folded into
`TakePages`: of the page that is asked for and given back at once nothing
remains. **`MemoryPool`** is what `kmalloc` promises: aligned, disjoint memory.
`Heap` implements it under the refinement `granted <- granted`,
`Addresses <- ` the managed memory (`PoolSpec`).

**`Boot`** (EXTENDS `Heap`) is what `init` does with memory: `FindMap` walks the
loader's tags by the sizes they state, `BootMemory` runs the page allocator and
the heap, `VfsAllocNode` is one call of `vfs_alloc_node` with the `kmalloc` in
it, `Mounted` what `initramfs_init` prints. Then `Cd` walks through the tree
while `UseHeap` stands for the commands and the system call that allocate and free around
the nodes. Nodes are records at the addresses `kmalloc` gave.

**`Paging`** is `paging.c`. A table is the address its first entry maps. The
arithmetic wraps at `Word`, as `unsigned int` does. **`Pci`** is `pci.c` over
the configuration space `config`: a register implements only the address bits
above its size, which is what the size probe reads. **`Loader`** is `elf32.c`
and `command_runelf` from the point where the file is in its buffer: one step per segment
(`SkipSegment`, `CopySegment`, `RejectSegment`), then `Call`. A byte of the file
is known by its offset.

**`Machine`** composes the three: `MapAtBoot` and `ScanBoard` are the calls in
`init`, `RunElf` is `runelf`, which stops the kernel at an address that is not
mapped, `Attach` is the set-up of a driver as `pci.h` and `paging.h` describe it
(no driver exists yet, so it is marked external in `PROJECT.json`), `MapOther`
another caller of `paging_map_region`.

**`KeyBuffer`** is the ring of `ps2.c`, its two readers in `shell.c` (the
poll-and-halt loop of `shell_start` and `command_loop`, which may run itself) and
the `keyboard_stub` of `idt_asm.asm`. The handler runs with interrupts off and
is one step; `key_buffer_pop` is one step per access of memory or of `eax`,
named by `pc`. **`Keystrokes`** is the stream it promises. The constant
`StubRestoresAL` says whether the stub preserves `al`: FALSE is the code as it
is, in which the stub's `mov al, 0x20` corrupts the code it interrupts
(run `keybuffer_stub`). TRUE isolates the ring: it answers whether `ps2.c`
itself is right once the stub is.

**`Keyboard`** is `keyboard_handler`, one step per byte. Its other half is the
keyboard: keys that are pressed, repeat and are released, and the bytes they
send, among them the prefixed shift codes that surround extended keys. `meant`
is what the keys stand for when they are pressed, `typed` what the handler has
pushed into the ring. Characters are told apart by key and case.

**`Console`** holds the operators of `print.c`: a console is a record of cells,
cursor and colours, and `PrintChar`, `PrintText`, `BackOne` and `ClearScreen` map one
to the next, for the text mode and for the framebuffer.
**`LineEditor`** (EXTENDS `Console`) is the loop of `shell_start` with
`history_add`, `history_get` and `redraw_line`, on the C arrays: `shell_buffer` and the
history keep what earlier and longer lines left behind. `SplitArgs` is what
`interpret_command` does to the line it is given; a command prints one of a few
texts, or clears the screen. **`Session`** is what a user sees: a line, the
last commands, and the way back.

**`Fat16`** is creating and reading files in `fat16.c` at the granularity of
`ata_read_sector` and `ata_write_sector` calls. `op` is the operation that is
being executed with its local variables; `ScanFat` and `WriteFat` are one turn
of the loops of `fat_alloc_cluster` and `fat_write_entry`, `WriteCluster` is a
turn of `write_file_data`, `WriteDirEntry` the writing of the entry,
`ReadCluster` and `FollowChain` a turn of `fat16_read_file`. `Restart` is a power
cut. Uninitialized buffers are arbitrary values.
The drive is the one `ata.c` sees: once its ERR bit is set `ata_wait_ready`
refuses every command, because only a new command would clear it, until
`ata_identify` issues one without looking. With `SlowDrive` it may also be busy
for longer than the 100000 polls and answer later. Every operation ends in a
state "returned" that holds what it tells its caller and whether that is true.

**`Install`** (EXTENDS `Fat16`) runs `install`, `mkpart`, `mkfs` and `catdisk` as
lists of steps in `todo`: accesses of the drive (`WriteMbr`, `WriteBoot`,
`ClearFirstFat`, ...) and operations of `Fat16`, which go on under `Operate`
and return to the command in `Resume`. `IdentifyDrive` fails on a drive that is too small as well,
and `RefuseFormat` is a partition that `fat16_format` does not accept. `PowerCut` may come between any two.

`MC*` modules give values to constants that a `.cfg` cannot express.
Operators whose comment begins with "Mutant" are faulty variants of the
definition that follows them; replacing the definition by the variant makes the
property that guards it fail, which shows that the property is about the code.

## Runs

| run | checks | instance | distinct states |
|---|---|---|---|
| `pmm` | `CountExact`, `KernelNeverGivenOut`, `HeldNotFree`, `OnlyUsableRam`, `PagesConserved` | 6 pages, all maps of at most two entries from 24 | 4,858 |
| `boot` | type, `MapIsTheLoaders`, `ListInAddressOrder`, `BlocksTilePages`, `HeapBelowFreePages`, `GrantsBacked`, `BytesAccounted`, `TreeSound`, `PoolSpec` | 7 pages of 16 bytes, four sizes, four memory maps and six lists of tags | 3,471 |
| `root_mounted` (violation) | `RootMounted` | as `boot`, the loader of `grub.cfg` | |
| `keybuffer` | type, `InOrder`, `KeysReachShell`, `KeyEndsLoop` | ring of 3, 2 characters, 4 presses, 2 loops | 44,241 |
| `keybuffer_stub` (violation) | `NothingInvented` | ring of 3, 3 presses | |
| `keyboard` | `NoStuckShift`, `TypedIsMeant` | one letter, symbol and silent key, shifts, caps lock, arrows, number pad; 4 key events | 418,609 |
| `editor` | type, `ScreenShowsLine`, `SessionSpec` | lines of 2 characters, a history of 2, a screen of 3 rows of 2, unbounded typing | 325,775 |
| `machine` | type, `IdentityMapped`, `PromisedIsMapped`, `OnlyAdds`, `ScanFinds`, `OnlyEnables`, `DriverReaches`, `LoadedIsImage` | 8 slots, 2 low, pool of 3, four boards, 14 regions, nine programs | 20,008 |
| `fat16` | `EntriesIntact`, `SecondCopyNeverAhead`, `SuccessIsTrue`, `OperationsEnd` | 3 clusters in a FAT of 4 entries, 3 files of at most 2 clusters | 34,469 |
| `install` | type, `IntactUnlessHalfway`, `CompleteMeansInstalled`, `NothingLeaked`, `CommandsEnd` | 8 clusters, 3 commands | 233,731 |
| `fat16_read` (violation) | `ReadReportsErrors` | 1 file | |
| `fat16_slow` (violation) | `AllocatedIsMarked` | 2 clusters, 1 file | |

`KeyBuffer` and `Keyboard` turn the deadlock check off, because a kernel whose user
types nothing has nothing to do (and the number of key events is bounded), and
so does `machine`, because a program that is copied to where nothing is mapped halts the
machine. In all other runs something can always happen.

### What the properties are about

- `CountExact`, `HeldNotFree`, `PagesConserved`: after any memory map, however its
  entries overlap, and any calls, the counter is the number of clear bits and
  every page of RAM beyond the image is either free or in one client's hands.
- `ListInAddressOrder`, `BlocksTilePages`, `GrantsBacked`, `HeapBelowFreePages`,
  `BytesAccounted`: the pointers of the block list agree in both directions, the
  blocks cover the heap's pages without gap or overlap, each granted pointer is
  the memory of a block in use that is large enough, and the byte counters follow
  the blocks up to the headers. `HeapBelowFreePages` is why `heap_extend` may append at the tail.
- `MapIsTheLoaders`: stepping from tag to tag by padded sizes finds the map and nothing else.
- `TreeSound`: however many nodes could be allocated, and wherever `cd` has gone since, the
  tree is one, its nodes lie in memory of their own, and `pwd`'s path leads back.
- `InOrder`: the ring under interrupts implements a stream that loses a key only
  when it is full. `KeyEndsLoop`: a key that is in the buffer ends the loop that
  runs the command; it says nothing of the loops around that one, because the
  inner loop takes the key, and its first act when it runs again is to empty the buffer.
- `TypedIsMeant`, `NoStuckShift`: no sequence of codes leaves the decoder in a
  state the keys are not in.
- `SessionSpec`, `ScreenShowsLine`: what is recalled, run and shown is right
  although the arrays are reused and cut in place, and the line wraps and scrolls.
- `IdentityMapped`, `OnlyAdds`, `PromisedIsMapped`: an exhausted pool never makes
  two slots share a table or a caller believe what is not there.
- `ScanFinds`, `OnlyEnables`, `DriverReaches`: the list is the board's functions;
  the base address registers hold after every probe what they held before it, enabling
  only adds bits to the command and clears status bits that are set, and a driver that was told
  an address, a size and that they are mapped can reach every byte of its device.
- `LoadedIsImage`: a program that is called is the whole image, although segments overlap,
  others were rejected earlier, and drivers map what they need in between.
- `EntriesIntact`: whatever write an error or a power cut stops a create at, each
  listed entry leads to a complete chain of its own clusters. `SecondCopyNeverAhead` is
  what remains of the two copies that "stay in sync" (`fat16.c:196`) when an operation may be
  stopped: the second lags. `SuccessIsTrue` is about operations that return before the drive
  reports an error; after one they may claim what is not so (`fat16_read`).
- `IntactUnlessHalfway`, `CompleteMeansInstalled`, `NothingLeaked`: the same across
  installations that were cut short, except in the window in which the FAT is
  cleared and the root directory is not yet. `CompleteMeansInstalled` is about every "Install
  complete", also one printed after an error: then the last file may be missing, or the last
  directory with it, and nothing else.

### Bounds, and why they are enough

- `pmm`: 6 pages, the image ending in the middle of the second. Two map entries are
  the least that overlap; their bases and lengths include one that ends inside a page,
  one that reaches past the managed memory and one outside it. The proofs
  lift the bound.
- `boot`: 7 pages make several extensions, so merges happen within and across
  extensions; the four sizes are an empty one, that of a node, one that does and one that
  does not leave room for a split. One map has a hole that breaks a run of pages, one has room for
  some of the nodes only, one has none. The directories hold as many children
  as the root needs (2). Tags are and are not multiples of 8, and the list ends before the map in one case.
- `keybuffer`: a ring of 3 is full with 2 keys and wraps twice with 4; two loops are
  the least that nest.
- `keyboard`: the two-shift, caps-and-shift and extended-key sequences that can
  differ take at most 4 events; up to 4 keys' bytes wait on the wire.
- `editor`: a line of 2 is empty, partly full and full; with its prompt it crosses the edge of
  a row, and each command scrolls; the history wraps; nothing counts the keys, so the state space is complete.
- `machine`: 6 slots above low memory and a pool of 3; two regions exhaust it. The boards hold an echoing
  device, one function more than the list has room for, a second function without a first, and nothing.
- `fat16`: 3 clusters in a FAT of 4 entries, so that allocation can run past the
  partition; files of 0, 1 and 2 clusters; one entry per directory, two in the
  root, so that both fill up.
- `install`: 3 commands are an install, one that is cut, and one that repairs; the
  tree takes 7 of 8 clusters, so a leak is seen.

### Assumptions

- `StubRestoresAL` (run `keybuffer`): the stub preserves `al`. It does not;
  `keybuffer_stub` is the same module without it.
- A key that is pressed is released, and its interrupt comes.
- `SlowDrive = FALSE` (runs `fat16`, `install`): a drive that fails a command goes on
  failing until `diskinfo`, `mkpart` or `install` identifies it or the machine restarts. This
  is what the sticky error bit and `ata_wait_ready` give. `fat16_slow` shows what
  happens on other drives.
- A sector that the drive has taken without an error is on the disk, in the order in which
  sectors were taken. `ata.c:111-134` issues no FLUSH CACHE, so a drive with a volatile write cache
  may lose or reorder several of them when the power fails: what `EntriesIntact`,
  `SecondCopyNeverAhead` and the properties of `Install` say of power cuts is said of a drive
  whose cache is off or outlives the power.
- Usable entries of the memory map begin on a page boundary (`pmm`); boot
  firmware reports them so above 1 MB. `pmm_init` rounds others down (`pmm.c:60`), against its comment.
  They end below 2^44: past that the cut to 32 bits at `pmm.c:60`, and in the end the
  sum at `pmm.c:55`, would wrap, which `EntryPages` leaves out.
- Nobody asks `kmalloc` for sizes near 2^32 (`HeapAssumption`); regions passed to
  `paging_map_region` end below the last 4 MB (`machine`): past that the clamp at
  `paging.c:68` leaves the last slot unmapped and 1 is returned. No code in
  the kernel passes such a region.
- A node of the tree (364 bytes) fits in a page with its header, and a directory holds at least two children; every tag
  of the loader has a size (`BootAssumption`). A FAT16 file may have a cluster (`InstallAssumption`).
- A key of a new line ends the line and is not put into it; the prompt ends with a character
  that the font has (`LineEditorAssumption`).
- Boot (`boot`) is by a Multiboot2 loader whose tag list is well formed; `root_mounted` shows the other kind.
- The segments of a program do not lie in the buffer the file is in, and the
  entries of its program header table are at least as large as a program header
  (`elf32.c` does not look at `e_phentsize` by itself).
- Drivers ask for the size of a base address register only on functions with
  a normal header (`Attach` gives up without an address): a probe of a bridge would write to
  other registers.
- The disk is blank before the first `install`.
- Two shift keys are not held together and caps lock is not held until it repeats
  (`TypedIsMeant`): in both cases `ps2.c` departs from its comments at lines 133
  and 139 (one flag for two keys; a toggle per make code).

### Fairness

`KeyBuffer!FairSpec` has weak fairness of `Shell`, because the processor executes
the next instruction whenever it is not halted, and of `Release`, because a key
that is down is let go; typing is not fair. `Fat16!FairSpec` and `InstallSpec` have weak
fairness of the steps of the operation or command under way, for the same reason;
starting commands, errors and power cuts are not fair. A power cut ends an operation,
so the liveness properties are about loops that would go on for ever. The other
specifications state no fairness: their properties are about safety.

## Findings

| run | disagreement |
|---|---|
| `root_mounted` | the header and the `grub.cfg` in the repository are of the first Multiboot, `init` accepts only the magic of the second: there is no memory map, all nodes of the tree fail, and `initramfs_init` prints that they are mounted |
| `keybuffer_stub` | `keyboard_stub` returns with `al` = 0x20; the shell can read a character nobody typed |
| `fat16_read` | `fat16_read_file` returns 1 after a read error in the FAT, with part of the file missing |
| `fat16_slow` | an ignored time-out in `fat_write_entry` leaves an allocated cluster marked as free |

Behaviour that is modelled as it is and that no run calls wrong:

- `free_bytes`, printed by `meminfo`, ignores the headers that splits create and
  merges absorb, and can wrap below zero; `BytesAccounted` states by how much it is off.
- After `clear_screen` in black the text mode prints black on black until an
  escape sequence sets a colour; `screen.h:10-12` says that 16-bit framebuffers
  are not drawn to, and `print.c` draws to them.
- `pci_enable_device` writes the status bits it has read back, which clears those
  that are set (`errors` in `Pci`).
- A program that is rejected at a later segment has had its earlier ones copied.
- `install` ignores what `install_placeholder_file` returns, and prints "Install complete" of
  a disk without the last file when the drive fails late; a `mkdir` that fails stops it.
- `paging_init` ignores whether the framebuffer could be mapped.

## What is proved

Every safety invariant, action property and refinement that a run checks is stated by a
theorem. Each `*Proofs` module holds the theorems about the module it is named after
(`MemoryProofs` those about `Pmm` and `Heap`), for every
value of the constants its `ASSUME` admits. The leading lemmas are one per action.

**`MemoryProofs`**, on the page allocator, for every page size, number of pages, end of the image and set of
memory maps. `PmmInvariant` states `PmmInv`: type correctness, `CountExact`,
`HeldNotFree` and what makes them inductive, namely that nobody holds a page while `pmm_init`
runs, and that afterwards no page below `KernelEndPage` is free or held. The last
conjunct is needed because `KernelNeverGivenOut` speaks only of pages with a byte
of the image, while `ReserveKernel` closes pages by number (`KernelEndPageBound`
links the two). From it `PmmCountExact`, `PmmHeldNotFree`, `PmmKernelNeverGivenOut`,
the action property `PmmPagesConserved`, and `PmmOnlyUsableRam` under
`UsableAligned`. The counter is followed by the library's facts about the
cardinality of a set with an element added or removed.

On the heap, for every set of sizes: `HeapInvariant` states `PmmInv`
together with the soundness of the block list, which is one definition over explicit
headers so that it can be proved of each change to them: every header is aligned and of
a size that is, `prev` and `next` agree, no two blocks overlap, and every byte of the heap's
pages is in one. The cases of `kmalloc` and `kfree` are lemmas over
header maps: `SplitSound`, `MergeSound`, `FreedSound`, `AppendSound`. That `AppendSound` applies is
`HeapBelowFreePages`, which is a part of the invariant: every free page lies
above all the heap has. From it come the properties of the heap that run `boot` checks
and the refinement `HeapImplementsPool`. `HeapBytesAccounted` takes a second invariant, `Accounts`: `used_bytes`
is the sum of the blocks in use, and `free_bytes` the bytes of the free ones less a header for each
extension, modulo 2^32. The sums are folds over the finite set of headers; `Total` is
the function such a fold chooses, and that it exists, that it does not depend on the order and what a
changed, added or removed block does to it is shown by taking a smallest set of which it would fail.

**`BootProofs`**, for every list of tags, memory map, size of node that fits in a page with its header, and
sequence of `cd`. `BootUsesTheHeap` shows that each step of `Boot`
is a step of `Heap` and of `Pmm` or leaves them alone, which carries the theorems above
over to the machine that comes up (`BootHeapSound`, `BootImplementsPool`, `BootPagesSound`).
`TreeSound` is not inductive: it says nothing of a tree that is half built. `TreeInv` describes the tree
by the results of the calls of `vfs_alloc_node` so far (`TreeOf`): node i has the parent and
the children that its call gives it, as far as they were made; each node's memory is a
grant of its size, which stays one because nobody gives it back; and once a call has failed there is no
room for a node (`NoRoom`), so that all later ones fail and no child is without its parent.
That a new node is at an address no other has is the heap's invariant. `BootTreeSound` reads off `TreeInv` that each node
is listed once and that the path `pwd` prints leads back. `BootMapIsTheLoaders` is an induction over the
offsets the walk stops at: each is the beginning of a tag, and none before it was a map or the end.
`BootTypes` completes the types.

**`MachineProofs`** is about `Paging` and then about `Machine`, for every number of slots
and tables and every region. `PagingInvariant` states `PagingInv`. `DirSound`, its
main part, says that a present slot points to a table that was handed out and that maps the
slot to itself; `IdentityMapped` alone is not inductive, because a table that is handed out
again would break it later. From it `PagingIdentity`, `PagingOnlyAdds`, and `PagingPromised` for
regions that end below the last slot (`Fits`, see the clamp above).
The heart is `MapKeepsSound`, one call of `map_extra_region`: `TablesInOrder` shows
that the tables a call hands out are distinct and new, `PoolSuffices` that counting them up
to the end of the pool does not run past it, and `FittingIsVisited` that the loop reaches every slot
of the region. `MachineMaps` carries the paging theorems over: each step of the machine is a step of
`Paging` for some region, or leaves it alone. `MachineLoadedIsImage` holds
for every file whose segments end inside the address space (`ImagesFit`). Its
invariant `LoaderInv` says that after n segments each address holds what the last of the
first n that covers it has for it; `Landing` shows which byte of a segment an address gets,
`OneMoreHere` and `OneMoreElsewhere` are the induction step.

For the bus, `BoardInv` says that the registers are those of a board (`PciAssumption`), that the entries of the
list are what `pci_record_device` makes of functions that are there, and `ScanFinds`. `ScannedIsListed`
shows it of one scan: a place's number tells it from all others (`NumberTells`), the functions ahead of one in the
list are as many as its index (`AheadCounts`), and so a list that is not full has them all (`ListedFirst`).
`AttachKnows` is one driver's set-up: because base addresses are multiples of the window's size and that divides
2^32, the probe finds the size, the value put back is the one that was there, and
the window ends within the address space. Hence `MachineOnlyEnables`, with no assumption but the module's
own. `DriverInv` adds that each driver was promised every slot of its window. `MachinePromised`,
`MachineDriverReaches` and `MachineTypes` follow under `AllFits`: the regions, and the windows of functions that
have an address, end below the last slot.

**`KeyBufferProofs`**, for every size of the ring. `KeyIndicesInRange` needs nothing:
head, tail and the index a reader has loaded stay inside the ring even when the
stub destroys `al`. The others assume `StubRestoresAL`: `KeyBufferInvariant` states that
the stream's waiting keys are the cells from tail to head, that what each place of the pop has in
`eax` and in its local variables is what it read, and that a pop past its comparison finds a key. From it
`KeyBufferTypes`, `KeyNothingInvented` (what `keybuffer_stub` refutes without the
assumption) and the refinement `KeyBufferIsAQueue`.

**`KeyboardProofs`**, for any number of keys and key events. The invariant of
`KeyboardInvariant` looks ahead: there is a run of the handler over the bytes
still on the wire, byte by byte from the state it is in, to a state that agrees with the
keys that are down and, while nobody has held both shift keys or let caps lock repeat, with
what was meant. A key event extends the run at its end, a handled
byte shortens it at the beginning. `ShiftNeverSticks` and `TypedAsMeant` are
what it says when the wire is empty.

**`LineEditorProofs`**, for every length of line and history and every size of the screen on which a line
fits above the last row. `EditorInvariant`
states that the line has no terminator before its length, that each array that may be recalled
is a closed string, and where a browse has got to in the ring. `EditorImplementsSession` maps each
step: in particular a history of C arrays that still hold the ends of longer lines is,
read up to the terminators, the list of the last commands.
The screen is a second invariant, `ScreenInv`: the cells before the cursor show the end of the prompt and the line, those
from the cursor on are blank (`InOrder`, without which a backspace or a scroll would uncover something
old). `Put`, `NextRow` and `BackOneStep` show it of one character, over the edge of a row and under a
scroll. Texts are folds: `FoldExists` builds the function a fold chooses, and `Stages` and its three uses
(`PrintTextIs`, `PrintLineIs`, `BackIs`) turn it into the list of screens a text goes through,
along which the invariant is carried (`TextInOrder`, `WipedOut`, `Written`). `EditorTypes` and `EditorShowsLine`
follow, the second under the condition that nothing is printed in black: a user who types
an escape sequence for black and lets `echo` print it does not see what comes next on a
framebuffer. What stands in the cells is right then too (`EditorScreenInvariant`).

**`Fat16Proofs`**, with `SlowDrive` FALSE (the drive that a failed command leaves
failing), for every number of clusters, files and parts. That a listed entry has a complete
chain is stated without walking the chain (`ChainSound`): each cluster that
holds a part of a file knows which, its FAT entry leads to the next part, and no part has two clusters;
`ChainWalked` shows that the driver's walk finds just those. `Fat16Inv`
adds, for the operation under way, a condition for each place it can be at (`AtScan`,
`AtMarkNew`, `AtMarkLink`, `AtMarkLast`, `AtData`, `AtEntry`): the clusters written so far are
a sound chain nothing listed has a part in, and the one at hand is fresh. Once the drive has
reported an error it says nothing more of the operation, because the disk stays as it is.
`ListedIsComplete`, `SecondCopyBehind` and `SuccessIsReal` are the three safety properties of run `fat16`.

**`InstallProofs`**, on the same drive and for every number of commands. `InstallInvariant`
states `InstallInv`: `Fat16Inv` holds except while `halfway`, and the machine is
either elsewhere (no operation that writes is under way, and what is left of the command makes
nothing), or an installation is at its kth step and, as long as no error was reported, the
disk holds exactly what its steps so far were to put there. For this the operations of
the tree are numbered: on a FAT that was just cleared the jth takes cluster j + 1 (`Laid`,
`Underway`), so the first-fit search of `fat_alloc_cluster` finds it after j - 1 turns. The volume is
known to be in order before the first of them, whatever it was when the command began, because the
three clearing steps leave an empty root. `IntactExceptHalfway` and `NothingIsLeaked` follow.
`InstallInv` says nothing of the tree once an error was reported, and "Install complete" may be printed
after one. `LateInv` closes the gap for `CompleteIsInstalled`: an installation that has come past its last
directory has all but the last two entries on the disk (`Nearly`), for the step to which that
directory succeeded was taken without an error (`Goes`), and what fails later leaves the disk as it is
(`FailureKeeps`). `InstallTypes` needs nothing of the drive. Its
invariant `TypeInv` says which operation may be under way with which steps left: a file is only
asked for when a directory has been made or is being made, because `install` gives up when one
could not be.

### What is only model-checked

- Liveness (`KeysReachShell`, `KeyEndsLoop`, `OperationsEnd`, `CommandsEnd`): beyond
  the prover.
- That the four runs with a violation find what they find: a counterexample is an instance.
- `Fat16` and `Install` on a drive that is slow (`SlowDrive`), but for the types of `Install`: there
  the properties do not hold (`fat16_slow`).

## Not modelled

- The register protocols of the drive, the PIC and the timer, the IDT set-up and CPU
  detection: static, or reads that are printed.
- `memtest`, which overwrites a fixed address the heap may have reached
  (`sysinfo_commands.c:64`): the address depends on the linker.
- The rest of the system calls, which print or halt (`linux_syscall_dispatch` of
  `idt_asm.asm` is defined nowhere in the repository).
- Listing of directories and names on the disk; the other three MBR entries.
- Which command a name runs; the number formats of `print.c`; pixels.

The reasons per component are in `PROJECT.json`.

## Plan

Done: `Pmm`, `Heap` with `MemoryPool`, `Boot` over them with the VFS, `KeyBuffer` with
`Keystrokes` and the nested loops, `Paging`, `Pci` and `Loader` under `Machine`, `Fat16`, `Install` over it,
`LineEditor` with `Session` on a `Console`, `Keyboard`; proofs of the safety properties of all of them.

To model: directory listing and lookup by name in `Fat16`, with the
end-of-directory mark; sizes near the end of the word in `Heap`.

To prove: nothing that a run checks today, but for liveness. What is modelled next
brings its own invariants: for directory listing, that no entry stands behind the
end-of-directory mark.
