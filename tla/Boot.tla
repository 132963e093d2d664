---------------------------------- MODULE Boot ----------------------------------
(****************************************************************************)
(* How the machine comes up (src/kernel/init.h, initramfs.c) and the tree   *)
(* of files in RAM it comes up with (src/kernel/fs/vfs.c), on the real heap *)
(* and page allocator: the search for the memory map among the bootloader's *)
(* tags, pmm_init, heap_init, vfs_init node by node, and then the shell,    *)
(* whose cd moves through the tree while other commands use the heap.       *)
(*                                                                          *)
(* A node is known by its address, as in the program; its name stands for   *)
(* itself, and what a file contains is left out.                            *)
(****************************************************************************)
EXTENDS Heap

CONSTANTS
    BootInfos,     \* what a bootloader may hand over, see BootAssumption
    Padding,       \* tags begin at multiples of this many bytes, 8
    NodeSize,      \* sizeof(vfs_node_t)
    MaxChildren    \* VFS_MAX_CHILDREN

ASSUME BootAssumption ==
    /\ Padding \in Nat \ {0}
    /\ MaxChildren \in Nat /\ MaxChildren >= 2
    /\ NodeSize \in Sizes \ {0}
    \* a node, of 364 bytes, and its header have room in a page
    /\ AlignUp(NodeSize, Align) + HDR <= PageSize
    /\ \A info \in BootInfos :
          /\ info.multiboot2 \in BOOLEAN
          /\ info.tags \in Seq([type : {"end", "mmap", "other"}, size : Nat \ {0},
                               map : MemoryMaps])
    /\ <<>> \in MemoryMaps

VARIABLES
    info,        \* what this boot's loader has handed over; read only
    nodes,       \* the vfs nodes: address -> [name, type, parent, children]
    made,        \* what the calls of vfs_alloc_node so far have returned
    vfs_root, vfs_cwd,
    mounted      \* initramfs_init has printed that the directories are mounted

tree_vars == <<nodes, made, vfs_root, vfs_cwd, mounted>>
boot_vars == <<vars, info, tree_vars>>

--------------------------------------------------------------------------------
\* The list of tags in memory: the offset of each from the first, with the gap
\* the loader leaves for the next to be aligned.

Padded(size) == ((size + Padding - 1) \div Padding) * Padding

Offset(tags, i) == MapThenSumSet(LAMBDA j : Padded(tags[j].size), 1 .. i - 1)

\* What stands at an offset read as a tag: between two tags, anything.
TagAt(tags, offset) ==
    IF \E i \in DOMAIN tags : Offset(tags, i) = offset
      THEN tags[CHOOSE i \in DOMAIN tags : Offset(tags, i) = offset]
      ELSE [type |-> "other", size |-> Padding, map |-> <<>>]

\* Mutant: the padding is forgotten.
AdvanceBySize(tag) == tag.size

\* "(tag->size + 7) & ~7u"
Advance(tag) == Padded(tag.size)

\* mb2_find_tag, for the memory map: the map in the first such tag, or none.
FindMap(tags) ==
    LET end == Offset(tags, Len(tags) + 1)
        walk[offset \in 0 .. 2 * end] ==
            LET tag == TagAt(tags, offset)
            IN  IF offset >= end \/ tag.type = "end" THEN <<>>
                ELSE IF tag.type = "mmap" THEN tag.map
                ELSE walk[offset + Advance(tag)]
    IN  walk[0]

\* What init gives to pmm_init: nothing to a loader of another kind.
MapGiven(from) == IF from.multiboot2 THEN FindMap(from.tags) ELSE <<>>

--------------------------------------------------------------------------------
\* The calls of vfs_alloc_node in vfs_init; parent is the call that made it.
Script ==
    <<[name |-> "/",      type |-> "dir",  parent |-> 0],
      [name |-> "kernel", type |-> "dir",  parent |-> 1],
      [name |-> "shell",  type |-> "dir",  parent |-> 1],
      [name |-> "README", type |-> "file", parent |-> 2],
      [name |-> "README", type |-> "file", parent |-> 3]>>

Names == {Script[i].name : i \in DOMAIN Script}

Kmalloc(size) == KmallocFromList(size) \/ KmallocExtends(size) \/ KmallocFails(size)

\* The pointer a kmalloc of this step returns.
Returned ==
    LET new == DOMAIN granted' \ DOMAIN granted
    IN  IF new = {} THEN NULL ELSE CHOOSE ptr \in new : TRUE

\* The directory vfs_init asks for the node of a call to be entered in.
EnteredIn(call) == IF call = 1 THEN NULL ELSE made[Script[call].parent]

\* vfs_alloc_node once it has memory: the node, entered with its parent if there
\* is one and it has room.
Linked(new, call) ==
    LET parent == EnteredIn(call)
        node   == [name |-> Script[call].name, type |-> Script[call].type,
                   parent |-> parent, children |-> <<>>]
    IN  [ptr \in DOMAIN nodes \cup {new} |->
            CASE ptr = new -> node
              [] /\ ptr = parent /\ ptr # new
                 /\ Len(nodes[ptr].children) < MaxChildren
                    -> [nodes[ptr] EXCEPT !.children = Append(@, new)]
              [] OTHER -> nodes[ptr]]

\* The next call of vfs_init.
VfsAllocNode ==
    /\ heap_up /\ Len(made) < Len(Script)
    /\ Kmalloc(NodeSize)
    /\ made' = Append(made, Returned)
    /\ nodes' = IF Returned = NULL THEN nodes ELSE Linked(Returned, Len(made) + 1)
    /\ UNCHANGED <<info, vfs_root, vfs_cwd, mounted>>

\* The end of vfs_init, and what initramfs_init prints then.
Mounted ==
    /\ Len(made) = Len(Script) /\ ~mounted
    /\ vfs_root' = made[1] /\ vfs_cwd' = made[1]
    /\ mounted' = TRUE
    /\ UNCHANGED <<vars, info, nodes, made>>

--------------------------------------------------------------------------------
\* vfs_find_child: the first child of that name, or NULL.
FindChild(parent, name) ==
    LET children == nodes[parent].children
        named    == {i \in DOMAIN children : nodes[children[i]].name = name}
    IN  IF named = {} THEN NULL ELSE children[Min(named)]

\* Mutant: the parent of the root is not looked at.
UpAnyhow(dir) == nodes[dir].parent

\* cd ..: the root has no parent.
Up(dir) == IF nodes[dir].parent = NULL THEN dir ELSE nodes[dir].parent

\* Where command_cd goes from dir: the argument is nothing or "/", "..", or a
\* name, of which it takes only a directory's.
CdFrom(dir, arg) ==
    CASE arg = "/"  -> vfs_root
      [] arg = ".." -> Up(dir)
      [] OTHER      -> LET found == FindChild(dir, arg)
                       IN  IF found # NULL /\ nodes[found].type = "dir" THEN found ELSE dir

\* command_cd.  Without a root it reads what lies at address 0 as a node, of
\* which nothing can be said.
Cd(arg) ==
    /\ mounted /\ vfs_cwd # NULL
    /\ vfs_cwd' = CdFrom(vfs_cwd, arg)
    /\ UNCHANGED <<vars, info, nodes, made, vfs_root, mounted>>

\* The other commands, and the system call SYS_REQUEST_RAM, which never gives
\* its memory back.  Nobody frees a node.
UseHeap ==
    /\ mounted
    /\ \/ \E size \in Sizes : Kmalloc(size)
       \/ \E ptr \in DOMAIN granted \ DOMAIN nodes : Kfree(ptr)
    /\ UNCHANGED <<info, tree_vars>>

BootInit ==
    /\ info \in BootInfos
    /\ Init /\ mmap = MapGiven(info)
    /\ nodes = [ptr \in {} |-> 0] /\ made = <<>>
    /\ vfs_root = NULL /\ vfs_cwd = NULL /\ mounted = FALSE

\* init: the page allocator, then the heap.
BootMemory == (Boot \/ HeapInit) /\ UNCHANGED <<info, tree_vars>>

BootNext ==
    \/ BootMemory
    \/ VfsAllocNode
    \/ Mounted
    \/ \E arg \in Names \cup {"..", "nosuch"} : Cd(arg)
    \/ UseHeap

BootSpec == BootInit /\ [][BootNext]_boot_vars

--------------------------------------------------------------------------------
BootTypeOK ==
    /\ PmmTypeOK /\ HeapTypeOK
    /\ info \in BootInfos
    /\ made \in Seq(DOMAIN nodes \cup {NULL}) /\ Len(made) <= Len(Script)
    /\ nodes \in [DOMAIN nodes -> [name : Names, type : {"dir", "file"},
                                   parent : DOMAIN nodes \cup {NULL},
                                   children : Seq(DOMAIN nodes)]]
    /\ {vfs_root, vfs_cwd} \subseteq DOMAIN nodes \cup {NULL}
    /\ mounted \in BOOLEAN

\* init.h:23-39: the memory map that reaches pmm_init is the one of the loader's
\* first tag of that type, wherever it lies in the list and whatever the sizes
\* of the tags before it.
MapIsTheLoaders ==
    LET tags == info.tags
        maps == {i \in DOMAIN tags : /\ tags[i].type = "mmap"
                                     /\ \A j \in 1 .. i - 1 : tags[j].type # "end"}
    IN  mmap = IF info.multiboot2 /\ maps # {} THEN tags[Min(maps)].map ELSE <<>>

\* What pwd prints: the names from the root to a node.
Path(ptr) ==
    LET up[n \in DOMAIN nodes] ==
            IF nodes[n].parent = NULL THEN <<>>
            ELSE Append(up[nodes[n].parent], nodes[n].name)
    IN  up[ptr]

\* Where cd leads when it is given the names of a path one after the other.
Walk(path) ==
    LET step[n \in 0 .. Len(path)] ==
            IF n = 0 THEN vfs_root ELSE CdFrom(step[n - 1], path[n])
    IN  step[Len(path)]

\* vfs.h:22: however much memory there was, what has been made is a tree, every
\* node in the list of its parent once and in memory that is its own; the
\* current directory is a directory of it, and the path pwd prints leads there.
TreeSound ==
    /\ \A ptr \in DOMAIN nodes :
          /\ ptr \in DOMAIN granted /\ granted[ptr] = NodeSize
          /\ nodes[ptr].parent # NULL =>
                LET siblings == nodes[nodes[ptr].parent].children
                IN  Cardinality({i \in DOMAIN siblings : siblings[i] = ptr}) = 1
          /\ nodes[ptr].parent = NULL => ptr = made[1]
    /\ vfs_root # NULL =>
          /\ vfs_cwd # NULL /\ nodes[vfs_cwd].type = "dir"
          /\ Walk(Path(vfs_cwd)) = vfs_cwd

\* initramfs.c:15 prints "initramfs: /, /kernel, /shell mounted.": from then on
\* there is a root directory.
RootMounted == mounted => vfs_root # NULL
================================================================================
