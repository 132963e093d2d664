--------------------------------- MODULE MCBoot ---------------------------------
(* Boot with a heap of four-byte units: a header is 4, a page 16 bytes of     *)
(* scaled memory, and a node with its header takes half a page.               *)
EXTENDS Boot

Usable(first, pages) ==
    [base |-> first * PageSize, length |-> pages * PageSize, usable |-> TRUE]

\* All memory usable; memory with a hole that breaks a run of pages; one page,
\* too little for the tree; no memory.
Maps ==
    {<<Usable(0, MaxPages)>>, <<Usable(0, 4), Usable(5, 1)>>, <<Usable(2, 1)>>, <<>>}

Tag(type, size, map) == [type |-> type, size |-> size, map |-> map]
EndTag == Tag("end", 8, <<>>)

\* A list with the map between tags of sizes that are and are not multiples of 8.
InfoWith(map) ==
    [multiboot2 |-> TRUE,
     tags |-> <<Tag("other", 13, <<>>), Tag("other", 24, <<>>), Tag("mmap", 40, map),
                Tag("mmap", 16, <<>>), EndTag>>]

\* A list without a map; one whose map lies behind its end.
MCBootInfos ==
    {InfoWith(map) : map \in Maps}
        \cup {[multiboot2 |-> TRUE, tags |-> <<Tag("other", 9, <<>>), EndTag>>],
              [multiboot2 |-> TRUE,
               tags |-> <<EndTag, Tag("mmap", 40, <<Usable(0, MaxPages)>>)>>]}

\* The loader of grub.cfg, which speaks the first Multiboot.
Multiboot1 ==
    {[multiboot2 |-> FALSE, tags |-> InfoWith(map).tags] : map \in Maps}
================================================================================
