--------------------------------- MODULE MCPmm ---------------------------------
(* Pmm on six pages of four bytes, of which the kernel's image takes one and *)
(* a half.                                                                   *)
EXTENDS Pmm

\* All the memory maps of at most two entries.
MapsOf(entries) ==
    {<<>>} \cup {<<e>> : e \in entries} \cup {<<e, f>> : e, f \in entries}

\* Entries that begin on a page boundary: they overlap one another, reach past
\* the managed memory, lie outside it, or end in the middle of a page.
AlignedMaps ==
    MapsOf([base : {0, 8, 16, 28}, length : {8, 16, 23}, usable : BOOLEAN])
================================================================================
