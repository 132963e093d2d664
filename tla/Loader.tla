--------------------------------- MODULE Loader ---------------------------------
(****************************************************************************)
(* The loader of programs, src/kernel/elf/elf32.c, and command_runelf       *)
(* around it: the file is in a buffer of the heap, elf32_load copies its    *)
(* segments to the addresses it names, and the program is called.           *)
(*                                                                          *)
(* A byte of the file is known by its offset.  Segments are meant for       *)
(* addresses outside the buffer; whether the page of an address is there is *)
(* up to the paging (Mapped).  A program that has been called comes back    *)
(* (elf32.h:25-27).                                                         *)
(****************************************************************************)
EXTENDS Integers, Sequences, FiniteSets

CONSTANTS
    Memory,      \* the addresses there are
    Images       \* the files that may be run, see LoaderAssumption

\* A file: whether the fields of its header up to e_machine are as required, its
\* size, the table of its program headers, and what that table holds.
ASSUME LoaderAssumption ==
    /\ Memory # {} /\ Memory = 0 .. Cardinality(Memory) - 1
    /\ \A image \in Images :
          /\ image.valid \in BOOLEAN
          /\ {image.size, image.phoff, image.phentsize} \subseteq Nat
          /\ image.segments \in Seq([load : BOOLEAN, vaddr : Memory,
                                    offset : Nat, filesz : Nat, memsz : Nat])

VARIABLES
    memory,     \* address -> the offset in the file of the byte put there, or
                \* Zero, or Other if this load has not been there
    buffer,     \* command_runelf holds a buffer
    image,      \* the file in it
    segment,    \* the program header elf32_load looks at next
    runelf      \* where command_runelf is: "prompt", "load", "call", "faulted"

loader_vars == <<memory, buffer, image, segment, runelf>>

\* No offsets in a file.
Other == -1
Zero  == -2

\* Where byte b of a segment goes.
Address(ph, b) == (ph.vaddr + b) % Cardinality(Memory)

\* What the loop puts there: bytes of the file, then zeros.
Byte(ph, b) == IF b < ph.filesz THEN ph.offset + b ELSE Zero

--------------------------------------------------------------------------------
LoaderInit ==
    /\ memory = [a \in Memory |-> Other]
    /\ buffer = FALSE
    /\ image \in Images
    /\ segment = 1
    /\ runelf = "prompt"

\* The checks of elf32_load before it looks at the first segment.  That an entry
\* of the table has room for a program header is not one of them; the images
\* have entries of that size or more.
HeaderAccepted(file) ==
    /\ file.valid
    /\ file.segments # <<>>
    /\ file.phoff <= file.size
    /\ file.phentsize * Len(file.segments) <= file.size - file.phoff

\* command_runelf calls elf32_load, once it has the buffer and the file in it; if it
\* gets no buffer or cannot read the file, it gives the buffer back and nothing is left.
StartLoad(file) ==
    /\ runelf = "prompt"
    /\ image' = file
    /\ buffer' = TRUE
    /\ segment' = 1
    /\ runelf' = "load"
    /\ memory' = [a \in Memory |-> Other]

\* elf32_load returns 0: the buffer is given back, nothing is called.
Reject ==
    /\ buffer' = FALSE
    /\ runelf' = "prompt"
    /\ UNCHANGED <<memory, image, segment>>

\* A segment's bytes lie in the file.
InFile(file, ph) == ph.offset <= file.size /\ ph.filesz <= file.size - ph.offset

RejectHeader ==
    /\ runelf = "load" /\ segment = 1
    /\ ~HeaderAccepted(image)
    /\ Reject

AtSegment ==
    /\ runelf = "load"
    /\ HeaderAccepted(image)
    /\ segment <= Len(image.segments)

RejectSegment ==
    /\ AtSegment
    /\ LET ph == image.segments[segment]
       IN  ph.load /\ (~InFile(image, ph) \/ ph.memsz < ph.filesz)
    /\ Reject

SkipSegment ==
    /\ AtSegment
    /\ ~image.segments[segment].load
    /\ segment' = segment + 1
    /\ UNCHANGED <<memory, buffer, image, runelf>>

\* Mutant: the bytes the file does not hold are left as they are.
CopiedOnly(ph) == ph.filesz

\* How many bytes are written.
Extent(ph) == ph.memsz

\* The two copying loops; the first address whose page is not there ends them,
\* and the kernel: isr_exception_handler halts.
CopySegment(mapped) ==
    /\ AtSegment
    /\ LET ph     == image.segments[segment]
           faults == {b \in 0 .. Extent(ph) - 1 : Address(ph, b) \notin mapped}
           upTo   == IF faults = {} THEN Extent(ph)
                     ELSE CHOOSE b \in faults : \A f \in faults : b <= f
           writes(a) == {b \in 0 .. upTo - 1 : Address(ph, b) = a}
       IN  /\ ph.load /\ InFile(image, ph) /\ ph.memsz >= ph.filesz
           /\ memory' = [a \in Memory |->
                            IF writes(a) = {} THEN memory[a]
                            ELSE Byte(ph, CHOOSE b \in writes(a) :
                                             \A w \in writes(a) : w <= b)]
           /\ runelf' = IF faults = {} THEN runelf ELSE "faulted"
    /\ segment' = segment + 1
    /\ UNCHANGED <<buffer, image>>

\* elf32_load returns 1, and elf32_run calls the entry point.
Call ==
    /\ runelf = "load" /\ HeaderAccepted(image)
    /\ segment > Len(image.segments)
    /\ runelf' = "call"
    /\ UNCHANGED <<memory, buffer, image, segment>>

\* The program returns.
Returns ==
    /\ runelf = "call"
    /\ buffer' = FALSE
    /\ runelf' = "prompt"
    /\ UNCHANGED <<memory, image, segment>>

LoaderSteps(mapped) ==
    \/ RejectHeader \/ RejectSegment \/ SkipSegment \/ CopySegment(mapped)
    \/ Call \/ Returns

--------------------------------------------------------------------------------
LoaderTypeOK ==
    /\ memory \in [Memory -> Nat \cup {Other, Zero}]
    /\ buffer \in BOOLEAN
    /\ image \in Images
    /\ segment \in 1 .. Len(image.segments) + 1
    /\ runelf \in {"prompt", "load", "call", "faulted"}
    /\ buffer <=> runelf # "prompt"
================================================================================
