------------------------------- MODULE MemoryPool -------------------------------
(****************************************************************************)
(* What kmalloc and kfree promise their callers (heap.h): memory that is    *)
(* aligned, lies in the given addresses, and overlaps no other memory in    *)
(* use, until it is given back.  How the memory is found is left open.      *)
(****************************************************************************)
EXTENDS Integers, Functions

CONSTANTS
    Addresses,   \* the addresses of memory that may be granted
    Align,       \* every granted pointer is a multiple of it
    Sizes        \* the sizes a caller may ask for

VARIABLE granted   \* the pointers in use, each with the size asked for

\* The addresses a grant of size bytes at ptr covers.
Span(ptr, size) == ptr .. ptr + size - 1

Init == granted = [ptr \in {} |-> 0]

Grant(ptr, size) ==
    /\ ptr % Align = 0
    /\ granted' = [p \in DOMAIN granted \cup {ptr} |->
                      IF p = ptr THEN size ELSE granted[p]]
    /\ Span(ptr, size) \subseteq Addresses
    /\ \A other \in DOMAIN granted :
          Span(ptr, size) \cap Span(other, granted[other]) = {}

Release(ptr) ==
    granted' = Restrict(granted, DOMAIN granted \ {ptr})

Next ==
    \/ \E ptr \in Addresses, size \in Sizes : Grant(ptr, size)
    \/ \E ptr \in DOMAIN granted : Release(ptr)

Spec == Init /\ [][Next]_granted
================================================================================
