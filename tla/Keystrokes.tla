------------------------------- MODULE Keystrokes -------------------------------
(****************************************************************************)
(* What the key buffer promises (ps2.h:16-18, ps2.c:69-70): the reader gets *)
(* the buffered characters in the order they were typed, each once, and a   *)
(* character is dropped only when the buffer is full.                       *)
(****************************************************************************)
EXTENDS Integers, Sequences

CONSTANTS Chars, Capacity

VARIABLES
    accepted,   \* the characters that went into the buffer
    typed,      \* the characters the reader has got
    lost        \* how many were dropped

vars == <<accepted, typed, lost>>

Waiting == Len(accepted) - Len(typed)

Init == accepted = <<>> /\ typed = <<>> /\ lost = 0

\* The reader makes room a moment before it has its character in hand, so for
\* that moment one more character is on its way than the buffer holds.
Accept(ch) ==
    /\ Waiting <= Capacity
    /\ accepted' = Append(accepted, ch)
    /\ UNCHANGED <<typed, lost>>

Lose ==
    /\ Waiting >= Capacity
    /\ lost' = lost + 1
    /\ UNCHANGED <<accepted, typed>>

Deliver ==
    /\ Waiting > 0
    /\ typed' = Append(typed, accepted[Len(typed) + 1])
    /\ UNCHANGED <<accepted, lost>>

Next == (\E ch \in Chars : Accept(ch)) \/ Lose \/ Deliver

Spec == Init /\ [][Next]_vars
================================================================================
