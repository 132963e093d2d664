-------------------------------- MODULE Session --------------------------------
(****************************************************************************)
(* What the shell's line editor promises its user (shell.c, and the last    *)
(* line of help: "Press Up/Down to recall previous commands"): a line of    *)
(* text that is run as it is seen, a memory of the last commands, newest    *)
(* first, and the way back to the line that was left for them.              *)
(****************************************************************************)
EXTENDS Integers, Sequences

CONSTANTS
    Chars,       \* what can be typed
    LineLimit,   \* characters that fit a line
    Memory       \* commands remembered

VARIABLES
    line,        \* the line being edited
    past,        \* the commands remembered, newest first
    browsing,    \* which of them was recalled last; 0 on the user's own line
    kept,        \* the user's own line while another is recalled
    ran          \* the command run last

vars == <<line, past, browsing, kept, ran>>

Init ==
    /\ line = <<>> /\ past = <<>> /\ browsing = 0 /\ kept = <<>> /\ ran = <<>>

Type(ch) ==
    /\ Len(line) < LineLimit
    /\ line' = Append(line, ch)
    /\ UNCHANGED <<past, browsing, kept, ran>>

Erase ==
    /\ line # <<>>
    /\ line' = SubSeq(line, 1, Len(line) - 1)
    /\ UNCHANGED <<past, browsing, kept, ran>>

Older ==
    /\ browsing < Len(past)
    /\ browsing' = browsing + 1
    /\ line' = past[browsing + 1]
    /\ kept' = IF browsing = 0 THEN line ELSE kept
    /\ UNCHANGED <<past, ran>>

Newer ==
    /\ browsing > 0
    /\ browsing' = browsing - 1
    /\ IF browsing = 1 THEN line' = kept /\ kept' = <<>>
                       ELSE line' = past[browsing - 1] /\ kept' = kept
    /\ UNCHANGED <<past, ran>>

\* The empty line is run, to no effect, and not remembered.
Run ==
    /\ ran' = line
    /\ past' = IF line = <<>> THEN past
               ELSE SubSeq(<<line>> \o past, 1,
                           IF Len(past) < Memory THEN Len(past) + 1 ELSE Memory)
    /\ line' = <<>> /\ kept' = <<>> /\ browsing' = 0

Next == (\E ch \in Chars : Type(ch)) \/ Erase \/ Older \/ Newer \/ Run

Spec == Init /\ [][Next]_vars
================================================================================
