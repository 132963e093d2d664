------------------------------- MODULE KeyBuffer -------------------------------
(****************************************************************************)
(* The keyboard ring buffer of src/kernel/drivers/ps2.c, shared by the      *)
(* keyboard interrupt, which pushes, and its two readers in                 *)
(* src/kernel/shell/shell.c: shell_start, which halts the processor when    *)
(* there is nothing to pop, and command_loop, which runs a command over and *)
(* over until there is something, and whose command may be a loop again.    *)
(*                                                                          *)
(* IRQ1 enters through an interrupt gate, so the handler runs with          *)
(* interrupts off and is one step here.  The shell's side is cut into the   *)
(* instructions between which the interrupt can fall: one step for each     *)
(* access of the shared variables and each use of the register eax, as      *)
(* key_buffer_pop is compiled by the Makefile's -O0 (the indices are        *)
(* volatile, so that they are loaded and stored in this order anyhow).      *)
(* Characters and indices are numbers, as they are in eax.                  *)
(****************************************************************************)
EXTENDS Integers, Sequences, SequencesExt

CONSTANTS
    Size,             \* KEY_BUFFER_SIZE
    Chars,            \* the characters keys produce
    MaxKeys,          \* bound: key presses in a behaviour
    MaxLoops,         \* bound: loops within one another
    EOI,              \* the value 0x20 keyboard_stub leaves in al
    StubRestoresAL    \* FALSE: keyboard_stub as it is written

ASSUME KeyBufferAssumption ==
    /\ Size \in Nat /\ Size >= 2
    /\ Chars \subseteq Nat \ {0}
    /\ MaxKeys \in Nat /\ MaxLoops \in Nat
    /\ EOI \in 0 .. Size - 1
    /\ StubRestoresAL \in BOOLEAN

VARIABLES
    key_buffer, key_buf_head, key_buf_tail,
    pc,          \* the instruction the shell executes next
    eax, edx,    \* its registers
    c,           \* the local variable of key_buffer_pop
    loops,       \* how many loops the command being run is made of
    depth,       \* which of them calls key_buffer_pop; 0: the shell
    draining,    \* and whether that is the loop that empties the buffer first
    down,        \* keys pressed and not yet released
    accepted, typed, lost     \* history, see Keystrokes

ring     == <<key_buffer, key_buf_head, key_buf_tail>>
history  == <<accepted, typed, lost>>
caller   == <<loops, depth, draining>>
vars     == <<ring, pc, eax, edx, c, caller, down, history>>

Index == 0 .. Size - 1

\* Mutant: no wrap-around.
SuccessorUnwrapped(i) == i + 1

\* (i + 1) % KEY_BUFFER_SIZE
Successor(i) == (i + 1) % Size

Init ==
    /\ key_buffer = [i \in Index |-> 0]
    /\ key_buf_head = 0 /\ key_buf_tail = 0
    /\ pc = "poll"
    /\ eax = 0 /\ edx = 0 /\ c = 0
    /\ loops = 0 /\ depth = 0 /\ draining = FALSE
    /\ down = 0
    /\ accepted = <<>> /\ typed = <<>> /\ lost = 0

--------------------------------------------------------------------------------
\* The interrupt.

\* Mutant: a full buffer is not noticed.
NeverFull == FALSE

\* key_buffer_push's check.
Full == Successor(key_buf_head) = key_buf_tail

\* What the interrupt does to the code it interrupts: "popa; mov al, 0x20;
\* out 0x20, al; iretd" leaves the EOI command in al, and a halted processor
\* goes on after its hlt.
Interrupted ==
    /\ eax' = IF StubRestoresAL THEN eax ELSE EOI
    /\ pc' = IF pc = "halted" THEN "poll" ELSE pc

\* keyboard_handler for the make code of a key with a character.
Press(ch) ==
    /\ Len(accepted) + lost < MaxKeys
    /\ IF Full
         THEN /\ lost' = lost + 1
              /\ UNCHANGED <<key_buffer, key_buf_head, accepted>>
         ELSE /\ key_buffer' = [key_buffer EXCEPT ![key_buf_head] = ch]
              /\ key_buf_head' = Successor(key_buf_head)
              /\ accepted' = Append(accepted, ch)
              /\ UNCHANGED lost
    /\ down' = down + 1
    /\ Interrupted
    /\ UNCHANGED <<key_buf_tail, edx, c, caller, typed>>

\* keyboard_handler for a break code pushes nothing.  A key stays down longer
\* than the few instructions between the shell's look at key_buf_head and its
\* hlt: a key pressed in that window is not released in it.
Release ==
    /\ down > 0
    /\ pc \in {"compare", "none", "return", "hlt"} => key_buf_head = key_buf_tail
    /\ down' = down - 1
    /\ Interrupted
    /\ UNCHANGED <<ring, edx, c, caller, history>>

--------------------------------------------------------------------------------
\* The shell's loop.  Each instruction names the one that follows it.

At(here, next) == pc = here /\ pc' = next

LoadTail ==
    /\ At("poll", "head")
    /\ edx' = key_buf_tail
    /\ UNCHANGED <<ring, eax, c, caller, down, history>>

LoadHead ==
    /\ At("head", "compare")
    /\ eax' = key_buf_head
    /\ UNCHANGED <<ring, edx, c, caller, down, history>>

Compare ==
    /\ At("compare", IF edx = eax THEN "none" ELSE "index")
    /\ UNCHANGED <<ring, eax, edx, c, caller, down, history>>

LoadNone ==
    /\ At("none", "return")
    /\ eax' = 0
    /\ UNCHANGED <<ring, edx, c, caller, down, history>>

LoadIndex ==
    /\ At("index", "char")
    /\ eax' = key_buf_tail
    /\ UNCHANGED <<ring, edx, c, caller, down, history>>

LoadChar ==
    /\ At("char", "save")
    /\ eax' = key_buffer[eax]
    /\ UNCHANGED <<ring, edx, c, caller, down, history>>

SaveChar ==
    /\ At("save", "tail")
    /\ c' = eax
    /\ UNCHANGED <<ring, eax, edx, caller, down, history>>

LoadTailAgain ==
    /\ At("tail", "advance")
    /\ eax' = key_buf_tail
    /\ UNCHANGED <<ring, edx, c, caller, down, history>>

\* The addition and the masking; al overwritten between them or after them is
\* the same.
Advance ==
    /\ At("advance", "store")
    /\ eax' = Successor(eax)
    /\ UNCHANGED <<ring, edx, c, caller, down, history>>

StoreTail ==
    /\ At("store", "result")
    /\ key_buf_tail' = eax
    /\ UNCHANGED <<key_buffer, key_buf_head, eax, edx, c, caller, down, history>>

LoadResult ==
    /\ At("result", "return")
    /\ eax' = c
    /\ UNCHANGED <<ring, edx, c, caller, down, history>>

\* Mutant: the shell halts after every key, whether or not another is waiting.
AfterKeyHalt == "hlt"

\* Where shell_start's loop goes once it has dealt with a key: the next poll.
AfterKey == "poll"

\* What key_buffer_pop returns in eax, if it is a key, has been read.
Got == typed' = IF eax = 0 THEN typed ELSE Append(typed, eax)

\* To shell_start: 0 makes it halt.  A key may be the Enter of a command, and the
\* command may be a loop.
ReturnToShell ==
    /\ depth = 0
    /\ At("return", IF eax = 0 THEN "hlt" ELSE AfterKey)
    /\ \E n \in IF eax = 0 THEN {0} ELSE 0 .. MaxLoops :
           loops' = n /\ depth' = IF n = 0 THEN 0 ELSE 1
    /\ draining' = (depth' = 1)
    /\ Got
    /\ UNCHANGED <<ring, eax, edx, c, down, accepted, lost>>

\* To the first loop of command_loop, which empties the buffer.
ReturnToDrain ==
    /\ draining
    /\ At("return", "poll")
    /\ draining' = (eax # 0)
    /\ Got
    /\ UNCHANGED <<ring, eax, edx, c, loops, depth, down, accepted, lost>>

\* Mutant: a loop empties the buffer before every run of its command.
DrainsAgain == TRUE

\* Between the runs of a command that is not a loop, nothing empties the buffer.
Drains == depth < loops

\* To its second loop: a key ends it, and the loop around it looks for another
\* key; without one the command is run again.
ReturnToLoop ==
    /\ depth > 0 /\ ~draining
    /\ At("return", "poll")
    /\ IF eax # 0
         THEN /\ depth' = depth - 1
              /\ draining' = FALSE
         ELSE /\ depth' = IF depth < loops THEN depth + 1 ELSE depth
              /\ draining' = Drains
    /\ loops' = IF depth' = 0 THEN 0 ELSE loops
    /\ Got
    /\ UNCHANGED <<ring, eax, edx, c, down, accepted, lost>>

Halt ==
    /\ At("hlt", "halted")
    /\ UNCHANGED <<ring, eax, edx, c, caller, down, history>>

Shell ==
    \/ LoadTail \/ LoadHead \/ Compare \/ LoadNone
    \/ LoadIndex \/ LoadChar \/ SaveChar
    \/ LoadTailAgain \/ Advance \/ StoreTail \/ LoadResult
    \/ ReturnToShell \/ ReturnToDrain \/ ReturnToLoop
    \/ Halt

Next ==
    \/ \E ch \in Chars : Press(ch)
    \/ Release
    \/ Shell

Spec == Init /\ [][Next]_vars

\* The processor executes what it has to execute, and a key that is down is
\* released some day.  Nothing makes anyone press a key.
FairSpec == Spec /\ WF_vars(Shell) /\ WF_vars(Release)

--------------------------------------------------------------------------------
KeyTypeOK ==
    /\ key_buffer \in [Index -> Chars \cup {0}]
    /\ key_buf_head \in Index /\ key_buf_tail \in Index
    /\ eax \in Index \cup Chars /\ edx \in Index
    /\ c \in Chars \cup {0}
    /\ loops \in 0 .. MaxLoops /\ depth \in 0 .. loops
    /\ (depth = 0 <=> loops = 0) /\ (draining => depth > 0)
    /\ down \in 0 .. MaxKeys

\* ps2.h:16-17, "pop the next buffered keypress, or 0 if none waiting. safe to
\* poll from the shell / main loop": what the shell gets is what went into the
\* buffer, in order, nothing twice and nothing invented, and a key is dropped
\* only when Size - 1 are waiting, wherever the interrupts fall.
Stream == INSTANCE Keystrokes WITH Capacity <- Size - 1

InOrder == Stream!Spec

\* The same, of the characters alone: the shell has got a prefix of what went
\* into the buffer.
NothingInvented == IsPrefix(typed, accepted)

\* A key that went into the buffer reaches the shell, even one that arrives
\* between the shell's last look at the buffer and its hlt: the interrupt of
\* its release ends the hlt.
KeysReachShell ==
    \A n \in 1 .. MaxKeys : Len(accepted) >= n ~> Len(typed) >= n

\* shell.c:230, "until any key is pressed": a key that is in the buffer while the
\* innermost loop runs its command ends that loop.  The loops around it get no
\* such promise: the inner one's drain takes the keys that were meant for them.
KeyEndsLoop ==
    \A n \in 1 .. MaxLoops :
        (loops = n /\ depth = n /\ ~draining /\ key_buf_head # key_buf_tail)
            ~> depth < n
================================================================================
