------------------------------- MODULE LineEditor -------------------------------
(****************************************************************************)
(* The line editor and command history of src/kernel/shell/shell.c: what    *)
(* shell_start does with each key it pops.  The strings are the C arrays,   *)
(* with their terminators and with whatever earlier lines left behind them; *)
(* what is printed goes to a Console.                                       *)
(*                                                                          *)
(* A command is run to its end by one step: it clears the screen or prints  *)
(* one of a few texts, and split_args has cut the line in shell_buffer.     *)
(****************************************************************************)
EXTENDS Console, FiniteSets

CONSTANTS
    BufferSize,   \* SHELL_BUFFER_SIZE
    HistorySize,  \* HISTORY_SIZE
    Chars,        \* the characters that can be typed
    NUL,          \* the end of a string
    Prompt,       \* the text print_prompt prints
    Outputs       \* the texts a command may print

\* What is printed with print_text.
Printed == UNION {{text[k] : k \in DOMAIN text} : text \in Outputs \cup {Prompt}}

\* The key of a new line ends the line and is not put into it; the prompt ends
\* with a character that the font has; a line and its prompt fit above the last row.
ASSUME LineEditorAssumption ==
    /\ BufferSize \in Nat /\ BufferSize >= 2
    /\ HistorySize \in Nat \ {0}
    /\ NUL \notin Chars /\ NewLine \notin Chars
    /\ \A text \in Outputs \cup {Prompt} : text \in Seq(Printed)
    /\ Prompt # <<>> /\ BufferSize <= (Rows - 1) * Cols
    /\ Prompt[Len(Prompt)] \notin Colours \cup Unprintable \cup {NewLine, ResetColour}

VARIABLES
    shell_buffer, idx,
    history, history_count, history_next,
    history_browse_index, saved_current,
    console,      \* the screen
    ran           \* the string interpret_command was called with last

ring == <<history, history_count, history_next>>
vars == <<shell_buffer, idx, ring, history_browse_index, saved_current, console, ran>>

Cells   == 0 .. BufferSize - 1
Strings == [Cells -> Chars \cup {NUL}]

\* The string in an array: the characters before the first NUL.
Text(s) ==
    LET Ends(n) == n = BufferSize \/ s[n] = NUL
        length  == CHOOSE n \in 0 .. BufferSize :
                       Ends(n) /\ \A k \in 0 .. n - 1 : ~Ends(k)
    IN  [k \in 1 .. length |-> s[k - 1]]

\* The array with text, and its terminator, copied to its beginning.
Holding(s, text) ==
    [k \in Cells |-> IF k < Len(text) THEN text[k + 1]
                     ELSE IF k = Len(text) THEN NUL
                     ELSE s[k]]

\* Mutant: the terminator of the line is forgotten.
Unterminated == shell_buffer

\* "shell_buffer[idx] = '\0'"
Terminated == [shell_buffer EXCEPT ![idx] = NUL]

--------------------------------------------------------------------------------
\* history_add; an empty line is not stored.
HistoryAdd(text) ==
    IF text = <<>>
      THEN UNCHANGED ring
      ELSE /\ history' = [history EXCEPT ![history_next] = Holding(@, text)]
           /\ history_next' = (history_next + 1) % HistorySize
           /\ history_count' = IF history_count < HistorySize
                                 THEN history_count + 1 ELSE history_count

\* The slot of the command run back commands before the most recent.
Slot(back) == (history_next + HistorySize - 1 - back) % HistorySize

\* history_get, for an entry that is there.
HistoryGet(back) == Text(history[Slot(back)])

\* redraw_line(idx, text): the line on the screen and in shell_buffer, which holds s,
\* is replaced.
RedrawLine(s, text) ==
    LET new == IF Len(text) < BufferSize THEN text ELSE SubSeq(text, 1, BufferSize - 1)
    IN  /\ shell_buffer' = Holding(s, new)
        /\ console' = FoldLeft(PrintChar, Back(console, idx), new)
        /\ idx' = Len(new)

\* split_args cuts the name of the command off its argument, in place.
SplitArgs(s) ==
    LET spaces == {k \in Cells : s[k] = Blank /\ k < Len(Text(s))}
    IN  [k \in Cells |-> IF k \in spaces /\ \A j \in spaces : k <= j
                           THEN NUL ELSE s[k]]

\* The screens interpret_command can leave when it comes back: a line without a
\* first word prints nothing, any other clears the screen or prints some text.
Interpreted(con, line) ==
    IF line = <<>> \/ line[1] = Blank THEN {con}
    ELSE {ClearScreen(con, Black)} \cup {PrintText(con, text) : text \in Outputs}

--------------------------------------------------------------------------------
\* init's clear_screen, and the prompt.
Init ==
    /\ shell_buffer = [k \in Cells |-> NUL]
    /\ idx = 0
    /\ history = [slot \in 0 .. HistorySize - 1 |-> [k \in Cells |-> NUL]]
    /\ history_count = 0 /\ history_next = 0
    /\ history_browse_index = -1
    /\ saved_current = [k \in Cells |-> NUL]
    /\ \E framebuffer \in BOOLEAN :
           console = PrintText(ClearScreen(ScreenInit(framebuffer), Black), Prompt)
    /\ ran = <<>>

\* The line is ended and kept when browsing begins.
Keeps   == history_browse_index = -1
Stashed == IF Keeps THEN Terminated ELSE shell_buffer

\* KEY_ARROW_UP, when there is an older command.
RecallOlder ==
    /\ history_browse_index + 1 < history_count
    /\ saved_current' = IF Keeps THEN Holding(saved_current, Text(Terminated))
                                 ELSE saved_current
    /\ history_browse_index' = history_browse_index + 1
    /\ RedrawLine(Stashed, HistoryGet(history_browse_index + 1))
    /\ UNCHANGED <<ring, ran>>

\* KEY_ARROW_UP, when there is none.
NothingOlder ==
    /\ history_browse_index + 1 >= history_count
    /\ shell_buffer' = Stashed
    /\ saved_current' = IF Keeps THEN Holding(saved_current, Text(Terminated))
                                 ELSE saved_current
    /\ UNCHANGED <<idx, ring, history_browse_index, console, ran>>

\* KEY_ARROW_DOWN, while browsing.
RecallNewer ==
    /\ history_browse_index >= 0
    /\ history_browse_index' = history_browse_index - 1
    /\ RedrawLine(shell_buffer, IF history_browse_index > 0
                                  THEN HistoryGet(history_browse_index - 1)
                                  ELSE Text(saved_current))
    /\ UNCHANGED <<ring, saved_current, ran>>

\* The line goes into the history before split_args cuts it.
Enter ==
    /\ HistoryAdd(Text(Terminated))
    /\ ran' = Text(Terminated)
    /\ shell_buffer' = SplitArgs(Terminated)
    /\ history_browse_index' = -1
    /\ idx' = 0
    /\ \E con \in Interpreted(PrintChar(console, NewLine), Text(Terminated)) :
           console' = PrintText(con, Prompt)
    /\ UNCHANGED saved_current

Backspace ==
    /\ idx > 0
    /\ idx' = idx - 1
    /\ console' = BackOne(console)
    /\ UNCHANGED <<shell_buffer, ring, history_browse_index, saved_current, ran>>

\* Mutant: the last cell is not kept for the terminator.
RoomForAll == idx < BufferSize

\* A character still fits the line.
Room == idx < BufferSize - 1

Character(ch) ==
    /\ Room
    /\ shell_buffer' = [shell_buffer EXCEPT ![idx] = ch]
    /\ idx' = idx + 1
    /\ console' = PrintChar(console, ch)
    /\ UNCHANGED <<ring, history_browse_index, saved_current, ran>>

Next ==
    \/ RecallOlder \/ NothingOlder \/ RecallNewer
    \/ Enter
    \/ Backspace
    \/ \E ch \in Chars : Character(ch)

Spec == Init /\ [][Next]_vars

--------------------------------------------------------------------------------
Line == [k \in 1 .. idx |-> shell_buffer[k - 1]]

EditorTypeOK ==
    /\ shell_buffer \in Strings /\ saved_current \in Strings
    /\ history \in [0 .. HistorySize - 1 -> Strings]
    /\ history_count \in 0 .. HistorySize
    /\ history_next \in 0 .. HistorySize - 1
    /\ history_browse_index \in -1 .. history_count - 1
    /\ idx \in Cells
    /\ IsConsole(console, Chars \cup Printed)

\* What can be read on the screen after the prompt is the line that Enter would
\* run, and nothing stands behind it: whatever has been recalled, edited and
\* wiped (shell.c:53-55), over the edges of rows and after scrolling.
ScreenShowsLine ==
    LET seen(p)  == Read(console, p)
        begin    == console.cursor - idx
        length   == Len(Line)
    IN  /\ begin >= 1 /\ seen(begin - 1) = Prompt[Len(Prompt)]
        /\ \A k \in 1 .. length :
               seen(begin + k - 1) =
                   IF console.framebuffer /\ Line[k] \in Unprintable THEN Blank ELSE Line[k]
        /\ \A p \in Positions : p >= console.cursor => seen(p) = Blank

\* The commands that can be recalled, and the line that was left for them.
Past == [n \in 1 .. history_count |-> HistoryGet(n - 1)]
Kept == IF history_browse_index = -1 THEN <<>> ELSE Text(saved_current)

\* The shell implements Session: the ring of arrays is the memory of the last
\* HistorySize commands, and no line is confused with what an earlier and longer
\* one has left in the arrays.
User == INSTANCE Session WITH
    line      <- Line,
    past      <- Past,
    browsing  <- history_browse_index + 1,
    kept      <- Kept,
    LineLimit <- BufferSize - 1,
    Memory    <- HistorySize

SessionSpec == User!Spec
================================================================================
