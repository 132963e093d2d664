-------------------------------- MODULE Console --------------------------------
(****************************************************************************)
(* The screen of src/kernel/print.c, with both of its back ends: the text   *)
(* memory of the VGA card and a framebuffer into which glyphs are drawn.    *)
(*                                                                          *)
(* A console is a record: the cells, the position at which the next         *)
(* character goes (vga_text_offset or cursor_index), and the two colours in *)
(* force (the halves of current_vga_attr, or current_fg and current_bg).    *)
(* A cell is kept as the character and the colours it was drawn with; the   *)
(* pixels of a glyph, the pixel formats and the rounding of colours to the  *)
(* sixteen of the text mode are left out.                                   *)
(****************************************************************************)
EXTENDS Integers, Sequences, SequencesExt

CONSTANTS
    Cols, Rows,      \* the screen in cells
    Colours,         \* the colours an escape sequence can ask for
    Black, White,
    Blank,           \* the character ' '
    Unprintable,     \* the characters for which the font has no glyph
    NewLine,         \* '\n'
    ResetColour      \* the escape sequence ESC [ 0 m, as one item of a text

ASSUME ConsoleAssumption ==
    /\ Cols \in Nat \ {0} /\ Rows \in Nat \ {0}
    /\ Black # White /\ {Black, White} \subseteq Colours
    /\ Blank \notin Unprintable /\ NewLine # ResetColour
    /\ {NewLine, ResetColour} \cap (Colours \cup Unprintable \cup {Blank}) = {}

CellCount == Cols * Rows
Positions == 0 .. CellCount - 1

\* What stands in a cell into which ch is put: text memory keeps any character,
\* draw_glyph draws a blank for those outside the font.
Drawn(con, ch) ==
    [char  |-> IF con.framebuffer /\ ch \in Unprintable THEN Blank ELSE ch,
     ink   |-> con.ink,
     paper |-> con.paper]

\* draw_cell_blank, and a blank with the attribute in force.
Wiped(con) ==
    [char  |-> Blank,
     ink   |-> IF con.framebuffer THEN con.paper ELSE con.ink,
     paper |-> con.paper]

--------------------------------------------------------------------------------
\* scroll_screen
ScrollScreen(con) ==
    [con EXCEPT !.cells = [p \in Positions |->
                              IF p + Cols < CellCount THEN con.cells[p + Cols]
                                                      ELSE Wiped(con)],
                !.cursor = @ - Cols]

\* advance_cursor: the cursor is never more than a row past the end, so one
\* scroll brings it back.
AdvanceCursor(con) == IF con.cursor >= CellCount THEN ScrollScreen(con) ELSE con

\* '\n': the beginning of the next row.
ToNextRow(con) == AdvanceCursor([con EXCEPT !.cursor = ((@ \div Cols) + 1) * Cols])

PutCell(con, ch) ==
    AdvanceCursor([con EXCEPT !.cells[con.cursor] = Drawn(con, ch),
                              !.cursor = @ + 1])

\* print_char, for anything but '\b'.
PrintChar(con, ch) == IF ch = NewLine THEN ToNextRow(con) ELSE PutCell(con, ch)

\* Mutant: the cell stays as it is.
BackOnly(con) == IF con.cursor = 0 THEN con ELSE [con EXCEPT !.cursor = @ - 1]

\* print_char('\b'): back over the left edge to the row above, but never over
\* the top of the screen.
BackOne(con) ==
    IF con.cursor = 0 THEN con
    ELSE [con EXCEPT !.cells[con.cursor - 1] = Wiped(con), !.cursor = @ - 1]

Back(con, count) == FoldLeft(LAMBDA c, k : BackOne(c), con, [k \in 1 .. count |-> k])

\* print_text, item by item: an escape sequence that is well formed is a colour
\* or ResetColour, of one that is not every character is printed.  In text mode
\* the reset sets both halves of the attribute.
PrintItem(con, item) ==
    CASE item \in Colours    -> [con EXCEPT !.ink = item]
      [] item = ResetColour  -> [con EXCEPT !.ink = White,
                                            !.paper = IF con.framebuffer THEN @ ELSE Black]
      [] OTHER               -> PrintChar(con, item)

PrintText(con, text) == FoldLeft(PrintItem, con, text)

\* clear_screen: in text mode the attribute gets the colour as its background
\* and black as its foreground.
ClearScreen(con, colour) ==
    LET cleared == [con EXCEPT !.paper = colour,
                               !.ink = IF con.framebuffer THEN @ ELSE Black]
    IN  [cleared EXCEPT !.cells = [p \in Positions |-> Wiped(cleared)],
                        !.cursor = 0]

\* The static variables, and screen_init: whether there is a framebuffer it can
\* draw into.
ScreenInit(framebuffer) ==
    [framebuffer |-> framebuffer, cursor |-> 0, ink |-> White, paper |-> Black,
     cells |-> [p \in Positions |-> [char |-> Blank, ink |-> Black, paper |-> Black]]]

--------------------------------------------------------------------------------
\* What a console is, when only the characters in chars are ever put into it.
IsConsole(con, chars) ==
    /\ con.framebuffer \in BOOLEAN
    /\ con.cursor \in Positions
    /\ con.ink \in Colours /\ con.paper \in Colours
    /\ con.cells \in [Positions -> [char  : chars \cup {Blank},
                                    ink   : Colours, paper : Colours]]

\* The character that can be read in a cell.  In text mode clear_screen leaves
\* black on black, and nothing can be read before an escape sequence has set a
\* colour: there only the character in the cell is looked at.
Read(con, p) ==
    IF con.framebuffer /\ con.cells[p].ink = con.cells[p].paper
      THEN Blank ELSE con.cells[p].char
================================================================================
