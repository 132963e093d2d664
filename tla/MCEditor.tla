-------------------------------- MODULE MCEditor --------------------------------
(* The line editor on a screen of three rows of two cells: a prompt of one cell *)
(* and a line of two characters go over the edge of a row, and every command    *)
(* makes the screen scroll.                                                     *)
EXTENDS LineEditor

CONSTANTS x, esc, nul, gt, green, black, white, sp, nl, reset

MCPrompt == <<nl, gt>>

\* Nothing; a line in a colour, which stays in force, with a character the font
\* lacks; the colour reset.
MCOutputs == {<<>>, <<green, esc, x, nl>>, <<reset>>}
================================================================================
