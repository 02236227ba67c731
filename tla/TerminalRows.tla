---------------------------- MODULE TerminalRows ----------------------------
(***************************************************************************)
(* The data of the text terminal and what its routines do to it: the row   *)
(* buffers lines[], the cursor and the pixels of the screen.               *)
(*                                                                         *)
(* The screen is a grid of cells of one character.  The ink of a character *)
(* comes in four parts, told apart because clear_glyph clears one pixel    *)
(* row and one pixel column more than a character has: the corner pixel,   *)
(* the rest of the first pixel row, the rest of the first pixel column,    *)
(* and the rest.  Below the last row lies whatever follows the text area.  *)
(***************************************************************************)
EXTENDS Naturals

CONSTANTS
  Width,          \* terminal.width, in characters
  Height,         \* terminal.height
  Glyphs          \* characters that are drawn

ASSUME TerminalAssumption ==
  /\ Width \in 1 .. 128           \* characters[128] of a row
  /\ Height \in 1 .. 95           \* scroll reads the row below the last of lines[96]
  /\ {"newline", "blank", "foreign"} \cap Glyphs = {}

VARIABLE
  term            \* cursor, row buffers and screen

Newline == "newline"
Blank == "blank"                  \* 0 in a row buffer
Foreign == "foreign"              \* what is not the terminal's own ink
Char == Glyphs \cup {Newline}

Rows == 0 .. Height - 1
Cols == 0 .. Width - 1
Buffers == 0 .. Height            \* the rows of lines[] that are ever used
Parts == {"corner", "top", "left", "body"}
Cells == Cols \X (0 .. Height)

Ink(c) == {c} \X Parts
Inks == (Glyphs \cup {Foreign}) \X Parts

Terminal == [x : Nat, y : Rows,
             text : [Buffers -> [Cols -> Glyphs \cup {Blank}]],
             length : [Buffers -> Nat],
             screen : [Cells -> SUBSET Inks]]

\* init_text_terminal.
EmptyTerminal ==
  [x |-> 0, y |-> 0,
   text |-> [r \in Buffers |-> [k \in Cols |-> Blank]],
   length |-> [r \in Buffers |-> 0],
   screen |-> [c \in Cells |-> IF c[2] = Height THEN Ink(Foreign) ELSE {}]]

\* terminal.y + 1 == terminal.height: the next row is made by a scroll.
BottomReached_Late == term.y = Height   \* mutant: off by one
BottomReached == term.y + 1 = Height

\* print_char(c, x, y): render_glyph sets pixels and clears none.
Drawn(screen, c, x, y) == [screen EXCEPT ![<<x, y>>] = @ \cup Ink(c)]

\* What clear_glyph leaves of the ink at cell when it clears the cell at <<x, y>>:
\* its loops run over 9 by 17 pixels.  Left out: where a row of pixels ends with the
\* last character, the ninth column lies in column 0 of the next scan line, of the row
\* that is drawn right behind the clearing or that scroll comes to next.
Spared(cell, x, y) ==
  IF cell = <<x, y>> THEN {}
  ELSE IF cell = <<x + 1, y>> THEN {"top", "body"}
  ELSE IF cell = <<x, y + 1>> THEN {"left", "body"}
  ELSE IF cell = <<x + 1, y + 1>> THEN {"top", "left", "body"}
  ELSE Parts

\* The cells 0 .. n - 1 of row y cleared.
ClearedRow(screen, n, y) ==
  [cell \in Cells |->
     {i \in screen[cell] :
        \A k \in 0 .. n - 1 : i[2] \in Spared(cell, k, y)}]

\* The characters 0 .. n - 1 of row drawn in screen row y.
DrawnRow(screen, row, n, y) ==
  [cell \in Cells |->
     IF cell[2] = y /\ cell[1] < n /\ row[cell[1]] # Blank
       THEN screen[cell] \cup Ink(row[cell[1]])
       ELSE screen[cell]]

\* Row r of lines[] after memset and memmove: the old characters zeroed as far
\* as the old length, those of the next row copied as far as its length.
ShiftedRow_NoMemset(t, r) ==      \* mutant: the memset is forgotten
  [k \in Cols |-> IF k < t.length[r + 1] THEN t.text[r + 1][k] ELSE t.text[r][k]]
ShiftedRow(t, r) ==
  [k \in Cols |-> IF k < t.length[r + 1] THEN t.text[r + 1][k]
                  ELSE IF k < t.length[r] THEN Blank
                  ELSE t.text[r][k]]

ShiftedLength(t, r) == t.length[r + 1]

\* One round of the loop of scroll: clear the row on the screen, move the next
\* row up in the buffer, draw it.
RedrawnRow_DrawFirst(t, r) ==     \* mutant: drawn before the old row is cleared
  ClearedRow(DrawnRow(t.screen, ShiftedRow(t, r), ShiftedLength(t, r), r),
             t.length[r], r)
RedrawnRow(t, r) ==
  DrawnRow(ClearedRow(t.screen, t.length[r], r),
           ShiftedRow(t, r), ShiftedLength(t, r), r)

ScrollRow(t, r) ==
  [t EXCEPT !.text[r] = ShiftedRow(t, r),
            !.length[r] = ShiftedLength(t, r),
            !.screen = RedrawnRow(t, r)]

\* The rest of printcount for one character at the cursor.
Put(t, c) ==
  [t EXCEPT !.screen = Drawn(@, c, t.x, t.y),
            !.text[t.y][t.x] = c,
            !.length[t.y] = @ + 1,
            !.x = @ + 1]

\* What is drawn on the screen is what the row buffers hold, as far as their
\* lengths say, and nothing else is drawn.
ScreenIsText(t) ==
  \A x \in Cols, y \in Rows :
    t.screen[<<x, y>>] = IF x < t.length[y] THEN Ink(t.text[y][x]) ELSE {}
=============================================================================
