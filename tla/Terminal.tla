------------------------------ MODULE Terminal ------------------------------
(***************************************************************************)
(* The text terminal printing for one caller, as during the boot: the loop *)
(* of printcount over the characters of a string, and scroll, row by row.  *)
(***************************************************************************)
EXTENDS TerminalRows, Sequences

VARIABLES
  pc,             \* where printcount is: between two characters, at the tests of
                  \* one, in scroll, behind it, at the drawing of the character
  char,           \* the character being printed, None between two
  row             \* the row scroll is at

vars == <<term, pc, char, row>>

None == "none"

ASSUME NoneAssumption == None \notin Glyphs

Init ==
  /\ term = EmptyTerminal
  /\ pc = "idle"
  /\ char = None
  /\ row = 0

\* The next character of any string.
Fetch(c) ==
  /\ pc = "idle"
  /\ pc' = "tests"
  /\ char' = c
  /\ UNCHANGED <<term, row>>

\* Where printcount goes on when a new row has been begun.
Behind == IF char = Newline THEN "idle" ELSE "draw"
Pending == IF char = Newline THEN None ELSE char

\* A newline, or a row that is full.
WidthReached_Late == term.x > Width        \* mutant: off by one
WidthReached == term.x = Width
NewRowNeeded == char = Newline \/ WidthReached

\* terminal.y++, terminal.x = 0.
NextRow ==
  /\ pc = "tests" /\ NewRowNeeded /\ ~BottomReached
  /\ term' = [term EXCEPT !.y = @ + 1, !.x = 0]
  /\ pc' = Behind
  /\ char' = Pending
  /\ UNCHANGED row

StartScroll ==
  /\ pc = "tests" /\ NewRowNeeded /\ BottomReached
  /\ pc' = "scroll"
  /\ row' = 0
  /\ UNCHANGED <<term, char>>

\* y < terminal.height.
ScrollEnd_Short == row = Height - 1        \* mutant: the last row is left out
ScrollEnd == row = Height

ScrollOne ==
  /\ pc = "scroll" /\ ~ScrollEnd
  /\ term' = ScrollRow(term, row)
  /\ row' = row + 1
  /\ UNCHANGED <<pc, char>>

\* Back in printcount: terminal.x = 0.
AfterScroll ==
  /\ pc = "scroll" /\ ScrollEnd
  /\ term' = [term EXCEPT !.x = 0]
  /\ pc' = Behind
  /\ char' = Pending
  /\ row' = 0

NoNewRow ==
  /\ pc = "tests" /\ ~NewRowNeeded
  /\ pc' = "draw"
  /\ UNCHANGED <<term, char, row>>

Draw ==
  /\ pc = "draw"
  /\ term' = Put(term, char)
  /\ pc' = "idle"
  /\ char' = None
  /\ UNCHANGED row

Next ==
  \/ \E c \in Char : Fetch(c)
  \/ NextRow
  \/ StartScroll
  \/ ScrollOne
  \/ AfterScroll
  \/ NoNewRow
  \/ Draw

Spec == Init /\ [][Next]_vars

------------------------------------------------------------------------------
\* Types of the state; the length of a row buffer never exceeds a row.
TypeOK ==
  /\ term \in Terminal
  /\ term.x \in 0 .. Width
  /\ \A r \in Buffers : term.length[r] \in 0 .. Width
  /\ pc \in {"idle", "tests", "scroll", "draw"}
  /\ char \in Char \cup {None}
  /\ row \in 0 .. Height

\* Between two characters the screen shows the row buffers and nothing else,
\* however much has been scrolled, although clear_glyph clears more than it should.
ScreenShowsText == pc = "idle" => ScreenIsText(term)

\* The cursor counts the characters of its row, the rows below it are empty, and
\* no buffer holds a character behind its length, which a later scroll would show.
CursorAtEnd ==
  pc # "scroll" =>
    /\ term.x = term.length[term.y]
    /\ \A r \in Buffers : r > term.y => term.length[r] = 0
    /\ \A r \in Buffers, k \in Cols :
         term.text[r][k] = Blank <=> k >= term.length[r]

\* The inductive invariant behind them.  In scroll the row at hand may have lost
\* ink to the clearing of the row above it, all others are as the buffers say.
CharAtHand ==
  /\ pc = "idle" <=> char = None
  /\ pc = "draw" => char # Newline /\ term.x < Width
  /\ pc = "scroll" => NewRowNeeded /\ BottomReached

BuffersInOrder ==
  /\ \A r \in Buffers, k \in Cols :
       term.text[r][k] = Blank <=> k >= term.length[r]
  /\ \A r \in Buffers : r > term.y => term.length[r] = 0
  /\ IF pc = "scroll" THEN ScrollEnd => term.length[term.y] = 0
                      ELSE term.x = term.length[term.y]

ScreenInOrder ==
  \A x \in Cols, y \in Rows :
    LET text == IF x < term.length[y] THEN Ink(term.text[y][x]) ELSE {}
    IN  IF pc = "scroll" /\ y = row THEN term.screen[<<x, y>>] \subseteq text
                                   ELSE term.screen[<<x, y>>] = text

IInv == TypeOK /\ CharAtHand /\ BuffersInOrder /\ ScreenInOrder

------------------------------------------------------------------------------
\* Row r as far as its length.
RowText(r) == [k \in 1 .. term.length[r] |-> term.text[r][k - 1]]

\* While row is being scrolled its text has already moved up, and the new last
\* row is still to come.
Window ==
  IF pc = "scroll"
    THEN [i \in 1 .. Height |->
            IF i <= row THEN RowText(i - 1)
            ELSE IF i < Height THEN RowText(i)
            ELSE <<>>]
    ELSE [i \in 1 .. term.y + 1 |-> RowText(i - 1)]

\* Begin of a scroll: the newline is printed, or the row wrapped, at its start.
PrintedChar == IF pc = "scroll" THEN Pending ELSE char

OnPaper == INSTANCE Paper WITH window <- Window, char <- PrintedChar

\* The rows of the terminal are the end of an endless roll of paper.
ImplementsPaper == OnPaper!Spec
=============================================================================
