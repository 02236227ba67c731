--------------------------- MODULE TerminalProofs ---------------------------
(***************************************************************************)
(* For terminals of every size and characters of every set.  One caller    *)
(* (Terminal): the screen shows the row buffers, however much is scrolled, *)
(* and the rows are the end of an endless roll of paper.  Several callers  *)
(* (Console): the types hold whatever is preempted, and for messages of    *)
(* which those of all processes fit into a row, no character is written    *)
(* beyond the end of a row and no two messages mix before the first        *)
(* scroll.                                                                 *)
(***************************************************************************)
EXTENDS Terminal, Console, SequenceTheorems, TLAPS

USE TerminalAssumption

Screens == [Cells -> SUBSET Inks]
RowTexts == [Cols -> Glyphs \cup {Blank}]

\* What the rest of the proofs knows of the constants.
LEMMA Sizes ==
  /\ Width \in Nat /\ Width > 0 /\ Height \in Nat /\ Height > 0
  /\ \A r \in Rows : r \in Buffers /\ r + 1 \in Buffers
  /\ \A r \in Buffers : r \in Nat /\ r <= Height
  /\ \A x \in Cols : x \in Nat /\ x < Width
  /\ \A x \in Cols, r \in Buffers : <<x, r>> \in Cells
  /\ Newline \notin Glyphs /\ Blank \notin Glyphs
BY DEF Rows, Buffers, Cols, Cells, Newline, Blank

LEMMA InkIsInk ==
  ASSUME NEW c \in Glyphs
  PROVE  Ink(c) \in SUBSET Inks
BY DEF Ink, Inks

\* clear_glyph over the characters of a row: the row is gone, the next one has
\* lost ink, the others are as before.
LEMMA ClearedRowAt ==
  ASSUME NEW screen \in Screens, NEW n \in Nat, NEW y \in Rows
  PROVE  /\ ClearedRow(screen, n, y) \in Screens
         /\ \A x \in Cols, z \in Rows :
              /\ ClearedRow(screen, n, y)[<<x, z>>] \subseteq screen[<<x, z>>]
              /\ z = y /\ x < n => ClearedRow(screen, n, y)[<<x, z>>] = {}
              /\ z # y /\ z # y + 1 =>
                   ClearedRow(screen, n, y)[<<x, z>>] = screen[<<x, z>>]
<1>1. ClearedRow(screen, n, y) \in Screens
  BY DEF ClearedRow, Screens
<1>2. ASSUME NEW x \in Cols, NEW z \in Rows
      PROVE  /\ ClearedRow(screen, n, y)[<<x, z>>] \subseteq screen[<<x, z>>]
             /\ z = y /\ x < n => ClearedRow(screen, n, y)[<<x, z>>] = {}
             /\ z # y /\ z # y + 1 =>
                  ClearedRow(screen, n, y)[<<x, z>>] = screen[<<x, z>>]
  <2> DEFINE cell == <<x, z>>
             kept(i) == \A k \in 0 .. n - 1 : i[2] \in Spared(cell, k, y)
  <2>1. cell \in Cells /\ screen[cell] \in SUBSET Inks
    BY Sizes DEF Screens
  <2>2. ClearedRow(screen, n, y)[cell] = {i \in screen[cell] : kept(i)}
    BY <2>1 DEF ClearedRow
  <2>3. CASE z = y /\ x < n
    <3>1. x \in 0 .. n - 1 /\ Spared(cell, x, y) = {}
      BY <2>3, Sizes DEF Spared
    <3>2. \A i : ~kept(i)
      BY <3>1
    <3> QED
      BY <2>2, <2>3, <3>2
  <2>4. CASE z # y /\ z # y + 1
    <3>1. \A k \in 0 .. n - 1 : Spared(cell, k, y) = Parts
      BY <2>4 DEF Spared
    <3>2. \A i \in screen[cell] : kept(i)
      BY <2>1, <3>1 DEF Inks
    <3> QED
      BY <2>2, <2>4, <3>2, Sizes
  <2> QED
    BY <2>2, <2>3, <2>4
<1> QED
  BY <1>1, <1>2

\* render_glyph over the characters of a row.
LEMMA DrawnRowAt ==
  ASSUME NEW screen \in Screens, NEW text \in RowTexts, NEW n \in Nat, NEW y \in Rows
  PROVE  /\ DrawnRow(screen, text, n, y) \in Screens
         /\ \A x \in Cols, z \in Rows :
              DrawnRow(screen, text, n, y)[<<x, z>>] =
                IF z = y /\ x < n /\ text[x] # Blank
                  THEN screen[<<x, z>>] \cup Ink(text[x]) ELSE screen[<<x, z>>]
<1> DEFINE inked(cell) == cell[2] = y /\ cell[1] < n /\ text[cell[1]] # Blank
           at(cell) == IF inked(cell) THEN screen[cell] \cup Ink(text[cell[1]])
                                      ELSE screen[cell]
<1>1. DrawnRow(screen, text, n, y) = [cell \in Cells |-> at(cell)]
  BY DEF DrawnRow
<1>2. ASSUME NEW cell \in Cells PROVE at(cell) \in SUBSET Inks
  <2>1. cell[1] \in Cols /\ screen[cell] \in SUBSET Inks
    BY DEF Cells, Screens
  <2>2. text[cell[1]] # Blank => Ink(text[cell[1]]) \in SUBSET Inks
    BY <2>1, InkIsInk DEF RowTexts
  <2> QED
    BY <2>1, <2>2
<1>3. DrawnRow(screen, text, n, y) \in Screens
  BY <1>1, <1>2 DEF Screens
<1>4. ASSUME NEW x \in Cols, NEW z \in Rows
      PROVE  DrawnRow(screen, text, n, y)[<<x, z>>] = at(<<x, z>>)
  BY <1>1, Sizes
<1> QED
  BY <1>3, <1>4

------------------------------------------------------------------------------
\* Two records with the same fields; the fields of the ones the terminal becomes.
LEMMA TerminalFields ==
  ASSUME NEW t \in Terminal
  PROVE  /\ t.x \in Nat /\ t.y \in Rows
         /\ t.text \in [Buffers -> RowTexts] /\ t.length \in [Buffers -> Nat]
         /\ t.screen \in Screens
BY DEF Terminal, RowTexts, Screens

\* memset and memmove leave a row of characters.
LEMMA ShiftedRowAt ==
  ASSUME NEW t \in Terminal, NEW r \in Rows
  PROVE  /\ ShiftedRow(t, r) \in RowTexts /\ ShiftedLength(t, r) \in Nat
         /\ \A k \in Cols :
              ShiftedRow(t, r)[k] = IF k < t.length[r + 1] THEN t.text[r + 1][k]
                                    ELSE IF k < t.length[r] THEN Blank
                                    ELSE t.text[r][k]
<1>1. /\ t.text[r] \in RowTexts /\ t.text[r + 1] \in RowTexts
      /\ t.length[r + 1] \in Nat
  BY TerminalFields, Sizes
<1> QED
  BY <1>1 DEF ShiftedRow, ShiftedLength, RowTexts

\* A round of scroll changes one row of the buffers.
LEMMA ScrollRowFields ==
  ASSUME NEW t \in Terminal, NEW r \in Rows
  PROVE  LET u == ScrollRow(t, r)
         IN  /\ u \in Terminal /\ u.x = t.x /\ u.y = t.y
             /\ u.text = [t.text EXCEPT ![r] = ShiftedRow(t, r)]
             /\ u.length = [t.length EXCEPT ![r] = t.length[r + 1]]
             /\ u.screen = RedrawnRow(t, r)
<1>1. /\ t.x \in Nat /\ t.y \in Rows
      /\ t.text \in [Buffers -> RowTexts] /\ t.length \in [Buffers -> Nat]
      /\ t.screen \in Screens /\ r \in Buffers
  BY TerminalFields, Sizes
<1>2. ShiftedRow(t, r) \in RowTexts /\ ShiftedLength(t, r) \in Nat
      /\ ShiftedLength(t, r) = t.length[r + 1] /\ t.length[r] \in Nat
  BY <1>1, ShiftedRowAt DEF ShiftedLength
<1>3. RedrawnRow(t, r) \in Screens
  <2>1. ClearedRow(t.screen, t.length[r], r) \in Screens
    BY <1>1, <1>2, ClearedRowAt
  <2> QED
    BY <1>2, <2>1, DrawnRowAt DEF RedrawnRow
<1>4. [t.text EXCEPT ![r] = ShiftedRow(t, r)] \in [Buffers -> RowTexts]
      /\ [t.length EXCEPT ![r] = t.length[r + 1]] \in [Buffers -> Nat]
  BY <1>1, <1>2
<1>5. ScrollRow(t, r) =
        [t EXCEPT !.text = [t.text EXCEPT ![r] = ShiftedRow(t, r)],
                  !.length = [t.length EXCEPT ![r] = t.length[r + 1]],
                  !.screen = RedrawnRow(t, r)]
  BY <1>2 DEF ScrollRow, Terminal
<1> QED
  BY <1>1, <1>3, <1>4, <1>5 DEF Terminal, RowTexts, Screens

\* Where the cursor stands there is room for one more character.
LEMMA PutFields ==
  ASSUME NEW t \in Terminal, NEW c \in Glyphs, t.x \in Cols
  PROVE  LET u == Put(t, c)
         IN  /\ u \in Terminal /\ u.x = t.x + 1 /\ u.y = t.y
             /\ u.length = [t.length EXCEPT ![t.y] = t.length[t.y] + 1]
             /\ \A r \in Buffers, k \in Cols :
                  u.text[r][k] = IF r = t.y /\ k = t.x THEN c ELSE t.text[r][k]
             /\ \A x \in Cols, y \in Rows :
                  u.screen[<<x, y>>] = IF x = t.x /\ y = t.y
                                         THEN t.screen[<<x, y>>] \cup Ink(c)
                                         ELSE t.screen[<<x, y>>]
<1>1. /\ t.x \in Nat /\ t.y \in Rows /\ t.y \in Buffers
      /\ t.text \in [Buffers -> RowTexts] /\ t.length \in [Buffers -> Nat]
      /\ t.screen \in Screens /\ <<t.x, t.y>> \in Cells
  BY TerminalFields, Sizes
<1> DEFINE text == [t.text EXCEPT ![t.y] = [t.text[t.y] EXCEPT ![t.x] = c]]
           length == [t.length EXCEPT ![t.y] = t.length[t.y] + 1]
           screen == [t.screen EXCEPT ![<<t.x, t.y>>] = t.screen[<<t.x, t.y>>] \cup Ink(c)]
           column == t.x + 1
<1>2. Put(t, c) = [t EXCEPT !.screen = screen, !.text = text, !.length = length,
                            !.x = column]
  BY DEF Put, Drawn, Terminal
<1>3. text \in [Buffers -> RowTexts]
  BY <1>1 DEF RowTexts
<1>4. length \in [Buffers -> Nat]
  BY <1>1
<1>5. screen \in Screens
  BY <1>1, InkIsInk DEF Screens
<1>6. \A r \in Buffers, k \in Cols :
        text[r][k] = IF r = t.y /\ k = t.x THEN c ELSE t.text[r][k]
  BY <1>1 DEF RowTexts
<1>7. \A x \in Cols, y \in Rows :
        screen[<<x, y>>] = IF x = t.x /\ y = t.y THEN t.screen[<<x, y>>] \cup Ink(c)
                                                ELSE t.screen[<<x, y>>]
  BY <1>1, Sizes DEF Screens
<1>8. column \in Nat
  BY <1>1
<1> HIDE DEF text, length, screen, column
<1>9. /\ Put(t, c).text = text /\ Put(t, c).length = length
      /\ Put(t, c).screen = screen /\ Put(t, c).x = column /\ Put(t, c).y = t.y
  BY <1>2 DEF Terminal
<1>10. Put(t, c) \in Terminal
  BY <1>2, <1>3, <1>4, <1>5, <1>8 DEF Terminal, RowTexts, Screens
<1> QED
  BY <1>6, <1>7, <1>9, <1>10 DEF length, column

------------------------------------------------------------------------------
\* The invariant holds of the empty terminal and is kept by every step.
LEMMA TerminalInit == Init => IInv
<1> SUFFICES ASSUME Init PROVE IInv
  OBVIOUS
<1>1. term = EmptyTerminal /\ pc = "idle" /\ char = None /\ row = 0
  BY DEF Init
<1>2. /\ term.x = 0 /\ term.y = 0 /\ 0 \in Rows
      /\ term.text = [r \in Buffers |-> [k \in Cols |-> Blank]]
      /\ term.length = [r \in Buffers |-> 0]
      /\ term.screen = [c \in Cells |-> IF c[2] = Height THEN Ink(Foreign) ELSE {}]
  BY <1>1 DEF EmptyTerminal, Rows
<1>3. term.screen \in Screens
  BY <1>2 DEF Screens, Ink, Inks
<1>4. term \in Terminal
  BY <1>1, <1>2, <1>3 DEF EmptyTerminal, Terminal, Screens
<1>5. TypeOK
  BY <1>1, <1>2, <1>4, Sizes DEF TypeOK
<1>6. CharAtHand
  BY <1>1 DEF CharAtHand
<1>7. BuffersInOrder
  BY <1>1, <1>2, Sizes DEF BuffersInOrder
<1>8. ScreenInOrder
  <2> SUFFICES ASSUME NEW x \in Cols, NEW y \in Rows
               PROVE  ~ (x < term.length[y]) /\ term.screen[<<x, y>>] = {}
    BY <1>1 DEF ScreenInOrder
  <2>1. x \in Nat /\ <<x, y>> \in Cells /\ y # Height /\ y \in Buffers
    BY Sizes DEF Rows
  <2> QED
    BY <1>2, <2>1
<1> QED
  BY <1>5, <1>6, <1>7, <1>8 DEF IInv

LEMMA TerminalScrolls ==
  ASSUME IInv, ScrollOne
  PROVE  IInv'
<1>1. /\ row \in Rows /\ row + 1 \in Buffers /\ row \in Buffers /\ row \in Nat
      /\ pc = "scroll" /\ pc' = "scroll" /\ char' = char /\ row' = row + 1
      /\ term \in Terminal /\ term' = ScrollRow(term, row)
      /\ term.y \in Nat /\ term.y + 1 = Height
  BY Sizes, TerminalFields
     DEF IInv, TypeOK, CharAtHand, BottomReached, ScrollOne, ScrollEnd, Rows
<1> DEFINE S == term.screen
           T == ShiftedRow(term, row)
           n == term.length[row]
           m == term.length[row + 1]
<1>2. /\ term' \in Terminal /\ term'.x = term.x /\ term'.y = term.y
      /\ term'.text = [term.text EXCEPT ![row] = T]
      /\ term'.length = [term.length EXCEPT ![row] = m]
      /\ term'.screen = DrawnRow(ClearedRow(S, n, row), T, m, row)
  BY <1>1, ScrollRowFields DEF RedrawnRow, ShiftedLength
<1>3. /\ term.text \in [Buffers -> RowTexts] /\ term.length \in [Buffers -> Nat]
      /\ S \in Screens /\ T \in RowTexts /\ n \in 0 .. Width /\ m \in 0 .. Width
      /\ \A k \in Cols : T[k] = IF k < m THEN term.text[row + 1][k]
                              ELSE IF k < n THEN Blank ELSE term.text[row][k]
  BY <1>1, TerminalFields, ShiftedRowAt DEF IInv, TypeOK
<1>4. \A r \in Buffers :
        /\ term'.length[r] = IF r = row THEN m ELSE term.length[r]
        /\ term'.text[r] = IF r = row THEN T ELSE term.text[r]
  BY <1>1, <1>2, <1>3
<1>5. \A r \in Buffers : term.length[r] \in 0 .. Width
  BY DEF IInv, TypeOK
<1>6. \A r \in Buffers, k \in Cols : term.text[r][k] = Blank <=> k >= term.length[r]
  BY DEF IInv, BuffersInOrder
<1>7. \A r \in Buffers : r > term.y => term.length[r] = 0
  BY DEF IInv, BuffersInOrder
<1> HIDE DEF S, T, n, m
<1>8. TypeOK'
  <2>1. \A r \in Buffers : term'.length[r] \in 0 .. Width
    BY <1>3, <1>4, <1>5
  <2> QED
    BY <1>1, <1>2, <2>1 DEF IInv, TypeOK, Rows
<1>9. CharAtHand'
  BY <1>1, <1>2 DEF IInv, CharAtHand, NewRowNeeded, WidthReached, BottomReached
<1>10. BuffersInOrder'
  <2>1. ASSUME NEW r \in Buffers, NEW k \in Cols
        PROVE  term'.text[r][k] = Blank <=> k >= term'.length[r]
    <3>1. CASE r = row
      <4>1. (term.text[row + 1][k] = Blank <=> k >= m) /\ (term.text[row][k] = Blank <=> k >= n)
        BY <1>1, <1>6 DEF m, n
      <4> QED
        BY <1>3, <1>4, <3>1, <4>1, Sizes
    <3>2. CASE r # row
      BY <1>4, <1>6, <3>2
    <3> QED
      BY <3>1, <3>2
  <2>2. ASSUME NEW r \in Buffers, r > term'.y PROVE term'.length[r] = 0
    <3>1. r > term.y /\ r # row
      BY <1>1, <1>2, <2>2, Sizes DEF Rows
    <3> QED
      BY <1>4, <1>7, <3>1
  <2>3. ASSUME ScrollEnd' PROVE term'.length[term'.y] = 0
    <3>1. row + 1 = Height /\ term'.y = row
      BY <1>1, <1>2, <2>3 DEF ScrollEnd
    <3>2. m = 0
      BY <1>1, <1>7, <3>1 DEF m
    <3> QED
      BY <1>1, <1>4, <3>1, <3>2
  <2> QED
    BY <1>1, <2>1, <2>2, <2>3 DEF BuffersInOrder
<1>11. ScreenInOrder'
  <2> SUFFICES ASSUME NEW x \in Cols, NEW y \in Rows
               PROVE  LET text == IF x < term'.length[y] THEN Ink(term'.text[y][x]) ELSE {}
                      IN  IF y = row + 1 THEN term'.screen[<<x, y>>] \subseteq text
                                         ELSE term'.screen[<<x, y>>] = text
    BY <1>1 DEF ScreenInOrder
  <2> DEFINE C == ClearedRow(S, n, row)
             ink(b, l) == IF x < l THEN Ink(b[x]) ELSE {}
  <2>1. /\ C \in Screens /\ C[<<x, y>>] \subseteq S[<<x, y>>]
        /\ y = row /\ x < n => C[<<x, y>>] = {}
        /\ y # row /\ y # row + 1 => C[<<x, y>>] = S[<<x, y>>]
    <3>1. n \in Nat /\ S \in Screens /\ row \in Rows
      BY <1>1, <1>3
    <3>2. /\ C \in Screens
          /\ \A k \in Cols, z \in Rows :
               /\ C[<<k, z>>] \subseteq S[<<k, z>>]
               /\ z = row /\ k < n => C[<<k, z>>] = {}
               /\ z # row /\ z # row + 1 => C[<<k, z>>] = S[<<k, z>>]
      BY <3>1, ClearedRowAt
    <3> HIDE DEF C
    <3> QED
      BY <3>2
  <2>2. term'.screen[<<x, y>>] = IF y = row /\ x < m /\ T[x] # Blank
                                   THEN C[<<x, y>>] \cup Ink(T[x]) ELSE C[<<x, y>>]
    <3>1. /\ m \in Nat /\ T \in RowTexts /\ row \in Rows /\ C \in Screens
          /\ term'.screen = DrawnRow(C, T, m, row)
      BY <1>1, <1>2, <1>3, <2>1
    <3> HIDE DEF C, T, m
    <3>2. <<x, y>> \in Cells /\ <<x, y>>[1] = x /\ <<x, y>>[2] = y
      BY Sizes DEF Cells, Rows
    <3>3. DrawnRow(C, T, m, row)[<<x, y>>] =
            IF y = row /\ x < m /\ T[x] # Blank
              THEN C[<<x, y>>] \cup Ink(T[x]) ELSE C[<<x, y>>]
      BY <3>2 DEF DrawnRow
    <3> QED
      BY <3>1, <3>3
  <2>3. IF y = row THEN S[<<x, y>>] \subseteq ink(term.text[y], term.length[y])
                   ELSE S[<<x, y>>] = ink(term.text[y], term.length[y])
    BY <1>1 DEF IInv, ScreenInOrder, S
  <2>4. y \in Buffers /\ y \in Nat /\ x \in Nat
    BY Sizes
  <2> HIDE DEF C
  <2>5. CASE y = row
    <3>1. C[<<x, y>>] = {}
      BY <1>3, <2>1, <2>3, <2>4, <2>5 DEF n
    <3>2. x < m => T[x] # Blank
      BY <1>1, <1>3, <1>6, <2>4 DEF m
    <3>3. term'.screen[<<x, y>>] = ink(T, m)
      BY <2>2, <2>5, <3>1, <3>2
    <3> QED
      BY <1>1, <1>4, <2>4, <2>5, <3>3
  <2>6. CASE y = row + 1
    BY <1>1, <1>4, <2>1, <2>2, <2>3, <2>4, <2>6
  <2>7. CASE y # row /\ y # row + 1
    BY <1>4, <2>1, <2>2, <2>3, <2>4, <2>7
  <2> QED
    BY <2>5, <2>6, <2>7
<1> QED
  BY <1>8, <1>9, <1>10, <1>11 DEF IInv

LEMMA TerminalDraws ==
  ASSUME IInv, Draw
  PROVE  IInv'
<1>1. /\ pc = "draw" /\ pc' = "idle" /\ char' = None /\ row' = row
      /\ term \in Terminal /\ term' = Put(term, char)
      /\ term.x \in Nat /\ term.x < Width /\ char \in Glyphs
  BY TerminalFields DEF IInv, TypeOK, CharAtHand, Draw, Char
<1>2. term.x \in Cols
  BY <1>1 DEF Cols
<1>3. /\ term.y \in Rows /\ term.y \in Buffers /\ term.y \in Nat
      /\ term.length \in [Buffers -> Nat]
  BY <1>1, TerminalFields, Sizes
<1>4. /\ term' \in Terminal /\ term'.x = term.x + 1 /\ term'.y = term.y
      /\ term'.length = [term.length EXCEPT ![term.y] = term.length[term.y] + 1]
      /\ \A r \in Buffers, k \in Cols :
           term'.text[r][k] = IF r = term.y /\ k = term.x THEN char ELSE term.text[r][k]
      /\ \A x \in Cols, y \in Rows :
           term'.screen[<<x, y>>] = IF x = term.x /\ y = term.y
                                      THEN term.screen[<<x, y>>] \cup Ink(char)
                                      ELSE term.screen[<<x, y>>]
  <2> DEFINE u == Put(term, char)
  <2>1. term \in Terminal /\ char \in Glyphs
    BY <1>1
  <2>2. /\ u \in Terminal /\ u.x = term.x + 1 /\ u.y = term.y
        /\ u.length = [term.length EXCEPT ![term.y] = term.length[term.y] + 1]
        /\ \A r \in Buffers, k \in Cols :
             u.text[r][k] = IF r = term.y /\ k = term.x THEN char ELSE term.text[r][k]
        /\ \A x \in Cols, y \in Rows :
             u.screen[<<x, y>>] = IF x = term.x /\ y = term.y
                                    THEN term.screen[<<x, y>>] \cup Ink(char)
                                    ELSE term.screen[<<x, y>>]
    BY <1>2, <2>1, PutFields
  <2>3. term' = u
    BY <1>1
  <2> HIDE DEF u
  <2> QED
    BY <2>2, <2>3
<1>5. \A r \in Buffers :
        term'.length[r] = IF r = term.y THEN term.length[r] + 1 ELSE term.length[r]
  BY <1>3, <1>4
<1>6. /\ \A r \in Buffers : term.length[r] \in 0 .. Width
      /\ \A r \in Buffers, k \in Cols : term.text[r][k] = Blank <=> k >= term.length[r]
      /\ \A r \in Buffers : r > term.y => term.length[r] = 0
      /\ term.x = term.length[term.y]
  BY <1>1 DEF IInv, TypeOK, BuffersInOrder
<1>7. TypeOK'
  <2>1. \A r \in Buffers : term'.length[r] \in 0 .. Width
    BY <1>1, <1>5, <1>6
  <2>2. term'.x \in 0 .. Width
    BY <1>1, <1>4
  <2> QED
    BY <1>1, <1>4, <2>1, <2>2 DEF IInv, TypeOK
<1>8. CharAtHand'
  BY <1>1 DEF CharAtHand
<1>9. BuffersInOrder'
  <2>1. ASSUME NEW r \in Buffers, NEW k \in Cols
        PROVE  term'.text[r][k] = Blank <=> k >= term'.length[r]
    <3>1. k \in Nat /\ term.length[r] \in Nat /\ char # Blank
          /\ (term.text[r][k] = Blank <=> k >= term.length[r])
      BY <1>1, <1>6, Sizes
    <3>2. term'.text[r][k] = (IF r = term.y /\ k = term.x THEN char ELSE term.text[r][k])
          /\ term'.length[r] = (IF r = term.y THEN term.length[r] + 1 ELSE term.length[r])
      BY <1>4, <1>5
    <3>3. r = term.y => term.length[r] = term.x
      BY <1>6
    <3> QED
      BY <3>1, <3>2, <3>3
  <2>2. ASSUME NEW r \in Buffers, r > term'.y PROVE term'.length[r] = 0
    <3>1. r # term.y
      BY <1>3, <1>4, <2>2, Sizes
    <3> QED
      BY <1>4, <1>5, <1>6, <2>2, <3>1
  <2>3. term'.x = term'.length[term'.y]
    BY <1>3, <1>4, <1>5, <1>6
  <2> QED
    BY <1>1, <2>1, <2>2, <2>3 DEF BuffersInOrder
<1>10. ScreenInOrder'
  <2> SUFFICES ASSUME NEW x \in Cols, NEW y \in Rows
               PROVE  term'.screen[<<x, y>>] =
                        IF x < term'.length[y] THEN Ink(term'.text[y][x]) ELSE {}
    BY <1>1 DEF ScreenInOrder
  <2>1. term.screen[<<x, y>>] = IF x < term.length[y] THEN Ink(term.text[y][x]) ELSE {}
    BY <1>1 DEF IInv, ScreenInOrder
  <2>2. /\ term'.screen[<<x, y>>] = IF x = term.x /\ y = term.y
                                      THEN term.screen[<<x, y>>] \cup Ink(char)
                                      ELSE term.screen[<<x, y>>]
        /\ y \in Buffers /\ x \in Nat
    BY <1>4, Sizes
  <2>3. /\ term'.text[y][x] = (IF y = term.y /\ x = term.x THEN char ELSE term.text[y][x])
        /\ term'.length[y] = (IF y = term.y THEN term.length[y] + 1 ELSE term.length[y])
        /\ term.length[y] \in Nat /\ (y = term.y => term.length[y] = term.x)
    BY <1>4, <1>5, <1>6, <2>2
  <2>4. CASE x = term.x /\ y = term.y
    <3>1. term.screen[<<x, y>>] = {} /\ x < term'.length[y] /\ term'.text[y][x] = char
      BY <2>1, <2>2, <2>3, <2>4
    <3> QED
      BY <2>2, <2>4, <3>1
  <2>5. CASE ~ (x = term.x /\ y = term.y)
    <3>1. (x < term'.length[y] <=> x < term.length[y]) /\ term'.text[y][x] = term.text[y][x]
      BY <2>2, <2>3, <2>5
    <3> QED
      BY <2>1, <2>2, <2>5, <3>1
  <2> QED
    BY <2>4, <2>5
<1> QED
  BY <1>7, <1>8, <1>9, <1>10 DEF IInv

\* The steps that change no row: only the cursor moves.
LEMMA TerminalMoves ==
  ASSUME IInv,
         NextRow \/ StartScroll \/ AfterScroll \/ NoNewRow
           \/ (\E c \in Char : Fetch(c)) \/ UNCHANGED vars
  PROVE  IInv'
<1> DEFINE kept == /\ term' \in Terminal /\ term'.text = term.text
                   /\ term'.length = term.length /\ term'.screen = term.screen
<1>1. /\ term \in Terminal /\ term.x \in 0 .. Width /\ term.y \in Rows
      /\ term.y \in Nat /\ term.y < Height /\ term.y \in Buffers /\ Width > 0
      /\ \A r \in Buffers : term.length[r] \in 0 .. Width
      /\ row \in 0 .. Height /\ char \in Char \cup {None} /\ None # Newline /\ None \notin Char
  BY TerminalFields, Sizes, NoneAssumption DEF IInv, TypeOK, Rows, Char, None, Newline
<1>2. ASSUME kept, ScreenInOrder, row' = row \/ pc' # "scroll",
             pc = "scroll" => pc' = "scroll" \/ ScrollEnd
      PROVE  ScreenInOrder'
  <2> SUFFICES ASSUME NEW x \in Cols, NEW y \in Rows
               PROVE  LET text == IF x < term.length[y] THEN Ink(term.text[y][x]) ELSE {}
                      IN  IF pc' = "scroll" /\ y = row'
                            THEN term.screen[<<x, y>>] \subseteq text
                            ELSE term.screen[<<x, y>>] = text
    BY <1>2 DEF ScreenInOrder
  <2>1. LET text == IF x < term.length[y] THEN Ink(term.text[y][x]) ELSE {}
        IN  IF pc = "scroll" /\ y = row
              THEN term.screen[<<x, y>>] \subseteq text
              ELSE term.screen[<<x, y>>] = text
    BY <1>2 DEF ScreenInOrder
  <2>2. ScrollEnd => y # row
    BY Sizes DEF ScrollEnd, Rows
  <2> QED
    BY <1>2, <2>1, <2>2
<1>3. CASE \E c \in Char : Fetch(c)
  <2>1. kept /\ term' = term /\ pc = "idle" /\ pc' = "tests" /\ char' \in Char /\ row' = row
    BY <1>1, <1>3 DEF Fetch
  <2>2. ScreenInOrder'
    BY <1>2, <2>1 DEF IInv
  <2> QED
    BY <1>1, <2>1, <2>2 DEF IInv, TypeOK, CharAtHand, BuffersInOrder
<1>4. CASE NoNewRow
  <2>1. kept /\ term' = term /\ pc = "tests" /\ pc' = "draw" /\ char' = char /\ row' = row
    BY <1>1, <1>4 DEF NoNewRow
  <2>2. ScreenInOrder'
    BY <1>2, <2>1 DEF IInv
  <2>3. char # Newline /\ term.x < Width
    BY <1>1, <1>4 DEF NoNewRow, NewRowNeeded, WidthReached
  <2> QED
    BY <1>1, <2>1, <2>2, <2>3 DEF IInv, TypeOK, CharAtHand, BuffersInOrder
<1>5. CASE StartScroll
  <2>1. term' = term /\ pc = "tests" /\ pc' = "scroll" /\ char' = char /\ row' = 0
        /\ NewRowNeeded /\ BottomReached /\ ~ScrollEnd' /\ row' \in 0 .. Height
    BY <1>5, Sizes DEF StartScroll, ScrollEnd
  <2>2. ScreenInOrder'
    BY <2>1 DEF IInv, ScreenInOrder
  <2>3. CharAtHand'
    BY <2>1 DEF IInv, CharAtHand, NewRowNeeded, WidthReached, BottomReached
  <2> QED
    BY <2>1, <2>2, <2>3 DEF IInv, TypeOK, BuffersInOrder
<1>6. CASE NextRow
  <2>1. /\ term' = [term EXCEPT !.y = term.y + 1, !.x = 0] /\ pc = "tests"
        /\ pc' = Behind /\ char' = Pending /\ row' = row /\ term.y + 1 \in Rows
    BY <1>1, <1>6 DEF NextRow, BottomReached, Rows
  <2>2. kept /\ term'.x = 0 /\ term'.y = term.y + 1
    BY <1>1, <2>1 DEF Terminal
  <2>3. pc' # "scroll" /\ pc' # "tests"
    BY <2>1 DEF Behind
  <2>4. ScreenInOrder'
    BY <1>2, <2>1, <2>2, <2>3 DEF IInv
  <2>5. CharAtHand'
    BY <1>1, <2>1, <2>2 DEF IInv, CharAtHand, Behind, Pending
  <2>6. BuffersInOrder'
    <3>1. term.length[term.y + 1] = 0 /\ \A r \in Buffers : r > term.y + 1 => r > term.y
      BY <1>1, <2>1, Sizes DEF IInv, BuffersInOrder
    <3> QED
      BY <2>2, <2>3, <3>1 DEF IInv, BuffersInOrder
  <2>7. TypeOK'
    BY <1>1, <2>1, <2>2 DEF IInv, TypeOK, Behind, Pending
  <2> QED
    BY <2>4, <2>5, <2>6, <2>7 DEF IInv
<1>7. CASE AfterScroll
  <2>1. /\ term' = [term EXCEPT !.x = 0] /\ pc = "scroll" /\ ScrollEnd
        /\ pc' = Behind /\ char' = Pending /\ row' = 0
    BY <1>7 DEF AfterScroll
  <2>2. kept /\ term'.x = 0 /\ term'.y = term.y
    BY <1>1, <2>1 DEF Terminal
  <2>3. pc' # "scroll" /\ pc' # "tests"
    BY <2>1 DEF Behind
  <2>4. ScreenInOrder'
    BY <1>2, <2>1, <2>2, <2>3 DEF IInv
  <2>5. CharAtHand'
    BY <1>1, <2>1, <2>2 DEF IInv, CharAtHand, Behind, Pending
  <2>6. BuffersInOrder'
    BY <2>1, <2>2, <2>3 DEF IInv, BuffersInOrder
  <2>7. TypeOK'
    BY <1>1, <2>1, <2>2, Sizes DEF IInv, TypeOK, Behind, Pending
  <2> QED
    BY <2>4, <2>5, <2>6, <2>7 DEF IInv
<1>8. CASE UNCHANGED vars
  BY <1>8 DEF vars, IInv, TypeOK, CharAtHand, BuffersInOrder, ScreenInOrder,
     NewRowNeeded, WidthReached, BottomReached, ScrollEnd
<1> QED
  BY <1>3, <1>4, <1>5, <1>6, <1>7, <1>8

LEMMA TerminalSteps ==
  ASSUME IInv, [Next]_vars
  PROVE  IInv'
BY TerminalScrolls, TerminalDraws, TerminalMoves DEF Next

\* The types, the buffers and the screen, in scroll as well as between two
\* characters: the inductive invariant of printcount and scroll.
THEOREM TerminalInvariant == Spec => []IInv
BY TerminalInit, TerminalSteps, PTL DEF Spec

\* No row is longer than the width, and the cursor stays on the screen.
THEOREM TerminalTypes == Spec => []TypeOK
<1>1. IInv => TypeOK
  BY DEF IInv
<1> QED
  BY <1>1, TerminalInvariant, PTL

\* The cursor stands behind the last character of its row, the rows below are
\* empty, and no row buffer keeps a character behind its length.
THEOREM CursorAtEndHolds == Spec => []CursorAtEnd
<1>1. IInv => CursorAtEnd
  BY DEF IInv, BuffersInOrder, CursorAtEnd
<1> QED
  BY <1>1, TerminalInvariant, PTL

\* Between two characters the screen shows what the row buffers hold, however much
\* was scrolled: each row clear_glyph spoils is cleared and drawn in its turn.
THEOREM ScreenShowsTextHolds == Spec => []ScreenShowsText
<1>1. IInv => ScreenShowsText
  BY DEF IInv, ScreenInOrder, ScreenShowsText, ScreenIsText
<1> QED
  BY <1>1, TerminalInvariant, PTL

------------------------------------------------------------------------------
\* The rows as a roll of paper: what Window is, state by state.
Texts == Seq(Glyphs \cup {Blank})

Long == IF pc = "scroll" THEN Height ELSE term.y + 1
Shown(i) ==
  IF pc # "scroll" \/ i <= row THEN RowText(i - 1)
  ELSE IF i < Height THEN RowText(i)
  ELSE <<>>

RowFacts ==
  \A r \in Buffers :
    /\ RowText(r) \in Texts /\ Len(RowText(r)) = term.length[r]
    /\ \A k \in 1 .. term.length[r] : RowText(r)[k] = term.text[r][k - 1]

WindowFacts ==
  /\ Long \in 1 .. Height
  /\ Window \in Seq(Texts) /\ Len(Window) = Long
  /\ \A i \in 1 .. Long : Window[i] = Shown(i)

LEMMA RowsAre == IInv => RowFacts
<1> SUFFICES ASSUME IInv, NEW r \in Buffers
             PROVE  /\ RowText(r) \in Texts /\ Len(RowText(r)) = term.length[r]
                    /\ \A k \in 1 .. term.length[r] : RowText(r)[k] = term.text[r][k - 1]
  BY DEF RowFacts
<1> DEFINE n == term.length[r]
           e(k) == term.text[r][k - 1]
<1>1. n \in Nat /\ n <= Width /\ term.text[r] \in RowTexts
  BY TerminalFields DEF IInv, TypeOK
<1>2. \A k \in 1 .. n : e(k) \in Glyphs \cup {Blank}
  <2> SUFFICES ASSUME NEW k \in 1 .. n PROVE term.text[r][k - 1] \in Glyphs \cup {Blank}
    OBVIOUS
  <2>1. k - 1 \in Cols
    BY <1>1, Sizes DEF Cols
  <2> QED
    BY <1>1, <2>1 DEF RowTexts
<1>3. RowText(r) = [k \in 1 .. n |-> e(k)]
  BY DEF RowText
<1> HIDE DEF n, e
<1>4. [k \in 1 .. n |-> e(k)] \in Texts
  BY <1>1, <1>2, IsASeq DEF Texts
<1> QED
  BY <1>1, <1>3, <1>4 DEF n, e

LEMMA WindowIs == IInv => WindowFacts
<1> SUFFICES ASSUME IInv PROVE WindowFacts
  OBVIOUS
<1>1. RowFacts
  BY RowsAre
<1>2. term.y \in Rows /\ term.y \in Nat /\ term.y < Height /\ row \in 0 .. Height
  BY TerminalFields, Sizes DEF IInv, TypeOK, Rows
<1>3. Long \in 1 .. Height
  BY <1>2, Sizes DEF Long
<1>4. \A i \in 1 .. Long : Shown(i) \in Texts
  <2> SUFFICES ASSUME NEW i \in 1 .. Long PROVE Shown(i) \in Texts
    OBVIOUS
  <2>1. i - 1 \in Buffers /\ i \in Buffers
    BY <1>3, Sizes DEF Buffers
  <2>2. RowText(i - 1) \in Texts /\ RowText(i) \in Texts /\ <<>> \in Texts
    BY <1>1, <2>1, EmptySeq DEF RowFacts, Texts
  <2> QED
    BY <2>2 DEF Shown
<1>5. Window = [i \in 1 .. Long |-> Shown(i)]
  BY DEF Window, Long, Shown
<1> HIDE DEF Long, Shown
<1>6. [i \in 1 .. Long |-> Shown(i)] \in Seq(Texts)
  BY <1>3, <1>4, IsASeq
<1> QED
  BY <1>3, <1>5, <1>6 DEF WindowFacts

\* A row no step writes to keeps its text.
LEMMA RowKept ==
  ASSUME NEW r \in Buffers,
         term'.length[r] = term.length[r], term'.text[r] = term.text[r]
  PROVE  RowText(r)' = RowText(r)
BY DEF RowText

\* An empty row.
LEMMA RowEmpty ==
  ASSUME RowFacts, NEW r \in Buffers, term.length[r] = 0
  PROVE  RowText(r) = <<>>
BY EmptySeq DEF RowFacts, Texts

\* Two windows of the same length with the same rows are the same.
LEMMA SameWindow ==
  ASSUME NEW v \in Seq(Texts), NEW w \in Seq(Texts), Len(v) = Len(w),
         \A i \in 1 .. Len(w) : v[i] = w[i]
  PROVE  v = w
BY SeqEqual

\* terminal.y++: a new row below.
LEMMA NextRowFeeds ==
  ASSUME IInv, IInv', NextRow
  PROVE  Len(Window) # Height /\ Window' = Append(Window, <<>>)
<1>1. WindowFacts /\ RowFacts
  BY WindowIs, RowsAre
<1>2. WindowFacts' /\ RowFacts'
  BY WindowIs, RowsAre, PTL
<1>3. /\ pc = "tests" /\ pc' # "scroll" /\ term.y \in Nat /\ term.y + 1 < Height
      /\ term'.text = term.text /\ term'.length = term.length /\ term'.y = term.y + 1
      /\ term.y + 1 \in Buffers
  <2>1. term' = [term EXCEPT !.y = term.y + 1, !.x = 0] /\ pc = "tests"
        /\ pc' # "scroll" /\ term.y + 1 # Height /\ term \in Terminal
    BY DEF NextRow, BottomReached, Behind, IInv, TypeOK
  <2>2. term.y \in Nat /\ term.y + 1 \in Nat /\ term.y + 1 <= Height
    BY <2>1, TerminalFields, Sizes DEF Rows
  <2>3. /\ term'.text = term.text /\ term'.length = term.length
        /\ term'.y = term.y + 1
    BY <2>1 DEF Terminal
  <2>4. term.y + 1 < Height /\ term.y + 1 \in Buffers
    BY <2>1, <2>2, Sizes DEF Buffers
  <2> QED
    BY <2>1, <2>2, <2>3, <2>4
<1>4. Len(Window) = term.y + 1 /\ Len(Window') = term.y + 2
  BY <1>1, <1>2, <1>3 DEF WindowFacts, Long
<1>5. \A r \in Buffers : RowText(r)' = RowText(r)
  BY <1>3, RowKept
<1>6. RowText(term.y + 1) = <<>>
  <2>1. term.length[term.y + 1] = 0
    BY <1>3 DEF IInv, BuffersInOrder
  <2> QED
    BY <1>1, <1>3, <2>1, RowEmpty
<1>7. /\ Append(Window, <<>>) \in Seq(Texts) /\ Len(Append(Window, <<>>)) = term.y + 2
      /\ \A i \in 1 .. term.y + 1 : Append(Window, <<>>)[i] = Window[i]
      /\ Append(Window, <<>>)[term.y + 2] = <<>>
  <2>1. Window \in Seq(Texts) /\ <<>> \in Texts
    BY <1>1, EmptySeq DEF WindowFacts, Texts
  <2> QED
    BY <1>3, <1>4, <2>1, AppendProperties
<1>8. ASSUME NEW i \in 1 .. term.y + 2
      PROVE  Window'[i] = Append(Window, <<>>)[i]
  <2>1. i - 1 \in Buffers
    BY <1>3 DEF Buffers
  <2>2. Window'[i] = RowText(i - 1)
    BY <1>2, <1>3, <1>4, <1>5, <2>1 DEF WindowFacts, Shown, Long
  <2>3. CASE i = term.y + 2
    BY <1>3, <1>6, <1>7, <2>2, <2>3
  <2>4. CASE i # term.y + 2
    <3>1. i \in 1 .. term.y + 1
      BY <1>3, <2>4
    <3>2. Window[i] = RowText(i - 1)
      BY <1>1, <1>3, <3>1 DEF WindowFacts, Shown, Long
    <3> QED
      BY <1>7, <2>2, <3>1, <3>2
  <2> QED
    BY <2>3, <2>4
<1>9. Window' \in Seq(Texts)
  BY <1>2 DEF WindowFacts
<1>10. Window' = Append(Window, <<>>)
  <2> DEFINE v == Append(Window, <<>>)
  <2>1. v \in Seq(Texts) /\ Len(v) = Len(Window') /\ \A i \in 1 .. Len(v) : Window'[i] = v[i]
    BY <1>4, <1>7, <1>8
  <2> HIDE DEF v
  <2>2. Window' = v
    BY <1>9, <2>1, SameWindow
  <2> QED
    BY <2>2 DEF v
<1> QED
  BY <1>3, <1>4, <1>10

\* scroll is called: the first row is lost, and the last one is to be empty.
LEMMA ScrollFeeds ==
  ASSUME IInv, IInv', StartScroll
  PROVE  Len(Window) = Height /\ Window' = Append(Tail(Window), <<>>)
<1>1. WindowFacts
  BY WindowIs
<1>2. WindowFacts'
  BY WindowIs, PTL
<1>3. /\ pc = "tests" /\ pc' = "scroll" /\ term' = term /\ row' = 0
      /\ term.y + 1 = Height /\ Height \in Nat /\ Height > 0
  BY Sizes DEF StartScroll, BottomReached
<1>4. Len(Window) = Height /\ Len(Window') = Height
  BY <1>1, <1>2, <1>3 DEF WindowFacts, Long
<1>5. Window \in Seq(Texts) /\ Window # <<>> /\ <<>> \in Texts
  BY <1>1, <1>3, <1>4, EmptySeq DEF WindowFacts, Texts
<1>6. /\ Tail(Window) \in Seq(Texts) /\ Len(Tail(Window)) = Height - 1
      /\ \A i \in 1 .. Height - 1 : Tail(Window)[i] = Window[i + 1]
  BY <1>3, <1>4, <1>5, HeadTailProperties
<1> DEFINE v == Append(Tail(Window), <<>>)
<1>7. /\ v \in Seq(Texts) /\ Len(v) = Height
      /\ \A i \in 1 .. Height - 1 : v[i] = Window[i + 1]
      /\ v[Height] = <<>>
  BY <1>3, <1>5, <1>6, AppendProperties
<1>8. ASSUME NEW i \in 1 .. Height PROVE Window'[i] = v[i]
  <2>1. \A r : RowText(r)' = RowText(r)
    BY <1>3 DEF RowText
  <2>2. Window'[i] = IF i < Height THEN RowText(i) ELSE <<>>
    BY <1>2, <1>3, <1>4, <2>1 DEF WindowFacts, Shown, Long
  <2>3. i < Height => Window[i + 1] = RowText(i)
    <3> SUFFICES ASSUME i < Height PROVE Window[i + 1] = RowText(i)
      OBVIOUS
    <3>1. i + 1 \in 1 .. Height /\ (i + 1) - 1 = i
      BY <1>3
    <3>2. Window[i + 1] = Shown(i + 1)
      BY <1>1, <1>3, <3>1 DEF WindowFacts, Long
    <3> QED
      BY <1>3, <3>1, <3>2 DEF Shown
  <2> HIDE DEF v
  <2> QED
    BY <1>3, <1>7, <2>2, <2>3
<1>9. Window' \in Seq(Texts)
  BY <1>2 DEF WindowFacts
<1> HIDE DEF v
<1>10. Window' = v
  BY <1>4, <1>7, <1>8, <1>9, SameWindow
<1> QED
  BY <1>4, <1>10 DEF v

\* A row moved up in the buffers does not move on paper.
LEMMA ScrollOneKeepsWindow ==
  ASSUME IInv, IInv', ScrollOne
  PROVE  Window' = Window
<1>1. WindowFacts /\ RowFacts
  BY WindowIs, RowsAre
<1>2. WindowFacts' /\ RowFacts'
  BY WindowIs, RowsAre, PTL
<1>3. /\ pc = "scroll" /\ pc' = "scroll" /\ row' = row + 1 /\ row \in Rows
      /\ row \in Buffers /\ row + 1 \in Buffers
      /\ term \in Terminal /\ term' = ScrollRow(term, row)
      /\ Height \in Nat /\ row \in Nat /\ row < Height
      /\ term.y + 1 = Height /\ term.y \in Nat
  BY Sizes, TerminalFields
     DEF IInv, TypeOK, CharAtHand, BottomReached, ScrollOne, ScrollEnd, Rows
<1>4. Len(Window) = Height /\ Len(Window') = Height
  BY <1>1, <1>2, <1>3 DEF WindowFacts, Long
<1>5. \A r \in Buffers :
        /\ term'.length[r] = IF r = row THEN term.length[row + 1] ELSE term.length[r]
        /\ term'.text[r] = IF r = row THEN ShiftedRow(term, row) ELSE term.text[r]
  <2>1. /\ term'.text = [term.text EXCEPT ![row] = ShiftedRow(term, row)]
        /\ term'.length = [term.length EXCEPT ![row] = term.length[row + 1]]
    BY <1>3, ScrollRowFields
  <2> QED
    BY <1>3, <2>1, TerminalFields
<1>6. \A r \in Buffers : r # row => RowText(r)' = RowText(r)
  BY <1>5, RowKept
<1>7. ASSUME NEW r \in Buffers, r = row
      PROVE  RowText(r)' = RowText(r + 1)
  <2> DEFINE m == term.length[row + 1]
  <2>1. m \in 0 .. Width /\ term'.length[r] = m /\ r + 1 = row + 1
    BY <1>3, <1>5, <1>7 DEF IInv, TypeOK
  <2>2. ASSUME NEW k \in 1 .. m PROVE term'.text[r][k - 1] = term.text[r + 1][k - 1]
    <3>1. k - 1 \in Cols /\ k - 1 < m
      BY <2>1, Sizes DEF Cols
    <3>2. term'.text[r] = ShiftedRow(term, row)
      BY <1>5, <1>7
    <3> QED
      BY <1>3, <2>1, <3>1, <3>2, ShiftedRowAt
  <2> HIDE DEF m
  <2>3. /\ RowText(r)' \in Texts /\ Len(RowText(r)') = m
        /\ \A k \in 1 .. m : RowText(r)'[k] = term'.text[r][k - 1]
    BY <1>2, <2>1 DEF RowFacts
  <2>4. /\ RowText(r + 1) \in Texts /\ Len(RowText(r + 1)) = m
        /\ \A k \in 1 .. m : RowText(r + 1)[k] = term.text[r + 1][k - 1]
    BY <1>1, <1>3, <2>1 DEF RowFacts, m
  <2> HIDE DEF RowText
  <2> QED
    BY <2>2, <2>3, <2>4, SeqEqual DEF Texts
<1>8. RowText(Height) = <<>>
  <2>1. Height \in Buffers /\ Height > term.y
    BY <1>3 DEF Buffers
  <2>2. term.length[Height] = 0
    BY <2>1 DEF IInv, BuffersInOrder
  <2> QED
    BY <1>1, <2>1, <2>2, RowEmpty
<1>9. ASSUME NEW i \in 1 .. Height PROVE Window'[i] = Window[i]
  <2>1. i \in Nat /\ i - 1 \in Buffers /\ i \in Buffers
    BY <1>3 DEF Buffers
  <2>2. Window[i] = IF i <= row THEN RowText(i - 1)
                    ELSE IF i < Height THEN RowText(i) ELSE <<>>
    BY <1>1, <1>3, <1>4 DEF WindowFacts, Shown
  <2>3. Window'[i] = IF i <= row + 1 THEN RowText(i - 1)'
                     ELSE IF i < Height THEN RowText(i)' ELSE <<>>
    BY <1>2, <1>3, <1>4 DEF WindowFacts, Shown
  <2>4. CASE i <= row
    <3>1. i - 1 # row
      BY <1>3, <2>1, <2>4
    <3> QED
      BY <1>3, <1>6, <2>1, <2>2, <2>3, <2>4, <3>1
  <2>5. CASE i = row + 1
    <3>1. Window'[i] = RowText(i)
      <4>1. RowText(i - 1)' = RowText((i - 1) + 1) /\ (i - 1) + 1 = i
        BY <1>3, <1>7, <2>1, <2>5
      <4>2. i <= row + 1
        BY <1>3, <2>5
      <4> QED
        BY <2>3, <4>1, <4>2
    <3>2. ~ (i <= row)
      BY <1>3, <2>5
    <3> QED
      BY <1>3, <1>8, <2>1, <2>2, <3>1, <3>2
  <2>6. CASE i > row + 1
    <3>1. i # row /\ ~ (i <= row) /\ ~ (i <= row + 1)
      BY <1>3, <2>1, <2>6
    <3> QED
      BY <1>6, <2>1, <2>2, <2>3, <3>1
  <2> QED
    BY <1>3, <2>1, <2>4, <2>5, <2>6
<1>10. Window \in Seq(Texts) /\ Window' \in Seq(Texts)
  BY <1>1, <1>2 DEF WindowFacts
<1> HIDE DEF Window
<1> QED
  BY <1>4, <1>9, <1>10, SameWindow

\* Behind the last row the scroll is complete.
LEMMA AfterScrollKeepsWindow ==
  ASSUME IInv, IInv', AfterScroll
  PROVE  Window' = Window
<1>1. WindowFacts
  BY WindowIs
<1>2. WindowFacts'
  BY WindowIs, PTL
<1>3. /\ pc = "scroll" /\ pc' # "scroll" /\ row = Height /\ Height \in Nat
      /\ term \in Terminal /\ term' = [term EXCEPT !.x = 0] /\ term.y + 1 = Height
  BY Sizes DEF IInv, TypeOK, CharAtHand, BottomReached, AfterScroll, ScrollEnd, Behind
<1>4. term'.text = term.text /\ term'.length = term.length /\ term'.y = term.y
  BY <1>3 DEF Terminal
<1>5. Len(Window) = Height /\ Len(Window') = Height
  BY <1>1, <1>2, <1>3, <1>4 DEF WindowFacts, Long
<1>6. \A r \in Buffers : RowText(r)' = RowText(r)
  BY <1>4, RowKept
<1>7. ASSUME NEW i \in 1 .. Height PROVE Window'[i] = Window[i]
  <2>1. i - 1 \in Buffers /\ i <= row
    BY <1>3 DEF Buffers
  <2>2. Window[i] = RowText(i - 1) /\ Window'[i] = RowText(i - 1)'
    BY <1>1, <1>2, <1>3, <1>5, <2>1 DEF WindowFacts, Shown
  <2> QED
    BY <1>6, <2>1, <2>2
<1>8. Window \in Seq(Texts) /\ Window' \in Seq(Texts)
  BY <1>1, <1>2 DEF WindowFacts
<1> HIDE DEF Window
<1> QED
  BY <1>5, <1>7, <1>8, SameWindow

\* The character appears at the end of the last row.
LEMMA DrawExtendsWindow ==
  ASSUME IInv, IInv', Draw
  PROVE  /\ Len(Window) \in 1 .. Height /\ Len(Window[Len(Window)]) < Width
         /\ Window' = [Window EXCEPT ![Len(Window)] = Append(@, char)]
<1>1. WindowFacts /\ RowFacts
  BY WindowIs, RowsAre
<1>2. WindowFacts' /\ RowFacts'
  BY WindowIs, RowsAre, PTL
<1>3. /\ pc = "draw" /\ pc' = "idle" /\ term' = Put(term, char) /\ term \in Terminal
      /\ term.x \in Nat /\ term.x < Width /\ term.x \in Cols /\ char \in Glyphs
      /\ term.y \in Rows /\ term.y \in Nat /\ term.y < Height /\ term.y \in Buffers
      /\ term.x = term.length[term.y]
  BY TerminalFields, Sizes
     DEF IInv, TypeOK, CharAtHand, BuffersInOrder, Draw, Char, Rows, Cols
<1> DEFINE y == term.y
           u == Put(term, char)
<1>4. /\ u.y = y
      /\ u.length = [term.length EXCEPT ![y] = term.length[y] + 1]
      /\ \A r \in Buffers, k \in Cols :
           u.text[r][k] = IF r = y /\ k = term.x THEN char ELSE term.text[r][k]
  BY <1>3, PutFields
<1>5. u = term'
  BY <1>3
<1> HIDE DEF u
<1>6. /\ term'.y = y
      /\ \A r \in Buffers :
           term'.length[r] = IF r = y THEN term.length[r] + 1 ELSE term.length[r]
      /\ \A r \in Buffers, k \in Cols :
           term'.text[r][k] = IF r = y /\ k = term.x THEN char ELSE term.text[r][k]
  BY <1>3, <1>4, <1>5, TerminalFields
<1>7. /\ Long = y + 1 /\ Long' = y + 1
      /\ \A i : Shown(i) = RowText(i - 1) /\ Shown(i)' = RowText(i - 1)'
  BY <1>3, <1>6 DEF Long, Shown
<1>8. ASSUME NEW r \in Buffers
      PROVE  /\ RowText(r) \in Texts /\ Len(RowText(r)) = term.length[r]
             /\ \A k \in 1 .. term.length[r] : RowText(r)[k] = term.text[r][k - 1]
             /\ RowText(r)' \in Texts /\ Len(RowText(r)') = term'.length[r]
             /\ \A k \in 1 .. term'.length[r] : RowText(r)'[k] = term'.text[r][k - 1]
             /\ term.length[r] \in 0 .. Width
  BY <1>1, <1>2 DEF RowFacts, IInv, TypeOK
<1> HIDE DEF RowText
<1>9. ASSUME NEW r \in Buffers, r # y PROVE RowText(r)' = RowText(r)
  <2>1. term'.length[r] = term.length[r]
    BY <1>6, <1>9
  <2>2. \A k \in 1 .. term.length[r] : k - 1 \in Cols
    BY <1>8, Sizes DEF Cols
  <2>3. \A k \in 1 .. term.length[r] : RowText(r)'[k] = RowText(r)[k]
    BY <1>6, <1>8, <1>9, <2>1, <2>2
  <2> QED
    BY <1>8, <2>1, <2>3, SeqEqual DEF Texts
<1>10. ASSUME NEW r \in Buffers, r = y PROVE RowText(r)' = Append(RowText(r), char)
  <2> DEFINE old == RowText(r)
             n == term.length[r]
  <2>1. /\ Append(old, char) \in Texts /\ Len(Append(old, char)) = n + 1
        /\ \A k \in 1 .. n : Append(old, char)[k] = old[k]
        /\ Append(old, char)[n + 1] = char
    <3>1. old \in Seq(Glyphs \cup {Blank}) /\ char \in Glyphs \cup {Blank} /\ Len(old) = n
      BY <1>3, <1>8 DEF Texts
    <3> HIDE DEF old, n
    <3> QED
      BY <3>1, AppendProperties DEF Texts
  <2>2. n \in Nat /\ n = term.x /\ n < Width /\ term'.length[r] = n + 1
    BY <1>3, <1>6, <1>10
  <2>3. ASSUME NEW k \in 1 .. n + 1 PROVE RowText(r)'[k] = Append(old, char)[k]
    <3>1. k - 1 \in Cols /\ k \in Nat
      BY <2>2 DEF Cols
    <3>2. RowText(r)'[k] = IF k - 1 = n THEN char ELSE term.text[r][k - 1]
      BY <1>6, <1>8, <1>10, <2>2, <3>1
    <3>3. CASE k = n + 1
      BY <2>1, <2>2, <3>2, <3>3
    <3>4. CASE k # n + 1
      <4>1. k \in 1 .. n /\ k - 1 # n
        BY <2>2, <3>1, <3>4
      <4> QED
        BY <1>8, <2>1, <3>2, <4>1
    <3> QED
      BY <3>3, <3>4
  <2>4. RowText(r)' \in Seq(Glyphs \cup {Blank}) /\ Len(RowText(r)') = n + 1
    BY <1>8, <2>2 DEF Texts
  <2> DEFINE new == Append(old, char)
  <2>5. new \in Seq(Glyphs \cup {Blank}) /\ Len(new) = n + 1
        /\ \A k \in 1 .. n + 1 : RowText(r)'[k] = new[k]
    BY <2>1, <2>3 DEF Texts
  <2> HIDE DEF new, n
  <2>6. RowText(r)' = new
    BY <2>4, <2>5, SeqEqual
  <2> QED
    BY <2>6 DEF new
<1>11. /\ Window \in Seq(Texts) /\ Window' \in Seq(Texts)
       /\ Len(Window) = y + 1 /\ Len(Window') = y + 1
       /\ \A i \in 1 .. y + 1 : Window[i] = RowText(i - 1) /\ Window'[i] = RowText(i - 1)'
  BY <1>1, <1>2, <1>7 DEF WindowFacts
<1> HIDE DEF Window
<1>12. /\ y + 1 \in 1 .. Height /\ Window[y + 1] = RowText(y) /\ (y + 1) - 1 = y
       /\ Len(RowText(y)) < Width
  BY <1>3, <1>8, <1>11
<1> DEFINE v == [Window EXCEPT ![y + 1] = Append(Window[y + 1], char)]
<1>13. Append(Window[y + 1], char) \in Texts
  <2>1. RowText(y) \in Seq(Glyphs \cup {Blank}) /\ char \in Glyphs \cup {Blank}
    BY <1>3, <1>8 DEF Texts
  <2> QED
    BY <1>12, <2>1, AppendProperties DEF Texts
<1>14. /\ v \in Seq(Texts) /\ Len(v) = y + 1
       /\ \A i \in 1 .. y + 1 : v[i] = IF i = y + 1 THEN Append(Window[y + 1], char) ELSE Window[i]
  <2>1. y + 1 \in 1 .. Len(Window)
    BY <1>3, <1>11
  <2> QED
    BY <1>11, <1>13, <2>1, ExceptSeq
<1>15. ASSUME NEW i \in 1 .. y + 1 PROVE Window'[i] = v[i]
  <2>1. i - 1 \in Buffers /\ i \in Nat
    BY <1>3 DEF Buffers
  <2>2. CASE i = y + 1
    <3>1. i - 1 = y
      BY <1>3, <2>2
    <3> QED
      BY <1>10, <1>11, <1>12, <1>14, <2>1, <2>2, <3>1
  <2>3. CASE i # y + 1
    <3>1. i - 1 # y
      BY <1>3, <2>1, <2>3
    <3> QED
      BY <1>9, <1>11, <1>14, <2>1, <2>3, <3>1
  <2> QED
    BY <2>2, <2>3
<1> HIDE DEF v
<1>16. Window' = v
  BY <1>11, <1>14, <1>15, SameWindow
<1> QED
  BY <1>11, <1>12, <1>16 DEF v

\* An empty terminal is an empty sheet.
LEMMA EmptyPaper == Init => OnPaper!Init
<1> SUFFICES ASSUME Init PROVE OnPaper!Init
  OBVIOUS
<1>1. IInv /\ pc = "idle" /\ char = None
  BY TerminalInit DEF Init
<1>2. WindowFacts /\ RowFacts
  BY <1>1, WindowIs, RowsAre
<1>3. term.y = 0 /\ term.length[0] = 0 /\ 0 \in Buffers
  BY Sizes DEF Init, EmptyTerminal, Buffers
<1>4. Len(Window) = 1 /\ Window[1] = RowText(0) /\ Window \in Seq(Texts)
  BY <1>1, <1>2, <1>3 DEF WindowFacts, Long, Shown
<1>5. RowText(0) = <<>>
  BY <1>2, <1>3, RowEmpty
<1>6. <<<<>>>> \in Seq(Texts)
  BY EmptySeq DEF Texts
<1> HIDE DEF Window
<1>7. Window = <<<<>>>>
  BY <1>4, <1>5, <1>6, SameWindow
<1> QED
  BY <1>1, <1>7 DEF OnPaper!Init, PrintedChar

\* Every step of printcount and scroll is one of printing on paper, or none.
LEMMA StepsOnPaper ==
  ASSUME IInv, IInv', [Next]_vars
  PROVE  [OnPaper!Next]_OnPaper!vars
<1>1. /\ char \in Char \cup {None} /\ None \notin Char /\ Newline \notin Glyphs
      /\ pc = "idle" <=> char = None
  BY Sizes, NoneAssumption DEF IInv, TypeOK, CharAtHand, Char, None, Newline
<1>2. ASSUME NextRow \/ StartScroll
      PROVE  OnPaper!Feed
  <2>1. CASE NextRow
    BY <2>1, NextRowFeeds DEF OnPaper!Feed
  <2>2. CASE StartScroll
    BY <2>2, ScrollFeeds DEF OnPaper!Feed
  <2> QED
    BY <1>2, <2>1, <2>2
<1>3. ASSUME NextRow \/ StartScroll
      PROVE  PrintedChar = char /\ PrintedChar' = Pending /\ NewRowNeeded /\ char \in Char
  BY <1>1, <1>3 DEF NextRow, StartScroll, PrintedChar, Behind, Pending
<1>4. ASSUME NextRow \/ StartScroll, char # Newline
      PROVE  Len(OnPaper!LastRow) = Width
  <2>1. /\ pc = "tests" /\ term.x = Width /\ term.y \in Buffers /\ term.y \in Nat
        /\ term.x = term.length[term.y]
    BY <1>4, TerminalFields, Sizes
       DEF NextRow, StartScroll, NewRowNeeded, WidthReached, IInv, TypeOK, BuffersInOrder
  <2>2. WindowFacts /\ RowFacts
    BY WindowIs, RowsAre
  <2>3. Len(Window) = term.y + 1 /\ Window[term.y + 1] = RowText((term.y + 1) - 1)
    BY <2>1, <2>2 DEF WindowFacts, Long, Shown
  <2>4. (term.y + 1) - 1 = term.y /\ Len(RowText(term.y)) = Width
    BY <2>1, <2>2 DEF RowFacts
  <2> QED
    BY <2>3, <2>4 DEF OnPaper!LastRow
<1>5. CASE NextRow \/ StartScroll
  <2>1. CASE char = Newline
    BY <1>2, <1>3, <1>5, <2>1 DEF OnPaper!Next, OnPaper!PrintNewline, Pending
  <2>2. CASE char # Newline
    <3>1. char \in Glyphs /\ PrintedChar' = PrintedChar
      BY <1>3, <1>5, <2>2 DEF Char, Pending
    <3> QED
      BY <1>2, <1>3, <1>4, <1>5, <2>2, <3>1 DEF OnPaper!Next, OnPaper!Wrap
  <2> QED
    BY <2>1, <2>2
<1>6. CASE Draw
  <2>1. char \in Glyphs /\ PrintedChar = char /\ PrintedChar' = None
    BY <1>1, <1>6 DEF IInv, CharAtHand, Draw, Char, PrintedChar
  <2> HIDE DEF Window
  <2>2. OnPaper!PrintGlyph
    BY <1>6, <2>1, DrawExtendsWindow DEF OnPaper!PrintGlyph, OnPaper!LastRow
  <2> QED
    BY <2>2 DEF OnPaper!Next
<1>7. ASSUME NEW c \in Char, Fetch(c) PROVE OnPaper!Next
  <2>1. pc # "scroll" /\ pc' # "scroll" /\ term' = term /\ row' = row
        /\ PrintedChar = None /\ PrintedChar' = c
    BY <1>1, <1>7 DEF Fetch, PrintedChar
  <2>2. Window' = Window
    BY <2>1 DEF Window, RowText
  <2> QED
    BY <2>1, <2>2 DEF OnPaper!Next, OnPaper!Take, Char
<1>8. CASE NoNewRow
  <2>1. pc # "scroll" /\ pc' # "scroll" /\ term' = term /\ PrintedChar' = PrintedChar
    BY <1>8 DEF NoNewRow, PrintedChar
  <2>2. Window' = Window
    BY <2>1 DEF Window, RowText
  <2> QED
    BY <2>1, <2>2 DEF OnPaper!vars
<1>9. CASE ScrollOne
  <2>1. PrintedChar' = PrintedChar
    BY <1>9 DEF ScrollOne, PrintedChar, Pending
  <2> QED
    BY <1>9, <2>1, ScrollOneKeepsWindow DEF OnPaper!vars
<1>10. CASE AfterScroll
  <2>1. PrintedChar' = PrintedChar
    BY <1>10 DEF AfterScroll, PrintedChar, Pending, Behind
  <2> QED
    BY <1>10, <2>1, AfterScrollKeepsWindow DEF OnPaper!vars
<1>11. CASE UNCHANGED vars
  <2>1. Window' = Window /\ PrintedChar' = PrintedChar
    BY <1>11 DEF vars, Window, RowText, PrintedChar, Pending
  <2> QED
    BY <2>1 DEF OnPaper!vars
<1> QED
  BY <1>5, <1>6, <1>7, <1>8, <1>9, <1>10, <1>11 DEF Next

\* The refinement: the rows of the terminal, in scroll as it moves them up one by
\* one, are the window on an endless roll of paper.
THEOREM ImplementsPaperHolds == Spec => ImplementsPaper
<1>1. Init => OnPaper!Init
  BY EmptyPaper
<1>2. IInv /\ IInv' /\ [Next]_vars => [OnPaper!Next]_OnPaper!vars
  BY StepsOnPaper
<1> QED
  BY <1>1, <1>2, TerminalInvariant, PTL DEF Spec, ImplementsPaper, OnPaper!Spec

------------------------------------------------------------------------------
\* Several callers.  The process on the processor takes the step: its new local state.
L == local[running]

Turned(label, enabled, i, a, b) ==
  /\ running \in Printers /\ running' = running
  /\ local' = [local EXCEPT ![running] =
                 [pc |-> label, enabled |-> enabled, i |-> i, a |-> a, b |-> b]]

OnlyTurned(label, enabled, i, a, b) ==
  Turned(label, enabled, i, a, b) /\ term' = term /\ scrolled' = scrolled

LEMMA MessagesAre ==
  ASSUME NEW p \in Printers
  PROVE  /\ Len(Messages[p]) \in Nat /\ Len(Messages[p]) > 0
         /\ MessageWidth(p) \in Nat /\ Len(Messages[p]) = MessageWidth(p) + 1
         /\ \A k \in 1 .. Len(Messages[p]) :
              /\ Messages[p][k] \in Char
              /\ Messages[p][k] = Newline <=> k = Len(Messages[p])
              /\ k < Len(Messages[p]) => Messages[p][k] \in Glyphs
<1>1. Messages[p] \in Seq(Char) /\ Len(Messages[p]) > 0
      /\ \A k \in 1 .. Len(Messages[p]) : Messages[p][k] = Newline <=> k = Len(Messages[p])
  BY ConsoleAssumption
<1>2. Len(Messages[p]) \in Nat /\ \A k \in 1 .. Len(Messages[p]) : Messages[p][k] \in Char
  BY <1>1
<1> QED
  BY <1>1, <1>2 DEF MessageWidth, Char

LEMMA LocalFields ==
  ASSUME ConsoleTypeOK
  PROVE  /\ running \in Printers /\ L \in Local
         /\ L.pc \in Labels /\ L.enabled \in BOOLEAN /\ L.i \in Nat /\ L.a \in Nat /\ L.b \in Nat
         /\ L = [pc |-> L.pc, enabled |-> L.enabled, i |-> L.i, a |-> L.a, b |-> L.b]
BY DEF ConsoleTypeOK, Local, L

\* The forms of the assignments.
LEMMA AssignedPc ==
  ASSUME ConsoleTypeOK, NEW v, running' = running,
         local' = [local EXCEPT ![running].pc = v]
  PROVE  Turned(v, L.enabled, L.i, L.a, L.b)
<1> DEFINE r1 == [pc |-> v, enabled |-> L.enabled, i |-> L.i, a |-> L.a, b |-> L.b]
<1>1. running \in Printers /\ L \in Local /\ L = local[running] /\ local \in [Printers -> Local]
  BY LocalFields DEF L, ConsoleTypeOK
<1>2. r1 = [L EXCEPT !.pc = v]
  BY <1>1 DEF Local
<1>3. local' = [local EXCEPT ![running] = r1]
  BY <1>1, <1>2
<1> HIDE DEF r1
<1> QED
  BY <1>1, <1>2, <1>3 DEF Turned, r1

LEMMA AssignedA ==
  ASSUME ConsoleTypeOK, NEW v, NEW w, running' = running,
         local' = [local EXCEPT ![running].pc = v, ![running].a = w]
  PROVE  Turned(v, L.enabled, L.i, w, L.b)
<1> DEFINE r1 == [pc |-> v, enabled |-> L.enabled, i |-> L.i, a |-> L.a, b |-> L.b]
           r2 == [pc |-> v, enabled |-> L.enabled, i |-> L.i, a |-> w, b |-> L.b]
<1>1. running \in Printers /\ L \in Local /\ L = local[running] /\ local \in [Printers -> Local]
  BY LocalFields DEF L, ConsoleTypeOK
<1>2. r1 = [L EXCEPT !.pc = v]
  BY <1>1 DEF Local
<1> DEFINE m1 == [local EXCEPT ![running] = r1]
<1>3. local' = [m1 EXCEPT ![running].a = w]
  BY <1>1, <1>2
<1>4. m1 \in [Printers -> {r1} \cup Local] /\ m1[running] = r1
  BY <1>1
<1>5. local' = [m1 EXCEPT ![running] = r2]
  BY <1>3, <1>4
<1>6. [m1 EXCEPT ![running] = r2] = [local EXCEPT ![running] = r2]
  BY <1>1
<1> HIDE DEF r2
<1> QED
  BY <1>1, <1>2, <1>5, <1>6 DEF Turned, r2

LEMMA AssignedB ==
  ASSUME ConsoleTypeOK, NEW v, NEW w, running' = running,
         local' = [local EXCEPT ![running].pc = v, ![running].b = w]
  PROVE  Turned(v, L.enabled, L.i, L.a, w)
<1> DEFINE r1 == [pc |-> v, enabled |-> L.enabled, i |-> L.i, a |-> L.a, b |-> L.b]
           r2 == [pc |-> v, enabled |-> L.enabled, i |-> L.i, a |-> L.a, b |-> w]
<1>1. running \in Printers /\ L \in Local /\ L = local[running] /\ local \in [Printers -> Local]
  BY LocalFields DEF L, ConsoleTypeOK
<1>2. r1 = [L EXCEPT !.pc = v]
  BY <1>1 DEF Local
<1> DEFINE m1 == [local EXCEPT ![running] = r1]
<1>3. local' = [m1 EXCEPT ![running].b = w]
  BY <1>1, <1>2
<1>4. m1 \in [Printers -> {r1} \cup Local] /\ m1[running] = r1
  BY <1>1
<1>5. local' = [m1 EXCEPT ![running] = r2]
  BY <1>3, <1>4
<1>6. [m1 EXCEPT ![running] = r2] = [local EXCEPT ![running] = r2]
  BY <1>1
<1> HIDE DEF r2
<1> QED
  BY <1>1, <1>2, <1>5, <1>6 DEF Turned, r2

LEMMA AssignedEnabled ==
  ASSUME ConsoleTypeOK, NEW v, NEW w, running' = running,
         local' = [local EXCEPT ![running].pc = v, ![running].enabled = w]
  PROVE  Turned(v, w, L.i, L.a, L.b)
<1> DEFINE r1 == [pc |-> v, enabled |-> L.enabled, i |-> L.i, a |-> L.a, b |-> L.b]
           r2 == [pc |-> v, enabled |-> w, i |-> L.i, a |-> L.a, b |-> L.b]
<1>1. running \in Printers /\ L \in Local /\ L = local[running] /\ local \in [Printers -> Local]
  BY LocalFields DEF L, ConsoleTypeOK
<1>2. r1 = [L EXCEPT !.pc = v]
  BY <1>1 DEF Local
<1> DEFINE m1 == [local EXCEPT ![running] = r1]
<1>3. local' = [m1 EXCEPT ![running].enabled = w]
  BY <1>1, <1>2
<1>4. m1 \in [Printers -> {r1} \cup Local] /\ m1[running] = r1
  BY <1>1
<1>5. local' = [m1 EXCEPT ![running] = r2]
  BY <1>3, <1>4
<1>6. [m1 EXCEPT ![running] = r2] = [local EXCEPT ![running] = r2]
  BY <1>1
<1> HIDE DEF r2
<1> QED
  BY <1>1, <1>2, <1>5, <1>6 DEF Turned, r2

LEMMA AssignedI ==
  ASSUME ConsoleTypeOK, NEW v, running' = running,
         local' = [local EXCEPT ![running].pc = v, ![running].i = @ + 1]
  PROVE  Turned(v, L.enabled, L.i + 1, L.a, L.b)
<1> DEFINE r1 == [pc |-> v, enabled |-> L.enabled, i |-> L.i, a |-> L.a, b |-> L.b]
           r2 == [pc |-> v, enabled |-> L.enabled, i |-> L.i + 1, a |-> L.a, b |-> L.b]
<1>1. running \in Printers /\ L \in Local /\ L = local[running] /\ local \in [Printers -> Local]
  BY LocalFields DEF L, ConsoleTypeOK
<1>2. r1 = [L EXCEPT !.pc = v]
  BY <1>1 DEF Local
<1> DEFINE m1 == [local EXCEPT ![running] = r1]
<1>3. local' = [m1 EXCEPT ![running].i = L.i + 1]
  BY <1>1, <1>2
<1>4. m1 \in [Printers -> {r1} \cup Local] /\ m1[running] = r1
  BY <1>1
<1>5. local' = [m1 EXCEPT ![running] = r2]
  BY <1>3, <1>4
<1>6. [m1 EXCEPT ![running] = r2] = [local EXCEPT ![running] = r2]
  BY <1>1
<1> HIDE DEF r2
<1> QED
  BY <1>1, <1>2, <1>5, <1>6 DEF Turned, r2

LEMMA AssignedBegin ==
  ASSUME ConsoleTypeOK, NEW v, NEW w, running' = running,
         local' = [local EXCEPT ![running].pc = v, ![running].i = 1, ![running].enabled = w]
  PROVE  Turned(v, w, 1, L.a, L.b)
<1> DEFINE r1 == [pc |-> v, enabled |-> L.enabled, i |-> L.i, a |-> L.a, b |-> L.b]
           r2 == [pc |-> v, enabled |-> L.enabled, i |-> 1, a |-> L.a, b |-> L.b]
           r3 == [pc |-> v, enabled |-> w, i |-> 1, a |-> L.a, b |-> L.b]
<1>1. running \in Printers /\ L \in Local /\ L = local[running] /\ local \in [Printers -> Local]
  BY LocalFields DEF L, ConsoleTypeOK
<1>2. r1 = [L EXCEPT !.pc = v]
  BY <1>1 DEF Local
<1> DEFINE m1 == [local EXCEPT ![running] = r1]
           m2 == [m1 EXCEPT ![running].i = 1]
<1>3. local' = [m2 EXCEPT ![running].enabled = w]
  BY <1>1, <1>2
<1>4. m1 \in [Printers -> {r1} \cup Local] /\ m1[running] = r1
  BY <1>1
<1> DEFINE n2 == [local EXCEPT ![running] = r2]
<1>5. m2 = [m1 EXCEPT ![running] = r2]
  <2>1. r2 = [r1 EXCEPT !.i = 1]
    OBVIOUS
  <2> HIDE DEF m1, r1, r2
  <2> QED
    BY <1>4, <2>1
<1>6. [m1 EXCEPT ![running] = r2] = n2
  BY <1>1
<1>7. n2 \in [Printers -> {r2} \cup Local] /\ n2[running] = r2
  BY <1>1
<1>8. local' = [n2 EXCEPT ![running].enabled = w]
  <2> HIDE DEF m1, n2, r2
  <2> QED
    BY <1>3, <1>5, <1>6
<1>9. local' = [n2 EXCEPT ![running] = r3]
  <2>1. r3 = [r2 EXCEPT !.enabled = w]
    OBVIOUS
  <2> HIDE DEF n2, r2, r3
  <2> QED
    BY <1>7, <1>8, <2>1
<1>10. [n2 EXCEPT ![running] = r3] = [local EXCEPT ![running] = r3]
  BY <1>1
<1> HIDE DEF r3
<1> QED
  BY <1>1, <1>2, <1>9, <1>10 DEF Turned, r3

LEMMA AssignedScroll ==
  ASSUME ConsoleTypeOK, NEW v, NEW w, running' = running,
         local' = [local EXCEPT ![running].pc = v, ![running].a = 0, ![running].enabled = w]
  PROVE  Turned(v, w, L.i, 0, L.b)
<1> DEFINE r1 == [pc |-> v, enabled |-> L.enabled, i |-> L.i, a |-> L.a, b |-> L.b]
           r2 == [pc |-> v, enabled |-> L.enabled, i |-> L.i, a |-> 0, b |-> L.b]
           r3 == [pc |-> v, enabled |-> w, i |-> L.i, a |-> 0, b |-> L.b]
<1>1. running \in Printers /\ L \in Local /\ L = local[running] /\ local \in [Printers -> Local]
  BY LocalFields DEF L, ConsoleTypeOK
<1>2. r1 = [L EXCEPT !.pc = v]
  BY <1>1 DEF Local
<1> DEFINE m1 == [local EXCEPT ![running] = r1]
           m2 == [m1 EXCEPT ![running].a = 0]
<1>3. local' = [m2 EXCEPT ![running].enabled = w]
  BY <1>1, <1>2
<1>4. m1 \in [Printers -> {r1} \cup Local] /\ m1[running] = r1
  BY <1>1
<1> DEFINE n2 == [local EXCEPT ![running] = r2]
<1>5. m2 = [m1 EXCEPT ![running] = r2]
  <2>1. r2 = [r1 EXCEPT !.a = 0]
    OBVIOUS
  <2> HIDE DEF m1, r1, r2
  <2> QED
    BY <1>4, <2>1
<1>6. [m1 EXCEPT ![running] = r2] = n2
  BY <1>1
<1>7. n2 \in [Printers -> {r2} \cup Local] /\ n2[running] = r2
  BY <1>1
<1>8. local' = [n2 EXCEPT ![running].enabled = w]
  <2> HIDE DEF m1, n2, r2
  <2> QED
    BY <1>3, <1>5, <1>6
<1>9. local' = [n2 EXCEPT ![running] = r3]
  <2>1. r3 = [r2 EXCEPT !.enabled = w]
    OBVIOUS
  <2> HIDE DEF n2, r2, r3
  <2> QED
    BY <1>7, <1>8, <2>1
<1>10. [n2 EXCEPT ![running] = r3] = [local EXCEPT ![running] = r3]
  BY <1>1
<1> HIDE DEF r3
<1> QED
  BY <1>1, <1>2, <1>9, <1>10 DEF Turned, r3

\* What each step does to the process on the processor and to the terminal.
ConsoleSteps ==
  /\ Begin =>
       L.pc = "cli" /\ OnlyTurned("fetch", FALSE, 1, L.a, L.b)
  /\ End =>
       L.pc = "sti" /\ OnlyTurned("cli", TRUE, L.i, L.a, L.b)
  /\ FetchChar =>
       L.pc = "fetch" /\
       OnlyTurned(IF L.i > Len(Message) THEN "sti"
                  ELSE IF Char1 = Newline THEN "bottom" ELSE "width",
                  L.enabled, L.i, L.a, L.b)
  /\ TestWidth =>
       L.pc = "width" /\
       OnlyTurned(IF term.x = Width THEN "bottom" ELSE "drawx", L.enabled, L.i, L.a, L.b)
  /\ TestBottom =>
       /\ L.pc = "bottom" /\ term' = term /\ scrolled' = (scrolled \/ BottomReached)
       /\ IF BottomReached THEN Turned("scroll", FALSE, L.i, 0, L.b)
                           ELSE Turned("rowload", L.enabled, L.i, L.a, L.b)
  /\ LoadRow =>
       L.pc = "rowload" /\ OnlyTurned("rowstore", L.enabled, L.i, term.y, L.b)
  /\ StoreRow =>
       /\ L.pc = "rowstore" /\ Turned("reset", L.enabled, L.i, L.a, L.b)
       /\ scrolled' = scrolled /\ term' = [term EXCEPT !.y = L.a + 1]
  /\ ScrollStep =>
       /\ L.pc = "scroll" /\ L.a < Height /\ Turned("scroll", L.enabled, L.i, L.a + 1, L.b)
       /\ scrolled' = scrolled /\ term' = ScrollRow(term, L.a)
  /\ ScrollReturn =>
       L.pc = "scroll" /\ L.a = Height /\ OnlyTurned("reset", TRUE, L.i, L.a, L.b)
  /\ Reset =>
       /\ L.pc = "reset" /\ scrolled' = scrolled /\ term' = [term EXCEPT !.x = 0]
       /\ IF Char1 = Newline THEN Turned("fetch", L.enabled, L.i + 1, L.a, L.b)
                             ELSE Turned("drawx", L.enabled, L.i, L.a, L.b)
  /\ LoadDrawX =>
       L.pc = "drawx" /\ OnlyTurned("drawy", L.enabled, L.i, term.x, L.b)
  /\ LoadDrawY =>
       L.pc = "drawy" /\ OnlyTurned("draw", L.enabled, L.i, L.a, term.y)
  /\ DrawChar =>
       /\ L.pc = "draw" /\ Turned("puty", L.enabled, L.i, L.a, L.b) /\ scrolled' = scrolled
       /\ term' = [term EXCEPT !.screen = Drawn(term.screen, Char1, L.a, L.b)]
  /\ LoadPutY =>
       L.pc = "puty" /\ OnlyTurned("putx", L.enabled, L.i, L.a, term.y)
  /\ LoadPutX =>
       L.pc = "putx" /\ OnlyTurned("put", L.enabled, L.i, term.x, L.b)
  /\ StoreChar =>
       /\ L.pc = "put" /\ Turned("lenrow", L.enabled, L.i, L.a, L.b) /\ scrolled' = scrolled
       /\ term' = [term EXCEPT !.text[L.b][L.a] = Char1]
  /\ LoadLengthRow =>
       L.pc = "lenrow" /\ OnlyTurned("lenload", L.enabled, L.i, L.a, term.y)
  /\ LoadLength =>
       L.pc = "lenload" /\ OnlyTurned("lenstore", L.enabled, L.i, term.length[L.b], L.b)
  /\ StoreLength =>
       /\ L.pc = "lenstore" /\ Turned("colload", L.enabled, L.i, L.a, L.b) /\ scrolled' = scrolled
       /\ term' = [term EXCEPT !.length[L.b] = L.a + 1]
  /\ LoadColumn =>
       L.pc = "colload" /\ OnlyTurned("colstore", L.enabled, L.i, term.x, L.b)
  /\ StoreColumn =>
       /\ L.pc = "colstore" /\ Turned("fetch", L.enabled, L.i + 1, L.a, L.b) /\ scrolled' = scrolled
       /\ term' = [term EXCEPT !.x = L.a + 1]

LEMMA StepsAre ==
  ASSUME ConsoleTypeOK
  PROVE  ConsoleSteps
<1> USE DEF OnlyTurned, OnlyLocal, At, L, A, B
<1>1. ASSUME Begin
      PROVE  L.pc = "cli" /\ OnlyTurned("fetch", FALSE, 1, L.a, L.b)
  <2>1. running' = running /\ local' = [local EXCEPT ![running].pc = "fetch", ![running].i = 1, ![running].enabled = EnabledWhilePrinting]
    BY <1>1 DEF Begin
  <2>2. Turned("fetch", EnabledWhilePrinting, 1, L.a, L.b)
    BY <2>1, AssignedBegin DEF EnabledWhilePrinting
  <2> QED
    BY <1>1, <2>2 DEF Begin, EnabledWhilePrinting
<1>2. ASSUME End
      PROVE  L.pc = "sti" /\ OnlyTurned("cli", TRUE, L.i, L.a, L.b)
  <2>1. running' = running /\ local' = [local EXCEPT ![running].pc = "cli", ![running].enabled = TRUE]
    BY <1>2 DEF End
  <2>2. Turned("cli", TRUE, L.i, L.a, L.b)
    BY <2>1, AssignedEnabled
  <2> QED
    BY <1>2, <2>2 DEF End
<1>3. ASSUME FetchChar
      PROVE  L.pc = "fetch" /\
              OnlyTurned(IF L.i > Len(Message) THEN "sti"
                         ELSE IF Char1 = Newline THEN "bottom" ELSE "width",
                         L.enabled, L.i, L.a, L.b)
  <2> DEFINE v == IF L.i > Len(Message) THEN "sti"
                  ELSE IF Char1 = Newline THEN "bottom" ELSE "width"
  <2>1. running' = running /\ local' = [local EXCEPT ![running].pc = v]
    BY <1>3 DEF FetchChar, Goto
  <2> HIDE DEF v
  <2>2. Turned(v, L.enabled, L.i, L.a, L.b)
    BY <2>1, AssignedPc
  <2> USE DEF v
  <2> QED
    BY <1>3, <2>2 DEF FetchChar, Goto
<1>4. ASSUME TestWidth
      PROVE  L.pc = "width" /\
              OnlyTurned(IF term.x = Width THEN "bottom" ELSE "drawx", L.enabled, L.i, L.a, L.b)
  <2> DEFINE v == IF term.x = Width THEN "bottom" ELSE "drawx"
  <2>1. running' = running /\ local' = [local EXCEPT ![running].pc = v]
    BY <1>4 DEF TestWidth, Goto
  <2> HIDE DEF v
  <2>2. Turned(v, L.enabled, L.i, L.a, L.b)
    BY <2>1, AssignedPc
  <2> USE DEF v
  <2> QED
    BY <1>4, <2>2 DEF TestWidth, Goto
<1>5. ASSUME TestBottom
      PROVE  /\ L.pc = "bottom" /\ term' = term /\ scrolled' = (scrolled \/ BottomReached)
              /\ IF BottomReached THEN Turned("scroll", FALSE, L.i, 0, L.b)
                                  ELSE Turned("rowload", L.enabled, L.i, L.a, L.b)
  <2>1. CASE BottomReached
    <3>1. running' = running
          /\ local' = [local EXCEPT ![running].pc = "scroll", ![running].a = 0,
                                    ![running].enabled = FALSE]
      BY <1>5, <2>1 DEF TestBottom
    <3>2. Turned("scroll", FALSE, L.i, 0, L.b)
      BY <3>1, AssignedScroll
    <3> QED
      BY <1>5, <2>1, <3>2 DEF TestBottom
  <2>2. CASE ~BottomReached
    <3>1. running' = running /\ local' = [local EXCEPT ![running].pc = "rowload"]
      BY <1>5, <2>2 DEF TestBottom, Goto
    <3>2. Turned("rowload", L.enabled, L.i, L.a, L.b)
      BY <3>1, AssignedPc
    <3> QED
      BY <1>5, <2>2, <3>2 DEF TestBottom
  <2> QED
    BY <2>1, <2>2
<1>6. ASSUME LoadRow
      PROVE  L.pc = "rowload" /\ OnlyTurned("rowstore", L.enabled, L.i, term.y, L.b)
  <2>1. running' = running /\ local' = [local EXCEPT ![running].pc = "rowstore", ![running].a = term.y]
    BY <1>6 DEF LoadRow, Load
  <2>2. Turned("rowstore", L.enabled, L.i, term.y, L.b)
    BY <2>1, AssignedA
  <2> QED
    BY <1>6, <2>2 DEF LoadRow, Load
<1>7. ASSUME StoreRow
      PROVE  /\ L.pc = "rowstore" /\ Turned("reset", L.enabled, L.i, L.a, L.b)
              /\ scrolled' = scrolled /\ term' = [term EXCEPT !.y = L.a + 1]
  <2>1. running' = running /\ local' = [local EXCEPT ![running].pc = "reset"]
    BY <1>7 DEF StoreRow, Goto
  <2>2. Turned("reset", L.enabled, L.i, L.a, L.b)
    BY <2>1, AssignedPc
  <2> QED
    BY <1>7, <2>2 DEF StoreRow, Goto
<1>8. ASSUME ScrollStep
      PROVE  /\ L.pc = "scroll" /\ L.a < Height /\ Turned("scroll", L.enabled, L.i, L.a + 1, L.b)
              /\ scrolled' = scrolled /\ term' = ScrollRow(term, L.a)
  <2>1. running' = running /\ local' = [local EXCEPT ![running].pc = "scroll", ![running].a = L.a + 1]
    BY <1>8 DEF ScrollStep, Load
  <2>2. Turned("scroll", L.enabled, L.i, L.a + 1, L.b)
    BY <2>1, AssignedA
  <2> QED
    BY <1>8, <2>2 DEF ScrollStep, Load
<1>9. ASSUME ScrollReturn
      PROVE  L.pc = "scroll" /\ L.a = Height /\ OnlyTurned("reset", TRUE, L.i, L.a, L.b)
  <2>1. running' = running /\ local' = [local EXCEPT ![running].pc = "reset", ![running].enabled = TRUE]
    BY <1>9 DEF ScrollReturn
  <2>2. Turned("reset", TRUE, L.i, L.a, L.b)
    BY <2>1, AssignedEnabled
  <2> QED
    BY <1>9, <2>2 DEF ScrollReturn
<1>10. ASSUME Reset
      PROVE  /\ L.pc = "reset" /\ scrolled' = scrolled /\ term' = [term EXCEPT !.x = 0]
              /\ IF Char1 = Newline THEN Turned("fetch", L.enabled, L.i + 1, L.a, L.b)
                                    ELSE Turned("drawx", L.enabled, L.i, L.a, L.b)
  <2>1. CASE Char1 = Newline
    <3>1. running' = running
          /\ local' = [local EXCEPT ![running].pc = "fetch", ![running].i = @ + 1]
      BY <1>10, <2>1 DEF Reset
    <3>2. Turned("fetch", L.enabled, L.i + 1, L.a, L.b)
      BY <3>1, AssignedI
    <3> QED
      BY <1>10, <2>1, <3>2 DEF Reset
  <2>2. CASE Char1 # Newline
    <3>1. running' = running /\ local' = [local EXCEPT ![running].pc = "drawx"]
      BY <1>10, <2>2 DEF Reset, Goto
    <3>2. Turned("drawx", L.enabled, L.i, L.a, L.b)
      BY <3>1, AssignedPc
    <3> QED
      BY <1>10, <2>2, <3>2 DEF Reset
  <2> QED
    BY <2>1, <2>2
<1>11. ASSUME LoadDrawX
      PROVE  L.pc = "drawx" /\ OnlyTurned("drawy", L.enabled, L.i, term.x, L.b)
  <2>1. running' = running /\ local' = [local EXCEPT ![running].pc = "drawy", ![running].a = term.x]
    BY <1>11 DEF LoadDrawX, Load
  <2>2. Turned("drawy", L.enabled, L.i, term.x, L.b)
    BY <2>1, AssignedA
  <2> QED
    BY <1>11, <2>2 DEF LoadDrawX, Load
<1>12. ASSUME LoadDrawY
      PROVE  L.pc = "drawy" /\ OnlyTurned("draw", L.enabled, L.i, L.a, term.y)
  <2>1. running' = running /\ local' = [local EXCEPT ![running].pc = "draw", ![running].b = term.y]
    BY <1>12 DEF LoadDrawY, LoadB
  <2>2. Turned("draw", L.enabled, L.i, L.a, term.y)
    BY <2>1, AssignedB
  <2> QED
    BY <1>12, <2>2 DEF LoadDrawY, LoadB
<1>13. ASSUME DrawChar
      PROVE  /\ L.pc = "draw" /\ Turned("puty", L.enabled, L.i, L.a, L.b) /\ scrolled' = scrolled
              /\ term' = [term EXCEPT !.screen = Drawn(term.screen, Char1, L.a, L.b)]
  <2>1. running' = running /\ local' = [local EXCEPT ![running].pc = "puty"]
    BY <1>13 DEF DrawChar, Goto
  <2>2. Turned("puty", L.enabled, L.i, L.a, L.b)
    BY <2>1, AssignedPc
  <2> QED
    BY <1>13, <2>2 DEF DrawChar, Goto
<1>14. ASSUME LoadPutY
      PROVE  L.pc = "puty" /\ OnlyTurned("putx", L.enabled, L.i, L.a, term.y)
  <2>1. running' = running /\ local' = [local EXCEPT ![running].pc = "putx", ![running].b = term.y]
    BY <1>14 DEF LoadPutY, LoadB
  <2>2. Turned("putx", L.enabled, L.i, L.a, term.y)
    BY <2>1, AssignedB
  <2> QED
    BY <1>14, <2>2 DEF LoadPutY, LoadB
<1>15. ASSUME LoadPutX
      PROVE  L.pc = "putx" /\ OnlyTurned("put", L.enabled, L.i, term.x, L.b)
  <2>1. running' = running /\ local' = [local EXCEPT ![running].pc = "put", ![running].a = term.x]
    BY <1>15 DEF LoadPutX, Load
  <2>2. Turned("put", L.enabled, L.i, term.x, L.b)
    BY <2>1, AssignedA
  <2> QED
    BY <1>15, <2>2 DEF LoadPutX, Load
<1>16. ASSUME StoreChar
      PROVE  /\ L.pc = "put" /\ Turned("lenrow", L.enabled, L.i, L.a, L.b) /\ scrolled' = scrolled
              /\ term' = [term EXCEPT !.text[L.b][L.a] = Char1]
  <2>1. running' = running /\ local' = [local EXCEPT ![running].pc = "lenrow"]
    BY <1>16 DEF StoreChar, Goto
  <2>2. Turned("lenrow", L.enabled, L.i, L.a, L.b)
    BY <2>1, AssignedPc
  <2> QED
    BY <1>16, <2>2 DEF StoreChar, Goto
<1>17. ASSUME LoadLengthRow
      PROVE  L.pc = "lenrow" /\ OnlyTurned("lenload", L.enabled, L.i, L.a, term.y)
  <2>1. running' = running /\ local' = [local EXCEPT ![running].pc = "lenload", ![running].b = term.y]
    BY <1>17 DEF LoadLengthRow, LoadB
  <2>2. Turned("lenload", L.enabled, L.i, L.a, term.y)
    BY <2>1, AssignedB
  <2> QED
    BY <1>17, <2>2 DEF LoadLengthRow, LoadB
<1>18. ASSUME LoadLength
      PROVE  L.pc = "lenload" /\ OnlyTurned("lenstore", L.enabled, L.i, term.length[L.b], L.b)
  <2>1. running' = running /\ local' = [local EXCEPT ![running].pc = "lenstore", ![running].a = term.length[L.b]]
    BY <1>18 DEF LoadLength, Load
  <2>2. Turned("lenstore", L.enabled, L.i, term.length[L.b], L.b)
    BY <2>1, AssignedA
  <2> QED
    BY <1>18, <2>2 DEF LoadLength, Load
<1>19. ASSUME StoreLength
      PROVE  /\ L.pc = "lenstore" /\ Turned("colload", L.enabled, L.i, L.a, L.b) /\ scrolled' = scrolled
              /\ term' = [term EXCEPT !.length[L.b] = L.a + 1]
  <2>1. running' = running /\ local' = [local EXCEPT ![running].pc = "colload"]
    BY <1>19 DEF StoreLength, Goto
  <2>2. Turned("colload", L.enabled, L.i, L.a, L.b)
    BY <2>1, AssignedPc
  <2> QED
    BY <1>19, <2>2 DEF StoreLength, Goto
<1>20. ASSUME LoadColumn
      PROVE  L.pc = "colload" /\ OnlyTurned("colstore", L.enabled, L.i, term.x, L.b)
  <2>1. running' = running /\ local' = [local EXCEPT ![running].pc = "colstore", ![running].a = term.x]
    BY <1>20 DEF LoadColumn, Load
  <2>2. Turned("colstore", L.enabled, L.i, term.x, L.b)
    BY <2>1, AssignedA
  <2> QED
    BY <1>20, <2>2 DEF LoadColumn, Load
<1>21. ASSUME StoreColumn
      PROVE  /\ L.pc = "colstore" /\ Turned("fetch", L.enabled, L.i + 1, L.a, L.b) /\ scrolled' = scrolled
              /\ term' = [term EXCEPT !.x = L.a + 1]
  <2>1. running' = running /\ local' = [local EXCEPT ![running].pc = "fetch", ![running].i = @ + 1]
    BY <1>21 DEF StoreColumn
  <2>2. Turned("fetch", L.enabled, L.i + 1, L.a, L.b)
    BY <2>1, AssignedI
  <2> QED
    BY <1>21, <2>2 DEF StoreColumn
<1> QED
  BY <1>1, <1>2, <1>3, <1>4, <1>5, <1>6, <1>7, <1>8, <1>9, <1>10, <1>11, <1>12, <1>13,
     <1>14, <1>15, <1>16, <1>17, <1>18, <1>19, <1>20, <1>21 DEF ConsoleSteps

LEMMA TurnedLocal ==
  ASSUME ConsoleTypeOK, NEW v \in Labels, NEW e \in BOOLEAN,
         NEW i \in Nat, NEW a \in Nat, NEW b \in Nat, Turned(v, e, i, a, b)
  PROVE  /\ running' = running /\ running \in Printers
         /\ local' \in [Printers -> Local]
         /\ local'[running].pc = v /\ local'[running].enabled = e
         /\ local'[running].i = i /\ local'[running].a = a /\ local'[running].b = b
         /\ \A p \in Printers : p # running => local'[p] = local[p]
<1> DEFINE new == [pc |-> v, enabled |-> e, i |-> i, a |-> a, b |-> b]
<1>1. running' = running /\ running \in Printers /\ local' = [local EXCEPT ![running] = new]
  BY DEF Turned
<1>2. new \in Local /\ new.pc = v /\ new.enabled = e /\ new.i = i /\ new.a = a /\ new.b = b
  BY DEF Local
<1>3. local \in [Printers -> Local]
  BY DEF ConsoleTypeOK
<1> HIDE DEF new
<1> QED
  BY <1>1, <1>2, <1>3

\* The stores, field by field.
LEMMA CursorFields ==
  ASSUME NEW t \in Terminal, NEW u, NEW n \in Nat, NEW r \in Rows
  PROVE  /\ u = [t EXCEPT !.x = n] =>
              u \in Terminal /\ u.x = n /\ u.y = t.y
              /\ u.text = t.text /\ u.length = t.length /\ u.screen = t.screen
         /\ u = [t EXCEPT !.y = r] =>
              u \in Terminal /\ u.x = t.x /\ u.y = r
              /\ u.text = t.text /\ u.length = t.length /\ u.screen = t.screen
BY DEF Terminal

LEMMA LengthFields ==
  ASSUME NEW t \in Terminal, NEW u, NEW n \in Nat, NEW r \in Rows,
         u = [t EXCEPT !.length[r] = n]
  PROVE  /\ u \in Terminal /\ u.x = t.x /\ u.y = t.y
         /\ u.text = t.text /\ u.screen = t.screen
         /\ \A k \in Buffers : u.length[k] = IF k = r THEN n ELSE t.length[k]
<1> DEFINE length == [t.length EXCEPT ![r] = n]
<1>1. t.length \in [Buffers -> Nat] /\ r \in Buffers
  BY TerminalFields, Sizes
<1>2. length \in [Buffers -> Nat]
      /\ \A k \in Buffers : length[k] = IF k = r THEN n ELSE t.length[k]
  BY <1>1
<1>3. u = [t EXCEPT !.length = length]
  BY DEF Terminal
<1> HIDE DEF length
<1> QED
  BY <1>2, <1>3 DEF Terminal

\* u differs from t in one character of a row's text.
TextChanged(t, u, c, k, r) ==
  /\ u.x = t.x /\ u.y = t.y /\ u.length = t.length /\ u.screen = t.screen
  /\ \A q \in Buffers, j \in Cols :
       u.text[q][j] = IF q = r /\ j = k THEN c ELSE t.text[q][j]

LEMMA TextFields ==
  ASSUME NEW t \in Terminal, NEW u, NEW c \in Glyphs, NEW k \in Nat, NEW r \in Rows,
         u = [t EXCEPT !.text[r][k] = c]
  PROVE  u \in Terminal /\ TextChanged(t, u, c, k, r)
<1> DEFINE text == [t.text EXCEPT ![r] = [t.text[r] EXCEPT ![k] = c]]
<1>1. t.text \in [Buffers -> RowTexts] /\ r \in Buffers
  BY TerminalFields, Sizes
<1>2. text \in [Buffers -> RowTexts]
  BY <1>1 DEF RowTexts
<1>3. \A q \in Buffers, j \in Cols :
        text[q][j] = IF q = r /\ j = k THEN c ELSE t.text[q][j]
  BY <1>1 DEF RowTexts
<1>4. u = [t EXCEPT !.text = text]
  BY DEF Terminal
<1> HIDE DEF text
<1>5. u \in Terminal /\ u.text = text
      /\ u.x = t.x /\ u.y = t.y /\ u.length = t.length /\ u.screen = t.screen
  BY <1>2, <1>4 DEF Terminal, RowTexts
<1> QED
  BY <1>3, <1>5 DEF TextChanged

\* u differs from t in one cell of the screen, on which a glyph is drawn.
ScreenChanged(t, u, c, x, y) ==
  /\ u.x = t.x /\ u.y = t.y /\ u.text = t.text /\ u.length = t.length
  /\ \A k \in Cols, r \in Rows :
       u.screen[<<k, r>>] = IF k = x /\ r = y THEN t.screen[<<k, r>>] \cup Ink(c)
                                              ELSE t.screen[<<k, r>>]

LEMMA DrawnFields ==
  ASSUME NEW t \in Terminal, NEW u, NEW c \in Glyphs, NEW x \in Nat, NEW y \in Rows,
         u = [t EXCEPT !.screen = Drawn(t.screen, c, x, y)]
  PROVE  u \in Terminal /\ ScreenChanged(t, u, c, x, y)
<1> DEFINE screen == [t.screen EXCEPT ![<<x, y>>] = t.screen[<<x, y>>] \cup Ink(c)]
<1>1. t.screen \in Screens /\ Ink(c) \in SUBSET Inks
  BY TerminalFields, InkIsInk
<1>2. screen \in Screens
  BY <1>1 DEF Screens
<1>3. \A k \in Cols, r \in Rows :
        screen[<<k, r>>] = IF k = x /\ r = y THEN t.screen[<<k, r>>] \cup Ink(c)
                                             ELSE t.screen[<<k, r>>]
  BY <1>1, Sizes DEF Screens
<1>4. u = [t EXCEPT !.screen = screen]
  BY DEF Drawn
<1> HIDE DEF screen
<1> QED
  BY <1>2, <1>3, <1>4 DEF Terminal, Screens, ScreenChanged
------------------------------------------------------------------------------
\* A process may come to a label with these registers.
Fitting(v, e, i, a, b) ==
  LET end == Len(Messages[running])
  IN  /\ v \in Labels /\ e \in BOOLEAN /\ i \in 1 .. end + 1 /\ a \in Nat /\ b \in Rows
      /\ v = "sti" => i = end + 1
      /\ v \in Char1Labels => i < end
      /\ v \in {"bottom", "rowload", "rowstore", "scroll", "reset"} => i <= end
      /\ v = "cli" => e
      /\ e /\ v # "cli" => scrolled'
      /\ v = "scroll" => scrolled' /\ ~e /\ a <= Height
      /\ v \in {"rowload", "rowstore"} => ~scrolled' /\ ~BottomReached'
      /\ v = "rowstore" => a = term'.y

\* Once there was a scroll the cursor is in the last row.
AtBottom ==
  scrolled' \in BOOLEAN /\ (scrolled => scrolled') /\ (scrolled' => BottomReached')

\* What one process does to its own state leaves the others as they were: they can
\* only be preempted behind a scroll, or between two messages.
LEMMA ConsoleKept ==
  ASSUME ConsoleInv, NEW v, NEW e, NEW i, NEW a, NEW b,
         Turned(v, e, i, a, b), Fitting(v, e, i, a, b),
         term' \in Terminal, AtBottom
  PROVE  ConsoleInv'
<1>1. v \in Labels /\ e \in BOOLEAN /\ i \in Nat /\ a \in Nat /\ b \in Nat
  BY Sizes, MessagesAre DEF Fitting, ConsoleInv, ConsoleTypeOK
<1>2. /\ running' = running /\ running \in Printers /\ local' \in [Printers -> Local]
      /\ local'[running].pc = v /\ local'[running].enabled = e
      /\ local'[running].i = i /\ local'[running].a = a /\ local'[running].b = b
      /\ \A p \in Printers : p # running => local'[p] = local[p]
  BY <1>1, TurnedLocal DEF ConsoleInv
<1>3. ConsoleTypeOK'
  BY <1>2 DEF ConsoleTypeOK, AtBottom
<1>4. \A p \in Printers : p # running => local[p].enabled /\ Labelled(p)
  BY DEF ConsoleInv, OneAtATime, Enabled
<1>5. \A p \in Printers : local[p].enabled /\ local[p].pc # "cli" => scrolled
  BY DEF ConsoleInv, OneAtATime, Enabled
<1>6. OneAtATime'
  BY <1>2, <1>4, <1>5 DEF OneAtATime, Enabled, Fitting, AtBottom
<1>7. ASSUME NEW p \in Printers PROVE Labelled(p)'
  <2>1. CASE p = running
    BY <1>2, <2>1 DEF Labelled, Fitting
  <2>2. CASE p # running
    <3>1. local'[p] = local[p] /\ local[p].enabled /\ Labelled(p)
      BY <1>2, <1>4, <2>2
    <3>2. local[p].pc \notin {"scroll", "rowload", "rowstore"}
      BY <1>5, <3>1 DEF Labelled
    <3> QED
      BY <3>1, <3>2 DEF Labelled
  <2> QED
    BY <2>1, <2>2
<1> QED
  BY <1>3, <1>6, <1>7 DEF ConsoleInv

LEMMA ConsoleKeptLocally ==
  ASSUME ConsoleInv, NEW v, NEW e, NEW i, NEW a, NEW b,
         OnlyTurned(v, e, i, a, b), Fitting(v, e, i, a, b)
  PROVE  ConsoleInv'
<1>1. Turned(v, e, i, a, b) /\ term' = term /\ scrolled' = scrolled
  BY DEF OnlyTurned
<1>2. scrolled \in BOOLEAN /\ (scrolled => BottomReached)
  BY DEF ConsoleInv, ConsoleTypeOK, OneAtATime
<1>3. BottomReached' <=> BottomReached
  BY <1>1 DEF BottomReached
<1>4. AtBottom
  BY <1>1, <1>2, <1>3, Zenon DEF AtBottom
<1>5. term' \in Terminal
  BY <1>1 DEF ConsoleInv, ConsoleTypeOK
<1> QED
  BY <1>1, <1>4, <1>5, ConsoleKept

\* The invariant holds of the empty terminal and is kept by every step.
LEMMA ConsoleStarts == ConsoleInit => ConsoleInv
<1> SUFFICES ASSUME ConsoleInit PROVE ConsoleInv
  OBVIOUS
<1>1. term = EmptyTerminal /\ running \in Printers /\ scrolled = FALSE
      /\ local = [p \in Printers |-> [pc |-> "cli", enabled |-> TRUE, i |-> 1, a |-> 0, b |-> 0]]
  BY DEF ConsoleInit
<1>2. EmptyTerminal.screen \in Screens
  BY DEF EmptyTerminal, Screens, Ink, Inks
<1>3. EmptyTerminal \in Terminal /\ 0 \in Rows
  BY <1>2, Sizes DEF EmptyTerminal, Terminal, Screens, Rows
<1>4. local \in [Printers -> Local]
  BY <1>1 DEF Local, Labels
<1>5. ConsoleTypeOK
  BY <1>1, <1>3, <1>4 DEF ConsoleTypeOK
<1>6. \A p \in Printers : local[p].pc = "cli" /\ local[p].enabled = TRUE
                          /\ local[p].i = 1 /\ local[p].b = 0
  BY <1>1
<1>7. OneAtATime
  BY <1>1, <1>6 DEF OneAtATime, Enabled
<1>8. ASSUME NEW p \in Printers PROVE Labelled(p)
  BY <1>3, <1>6, MessagesAre DEF Labelled, Char1Labels
<1> QED
  BY <1>5, <1>7, <1>8 DEF ConsoleInv

LEMMA ConsoleSteady ==
  ASSUME ConsoleInv, [ConsoleNext]_consoleVars
  PROVE  ConsoleInv'
<1> DEFINE end == Len(Messages[running])
<1>1. scrolled \in BOOLEAN /\ (scrolled => BottomReached)
  BY DEF ConsoleInv, ConsoleTypeOK, OneAtATime
<1>2. ConsoleTypeOK /\ running \in Printers /\ term \in Terminal
  BY DEF ConsoleInv, ConsoleTypeOK
<1>3. /\ term.x \in Nat /\ term.y \in Rows /\ term.y \in Nat /\ term.length \in [Buffers -> Nat]
      /\ \A r \in Rows : r \in Nat /\ r \in Buffers
      /\ \A n \in Nat : n < Height => n \in Rows
      /\ Height \in Nat
  <2>1. term.x \in Nat /\ term.y \in Rows /\ term.length \in [Buffers -> Nat]
    BY <1>2, TerminalFields
  <2>2. \A r \in Rows : r \in Nat /\ r \in Buffers
    BY Sizes
  <2> QED
    BY <2>1, <2>2, Sizes DEF Rows
<1>4. /\ L.pc \in Labels /\ L.enabled \in BOOLEAN /\ L.i \in Nat /\ L.a \in Nat /\ L.b \in Nat
      /\ L.i \in 1 .. end + 1 /\ L.b \in Rows
      /\ L.pc = "sti" => L.i = end + 1
      /\ L.pc \in Char1Labels => L.i < end
      /\ L.pc \in {"bottom", "rowload", "rowstore", "scroll", "reset"} => L.i <= end
      /\ L.pc = "cli" => L.enabled
      /\ L.pc = "scroll" => scrolled /\ ~L.enabled /\ L.a <= Height
      /\ L.pc \in {"rowload", "rowstore"} => ~scrolled /\ ~BottomReached
      /\ L.pc = "rowstore" => L.a = term.y
      /\ L.enabled /\ L.pc # "cli" => scrolled
  BY <1>2, LocalFields DEF ConsoleInv, Labelled, OneAtATime, Enabled, L
<1>5. /\ end \in Nat /\ end > 0
      /\ \A k \in 1 .. end : (Messages[running][k] = Newline <=> k = end)
                             /\ (k < end => Messages[running][k] \in Glyphs)
  BY <1>2, MessagesAre
<1> HIDE DEF end, L
<1>6. ConsoleSteps
  BY <1>2, StepsAre
<1>7. ASSUME UNCHANGED consoleVars PROVE ConsoleInv'
  BY <1>7 DEF ConsoleInv, ConsoleTypeOK, OneAtATime, Enabled, Labelled, BottomReached,
     consoleVars
<1>8. ASSUME Preempt PROVE ConsoleInv'
  <2>1. /\ running' \in Printers /\ term' = term /\ local' = local /\ scrolled' = scrolled
        /\ local[running].enabled
    BY <1>8 DEF Preempt
  <2>2. \A p \in Printers : local[p].enabled
    BY <2>1 DEF ConsoleInv, OneAtATime, Enabled
  <2> QED
    BY <2>1, <2>2 DEF ConsoleInv, ConsoleTypeOK, OneAtATime, Enabled, Labelled,
       BottomReached
<1>9. ASSUME Begin PROVE ConsoleInv'
  <2>1. L.pc = "cli" /\ OnlyTurned("fetch", FALSE, 1, L.a, L.b)
    BY <1>9, <1>6 DEF ConsoleSteps
  <2>2. term' = term /\ scrolled' = scrolled /\ (BottomReached' <=> BottomReached)
    BY <2>1 DEF OnlyTurned, BottomReached
  <2>3. Fitting("fetch", FALSE, 1, L.a, L.b)
    BY <1>3, <1>4, <1>5, <2>1, <2>2 DEF Fitting, Labels, Char1Labels, end
  <2> QED
    BY <2>1, <2>3, ConsoleKeptLocally
<1>10. ASSUME End PROVE ConsoleInv'
  <2>1. L.pc = "sti" /\ OnlyTurned("cli", TRUE, L.i, L.a, L.b)
    BY <1>10, <1>6 DEF ConsoleSteps
  <2>2. term' = term /\ scrolled' = scrolled /\ (BottomReached' <=> BottomReached)
    BY <2>1 DEF OnlyTurned, BottomReached
  <2>3. Fitting("cli", TRUE, L.i, L.a, L.b)
    BY <1>3, <1>4, <1>5, <2>1, <2>2 DEF Fitting, Labels, Char1Labels, end
  <2> QED
    BY <2>1, <2>3, ConsoleKeptLocally
<1>11. ASSUME FetchChar PROVE ConsoleInv'
  <2> DEFINE v == IF L.i > Len(Message) THEN "sti"
                  ELSE IF Char1 = Newline THEN "bottom" ELSE "width"
  <2>1. L.pc = "fetch" /\ OnlyTurned(v, L.enabled, L.i, L.a, L.b)
    BY <1>11, <1>6 DEF ConsoleSteps
  <2>2. term' = term /\ scrolled' = scrolled /\ (BottomReached' <=> BottomReached)
    BY <2>1 DEF OnlyTurned, BottomReached
  <2>3. L.i <= end => (Char1 = Newline <=> L.i = end)
    BY <1>4, <1>5 DEF Char1, Message, L
  <2>4. Fitting(v, L.enabled, L.i, L.a, L.b)
    BY <1>3, <1>4, <1>5, <2>1, <2>2, <2>3 DEF Fitting, Labels, Char1Labels, Message, end
  <2> HIDE DEF v
  <2> QED
    BY <2>1, <2>4, ConsoleKeptLocally
<1>12. ASSUME TestWidth PROVE ConsoleInv'
  <2> DEFINE v == IF term.x = Width THEN "bottom" ELSE "drawx"
  <2>1. L.pc = "width" /\ OnlyTurned(v, L.enabled, L.i, L.a, L.b)
    BY <1>12, <1>6 DEF ConsoleSteps
  <2>2. term' = term /\ scrolled' = scrolled /\ (BottomReached' <=> BottomReached)
    BY <2>1 DEF OnlyTurned, BottomReached
  <2>3. Fitting(v, L.enabled, L.i, L.a, L.b)
    BY <1>3, <1>4, <1>5, <2>1, <2>2 DEF Fitting, Labels, Char1Labels, end
  <2> HIDE DEF v
  <2> QED
    BY <2>1, <2>3, ConsoleKeptLocally
<1>13. ASSUME TestBottom PROVE ConsoleInv'
  <2>1. /\ L.pc = "bottom" /\ term' = term
        /\ IF BottomReached THEN Turned("scroll", FALSE, L.i, 0, L.b)
                            ELSE Turned("rowload", L.enabled, L.i, L.a, L.b)
    BY <1>13, <1>6 DEF ConsoleSteps
  <2>2. scrolled' = (scrolled \/ BottomReached)
    BY <1>13, <1>6 DEF ConsoleSteps
  <2>3. (BottomReached' <=> BottomReached) /\ term' \in Terminal
    BY <1>2, <2>1 DEF BottomReached
  <2>4. AtBottom
    BY <1>1, <2>2, <2>3, Zenon DEF AtBottom
  <2>5. CASE BottomReached
    <3>1. scrolled'
      BY <2>2, <2>5, Zenon
    <3>2. Fitting("scroll", FALSE, L.i, 0, L.b)
      BY <1>3, <1>4, <1>5, <2>1, <3>1 DEF Fitting, Labels, Char1Labels, end
    <3> QED
      BY <2>1, <2>3, <2>4, <2>5, <3>2, ConsoleKept
  <2>6. CASE ~BottomReached
    <3>1. ~scrolled' /\ ~scrolled /\ ~BottomReached'
      BY <1>1, <2>2, <2>3, <2>6, Zenon
    <3>2. Fitting("rowload", L.enabled, L.i, L.a, L.b)
      BY <1>3, <1>4, <1>5, <2>1, <3>1 DEF Fitting, Labels, Char1Labels, end
    <3> QED
      BY <2>1, <2>3, <2>4, <2>6, <3>2, ConsoleKept
  <2> QED
    BY <2>5, <2>6
<1>14. ASSUME LoadRow PROVE ConsoleInv'
  <2>1. L.pc = "rowload" /\ OnlyTurned("rowstore", L.enabled, L.i, term.y, L.b)
    BY <1>14, <1>6 DEF ConsoleSteps
  <2>2. term' = term /\ scrolled' = scrolled /\ (BottomReached' <=> BottomReached)
    BY <2>1 DEF OnlyTurned, BottomReached
  <2>3. Fitting("rowstore", L.enabled, L.i, term.y, L.b)
    BY <1>3, <1>4, <1>5, <2>1, <2>2 DEF Fitting, Labels, Char1Labels, end
  <2> QED
    BY <2>1, <2>3, ConsoleKeptLocally
<1>15. ASSUME StoreRow PROVE ConsoleInv'
  <2>1. /\ L.pc = "rowstore" /\ Turned("reset", L.enabled, L.i, L.a, L.b)
        /\ scrolled' = scrolled /\ term' = [term EXCEPT !.y = L.a + 1]
    BY <1>15, <1>6 DEF ConsoleSteps
  <2>2. L.a = term.y /\ L.a + 1 \in Rows /\ ~scrolled
    BY <1>3, <1>4, <2>1 DEF BottomReached, Rows
  <2>3. term' \in Terminal
    BY <1>2, <2>1, <2>2, CursorFields
  <2>4. AtBottom
    BY <1>1, <2>1, <2>2, Zenon DEF AtBottom
  <2>5. Fitting("reset", L.enabled, L.i, L.a, L.b)
    BY <1>3, <1>4, <1>5, <2>1, <2>2 DEF Fitting, Labels, Char1Labels, end
  <2> QED
    BY <2>1, <2>3, <2>4, <2>5, ConsoleKept
<1>16. ASSUME ScrollStep PROVE ConsoleInv'
  <2>1. /\ L.pc = "scroll" /\ Turned("scroll", L.enabled, L.i, L.a + 1, L.b)
        /\ L.a < Height /\ scrolled' = scrolled /\ term' = ScrollRow(term, L.a)
    BY <1>16, <1>6 DEF ConsoleSteps
  <2>2. term' \in Terminal /\ term'.y = term.y
    BY <1>2, <1>3, <1>4, <2>1, ScrollRowFields
  <2>3. BottomReached' <=> BottomReached
    BY <2>2 DEF BottomReached
  <2>4. AtBottom
    BY <1>1, <2>1, <2>3, Zenon DEF AtBottom
  <2>5. Fitting("scroll", L.enabled, L.i, L.a + 1, L.b)
    BY <1>3, <1>4, <1>5, <2>1, <2>2, <2>3 DEF Fitting, Labels, Char1Labels, end
  <2> QED
    BY <2>1, <2>2, <2>4, <2>5, ConsoleKept
<1>17. ASSUME ScrollReturn PROVE ConsoleInv'
  <2>1. L.pc = "scroll" /\ OnlyTurned("reset", TRUE, L.i, L.a, L.b)
    BY <1>17, <1>6 DEF ConsoleSteps
  <2>2. term' = term /\ scrolled' = scrolled /\ (BottomReached' <=> BottomReached)
    BY <2>1 DEF OnlyTurned, BottomReached
  <2>3. Fitting("reset", TRUE, L.i, L.a, L.b)
    BY <1>3, <1>4, <1>5, <2>1, <2>2 DEF Fitting, Labels, Char1Labels, end
  <2> QED
    BY <2>1, <2>3, ConsoleKeptLocally
<1>18. ASSUME Reset PROVE ConsoleInv'
  <2>1. /\ L.pc = "reset" /\ scrolled' = scrolled /\ term' = [term EXCEPT !.x = 0]
        /\ IF Char1 = Newline THEN Turned("fetch", L.enabled, L.i + 1, L.a, L.b)
                              ELSE Turned("drawx", L.enabled, L.i, L.a, L.b)
    BY <1>18, <1>6 DEF ConsoleSteps
  <2>2. term' \in Terminal /\ term'.y = term.y
    BY <1>2, <1>3, <2>1, CursorFields
  <2>3. BottomReached' <=> BottomReached
    BY <2>2 DEF BottomReached
  <2>4. AtBottom
    BY <1>1, <2>1, <2>3, Zenon DEF AtBottom
  <2>5. Char1 = Newline <=> L.i = end
    BY <1>4, <1>5, <2>1 DEF Char1, Message, L
  <2>6. CASE Char1 = Newline
    <3>1. Fitting("fetch", L.enabled, L.i + 1, L.a, L.b)
      BY <1>3, <1>4, <1>5, <2>1, <2>3, <2>5, <2>6 DEF Fitting, Labels, Char1Labels, end
    <3> QED
      BY <2>1, <2>2, <2>4, <2>6, <3>1, ConsoleKept
  <2>7. CASE Char1 # Newline
    <3>1. Fitting("drawx", L.enabled, L.i, L.a, L.b)
      BY <1>3, <1>4, <1>5, <2>1, <2>3, <2>5, <2>7 DEF Fitting, Labels, Char1Labels, end
    <3> QED
      BY <2>1, <2>2, <2>4, <2>7, <3>1, ConsoleKept
  <2> QED
    BY <2>6, <2>7
<1>19. ASSUME LoadDrawX PROVE ConsoleInv'
  <2>1. L.pc = "drawx" /\ OnlyTurned("drawy", L.enabled, L.i, term.x, L.b)
    BY <1>19, <1>6 DEF ConsoleSteps
  <2>2. term' = term /\ scrolled' = scrolled /\ (BottomReached' <=> BottomReached)
    BY <2>1 DEF OnlyTurned, BottomReached
  <2>3. Fitting("drawy", L.enabled, L.i, term.x, L.b)
    BY <1>3, <1>4, <1>5, <2>1, <2>2 DEF Fitting, Labels, Char1Labels, end
  <2> QED
    BY <2>1, <2>3, ConsoleKeptLocally
<1>20. ASSUME LoadDrawY PROVE ConsoleInv'
  <2>1. L.pc = "drawy" /\ OnlyTurned("draw", L.enabled, L.i, L.a, term.y)
    BY <1>20, <1>6 DEF ConsoleSteps
  <2>2. term' = term /\ scrolled' = scrolled /\ (BottomReached' <=> BottomReached)
    BY <2>1 DEF OnlyTurned, BottomReached
  <2>3. Fitting("draw", L.enabled, L.i, L.a, term.y)
    BY <1>3, <1>4, <1>5, <2>1, <2>2 DEF Fitting, Labels, Char1Labels, end
  <2> QED
    BY <2>1, <2>3, ConsoleKeptLocally
<1>21. ASSUME DrawChar PROVE ConsoleInv'
  <2>1. /\ L.pc = "draw" /\ Turned("puty", L.enabled, L.i, L.a, L.b)
        /\ scrolled' = scrolled /\ term' = [term EXCEPT !.screen = Drawn(term.screen, Char1, L.a, L.b)]
    BY <1>21, <1>6 DEF ConsoleSteps
  <2>2. Char1 \in Glyphs
    BY <1>4, <1>5, <2>1 DEF Char1Labels, Char1, Message, L
  <2>3. term' \in Terminal /\ term'.y = term.y
    BY <1>2, <1>3, <1>4, <2>1, <2>2, DrawnFields DEF ScreenChanged
  <2>4. BottomReached' <=> BottomReached
    BY <2>3 DEF BottomReached
  <2>5. AtBottom
    BY <1>1, <2>1, <2>4, Zenon DEF AtBottom
  <2>6. Fitting("puty", L.enabled, L.i, L.a, L.b)
    BY <1>3, <1>4, <1>5, <2>1, <2>3, <2>4 DEF Fitting, Labels, Char1Labels, end
  <2> QED
    BY <2>1, <2>3, <2>5, <2>6, ConsoleKept
<1>22. ASSUME LoadPutY PROVE ConsoleInv'
  <2>1. L.pc = "puty" /\ OnlyTurned("putx", L.enabled, L.i, L.a, term.y)
    BY <1>22, <1>6 DEF ConsoleSteps
  <2>2. term' = term /\ scrolled' = scrolled /\ (BottomReached' <=> BottomReached)
    BY <2>1 DEF OnlyTurned, BottomReached
  <2>3. Fitting("putx", L.enabled, L.i, L.a, term.y)
    BY <1>3, <1>4, <1>5, <2>1, <2>2 DEF Fitting, Labels, Char1Labels, end
  <2> QED
    BY <2>1, <2>3, ConsoleKeptLocally
<1>23. ASSUME LoadPutX PROVE ConsoleInv'
  <2>1. L.pc = "putx" /\ OnlyTurned("put", L.enabled, L.i, term.x, L.b)
    BY <1>23, <1>6 DEF ConsoleSteps
  <2>2. term' = term /\ scrolled' = scrolled /\ (BottomReached' <=> BottomReached)
    BY <2>1 DEF OnlyTurned, BottomReached
  <2>3. Fitting("put", L.enabled, L.i, term.x, L.b)
    BY <1>3, <1>4, <1>5, <2>1, <2>2 DEF Fitting, Labels, Char1Labels, end
  <2> QED
    BY <2>1, <2>3, ConsoleKeptLocally
<1>24. ASSUME StoreChar PROVE ConsoleInv'
  <2>1. /\ L.pc = "put" /\ Turned("lenrow", L.enabled, L.i, L.a, L.b)
        /\ scrolled' = scrolled /\ term' = [term EXCEPT !.text[L.b][L.a] = Char1]
    BY <1>24, <1>6 DEF ConsoleSteps
  <2>2. Char1 \in Glyphs
    BY <1>4, <1>5, <2>1 DEF Char1Labels, Char1, Message, L
  <2>3. term' \in Terminal /\ term'.y = term.y
    BY <1>2, <1>3, <1>4, <2>1, <2>2, TextFields DEF TextChanged
  <2>4. BottomReached' <=> BottomReached
    BY <2>3 DEF BottomReached
  <2>5. AtBottom
    BY <1>1, <2>1, <2>4, Zenon DEF AtBottom
  <2>6. Fitting("lenrow", L.enabled, L.i, L.a, L.b)
    BY <1>3, <1>4, <1>5, <2>1, <2>3, <2>4 DEF Fitting, Labels, Char1Labels, end
  <2> QED
    BY <2>1, <2>3, <2>5, <2>6, ConsoleKept
<1>25. ASSUME LoadLengthRow PROVE ConsoleInv'
  <2>1. L.pc = "lenrow" /\ OnlyTurned("lenload", L.enabled, L.i, L.a, term.y)
    BY <1>25, <1>6 DEF ConsoleSteps
  <2>2. term' = term /\ scrolled' = scrolled /\ (BottomReached' <=> BottomReached)
    BY <2>1 DEF OnlyTurned, BottomReached
  <2>3. Fitting("lenload", L.enabled, L.i, L.a, term.y)
    BY <1>3, <1>4, <1>5, <2>1, <2>2 DEF Fitting, Labels, Char1Labels, end
  <2> QED
    BY <2>1, <2>3, ConsoleKeptLocally
<1>26. ASSUME LoadLength PROVE ConsoleInv'
  <2>1. L.pc = "lenload" /\ OnlyTurned("lenstore", L.enabled, L.i, term.length[L.b], L.b)
    BY <1>26, <1>6 DEF ConsoleSteps
  <2>2. term' = term /\ scrolled' = scrolled /\ (BottomReached' <=> BottomReached)
    BY <2>1 DEF OnlyTurned, BottomReached
  <2>3. Fitting("lenstore", L.enabled, L.i, term.length[L.b], L.b)
    BY <1>3, <1>4, <1>5, <2>1, <2>2 DEF Fitting, Labels, Char1Labels, end
  <2> QED
    BY <2>1, <2>3, ConsoleKeptLocally
<1>27. ASSUME StoreLength PROVE ConsoleInv'
  <2>1. /\ L.pc = "lenstore" /\ Turned("colload", L.enabled, L.i, L.a, L.b)
        /\ scrolled' = scrolled /\ term' = [term EXCEPT !.length[L.b] = L.a + 1]
    BY <1>27, <1>6 DEF ConsoleSteps
  <2>2. term' \in Terminal /\ term'.y = term.y
    <3>1. term \in Terminal /\ L.a + 1 \in Nat /\ L.b \in Rows
      BY <1>2, <1>3, <1>4
    <3> QED
      BY <2>1, <3>1, LengthFields
  <2>3. BottomReached' <=> BottomReached
    BY <2>2 DEF BottomReached
  <2>4. AtBottom
    BY <1>1, <2>1, <2>3, Zenon DEF AtBottom
  <2>5. Fitting("colload", L.enabled, L.i, L.a, L.b)
    BY <1>3, <1>4, <1>5, <2>1, <2>2, <2>3 DEF Fitting, Labels, Char1Labels, end
  <2> QED
    BY <2>1, <2>2, <2>4, <2>5, ConsoleKept
<1>28. ASSUME LoadColumn PROVE ConsoleInv'
  <2>1. L.pc = "colload" /\ OnlyTurned("colstore", L.enabled, L.i, term.x, L.b)
    BY <1>28, <1>6 DEF ConsoleSteps
  <2>2. term' = term /\ scrolled' = scrolled /\ (BottomReached' <=> BottomReached)
    BY <2>1 DEF OnlyTurned, BottomReached
  <2>3. Fitting("colstore", L.enabled, L.i, term.x, L.b)
    BY <1>3, <1>4, <1>5, <2>1, <2>2 DEF Fitting, Labels, Char1Labels, end
  <2> QED
    BY <2>1, <2>3, ConsoleKeptLocally
<1>29. ASSUME StoreColumn PROVE ConsoleInv'
  <2>1. /\ L.pc = "colstore" /\ Turned("fetch", L.enabled, L.i + 1, L.a, L.b)
        /\ scrolled' = scrolled /\ term' = [term EXCEPT !.x = L.a + 1]
    BY <1>29, <1>6 DEF ConsoleSteps
  <2>2. term' \in Terminal /\ term'.y = term.y
    BY <1>2, <1>3, <1>4, <2>1, CursorFields
  <2>3. BottomReached' <=> BottomReached
    BY <2>2 DEF BottomReached
  <2>4. AtBottom
    BY <1>1, <2>1, <2>3, Zenon DEF AtBottom
  <2>5. Fitting("fetch", L.enabled, L.i + 1, L.a, L.b)
    BY <1>3, <1>4, <1>5, <2>1, <2>2, <2>3 DEF Fitting, Labels, Char1Labels, end
  <2> QED
    BY <2>1, <2>2, <2>4, <2>5, ConsoleKept
<1> QED
  BY <1>7, <1>8, <1>9, <1>10, <1>11, <1>12, <1>13, <1>14, <1>15, <1>16, <1>17, <1>18,
     <1>19, <1>20, <1>21, <1>22, <1>23, <1>24, <1>25, <1>26, <1>27, <1>28, <1>29 DEF
     ConsoleNext

\* The types hold in spite of every preemption, for messages that fit: the cursor stays
\* in the rows, since no two processes are ever between the load and the store of
\* terminal.y.  Messages that do not fit are stored beyond a row, which is not modelled.
THEOREM ConsoleTypesHold ==
  ASSUME MessagesFit
  PROVE  ConsoleSpec => []ConsoleTypeOK
<1>1. ConsoleInit => ConsoleInv
  BY ConsoleStarts
<1>2. ConsoleInv /\ [ConsoleNext]_consoleVars => ConsoleInv'
  BY ConsoleSteady
<1>3. ConsoleInv => ConsoleTypeOK
  BY DEF ConsoleInv
<1> QED
  BY <1>1, <1>2, <1>3, PTL DEF ConsoleSpec

------------------------------------------------------------------------------
\* Messages that fit.  The room for the messages of the Late.
LEMMA RoomIsLeft ==
  ASSUME MessagesFit, running \in Printers
  PROVE  /\ Late \subseteq Printers
         /\ Room[Late] \in 0 .. Width /\ Room[Late \ {running}] \in 0 .. Width
         /\ Room[Late \cup {running}] \in 0 .. Width
         /\ MessageWidth(running) <= Width
         /\ running \notin Late =>
              Room[Late] + MessageWidth(running) <= Room[Late \cup {running}]
<1>1. Room \in Rooms
  BY DEF MessagesFit, Room
<1>2. /\ Room \in [SUBSET Printers -> 0 .. Width]
      /\ \A s \in SUBSET Printers : \A p \in Printers \ s :
           Room[s] + MessageWidth(p) <= Room[s \cup {p}]
  BY <1>1 DEF Rooms
<1>3. Late \in SUBSET Printers /\ Late \ {running} \in SUBSET Printers
      /\ Late \cup {running} \in SUBSET Printers /\ {} \in SUBSET Printers
      /\ {} \cup {running} \in SUBSET Printers
  BY DEF Late
<1>4. /\ Room[Late] \in 0 .. Width /\ Room[Late \ {running}] \in 0 .. Width
      /\ Room[Late \cup {running}] \in 0 .. Width
      /\ Room[{}] \in 0 .. Width /\ Room[{} \cup {running}] \in 0 .. Width
  BY <1>2, <1>3
<1>5. Room[{}] + MessageWidth(running) <= Room[{} \cup {running}]
  BY <1>2, <1>3
<1>6. MessageWidth(running) <= Width
  BY <1>4, <1>5, MessagesAre, Sizes
<1>7. running \notin Late => Room[Late] + MessageWidth(running) <= Room[Late \cup {running}]
  BY <1>2, <1>3
<1> QED
  BY <1>3, <1>4, <1>6, <1>7

\* What is known of the process on the processor and of the terminal.
LEMMA Registers ==
  ASSUME ConsoleInv
  PROVE  /\ term.x \in Nat /\ term.y \in Rows /\ term.y \in Nat /\ term.length \in [Buffers -> Nat]
         /\ \A r \in Rows : r \in Nat /\ r \in Buffers
         /\ \A n \in Nat : n < Height => n \in Rows
         /\ Height \in Nat /\ Height > 0 /\ Width \in Nat
         /\ L.pc \in Labels /\ L.enabled \in BOOLEAN /\ L.a \in Nat /\ L.b \in Rows
         /\ L.i \in 1 .. MessageWidth(running) + 2 /\ MessageWidth(running) \in Nat
         /\ L.pc = "sti" => L.i = MessageWidth(running) + 2
         /\ L.pc \in Char1Labels => L.i <= MessageWidth(running)
         /\ L.pc \in {"bottom", "rowload", "rowstore", "scroll", "reset"} =>
              L.i <= MessageWidth(running) + 1
         /\ L.pc = "cli" => L.enabled
         /\ L.pc = "scroll" => BottomReached /\ ~L.enabled /\ L.a <= Height
         /\ L.pc \in {"rowload", "rowstore"} => ~BottomReached
         /\ L.pc = "rowstore" => L.a = term.y
         /\ L.i <= Len(Message) => (Char1 = Newline <=> L.i = MessageWidth(running) + 1)
         /\ L.i <= MessageWidth(running) => Char1 \in Glyphs
         /\ Len(Message) = MessageWidth(running) + 1
<1>1. ConsoleTypeOK /\ running \in Printers /\ term \in Terminal
  BY DEF ConsoleInv, ConsoleTypeOK
<1>2. /\ term.x \in Nat /\ term.y \in Rows /\ term.length \in [Buffers -> Nat]
      /\ \A r \in Rows : r \in Nat /\ r \in Buffers
  <2>1. term.x \in Nat /\ term.y \in Rows /\ term.length \in [Buffers -> Nat]
    BY <1>1, TerminalFields
  <2>2. \A r \in Rows : r \in Nat /\ r \in Buffers
    BY Sizes
  <2> QED
    BY <2>1, <2>2
<1>3. \A n \in Nat : n < Height => n \in Rows
  BY Sizes DEF Rows
<1>4. /\ MessageWidth(running) \in Nat /\ Len(Message) = MessageWidth(running) + 1
      /\ \A k \in 1 .. Len(Message) :
           /\ Message[k] = Newline <=> k = Len(Message)
           /\ k < Len(Message) => Message[k] \in Glyphs
  BY <1>1, MessagesAre DEF Message
<1>5. scrolled => BottomReached
  BY DEF ConsoleInv, OneAtATime
<1>6. /\ L.pc \in Labels /\ L.enabled \in BOOLEAN /\ L.a \in Nat /\ L.i \in Nat
      /\ L.i \in 1 .. Len(Message) + 1 /\ L.b \in Rows
      /\ L.pc = "sti" => L.i = Len(Message) + 1
      /\ L.pc \in Char1Labels => L.i < Len(Message)
      /\ L.pc \in {"bottom", "rowload", "rowstore", "scroll", "reset"} => L.i <= Len(Message)
      /\ L.pc = "cli" => L.enabled
      /\ L.pc = "scroll" => BottomReached /\ ~L.enabled /\ L.a <= Height
      /\ L.pc \in {"rowload", "rowstore"} => ~BottomReached
      /\ L.pc = "rowstore" => L.a = term.y
  BY <1>1, <1>5, LocalFields DEF ConsoleInv, Labelled, L, Message
<1>7. Char1 = Message[L.i]
  BY DEF Char1, L
<1> HIDE DEF L
<1>8. /\ L.i <= Len(Message) => (Char1 = Newline <=> L.i = MessageWidth(running) + 1)
      /\ L.i <= MessageWidth(running) => Char1 \in Glyphs
  BY <1>4, <1>6, <1>7
<1>9. Height \in Nat /\ Height > 0 /\ Width \in Nat
  BY Sizes
<1> QED
  BY <1>2, <1>3, <1>4, <1>6, <1>8, <1>9

\* With these registers and this terminal the row is in order again.
RegistersFit(v, e, i, a, b) ==
  LET m == MessageWidth(running)
  IN  /\ v \in Labels /\ e \in BOOLEAN /\ i \in Nat /\ a \in Nat /\ b \in Nat
      /\ e => \/ v \in {"cli", "sti"}
              \/ v = "reset" /\ i = m + 1
              \/ v = "fetch" /\ i = m + 2
      /\ ~e => /\ v \in {"bottom", "rowload", "rowstore", "scroll", "reset"} => i = m + 1
               /\ v \in {"drawy", "draw", "put", "colstore"} => a = term'.x
               /\ v \in {"draw", "putx", "put", "lenload", "lenstore"} => b = term'.y
               /\ v = "lenstore" => a = term'.length[term'.y]
      /\ v \in {"draw", "put"} => a < Width

ColumnFits(v, e, i) ==
  /\ term'.x <= Width
  /\ e /\ v = "reset" => term'.x <= Room[Late \cup {running}]
  /\ e /\ v # "reset" => term'.x <= Room[Late \ {running}]
  /\ ~e => term'.x <= Room[Late \ {running}]
                        + (IF i <= MessageWidth(running) + 1 THEN i - 1 ELSE 0)

LengthsFit(v, e, i, a) ==
  /\ \A r \in Buffers : (r > term'.y => term'.length[r] = 0) /\ term'.length[r] <= Width
  /\ term'.length[term'.y] =
       IF e \/ v = "reset" \/ (v = "scroll" /\ a = Height) THEN 0
       ELSE IF v \in {"colload", "colstore"} THEN i
       ELSE IF i <= MessageWidth(running) + 1 THEN i - 1 ELSE 0

InOrder(v, e, i, a, b) ==
  RegistersFit(v, e, i, a, b) /\ ColumnFits(v, e, i) /\ LengthsFit(v, e, i, a)

LEMMA WidthKept ==
  ASSUME ConsoleInv, WidthInv, NEW v, NEW e, NEW i, NEW a, NEW b,
         Turned(v, e, i, a, b), InOrder(v, e, i, a, b)
  PROVE  WidthInv'
<1> DEFINE m == MessageWidth(running)
           late == IF e /\ v = "reset" THEN Late \cup {running} ELSE Late \ {running}
<1>1. v \in Labels /\ e \in BOOLEAN /\ i \in Nat /\ a \in Nat /\ b \in Nat
  BY DEF InOrder, RegistersFit
<1>2. /\ running' = running /\ running \in Printers
      /\ local'[running].pc = v /\ local'[running].enabled = e
      /\ local'[running].i = i /\ local'[running].a = a /\ local'[running].b = b
      /\ \A p \in Printers : p # running => local'[p] = local[p]
  BY <1>1, TurnedLocal DEF ConsoleInv
<1>3. Late' = late
  BY <1>2 DEF Late, Enabled
<1>4. \A p \in Printers : MessageWidth(p)' = MessageWidth(p)
  BY DEF MessageWidth
<1>5. \A p \in Printers : p # running => local[p].enabled
  BY DEF ConsoleInv, OneAtATime, Enabled
<1>6. ASSUME NEW p \in Printers, Enabled(p)'
      PROVE  \/ local'[p].pc \in {"cli", "sti"}
             \/ (local'[p].pc = "reset" /\ AtLastNewline(p)')
             \/ (local'[p].pc = "fetch" /\ local'[p].i = MessageWidth(p) + 2)
  <2>1. CASE p = running
    BY <1>2, <1>6, <2>1 DEF InOrder, RegistersFit, AtLastNewline, Enabled
  <2>2. CASE p # running
    BY <1>2, <1>5, <2>2 DEF WidthInv, AtLastNewline, Enabled
  <2> QED
    BY <2>1, <2>2
<1>7. \A r \in Buffers : r > term'.y => term'.length[r] = 0
  BY DEF InOrder, LengthsFit
<1>8. RowInOrder'
  <2>1. Room' = Room
    BY DEF Room, Rooms, MessageWidth
  <2>2. Before(running)' = IF i <= m + 1 THEN i - 1 ELSE 0
    BY <1>2 DEF Before, MessageWidth
  <2>3. Counted(running)' = IF v = "reset" \/ (v = "scroll" /\ a = Height) THEN 0
                            ELSE IF v \in {"colload", "colstore"} THEN i
                            ELSE IF i <= m + 1 THEN i - 1 ELSE 0
    BY <1>2, <2>2 DEF Counted
  <2>4. Enabled(running)' = e
    BY <1>2 DEF Enabled
  <2> HIDE DEF late
  <2>5. /\ e => term'.x <= Room[late] /\ term'.length[term'.y] = 0
        /\ ~e => term'.x <= Room[late] + Before(running)'
                 /\ term'.length[term'.y] = Counted(running)'
    BY <1>1, <2>2, <2>3 DEF InOrder, ColumnFits, LengthsFit, late
  <2> QED
    BY <1>3, <2>1, <2>4, <2>5 DEF RowInOrder
<1>9. RegistersInOrder'
  BY <1>2 DEF InOrder, RegistersFit, RegistersInOrder, AtLastNewline, MessageWidth
<1>10. WithinWidth'
  <2>1. ASSUME NEW p \in Printers, local'[p].pc \in {"draw", "put"}
        PROVE  local'[p].a < Width
    <3>1. CASE p = running
      BY <1>2, <2>1, <3>1 DEF InOrder, RegistersFit
    <3>2. CASE p # running
      BY <1>2, <1>5, <2>1, <3>2 DEF WidthInv, Enabled
    <3> QED
      BY <3>1, <3>2
  <2> QED
    BY <2>1 DEF InOrder, ColumnFits, LengthsFit, WithinWidth
<1> QED
  BY <1>6, <1>7, <1>8, <1>9, <1>10 DEF WidthInv

LEMMA WidthStarts ==
  ASSUME MessagesFit
  PROVE  ConsoleInit => WidthInv
<1> SUFFICES ASSUME ConsoleInit PROVE WidthInv
  OBVIOUS
<1>1. /\ term.x = 0 /\ term.y = 0 /\ \A r \in Buffers : term.length[r] = 0
      /\ running \in Printers
      /\ \A p \in Printers : local[p].pc = "cli" /\ local[p].enabled = TRUE
  BY DEF ConsoleInit, EmptyTerminal
<1>2. 0 \in Buffers /\ Width \in Nat
  BY Sizes DEF Buffers
<1>3. Room[Late] \in 0 .. Width
  BY <1>1, RoomIsLeft
<1>4. RowInOrder /\ RegistersInOrder
  BY <1>1, <1>2, <1>3 DEF RowInOrder, RegistersInOrder, Enabled
<1>5. WithinWidth
  BY <1>1, <1>2 DEF WithinWidth
<1> QED
  BY <1>1, <1>4, <1>5 DEF WidthInv

LEMMA WidthSteady ==
  ASSUME MessagesFit, ConsoleInv, WidthInv, [ConsoleNext]_consoleVars
  PROVE  WidthInv'
<1> DEFINE m == MessageWidth(running)
<1>1. ConsoleTypeOK /\ running \in Printers /\ term \in Terminal
  BY DEF ConsoleInv, ConsoleTypeOK
<1>2. /\ term.x \in Nat /\ term.y \in Rows /\ term.y \in Nat /\ term.length \in [Buffers -> Nat]
      /\ \A r \in Rows : r \in Nat /\ r \in Buffers
      /\ \A n \in Nat : n < Height => n \in Rows
      /\ Height \in Nat /\ Height > 0 /\ Width \in Nat /\ m \in Nat
      /\ \A r \in Buffers : r \in Nat
  BY Registers, Sizes
<1>3. /\ L.pc \in Labels /\ L.enabled \in BOOLEAN /\ L.a \in Nat /\ L.b \in Rows
      /\ L.i \in 1 .. m + 2
      /\ L.pc = "sti" => L.i = m + 2
      /\ L.pc \in Char1Labels => L.i <= m
      /\ L.pc \in {"bottom", "rowload", "rowstore", "scroll", "reset"} => L.i <= m + 1
      /\ L.pc = "cli" => L.enabled
      /\ L.pc = "scroll" => BottomReached /\ ~L.enabled /\ L.a <= Height
      /\ L.pc \in {"rowload", "rowstore"} => ~BottomReached
      /\ L.pc = "rowstore" => L.a = term.y
      /\ L.i <= Len(Message) => (Char1 = Newline <=> L.i = m + 1)
      /\ L.i <= m => Char1 \in Glyphs
      /\ Len(Message) = m + 1
  BY Registers
<1>4. /\ L.enabled => \/ L.pc \in {"cli", "sti"}
                      \/ L.pc = "reset" /\ L.i = m + 1
                      \/ L.pc = "fetch" /\ L.i = m + 2
      /\ ~L.enabled =>
           /\ L.pc \in {"bottom", "rowload", "rowstore", "scroll", "reset"} => L.i = m + 1
           /\ L.pc \in {"drawy", "draw", "put", "colstore"} => L.a = term.x
           /\ L.pc \in {"draw", "putx", "put", "lenload", "lenstore"} => L.b = term.y
           /\ L.pc = "lenstore" => L.a = term.length[term.y]
      /\ L.pc \in {"draw", "put"} => L.a < Width
  BY <1>1 DEF WidthInv, RegistersInOrder, WithinWidth, AtLastNewline, Enabled, L
<1>5. /\ term.x <= Width
      /\ L.enabled => term.x <= Room[Late]
      /\ ~L.enabled => term.x <= Room[Late] + (IF L.i <= m + 1 THEN L.i - 1 ELSE 0)
      /\ Room[Late] \in 0 .. Width /\ Room[Late \ {running}] \in 0 .. Width
      /\ Room[Late \cup {running}] \in 0 .. Width /\ m <= Width
      /\ running \notin Late => Room[Late] + m <= Room[Late \cup {running}]
      /\ running \in Late <=> (L.enabled /\ L.pc = "reset")
      /\ running \notin Late => Late \ {running} = Late
  <2>1. /\ term.x <= Width
        /\ L.enabled => term.x <= Room[Late]
        /\ ~L.enabled => term.x <= Room[Late] + (IF L.i <= m + 1 THEN L.i - 1 ELSE 0)
    BY DEF WidthInv, RowInOrder, WithinWidth, Before, Enabled, L
  <2>2. running \in Late <=> (L.enabled /\ L.pc = "reset")
    BY <1>1 DEF Late, Enabled, L
  <2> QED
    BY <1>1, <2>1, <2>2, RoomIsLeft
<1>6. /\ \A r \in Buffers : (r > term.y => term.length[r] = 0) /\ term.length[r] <= Width
      /\ term.length[term.y] =
           IF L.enabled \/ L.pc = "reset" \/ (L.pc = "scroll" /\ L.a = Height) THEN 0
           ELSE IF L.pc \in {"colload", "colstore"} THEN L.i
           ELSE IF L.i <= m + 1 THEN L.i - 1 ELSE 0
  <2>1. \A r \in Buffers : (r > term.y => term.length[r] = 0) /\ term.length[r] <= Width
    BY DEF WidthInv, WithinWidth
  <2>2. term.length[term.y] = IF L.enabled THEN 0 ELSE Counted(running)
    BY DEF WidthInv, RowInOrder, Enabled, L
  <2>3. Counted(running) =
          IF L.pc = "reset" \/ (L.pc = "scroll" /\ L.a = Height) THEN 0
          ELSE IF L.pc \in {"colload", "colstore"} THEN L.i
          ELSE IF L.i <= m + 1 THEN L.i - 1 ELSE 0
    BY DEF Counted, Before, L
  <2> QED
    BY <2>1, <2>2, <2>3
<1> HIDE DEF L, m
\* Where a character is at hand the row has room for it.
<1>7. ASSUME L.pc \in Char1Labels
      PROVE  /\ ~L.enabled /\ running \notin Late /\ L.i <= m /\ L.i <= Width
             /\ term.x + 1 <= Room[Late] + L.i /\ term.x + 1 <= Width
  <2>1. ~L.enabled /\ L.i <= m
    BY <1>3, <1>4, <1>7 DEF Char1Labels
  <2>2. running \notin Late
    BY <1>5, <2>1
  <2>3. L.i \in Nat /\ L.i > 0 /\ L.i <= m + 1
    BY <1>2, <1>3, <2>1
  <2>4. term.x <= Room[Late] + (L.i - 1)
    BY <1>5, <2>1, <2>3
  <2>5. /\ Room[Late] \in Nat /\ Room[Late \cup {running}] \in Nat
        /\ Room[Late] + m <= Room[Late \cup {running}] /\ Room[Late \cup {running}] <= Width
        /\ m <= Width
    BY <1>2, <1>5, <2>2
  <2> QED
    BY <1>2, <2>1, <2>2, <2>3, <2>4, <2>5
<1>8. ConsoleSteps
  BY <1>1, StepsAre
<1> USE <1>2, <1>3
<1>9. ASSUME UNCHANGED consoleVars PROVE WidthInv'
  BY <1>9 DEF consoleVars, WidthInv, RowInOrder, RegistersInOrder, WithinWidth, Before,
     Counted,
            AtLastNewline, Enabled, Late, Room, Rooms, MessageWidth
<1>10. ASSUME Preempt PROVE WidthInv'
  <2>1. /\ running' \in Printers /\ term' = term /\ local' = local /\ L.enabled
    BY <1>10 DEF Preempt, L
  <2>2. \A p \in Printers : Enabled(p) /\ Enabled(p)'
    BY <2>1 DEF ConsoleInv, OneAtATime, Enabled, L
  <2>3. Room' = Room /\ Late' = Late
    BY <2>1 DEF Room, Rooms, MessageWidth, Late, Enabled
  <2>4. RowInOrder' /\ RegistersInOrder'
    BY <1>5, <1>6, <2>1, <2>2, <2>3 DEF RowInOrder, RegistersInOrder, Enabled
  <2>5. WithinWidth'
    BY <2>1 DEF WidthInv, WithinWidth
  <2> QED
    BY <2>1, <2>4, <2>5 DEF WidthInv, AtLastNewline, Enabled, MessageWidth
<1>11. ASSUME Begin PROVE WidthInv'
  <2>1. L.pc = "cli" /\ OnlyTurned("fetch", FALSE, 1, L.a, L.b)
    BY <1>11, <1>8 DEF ConsoleSteps
  <2>2. Turned("fetch", FALSE, 1, L.a, L.b) /\ term' = term
    BY <2>1 DEF OnlyTurned
  <2>3. InOrder("fetch", FALSE, 1, L.a, L.b)
    <3>1. RegistersFit("fetch", FALSE, 1, L.a, L.b)
      BY <1>4, <1>7, <2>1, <2>2 DEF RegistersFit, Labels, Char1Labels, m
    <3>2. ColumnFits("fetch", FALSE, 1)
      <4>1. term.x <= Width /\ term.x <= Room[Late] /\ Room[Late] \in Nat /\ Late \ {running} = Late
        BY <1>5, <2>1
      <4>2. term'.x <= Width /\ term'.x <= Room[Late \ {running}] + 0
        <5> DEFINE R == Room[Late \ {running}]
        <5>1. R \in Nat /\ term.x <= R /\ term.x <= Width /\ term'.x = term.x
          BY <2>2, <4>1
        <5> HIDE DEF R
        <5>2. term'.x <= R + 0
          BY <5>1
        <5> QED
          BY <5>1, <5>2 DEF R
      <4>3. (IF 1 <= MessageWidth(running) + 1 THEN 1 - 1 ELSE 0) = 0
        OBVIOUS
      <4> QED
        BY ONLY <4>2, <4>3 DEF ColumnFits
    <3>3. LengthsFit("fetch", FALSE, 1, L.a)
      BY <1>4, <1>6, <1>7, <2>1, <2>2 DEF LengthsFit, Char1Labels, m
    <3> QED
      BY <3>1, <3>2, <3>3 DEF InOrder
  <2> QED
    BY <2>2, <2>3, WidthKept
<1>12. ASSUME End PROVE WidthInv'
  <2>1. L.pc = "sti" /\ OnlyTurned("cli", TRUE, L.i, L.a, L.b)
    BY <1>12, <1>8 DEF ConsoleSteps
  <2>2. Turned("cli", TRUE, L.i, L.a, L.b) /\ term' = term
    BY <2>1 DEF OnlyTurned
  <2>3. InOrder("cli", TRUE, L.i, L.a, L.b)
    <3>1. RegistersFit("cli", TRUE, L.i, L.a, L.b)
      BY <1>4, <1>7, <2>1, <2>2 DEF RegistersFit, Labels, Char1Labels, m
    <3>2. ColumnFits("cli", TRUE, L.i)
      <4>1. term.x <= Room[Late] /\ Late \ {running} = Late
        BY <1>5, <2>1
      <4>2. term'.x <= Width /\ term'.x <= Room[Late \ {running}]
        BY <1>5, <2>2, <4>1
      <4> QED
        BY ONLY <4>2 DEF ColumnFits
    <3>3. LengthsFit("cli", TRUE, L.i, L.a)
      BY <1>4, <1>6, <1>7, <2>1, <2>2 DEF LengthsFit, Char1Labels, m
    <3> QED
      BY <3>1, <3>2, <3>3 DEF InOrder
  <2> QED
    BY <2>2, <2>3, WidthKept
<1>13. ASSUME FetchChar PROVE WidthInv'
  <2> DEFINE v == IF L.i > Len(Message) THEN "sti"
                  ELSE IF Char1 = Newline THEN "bottom" ELSE "width"
  <2>1. L.pc = "fetch" /\ OnlyTurned(v, L.enabled, L.i, L.a, L.b)
    BY <1>13, <1>8 DEF ConsoleSteps
  <2>2. Turned(v, L.enabled, L.i, L.a, L.b) /\ term' = term
    BY <2>1 DEF OnlyTurned
  <2>3. InOrder(v, L.enabled, L.i, L.a, L.b)
    <3>1. RegistersFit(v, L.enabled, L.i, L.a, L.b)
      BY <1>4, <1>7, <2>1, <2>2 DEF RegistersFit, Labels, Char1Labels, m
    <3>2. ColumnFits(v, L.enabled, L.i)
      BY <1>4, <1>5, <1>7, <2>1, <2>2 DEF ColumnFits, Char1Labels, m
    <3>3. LengthsFit(v, L.enabled, L.i, L.a)
      BY <1>4, <1>6, <1>7, <2>1, <2>2 DEF LengthsFit, Char1Labels, m
    <3> QED
      BY <3>1, <3>2, <3>3 DEF InOrder
  <2> HIDE DEF v
  <2> QED
    BY <2>2, <2>3, WidthKept
<1>14. ASSUME TestWidth PROVE WidthInv'
  <2> DEFINE v == IF term.x = Width THEN "bottom" ELSE "drawx"
  <2>1. L.pc = "width" /\ OnlyTurned(v, L.enabled, L.i, L.a, L.b)
    BY <1>14, <1>8 DEF ConsoleSteps
  <2>2. Turned(v, L.enabled, L.i, L.a, L.b) /\ term' = term
    BY <2>1 DEF OnlyTurned
  <2>3. InOrder(v, L.enabled, L.i, L.a, L.b)
    <3>1. RegistersFit(v, L.enabled, L.i, L.a, L.b)
      BY <1>4, <1>7, <2>1, <2>2 DEF RegistersFit, Labels, Char1Labels, m
    <3>2. ColumnFits(v, L.enabled, L.i)
      BY <1>4, <1>5, <1>7, <2>1, <2>2 DEF ColumnFits, Char1Labels, m
    <3>3. LengthsFit(v, L.enabled, L.i, L.a)
      BY <1>4, <1>6, <1>7, <2>1, <2>2 DEF LengthsFit, Char1Labels, m
    <3> QED
      BY <3>1, <3>2, <3>3 DEF InOrder
  <2> HIDE DEF v
  <2> QED
    BY <2>2, <2>3, WidthKept
<1>15. ASSUME TestBottom PROVE WidthInv'
  <2>1. /\ L.pc = "bottom" /\ term' = term
        /\ IF BottomReached THEN Turned("scroll", FALSE, L.i, 0, L.b)
                            ELSE Turned("rowload", L.enabled, L.i, L.a, L.b)
    BY <1>15, <1>8 DEF ConsoleSteps
  <2>2. CASE BottomReached
    <3>1. InOrder("scroll", FALSE, L.i, 0, L.b)
      <4>1. RegistersFit("scroll", FALSE, L.i, 0, L.b)
        BY <1>4, <1>7, <2>1 DEF RegistersFit, Labels, Char1Labels, m
      <4>2. ColumnFits("scroll", FALSE, L.i)
        BY <1>4, <1>5, <1>7, <2>1 DEF ColumnFits, Char1Labels, m
      <4>3. LengthsFit("scroll", FALSE, L.i, 0)
        BY <1>4, <1>6, <1>7, <2>1 DEF LengthsFit, Char1Labels, m
      <4> QED
        BY <4>1, <4>2, <4>3 DEF InOrder
    <3> QED
      BY <2>1, <2>2, <3>1, WidthKept
  <2>3. CASE ~BottomReached
    <3>1. InOrder("rowload", L.enabled, L.i, L.a, L.b)
      <4>1. RegistersFit("rowload", L.enabled, L.i, L.a, L.b)
        BY <1>4, <1>7, <2>1 DEF RegistersFit, Labels, Char1Labels, m
      <4>2. ColumnFits("rowload", L.enabled, L.i)
        BY <1>4, <1>5, <1>7, <2>1 DEF ColumnFits, Char1Labels, m
      <4>3. LengthsFit("rowload", L.enabled, L.i, L.a)
        BY <1>4, <1>6, <1>7, <2>1 DEF LengthsFit, Char1Labels, m
      <4> QED
        BY <4>1, <4>2, <4>3 DEF InOrder
    <3> QED
      BY <2>1, <2>3, <3>1, WidthKept
  <2> QED
    BY <2>2, <2>3
<1>16. ASSUME LoadRow PROVE WidthInv'
  <2>1. L.pc = "rowload" /\ OnlyTurned("rowstore", L.enabled, L.i, term.y, L.b)
    BY <1>16, <1>8 DEF ConsoleSteps
  <2>2. Turned("rowstore", L.enabled, L.i, term.y, L.b) /\ term' = term
    BY <2>1 DEF OnlyTurned
  <2>3. InOrder("rowstore", L.enabled, L.i, term.y, L.b)
    <3>1. RegistersFit("rowstore", L.enabled, L.i, term.y, L.b)
      BY <1>4, <1>7, <2>1, <2>2 DEF RegistersFit, Labels, Char1Labels, m
    <3>2. ColumnFits("rowstore", L.enabled, L.i)
      BY <1>4, <1>5, <1>7, <2>1, <2>2 DEF ColumnFits, Char1Labels, m
    <3>3. LengthsFit("rowstore", L.enabled, L.i, term.y)
      BY <1>4, <1>6, <1>7, <2>1, <2>2 DEF LengthsFit, Char1Labels, m
    <3> QED
      BY <3>1, <3>2, <3>3 DEF InOrder
  <2> QED
    BY <2>2, <2>3, WidthKept
<1>17. ASSUME StoreRow PROVE WidthInv'
  <2>1. /\ L.pc = "rowstore" /\ Turned("reset", L.enabled, L.i, L.a, L.b)
        /\ term' = [term EXCEPT !.y = L.a + 1]
    BY <1>17, <1>8 DEF ConsoleSteps
  <2>2. L.a = term.y /\ L.a + 1 \in Rows
    <3>1. L.a = term.y /\ ~BottomReached /\ term.y \in Rows /\ Height \in Nat
      BY <2>1
    <3> QED
      BY ONLY <3>1 DEF BottomReached, Rows
  <2>3. term'.y = term.y + 1 /\ term'.x = term.x /\ term'.length = term.length
    BY ONLY <1>1, <2>1, <2>2, CursorFields
  <2>4. InOrder("reset", L.enabled, L.i, L.a, L.b)
    <3>1. RegistersFit("reset", L.enabled, L.i, L.a, L.b)
      BY <1>4, <1>7, <2>1, <2>2, <2>3 DEF RegistersFit, Labels, Char1Labels, m
    <3>2. ColumnFits("reset", L.enabled, L.i)
      BY <1>4, <1>5, <1>7, <2>1, <2>2, <2>3 DEF ColumnFits, Char1Labels, m
    <3>3. LengthsFit("reset", L.enabled, L.i, L.a)
      <4>1. term.y + 1 \in Buffers /\ term.length[term.y + 1] = 0
        BY <1>6, <2>2
      <4> QED
        BY <1>6, <2>3, <4>1 DEF LengthsFit
    <3> QED
      BY <3>1, <3>2, <3>3 DEF InOrder
  <2> QED
    BY <2>1, <2>4, WidthKept
<1>18. ASSUME ScrollStep PROVE WidthInv'
  <2>1. /\ L.pc = "scroll" /\ Turned("scroll", L.enabled, L.i, L.a + 1, L.b)
        /\ term' = ScrollRow(term, L.a) /\ L.a < Height
    BY <1>18, <1>8 DEF ConsoleSteps
  <2>2. L.a \in Rows /\ L.a + 1 \in Buffers /\ term.y + 1 = Height
    BY <2>1, Sizes DEF BottomReached
  <2>3. /\ term'.y = term.y /\ term'.x = term.x
        /\ term'.length = [term.length EXCEPT ![L.a] = term.length[L.a + 1]]
    BY <1>1, <2>1, <2>2, ScrollRowFields
  <2>4. InOrder("scroll", L.enabled, L.i, L.a + 1, L.b)
    <3>1. RegistersFit("scroll", L.enabled, L.i, L.a + 1, L.b)
      BY <1>4, <1>7, <2>1, <2>2, <2>3 DEF RegistersFit, Labels, Char1Labels, m
    <3>2. ColumnFits("scroll", L.enabled, L.i)
      BY <1>4, <1>5, <1>7, <2>1, <2>2, <2>3 DEF ColumnFits, Char1Labels, m
    <3>3. LengthsFit("scroll", L.enabled, L.i, L.a + 1)
      <4>1. \A r \in Buffers : term'.length[r] = IF r = L.a THEN term.length[L.a + 1]
                                                          ELSE term.length[r]
        <5>1. term.length \in [Buffers -> Nat] /\ L.a \in Buffers
          BY <2>2
        <5> QED
          BY ONLY <2>3, <5>1
      <4>2. \A r \in Buffers : (r > term'.y => term'.length[r] = 0) /\ term'.length[r] <= Width
        <5>1. L.a \in Nat /\ term.y \in Nat /\ L.a < Height /\ Height \in Nat
          BY <2>1
        <5> QED
          BY ONLY <1>6, <2>2, <2>3, <4>1, <5>1
      <4>3. ~L.enabled /\ L.i = m + 1 /\ term.y \in Buffers
        BY <1>4, <2>1
      <4>4. CASE L.a + 1 = Height
        <5>1. L.a \in Nat /\ term.y \in Nat
          BY <1>2, <1>3
        <5>2. L.a = term.y /\ term.length[L.a + 1] = 0
          BY ONLY <1>6, <2>2, <4>4, <5>1
        <5>3. term'.length[term'.y] = 0
          BY ONLY <2>3, <4>1, <4>3, <5>2
        <5> QED
          BY ONLY <4>2, <4>4, <5>3 DEF LengthsFit
      <4>5. CASE L.a + 1 # Height
        <5>1. L.a \in Nat /\ term.y \in Nat /\ Height \in Nat /\ m \in Nat
          BY <1>2, <1>3
        <5>2. L.a # term.y /\ L.a # Height
          BY ONLY <2>1, <2>2, <4>5, <5>1
        <5>3. term'.length[term'.y] = term.length[term.y]
          BY ONLY <2>3, <4>1, <4>3, <5>2
        <5>4. term.length[term.y] = L.i - 1
          BY ONLY <1>6, <2>1, <4>3, <5>1, <5>2
        <5> QED
          BY ONLY <4>2, <4>3, <4>5, <5>1, <5>3, <5>4 DEF LengthsFit, m
      <4> QED
        BY <4>4, <4>5
    <3> QED
      BY <3>1, <3>2, <3>3 DEF InOrder
  <2> QED
    BY <2>1, <2>4, WidthKept
<1>19. ASSUME ScrollReturn PROVE WidthInv'
  <2>1. L.pc = "scroll" /\ L.a = Height /\ OnlyTurned("reset", TRUE, L.i, L.a, L.b)
    BY <1>19, <1>8 DEF ConsoleSteps
  <2>2. Turned("reset", TRUE, L.i, L.a, L.b) /\ term' = term
    BY <2>1 DEF OnlyTurned
  <2>3. InOrder("reset", TRUE, L.i, L.a, L.b)
    <3>1. RegistersFit("reset", TRUE, L.i, L.a, L.b)
      <4>1. ~L.enabled /\ L.i = m + 1
        BY <1>4, <2>1
      <4>2. L.i \in Nat /\ L.a \in Nat /\ L.b \in Nat
        BY <1>2, <1>3
      <4> QED
        BY ONLY <4>1, <4>2 DEF RegistersFit, Labels, m
    <3>2. ColumnFits("reset", TRUE, L.i)
      <4>1. ~L.enabled /\ L.i = m + 1 /\ running \notin Late
        BY <1>4, <1>5, <2>1
      <4>2. term.x \in Nat /\ m \in Nat
        BY <1>2
      <4>3. term.x <= Width /\ term.x <= Room[Late \cup {running}]
        BY ONLY <1>5, <4>1, <4>2
      <4> QED
        BY ONLY <2>2, <4>3 DEF ColumnFits
    <3>3. LengthsFit("reset", TRUE, L.i, L.a)
      BY <1>4, <1>6, <1>7, <2>1, <2>2 DEF LengthsFit, Char1Labels, m
    <3> QED
      BY <3>1, <3>2, <3>3 DEF InOrder
  <2> QED
    BY <2>2, <2>3, WidthKept
<1>20. ASSUME Reset PROVE WidthInv'
  <2>1. /\ L.pc = "reset" /\ term' = [term EXCEPT !.x = 0]
        /\ IF Char1 = Newline THEN Turned("fetch", L.enabled, L.i + 1, L.a, L.b)
                              ELSE Turned("drawx", L.enabled, L.i, L.a, L.b)
    BY <1>20, <1>8 DEF ConsoleSteps
  <2>2. L.i = m + 1 /\ Char1 = Newline
    BY <1>4, <2>1
  <2>3. term'.x = 0 /\ term'.y = term.y /\ term'.length = term.length
    BY <1>1, <2>1, CursorFields
  <2>4. InOrder("fetch", L.enabled, L.i + 1, L.a, L.b)
    <3>1. RegistersFit("fetch", L.enabled, L.i + 1, L.a, L.b)
      BY <1>4, <1>7, <2>1, <2>2, <2>3 DEF RegistersFit, Labels, Char1Labels, m
    <3>2. ColumnFits("fetch", L.enabled, L.i + 1)
      BY <1>4, <1>5, <1>7, <2>1, <2>2, <2>3 DEF ColumnFits, Char1Labels, m
    <3>3. LengthsFit("fetch", L.enabled, L.i + 1, L.a)
      BY <1>4, <1>6, <1>7, <2>1, <2>2, <2>3 DEF LengthsFit, Char1Labels, m
    <3> QED
      BY <3>1, <3>2, <3>3 DEF InOrder
  <2> QED
    BY <2>1, <2>2, <2>4, WidthKept
<1>21. ASSUME LoadDrawX PROVE WidthInv'
  <2>1. L.pc = "drawx" /\ OnlyTurned("drawy", L.enabled, L.i, term.x, L.b)
    BY <1>21, <1>8 DEF ConsoleSteps
  <2>2. Turned("drawy", L.enabled, L.i, term.x, L.b) /\ term' = term
    BY <2>1 DEF OnlyTurned
  <2>3. InOrder("drawy", L.enabled, L.i, term.x, L.b)
    <3>1. RegistersFit("drawy", L.enabled, L.i, term.x, L.b)
      BY <1>4, <1>7, <2>1, <2>2 DEF RegistersFit, Labels, Char1Labels, m
    <3>2. ColumnFits("drawy", L.enabled, L.i)
      BY <1>4, <1>5, <1>7, <2>1, <2>2 DEF ColumnFits, Char1Labels, m
    <3>3. LengthsFit("drawy", L.enabled, L.i, term.x)
      BY <1>4, <1>6, <1>7, <2>1, <2>2 DEF LengthsFit, Char1Labels, m
    <3> QED
      BY <3>1, <3>2, <3>3 DEF InOrder
  <2> QED
    BY <2>2, <2>3, WidthKept
<1>22. ASSUME LoadDrawY PROVE WidthInv'
  <2>1. L.pc = "drawy" /\ OnlyTurned("draw", L.enabled, L.i, L.a, term.y)
    BY <1>22, <1>8 DEF ConsoleSteps
  <2>2. Turned("draw", L.enabled, L.i, L.a, term.y) /\ term' = term
    BY <2>1 DEF OnlyTurned
  <2>3. InOrder("draw", L.enabled, L.i, L.a, term.y)
    <3>1. RegistersFit("draw", L.enabled, L.i, L.a, term.y)
      BY <1>4, <1>7, <2>1, <2>2 DEF RegistersFit, Labels, Char1Labels, m
    <3>2. ColumnFits("draw", L.enabled, L.i)
      BY <1>4, <1>5, <1>7, <2>1, <2>2 DEF ColumnFits, Char1Labels, m
    <3>3. LengthsFit("draw", L.enabled, L.i, L.a)
      BY <1>4, <1>6, <1>7, <2>1, <2>2 DEF LengthsFit, Char1Labels, m
    <3> QED
      BY <3>1, <3>2, <3>3 DEF InOrder
  <2> QED
    BY <2>2, <2>3, WidthKept
<1>23. ASSUME DrawChar PROVE WidthInv'
  <2>1. /\ L.pc = "draw" /\ Turned("puty", L.enabled, L.i, L.a, L.b)
        /\ term' = [term EXCEPT !.screen = Drawn(term.screen, Char1, L.a, L.b)]
    BY <1>23, <1>8 DEF ConsoleSteps
  <2>2. Char1 \in Glyphs
    BY <2>1 DEF Char1Labels
  <2>3. term'.x = term.x /\ term'.y = term.y /\ term'.length = term.length
    BY <1>1, <2>1, <2>2, DrawnFields DEF ScreenChanged
  <2>4. InOrder("puty", L.enabled, L.i, L.a, L.b)
    <3>1. RegistersFit("puty", L.enabled, L.i, L.a, L.b)
      BY <1>4, <1>7, <2>1, <2>2, <2>3 DEF RegistersFit, Labels, Char1Labels, m
    <3>2. ColumnFits("puty", L.enabled, L.i)
      BY <1>4, <1>5, <1>7, <2>1, <2>2, <2>3 DEF ColumnFits, Char1Labels, m
    <3>3. LengthsFit("puty", L.enabled, L.i, L.a)
      BY <1>4, <1>6, <1>7, <2>1, <2>2, <2>3 DEF LengthsFit, Char1Labels, m
    <3> QED
      BY <3>1, <3>2, <3>3 DEF InOrder
  <2> QED
    BY <2>1, <2>4, WidthKept
<1>24. ASSUME LoadPutY PROVE WidthInv'
  <2>1. L.pc = "puty" /\ OnlyTurned("putx", L.enabled, L.i, L.a, term.y)
    BY <1>24, <1>8 DEF ConsoleSteps
  <2>2. Turned("putx", L.enabled, L.i, L.a, term.y) /\ term' = term
    BY <2>1 DEF OnlyTurned
  <2>3. InOrder("putx", L.enabled, L.i, L.a, term.y)
    <3>1. RegistersFit("putx", L.enabled, L.i, L.a, term.y)
      BY <1>4, <1>7, <2>1, <2>2 DEF RegistersFit, Labels, Char1Labels, m
    <3>2. ColumnFits("putx", L.enabled, L.i)
      BY <1>4, <1>5, <1>7, <2>1, <2>2 DEF ColumnFits, Char1Labels, m
    <3>3. LengthsFit("putx", L.enabled, L.i, L.a)
      BY <1>4, <1>6, <1>7, <2>1, <2>2 DEF LengthsFit, Char1Labels, m
    <3> QED
      BY <3>1, <3>2, <3>3 DEF InOrder
  <2> QED
    BY <2>2, <2>3, WidthKept
<1>25. ASSUME LoadPutX PROVE WidthInv'
  <2>1. L.pc = "putx" /\ OnlyTurned("put", L.enabled, L.i, term.x, L.b)
    BY <1>25, <1>8 DEF ConsoleSteps
  <2>2. Turned("put", L.enabled, L.i, term.x, L.b) /\ term' = term
    BY <2>1 DEF OnlyTurned
  <2>3. InOrder("put", L.enabled, L.i, term.x, L.b)
    <3>1. RegistersFit("put", L.enabled, L.i, term.x, L.b)
      <4>1. L.pc \in Char1Labels
        BY ONLY <2>1 DEF Char1Labels
      <4>2. L.enabled = FALSE /\ L.b = term.y /\ term.x < Width
        BY <1>4, <1>7, <2>1, <4>1
      <4>3. L.i \in Nat /\ term.x \in Nat /\ L.b \in Nat
        BY <1>2, <1>3
      <4> QED
        BY ONLY <2>2, <4>2, <4>3 DEF RegistersFit, Labels
    <3>2. ColumnFits("put", L.enabled, L.i)
      BY <1>4, <1>5, <1>7, <2>1, <2>2 DEF ColumnFits, Char1Labels, m
    <3>3. LengthsFit("put", L.enabled, L.i, term.x)
      BY <1>4, <1>6, <1>7, <2>1, <2>2 DEF LengthsFit, Char1Labels, m
    <3> QED
      BY <3>1, <3>2, <3>3 DEF InOrder
  <2> QED
    BY <2>2, <2>3, WidthKept
<1>26. ASSUME StoreChar PROVE WidthInv'
  <2>1. /\ L.pc = "put" /\ Turned("lenrow", L.enabled, L.i, L.a, L.b)
        /\ term' = [term EXCEPT !.text[L.b][L.a] = Char1]
    BY <1>26, <1>8 DEF ConsoleSteps
  <2>2. Char1 \in Glyphs
    BY <2>1 DEF Char1Labels
  <2>3. term'.x = term.x /\ term'.y = term.y /\ term'.length = term.length
    BY <1>1, <2>1, <2>2, TextFields DEF TextChanged
  <2>4. InOrder("lenrow", L.enabled, L.i, L.a, L.b)
    <3>1. RegistersFit("lenrow", L.enabled, L.i, L.a, L.b)
      BY <1>4, <1>7, <2>1, <2>2, <2>3 DEF RegistersFit, Labels, Char1Labels, m
    <3>2. ColumnFits("lenrow", L.enabled, L.i)
      BY <1>4, <1>5, <1>7, <2>1, <2>2, <2>3 DEF ColumnFits, Char1Labels, m
    <3>3. LengthsFit("lenrow", L.enabled, L.i, L.a)
      BY <1>4, <1>6, <1>7, <2>1, <2>2, <2>3 DEF LengthsFit, Char1Labels, m
    <3> QED
      BY <3>1, <3>2, <3>3 DEF InOrder
  <2> QED
    BY <2>1, <2>4, WidthKept
<1>27. ASSUME LoadLengthRow PROVE WidthInv'
  <2>1. L.pc = "lenrow" /\ OnlyTurned("lenload", L.enabled, L.i, L.a, term.y)
    BY <1>27, <1>8 DEF ConsoleSteps
  <2>2. Turned("lenload", L.enabled, L.i, L.a, term.y) /\ term' = term
    BY <2>1 DEF OnlyTurned
  <2>3. InOrder("lenload", L.enabled, L.i, L.a, term.y)
    <3>1. RegistersFit("lenload", L.enabled, L.i, L.a, term.y)
      BY <1>4, <1>7, <2>1, <2>2 DEF RegistersFit, Labels, Char1Labels, m
    <3>2. ColumnFits("lenload", L.enabled, L.i)
      BY <1>4, <1>5, <1>7, <2>1, <2>2 DEF ColumnFits, Char1Labels, m
    <3>3. LengthsFit("lenload", L.enabled, L.i, L.a)
      BY <1>4, <1>6, <1>7, <2>1, <2>2 DEF LengthsFit, Char1Labels, m
    <3> QED
      BY <3>1, <3>2, <3>3 DEF InOrder
  <2> QED
    BY <2>2, <2>3, WidthKept
<1>28. ASSUME LoadLength PROVE WidthInv'
  <2>1. L.pc = "lenload" /\ OnlyTurned("lenstore", L.enabled, L.i, term.length[L.b], L.b)
    BY <1>28, <1>8 DEF ConsoleSteps
  <2>2. Turned("lenstore", L.enabled, L.i, term.length[L.b], L.b) /\ term' = term
    BY <2>1 DEF OnlyTurned
  <2>3. InOrder("lenstore", L.enabled, L.i, term.length[L.b], L.b)
    <3>1. RegistersFit("lenstore", L.enabled, L.i, term.length[L.b], L.b)
      BY <1>4, <1>7, <2>1, <2>2 DEF RegistersFit, Labels, Char1Labels, m
    <3>2. ColumnFits("lenstore", L.enabled, L.i)
      BY <1>4, <1>5, <1>7, <2>1, <2>2 DEF ColumnFits, Char1Labels, m
    <3>3. LengthsFit("lenstore", L.enabled, L.i, term.length[L.b])
      BY <1>4, <1>6, <1>7, <2>1, <2>2 DEF LengthsFit, Char1Labels, m
    <3> QED
      BY <3>1, <3>2, <3>3 DEF InOrder
  <2> QED
    BY <2>2, <2>3, WidthKept
<1>29. ASSUME StoreLength PROVE WidthInv'
  <2>1. /\ L.pc = "lenstore" /\ Turned("colload", L.enabled, L.i, L.a, L.b)
        /\ term' = [term EXCEPT !.length[L.b] = L.a + 1]
    BY <1>29, <1>8 DEF ConsoleSteps
  <2>2. /\ term'.x = term.x /\ term'.y = term.y
        /\ \A k \in Buffers : term'.length[k] = IF k = L.b THEN L.a + 1 ELSE term.length[k]
    <3>1. term \in Terminal /\ L.a + 1 \in Nat /\ L.b \in Rows
      BY <1>1, <1>3
    <3> QED
      BY ONLY <2>1, <3>1, LengthFields
  <2>3. InOrder("colload", L.enabled, L.i, L.a, L.b)
    <3>1. RegistersFit("colload", L.enabled, L.i, L.a, L.b)
      BY <1>4, <1>7, <2>1, <2>2 DEF RegistersFit, Labels, Char1Labels, m
    <3>2. ColumnFits("colload", L.enabled, L.i)
      BY <1>4, <1>5, <1>7, <2>1, <2>2 DEF ColumnFits, Char1Labels, m
    <3>3. LengthsFit("colload", L.enabled, L.i, L.a)
      <4>1. /\ ~L.enabled /\ L.i <= m /\ L.i <= Width /\ L.b = term.y
            /\ L.a = term.length[term.y]
        BY <1>4, <1>7, <2>1 DEF Char1Labels
      <4>2. term.length[term.y] = L.i - 1
        BY <1>6, <2>1, <4>1
      <4>3. L.a + 1 = L.i
        BY <4>1, <4>2
      <4>4. \A r \in Buffers : (r > term'.y => term'.length[r] = 0) /\ term'.length[r] <= Width
        <5>1. \A r \in Buffers : r > term.y => r # L.b
          BY <4>1
        <5> QED
          BY ONLY <1>6, <2>2, <4>1, <4>3, <5>1
      <4>5. term'.length[term'.y] = L.i
        <5>1. term.y \in Buffers
          BY <1>2
        <5> QED
          BY ONLY <2>2, <4>1, <4>3, <5>1
      <4> QED
        BY ONLY <4>1, <4>4, <4>5 DEF LengthsFit
    <3> QED
      BY <3>1, <3>2, <3>3 DEF InOrder
  <2> QED
    BY <2>1, <2>3, WidthKept
<1>30. ASSUME LoadColumn PROVE WidthInv'
  <2>1. L.pc = "colload" /\ OnlyTurned("colstore", L.enabled, L.i, term.x, L.b)
    BY <1>30, <1>8 DEF ConsoleSteps
  <2>2. Turned("colstore", L.enabled, L.i, term.x, L.b) /\ term' = term
    BY <2>1 DEF OnlyTurned
  <2>3. InOrder("colstore", L.enabled, L.i, term.x, L.b)
    <3>1. RegistersFit("colstore", L.enabled, L.i, term.x, L.b)
      BY <1>4, <1>7, <2>1, <2>2 DEF RegistersFit, Labels, Char1Labels, m
    <3>2. ColumnFits("colstore", L.enabled, L.i)
      BY <1>4, <1>5, <1>7, <2>1, <2>2 DEF ColumnFits, Char1Labels, m
    <3>3. LengthsFit("colstore", L.enabled, L.i, term.x)
      BY <1>4, <1>6, <1>7, <2>1, <2>2 DEF LengthsFit, Char1Labels, m
    <3> QED
      BY <3>1, <3>2, <3>3 DEF InOrder
  <2> QED
    BY <2>2, <2>3, WidthKept
<1>31. ASSUME StoreColumn PROVE WidthInv'
  <2>1. /\ L.pc = "colstore" /\ Turned("fetch", L.enabled, L.i + 1, L.a, L.b)
        /\ term' = [term EXCEPT !.x = L.a + 1]
    BY <1>31, <1>8 DEF ConsoleSteps
  <2>2. term'.x = L.a + 1 /\ term'.y = term.y /\ term'.length = term.length
    BY <1>1, <2>1, CursorFields
  <2>3. InOrder("fetch", L.enabled, L.i + 1, L.a, L.b)
    <3>1. RegistersFit("fetch", L.enabled, L.i + 1, L.a, L.b)
      <4>1. L.enabled = FALSE
        BY <1>4, <2>1
      <4>2. L.i + 1 \in Nat /\ L.a \in Nat /\ L.b \in Nat
        BY <1>2, <1>3
      <4> QED
        BY ONLY <4>1, <4>2 DEF RegistersFit, Labels
    <3>2. ColumnFits("fetch", L.enabled, L.i + 1)
      <4>1. /\ ~L.enabled /\ L.i <= m /\ L.a = term.x /\ Late \ {running} = Late
            /\ term.x + 1 <= Room[Late] + L.i /\ term.x + 1 <= Width
        <5>1. L.pc \in Char1Labels
          BY ONLY <2>1 DEF Char1Labels
        <5>2. L.a = term.x
          BY ONLY <1>4, <1>7, <2>1, <5>1
        <5> QED
          BY ONLY <1>5, <1>7, <5>1, <5>2
      <4>2. term'.x = term.x + 1 /\ L.i \in Nat
        <5>1. L.i \in Nat
          BY <1>3
        <5> QED
          BY ONLY <2>2, <4>1, <5>1
      <4>3. L.i + 1 <= MessageWidth(running) + 1 /\ (L.i + 1) - 1 = L.i
        <5>1. m \in Nat
          BY <1>2
        <5> QED
          BY ONLY <4>1, <4>2, <5>1 DEF m
      <4>4. term'.x <= Width /\ term'.x <= Room[Late \ {running}] + ((L.i + 1) - 1)
        <5>1. Room[Late \ {running}] = Room[Late]
          BY ONLY <4>1
        <5>2. term'.x <= Width /\ term'.x <= Room[Late] + L.i
          BY ONLY <4>1, <4>2
        <5> QED
          BY ONLY <4>3, <5>1, <5>2
      <4> QED
        BY ONLY <4>1, <4>3, <4>4 DEF ColumnFits
    <3>3. LengthsFit("fetch", L.enabled, L.i + 1, L.a)
      BY <1>4, <1>6, <1>7, <2>1, <2>2 DEF LengthsFit, Char1Labels, m
    <3> QED
      BY <3>1, <3>2, <3>3 DEF InOrder
  <2> QED
    BY <2>1, <2>3, WidthKept
<1> QED
  BY <1>9, <1>10, <1>11, <1>12, <1>13, <1>14, <1>15, <1>16, <1>17, <1>18, <1>19, <1>20,
     <1>21, <1>22, <1>23, <1>24, <1>25, <1>26, <1>27, <1>28, <1>29, <1>30, <1>31 DEF
     ConsoleNext

\* In spite of the preemption behind scroll nothing is ever printed beyond the end of a
\* row, when a row has room for one message of each process.
THEOREM WithinWidthHolds ==
  ASSUME MessagesFit
  PROVE  ConsoleSpec => []WithinWidth
<1> DEFINE Inv == ConsoleInv /\ WidthInv
<1>1. ConsoleInit => Inv
  BY ConsoleStarts, WidthStarts
<1>2. Inv /\ [ConsoleNext]_consoleVars => Inv'
  BY ConsoleSteady, WidthSteady
<1>3. Inv => WithinWidth
  BY DEF WidthInv
<1> HIDE DEF Inv
<1> QED
  BY <1>1, <1>2, <1>3, PTL DEF ConsoleSpec

------------------------------------------------------------------------------
\* Until the first scroll.  The column of the character at hand, and how much of the
\* message is stored in the row, for a process at label v and character i.
Column(i) == IF i <= MessageWidth(running) + 1 THEN i - 1 ELSE 0
Stored(v, i) ==
  IF v = "reset" THEN 0
  ELSE IF v \in {"lenrow", "lenload", "lenstore", "colload", "colstore"} THEN i
  ELSE Column(i)

RowsWritten == \A r \in Rows : r < term.y => \E p \in Printers : RowHolds(r, p)
CursorWritten(e, i) == term'.x = IF e THEN 0 ELSE Column(i)
TextWritten(v, e, i) ==
  ~e => \A k \in 0 .. Stored(v, i) - 1 : term'.text[term'.y][k] = Message[k + 1]
ScreenWritten(v, i) ==
  \A x \in Cols, y \in Rows :
    term'.screen[<<x, y>>] =
      IF x < term'.length[y] THEN Ink(term'.text[y][x])
      ELSE IF v \in Drawing /\ x = Column(i) /\ y = term'.y THEN Ink(Message[i])
      ELSE {}

Written(v, e, i) ==
  RowsWritten' /\ CursorWritten(e, i) /\ TextWritten(v, e, i) /\ ScreenWritten(v, i)

LEMMA WholeKept ==
  ASSUME ConsoleInv, ConsoleInv', NEW v, NEW e, NEW i, NEW a, NEW b,
         v \in Labels, e \in BOOLEAN, i \in Nat, a \in Nat, b \in Nat,
         Turned(v, e, i, a, b), ~scrolled' => v # "scroll" /\ Written(v, e, i)
  PROVE  WholeInv'
<1>1. /\ running' = running /\ running \in Printers
      /\ local'[running].pc = v /\ local'[running].enabled = e
      /\ local'[running].i = i
  BY TurnedLocal DEF ConsoleInv
<1> SUFFICES ASSUME ~scrolled'
             PROVE  /\ \A p \in Printers : Enabled(p)' => local'[p].pc = "cli"
                    /\ Enabled(running)' => term'.x = 0
                    /\ RowsWritten'
                    /\ MessageSoFar' /\ ScreenSoFar'
  BY DEF WholeInv, RowsWritten
<1>2. v # "scroll" /\ Written(v, e, i)
  OBVIOUS
<1>3. \A p \in Printers : Enabled(p)' => local'[p].pc = "cli"
  BY DEF ConsoleInv, OneAtATime
<1>4. Enabled(running)' => term'.x = 0
  BY <1>1, <1>2 DEF Enabled, Written, CursorWritten
<1>5. Before(running)' = Column(i)
  BY <1>1 DEF Before, Column, MessageWidth
<1>6. Messages[running]' = Message /\ Messages[running'] = Message
  BY <1>1 DEF Message
<1>7. MessageSoFar'
  <2>1. (IF local'[running].pc \in {"lenrow", "lenload", "lenstore"} THEN local'[running].i
         ELSE Counted(running)') = Stored(v, i)
    BY <1>1, <1>2, <1>5 DEF Counted, Stored
  <2> QED
    BY <1>1, <1>2, <1>5, <1>6, <2>1 DEF MessageSoFar, Written, CursorWritten, TextWritten
<1>8. ScreenSoFar'
  <2>1. /\ local'[running'].pc = v /\ Messages[running'][local'[running'].i] = Message[i]
        /\ Before(running)' = Column(i)
    BY <1>1, <1>5, <1>6
  <2>2. ScreenWritten(v, i)
    BY <1>2 DEF Written
  <2>3. ASSUME NEW x \in Cols, NEW y \in Rows
        PROVE  term'.screen[<<x, y>>] =
                 IF x < term'.length[y] THEN Ink(term'.text[y][x])
                 ELSE IF local'[running'].pc \in Drawing /\ x = Before(running)' /\ y = term'.y
                   THEN Ink(Messages[running'][local'[running'].i])
                 ELSE {}
    BY <2>1, <2>2 DEF ScreenWritten
  <2> QED
    BY <2>3 DEF ScreenSoFar
<1> QED
  BY <1>2, <1>3, <1>4, <1>7, <1>8 DEF Written

LEMMA WholeStarts ==
  ASSUME MessagesFit
  PROVE  ConsoleInit => WholeInv
<1> SUFFICES ASSUME ConsoleInit PROVE WholeInv
  OBVIOUS
<1>1. /\ term = EmptyTerminal /\ running \in Printers
      /\ \A p \in Printers : local[p].pc = "cli" /\ local[p].enabled = TRUE
  BY DEF ConsoleInit
<1>2. /\ term.x = 0 /\ term.y = 0 /\ term.length = [r \in Buffers |-> 0]
      /\ term.screen = [c \in Cells |-> IF c[2] = Height THEN Ink(Foreign) ELSE {}]
  BY <1>1 DEF EmptyTerminal
<1>3. MessageSoFar
  BY <1>1 DEF MessageSoFar
<1>4. ASSUME NEW x \in Cols, NEW y \in Rows
      PROVE  term.screen[<<x, y>>] = {} /\ ~(x < term.length[y])
  <2>1. x \in Nat /\ <<x, y>> \in Cells /\ y # Height /\ y \in Buffers
    BY Sizes DEF Rows
  <2> QED
    BY <1>2, <2>1
<1>5. ScreenSoFar
  BY <1>1, <1>4 DEF ScreenSoFar, Drawing
<1>6. \A r \in Rows : ~(r < term.y)
  BY <1>2, Sizes DEF Rows
<1> QED
  BY <1>1, <1>2, <1>3, <1>5, <1>6 DEF WholeInv, Enabled

\* What the invariants say before the first scroll, for the process on the processor.
LEMMA WholeSoFar ==
  ASSUME ConsoleInv, WidthInv, WholeInv, ~scrolled
  PROVE  /\ L.pc # "scroll" /\ (L.enabled <=> L.pc = "cli") /\ RowsWritten
         /\ term.x = IF L.enabled THEN 0 ELSE Column(L.i)
         /\ ~L.enabled => \A k \in 0 .. Stored(L.pc, L.i) - 1 :
                            term.text[term.y][k] = Message[k + 1]
         /\ \A x \in Cols, y \in Rows :
              term.screen[<<x, y>>] =
                IF x < term.length[y] THEN Ink(term.text[y][x])
                ELSE IF L.pc \in Drawing /\ x = Column(L.i) /\ y = term.y THEN Ink(Message[L.i])
                ELSE {}
         /\ term.length[term.y] =
              IF L.enabled \/ L.pc = "reset" THEN 0
              ELSE IF L.pc \in {"colload", "colstore"} THEN L.i ELSE Column(L.i)
         /\ ~L.enabled /\ L.pc \in {"bottom", "rowload", "rowstore", "reset"} =>
              L.i = MessageWidth(running) + 1
         /\ ~L.enabled /\ L.pc \in {"draw", "put", "colstore"} => L.a = term.x
         /\ ~L.enabled /\ L.pc \in {"draw", "put", "lenstore"} => L.b = term.y
         /\ ~L.enabled /\ L.pc = "lenstore" => L.a = term.length[term.y]
<1>1. running \in Printers /\ ConsoleTypeOK
  BY DEF ConsoleInv, ConsoleTypeOK
<1>2. L.pc # "scroll" /\ (L.enabled <=> L.pc = "cli")
  BY <1>1 DEF ConsoleInv, Labelled, OneAtATime, Enabled, L
<1>3. Before(running) = Column(L.i) /\ Messages[running] = Message
  BY DEF Before, Column, L, Message
<1>4. Counted(running) = IF L.pc = "reset" THEN 0
                         ELSE IF L.pc \in {"colload", "colstore"} THEN L.i ELSE Column(L.i)
  BY <1>2, <1>3 DEF Counted, L
<1>5. term.length[term.y] =
        IF L.enabled \/ L.pc = "reset" THEN 0
        ELSE IF L.pc \in {"colload", "colstore"} THEN L.i ELSE Column(L.i)
  BY <1>4 DEF WidthInv, RowInOrder, Enabled, L
<1>6. /\ RowsWritten /\ MessageSoFar /\ ScreenSoFar
      /\ L.enabled => term.x = 0
  BY DEF WholeInv, RowsWritten, Enabled, L
<1>7. ~L.enabled => /\ term.x = Column(L.i)
                    /\ \A k \in 0 .. Stored(L.pc, L.i) - 1 : term.text[term.y][k] = Message[k + 1]
  <2>1. (IF L.pc \in {"lenrow", "lenload", "lenstore"} THEN L.i ELSE Counted(running))
          = Stored(L.pc, L.i)
    BY <1>4 DEF Stored
  <2> QED
    BY <1>3, <1>6, <2>1 DEF MessageSoFar, L
<1>8. \A x \in Cols, y \in Rows :
        term.screen[<<x, y>>] =
          IF x < term.length[y] THEN Ink(term.text[y][x])
          ELSE IF L.pc \in Drawing /\ x = Column(L.i) /\ y = term.y THEN Ink(Message[L.i])
          ELSE {}
  <2>1. /\ local[running].pc = L.pc /\ Messages[running][local[running].i] = Message[L.i]
        /\ Before(running) = Column(L.i)
    BY <1>3 DEF L
  <2>2. ScreenSoFar
    BY <1>6
  <2> HIDE DEF L
  <2> SUFFICES ASSUME NEW x \in Cols, NEW y \in Rows
               PROVE  term.screen[<<x, y>>] =
                        IF x < term.length[y] THEN Ink(term.text[y][x])
                        ELSE IF L.pc \in Drawing /\ x = Column(L.i) /\ y = term.y
                          THEN Ink(Message[L.i])
                        ELSE {}
    OBVIOUS
  <2>3. term.screen[<<x, y>>] =
          IF x < term.length[y] THEN Ink(term.text[y][x])
          ELSE IF local[running].pc \in Drawing /\ x = Before(running) /\ y = term.y
            THEN Ink(Messages[running][local[running].i])
          ELSE {}
    BY <2>2 DEF ScreenSoFar
  <2> QED
    BY <2>1, <2>3
<1>9. /\ ~L.enabled /\ L.pc \in {"bottom", "rowload", "rowstore", "reset"} =>
            L.i = MessageWidth(running) + 1
      /\ ~L.enabled /\ L.pc \in {"draw", "put", "colstore"} => L.a = term.x
      /\ ~L.enabled /\ L.pc \in {"draw", "put", "lenstore"} => L.b = term.y
      /\ ~L.enabled /\ L.pc = "lenstore" => L.a = term.length[term.y]
  BY DEF WidthInv, RegistersInOrder, AtLastNewline, L
<1> HIDE DEF L
<1> QED
  BY <1>2, <1>5, <1>6, <1>7, <1>8, <1>9

\* A load, or a test, of a process that is printing.
LEMMA WrittenStill ==
  ASSUME ConsoleInv, WidthInv, WholeInv, ~scrolled, ~L.enabled, term' = term,
         NEW v \in Labels, v \in Drawing <=> L.pc \in Drawing,
         Stored(v, L.i) = Stored(L.pc, L.i)
  PROVE  Written(v, L.enabled, L.i)
<1> USE WholeSoFar
<1>1. RowsWritten'
  BY DEF RowsWritten, RowHolds
<1>2. CursorWritten(L.enabled, L.i)
  BY DEF CursorWritten
<1>3. TextWritten(v, L.enabled, L.i)
  BY DEF TextWritten
<1>4. ScreenWritten(v, L.i)
  BY DEF ScreenWritten
<1> QED
  BY <1>1, <1>2, <1>3, <1>4 DEF Written

\* A message fits in a row.
LEMMA FitsInRow ==
  ASSUME MessagesFit, NEW p \in Printers
  PROVE  MessageWidth(p) <= Width
<1>1. Room \in Rooms
  BY DEF MessagesFit, Room
<1>2. /\ Room[{}] \in 0 .. Width /\ Room[{} \cup {p}] \in 0 .. Width
      /\ Room[{}] + MessageWidth(p) <= Room[{} \cup {p}]
  BY <1>1 DEF Rooms
<1> QED
  BY <1>2, MessagesAre, Sizes

LEMMA WholeSteady ==
  ASSUME MessagesFit, ConsoleInv, WidthInv, WholeInv, [ConsoleNext]_consoleVars
  PROVE  WholeInv'
<1> DEFINE m == MessageWidth(running)
<1>1. ConsoleTypeOK /\ running \in Printers /\ term \in Terminal
  BY DEF ConsoleInv, ConsoleTypeOK
<1>2. /\ term.x \in Nat /\ term.y \in Rows /\ term.y \in Nat /\ term.length \in [Buffers -> Nat]
      /\ \A r \in Rows : r \in Nat /\ r \in Buffers
      /\ \A n \in Nat : n < Height => n \in Rows
      /\ Width \in Nat /\ m \in Nat /\ m <= Width
      /\ L.pc \in Labels /\ L.enabled \in BOOLEAN /\ L.a \in Nat /\ L.b \in Rows /\ L.b \in Nat
      /\ L.i \in 1 .. m + 2 /\ L.i \in Nat
      /\ L.pc = "sti" => L.i = m + 2
      /\ L.pc \in Char1Labels => L.i <= m
      /\ L.i <= m => Char1 \in Glyphs
      /\ L.i <= m + 1 => (Char1 = Newline <=> L.i = m + 1)
      /\ Len(Message) = m + 1
  <2>1. m <= Width
    BY <1>1, RoomIsLeft
  <2>2. L.b \in Nat /\ L.i \in Nat
    BY Registers
  <2> HIDE DEF L, m
  <2> QED
    BY <2>1, <2>2, Registers DEF m
<1>3. Char1 = Message[L.i]
  BY DEF Char1, L
<1>4. ConsoleInv' /\ WidthInv'
  BY ConsoleSteady, WidthSteady
<1>5. ConsoleSteps
  BY <1>1, StepsAre
<1> HIDE DEF L, m
\* Before the first scroll.
<1>6. ASSUME ~scrolled
      PROVE  /\ L.pc # "scroll" /\ (L.enabled <=> L.pc = "cli") /\ RowsWritten
             /\ term.x = IF L.enabled THEN 0 ELSE Column(L.i)
             /\ ~L.enabled => \A k \in 0 .. Stored(L.pc, L.i) - 1 :
                                term.text[term.y][k] = Message[k + 1]
             /\ \A x \in Cols, y \in Rows :
                  term.screen[<<x, y>>] =
                    IF x < term.length[y] THEN Ink(term.text[y][x])
                    ELSE IF L.pc \in Drawing /\ x = Column(L.i) /\ y = term.y THEN Ink(Message[L.i])
                    ELSE {}
             /\ term.length[term.y] =
                  IF L.enabled \/ L.pc = "reset" THEN 0
                  ELSE IF L.pc \in {"colload", "colstore"} THEN L.i ELSE Column(L.i)
             /\ ~L.enabled /\ L.pc \in {"bottom", "rowload", "rowstore", "reset"} => L.i = m + 1
             /\ ~L.enabled /\ L.pc \in {"draw", "put", "colstore"} => L.a = term.x
             /\ ~L.enabled /\ L.pc \in {"draw", "put", "lenstore"} => L.b = term.y
             /\ ~L.enabled /\ L.pc = "lenstore" => L.a = term.length[term.y]
  BY <1>6, WholeSoFar DEF m
<1>7. ASSUME UNCHANGED consoleVars PROVE WholeInv'
  BY <1>7 DEF consoleVars, WholeInv, RowHolds, MessageSoFar, ScreenSoFar, Before, Counted,
            Enabled, MessageWidth
<1>8. ASSUME Preempt PROVE WholeInv'
  <2>1. /\ running' \in Printers /\ term' = term /\ local' = local /\ scrolled' = scrolled
        /\ L.enabled
    BY <1>8 DEF Preempt, L
  <2> SUFFICES ASSUME ~scrolled
               PROVE  /\ \A p \in Printers : Enabled(p)' => local'[p].pc = "cli"
                      /\ Enabled(running)' => term'.x = 0
                      /\ \A r \in Rows : r < term'.y => \E p \in Printers : RowHolds(r, p)'
                      /\ MessageSoFar' /\ ScreenSoFar'
    BY <2>1 DEF WholeInv
  <2>2. \A p \in Printers : Enabled(p)' /\ local'[p].pc = "cli"
    BY <2>1 DEF ConsoleInv, OneAtATime, Enabled, L
  <2>3. term'.x = 0
    BY <1>6, <2>1
  <2>4. \A r \in Rows : r < term'.y => \E p \in Printers : RowHolds(r, p)'
    BY <1>6, <2>1 DEF RowsWritten, RowHolds
  <2>5. MessageSoFar'
    BY <2>1, <2>2 DEF MessageSoFar, Enabled
  <2>6. ScreenSoFar'
    BY <1>6, <2>1, <2>2 DEF ScreenSoFar, Drawing
  <2> QED
    BY <2>2, <2>3, <2>4, <2>5, <2>6
<1>9. ASSUME Begin PROVE WholeInv'
  <2>1. L.pc = "cli" /\ Turned("fetch", FALSE, 1, L.a, L.b)
        /\ scrolled' = scrolled /\ term' = term
    BY <1>9, <1>5 DEF ConsoleSteps, OnlyTurned
  <2>2. "fetch" \in Labels /\ FALSE \in BOOLEAN /\ 1 \in Nat /\ L.b \in Nat
    BY <1>2 DEF Labels
  <2>3. ASSUME ~scrolled' PROVE "fetch" # "scroll" /\ Written("fetch", FALSE, 1)
    <3>1. ~scrolled /\ term.x = 0
      BY <1>2, <1>6, <2>1, <2>3
    <3>2. RowsWritten'
      BY <1>6, <2>1, <3>1 DEF RowsWritten, RowHolds
    <3>3. CursorWritten(FALSE, 1)
      BY <1>2, <2>1, <3>1 DEF CursorWritten, Column, m
    <3>4. TextWritten("fetch", FALSE, 1)
      BY <1>2, <2>1 DEF TextWritten, Stored, Column, m
    <3>5. ScreenWritten("fetch", 1)
      <4>1. L.pc \notin Drawing /\ "fetch" \notin Drawing
        BY ONLY <2>1 DEF Drawing
      <4> QED
        BY <1>6, <2>1, <3>1, <4>1 DEF ScreenWritten
    <3> QED
      BY <3>2, <3>3, <3>4, <3>5 DEF Written
  <2> QED
    BY <1>2, <1>4, <2>1, <2>2, <2>3, WholeKept
<1>10. ASSUME End PROVE WholeInv'
  <2>1. L.pc = "sti" /\ Turned("cli", TRUE, L.i, L.a, L.b)
        /\ scrolled' = scrolled /\ term' = term
    BY <1>10, <1>5 DEF ConsoleSteps, OnlyTurned
  <2>2. "cli" \in Labels /\ TRUE \in BOOLEAN /\ L.i \in Nat /\ L.b \in Nat
    BY <1>2 DEF Labels
  <2>3. ASSUME ~scrolled' PROVE "cli" # "scroll" /\ Written("cli", TRUE, L.i)
    <3>1. ~scrolled /\ term.x = 0
      BY <1>2, <1>6, <2>1, <2>3 DEF Column, m
    <3>2. RowsWritten'
      BY <1>6, <2>1, <3>1 DEF RowsWritten, RowHolds
    <3>3. CursorWritten(TRUE, L.i)
      BY <2>1, <3>1 DEF CursorWritten
    <3>4. TextWritten("cli", TRUE, L.i)
      BY DEF TextWritten
    <3>5. ScreenWritten("cli", L.i)
      BY <1>6, <2>1, <3>1 DEF ScreenWritten, Drawing
    <3> QED
      BY <3>2, <3>3, <3>4, <3>5 DEF Written
  <2> QED
    BY <1>2, <1>4, <2>1, <2>2, <2>3, WholeKept
<1>11. ASSUME FetchChar PROVE WholeInv'
  <2> DEFINE v == IF L.i > Len(Message) THEN "sti"
                  ELSE IF Char1 = Newline THEN "bottom" ELSE "width"
  <2>1. L.pc = "fetch" /\ OnlyTurned(v, L.enabled, L.i, L.a, L.b)
    BY <1>11, <1>5 DEF ConsoleSteps
  <2>2. Turned(v, L.enabled, L.i, L.a, L.b) /\ term' = term /\ scrolled' = scrolled
    BY <2>1 DEF OnlyTurned
  <2>3. v \in Labels
    BY DEF Labels
  <2>4. v \notin Drawing /\ v # "scroll" /\ Stored(v, L.i) = Column(L.i)
    BY DEF Drawing, Stored
  <2> HIDE DEF v
  <2>5. ASSUME ~scrolled' PROVE v # "scroll" /\ Written(v, L.enabled, L.i)
    <3>1. /\ ~scrolled /\ ~L.enabled /\ (v \in Drawing <=> L.pc \in Drawing)
          /\ Stored(v, L.i) = Stored(L.pc, L.i)
      BY <1>6, <2>1, <2>2, <2>5, <2>4 DEF Drawing, Stored
    <3> QED
      BY <2>2, <2>3, <2>4, <3>1, WrittenStill
  <2> QED
    BY <1>2, <1>4, <2>2, <2>3, <2>5, WholeKept
<1>12. ASSUME TestWidth PROVE WholeInv'
  <2> DEFINE v == IF term.x = Width THEN "bottom" ELSE "drawx"
  <2>1. L.pc = "width" /\ OnlyTurned(v, L.enabled, L.i, L.a, L.b)
    BY <1>12, <1>5 DEF ConsoleSteps
  <2>2. Turned(v, L.enabled, L.i, L.a, L.b) /\ term' = term /\ scrolled' = scrolled
    BY <2>1 DEF OnlyTurned
  <2>3. v \in Labels
    BY DEF Labels
  <2>4. v \notin Drawing /\ v # "scroll" /\ Stored(v, L.i) = Column(L.i)
    BY DEF Drawing, Stored
  <2> HIDE DEF v
  <2>5. ASSUME ~scrolled' PROVE v # "scroll" /\ Written(v, L.enabled, L.i)
    <3>1. /\ ~scrolled /\ ~L.enabled /\ (v \in Drawing <=> L.pc \in Drawing)
          /\ Stored(v, L.i) = Stored(L.pc, L.i)
      BY <1>6, <2>1, <2>2, <2>5, <2>4 DEF Drawing, Stored
    <3> QED
      BY <2>2, <2>3, <2>4, <3>1, WrittenStill
  <2> QED
    BY <1>2, <1>4, <2>2, <2>3, <2>5, WholeKept
<1>13. ASSUME TestBottom PROVE WholeInv'
  <2>1. /\ L.pc = "bottom" /\ term' = term
        /\ IF BottomReached THEN Turned("scroll", FALSE, L.i, 0, L.b)
                            ELSE Turned("rowload", L.enabled, L.i, L.a, L.b)
    BY <1>13, <1>5 DEF ConsoleSteps
  <2>2. scrolled' = (scrolled \/ BottomReached)
    BY <1>13, <1>5 DEF ConsoleSteps
  <2>3. CASE BottomReached
    <3>1. scrolled'
      BY <2>2, <2>3, Zenon
    <3> QED
      BY <3>1 DEF WholeInv
  <2>4. CASE ~BottomReached
    <3>1. ~scrolled' => ~scrolled
      BY <2>2, Zenon
    <3>2. ASSUME ~scrolled' PROVE "rowload" # "scroll" /\ Written("rowload", L.enabled, L.i)
      <4>1. /\ ~scrolled /\ ~L.enabled /\ ("rowload" \in Drawing <=> L.pc \in Drawing)
            /\ Stored("rowload", L.i) = Stored(L.pc, L.i)
        BY <1>6, <2>1, <3>1, <3>2 DEF Drawing, Stored
      <4>2. "rowload" \in Labels
        BY DEF Labels
      <4> QED
        BY <2>1, <4>1, <4>2, WrittenStill
    <3>3. "rowload" \in Labels
      BY DEF Labels
    <3> QED
      BY <1>2, <1>4, <2>1, <2>4, <3>2, <3>3, WholeKept
  <2> QED
    BY <2>3, <2>4
<1>14. ASSUME LoadRow PROVE WholeInv'
  <2>1. L.pc = "rowload" /\ OnlyTurned("rowstore", L.enabled, L.i, term.y, L.b)
    BY <1>14, <1>5 DEF ConsoleSteps
  <2>2. Turned("rowstore", L.enabled, L.i, term.y, L.b) /\ term' = term /\ scrolled' = scrolled
    BY <2>1 DEF OnlyTurned
  <2>3. "rowstore" \in Labels
    BY DEF Labels
  <2>4. ASSUME ~scrolled' PROVE "rowstore" # "scroll" /\ Written("rowstore", L.enabled, L.i)
    <3>1. /\ ~scrolled /\ ~L.enabled /\ ("rowstore" \in Drawing <=> L.pc \in Drawing)
          /\ Stored("rowstore", L.i) = Stored(L.pc, L.i)
      BY <1>6, <2>1, <2>2, <2>4 DEF Drawing, Stored
    <3> QED
      BY <2>2, <2>3, <3>1, WrittenStill
  <2> QED
    BY <1>2, <1>4, <2>2, <2>3, <2>4, WholeKept
<1>15. ASSUME StoreRow PROVE WholeInv'
  <2>1. L.pc = "rowstore" /\ Turned("reset", L.enabled, L.i, L.a, L.b)
        /\ scrolled' = scrolled /\ term' = [term EXCEPT !.y = L.a + 1]
    BY <1>15, <1>5 DEF ConsoleSteps, OnlyTurned
  <2>2. "reset" \in Labels /\ L.enabled \in BOOLEAN /\ L.i \in Nat /\ L.b \in Nat
    BY <1>2 DEF Labels
  <2>3. ASSUME ~scrolled' PROVE "reset" # "scroll" /\ Written("reset", L.enabled, L.i)
    <3>1. ~scrolled /\ ~L.enabled /\ L.i = m + 1
      BY <1>2, <1>6, <2>1, <2>3
    <3>2. /\ term'.x = term.x /\ term'.y = term.y + 1
          /\ term'.text = term.text /\ term'.length = term.length /\ term'.screen = term.screen
      <4>1. L.a = term.y /\ ~BottomReached /\ term.y \in Rows /\ Height \in Nat
        BY <2>1, Registers
      <4>2. L.a + 1 \in Rows
        BY ONLY <4>1 DEF BottomReached, Rows
      <4> QED
        BY <1>1, <2>1, <4>1, <4>2, CursorFields
    <3>3. RowHolds(term.y, running)
      <4>1. /\ term.length[term.y] = m /\ Len(Messages[running]) = m + 1
            /\ \A k \in 0 .. m - 1 : term.text[term.y][k] = Messages[running][k + 1]
        <5>1. m \in Nat /\ Len(Message) = m + 1
          BY <1>2
        <5>2. Column(L.i) = m /\ Stored(L.pc, L.i) = m
          BY ONLY <2>1, <3>1, <5>1 DEF Stored, Column, m
        <5>3. term.length[term.y] = m /\ \A k \in 0 .. m - 1 : term.text[term.y][k] = Message[k + 1]
          BY <1>6, <2>1, <3>1, <5>2
        <5> QED
          BY <5>1, <5>3 DEF Message
      <4>2. Len(Messages[running]) - 1 = m /\ Len(Messages[running]) - 2 = m - 1
        BY <1>2, <4>1
      <4> QED
        BY <4>1, <4>2 DEF RowHolds
    <3>4. RowsWritten'
      <4>1. ASSUME NEW r \in Rows, r < term'.y
            PROVE  \E p \in Printers : RowHolds(r, p)
        <5>1. r < term.y \/ r = term.y
          BY <1>2, <3>2, <4>1
        <5>2. CASE r < term.y
          BY <1>6, <3>1, <5>2 DEF RowsWritten
        <5>3. CASE r = term.y
          BY <1>1, <3>3, <5>3
        <5> QED
          BY <5>1, <5>2, <5>3
      <4> QED
        BY <3>2, <4>1 DEF RowsWritten, RowHolds
    <3>5. CursorWritten(L.enabled, L.i)
      BY <1>6, <3>1, <3>2 DEF CursorWritten
    <3>6. TextWritten("reset", L.enabled, L.i)
      BY DEF TextWritten, Stored
    <3>7. ScreenWritten("reset", L.i)
      <4>1. L.pc \notin Drawing /\ "reset" \notin Drawing
        BY <2>1 DEF Drawing
      <4>2. ASSUME NEW x \in Cols, NEW y \in Rows
            PROVE  term'.screen[<<x, y>>] =
                     IF x < term'.length[y] THEN Ink(term'.text[y][x]) ELSE {}
        BY <1>6, <3>1, <3>2, <4>1
      <4> QED
        BY <4>1, <4>2 DEF ScreenWritten
    <3> QED
      BY <3>4, <3>5, <3>6, <3>7 DEF Written
  <2> QED
    BY <1>2, <1>4, <2>1, <2>2, <2>3, WholeKept
<1>16. ASSUME ScrollStep PROVE WholeInv'
  <2>1. L.pc = "scroll" /\ scrolled' = scrolled
    BY <1>16, <1>5 DEF ConsoleSteps, OnlyTurned
  <2>2. scrolled'
    BY <1>6, <2>1
  <2> QED
    BY <2>2 DEF WholeInv
<1>17. ASSUME ScrollReturn PROVE WholeInv'
  <2>1. L.pc = "scroll" /\ scrolled' = scrolled
    BY <1>17, <1>5 DEF ConsoleSteps, OnlyTurned
  <2>2. scrolled'
    BY <1>6, <2>1
  <2> QED
    BY <2>2 DEF WholeInv
<1>18. ASSUME Reset PROVE WholeInv'
  <2>1. /\ L.pc = "reset" /\ scrolled' = scrolled /\ term' = [term EXCEPT !.x = 0]
        /\ IF Char1 = Newline THEN Turned("fetch", L.enabled, L.i + 1, L.a, L.b)
                              ELSE Turned("drawx", L.enabled, L.i, L.a, L.b)
    BY <1>18, <1>5 DEF ConsoleSteps
  <2>2. CASE scrolled'
    BY <2>2 DEF WholeInv
  <2>3. CASE ~scrolled'
    <3>1. ~scrolled /\ ~L.enabled /\ L.i = m + 1 /\ Char1 = Newline
      BY <1>2, <1>6, <2>1, <2>3
    <3>2. /\ term'.x = 0 /\ term'.y = term.y
          /\ term'.text = term.text /\ term'.length = term.length /\ term'.screen = term.screen
      BY <1>1, <1>2, <2>1, CursorFields
    <3>3. Column(L.i + 1) = 0
      BY <1>2, <3>1 DEF Column, m
    <3>4. RowsWritten'
      BY <1>6, <3>1, <3>2 DEF RowsWritten, RowHolds
    <3>5. CursorWritten(L.enabled, L.i + 1)
      BY <3>1, <3>2, <3>3 DEF CursorWritten
    <3>6. TextWritten("fetch", L.enabled, L.i + 1)
      BY <3>3 DEF TextWritten, Stored
    <3>7. ScreenWritten("fetch", L.i + 1)
      <4>1. L.pc \notin Drawing /\ "fetch" \notin Drawing
        BY <2>1 DEF Drawing
      <4>2. ASSUME NEW x \in Cols, NEW y \in Rows
            PROVE  term'.screen[<<x, y>>] =
                     IF x < term'.length[y] THEN Ink(term'.text[y][x]) ELSE {}
        BY <1>6, <3>1, <3>2, <4>1
      <4> QED
        BY <4>1, <4>2 DEF ScreenWritten
    <3>8. Written("fetch", L.enabled, L.i + 1)
      BY <3>4, <3>5, <3>6, <3>7 DEF Written
    <3>9. "fetch" \in Labels /\ L.i + 1 \in Nat
      BY <1>2 DEF Labels
    <3> QED
      BY <1>2, <1>4, <2>1, <3>1, <3>8, <3>9, WholeKept
  <2> QED
    BY <2>2, <2>3
<1>19. ASSUME LoadDrawX PROVE WholeInv'
  <2>1. L.pc = "drawx" /\ OnlyTurned("drawy", L.enabled, L.i, term.x, L.b)
    BY <1>19, <1>5 DEF ConsoleSteps
  <2>2. Turned("drawy", L.enabled, L.i, term.x, L.b) /\ term' = term /\ scrolled' = scrolled
    BY <2>1 DEF OnlyTurned
  <2>3. "drawy" \in Labels
    BY DEF Labels
  <2>4. ASSUME ~scrolled' PROVE "drawy" # "scroll" /\ Written("drawy", L.enabled, L.i)
    <3>1. /\ ~scrolled /\ ~L.enabled /\ ("drawy" \in Drawing <=> L.pc \in Drawing)
          /\ Stored("drawy", L.i) = Stored(L.pc, L.i)
      BY <1>6, <2>1, <2>2, <2>4 DEF Drawing, Stored
    <3> QED
      BY <2>2, <2>3, <3>1, WrittenStill
  <2> QED
    BY <1>2, <1>4, <2>2, <2>3, <2>4, WholeKept
<1>20. ASSUME LoadDrawY PROVE WholeInv'
  <2>1. L.pc = "drawy" /\ OnlyTurned("draw", L.enabled, L.i, L.a, term.y)
    BY <1>20, <1>5 DEF ConsoleSteps
  <2>2. Turned("draw", L.enabled, L.i, L.a, term.y) /\ term' = term /\ scrolled' = scrolled
    BY <2>1 DEF OnlyTurned
  <2>3. "draw" \in Labels
    BY DEF Labels
  <2>4. ASSUME ~scrolled' PROVE "draw" # "scroll" /\ Written("draw", L.enabled, L.i)
    <3>1. /\ ~scrolled /\ ~L.enabled /\ ("draw" \in Drawing <=> L.pc \in Drawing)
          /\ Stored("draw", L.i) = Stored(L.pc, L.i)
      BY <1>6, <2>1, <2>2, <2>4 DEF Drawing, Stored
    <3> QED
      BY <2>2, <2>3, <3>1, WrittenStill
  <2> QED
    BY <1>2, <1>4, <2>2, <2>3, <2>4, WholeKept
<1>21. ASSUME DrawChar PROVE WholeInv'
  <2>1. L.pc = "draw" /\ Turned("puty", L.enabled, L.i, L.a, L.b)
        /\ scrolled' = scrolled /\ term' = [term EXCEPT !.screen = Drawn(term.screen, Char1, L.a, L.b)]
    BY <1>21, <1>5 DEF ConsoleSteps, OnlyTurned
  <2>2. "puty" \in Labels /\ L.enabled \in BOOLEAN /\ L.i \in Nat /\ L.b \in Nat
    BY <1>2 DEF Labels
  <2>3. ASSUME ~scrolled' PROVE "puty" # "scroll" /\ Written("puty", L.enabled, L.i)
    <3>1. ~scrolled /\ ~L.enabled /\ L.i <= m /\ L.i > 0 /\ Column(L.i) = L.i - 1 /\ L.i - 1 \in Cols
          /\ Char1 \in Glyphs
      BY <1>2, <1>6, <2>1, <2>3 DEF Char1Labels, Column, Cols, m
    <3>2. L.a = L.i - 1 /\ L.b = term.y /\ term.length[term.y] = L.i - 1 /\ term.x = L.i - 1
      BY <1>6, <2>1, <3>1
    <3>3. /\ term'.x = term.x /\ term'.y = term.y /\ term'.text = term.text /\ term'.length = term.length
          /\ \A x \in Cols, y \in Rows :
               term'.screen[<<x, y>>] = IF x = L.a /\ y = L.b
                                          THEN term.screen[<<x, y>>] \cup Ink(Char1)
                                          ELSE term.screen[<<x, y>>]
      <4>1. term \in Terminal /\ Char1 \in Glyphs /\ L.a \in Nat /\ L.b \in Rows
        BY <1>1, <1>2, <3>1
      <4>2. term' = [term EXCEPT !.screen = Drawn(term.screen, Char1, L.a, L.b)]
        BY <2>1
      <4>3. ScreenChanged(term, term', Char1, L.a, L.b)
        BY <4>1, <4>2, DrawnFields
      <4> QED
        BY <4>3 DEF ScreenChanged
    <3>4. RowsWritten'
      BY <1>6, <3>1, <3>3 DEF RowsWritten, RowHolds
    <3>5. CursorWritten(L.enabled, L.i)
      BY <3>1, <3>2, <3>3 DEF CursorWritten
    <3>6. TextWritten("puty", L.enabled, L.i)
      BY <1>6, <2>1, <3>1, <3>3 DEF TextWritten, Stored
    <3>7. ScreenWritten("puty", L.i)
      <4>1. ASSUME NEW x \in Cols, NEW y \in Rows
            PROVE  term'.screen[<<x, y>>] =
                     IF x < term'.length[y] THEN Ink(term'.text[y][x])
                     ELSE IF "puty" \in Drawing /\ x = Column(L.i) /\ y = term'.y
                       THEN Ink(Message[L.i])
                     ELSE {}
        <5>1. term.screen[<<x, y>>] = IF x < term.length[y] THEN Ink(term.text[y][x]) ELSE {}
          BY <1>6, <2>1, <3>1 DEF Drawing
        <5>2. "puty" \in Drawing
          BY DEF Drawing
        <5>3. CASE x = L.a /\ y = L.b
          <6>1. ~(x < term.length[y])
            BY <1>2, <3>2, <5>3
          <6> QED
            BY <1>3, <3>1, <3>2, <3>3, <5>1, <5>2, <5>3, <6>1
        <5>4. CASE ~(x = L.a /\ y = L.b)
          BY <3>1, <3>2, <3>3, <5>1, <5>4
        <5> QED
          BY <5>3, <5>4
      <4> QED
        BY <4>1 DEF ScreenWritten
    <3> QED
      BY <3>4, <3>5, <3>6, <3>7 DEF Written
  <2> QED
    BY <1>2, <1>4, <2>1, <2>2, <2>3, WholeKept
<1>22. ASSUME LoadPutY PROVE WholeInv'
  <2>1. L.pc = "puty" /\ OnlyTurned("putx", L.enabled, L.i, L.a, term.y)
    BY <1>22, <1>5 DEF ConsoleSteps
  <2>2. Turned("putx", L.enabled, L.i, L.a, term.y) /\ term' = term /\ scrolled' = scrolled
    BY <2>1 DEF OnlyTurned
  <2>3. "putx" \in Labels
    BY DEF Labels
  <2>4. ASSUME ~scrolled' PROVE "putx" # "scroll" /\ Written("putx", L.enabled, L.i)
    <3>1. /\ ~scrolled /\ ~L.enabled /\ ("putx" \in Drawing <=> L.pc \in Drawing)
          /\ Stored("putx", L.i) = Stored(L.pc, L.i)
      BY <1>6, <2>1, <2>2, <2>4 DEF Drawing, Stored
    <3> QED
      BY <2>2, <2>3, <3>1, WrittenStill
  <2> QED
    BY <1>2, <1>4, <2>2, <2>3, <2>4, WholeKept
<1>23. ASSUME LoadPutX PROVE WholeInv'
  <2>1. L.pc = "putx" /\ OnlyTurned("put", L.enabled, L.i, term.x, L.b)
    BY <1>23, <1>5 DEF ConsoleSteps
  <2>2. Turned("put", L.enabled, L.i, term.x, L.b) /\ term' = term /\ scrolled' = scrolled
    BY <2>1 DEF OnlyTurned
  <2>3. "put" \in Labels
    BY DEF Labels
  <2>4. ASSUME ~scrolled' PROVE "put" # "scroll" /\ Written("put", L.enabled, L.i)
    <3>1. /\ ~scrolled /\ ~L.enabled /\ ("put" \in Drawing <=> L.pc \in Drawing)
          /\ Stored("put", L.i) = Stored(L.pc, L.i)
      BY <1>6, <2>1, <2>2, <2>4 DEF Drawing, Stored
    <3> QED
      BY <2>2, <2>3, <3>1, WrittenStill
  <2> QED
    BY <1>2, <1>4, <2>2, <2>3, <2>4, WholeKept
<1>24. ASSUME StoreChar PROVE WholeInv'
  <2>1. L.pc = "put" /\ Turned("lenrow", L.enabled, L.i, L.a, L.b)
        /\ scrolled' = scrolled /\ term' = [term EXCEPT !.text[L.b][L.a] = Char1]
    BY <1>24, <1>5 DEF ConsoleSteps, OnlyTurned
  <2>2. "lenrow" \in Labels /\ L.enabled \in BOOLEAN /\ L.i \in Nat /\ L.b \in Nat
    BY <1>2 DEF Labels
  <2>3. ASSUME ~scrolled' PROVE "lenrow" # "scroll" /\ Written("lenrow", L.enabled, L.i)
    <3>1. ~scrolled /\ ~L.enabled /\ L.i <= m /\ L.i > 0 /\ Column(L.i) = L.i - 1 /\ L.i - 1 \in Cols
          /\ Char1 \in Glyphs
      BY <1>2, <1>6, <2>1, <2>3 DEF Char1Labels, Column, Cols, m
    <3>2. L.a = L.i - 1 /\ L.b = term.y /\ term.length[term.y] = L.i - 1 /\ term.x = L.i - 1
      BY <1>6, <2>1, <3>1
    <3>3. /\ term'.x = term.x /\ term'.y = term.y
          /\ term'.length = term.length /\ term'.screen = term.screen
          /\ \A r \in Buffers, k \in Cols :
               term'.text[r][k] = IF r = L.b /\ k = L.a THEN Char1 ELSE term.text[r][k]
      <4>1. term \in Terminal /\ Char1 \in Glyphs /\ L.a \in Nat /\ L.b \in Rows
        BY <1>1, <1>2, <3>1
      <4>2. term' = [term EXCEPT !.text[L.b][L.a] = Char1]
        BY <2>1
      <4>3. TextChanged(term, term', Char1, L.a, L.b)
        BY <4>1, <4>2, TextFields
      <4> QED
        BY <4>3 DEF TextChanged
    <3>4. RowsWritten'
      <4>1. ASSUME NEW r \in Rows, r < term.y, NEW p \in Printers, RowHolds(r, p)
            PROVE  RowHolds(r, p)'
        <5>1. /\ MessageWidth(p) <= Width /\ MessageWidth(p) \in Nat
              /\ Len(Messages[p]) - 2 = MessageWidth(p) - 1
          BY <4>1, FitsInRow, MessagesAre
        <5>2. \A k \in 0 .. Len(Messages[p]) - 2 : k \in Cols
          BY <1>2, <5>1 DEF Cols
        <5>3. r \in Buffers /\ r # L.b
          BY <1>2, <3>2, <4>1
        <5>4. \A k \in 0 .. Len(Messages[p]) - 2 : term'.text[r][k] = term.text[r][k]
          BY <3>3, <5>2, <5>3
        <5> QED
          BY <3>3, <4>1, <5>4 DEF RowHolds
      <4> QED
        BY <1>6, <3>1, <3>3, <4>1 DEF RowsWritten
    <3>5. CursorWritten(L.enabled, L.i)
      BY <3>1, <3>2, <3>3 DEF CursorWritten
    <3>6. TextWritten("lenrow", L.enabled, L.i)
      <4>1. ASSUME NEW k \in 0 .. L.i - 1 PROVE term'.text[term'.y][k] = Message[k + 1]
        <5>1. k \in Cols /\ term.y \in Buffers
          BY <1>2, <3>1 DEF Cols
        <5>2. CASE k = L.i - 1
          <6>1. k + 1 = L.i
            BY <1>2, <5>2
          <6>2. term'.y = term.y /\ term'.text[term.y][k] = Char1
            BY ONLY <3>2, <3>3, <5>1, <5>2
          <6> QED
            BY ONLY <1>3, <6>1, <6>2
        <5>3. CASE k # L.i - 1
          <6>1. Stored(L.pc, L.i) = L.i - 1 /\ L.i \in Nat
            BY <1>2, <2>1, <3>1 DEF Stored
          <6>2. k \in 0 .. Stored(L.pc, L.i) - 1
            BY <5>3, <6>1
          <6>3. term.text[term.y][k] = Message[k + 1]
            BY <1>6, <3>1, <6>2
          <6> QED
            BY <3>2, <3>3, <5>1, <5>3, <6>3
        <5> QED
          BY <5>2, <5>3
      <4> QED
        BY <4>1 DEF TextWritten, Stored
    <3>7. ScreenWritten("lenrow", L.i)
      <4> SUFFICES ASSUME NEW x \in Cols, NEW y \in Rows
                   PROVE  term'.screen[<<x, y>>] =
                            IF x < term'.length[y] THEN Ink(term'.text[y][x])
                            ELSE IF "lenrow" \in Drawing /\ x = Column(L.i) /\ y = term'.y
                                   THEN Ink(Message[L.i])
                            ELSE {}
        BY DEF ScreenWritten
      <4>1. term.screen[<<x, y>>] = IF x < term.length[y] THEN Ink(term.text[y][x])
                                    ELSE IF x = L.i - 1 /\ y = term.y THEN Ink(Message[L.i])
                                    ELSE {}
        BY <1>6, <2>1, <3>1 DEF Drawing
      <4>2. x < term.length[y] => term'.text[y][x] = term.text[y][x]
        BY <1>2, <3>2, <3>3
      <4>3. /\ term'.screen[<<x, y>>] = term.screen[<<x, y>>]
            /\ term'.length[y] = term.length[y] /\ term'.y = term.y
        BY <3>3
      <4>4. "lenrow" \in Drawing /\ Column(L.i) = L.i - 1
        BY ONLY <3>1 DEF Drawing
      <4>5. CASE x < term.length[y]
        BY ONLY <4>1, <4>2, <4>3, <4>5
      <4>6. CASE ~(x < term.length[y])
        BY ONLY <4>1, <4>3, <4>4, <4>6
      <4> QED
        BY ONLY <4>5, <4>6
    <3> QED
      BY <3>4, <3>5, <3>6, <3>7 DEF Written
  <2> QED
    BY <1>2, <1>4, <2>1, <2>2, <2>3, WholeKept
<1>25. ASSUME LoadLengthRow PROVE WholeInv'
  <2>1. L.pc = "lenrow" /\ OnlyTurned("lenload", L.enabled, L.i, L.a, term.y)
    BY <1>25, <1>5 DEF ConsoleSteps
  <2>2. Turned("lenload", L.enabled, L.i, L.a, term.y) /\ term' = term /\ scrolled' = scrolled
    BY <2>1 DEF OnlyTurned
  <2>3. "lenload" \in Labels
    BY DEF Labels
  <2>4. ASSUME ~scrolled' PROVE "lenload" # "scroll" /\ Written("lenload", L.enabled, L.i)
    <3>1. /\ ~scrolled /\ ~L.enabled /\ ("lenload" \in Drawing <=> L.pc \in Drawing)
          /\ Stored("lenload", L.i) = Stored(L.pc, L.i)
      BY <1>6, <2>1, <2>2, <2>4 DEF Drawing, Stored
    <3> QED
      BY <2>2, <2>3, <3>1, WrittenStill
  <2> QED
    BY <1>2, <1>4, <2>2, <2>3, <2>4, WholeKept
<1>26. ASSUME LoadLength PROVE WholeInv'
  <2>1. L.pc = "lenload" /\ OnlyTurned("lenstore", L.enabled, L.i, term.length[L.b], L.b)
    BY <1>26, <1>5 DEF ConsoleSteps
  <2>2. Turned("lenstore", L.enabled, L.i, term.length[L.b], L.b) /\ term' = term /\ scrolled' = scrolled
    BY <2>1 DEF OnlyTurned
  <2>3. "lenstore" \in Labels
    BY DEF Labels
  <2>4. ASSUME ~scrolled' PROVE "lenstore" # "scroll" /\ Written("lenstore", L.enabled, L.i)
    <3>1. /\ ~scrolled /\ ~L.enabled /\ ("lenstore" \in Drawing <=> L.pc \in Drawing)
          /\ Stored("lenstore", L.i) = Stored(L.pc, L.i)
      BY <1>6, <2>1, <2>2, <2>4 DEF Drawing, Stored
    <3> QED
      BY <2>2, <2>3, <3>1, WrittenStill
  <2> QED
    BY <1>2, <1>4, <2>2, <2>3, <2>4, WholeKept
<1>27. ASSUME StoreLength PROVE WholeInv'
  <2>1. L.pc = "lenstore" /\ Turned("colload", L.enabled, L.i, L.a, L.b)
        /\ scrolled' = scrolled /\ term' = [term EXCEPT !.length[L.b] = L.a + 1]
    BY <1>27, <1>5 DEF ConsoleSteps, OnlyTurned
  <2>2. "colload" \in Labels /\ L.enabled \in BOOLEAN /\ L.i \in Nat /\ L.b \in Nat
    BY <1>2 DEF Labels
  <2>3. ASSUME ~scrolled' PROVE "colload" # "scroll" /\ Written("colload", L.enabled, L.i)
    <3>1. ~scrolled /\ ~L.enabled /\ L.i <= m /\ L.i > 0 /\ Column(L.i) = L.i - 1 /\ L.i - 1 \in Cols
          /\ Char1 \in Glyphs
      BY <1>2, <1>6, <2>1, <2>3 DEF Char1Labels, Column, Cols, m
    <3>2. L.a = L.i - 1 /\ L.b = term.y /\ term.length[term.y] = L.i - 1 /\ term.x = L.i - 1
      BY <1>6, <2>1, <3>1
    <3>3. /\ term'.x = term.x /\ term'.y = term.y
          /\ term'.text = term.text /\ term'.screen = term.screen
          /\ \A k \in Buffers : term'.length[k] = IF k = L.b THEN L.a + 1 ELSE term.length[k]
      BY <1>1, <1>2, <2>1, LengthFields
    <3>4. RowsWritten'
      <4>1. ASSUME NEW r \in Rows, r < term.y PROVE term'.length[r] = term.length[r]
        BY <1>2, <3>2, <3>3, <4>1
      <4> QED
        BY <1>6, <3>1, <3>3, <4>1 DEF RowsWritten, RowHolds
    <3>5. CursorWritten(L.enabled, L.i)
      BY <3>1, <3>2, <3>3 DEF CursorWritten
    <3>6. TextWritten("colload", L.enabled, L.i)
      BY <1>6, <2>1, <3>1, <3>3 DEF TextWritten, Stored
    <3>7. ScreenWritten("colload", L.i)
      <4>1. ASSUME NEW x \in Cols, NEW y \in Rows
            PROVE  term'.screen[<<x, y>>] =
                     IF x < term'.length[y] THEN Ink(term'.text[y][x]) ELSE {}
        <5>1. term.screen[<<x, y>>] = IF x < term.length[y] THEN Ink(term.text[y][x])
                                      ELSE IF x = L.i - 1 /\ y = term.y THEN Ink(Message[L.i])
                                      ELSE {}
          BY <1>6, <2>1, <3>1 DEF Drawing
        <5>2. term.text[term.y][L.i - 1] = Message[L.i]
          <6>1. Stored(L.pc, L.i) = L.i
            BY ONLY <2>1 DEF Stored
          <6>2. L.i \in Nat
            BY <1>2
          <6>3. L.i - 1 \in 0 .. Stored(L.pc, L.i) - 1 /\ (L.i - 1) + 1 = L.i
            BY ONLY <3>1, <6>1, <6>2
          <6> QED
            BY <1>6, <3>1, <6>3
        <5>3. term'.length[y] = IF y = term.y THEN L.i ELSE term.length[y]
          BY <1>2, <3>1, <3>2, <3>3
        <5>4. x \in Nat /\ L.i \in Nat /\ term.length[term.y] = L.i - 1
          BY <1>2, <3>2 DEF Cols
        <5>5. term'.screen[<<x, y>>] = term.screen[<<x, y>>] /\ term'.text[y][x] = term.text[y][x]
          BY <3>3
        <5>6. CASE y = term.y
          <6>1. x < L.i <=> (x < L.i - 1 \/ x = L.i - 1)
            BY ONLY <5>4
          <6> QED
            BY ONLY <5>1, <5>2, <5>3, <5>4, <5>5, <5>6, <6>1
        <5>7. CASE y # term.y
          BY ONLY <5>1, <5>3, <5>5, <5>7
        <5> QED
          BY ONLY <5>6, <5>7
      <4> QED
        BY <4>1 DEF ScreenWritten, Drawing
    <3> QED
      BY <3>4, <3>5, <3>6, <3>7 DEF Written
  <2> QED
    BY <1>2, <1>4, <2>1, <2>2, <2>3, WholeKept
<1>28. ASSUME LoadColumn PROVE WholeInv'
  <2>1. L.pc = "colload" /\ OnlyTurned("colstore", L.enabled, L.i, term.x, L.b)
    BY <1>28, <1>5 DEF ConsoleSteps
  <2>2. Turned("colstore", L.enabled, L.i, term.x, L.b) /\ term' = term /\ scrolled' = scrolled
    BY <2>1 DEF OnlyTurned
  <2>3. "colstore" \in Labels
    BY DEF Labels
  <2>4. ASSUME ~scrolled' PROVE "colstore" # "scroll" /\ Written("colstore", L.enabled, L.i)
    <3>1. /\ ~scrolled /\ ~L.enabled /\ ("colstore" \in Drawing <=> L.pc \in Drawing)
          /\ Stored("colstore", L.i) = Stored(L.pc, L.i)
      BY <1>6, <2>1, <2>2, <2>4 DEF Drawing, Stored
    <3> QED
      BY <2>2, <2>3, <3>1, WrittenStill
  <2> QED
    BY <1>2, <1>4, <2>2, <2>3, <2>4, WholeKept
<1>29. ASSUME StoreColumn PROVE WholeInv'
  <2>1. L.pc = "colstore" /\ Turned("fetch", L.enabled, L.i + 1, L.a, L.b)
        /\ scrolled' = scrolled /\ term' = [term EXCEPT !.x = L.a + 1]
    BY <1>29, <1>5 DEF ConsoleSteps, OnlyTurned
  <2>2. "fetch" \in Labels /\ L.enabled \in BOOLEAN /\ L.i + 1 \in Nat /\ L.b \in Nat
    BY <1>2 DEF Labels
  <2>3. ASSUME ~scrolled' PROVE "fetch" # "scroll" /\ Written("fetch", L.enabled, L.i + 1)
    <3>1. ~scrolled /\ ~L.enabled /\ L.i <= m /\ L.i > 0 /\ Column(L.i) = L.i - 1 /\ L.i - 1 \in Cols
          /\ Char1 \in Glyphs
      BY <1>2, <1>6, <2>1, <2>3 DEF Char1Labels, Column, Cols, m
    <3>2. /\ term'.x = L.i /\ term'.y = term.y
          /\ term'.text = term.text /\ term'.length = term.length /\ term'.screen = term.screen
      BY <1>1, <1>2, <1>6, <2>1, <3>1, CursorFields
    <3>3. Column(L.i + 1) = L.i
      BY <1>2, <3>1 DEF Column, m
    <3>4. RowsWritten'
      BY <1>6, <3>1, <3>2 DEF RowsWritten, RowHolds
    <3>5. CursorWritten(L.enabled, L.i + 1)
      BY <3>1, <3>2, <3>3 DEF CursorWritten
    <3>6. TextWritten("fetch", L.enabled, L.i + 1)
      BY <1>6, <2>1, <3>1, <3>2, <3>3 DEF TextWritten, Stored
    <3>7. ScreenWritten("fetch", L.i + 1)
      <4>1. L.pc \notin Drawing /\ "fetch" \notin Drawing
        BY <2>1 DEF Drawing
      <4>2. ASSUME NEW x \in Cols, NEW y \in Rows
            PROVE  term'.screen[<<x, y>>] =
                     IF x < term'.length[y] THEN Ink(term'.text[y][x]) ELSE {}
        BY <1>6, <3>1, <3>2, <4>1
      <4> QED
        BY <4>1, <4>2 DEF ScreenWritten
    <3> QED
      BY <3>4, <3>5, <3>6, <3>7 DEF Written
  <2> QED
    BY <1>2, <1>4, <2>1, <2>2, <2>3, WholeKept
<1> QED
  BY <1>7, <1>8, <1>9, <1>10, <1>11, <1>12, <1>13, <1>14, <1>15, <1>16, <1>17, <1>18,
     <1>19, <1>20, <1>21, <1>22, <1>23, <1>24, <1>25, <1>26, <1>27, <1>28, <1>29 DEF
     ConsoleNext

\* Until the first scroll messages of different processes never mix: each row that was
\* begun holds one whole message, and the screen shows it.
THEOREM WholeMessagesHolds ==
  ASSUME MessagesFit
  PROVE  ConsoleSpec => []WholeMessages
<1> DEFINE Inv == ConsoleInv /\ WidthInv /\ WholeInv
<1>1. ConsoleInit => Inv
  BY ConsoleStarts, WidthStarts, WholeStarts
<1>2. Inv /\ [ConsoleNext]_consoleVars => Inv'
  BY ConsoleSteady, WidthSteady, WholeSteady
<1>3. Inv => WholeMessages
  <2> SUFFICES ASSUME Inv, Quiet, ~scrolled
               PROVE  /\ \A r \in Rows : r < term.y => \E p \in Printers : RowHolds(r, p)
                      /\ term.x = 0 /\ term.length[term.y] = 0
                      /\ ScreenIsText(term)
    BY DEF WholeMessages
  <2>1. L.pc = "cli"
    BY DEF Quiet, ConsoleInv, ConsoleTypeOK, L
  <2>2. /\ L.enabled /\ term.x = 0 /\ term.length[term.y] = 0 /\ RowsWritten
        /\ \A x \in Cols, y \in Rows :
             term.screen[<<x, y>>] = IF x < term.length[y] THEN Ink(term.text[y][x]) ELSE {}
    <3> HIDE DEF L
    <3> QED
      BY <2>1, WholeSoFar DEF Drawing
  <2> QED
    BY <2>2 DEF RowsWritten, ScreenIsText
<1> HIDE DEF Inv
<1> QED
  BY <1>1, <1>2, <1>3, PTL DEF ConsoleSpec
=============================================================================
