------------------------------ MODULE Console -------------------------------
(***************************************************************************)
(* Several processes printing to the one text terminal under preemption:   *)
(* processA and processB, each of which disables interrupts, prints a      *)
(* message and enables them again, in an endless loop.                     *)
(*                                                                         *)
(* The scheduler may take the processor from the running process whenever  *)
(* its interrupt flag is set.  The build is not optimised, so every access *)
(* to the terminal is a load or a store of its own: one step each here.    *)
(* scroll ends with sti, whatever the flag was at its start, so that the   *)
(* rest of a message that made the terminal scroll can be preempted.       *)
(***************************************************************************)
EXTENDS TerminalRows, Sequences

CONSTANTS
  Printers,       \* the processes that print
  Messages        \* what each of them prints in a round

\* A message is some characters to draw and a newline.
ASSUME ConsoleAssumption ==
  /\ Messages \in [Printers -> Seq(Char)]
  /\ \A p \in Printers : /\ Len(Messages[p]) > 0
                         /\ \A k \in 1 .. Len(Messages[p]) :
                              Messages[p][k] = Newline <=> k = Len(Messages[p])

VARIABLES
  running,        \* the process on the processor
  local,          \* the private state of each process
  scrolled        \* history: scroll has been called

consoleVars == <<term, running, local, scrolled>>

Labels == {"cli", "fetch", "newline", "width", "bottom", "rowload", "rowstore",
           "scroll", "reset", "drawx", "drawy", "draw", "putx", "puty", "put",
           "lenrow", "lenload", "lenstore", "colload", "colstore", "sti"}

\* pc; whether interrupts are enabled; the index in the message; two registers;
\* the first of which is the row in scroll.
Local == [pc : Labels, enabled : BOOLEAN, i : Nat, a : Nat, b : Nat]

ConsoleInit ==
  /\ term = EmptyTerminal
  /\ running \in Printers
  /\ local = [p \in Printers |-> [pc |-> "cli", enabled |-> TRUE, i |-> 1,
                                  a |-> 0, b |-> 0]]
  /\ scrolled = FALSE

Message == Messages[running]
Char1 == Message[local[running].i]      \* string[i]
A == local[running].a
B == local[running].b

At(label) == local[running].pc = label
Goto(label) == local' = [local EXCEPT ![running].pc = label]
Load(label, value) ==
  local' = [local EXCEPT ![running].pc = label, ![running].a = value]
LoadB(label, value) ==
  local' = [local EXCEPT ![running].pc = label, ![running].b = value]
OnlyLocal == UNCHANGED <<term, running, scrolled>>

\* A tick while the interrupt flag is set: another process is resumed.
Preempt ==
  /\ local[running].enabled
  /\ running' \in Printers \ {running}
  /\ UNCHANGED <<term, local, scrolled>>

------------------------------------------------------------------------------
\* The loop of processA and processB.
EnabledWhilePrinting_Always == TRUE     \* mutant: the cli is forgotten
EnabledWhilePrinting == FALSE

Begin ==
  /\ At("cli")
  /\ local' = [local EXCEPT ![running].pc = "fetch", ![running].i = 1,
                            ![running].enabled = EnabledWhilePrinting]
  /\ OnlyLocal

End ==
  /\ At("sti")
  /\ local' = [local EXCEPT ![running].pc = "cli", ![running].enabled = TRUE]
  /\ OnlyLocal

------------------------------------------------------------------------------
\* printcount.

FetchChar ==
  /\ At("fetch")
  /\ Goto(IF local[running].i > Len(Message) THEN "sti"
          ELSE IF Char1 = Newline THEN "bottom" ELSE "width")
  /\ OnlyLocal

TestWidth ==
  /\ At("width")
  /\ Goto(IF term.x = Width THEN "bottom" ELSE "drawx")
  /\ OnlyLocal

TestBottom ==
  /\ At("bottom")
  /\ IF BottomReached
       THEN local' = [local EXCEPT ![running].pc = "scroll", ![running].a = 0,
                                   ![running].enabled = FALSE]
       ELSE Goto("rowload")
  /\ scrolled' = (scrolled \/ BottomReached)
  /\ UNCHANGED <<term, running>>

\* terminal.y++
LoadRow == At("rowload") /\ Load("rowstore", term.y) /\ OnlyLocal

StoreRow ==
  /\ At("rowstore")
  /\ term' = [term EXCEPT !.y = A + 1]
  /\ Goto("reset")
  /\ UNCHANGED <<running, scrolled>>

\* One row of scroll, with interrupts disabled.
ScrollStep ==
  /\ At("scroll") /\ A < Height
  /\ term' = ScrollRow(term, A)
  /\ Load("scroll", A + 1)
  /\ UNCHANGED <<running, scrolled>>

\* The sti at its end.
ScrollReturn ==
  /\ At("scroll") /\ A = Height
  /\ local' = [local EXCEPT ![running].pc = "reset",
                            ![running].enabled = TRUE]
  /\ OnlyLocal

\* terminal.x = 0; a newline is then done, a character goes on to be drawn.
Reset ==
  /\ At("reset")
  /\ term' = [term EXCEPT !.x = 0]
  /\ IF Char1 = Newline
       THEN local' = [local EXCEPT ![running].pc = "fetch", ![running].i = @ + 1]
       ELSE Goto("drawx")
  /\ UNCHANGED <<running, scrolled>>

\* print_char(string[i], terminal.x, terminal.y).  DrawChar and StoreChar are the code
\* for columns inside a row: a column behind it is drawn into the next scan lines, and
\* stored over the length and into the next rows.  MessagesFit keeps it away (WithinWidth).
LoadDrawX == At("drawx") /\ Load("drawy", term.x) /\ OnlyLocal
LoadDrawY == At("drawy") /\ LoadB("draw", term.y) /\ OnlyLocal

DrawChar ==
  /\ At("draw")
  /\ term' = [term EXCEPT !.screen = Drawn(@, Char1, A, B)]
  /\ Goto("puty")
  /\ UNCHANGED <<running, scrolled>>

\* lines[terminal.y].characters[terminal.x] = string[i]
LoadPutY == At("puty") /\ LoadB("putx", term.y) /\ OnlyLocal
LoadPutX == At("putx") /\ Load("put", term.x) /\ OnlyLocal

StoreChar ==
  /\ At("put")
  /\ term' = [term EXCEPT !.text[B][A] = Char1]
  /\ Goto("lenrow")
  /\ UNCHANGED <<running, scrolled>>

\* lines[terminal.y].length++
LoadLengthRow == At("lenrow") /\ LoadB("lenload", term.y) /\ OnlyLocal
LoadLength == At("lenload") /\ Load("lenstore", term.length[B]) /\ OnlyLocal

StoreLength ==
  /\ At("lenstore")
  /\ term' = [term EXCEPT !.length[B] = A + 1]
  /\ Goto("colload")
  /\ UNCHANGED <<running, scrolled>>

\* terminal.x++, i++
LoadColumn == At("colload") /\ Load("colstore", term.x) /\ OnlyLocal

StoreColumn ==
  /\ At("colstore")
  /\ term' = [term EXCEPT !.x = A + 1]
  /\ local' = [local EXCEPT ![running].pc = "fetch", ![running].i = @ + 1]
  /\ UNCHANGED <<running, scrolled>>

ConsoleNext ==
  \/ Preempt
  \/ Begin
  \/ End
  \/ FetchChar
  \/ TestWidth
  \/ TestBottom
  \/ LoadRow
  \/ StoreRow
  \/ ScrollStep
  \/ ScrollReturn
  \/ Reset
  \/ LoadDrawX
  \/ LoadDrawY
  \/ DrawChar
  \/ LoadPutY
  \/ LoadPutX
  \/ StoreChar
  \/ LoadLengthRow
  \/ LoadLength
  \/ StoreLength
  \/ LoadColumn
  \/ StoreColumn

ConsoleSpec == ConsoleInit /\ [][ConsoleNext]_consoleVars

------------------------------------------------------------------------------
\* Types of the state.
ConsoleTypeOK ==
  /\ term \in Terminal
  /\ running \in Printers
  /\ local \in [Printers -> Local]
  /\ scrolled \in BOOLEAN

Quiet == \A p \in Printers : local[p].pc = "cli"

\* The characters of a message, and the room that messages need next to each other.
MessageWidth(p) == Len(Messages[p]) - 1
Rooms ==
  {room \in [SUBSET Printers -> 0 .. Width] :
     \A s \in SUBSET Printers : \A p \in Printers \ s :
       room[s] + MessageWidth(p) <= room[s \cup {p}]}

\* A row holds one message of every process: what is claimed of this module is claimed
\* of such messages.
MessagesFit == Rooms # {}

\* Let the messages fit.  Then, in spite of the preemption behind scroll, no character
\* is ever drawn, stored or counted beyond the end of a row: a process can only
\* find one message of each other process in front of its own.
WithinWidth ==
  /\ term.x <= Width
  /\ \A r \in Buffers : term.length[r] <= Width
  /\ \A p \in Printers : local[p].pc \in {"draw", "put"} => local[p].a < Width

\* Until the first scroll, whenever nobody is in the middle of a message, every row
\* that was begun holds one whole message of one process, and the screen shows it.
RowHolds(r, p) ==
  LET m == Messages[p]
  IN  /\ term.length[r] = Len(m) - 1
      /\ \A k \in 0 .. Len(m) - 2 : term.text[r][k] = m[k + 1]
WholeMessages ==
  Quiet /\ ~scrolled =>
           /\ \A r \in Rows : r < term.y => \E p \in Printers : RowHolds(r, p)
           /\ term.x = 0 /\ term.length[term.y] = 0
           /\ ScreenIsText(term)

\* The comments in scroll: "clear screen", "write characters to screen".  Whenever
\* nobody is in the middle of a message the screen shows what the rows hold.
QuietScreenShowsText == Quiet => ScreenIsText(term)

------------------------------------------------------------------------------
\* Inductive, for messages of any length.  Interrupts are enabled in the middle of a
\* message only behind a scroll, and then the cursor is in the last row for good:
\* nobody can be preempted between the load and the store of terminal.y.
Enabled(p) == local[p].enabled
Char1Labels == {"width", "drawx", "drawy", "draw", "puty", "putx", "put",
                "lenrow", "lenload", "lenstore", "colload", "colstore"}

Labelled(p) ==
  LET l == local[p]
      end == Len(Messages[p])
  IN  /\ l.i \in 1 .. end + 1 /\ l.b \in Rows
      /\ l.pc = "sti" => l.i = end + 1
      /\ l.pc \in Char1Labels => l.i < end
      /\ l.pc \in {"bottom", "rowload", "rowstore", "scroll", "reset"} => l.i <= end
      /\ l.pc = "cli" => l.enabled
      /\ l.pc = "scroll" => scrolled /\ ~l.enabled /\ l.a <= Height
      /\ l.pc \in {"rowload", "rowstore"} => ~scrolled /\ ~BottomReached
      /\ l.pc = "rowstore" => l.a = term.y

OneAtATime ==
  /\ \A p \in Printers : ~Enabled(p) => p = running
  /\ \A p \in Printers : Enabled(p) /\ local[p].pc # "cli" => scrolled
  /\ scrolled => BottomReached

ConsoleInv == ConsoleTypeOK /\ OneAtATime /\ \A p \in Printers : Labelled(p)

\* Inductive when the messages fit: no row is ever full, so that a scroll comes with
\* the newline, and all that is left of a message behind it is terminal.x = 0.  Those
\* who still owe it are Late: the cursor is behind their messages at most.
Room == CHOOSE room \in Rooms : TRUE
Late == {p \in Printers : Enabled(p) /\ local[p].pc = "reset"}

\* Characters of the message of p in front of the one at hand, or of a message that
\* has ended; characters counted in the row.
Before(p) == IF local[p].i <= MessageWidth(p) + 1 THEN local[p].i - 1 ELSE 0
Counted(p) ==
  CASE local[p].pc = "reset" -> 0
    [] local[p].pc = "scroll" /\ local[p].a = Height -> 0
    [] local[p].pc \in {"colload", "colstore"} -> local[p].i
    [] OTHER -> Before(p)

AtLastNewline(p) == local[p].i = MessageWidth(p) + 1
RowInOrder ==
  IF Enabled(running)
    THEN term.x <= Room[Late] /\ term.length[term.y] = 0
    ELSE /\ term.x <= Room[Late] + Before(running)
         /\ term.length[term.y] = Counted(running)

RegistersInOrder ==
  LET l == local[running]
  IN  ~l.enabled =>
        /\ l.pc \in {"bottom", "rowload", "rowstore", "scroll", "reset"} => AtLastNewline(running)
        /\ l.pc \in {"drawy", "draw", "put", "colstore"} => l.a = term.x
        /\ l.pc \in {"draw", "putx", "put", "lenload", "lenstore"} => l.b = term.y
        /\ l.pc = "lenstore" => l.a = term.length[term.y]

WidthInv ==
  /\ \A p \in Printers : Enabled(p) =>
       \/ local[p].pc \in {"cli", "sti"}
       \/ (local[p].pc = "reset" /\ AtLastNewline(p))
       \/ (local[p].pc = "fetch" /\ local[p].i = MessageWidth(p) + 2)
  /\ \A r \in Buffers : r > term.y => term.length[r] = 0
  /\ RowInOrder /\ RegistersInOrder
  /\ WithinWidth

\* And until the first scroll, what is in the rows and on the screen at each label.
MessageSoFar ==
  LET l == local[running]
      m == Messages[running]
      stored == IF l.pc \in {"lenrow", "lenload", "lenstore"} THEN l.i ELSE Counted(running)
  IN  ~l.enabled => /\ term.x = Before(running)
                    /\ \A k \in 0 .. stored - 1 : term.text[term.y][k] = m[k + 1]

Drawing == {"puty", "putx", "put", "lenrow", "lenload", "lenstore"}
ScreenSoFar ==
  \A x \in Cols, y \in Rows :
    term.screen[<<x, y>>] =
      IF x < term.length[y] THEN Ink(term.text[y][x])
      ELSE IF /\ local[running].pc \in Drawing
              /\ x = Before(running) /\ y = term.y
        THEN Ink(Messages[running][local[running].i])
      ELSE {}

WholeInv ==
  ~scrolled =>
    /\ \A p \in Printers : Enabled(p) => local[p].pc = "cli"
    /\ Enabled(running) => term.x = 0
    /\ \A r \in Rows : r < term.y => \E p \in Printers : RowHolds(r, p)
    /\ MessageSoFar /\ ScreenSoFar
=============================================================================
