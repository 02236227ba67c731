------------------------------- MODULE Paper --------------------------------
(***************************************************************************)
(* What printing promises: characters appear one behind the other on a     *)
(* window of at most Height rows of at most Width characters; a newline,   *)
(* or a character that finds its row full, begins a new row, and a window  *)
(* of Height rows loses its first one to make room.                        *)
(***************************************************************************)
EXTENDS Naturals, Sequences

CONSTANTS Width, Height, Glyphs, Newline, None

VARIABLES
  window,         \* the visible rows, from the top
  char            \* the character being printed, None between two

vars == <<window, char>>

LastRow == window[Len(window)]

Init == window = << <<>> >> /\ char = None

Take(c) == char = None /\ char' = c /\ UNCHANGED window

Feed == window' = Append(IF Len(window) = Height THEN Tail(window) ELSE window, <<>>)

PrintNewline == char = Newline /\ Feed /\ char' = None

Wrap == char \in Glyphs /\ Len(LastRow) = Width /\ Feed /\ UNCHANGED char

PrintGlyph ==
  /\ char \in Glyphs /\ Len(LastRow) < Width
  /\ window' = [window EXCEPT ![Len(window)] = Append(@, char)]
  /\ char' = None

Next == (\E c \in Glyphs \cup {Newline} : Take(c)) \/ PrintNewline \/ Wrap \/ PrintGlyph

Spec == Init /\ [][Next]_vars
=============================================================================
