----------------------------- MODULE MCConsole ------------------------------
(***************************************************************************)
(* Instances of Console for TLC: processA and processB with messages of    *)
(* one and two characters and a newline, on a terminal of four columns.    *)
(***************************************************************************)
EXTENDS Console

MCGlyphs == {"a", "b"}
MCPrinters == {1, 2}
MCMessages == [p \in MCPrinters |-> IF p = 1 THEN <<"a", Newline>>
                                    ELSE <<"b", "b", Newline>>]

\* What the theorems ask of the messages.
ASSUME MCConsoleAssumption == MessagesFit
=============================================================================
