----------------------------- MODULE MCTerminal -----------------------------
(***************************************************************************)
(* Instances of Terminal for TLC: three rows (a first, a middle and a last *)
(* one) of two characters, two characters to tell rows apart.              *)
(***************************************************************************)
EXTENDS Terminal

MCGlyphs == {"a", "b"}
=============================================================================
