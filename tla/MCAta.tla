-------------------------------- MODULE MCAta -------------------------------
(* Instances of Ata for TLC: addresses of four bits, and two that need five. *)
EXTENDS Ata

MCLbas == 0 .. 17
=============================================================================
