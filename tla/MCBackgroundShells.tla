------------------------- MODULE MCBackgroundShells -------------------------
(* A small instance of BackgroundShells for TLC. *)
EXTENDS BackgroundShells, TLC
=============================================================================
