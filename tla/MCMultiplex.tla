---------------------------- MODULE MCMultiplex ------------------------------
(* Small instances of Multiplex for TLC. *)
EXTENDS Multiplex, TLC
=============================================================================
