--------------------------- MODULE MCFomoCreation ---------------------------
(***************************************************************************)
(* A small instance of FomoCreation for TLC: all its constants are given   *)
(* in FomoCreation.cfg.                                                    *)
(***************************************************************************)
EXTENDS FomoCreation

=============================================================================
