--------------------------- MODULE MCFomoComments ---------------------------
(***************************************************************************)
(* A small instance of FomoComments for TLC: all its constants are given   *)
(* in FomoComments.cfg.                                                    *)
(***************************************************************************)
EXTENDS FomoComments

=============================================================================
