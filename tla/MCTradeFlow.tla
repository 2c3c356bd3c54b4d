----------------------------- MODULE MCTradeFlow -----------------------------
(***************************************************************************)
(* A small instance of TradeFlow for TLC: all its constants are given in   *)
(* TradeFlow.cfg.                                                          *)
(***************************************************************************)
EXTENDS TradeFlow

=============================================================================
