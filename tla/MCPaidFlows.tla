----------------------------- MODULE MCPaidFlows -----------------------------
(***************************************************************************)
(* A small instance of PaidFlows for TLC: all its constants are given in   *)
(* PaidFlows.cfg.                                                          *)
(***************************************************************************)
EXTENDS PaidFlows

=============================================================================
