--------------------------- MODULE MCWalletAdapter ---------------------------
(***************************************************************************)
(* A small instance of WalletAdapter for TLC.  Plug is there, the other    *)
(* wallet is not detected; the pages call a ledger next to the launcher.   *)
(***************************************************************************)
EXTENDS WalletAdapter

\* Three steps, each giving the next its arguments.
MCChain == <<<<1>>, <<2>>, <<3>>>>

\* The batch of the adapter's README: a transfer gives the deposit its arguments.
MCReadme == <<<<1>>, <<2>>>>

=============================================================================
