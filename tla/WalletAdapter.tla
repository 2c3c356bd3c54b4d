---------------------------- MODULE WalletAdapter ----------------------------
(***************************************************************************)
(* The two parts of artemis-web3-adapter: the session of the user          *)
(* (WalletSession) and the batches of calls made with it (BatchTransact).  *)
(* A batch is given its canisters' actors once and reads nothing of the    *)
(* session, nor the session anything of a batch, so a behaviour exercises  *)
(* one of them while the other stays as it was created.                    *)
(***************************************************************************)
EXTENDS WalletSession, BatchTransact

VARIABLE part   \* the part this behaviour exercises

AdapterInit == part \in {"session", "batch"} /\ Init /\ BatchInit

AdapterNext ==
    /\ UNCHANGED part
    /\ \/ part = "session" /\ Next      /\ UNCHANGED batchVars
       \/ part = "batch"   /\ BatchNext /\ UNCHANGED vars

\* The fairness is that of the session: nothing is asked of a batch.
AdapterSpec == AdapterInit /\ [][AdapterNext]_<<vars, batchVars, part>> /\ Fairness

=============================================================================
