------------------------- MODULE MCLauncherProgress -------------------------
(***************************************************************************)
(* Small instances of LauncherProgress for TLC.                            *)
(***************************************************************************)
EXTENDS LauncherProgress, TLC

\* Half of the 5000 USD, and more than all of it: progress 5000, and 12000 cut off.
MCFewCaps == {2500, 6000}

\* No market cap (an oracle error), half of the 5000 USD, and exactly all of it.
MCRunCaps == {0, 2500, 5000}

\* Both DAOs.
MCBothDaos == {[sneed |-> TRUE, dogmi |-> TRUE]}

\* Every choice of DAOs.
MCDaoLocks == [sneed : BOOLEAN, dogmi : BOOLEAN]

RunSymmetry == Permutations(Runs)

=============================================================================
