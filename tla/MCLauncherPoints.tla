-------------------------- MODULE MCLauncherPoints --------------------------
(***************************************************************************)
(* Small instances of LauncherPoints for TLC.                              *)
(***************************************************************************)
EXTENDS LauncherPoints, TLC

\* A top-up below the minimum of 10 points and one at it.
MCTopupAmounts == {9, 10}

\* Less than the two edits an airdrop could pay for.
MCAirdropAmounts == {3}

\* 10 points at 10 USD per ICP are quoted 10,010,000 e8s.
MCPrices == {10}

\* Refused by the quote; accepted by the quote although the ledger's own fee is
\* not covered; the margin the frontend approves (buyToken: 1.3 times).
MCAllowances == {9909899, 9915000, 13000000}

\* Enough for one charge and its ledger fee, not for two.
MCInitialBalance == 20000000

SlotSymmetry == Permutations(Topups) \cup Permutations(Edits)

=============================================================================
