---------------------------- MODULE LauncherFee ----------------------------
(***************************************************************************)
(* What get_icp_platform_fee of the launcher makes of a price: a band of   *)
(* one percent either side of the fee, out of which it charges by the      *)
(* allowance it found.  What it charges need not leave the allowance the   *)
(* ledger's own fee, which transfer_from takes as well (itoken.rs passes   *)
(* no fee, so the ledger's applies).                                       *)
(***************************************************************************)
EXTENDS Integers

LedgerFee == 10000

MaxFee(fee) == fee + fee \div 100
MinFee(fee) == fee - fee \div 100

ChargedFee(allowed, fee) ==
    IF allowed > MaxFee(fee) THEN MaxFee(fee)
    ELSE IF allowed > fee THEN fee ELSE MinFee(fee)

=============================================================================
