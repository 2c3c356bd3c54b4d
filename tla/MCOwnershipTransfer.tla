------------------------ MODULE MCOwnershipTransfer ------------------------
(***************************************************************************)
(* A small instance of OwnershipTransfer for TLC.                          *)
(***************************************************************************)
EXTENDS OwnershipTransfer, TLC

CONSTANTS u1, u2, t1, t2, t3

MCUsers == {u1, u2}
MCTokens == {t1, t2, t3}

\* One developer with two projects, whose removals compete for the same funds.
MCDevOf == (t1 :> u1) @@ (t2 :> u1) @@ (t3 :> u2)

SlotSymmetry == Permutations(Slots)

=============================================================================
