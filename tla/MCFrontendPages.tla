--------------------------- MODULE MCFrontendPages ---------------------------
(***************************************************************************)
(* A small instance of FrontendPages for TLC: its constants are given in   *)
(* FrontendPages.cfg but for the functions and the lists, given here.      *)
(***************************************************************************)
EXTENDS FrontendPages

CONSTANTS RichToken, FirstAccount, FirstRow, SharedRow, LastRow, FirstUser,
          DryWell

\* Two units of one token, one of the others.
MCHoldings == [t \in HeldTokens |-> IF t = RichToken THEN 2 ELSE 1]

\* The accounts have different names.
MCFirstNames == [a \in Accounts |-> IF a = FirstAccount THEN "anna" ELSE "ben"]

\* Two lists with a row in common.
MCLists == {<<FirstRow, SharedRow>>, <<SharedRow, LastRow>>}

\* The rows of the second list are of one user.
MCCreator == [r \in Rows |-> IF r = FirstRow THEN FirstUser ELSE CHOOSE u \in Users : u # FirstUser]

\* Two canisters of one project are low on cycles.
MCLowCycles == [w \in Wells |-> IF w = DryWell THEN {"token", "pool"} ELSE {}]

=============================================================================
