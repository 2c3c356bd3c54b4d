---------------------------- MODULE PointsAccount ----------------------------
(***************************************************************************)
(* What the points economy promises, without calls, ledgers or history: a  *)
(* user is registered once, opens an account once, with the welcome points *)
(* and everything earned before, and can only spend what the account holds.*)
(***************************************************************************)
EXTENDS Integers

CONSTANTS
    Users,
    Welcome,        \* points every account opens with
    Grants,         \* the amounts that may be granted at a time
    Charges         \* the amounts that may be spent at a time

VARIABLES
    registered,     \* users with a profile
    opened,         \* users whose points can be spent
    earned,         \* points granted so far, the welcome points left out
    spent           \* points spent so far

vars == <<registered, opened, earned, spent>>

Init ==
    /\ registered = {}
    /\ opened = {}
    /\ earned = [u \in Users |-> 0]
    /\ spent = [u \in Users |-> 0]

Register(u) ==
    /\ registered' = registered \cup {u}
    /\ UNCHANGED <<opened, earned, spent>>

\* A grant; one that was paid for opens the account.
Earn(u, n) ==
    /\ u \in registered
    /\ earned' = [earned EXCEPT ![u] = @ + n]
    /\ \/ opened' = opened
       \/ opened' = opened \cup {u}
    /\ UNCHANGED <<registered, spent>>

Spend(u, n) ==
    /\ u \in opened
    /\ spent[u] + n <= Welcome + earned[u]
    /\ spent' = [spent EXCEPT ![u] = @ + n]
    /\ UNCHANGED <<registered, opened, earned>>

Next == \E u \in Users :
    \/ Register(u)
    \/ \E n \in Grants : Earn(u, n)
    \/ \E n \in Charges : Spend(u, n)

Spec == Init /\ [][Next]_vars

\* No account is overdrawn, and only an opened account has spent anything.
Solvent ==
    /\ opened \subseteq registered
    /\ \A u \in Users : /\ spent[u] <= Welcome + earned[u]
                        /\ u \notin opened => spent[u] = 0

=============================================================================
