-------------------------- MODULE MCToolFramework --------------------------
(***************************************************************************)
(* Instances of ToolFramework: one menu item, one ingredient, one shift.   *)
(* At the initial price 10 a move to 11 or 9 is LOW risk and autonomous,    *)
(* 13 is the critic's limit and needs approval, and is beyond it from 9;   *)
(* 0 is refused by the simulator.                                           *)
(***************************************************************************)
EXTENDS ToolFrameworkInv, TLC

CONSTANTS c1, c2, k1, k2, d1, d2, burger, beef, lunch

Price(n) == [type |-> "price_change", target |-> burger, ok |-> TRUE, new |-> n]

InitialValue == (burger :> 10) @@ (beef :> 10) @@ (lunch :> 3)

\* Every kind of request, with a well-formed and a malformed number.
AllRequests ==
    {Price(11), Price(13), Price(0),
     [type |-> "price_change", target |-> burger, ok |-> FALSE, new |-> 11],
     [type |-> "supplier_switch", target |-> beef, ok |-> TRUE, new |-> 12],
     [type |-> "menu_remove", target |-> burger, ok |-> TRUE, new |-> 0],
     [type |-> "menu_add", target |-> burger, ok |-> TRUE, new |-> 0],
     [type |-> "staffing_change", target |-> lunch, ok |-> TRUE, new |-> 2]}

\* Competing changes to one price.
PriceRequests == {Price(11), Price(9), Price(13)}
\* Approvable from 10, and autonomous once the price is 12 already.
RepeatedRequest == {Price(12)}

Symmetry == Permutations({c1, c2}) \cup Permutations({k1, k2}) \cup Permutations({d1, d2})
=============================================================================
