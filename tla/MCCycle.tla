------------------------------ MODULE MCCycle ------------------------------
(***************************************************************************)
(* Instances of Cycle: two opportunities whose best candidates act on one   *)
(* menu item.  A ranking may have a flagged or a useless candidate on top,  *)
(* and the first opportunity may be ranked again with another payload.      *)
(***************************************************************************)
EXTENDS Cycle, TLC

CONSTANTS r1, r2, c1, o1, o2, burger, beef

Candidate(target, payload) ==
    [target |-> target, payload |-> payload, flagged |-> FALSE, viable |-> TRUE]
FlaggedFirst(s) == <<[s EXCEPT !.flagged = TRUE, !.payload = 2], s>>

TwoOpportunities == {<<o1, o2>>}
CompetingRankings ==
    (o1 :> {FlaggedFirst(Candidate(burger, 1)), <<Candidate(burger, 2)>>}) @@
    (o2 :> {<<[Candidate(beef, 1) EXCEPT !.viable = FALSE], Candidate(burger, 1)>>})

Symmetry == Permutations({r1, r2})
=============================================================================
