-------------------------- MODULE MCFilterDominated --------------------------
(* FilterDominated over every list of up to three journeys, in any order.   *)
EXTENDS FilterDominated

MCTimes   == {1, 2, 4}
MCChanges == {0, 1}
=============================================================================
