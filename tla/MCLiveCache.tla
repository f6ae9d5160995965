---------------------------- MODULE MCLiveCache ----------------------------
(* LiveCache with two callers and the trip updates of two modes.            *)
EXTENDS LiveCache

CONSTANTS c1, c2, trainTrips, busTrips

MCCallers == {c1, c2}
MCFeeds   == {trainTrips, busTrips}
=============================================================================
