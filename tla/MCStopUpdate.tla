---------------------------- MODULE MCStopUpdate ----------------------------
(* StopUpdate over every trip update of up to three stops, in any order.    *)
EXTENDS StopUpdate

CONSTANTS s1, s2, t1

MCTrips == {t1}
MCStopIds == {s1, s2}
=============================================================================
