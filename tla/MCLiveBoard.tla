---------------------------- MODULE MCLiveBoard ----------------------------
(* LiveBoard with days of ten ticks, three trip ids and one platform.       *)
EXTENDS LiveBoard

CONSTANTS t1, t2, t3, here, earlier, line, otherLine

(* Events: late by a stated delay, exactly on time, late by a stated time,  *)
(* and early.                                                               *)
Late     == [Unset EXCEPT !.set = TRUE, !.delay = 2]
Punctual == [Unset EXCEPT !.set = TRUE]
AtSeven  == [Unset EXCEPT !.set = TRUE, !.time = 7]
Early    == [Unset EXCEPT !.set = TRUE, !.delay = -2]

Stop(s, n, ev) == [stop |-> s, seq |-> n, skipped |-> FALSE, arrival |-> Unset, departure |-> ev]
Stops ==
  { <<>>,
    <<Stop(here, 2, Late)>>,
    <<Stop(earlier, 1, Punctual), Stop(here, 3, AtSeven)>>,
    <<Stop(earlier, 1, AtSeven)>>,
    <<[Stop(here, 2, Unset) EXCEPT !.skipped = TRUE], Stop(here, 3, Early)>>,
    <<[Stop(here, 0, Unset) EXCEPT !.arrival = Early]>> }

MCTrips == {t1, t2, t3}
MCStopIds == {here, earlier}
MCRoutes == {line, otherLine}

MCUpdates ==
  [trip : {t1, t2, t3}, date : {0, 1}, canceled : {FALSE}, stops : Stops]
    \cup [trip : {t1, t2, t3}, date : {0, NoDate}, canceled : {TRUE}, stops : {<<>>}]

Row(t, n, at, sec, r, alts) ==
  [trip |-> t, seq |-> n, stop |-> here, depart |-> at, departSec |-> sec,
   route |-> r, alts |-> alts, altSecs |-> [k \in DOMAIN alts |-> sec]]
Alt(t, n) == [trip |-> t, seq |-> n]

(* One service under two ids and another that may be the same; three that   *)
(* may be; two lines at one time; a run that began before midnight, and the *)
(* same trip the next day; yesterday's late run folded with two of today's. *)
MCTimetables ==
  { <<Row(t1, 2, 5, 5, line, <<Alt(t2, 3)>>), Row(t3, 2, 5, 5, line, <<>>)>>,
    <<Row(t1, 2, 5, 5, line, <<>>), Row(t2, 3, 5, 5, line, <<>>), Row(t3, 2, 5, 5, line, <<>>)>>,
    <<Row(t1, 2, 5, 5, line, <<>>), Row(t2, 2, 5, 5, otherLine, <<>>)>>,
    <<Row(t1, 2, 12, 12, line, <<>>), Row(t1, 2, 15, 5, line, <<Alt(t2, 2), Alt(t3, 3)>>)>>,
    <<[Row(t1, 2, 12, 12, line, <<Alt(t2, 3), Alt(t3, 2)>>) EXCEPT !.altSecs = <<2, 2>>]>> }
=============================================================================
