---------------------------- MODULE MCLiveJourney ----------------------------
(* LiveJourney over the shapes the planner makes: one service, a change at  *)
(* a station, and a change with a walk in it; days of ten ticks.            *)
EXTENDS LiveJourney

CONSTANTS t1, t2, alt1, none, a, b, c, d

MCTrips == {t1, t2, alt1, none}
MCStopIds == {a, b, c, d}

Ride(t, f, fs, dep, to, ts, arr, alts) ==
  [walk |-> FALSE, trip |-> t, from |-> f, fromSeq |-> fs, depart |-> dep,
   to |-> to, toSeq |-> ts, arrive |-> arr, alts |-> alts]
Walk(f, dep, to, arr) ==
  [Ride(none, f, 0, dep, to, 0, arr, <<>>) EXCEPT !.walk = TRUE]

First  == Ride(t1, a, 1, 0, b, 3, 3, <<[trip |-> alt1, fromSeq |-> 2, toSeq |-> 5]>>)
Second == Ride(t2, b, 1, 5, d, 3, 8, <<>>)
Across == Ride(t2, c, 1, 6, d, 3, 8, <<>>)
Late   == Ride(t1, a, 1, 8, b, 3, 11, <<>>)

MCJourneys ==
  { [legs |-> <<First>>, needed |-> <<>>],
    [legs |-> <<First, Second>>, needed |-> <<2>>],
    [legs |-> <<First, Second>>, needed |-> <<0>>],
    [legs |-> <<First, Walk(b, 3, c, 4), Across>>, needed |-> <<1>>],
    [legs |-> <<Late>>, needed |-> <<>>] }

Ev(delay) == [Unset EXCEPT !.set = TRUE, !.delay = delay]
At(time)  == [Unset EXCEPT !.set = TRUE, !.time = time]
Dep(n, ev) == [stop |-> NoStop, seq |-> n, skipped |-> FALSE, arrival |-> Unset, departure |-> ev]
Arr(n, ev) == [stop |-> NoStop, seq |-> n, skipped |-> FALSE, arrival |-> ev, departure |-> Unset]

(* Leaving on time and arriving late; late throughout; late by two; early;  *)
(* an absolute time; a stop skipped at either end; nothing about the call.  *)
Stops ==
  { <<Dep(1, Ev(0)), Arr(3, Ev(4))>>, <<Dep(1, Ev(4))>>, <<Dep(1, Ev(2))>>,
    <<Arr(3, Ev(-2))>>, <<Dep(1, At(7)), Arr(3, At(9))>>,
    <<Dep(1, Ev(0)), [Arr(3, Unset) EXCEPT !.skipped = TRUE]>>,
    <<[Dep(1, Unset) EXCEPT !.skipped = TRUE], Arr(3, Ev(2))>>,
    <<Dep(9, Ev(3))>> }

UpdatesOf(t) ==
  [trip : {t}, date : {0}, canceled : {FALSE}, stops : Stops]
    \cup [trip : {t}, date : {0, 1}, canceled : {TRUE}, stops : {<<>>}]

(* Any of the trips may be missing, and the first may be published under    *)
(* its other id.                                                            *)
MCSnapshots ==
  UNION {{f \in [S -> UNION {UpdatesOf(t) : t \in S}] : \A t \in S : f[t].trip = t} :
           S \in {{}, {t1}, {t2}, {t1, t2}, {alt1}, {alt1, t2}}}
=============================================================================
