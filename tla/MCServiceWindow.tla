--------------------------- MODULE MCServiceWindow ---------------------------
(* ServiceWindow for a station of two platforms, over a week of two days,   *)
(* one day of which is shorter: a train published twice, one to another     *)
(* place at the same time, a late one that passes midnight.                 *)
EXTENDS ServiceWindow

CONSTANTS p1, p2, q, weekday, weekend, special, line, there, elsewhere, run, run2, other, late

MCDay24 == 8
MCMidnight == [d \in -2 .. 6 |-> IF d <= 2 THEN 8 * d ELSE 8 * d - 1]   (* day 2 is short *)

Calling(s, h, calls) == [service |-> s, route |-> line, headsign |-> h, calls |-> calls]
At(p, t) == [stop |-> p, dep |-> t]

(* What each trip is published with: its service, where it goes and its times. *)
Trips ==
  {run :> Calling(weekday, there, <<At(q, 1), At(p1, t)>>) @@
   run2 :> Calling(s, there, <<At(p1, t)>>) @@
   other :> Calling(weekend, h, <<At(p, u)>>) @@
   late :> Calling(l, there, <<At(p1, v), At(p1, v + 1)>>) :
     t \in {2, 10}, s \in {weekday, special}, h \in {there, elsewhere}, p \in {p1, p2},
     u \in {2, 5}, l \in {weekday, special}, v \in {6, 10}}

Every(days, a, b) == [days |-> days, start |-> a, end |-> b]
Calendars ==
  { weekday :> Every({0, 1}, 1, 3) @@ weekend :> Every({1}, 1, 3),
    weekday :> Every({0}, 1, 2) @@ weekend :> Every({0, 1}, 2, 2) }
Except(s, d, a) == [service |-> s, date |-> d, added |-> a]
ExceptionTables ==
  { {}, {Except(special, 2, TRUE), Except(weekday, 2, FALSE)}, {Except(special, 4, TRUE)} }

MCFeeds ==
  [trips : Trips, calendar : Calendars, exceptions : ExceptionTables]
    \cup [trips : {<<>>}, calendar : {<<>>}, exceptions : {{}}]

MCRequests ==
  [ids : {{p1, p2}}, after : {1, 9, 14, 16, 17, 23, 26, 33}, within : {4}, limit : {1, 2, 4}]
    \cup [ids : {{p1, p2}}, after : {-7, 31, 40}, within : {4}, limit : {2}]
=============================================================================
