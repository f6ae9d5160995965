----------------------------- MODULE MCOneChange -----------------------------
(* OneChange between two roadside stops by way of a station of two          *)
(* platforms and a bus stop outside it: trains to the first platform, one   *)
(* of which goes on to the destination, a bus to the stop, and rides on     *)
(* from the second platform and from the stop.                              *)
EXTENDS LegCalls

CONSTANTS o, x, x1, x2, b, y, orphan, anywhere,
          nameO, nameX, nameP, nameB, nameY,
          daily, alternate, slow, fast, bus, on, onLate, onBus, back, line

MCStops == {o, x, x1, x2, b, y}
MCParent == [s \in MCStops |-> IF s \in {x1, x2} THEN x ELSE orphan]
MCNameOf == o :> nameO @@ x :> nameX @@ x1 :> nameP @@ x2 :> nameP @@ b :> nameB @@ y :> nameY
MCPlace == o :> <<0, 0>> @@ x :> <<90, 0>> @@ x1 :> <<93, 0>> @@ x2 :> <<89, 0>>
             @@ b :> <<90, 5>> @@ y :> <<200, 0>>
MCMetres == [ab \in MCStops \X MCStops |-> Apart(ab[1], ab[2], 1) + Apart(ab[1], ab[2], 2)]

MCMidnight == [n \in -2 .. 4 |-> 100 * n]
MCUnknown == -1

(* A train that goes through to y, one that may overtake it, a bus; rides   *)
(* on from the other platform, soon and late, and from the bus stop; and a  *)
(* train the other way.  They leave `off` later: before midnight and past   *)
(* it, or past the next midnight.                                          *)
Trips(arrFast, depOn, arrOn, depBus, sOn, off) ==
  LET At(s, t) == [stop |-> s, seq |-> t, arr |-> off + t, dep |-> off + t]
      Trip(s, calls) == [service |-> s, route |-> line, calls |-> calls]
  IN  slow   :> Trip(daily, <<At(o, 2), At(x1, 7), At(y, 24)>>) @@
      fast   :> Trip(daily, <<At(o, 3), At(x1, arrFast)>>) @@
      bus    :> Trip(daily, <<At(o, 1), At(b, 6)>>) @@
      on     :> Trip(sOn,   <<At(x2, depOn), At(y, arrOn)>>) @@
      onLate :> Trip(daily, <<At(x2, 52), At(y, 56)>>) @@
      onBus  :> Trip(daily, <<At(b, depBus), At(y, 18)>>) @@
      back   :> Trip(daily, <<At(y, 4), At(x2, 12), At(o, 20)>>)

Every(days) == [days |-> days, start |-> -1, end |-> 3]
Feed(ts, which) ==
  [trips |-> [t \in DOMAIN ts \cap which |-> ts[t]],
   calendar |-> daily :> Every({0, 1}) @@ alternate :> Every({1}), exceptions |-> {}]

Full == {slow, fast, bus, on, onLate, onBus}
Tables(which, off) ==
  {Feed(Trips(arrFast, depOn, arrOn, depBus, sOn, off), which) :
     arrFast \in {5, 8}, depOn \in {8, 10}, arrOn \in {14, 17}, depBus \in {7, 11},
     sOn \in {daily, alternate}}
Some(which, off) ==
  {Feed(Trips(8, depOn, 14, 7, daily, off), which) : depOn \in {8, 10}}

Plain == [request |-> <<>>, policy |-> <<>>, published |-> {}, pathways |-> {}]
Path(a, c, both, t) == [from |-> a, to |-> c, bidir |-> both, seconds |-> t]
Published(a, c, type, min) == [from |-> a, to |-> c, type |-> type, min |-> min]
RuleSets ==
  { Plain,
    [Plain EXCEPT !.request = <<x2, x1>> :> 1],
    [Plain EXCEPT !.published = {Published(x1, x2, 2, 4), Published(x1, x2, 4, 0)}],
    [Plain EXCEPT !.published = {Published(x1, x2, 3, 0)}],
    [Plain EXCEPT !.pathways = {Path(x1, x, TRUE, 2), Path(x2, x, TRUE, 1)},
                  !.policy = LoadTransferTimes(<<[plats |-> 1 :> x1 @@ 2 :> x2,
                                                  star |-> 4, pairs |-> <<2, 1>> :> 3]>>)] }

Asking(after, within, maxWalk, buffer, via) ==
  [from |-> o, to |-> y, after |-> after, within |-> within,
   maxWalk |-> maxWalk, buffer |-> buffer, via |-> via]

Requests ==
  { Asking(1, 60, 0, 1, anywhere), Asking(1, 45, -1, 0, anywhere), Asking(0, 60, 20, 0, o),
    Asking(1, 60, 0, 0, x), Asking(1, 60, 0, 0, b) }

(* Stations of four places and a choice of the ways between them.           *)
Ways == {Path(x1, x2, TRUE, 4), Path(x1, x, FALSE, 3), Path(x, x2, TRUE, 1),
         Path(x1, b, TRUE, 1), Path(b, x, TRUE, 1), Path(b, x2, FALSE, 5)}

(* Two services of one route, of which one may be an express, or go another *)
(* way, or pass a station twice; and whose numbers may leave some out, so   *)
(* that the express passes for the fuller one.                             *)
Running(stops, gap) ==
  [service |-> daily, route |-> line,
   calls |-> [k \in DOMAIN stops |-> [stop |-> stops[k], seq |-> gap * k,
                                     arr |-> 3 * k, dep |-> 3 * k]]]
Lines ==
  {Feed(slow :> Running(ofSlow, 1) @@ fast :> Running(ofFast, gap), {slow, fast}) :
     gap \in {1, 5},
     ofSlow \in {<<o, x1, b, y>>, <<x1, o, b, y>>, <<o, b, x2, y>>, <<o, b, o, x1, y>>},
     ofFast \in {<<o, y>>, <<o, b>>, <<o, b, y>>, <<o, x1, y>>, <<b, x2, y>>}}

(* All timetables, before, across and after midnight; some, and parts of    *)
(* them, under all rules; and all graphs.                                  *)
MCSearches ==
  UNION {[feed : Tables(Full, off), rules : {Plain}, request : {Asking(off + 1, 60, 0, 0, anywhere)}] :
           off \in {0, 92, 100}}
    \cup [feed : Some(Full, 0) \cup Some({slow, on, back}, 0) \cup Some({bus, on, onLate}, 0),
          rules : RuleSets, request : Requests]
    \cup [feed : Some(Full, 0), rules : {Plain}, request : {Asking(101, 60, 0, 0, anywhere)}]
    \cup [feed : Some(Full, 100), rules : {Plain}, request : {Asking(101, 60, 0, 0, x)}]
    \cup [feed : Lines, rules : {Plain}, request : {Asking(1, 60, 0, 0, anywhere)}]
    \cup {[feed |-> Feed(<<>>, {}), rules |-> [Plain EXCEPT !.pathways = P],
           request |-> Asking(1, 60, 0, 0, anywhere)] : P \in SUBSET Ways}
=============================================================================
