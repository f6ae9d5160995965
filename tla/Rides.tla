-------------------------------- MODULE Rides --------------------------------
(***************************************************************************)
(* The queries of plan.go about single services: who rides from one set of *)
(* stops to another in a window (directJourneys), and which stations are   *)
(* reached, or still serve the destination (stationsFrom, stationsServing).*)
(*                                                                         *)
(* A feed gives its trips a service and their calls [stop, seq, arr, dep]  *)
(* in the order of stop_sequence, which may leave numbers out; the times   *)
(* are counted from midnight of the service day.                           *)
(***************************************************************************)
EXTENDS ServiceDays, Stations

CONSTANTS
  RowLimit,      (* The rows a search for rides fetches: four hundred.     *)
  StationLimit   (* The stations a search for places to change fetches:    *)
                 (* sixty.                                                 *)

ASSUME RidesAssumption == RowLimit \in Nat /\ StationLimit \in Nat

(* A service calls in the direction it travels, and is nowhere before it    *)
(* has left.                                                                *)
IsTimetable(trips) ==
  /\ IsFiniteSet(DOMAIN trips)
  /\ \A t \in DOMAIN trips :
       /\ trips[t].calls \in Seq([stop : Stops, seq : Nat, arr : Int, dep : Int])
       /\ \A m, n \in DOMAIN trips[t].calls :
            m < n => /\ trips[t].calls[m].seq < trips[t].calls[n].seq
                     /\ trips[t].calls[m].dep <= trips[t].calls[n].arr

Service(feed, t) == feed.trips[t].service

CallsOf(feed, t) == DOMAIN feed.trips[t].calls

(* Mutant of Spans: the order in which a trip calls is not looked at.       *)
SpansBothWays(feed, t) == {s \in CallsOf(feed, t) \X CallsOf(feed, t) : s[1] # s[2]}

(* The pairs of calls of a trip, in the direction it travels.               *)
Spans(feed, t) == {s \in CallsOf(feed, t) \X CallsOf(feed, t) : s[1] < s[2]}

(* Every ride of a trip of the feed, were its service to run on day d.      *)
RidesOn(feed, d) ==
  UNION {{LET from == feed.trips[t].calls[span[1]]
              to   == feed.trips[t].calls[span[2]]
          IN  [trip |-> t, day |-> d, from |-> from.stop, to |-> to.stop,
               dep |-> from.dep, arr |-> to.arr,
               depart |-> Instant(d, from.dep), arrive |-> Instant(d, to.arr)] :
            span \in Spans(feed, t)} : t \in DOMAIN feed.trips}

(* The rows the query of one service day selects.                           *)
RowsOn(feed, from, to, after, within, d) ==
  LET fromSec == after - Midnight[d] IN
  {r \in RidesOn(feed, d) : /\ r.from \in from /\ r.to \in to
                            /\ r.dep \in fromSec .. fromSec + within}

(* What is asked of one service day: the rows are limited before those of   *)
(* services that do not run on it are dropped.                             *)
Asked(feed, from, to, after, within, d) ==
  LET table == RowsOn(feed, from, to, after, within, d)
      running == {r \in table : Service(feed, r.trip) \in ServiceIDsOn(feed, d)}
  IN
  {Among(running, rows) :
     rows \in OrderByLimit(table, [r \in table |-> r.dep], RowLimit)}

(* directJourneys: today's rides in the order they leave, then those of     *)
(* yesterday's services that run past midnight.                            *)
DirectJourneys(feed, from, to, after, within) ==
  {today \o yesterday : today \in Asked(feed, from, to, after, within, DayOf(after)),
                        yesterday \in Asked(feed, from, to, after, within, DayOf(after) - 1)}

-----------------------------------------------------------------------------

(* Today's services only: the window is not asked of yesterday's.           *)
TodaysRides(feed, after, within) ==
  LET d == DayOf(after) IN
  {r \in RidesOn(feed, d) : /\ Service(feed, r.trip) \in ServiceIDsOn(feed, d)
                            /\ r.depart \in after .. after + within}

(* stationsFrom: the stations reached, by how soon they are.                *)
StationsFrom(feed, from, after, within) ==
  LET rides == {r \in TodaysRides(feed, after, within) : r.from \in from}
      stations == {Root(r.to) : r \in rides}
      firstArr == [s \in stations |-> Min({r.arr : r \in {x \in rides : Root(x.to) = s}})]
  IN  OrderByLimit(stations, firstArr, StationLimit)

(* stationsServing: the stations the destination is reached from.           *)
StationsServing(feed, to, after, within) ==
  {Root(r.from) : r \in {x \in TodaysRides(feed, after, within) : x.to \in to}}
=============================================================================
