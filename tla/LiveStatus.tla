------------------------------ MODULE LiveStatus ------------------------------
(***************************************************************************)
(* What realtime says about one scheduled call (live.go): the join of a    *)
(* snapshot of trip updates onto a departure of the schedule.  There is no *)
(* state here; LiveBoard and LiveJourney are the operations that use it.   *)
(*                                                                         *)
(* Instants and durations are whole ticks.  A service date is the number   *)
(* of the day a trip belongs to; DayLength ticks make a day.               *)
(***************************************************************************)
EXTENDS Integers, Sequences

CONSTANTS
  Trips,      (* Trip ids; a walk has one that stands for none.            *)
  StopIds,    (* Stop ids.                                                 *)
  DayLength,  (* Ticks in a day.                                           *)
  Threshold,  (* Policy.OnTimeThreshold, in ticks.                         *)
  NoDate,     (* An update whose StartDate is the empty string.            *)
  NoTime,     (* An event with no absolute time.                           *)
  NoStop      (* A stop id left empty.                                     *)

ASSUME ClockAssumption ==
  /\ DayLength \in Nat \ {0} /\ Threshold \in Nat \ {0}
  /\ NoDate \notin Int /\ NoTime \notin Int

Unset == [set |-> FALSE, delay |-> 0, time |-> NoTime]

(* What realtime/decode.go decodes, and a call's other publications.        *)
StopEvents == [set : BOOLEAN, delay : Int, time : Int \cup {NoTime}]
StopUpdates ==
  [stop : StopIds \cup {NoStop}, seq : Nat, skipped : BOOLEAN,
   arrival : StopEvents, departure : StopEvents]
TripUpdates ==
  [trip : Trips, date : Int \cup {NoDate}, canceled : BOOLEAN, stops : Seq(StopUpdates)]

AltTrips == [trip : Trips, seq : Nat]

-----------------------------------------------------------------------------
(* stopUpdateFor: which prediction of a trip covers a call *)

FirstOf(S) == CHOOSE i \in S : \A k \in S : i <= k

(* The updates the loop returns at once: the call's own sequence, or its    *)
(* stop where the publisher omitted the sequence.                           *)
Own(stops, seq, stop) ==
  {i \in DOMAIN stops :
     \/ stops[i].seq = seq
     \/ stops[i].seq = 0 /\ stop # NoStop /\ stops[i].stop = stop}

(* The updates it falls back on, and the first of those nearest the call.   *)
Before(stops, seq) == {i \in DOMAIN stops : stops[i].seq < seq}
Nearest(stops, seq) ==
  FirstOf({i \in Before(stops, seq) :
             \A k \in Before(stops, seq) : stops[k].seq <= stops[i].seq})

(* An inherited prediction keeps the delays, and loses the absolute times   *)
(* and the skip flag.                                                       *)
Inherited(u, seq, stop) ==
  [stop |-> stop, seq |-> seq, skipped |-> FALSE,
   arrival   |-> [Unset EXCEPT !.set = u.arrival.set, !.delay = u.arrival.delay],
   departure |-> [Unset EXCEPT !.set = u.departure.set, !.delay = u.departure.delay]]

Covered(stops, seq, stop) == Own(stops, seq, stop) # {} \/ Before(stops, seq) # {}

StopUpdateFor(stops, seq, stop) ==
  IF Own(stops, seq, stop) # {}
    THEN stops[FirstOf(Own(stops, seq, stop))]
    ELSE Inherited(stops[Nearest(stops, seq)], seq, stop)

-----------------------------------------------------------------------------
(* Live.Departure *)

ServiceDay(d) == (d.depart - d.departSec) \div DayLength

(* Mutant of SameServiceDay: the calendar day of the departure.             *)
SameCalendarDay(startDate, d) == startDate = NoDate \/ startDate = d.depart \div DayLength

SameServiceDay(startDate, d) == startDate = NoDate \/ startDate = ServiceDay(d)

(* The trip ids a departure may be published under, each with its sequence, *)
(* in the order they are tried.                                             *)
Variants(d) == <<[trip |-> d.trip, seq |-> d.seq]>> \o d.alts

(* byTrip is the snapshot: a function from the trips it describes.          *)
Described(byTrip, d) == {i \in DOMAIN Variants(d) : Variants(d)[i].trip \in DOMAIN byTrip}

(* A joined departure: its status, its delay and when it is now expected.   *)
Joined(status, delay, estimated) ==
  [status |-> status, delay |-> delay, estimated |-> estimated]

Judged(d, delay) ==
  Joined(IF delay >= Threshold THEN "late"
         ELSE IF delay <= -Threshold THEN "early" ELSE "on_time",
         delay, d.depart + delay)

(* The departure prediction, or else the arrival one; the absolute time of  *)
(* either, or else its delay.                                               *)
Predicted(d, u) ==
  LET ev == IF u.departure.set THEN u.departure ELSE u.arrival IN
  IF ~ev.set THEN Joined("unknown", 0, d.depart)
  ELSE IF ev.time # NoTime THEN Judged(d, ev.time - d.depart)
  ELSE Judged(d, ev.delay)

Scheduled(d, status) == Joined(status, 0, d.depart)

(* A trip's update applied to the call with the given sequence.             *)
Applied(tu, seq, d) ==
  LET su == StopUpdateFor(tu.stops, seq, d.stop) IN
  IF ~SameServiceDay(tu.date, d) THEN Scheduled(d, "unknown")
  ELSE IF tu.canceled THEN Scheduled(d, "canceled")
  ELSE IF ~Covered(tu.stops, seq, d.stop) THEN Scheduled(d, "unknown")
  ELSE IF su.skipped THEN Scheduled(d, "skipped")
  ELSE Predicted(d, su)

(* Mutant of Departure: another variant's update, by this one's sequence.   *)
DepartureOwnSeq(byTrip, d) ==
  IF Described(byTrip, d) = {} THEN Scheduled(d, "unknown")
  ELSE Applied(byTrip[Variants(d)[FirstOf(Described(byTrip, d))].trip], d.seq, d)

(* The update of the first variant found, by that variant's sequence.       *)
Departure(byTrip, d) ==
  LET v == Variants(d)[FirstOf(Described(byTrip, d))] IN
  IF Described(byTrip, d) = {} THEN Scheduled(d, "unknown")
  ELSE Applied(byTrip[v.trip], v.seq, d)

Known(status) == status # "unknown"

Statuses == {"unknown", "on_time", "early", "late", "canceled", "skipped"}

(* Mutant of Severity: a skipped call outranks a cancelled trip.            *)
SeveritySkippedWorst(status) ==
  CASE status = "skipped"              -> 4
    [] status = "canceled"             -> 3
    [] status = "late"                 -> 2
    [] status \in {"early", "on_time"} -> 1
    [] status = "unknown"              -> 0

(* worse, for rolling several calls up into one verdict.                    *)
Severity(status) ==
  CASE status = "canceled"             -> 4
    [] status = "skipped"              -> 3
    [] status = "late"                 -> 2
    [] status \in {"early", "on_time"} -> 1
    [] status = "unknown"              -> 0

Worse(a, b) == Severity(a) > Severity(b)
=============================================================================
