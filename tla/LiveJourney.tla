----------------------------- MODULE LiveJourney -----------------------------
(***************************************************************************)
(* Live.Journey (live.go): realtime applied to a planned journey, leg by   *)
(* leg, and then to the connections between its services, which can be     *)
(* missed although no leg says so.                                         *)
(***************************************************************************)
EXTENDS LiveStatus, Totals, FiniteSets

CONSTANTS
  Journeys,   (* Planned journeys: legs and the time each change needs.    *)
  Snapshots   (* What Live.byTrip may be.                                  *)

(* A planned leg, at either end of which realtime is asked for.             *)
PlannedLegs ==
  [walk : BOOLEAN, trip : Trips,
   from : StopIds \cup {NoStop}, fromSeq : Nat, depart : Int,
   to : StopIds \cup {NoStop}, toSeq : Nat, arrive : Int,
   alts : Seq([trip : Trips, fromSeq : Nat, toSeq : Nat])]

ASSUME JourneysAssumption ==
  /\ Journeys \subseteq [legs : Seq(PlannedLegs), needed : Seq(Int)]
  /\ \A s \in Snapshots : \A t \in DOMAIN s : s[t] \in TripUpdates

VARIABLES
  snapshot,   (* The snapshot the journey is joined with.                  *)
  journey,    (* The planned journey.                                      *)
  live,       (* The legs joined so far.                                   *)
  status,     (* LiveJourney.Status.                                       *)
  ride,       (* The last service whose onward connection is to be tested. *)
  tight,      (* LiveJourney.TightTransfers.                               *)
  broken,     (* LiveJourney.BrokenTransfer.                               *)
  phase       (* What is being done.                                       *)

journeyVars == <<snapshot, journey, live, status, ride, tight, broken, phase>>

legs == journey.legs

JourneyInit ==
  /\ snapshot \in Snapshots
  /\ journey \in Journeys
  /\ live = <<>>
  /\ status = "unknown"
  /\ ride = 0
  /\ tight = <<>>
  /\ broken = FALSE
  /\ phase = "legs"

-----------------------------------------------------------------------------
(* The legs *)

NextLeg == legs[Len(live) + 1]

LiveLeg(walk, st, delay, depart, arrive) ==
  [walk |-> walk, status |-> st, delay |-> delay, depart |-> depart, arrive |-> arrive]

(* Mutant of JoinWalk: the walk stays where it was planned.                 *)
JoinWalkAsPlanned ==
  /\ phase = "legs" /\ Len(live) < Len(legs)
  /\ NextLeg.walk
  /\ live' = Append(live, LiveLeg(TRUE, "unknown", 0, NextLeg.depart, NextLeg.arrive))
  /\ UNCHANGED <<snapshot, journey, status, ride, tight, broken, phase>>

(* A walk has no service behind it, but begins when the leg before it ends. *)
JoinWalk ==
  /\ phase = "legs" /\ Len(live) < Len(legs)
  /\ NextLeg.walk
  /\ LET begin == IF live = <<>> THEN NextLeg.depart ELSE live[Len(live)].arrive IN
       live' = Append(live, LiveLeg(TRUE, "unknown", 0,
                                    begin, begin + (NextLeg.arrive - NextLeg.depart)))
  /\ UNCHANGED <<snapshot, journey, status, ride, tight, broken, phase>>

(* Either end of a leg as a departure of its own, DepartSec left at zero.   *)
FromEnd(leg) ==
  [trip |-> leg.trip, stop |-> leg.from, seq |-> leg.fromSeq,
   depart |-> leg.depart, departSec |-> 0,
   alts |-> [i \in DOMAIN leg.alts |->
               [trip |-> leg.alts[i].trip, seq |-> leg.alts[i].fromSeq]]]
ToEnd(leg) ==
  [trip |-> leg.trip, stop |-> leg.to, seq |-> leg.toSeq,
   depart |-> leg.arrive, departSec |-> 0,
   alts |-> [i \in DOMAIN leg.alts |->
               [trip |-> leg.alts[i].trip, seq |-> leg.alts[i].toSeq]]]

Worst(a, b) == IF Worse(a, b) THEN a ELSE b

JoinRide ==
  /\ phase = "legs" /\ Len(live) < Len(legs)
  /\ ~NextLeg.walk
  /\ LET dep == Departure(snapshot, FromEnd(NextLeg))
         arr == Departure(snapshot, ToEnd(NextLeg))
         st  == Worst(arr.status, dep.status)
     IN
       /\ live' = Append(live, LiveLeg(FALSE, st,
                           IF Known(arr.status) THEN arr.delay ELSE dep.delay,
                           dep.estimated, arr.estimated))
       /\ status' = Worst(st, status)
  /\ UNCHANGED <<snapshot, journey, ride, tight, broken, phase>>

-----------------------------------------------------------------------------
(* The connections *)

RidesAfter(i) == {k \in DOMAIN live : k > i /\ ~live[k].walk}

(* Every leg is joined, and the first service found.                        *)
Close ==
  /\ phase = "legs" /\ Len(live) = Len(legs)
  /\ IF RidesAfter(0) = {}
       THEN phase' = "done" /\ UNCHANGED ride
       ELSE phase' = "changes" /\ ride' = FirstOf(RidesAfter(0))
  /\ UNCHANGED <<snapshot, journey, live, status, tight, broken>>

(* The walks between two services, the crossing planning priced, and what   *)
(* they leave of the gap between them.                                      *)
OnFoot(prev, next) ==
  TotalOf([n \in 1 .. next - 1 - prev |-> live[prev + n].arrive - live[prev + n].depart])

Crossing(k) == IF k \in DOMAIN journey.needed THEN journey.needed[k] ELSE 0

(* Mutant of Slack: the crossing is forgotten.                              *)
SlackOnFootOnly(prev, next, k) ==
  live[next].depart - live[prev].arrive - OnFoot(prev, next)

Slack(prev, next, k) ==
  live[next].depart - live[prev].arrive - OnFoot(prev, next) - Crossing(k)

(* The connection from one service to the next is tested again.             *)
Connect ==
  /\ phase = "changes" /\ RidesAfter(ride) # {}
  /\ LET next  == FirstOf(RidesAfter(ride))
         slack == Slack(ride, next, Len(tight) + 1)
     IN
       /\ tight' = Append(tight, slack)
       /\ broken' = (broken \/ (/\ slack < 0
                                /\ Known(live[ride].status) /\ Known(live[next].status)))
       /\ ride' = next
  /\ UNCHANGED <<snapshot, journey, live, status, phase>>

Finish ==
  /\ phase = "changes" /\ RidesAfter(ride) = {}
  /\ phase' = "done"
  /\ UNCHANGED <<snapshot, journey, live, status, ride, tight, broken>>

JourneyNext == JoinWalk \/ JoinRide \/ Close \/ Connect \/ Finish

JourneySpec == JourneyInit /\ [][JourneyNext]_journeyVars

-----------------------------------------------------------------------------

JourneyTypeOK ==
  /\ snapshot \in Snapshots /\ journey \in Journeys
  /\ \A i \in DOMAIN live : live[i].status \in Statuses /\ live[i].walk = legs[i].walk
  /\ Len(live) <= Len(legs)
  /\ status \in Statuses
  /\ ride \in 0 .. Len(live)
  /\ \A k \in DOMAIN tight : tight[k] \in Int
  /\ broken \in BOOLEAN
  /\ phase \in {"legs", "changes", "done"}

(* The services of the journey, and what is known of either end of each.    *)
RidesOf == {i \in DOMAIN legs : ~legs[i].walk}
EndStatuses ==
  UNION {{Departure(snapshot, FromEnd(legs[i])).status,
          Departure(snapshot, ToEnd(legs[i])).status} : i \in RidesOf}

(***************************************************************************)
(* live.go:378: one cancelled leg makes a cancelled journey, one skipped   *)
(* call a journey that cannot be made as planned, and a late leg a late    *)
(* journey, whichever end of whichever leg says it; and a journey is       *)
(* unknown only if nothing is known of any part of it.                     *)
(***************************************************************************)
StatusIsWorst ==
  phase = "done" =>
    LET says(st) == st \in EndStatuses IN
    /\ says("canceled") => status = "canceled"
    /\ says("skipped") /\ ~says("canceled") => status = "skipped"
    /\ says("late") /\ ~says("canceled") /\ ~says("skipped") => status = "late"
    /\ status = "unknown" <=> EndStatuses \subseteq {"unknown"}

(* The change after the k-th service, and when a passenger who follows the  *)
(* journey as it now runs stands at the platform of the next.               *)
Change(k) == CHOOSE i \in RidesOf : Cardinality({j \in RidesOf : j <= i}) = k
AtPlatform(k) == live[Change(k + 1) - 1].arrive + Crossing(k)

(***************************************************************************)
(* live.go:459: what is reported as left of a connection is what is left   *)
(* to a passenger who rides, walks and crosses as the journey says: a      *)
(* delay moves the walk that follows, and the walk and the crossing are    *)
(* each counted once.                                                      *)
(***************************************************************************)
SlackIsSpareTime ==
  phase = "done" =>
    /\ Len(tight) = Cardinality(RidesOf) - 1 \/ RidesOf = {}
    /\ \A k \in DOMAIN tight : tight[k] = live[Change(k + 1)].depart - AtPlatform(k)

(***************************************************************************)
(* live.go:478: a connection a delay has eaten is never reported as        *)
(* workable when both services are covered, and a journey is reported      *)
(* broken only for a service that leaves before the passenger is there: a  *)
(* connection that leaves nothing to spare is still makeable, as           *)
(* live_test.go:600 wants it.                                              *)
(***************************************************************************)
MissedIsBroken ==
  phase = "done" =>
    (broken <=> \E k \in 1 .. Cardinality(RidesOf) - 1 :
                  /\ AtPlatform(k) > live[Change(k + 1)].depart
                  /\ Known(live[Change(k)].status)
                  /\ Known(live[Change(k + 1)].status))

-----------------------------------------------------------------------------
(* What comments of live.go say, and the code does not do *)

(***************************************************************************)
(* live.go:386: a journey is broken when one of its services now arrives   *)
(* at or after the next leaves.  The code wants it to arrive after.        *)
(***************************************************************************)
AtOrAfterIsBroken ==
  phase = "done" =>
    ((\E k \in 1 .. Cardinality(RidesOf) - 1 :
        /\ live[Change(k)].arrive >= live[Change(k + 1)].depart
        /\ Known(live[Change(k)].status) /\ Known(live[Change(k + 1)].status))
     => broken)

(***************************************************************************)
(* live.go:424: both ends of a leg get their own prediction, so an arrival *)
(* the trip's update predicts for the leg's service day is passed on.  It  *)
(* is not where the service runs past midnight.                            *)
(***************************************************************************)
BothEndsPredicted ==
  phase = "done" =>
    \A i \in {k \in RidesOf : legs[k].trip \in DOMAIN snapshot} :
      LET tu == snapshot[legs[i].trip] IN
      \A s \in DOMAIN tu.stops :
        /\ tu.date = legs[i].depart \div DayLength /\ ~tu.canceled
        /\ tu.stops[s].seq = legs[i].toSeq /\ ~tu.stops[s].skipped
        /\ tu.stops[s].arrival.set /\ ~tu.stops[s].departure.set
        => live[i].arrive = legs[i].arrive + tu.stops[s].arrival.delay
=============================================================================
