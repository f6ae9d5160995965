------------------------------ MODULE LiveBoard ------------------------------
(***************************************************************************)
(* A departure board with realtime on it (live.go): a snapshot is built    *)
(* from trip updates in the order their feeds arrive, the departures of    *)
(* the schedule are joined with it one by one, and the rows the schedule   *)
(* could not decide about are settled.  Then a new snapshot is built.      *)
(***************************************************************************)
EXTENDS LiveStatus, FiniteSets

CONSTANTS
  Routes,
  Updates,     (* Trip updates a feed may publish.                         *)
  Timetables,  (* Lists of departures the schedule may answer with.        *)
  MaxUpdates   (* Updates in one snapshot; a bound of the model only.      *)

ASSUME MaxUpdatesAssumption == MaxUpdates \in Nat

(* What a row of the schedule has; and when, after midnight of their own    *)
(* service day, its alternatives leave, which an AltTrip does not keep.     *)
Departures ==
  {d \in [trip : Trips, seq : Nat, stop : StopIds, depart : Int, departSec : Int,
          route : Routes, alts : Seq(AltTrips), altSecs : Seq(Int)] :
     Len(d.altSecs) = Len(d.alts)}

ASSUME InputsAssumption ==
  Updates \subseteq TripUpdates /\ Timetables \subseteq Seq(Departures)

VARIABLES
  published,   (* The updates decoded for this snapshot.                   *)
  byTrip,      (* Live.byTrip: the update kept for each trip id.           *)
  rows,        (* The departures to be shown.                              *)
  board,       (* The rows joined so far.                                  *)
  drop,        (* The rows that realtime decided against.                  *)
  stage        (* What is being done.                                      *)

vars == <<published, byTrip, rows, board, drop, stage>>

NoTrips == [t \in {} |-> 0]

Init ==
  /\ published = {}
  /\ byTrip = NoTrips
  /\ rows = <<>>
  /\ board = <<>>
  /\ drop = {}
  /\ stage = "building"

(* NewLive meets another update: the last for a trip id is the one kept.    *)
Decode(u) ==
  /\ stage = "building"
  /\ Cardinality(published) < MaxUpdates
  /\ published' = published \cup {u}
  /\ byTrip' = [t \in DOMAIN byTrip \cup {u.trip} |-> IF t = u.trip THEN u ELSE byTrip[t]]
  /\ UNCHANGED <<rows, board, drop, stage>>

(* A tool asks for departures with the snapshot as it now is.               *)
Ask(timetable) ==
  /\ stage = "building"
  /\ rows' = timetable
  /\ stage' = "joining"
  /\ UNCHANGED <<published, byTrip, board, drop>>

(* Live.Departures joins the next row, keeping the order.                   *)
Join ==
  /\ stage = "joining" /\ Len(board) < Len(rows)
  /\ board' = Append(board, Departure(byTrip, rows[Len(board) + 1]))
  /\ UNCHANGED <<published, byTrip, rows, drop, stage>>

-----------------------------------------------------------------------------
(* Live.Disambiguate *)

(* The rows that may be one service under several destinations.             *)
Group(i) ==
  {k \in DOMAIN rows :
     <<rows[k].stop, rows[k].depart, rows[k].route>> =
       <<rows[i].stop, rows[i].depart, rows[i].route>>}

KnownRows == {k \in DOMAIN board : Known(board[k].status)}

(* Mutant of Settles: how many rows are known is not asked, the last wins.  *)
SettlesOnLast(k, i) ==
  /\ k \in Group(i) \cap KnownRows
  /\ \A j \in Group(i) \cap KnownRows : j <= k

(* Row k is the only one of row i's group that has live data.               *)
Settles(k, i) == Group(i) \cap KnownRows = {k}

(* Every row is joined: those another row settles against are dropped.      *)
Disambiguate ==
  /\ stage = "joining" /\ Len(board) = Len(rows)
  /\ drop' = {i \in DOMAIN rows : \E k \in DOMAIN rows : k # i /\ Settles(k, i)}
  /\ stage' = "shown"
  /\ UNCHANGED <<published, byTrip, rows, board>>

(* A refresh builds a new snapshot rather than merging into this one.       *)
Refresh ==
  /\ stage = "shown"
  /\ published' = {}
  /\ byTrip' = NoTrips
  /\ rows' = <<>>
  /\ board' = <<>>
  /\ drop' = {}
  /\ stage' = "building"

Next ==
  \/ \E u \in Updates : Decode(u)
  \/ \E timetable \in Timetables : Ask(timetable)
  \/ Join \/ Disambiguate \/ Refresh

Spec == Init /\ [][Next]_vars

-----------------------------------------------------------------------------

TypeOK ==
  /\ published \subseteq Updates
  /\ \A t \in DOMAIN byTrip : byTrip[t] \in published /\ byTrip[t].trip = t
  /\ rows \in Timetables \cup {<<>>}
  /\ \A i \in DOMAIN board :
       /\ board[i].status \in Statuses
       /\ board[i].delay \in Int /\ board[i].estimated \in Int
  /\ Len(board) <= Len(rows) /\ drop \subseteq DOMAIN board
  /\ stage \in {"building", "joining", "shown"}

(* What the feeds published of a call, under any of its trip ids, for the   *)
(* service day the call belongs to.                                         *)
PublishedFor(d) ==
  {u \in published :
     /\ \E i \in DOMAIN Variants(d) : Variants(d)[i].trip = u.trip
     /\ u.date \in {NoDate, ServiceDay(d)}}

(* A prediction, a skip flag or a cancellation that bears on the call with  *)
(* the given sequence: its own, or an earlier call's.                       *)
Bears(u, seq) ==
  u.canceled \/ \E k \in DOMAIN u.stops :
                  /\ u.stops[k].seq <= seq
                  /\ \/ u.stops[k].skipped
                     \/ u.stops[k].arrival.set \/ u.stops[k].departure.set

(***************************************************************************)
(* live.go:3 and 217: nothing is claimed of a service that the feeds say   *)
(* nothing of, and today's predictions are never applied to another day's  *)
(* run of the same trip id, however the call was published and whichever   *)
(* order the updates arrived in.                                           *)
(***************************************************************************)
KnownIsPublished ==
  \A i \in KnownRows :
    \E u \in PublishedFor(rows[i]) : \E v \in DOMAIN Variants(rows[i]) :
      Variants(rows[i])[v].trip = u.trip /\ Bears(u, Variants(rows[i])[v].seq)

(* What survives, had deduplication kept the v-th publication of the same   *)
(* departure: its trip id, its sequence, and its time after midnight, which *)
(* tells its service day.                                                   *)
Secs(d) == <<d.departSec>> \o d.altSecs
Others(s, v) == [k \in 1 .. Len(s) - 1 |-> s[IF k < v THEN k ELSE k + 1]]
SurvivedBy(d, v) ==
  [d EXCEPT !.trip = Variants(d)[v].trip, !.seq = Variants(d)[v].seq,
            !.departSec = Secs(d)[v],
            !.alts = Others(Variants(d), v), !.altSecs = Others(Secs(d), v)]

(***************************************************************************)
(* live.go:253: realtime describes only one of the trip ids a service is   *)
(* published under, and what a passenger is told does not depend on which  *)
(* of them deduplication happened to keep, although the variants number    *)
(* their stops differently: which of those of one service day, that is.    *)
(***************************************************************************)
VariantBlind ==
  \A i \in DOMAIN board : Cardinality(Described(byTrip, rows[i])) <= 1 =>
    \A v \in DOMAIN Variants(rows[i]) :
      ServiceDay(SurvivedBy(rows[i], v)) = ServiceDay(rows[i]) =>
        Departure(byTrip, SurvivedBy(rows[i], v)) = board[i]

(***************************************************************************)
(* live.go:609: a row that has live data is never dropped, and a row is    *)
(* dropped only for one that is shown and could be the same service.       *)
(***************************************************************************)
NothingKnownIsDropped ==
  /\ drop \cap KnownRows = {}
  /\ \A i \in drop : \E k \in KnownRows \ drop :
       /\ rows[k].route = rows[i].route
       /\ rows[k].stop = rows[i].stop /\ rows[k].depart = rows[i].depart

-----------------------------------------------------------------------------
(* What comments of live.go and query.go say, and the code does not do *)

(* live.go:352: an inherited prediction carries the earlier stop's delay    *)
(* forward, so a row is on time only if some update that bears on it states *)
(* a delay, or a time for the call itself.                                  *)
OnTimeIsStated ==
  \A i \in DOMAIN board : board[i].status = "on_time" =>
    \E u \in PublishedFor(rows[i]) : \E k \in DOMAIN u.stops :
      \/ u.stops[k].stop = rows[i].stop
      \/ \E ev \in {u.stops[k].arrival, u.stops[k].departure} : ev.set /\ ev.time = NoTime

(* query.go:373: the survivor keeps the others because realtime publishes   *)
(* under whichever variant it chooses, so it does not matter which of them  *)
(* survives.  It does where yesterday's 24:30 and today's 0:30 are folded:  *)
(* the survivor's day is taken for that of every variant.                   *)
SurvivorNeverMatters ==
  \A i \in DOMAIN board : Cardinality(Described(byTrip, rows[i])) <= 1 =>
    \A v \in DOMAIN Variants(rows[i]) : Departure(byTrip, SurvivedBy(rows[i], v)) = board[i]
=============================================================================
