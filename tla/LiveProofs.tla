------------------------------ MODULE LiveProofs ------------------------------
(***************************************************************************)
(* Realtime on scheduled calls, for every choice of updates, timetables,   *)
(* journeys, alerts and policy, and for snapshots of any size.  Of the     *)
(* departure board: what a row says was published of its service, the      *)
(* answer does not depend on which of a service's trip ids deduplication   *)
(* kept, and no row that realtime knows of is dropped.  Of stopUpdateFor:  *)
(* its loop finds what the definition in LiveStatus asks for, whatever the *)
(* order and the gaps of the sequences.  Of a journey: its status is the   *)
(* worst either end of any leg says, and its connections are reported as a *)
(* passenger finds them.  Of alerts: merging never writes over what the    *)
(* snapshot says, whoever merges at once.                                  *)
(***************************************************************************)
EXTENDS LiveBoard, StopUpdate, LiveJourney, AlertsMerge, ListFacts

-----------------------------------------------------------------------------
(* Choosing among updates *)

(* The first of some indices there are.                                     *)
LEMMA FirstIsLeast ==
  ASSUME NEW S \in SUBSET Nat, S # {}
  PROVE  FirstOf(S) \in S /\ \A k \in S : FirstOf(S) <= k
<1>1. PICK i \in S : \A k \in S : i <= k
  BY Least
<1> QED
  BY <1>1 DEF FirstOf

(* Where there is something before a call, one of them is the nearest.      *)
LEMMA NearestIsBefore ==
  ASSUME NEW stops \in Seq(StopUpdates), NEW seq \in Nat, Before(stops, seq) # {}
  PROVE  Nearest(stops, seq) \in Before(stops, seq)
<1> DEFINE Gaps == {seq - stops[i].seq : i \in Before(stops, seq)}
<1>1. \A i \in DOMAIN stops : stops[i].seq \in Nat
  <2>1. \A i \in DOMAIN stops : stops[i] \in StopUpdates
    OBVIOUS
  <2> QED
    BY <2>1 DEF StopUpdates
<1>2. Gaps \subseteq Nat /\ Gaps # {}
  BY <1>1 DEF Before
<1>3. PICK g \in Gaps : \A h \in Gaps : g <= h
  <2> HIDE DEF Gaps
  <2> QED
    BY <1>2, FirstIsLeast
<1>4. PICK i \in Before(stops, seq) : g = seq - stops[i].seq
  BY <1>3
<1>5. \A k \in Before(stops, seq) : stops[k].seq <= stops[i].seq
  <2> TAKE k \in Before(stops, seq)
  <2>1. seq - stops[k].seq \in Gaps
    OBVIOUS
  <2>2. g <= seq - stops[k].seq
    BY <1>3, <2>1
  <2> QED
    BY <1>1, <1>4, <2>2 DEF Before
<1> DEFINE Best == {j \in Before(stops, seq) :
                      \A k \in Before(stops, seq) : stops[k].seq <= stops[j].seq}
<1>6. Best # {} /\ Best \subseteq Nat
  BY <1>5 DEF Before
<1>7. FirstOf(Best) \in Best
  <2> HIDE DEF Best
  <2> QED
    BY <1>6, FirstIsLeast
<1> QED
  BY <1>7 DEF Nearest

-----------------------------------------------------------------------------
(* The snapshot and the rows *)

(* Every update kept is one that was published, under its own trip id.      *)
Kept == \A t \in DOMAIN byTrip : byTrip[t] \in published /\ byTrip[t].trip = t

(* The rows joined so far are the first of the rows, each with the snapshot *)
(* as it was when the board was asked for.                                  *)
JoinedSoFar ==
  /\ rows \in Seq(Departures)
  /\ board \in Seq({Departure(byTrip, rows[i]) : i \in DOMAIN rows})
  /\ Len(board) <= Len(rows)
  /\ \A i \in DOMAIN board : board[i] = Departure(byTrip, rows[i])
  /\ stage = "building" => board = <<>>

(* Nothing is dropped before everything is joined.                          *)
DropsLast == stage # "shown" => drop = {}

BoardInv ==
  /\ published \subseteq TripUpdates
  /\ Kept /\ JoinedSoFar /\ DropsLast /\ NothingKnownIsDropped

LEMMA BoardInit == Init => BoardInv
BY DEF Init, NoTrips, BoardInv, Kept, JoinedSoFar, DropsLast, NothingKnownIsDropped, KnownRows

(* The last update for a trip id replaces the one before it.                *)
LEMMA DecodeKeeps ==
  ASSUME BoardInv, NEW u \in Updates, Decode(u)
  PROVE  BoardInv'
<1>1. published' \subseteq TripUpdates
  BY InputsAssumption DEF BoardInv, Decode
<1>2. Kept'
  BY DEF BoardInv, Kept, Decode
<1>3. board = <<>> /\ board' = board /\ rows' = rows /\ drop' = drop /\ stage' = stage
  BY DEF BoardInv, JoinedSoFar, Decode
<1>4. JoinedSoFar'
  BY <1>3 DEF BoardInv, JoinedSoFar
<1>5. DropsLast' /\ NothingKnownIsDropped'
  BY <1>3 DEF BoardInv, DropsLast, NothingKnownIsDropped, KnownRows, Decode
<1> QED
  BY <1>1, <1>2, <1>4, <1>5 DEF BoardInv

(* A board is asked for: its rows are the schedule's.                       *)
LEMMA AskKeeps ==
  ASSUME BoardInv, NEW timetable \in Timetables, Ask(timetable)
  PROVE  BoardInv'
<1>1. /\ board = <<>> /\ board' = <<>> /\ drop = {} /\ drop' = {}
      /\ byTrip' = byTrip /\ published' = published /\ stage' = "joining"
      /\ rows' \in Seq(Departures)
  BY InputsAssumption DEF BoardInv, JoinedSoFar, DropsLast, Ask
<1>2. published' \subseteq TripUpdates /\ Kept'
  BY <1>1 DEF BoardInv, Kept
<1>3. JoinedSoFar'
  BY <1>1 DEF JoinedSoFar
<1>4. DropsLast' /\ NothingKnownIsDropped'
  BY <1>1 DEF DropsLast, NothingKnownIsDropped
<1> QED
  BY <1>2, <1>3, <1>4 DEF BoardInv

(* One row more is joined, with the snapshot and in its place.              *)
LEMMA JoinKeeps ==
  ASSUME BoardInv, Join
  PROVE  BoardInv'
<1> DEFINE Answers == {Departure(byTrip, rows[i]) : i \in DOMAIN rows}
           new == Departure(byTrip, rows[Len(board) + 1])
<1>1. /\ byTrip' = byTrip /\ published' = published /\ rows' = rows
      /\ drop' = drop /\ stage' = stage /\ stage = "joining"
      /\ board' = Append(board, new)
  BY DEF Join
<1>2. /\ rows \in Seq(Departures) /\ board \in Seq(Answers)
      /\ Len(board) < Len(rows)
      /\ \A i \in DOMAIN board : board[i] = Departure(byTrip, rows[i])
      /\ drop = {}
  BY DEF BoardInv, JoinedSoFar, DropsLast, Join
<1>3. new \in Answers
  BY <1>2
<1>4. /\ board' \in Seq(Answers) /\ Len(board') = Len(board) + 1
      /\ \A i \in DOMAIN board : board'[i] = board[i]
      /\ board'[Len(board) + 1] = new
      /\ DOMAIN board' = DOMAIN board \cup {Len(board) + 1}
  <2> HIDE DEF Answers, new
  <2> QED
    BY <1>1, <1>2, <1>3
<1>5. \A i \in DOMAIN board' : board'[i] = Departure(byTrip, rows[i])
  BY <1>2, <1>4
<1>6. Len(board') <= Len(rows)
  <2>1. Len(board) \in Nat /\ Len(rows) \in Nat
    BY <1>2
  <2> QED
    BY <1>2, <1>4, <2>1
<1>7. JoinedSoFar'
  BY <1>1, <1>2, <1>4, <1>5, <1>6 DEF JoinedSoFar
<1>8. published' \subseteq TripUpdates /\ Kept' /\ DropsLast' /\ NothingKnownIsDropped'
  BY <1>1, <1>2 DEF BoardInv, Kept, DropsLast, NothingKnownIsDropped
<1> QED
  BY <1>7, <1>8 DEF BoardInv

(* A row another settles against is not known itself, and the one that      *)
(* settles is the only known one of its group, so it is not dropped.        *)
LEMMA DisambiguateKeeps ==
  ASSUME BoardInv, Disambiguate
  PROVE  BoardInv'
<1>1. /\ byTrip' = byTrip /\ published' = published /\ rows' = rows
      /\ board' = board /\ stage' = "shown"
      /\ drop' = {i \in DOMAIN rows : \E k \in DOMAIN rows : k # i /\ Settles(k, i)}
  BY DEF Disambiguate
<1>2. KnownRows' = KnownRows
  BY <1>1 DEF KnownRows
<1>3. \A i \in drop' : i \notin KnownRows
  BY <1>1 DEF Settles, Group
<1>4. ASSUME NEW i \in drop'
      PROVE  \E k \in KnownRows \ drop' :
               /\ rows[k].route = rows[i].route
               /\ rows[k].stop = rows[i].stop /\ rows[k].depart = rows[i].depart
  <2>1. PICK k \in DOMAIN rows : k # i /\ Settles(k, i)
    BY <1>1
  <2>2. k \in KnownRows /\ k \in Group(i)
    BY <2>1 DEF Settles
  <2>3. k \notin drop'
    BY <1>3, <2>2
  <2>4. <<rows[k].stop, rows[k].depart, rows[k].route>> =
          <<rows[i].stop, rows[i].depart, rows[i].route>>
    BY <2>2 DEF Group
  <2> QED
    BY <2>2, <2>3, <2>4
<1>5. NothingKnownIsDropped'
  BY <1>1, <1>2, <1>3, <1>4 DEF NothingKnownIsDropped
<1>6. JoinedSoFar'
  BY <1>1 DEF BoardInv, JoinedSoFar
<1>7. published' \subseteq TripUpdates /\ Kept' /\ DropsLast'
  BY <1>1 DEF BoardInv, Kept, DropsLast
<1> QED
  BY <1>5, <1>6, <1>7 DEF BoardInv

LEMMA BoardStep == BoardInv /\ [Next]_vars => BoardInv'
<1> SUFFICES ASSUME BoardInv, [Next]_vars PROVE BoardInv'
  OBVIOUS
<1>1. ASSUME NEW u \in Updates, Decode(u) PROVE BoardInv'
  BY <1>1, DecodeKeeps
<1>2. ASSUME NEW timetable \in Timetables, Ask(timetable) PROVE BoardInv'
  BY <1>2, AskKeeps
<1>3. CASE Join
  BY <1>3, JoinKeeps
<1>4. CASE Disambiguate
  BY <1>4, DisambiguateKeeps
<1>5. CASE Refresh
  BY <1>5 DEF Refresh, NoTrips, BoardInv, Kept, JoinedSoFar, DropsLast,
              NothingKnownIsDropped, KnownRows
<1>6. CASE UNCHANGED vars
  BY <1>6 DEF vars, BoardInv, Kept, JoinedSoFar, DropsLast, NothingKnownIsDropped, KnownRows
<1> QED
  BY <1>1, <1>2, <1>3, <1>4, <1>5, <1>6 DEF Next

LEMMA BoardInvariant == Spec => []BoardInv
BY BoardInit, BoardStep, PTL DEF Spec

(* Disambiguate drops only rows that realtime knows nothing of, each for a  *)
(* row it does know of at the same time and stop and of the same route.     *)
THEOREM KnownRowsStay == Spec => []NothingKnownIsDropped
<1>1. BoardInv => NothingKnownIsDropped
  BY DEF BoardInv
<1> QED
  BY <1>1, BoardInvariant, PTL

-----------------------------------------------------------------------------
(* What is known was published *)

(* What a departure's join needs of it.                                     *)
Call(d) == d.trip \in Trips /\ d.seq \in Nat /\ d.depart \in Int /\ d.alts \in Seq(AltTrips)

(* A departure's publications: its own trip id, and then the others.        *)
LEMMA VariantsOfCall ==
  ASSUME NEW d, Call(d)
  PROVE  /\ Variants(d) \in Seq(AltTrips) /\ Len(Variants(d)) = Len(d.alts) + 1
         /\ DOMAIN Variants(d) = 1 .. Len(d.alts) + 1
         /\ Variants(d)[1] = [trip |-> d.trip, seq |-> d.seq]
         /\ \A k \in DOMAIN d.alts : Variants(d)[k + 1] = d.alts[k]
<1> DEFINE own == [trip |-> d.trip, seq |-> d.seq]
<1>1. own \in AltTrips /\ d.alts \in Seq(AltTrips)
  BY DEF Call, AltTrips
<1>2. <<own>> \in Seq(AltTrips) /\ Len(<<own>>) = 1 /\ <<own>>[1] = own
  BY <1>1
<1>3. Variants(d) = <<own>> \o d.alts
  BY DEF Variants
<1> HIDE DEF own
<1>4. /\ Variants(d) \in Seq(AltTrips) /\ Len(Variants(d)) = 1 + Len(d.alts)
      /\ Variants(d)[1] = own
      /\ \A k \in DOMAIN d.alts : Variants(d)[k + 1] = d.alts[k]
  BY <1>1, <1>2, <1>3
<1>5. Len(d.alts) \in Nat /\ DOMAIN Variants(d) = 1 .. Len(Variants(d))
  BY <1>1, <1>4
<1> QED
  BY <1>4, <1>5 DEF own

LEMMA VariantsOf ==
  ASSUME NEW d \in Departures
  PROVE  /\ Variants(d) \in Seq(AltTrips) /\ Len(Variants(d)) = Len(d.alts) + 1
         /\ DOMAIN Variants(d) = 1 .. Len(d.alts) + 1
         /\ Variants(d)[1] = [trip |-> d.trip, seq |-> d.seq]
         /\ \A k \in DOMAIN d.alts : Variants(d)[k + 1] = d.alts[k]
BY VariantsOfCall DEF Call, Departures

(* day, and says something of the call or of an earlier one.                *)
LEMMA KnownBears ==
  ASSUME NEW d \in Departures, NEW u \in TripUpdates, NEW seq \in Nat,
         Known(Applied(u, seq, d).status)
  PROVE  u.date \in {NoDate, ServiceDay(d)} /\ Bears(u, seq)
<1> DEFINE su == StopUpdateFor(u.stops, seq, d.stop)
<1>1. \A st : Scheduled(d, st).status = st
  BY DEF Scheduled, Joined
<1>2. SameServiceDay(u.date, d)
  BY <1>1 DEF Applied, Known
<1>3. CASE u.canceled
  BY <1>2, <1>3 DEF SameServiceDay, Bears
<1>4. CASE ~u.canceled
  <2>1. /\ Covered(u.stops, seq, d.stop)
        /\ su.skipped \/ Known(Predicted(d, su).status)
    BY <1>1, <1>2, <1>4 DEF Applied, Known
  <2>2. su.skipped \/ su.departure.set \/ su.arrival.set
    BY <2>1 DEF Predicted, Known, Joined
  <2>3. u.stops \in Seq(StopUpdates)
    BY DEF TripUpdates
  <2>4. DOMAIN u.stops \subseteq Nat /\ \A k \in DOMAIN u.stops : u.stops[k].seq \in Nat
    <3>1. \A k \in DOMAIN u.stops : u.stops[k] \in StopUpdates /\ k \in Nat
      BY <2>3
    <3> QED
      BY <3>1 DEF StopUpdates
  <2>5. CASE Own(u.stops, seq, d.stop) # {}
    <3> DEFINE k == FirstOf(Own(u.stops, seq, d.stop))
    <3>1. k \in Own(u.stops, seq, d.stop)
      <4>1. Own(u.stops, seq, d.stop) \subseteq Nat
        BY <2>4 DEF Own
      <4> QED
        BY <2>5, <4>1, FirstIsLeast
    <3>2. su = u.stops[k]
      BY <2>5 DEF StopUpdateFor
    <3> HIDE DEF k
    <3>3. k \in DOMAIN u.stops /\ u.stops[k].seq <= seq
      <4>1. k \in DOMAIN u.stops /\ (u.stops[k].seq = seq \/ u.stops[k].seq = 0)
        BY <3>1 DEF Own
      <4> QED
        BY <2>4, <4>1
    <3> QED
      BY <1>2, <2>2, <3>2, <3>3 DEF SameServiceDay, Bears
  <2>6. CASE Own(u.stops, seq, d.stop) = {}
    <3> DEFINE k == Nearest(u.stops, seq)
    <3>1. k \in Before(u.stops, seq)
      BY <2>1, <2>3, <2>6, NearestIsBefore DEF Covered
    <3>2. k \in DOMAIN u.stops /\ u.stops[k].seq <= seq
      BY <2>4, <3>1 DEF Before
    <3>3. su = Inherited(u.stops[k], seq, d.stop)
      BY <2>6 DEF StopUpdateFor
    <3> HIDE DEF k, su
    <3>4. ~su.skipped /\ su.departure.set = u.stops[k].departure.set
                      /\ su.arrival.set = u.stops[k].arrival.set
      <4>1. /\ su.skipped = FALSE
            /\ su.departure = [Unset EXCEPT !.set = u.stops[k].departure.set,
                                            !.delay = u.stops[k].departure.delay]
            /\ su.arrival = [Unset EXCEPT !.set = u.stops[k].arrival.set,
                                          !.delay = u.stops[k].arrival.delay]
        BY <3>3 DEF Inherited
      <4> QED
        BY <4>1 DEF Unset
    <3> QED
      BY <1>2, <2>2, <3>2, <3>4 DEF SameServiceDay, Bears
  <2> QED
    BY <2>5, <2>6
<1> QED
  BY <1>3, <1>4

(* A departure is joined with the first of its publications that the        *)
(* snapshot describes.                                                      *)
LEMMA FirstDescribed ==
  ASSUME NEW d \in Departures, Described(byTrip, d) # {}
  PROVE  FirstOf(Described(byTrip, d)) \in Described(byTrip, d)
<1>1. Described(byTrip, d) \subseteq Nat
  <2>1. Variants(d) \in Seq(AltTrips)
    BY VariantsOf
  <2>2. DOMAIN Variants(d) \subseteq Nat
    BY <2>1
  <2> QED
    BY <2>2 DEF Described
<1> QED
  BY <1>1, FirstIsLeast

(* live.go:3 and 217: nothing is claimed of a service that the feeds say    *)
(* nothing of, and a prediction of one service day is never shown on        *)
(* another's.                                                               *)
THEOREM NothingIsInvented == Spec => []KnownIsPublished
<1>1. BoardInv => KnownIsPublished
  <2> SUFFICES ASSUME BoardInv, NEW i \in KnownRows
               PROVE  \E u \in PublishedFor(rows[i]) : \E v \in DOMAIN Variants(rows[i]) :
                        /\ Variants(rows[i])[v].trip = u.trip
                        /\ Bears(u, Variants(rows[i])[v].seq)
    BY DEF KnownIsPublished
  <2> DEFINE d == rows[i]
             v == FirstOf(Described(byTrip, d))
             u == byTrip[Variants(d)[v].trip]
  <2>1. d \in Departures /\ board[i] = Departure(byTrip, d) /\ Known(board[i].status)
    <3>1. /\ rows \in Seq(Departures) /\ Len(board) <= Len(rows)
          /\ i \in DOMAIN board /\ board[i] = Departure(byTrip, d) /\ Known(board[i].status)
          /\ board \in Seq({Departure(byTrip, rows[k]) : k \in DOMAIN rows})
      BY DEF BoardInv, JoinedSoFar, KnownRows
    <3>2. i \in DOMAIN rows
      BY <3>1
    <3> QED
      BY <3>1, <3>2
  <2> HIDE DEF d
  <2>2. Described(byTrip, d) # {}
    BY <2>1 DEF Departure, Scheduled, Joined, Known
  <2>3. v \in DOMAIN Variants(d) /\ Variants(d)[v].trip \in DOMAIN byTrip
    BY <2>1, <2>2, FirstDescribed DEF Described
  <2>4. u \in published /\ u.trip = Variants(d)[v].trip /\ u \in TripUpdates
    BY <2>3 DEF BoardInv, Kept
  <2>5. Variants(d)[v].seq \in Nat
    <3>1. Variants(d) \in Seq(AltTrips)
      BY <2>1, VariantsOf
    <3>2. Variants(d)[v] \in AltTrips
      BY <2>3, <3>1
    <3> QED
      BY <3>2 DEF AltTrips
  <2>6. Known(Applied(u, Variants(d)[v].seq, d).status)
    BY <2>1, <2>2 DEF Departure
  <2>7. u.date \in {NoDate, ServiceDay(d)} /\ Bears(u, Variants(d)[v].seq)
    BY <2>1, <2>4, <2>5, <2>6, KnownBears
  <2>8. u \in PublishedFor(d)
    BY <2>3, <2>4, <2>7 DEF PublishedFor
  <2> QED
    BY <2>3, <2>4, <2>7, <2>8 DEF d
<1> QED
  BY <1>1, BoardInvariant, PTL

-----------------------------------------------------------------------------
(* Which publication survives makes no difference *)

(* The publications of what deduplication kept instead are the same ones:   *)
(* each is one of d's, and each of d's is one of them.                      *)
LEMMA SameVariants ==
  ASSUME NEW d \in Departures, NEW v \in DOMAIN Variants(d)
  PROVE  /\ SurvivedBy(d, v) \in Departures
         /\ SurvivedBy(d, v).stop = d.stop /\ SurvivedBy(d, v).depart = d.depart
         /\ \A j \in DOMAIN Variants(SurvivedBy(d, v)) : \E i \in DOMAIN Variants(d) :
              Variants(SurvivedBy(d, v))[j] = Variants(d)[i]
         /\ \A i \in DOMAIN Variants(d) : \E j \in DOMAIN Variants(SurvivedBy(d, v)) :
              Variants(SurvivedBy(d, v))[j] = Variants(d)[i]
<1> DEFINE n == Len(d.alts)
           V == Variants(d)
           S == Secs(d)
           e == SurvivedBy(d, v)
           W == Variants(e)
<1>1. /\ n \in Nat /\ DOMAIN V = 1 .. n + 1 /\ Len(V) = n + 1 /\ v \in 1 .. n + 1
      /\ d.altSecs \in Seq(Int) /\ Len(d.altSecs) = n /\ d.departSec \in Int
  <2>1. /\ d.alts \in Seq(AltTrips) /\ d.altSecs \in Seq(Int) /\ d.departSec \in Int
        /\ Len(d.altSecs) = n
    BY DEF Departures
  <2>2. n \in Nat
    BY <2>1
  <2>3. DOMAIN V = 1 .. n + 1 /\ Len(V) = n + 1
    BY VariantsOf
  <2> QED
    BY <2>1, <2>2, <2>3
<1>2. \A i \in 1 .. n + 1 : V[i] \in AltTrips
  <2>1. V \in Seq(AltTrips)
    BY VariantsOf
  <2> QED
    BY <1>1, <2>1
<1>3. Len(S) = n + 1 /\ \A i \in 1 .. n + 1 : S[i] \in Int
  <2>1. \A x \in Int, q \in Seq(Int) :
          <<x>> \o q \in Seq(Int) /\ Len(<<x>> \o q) = Len(q) + 1
    OBVIOUS
  <2>2. S \in Seq(Int) /\ Len(S) = n + 1
    <3> HIDE DEF n
    <3> QED
      BY <1>1, <2>1 DEF Secs
  <2> HIDE DEF S, n
  <2> QED
    BY <1>1, <2>2
<1> HIDE DEF V, S, n
<1>4. /\ \A k \in 1 .. n : Others(V, v)[k] = V[IF k < v THEN k ELSE k + 1]
      /\ Others(V, v) \in Seq(AltTrips) /\ Len(Others(V, v)) = n
      /\ Others(S, v) \in Seq(Int) /\ Len(Others(S, v)) = n
  <2>1. \A k \in 1 .. n : (IF k < v THEN k ELSE k + 1) \in 1 .. n + 1
    BY <1>1
  <2>2. Len(V) - 1 = n /\ Len(S) - 1 = n
    BY <1>1, <1>3
  <2>3. /\ Others(V, v) = [k \in 1 .. n |-> V[IF k < v THEN k ELSE k + 1]]
        /\ Others(S, v) = [k \in 1 .. n |-> S[IF k < v THEN k ELSE k + 1]]
    BY <2>2 DEF Others
  <2>4. Others(V, v) \in [1 .. n -> AltTrips] /\ Others(S, v) \in [1 .. n -> Int]
    BY <1>2, <1>3, <2>1, <2>3
  <2>5. /\ \A q \in [1 .. n -> AltTrips] : q \in Seq(AltTrips) /\ Len(q) = n
        /\ \A q \in [1 .. n -> Int] : q \in Seq(Int) /\ Len(q) = n
    BY <1>1
  <2>6. /\ Others(V, v) \in Seq(AltTrips) /\ Len(Others(V, v)) = n
        /\ Others(S, v) \in Seq(Int) /\ Len(Others(S, v)) = n
    BY <2>4, <2>5, Zenon
  <2>7. \A k \in 1 .. n : Others(V, v)[k] = V[IF k < v THEN k ELSE k + 1]
    BY <2>3
  <2> QED
    BY <2>6, <2>7
<1>5. /\ e.trip = V[v].trip /\ e.seq = V[v].seq /\ e.alts = Others(V, v)
      /\ e.stop = d.stop /\ e.depart = d.depart
      /\ e \in Departures
  <2>1. V[v].trip \in Trips /\ V[v].seq \in Nat /\ S[v] \in Int
    BY <1>1, <1>2, <1>3 DEF AltTrips
  <2> DEFINE A == Others(V, v)
             B == Others(S, v)
  <2>2. e = [d EXCEPT !.trip = V[v].trip, !.seq = V[v].seq, !.departSec = S[v],
                      !.alts = A, !.altSecs = B]
    BY DEF SurvivedBy, V, S
  <2>3. A \in Seq(AltTrips) /\ B \in Seq(Int) /\ Len(B) = Len(A)
    BY <1>4
  <2> HIDE DEF A, B, e
  <2>4. /\ e.trip = V[v].trip /\ e.seq = V[v].seq /\ e.alts = A
        /\ e.stop = d.stop /\ e.depart = d.depart /\ e \in Departures
    BY <2>1, <2>2, <2>3 DEF Departures
  <2> QED
    BY <2>4 DEF A
<1> HIDE DEF e
<1>6. W[1] = V[v]
  <2>1. W[1] = [trip |-> V[v].trip, seq |-> V[v].seq]
    BY <1>5, VariantsOf
  <2>2. V[v] \in AltTrips
    BY <1>1, <1>2
  <2> HIDE DEF W
  <2> QED
    BY <2>1, <2>2 DEF AltTrips
<1>7. DOMAIN W = 1 .. n + 1 /\ \A k \in 1 .. n : W[k + 1] = V[IF k < v THEN k ELSE k + 1]
  <2>1. DOMAIN W = 1 .. Len(e.alts) + 1 /\ \A k \in DOMAIN e.alts : W[k + 1] = e.alts[k]
    BY <1>5, VariantsOf
  <2>2. DOMAIN e.alts = 1 .. n /\ Len(e.alts) = n
    BY <1>4, <1>5
  <2> HIDE DEF W
  <2> QED
    BY <1>4, <1>5, <2>1, <2>2
<1>8. ASSUME NEW j \in 1 .. n + 1
      PROVE  \E i \in 1 .. n + 1 : W[j] = V[i]
  <2> HIDE DEF W
  <2>1. CASE j = 1
    BY <1>1, <1>6, <2>1
  <2>2. CASE j # 1
    <3>1. j - 1 \in 1 .. n /\ j = (j - 1) + 1
      BY <1>1, <2>2
    <3>2. W[j] = V[IF j - 1 < v THEN j - 1 ELSE j]
      BY <1>7, <3>1
    <3>3. (IF j - 1 < v THEN j - 1 ELSE j) \in 1 .. n + 1
      BY <1>1, <3>1
    <3> QED
      BY <3>2, <3>3
  <2> QED
    BY <2>1, <2>2
<1>9. ASSUME NEW i \in 1 .. n + 1
      PROVE  \E j \in 1 .. n + 1 : W[j] = V[i]
  <2> HIDE DEF W
  <2>1. CASE i = v
    BY <1>1, <1>6, <2>1
  <2>2. CASE i < v
    <3>1. i \in 1 .. n /\ i + 1 \in 1 .. n + 1
      BY <1>1, <2>2
    <3> QED
      BY <1>7, <2>2, <3>1
  <2>3. CASE i > v
    <3>1. i - 1 \in 1 .. n /\ i = (i - 1) + 1 /\ ~(i - 1 < v)
      BY <1>1, <2>3
    <3>2. W[i] = V[i]
      BY <1>7, <3>1
    <3> QED
      BY <3>2
  <2> QED
    BY <1>1, <2>1, <2>2, <2>3
<1>10. /\ \A j \in DOMAIN W : \E i \in DOMAIN V : W[j] = V[i]
       /\ \A i \in DOMAIN V : \E j \in DOMAIN W : W[j] = V[i]
  <2> HIDE DEF W
  <2> QED
    BY <1>1, <1>7, <1>8, <1>9
<1> QED
  BY <1>5, <1>10 DEF e, V

(* What an update says of a call depends on where and when the call is, on  *)
(* its service day, and on the sequence it is looked up by.                 *)
LEMMA AppliedAlike ==
  ASSUME NEW d, NEW e, NEW u, NEW seq,
         e.stop = d.stop, e.depart = d.depart, ServiceDay(e) = ServiceDay(d)
  PROVE  Applied(u, seq, e) = Applied(u, seq, d)
BY DEF Applied, SameServiceDay, Scheduled, Predicted, Judged

(* live.go:253: what a passenger is told does not depend on which of a      *)
(* service's trip ids, of those of one service day, deduplication happened  *)
(* to keep, as long as realtime describes no more than one of them.         *)
THEOREM SurvivorDoesNotMatter == Spec => []VariantBlind
<1>1. ASSUME NEW d \in Departures, NEW v \in DOMAIN Variants(d),
             Cardinality(Described(byTrip, d)) <= 1,
             ServiceDay(SurvivedBy(d, v)) = ServiceDay(d)
      PROVE  Departure(byTrip, SurvivedBy(d, v)) = Departure(byTrip, d)
  <2> DEFINE e == SurvivedBy(d, v)
             S == Described(byTrip, d)
             T == Described(byTrip, e)
  <2>1. /\ e \in Departures
        /\ e.stop = d.stop /\ e.depart = d.depart /\ ServiceDay(e) = ServiceDay(d)
        /\ \A j \in DOMAIN Variants(e) : \E i \in DOMAIN Variants(d) :
             Variants(e)[j] = Variants(d)[i]
        /\ \A i \in DOMAIN Variants(d) : \E j \in DOMAIN Variants(e) :
             Variants(e)[j] = Variants(d)[i]
    BY <1>1, SameVariants
  <2> HIDE DEF e
  <2>2. CASE S = {}
    <3>1. T = {}
      BY <2>1, <2>2 DEF Described
    <3> QED
      BY <2>1, <2>2, <3>1 DEF Departure, Scheduled, e
  <2>3. CASE S # {}
    <3>1. PICK x : S = {x}
      <4>1. IsFiniteSet(S)
        <5>1. DOMAIN Variants(d) = 1 .. Len(Variants(d)) /\ Len(Variants(d)) \in Nat
          <6>1. Variants(d) \in Seq(AltTrips)
            BY VariantsOf
          <6> QED
            BY <6>1
        <5>2. IsFiniteSet(1 .. Len(Variants(d)))
          BY <5>1, FS_Interval
        <5>3. S \subseteq 1 .. Len(Variants(d))
          BY <5>1 DEF Described
        <5> QED
          BY <5>2, <5>3, FS_Subset
      <4> HIDE DEF S
      <4>2. Cardinality(S) \in Nat /\ Cardinality(S) # 0
        BY <2>3, <4>1, FS_CardinalityType, FS_EmptySet
      <4>3. Cardinality(S) = 1
        BY <1>1, <4>2 DEF S
      <4> QED
        BY <4>1, <4>3, FS_Singleton
    <3>2. FirstOf(S) = x
      BY <2>3, <3>1, FirstDescribed
    <3>3. x \in DOMAIN Variants(d) /\ Variants(d)[x].trip \in DOMAIN byTrip
      BY <3>1 DEF Described
    <3>4. T # {}
      <4>1. PICK j \in DOMAIN Variants(e) : Variants(e)[j] = Variants(d)[x]
        BY <2>1, <3>3
      <4> QED
        BY <3>3, <4>1 DEF Described
    <3>5. Variants(e)[FirstOf(T)] = Variants(d)[x]
      <4>1. FirstOf(T) \in T
        BY <2>1, <3>4, FirstDescribed
      <4>2. PICK i \in DOMAIN Variants(d) : Variants(e)[FirstOf(T)] = Variants(d)[i]
        BY <2>1, <4>1 DEF Described
      <4>3. i \in S
        BY <4>1, <4>2 DEF Described
      <4> QED
        BY <3>1, <4>2, <4>3
    <3> DEFINE w == Variants(d)[x]
    <3>6. /\ Departure(byTrip, e) = Applied(byTrip[w.trip], w.seq, e)
          /\ Departure(byTrip, d) = Applied(byTrip[w.trip], w.seq, d)
      BY <2>3, <3>2, <3>4, <3>5 DEF Departure
    <3> QED
      BY <2>1, <3>6, AppliedAlike DEF e
  <2> QED
    BY <2>2, <2>3
<1>2. BoardInv => VariantBlind
  <2> SUFFICES ASSUME BoardInv, NEW i \in DOMAIN board,
                      Cardinality(Described(byTrip, rows[i])) <= 1,
                      NEW v \in DOMAIN Variants(rows[i]),
                      ServiceDay(SurvivedBy(rows[i], v)) = ServiceDay(rows[i])
               PROVE  Departure(byTrip, SurvivedBy(rows[i], v)) = board[i]
    BY DEF VariantBlind
  <2>1. /\ rows \in Seq(Departures) /\ Len(board) <= Len(rows)
        /\ board[i] = Departure(byTrip, rows[i])
        /\ board \in Seq({Departure(byTrip, rows[k]) : k \in DOMAIN rows})
    BY DEF BoardInv, JoinedSoFar
  <2>2. i \in DOMAIN rows
    BY <2>1
  <2>3. rows[i] \in Departures
    BY <2>1, <2>2
  <2> QED
    BY <1>1, <2>1, <2>3
<1> QED
  BY <1>2, BoardInvariant, PTL

-----------------------------------------------------------------------------
(* stopUpdateFor as the loop it is *)

(* What holds at every turn of the loop.                                    *)
LookupInv == LookupTypeOK /\ PassedSoFar /\ FindsUpdate

(* A call enters the loop with nothing passed.                              *)
LEMMA LookupStarts == LookupInit => LookupInv
<1> SUFFICES ASSUME LookupInit PROVE LookupInv
  OBVIOUS
<1> USE UpdatesAssumption
<1>1. PICK n \in 0 .. MaxLen : tu \in [1 .. n -> CallUpdates]
  BY DEF LookupInit
<1>2. tu \in Seq(CallUpdates) /\ Len(tu) = n
  BY <1>1
<1>3. LookupTypeOK
  BY <1>2 DEF LookupInit, LookupTypeOK, Looking
<1>4. PassedSoFar /\ FindsUpdate
  BY <1>2 DEF LookupInit, PassedSoFar, FindsUpdate, Looking
<1> QED
  BY <1>3, <1>4 DEF LookupInv

(* Every turn of the loop keeps it.                                         *)
LEMMA LookupKeeps == LookupInv /\ [LookupNext]_lookupVars => LookupInv'
<1> SUFFICES ASSUME LookupInv, [LookupNext]_lookupVars PROVE LookupInv'
  OBVIOUS
<1>0. /\ Len(tu) \in Nat /\ DOMAIN tu = 1 .. Len(tu)
      /\ \A k \in DOMAIN tu : tu[k].seq \in Nat
      /\ call.seq \in Nat
      /\ pos \in 1 .. Len(tu) + 1 /\ best \in 0 .. Len(tu)
  <2>1. tu \in Seq(CallUpdates) /\ call \in Calls /\ pos \in 1 .. Len(tu) + 1 /\ best \in 0 .. Len(tu)
    BY DEF LookupInv, LookupTypeOK
  <2>2. Len(tu) \in Nat /\ DOMAIN tu = 1 .. Len(tu)
    BY <2>1
  <2>3. \A k \in DOMAIN tu : tu[k] \in CallUpdates
    BY <2>1, <2>2
  <2>4. \A u \in CallUpdates : u.seq \in Nat
    BY UpdatesAssumption DEF CallUpdates
  <2>5. call.seq \in Nat
    BY <2>1, UpdatesAssumption DEF Calls
  <2> QED
    BY <2>1, <2>2, <2>3, <2>4, <2>5
<1> USE DEF LookupInv
<1>1. CASE Match
  <2>1. pos \in DOMAIN tu /\ pos \in Own(tu, call.seq, call.stop)
    BY <1>0, <1>1 DEF Match, IsOwn, Own
  <2>2. \A k \in Own(tu, call.seq, call.stop) : pos <= k
    BY <1>0, <1>1 DEF Match, PassedSoFar, IsOwn, Own
  <2>3. LookupTypeOK'
    BY <1>0, <1>1 DEF Match, Looking, Results, LookupTypeOK
  <2>4. FindsUpdate'
    BY <1>1, <2>1, <2>2 DEF Match, FindsUpdate
  <2>5. PassedSoFar'
    BY <1>1 DEF Match, PassedSoFar, Looking
  <2> QED
    BY <2>3, <2>4, <2>5
<1>2. CASE Advance
  <2>1. LookupTypeOK'
    BY <1>0, <1>2 DEF Advance, LookupTypeOK
  <2>2. FindsUpdate'
    BY <1>2 DEF Advance, FindsUpdate, Looking
  <2>3. PassedSoFar'
    <3>1. \A k \in 1 .. pos : ~IsOwn(tu[k])
      BY <1>0, <1>2 DEF Advance, PassedSoFar
    <3>2. /\ result = Looking /\ pos \in DOMAIN tu
          /\ tu' = tu /\ call' = call /\ pos' = pos + 1 /\ result' = Looking
      BY <1>0, <1>2 DEF Advance
    <3>3. /\ pos \in Nat /\ best \in Nat /\ pos' - 1 = pos
          /\ 1 .. pos \subseteq DOMAIN tu
          /\ \A k \in 1 .. pos : tu[k].seq \in Nat /\ k \in Nat
      BY <1>0, <3>2
    <3>4. /\ best = 0 => \A k \in 1 .. pos - 1 : tu[k].seq >= call.seq
          /\ best # 0 => /\ best \in 1 .. pos - 1 /\ tu[best].seq < call.seq
                         /\ \A k \in 1 .. pos - 1 : tu[k].seq < call.seq =>
                              \/ tu[k].seq < tu[best].seq
                              \/ tu[k].seq = tu[best].seq /\ best <= k
      BY <3>2, <3>3 DEF PassedSoFar
    <3>5. \A k \in 1 .. pos : k # pos => k \in 1 .. pos - 1
      BY <3>3
    <3>6. CASE Better(tu[pos])
      <4>1. best' = pos /\ tu[pos].seq < call.seq /\ pos # 0
        BY <1>0, <1>2, <3>6 DEF Advance, Better
      <4>2. ASSUME NEW k \in 1 .. pos, tu[k].seq < call.seq
            PROVE  tu[k].seq < tu[pos].seq \/ (tu[k].seq = tu[pos].seq /\ pos <= k)
        <5>1. CASE k = pos
          BY <3>3, <5>1
        <5>2. CASE k # pos
          <6>1. k \in 1 .. pos - 1
            BY <3>5, <5>2
          <6>2. best # 0
            BY <1>0, <3>3, <3>4, <4>2, <6>1
          <6>3. /\ tu[k].seq <= tu[best].seq
                /\ tu[k].seq \in Nat /\ tu[best].seq \in Nat /\ tu[pos].seq \in Nat
            BY <3>3, <3>4, <4>2, <6>1, <6>2
          <6>4. tu[pos].seq > tu[best].seq
            BY <3>6, <6>2 DEF Better
          <6>5. tu[k].seq < tu[pos].seq
            BY <6>3, <6>4
          <6> QED
            BY <6>5
        <5> QED
          BY <5>1, <5>2
      <4>3. /\ \A k \in 1 .. pos : ~IsOwn(tu[k])'
            /\ best' # 0 /\ best' < pos' /\ (tu[best].seq < call.seq)'
            /\ \A k \in 1 .. pos : (tu[k].seq < call.seq)' =>
                 (tu[k].seq < tu[best].seq \/ (tu[k].seq = tu[best].seq /\ best <= k))'
        BY <3>1, <3>2, <3>3, <4>1, <4>2 DEF IsOwn
      <4> QED
        BY <3>3, <4>3 DEF PassedSoFar
    <3>7. CASE ~Better(tu[pos])
      <4>1. best' = best
        BY <1>2, <3>7 DEF Advance
      <4>2. ASSUME best = 0, NEW k \in 1 .. pos PROVE tu[k].seq >= call.seq
        BY <1>0, <3>3, <3>4, <3>5, <3>7, <4>2 DEF Better
      <4>3. ASSUME best # 0, NEW k \in 1 .. pos, tu[k].seq < call.seq
            PROVE  tu[k].seq < tu[best].seq \/ (tu[k].seq = tu[best].seq /\ best <= k)
        <5>1. CASE k = pos
          <6>1. best \in 1 .. pos - 1 /\ tu[best].seq \in Nat /\ tu[pos].seq \in Nat
            BY <3>3, <3>4, <4>3
          <6>2. ~(tu[pos].seq > tu[best].seq)
            BY <3>7, <4>3, <5>1 DEF Better
          <6> QED
            BY <3>3, <5>1, <6>1, <6>2
        <5>2. CASE k # pos
          <6>1. k \in 1 .. pos - 1
            BY <3>5, <5>2
          <6> QED
            BY <3>4, <4>3, <6>1
        <5> QED
          BY <5>1, <5>2
      <4>4. /\ \A k \in 1 .. pos : ~IsOwn(tu[k])'
            /\ best' = 0 => \A k \in 1 .. pos : (tu[k].seq >= call.seq)'
            /\ best' # 0 =>
                 /\ best' < pos' /\ (tu[best].seq < call.seq)'
                 /\ \A k \in 1 .. pos : (tu[k].seq < call.seq)' =>
                      (tu[k].seq < tu[best].seq \/ (tu[k].seq = tu[best].seq /\ best <= k))'
        BY <3>1, <3>2, <3>3, <3>4, <4>1, <4>2, <4>3 DEF IsOwn
      <4> QED
        BY <3>3, <4>4 DEF PassedSoFar
    <3> QED
      BY <3>6, <3>7
  <2> QED
    BY <2>1, <2>2, <2>3
<1>3. CASE Exhaust
  <2>1. Own(tu, call.seq, call.stop) = {}
    BY <1>0, <1>3 DEF Exhaust, PassedSoFar, IsOwn, Own
  <2>2. LookupTypeOK'
    BY <1>0, <1>3 DEF Exhaust, Results, Looking, LookupTypeOK
  <2>3. PassedSoFar'
    BY <1>3 DEF Exhaust, PassedSoFar, Looking
  <2>4. FindsUpdate'
    <3>1. CASE best = 0
      <4>1. Before(tu, call.seq) = {}
        BY <1>0, <1>3, <3>1 DEF Exhaust, PassedSoFar, Before
      <4>2. result' = [kind |-> "none", at |-> 0] /\ tu' = tu /\ call' = call
        BY <1>3, <3>1 DEF Exhaust
      <4>3. ~Covered(tu, call.seq, call.stop)
        BY <2>1, <4>1 DEF Covered
      <4> QED
        BY <4>2, <4>3 DEF FindsUpdate
    <3>2. CASE best # 0
      <4>1. best \in Before(tu, call.seq)
        BY <1>0, <1>3, <3>2 DEF Exhaust, PassedSoFar, Before
      <4>2. \A k \in Before(tu, call.seq) :
              \/ tu[k].seq < tu[best].seq
              \/ tu[k].seq = tu[best].seq /\ best <= k
        BY <1>0, <1>3, <3>2 DEF Exhaust, PassedSoFar, Before
      <4> QED
        BY <1>3, <2>1, <3>2, <4>1, <4>2 DEF Exhaust, FindsUpdate
    <3> QED
      BY <3>1, <3>2
  <2> QED
    BY <2>2, <2>3, <2>4
<1>4. CASE UNCHANGED lookupVars
  BY <1>4 DEF lookupVars, LookupTypeOK, PassedSoFar, FindsUpdate, IsOwn
<1> QED
  BY <1>1, <1>2, <1>3, <1>4 DEF LookupNext

(* The lookup stays within the updates it was given, and an answer that     *)
(* names an update names one of them: the fallback is only used where there *)
(* is one.                                                                  *)
THEOREM LookupTypesHold == LookupSpec => []LookupTypeOK
<1>1. LookupInv => LookupTypeOK
  BY DEF LookupInv
<1> QED
  BY LookupStarts, LookupKeeps, <1>1, PTL DEF LookupSpec

(* stopUpdateFor answers with the first update of the call's own, else with *)
(* the first of the nearest before it, else with nothing: for trip updates  *)
(* of any length, in any order.                                             *)
THEOREM FindsUpdateHolds == LookupSpec => []FindsUpdate
<1>1. LookupInv => FindsUpdate
  BY DEF LookupInv
<1> QED
  BY LookupStarts, LookupKeeps, <1>1, PTL DEF LookupSpec

-----------------------------------------------------------------------------
(* What the ends of a leg are answered with *)

(* The prediction that covers a call is one, whether its own or inherited.  *)
LEMMA PredictionFound ==
  ASSUME NEW stops \in Seq(StopUpdates), NEW seq \in Nat, NEW stop,
         Covered(stops, seq, stop)
  PROVE  /\ StopUpdateFor(stops, seq, stop).arrival \in StopEvents
         /\ StopUpdateFor(stops, seq, stop).departure \in StopEvents
<1>1. \A k \in DOMAIN stops : /\ k \in Nat /\ stops[k] \in StopUpdates
                              /\ stops[k].arrival \in StopEvents
                              /\ stops[k].departure \in StopEvents
  <2>1. \A k \in DOMAIN stops : k \in Nat /\ stops[k] \in StopUpdates
    OBVIOUS
  <2> QED
    BY <2>1 DEF StopUpdates
<1>2. CASE Own(stops, seq, stop) # {}
  <2>1. Own(stops, seq, stop) \in SUBSET Nat
    BY <1>1 DEF Own
  <2>2. FirstOf(Own(stops, seq, stop)) \in DOMAIN stops
    BY <1>2, <2>1, FirstIsLeast DEF Own
  <2> QED
    BY <1>1, <1>2, <2>2 DEF StopUpdateFor
<1>3. CASE Own(stops, seq, stop) = {}
  <2> DEFINE near == stops[Nearest(stops, seq)]
  <2>1. Nearest(stops, seq) \in DOMAIN stops
    BY <1>3, NearestIsBefore DEF Covered, Before
  <2>2. near.arrival \in StopEvents /\ near.departure \in StopEvents
    BY <1>1, <2>1
  <2>3. StopUpdateFor(stops, seq, stop) = Inherited(near, seq, stop)
    BY <1>3 DEF StopUpdateFor
  <2> HIDE DEF near
  <2> DEFINE Delayed(ev) == [Unset EXCEPT !.set = ev.set, !.delay = ev.delay]
  <2>4. \A ev \in StopEvents : Delayed(ev) \in StopEvents
    BY DEF Unset, StopEvents
  <2>5. /\ Inherited(near, seq, stop).arrival = Delayed(near.arrival)
        /\ Inherited(near, seq, stop).departure = Delayed(near.departure)
    BY DEF Inherited
  <2> HIDE DEF Delayed
  <2> QED
    BY <2>2, <2>3, <2>4, <2>5
<1> QED
  BY <1>2, <1>3

Answers == [status : Statuses, delay : Int, estimated : Int]

LEMMA AppliedAnswers ==
  ASSUME NEW u \in TripUpdates, NEW seq \in Nat, NEW d, Call(d)
  PROVE  Applied(u, seq, d) \in Answers
<1> DEFINE su == StopUpdateFor(u.stops, seq, d.stop)
<1>1. d.depart \in Int
  BY DEF Call
<1>2. \A st \in Statuses : Scheduled(d, st) \in Answers
  BY <1>1 DEF Scheduled, Joined, Answers
<1>3. \A delay \in Int : Judged(d, delay) \in Answers
  <2> TAKE delay \in Int
  <2>1. d.depart + delay \in Int
    BY <1>1
  <2> QED
    BY <2>1 DEF Judged, Joined, Answers, Statuses
<1>4. ASSUME Covered(u.stops, seq, d.stop) PROVE Predicted(d, su) \in Answers
  <2> DEFINE ev == IF su.departure.set THEN su.departure ELSE su.arrival
  <2>1. u.stops \in Seq(StopUpdates)
    BY DEF TripUpdates
  <2>2. ev \in StopEvents
    BY <1>4, <2>1, PredictionFound
  <2>3. Predicted(d, su) = IF ~ev.set THEN Joined("unknown", 0, d.depart)
                           ELSE IF ev.time # NoTime THEN Judged(d, ev.time - d.depart)
                           ELSE Judged(d, ev.delay)
    BY DEF Predicted
  <2> HIDE DEF ev
  <2>4. ev.delay \in Int /\ (ev.time # NoTime => ev.time - d.depart \in Int)
    BY <1>1, <2>2 DEF StopEvents
  <2>5. Joined("unknown", 0, d.depart) \in Answers
    BY <1>1 DEF Joined, Answers, Statuses
  <2> QED
    BY <1>3, <2>3, <2>4, <2>5
<1> HIDE DEF su
<1>5. {"unknown", "canceled", "skipped"} \subseteq Statuses
  BY DEF Statuses
<1> QED
  BY <1>2, <1>4, <1>5 DEF Applied, su

LEMMA DepartureAnswers ==
  ASSUME NEW s, \A t \in DOMAIN s : s[t] \in TripUpdates, NEW d, Call(d)
  PROVE  Departure(s, d) \in Answers
<1>1. CASE Described(s, d) = {}
  BY <1>1 DEF Departure, Scheduled, Joined, Answers, Statuses, Call
<1>2. CASE Described(s, d) # {}
  <2> DEFINE n == FirstOf(Described(s, d))
  <2>1. Variants(d) \in Seq(AltTrips)
    BY VariantsOfCall
  <2>2. Described(s, d) \in SUBSET Nat
    <3>1. DOMAIN Variants(d) \subseteq Nat
      BY <2>1
    <3> QED
      BY <3>1 DEF Described
  <2>3. n \in Described(s, d)
    BY <1>2, <2>2, FirstIsLeast
  <2> HIDE DEF n
  <2>4. Variants(d)[n] \in AltTrips /\ Variants(d)[n].trip \in DOMAIN s
    BY <2>1, <2>3 DEF Described
  <2>5. s[Variants(d)[n].trip] \in TripUpdates /\ Variants(d)[n].seq \in Nat
    BY <2>4 DEF AltTrips
  <2>6. Departure(s, d) = Applied(s[Variants(d)[n].trip], Variants(d)[n].seq, d)
    BY <1>2 DEF Departure, n
  <2> QED
    BY <2>5, <2>6, AppliedAnswers
<1> QED
  BY <1>1, <1>2

(* Either end of a leg is a call, and is answered like one.                 *)
LEMMA EndsAnswered ==
  ASSUME NEW s \in Snapshots, NEW leg \in PlannedLegs
  PROVE  Departure(s, FromEnd(leg)) \in Answers /\ Departure(s, ToEnd(leg)) \in Answers
<1>1. leg.alts \in Seq([trip : Trips, fromSeq : Nat, toSeq : Nat])
  BY DEF PlannedLegs
<1> DEFINE T == [trip : Trips, fromSeq : Nat, toSeq : Nat]
           alts == leg.alts
<1>2. \A e \in T : e.trip \in Trips /\ e.fromSeq \in Nat /\ e.toSeq \in Nat
  OBVIOUS
<1>3. alts \in Seq(T)
  BY <1>1
<1> HIDE DEF T, alts
<1>4. /\ DOMAIN alts = 1 .. Len(alts) /\ Len(alts) \in Nat
      /\ \A i \in 1 .. Len(alts) : alts[i] \in T
  BY <1>3
<1>5. \A i \in 1 .. Len(alts) : /\ [trip |-> alts[i].trip, seq |-> alts[i].fromSeq] \in AltTrips
                               /\ [trip |-> alts[i].trip, seq |-> alts[i].toSeq] \in AltTrips
  BY <1>2, <1>4 DEF AltTrips
<1>6. /\ FromEnd(leg).alts \in [1 .. Len(alts) -> AltTrips]
      /\ ToEnd(leg).alts \in [1 .. Len(alts) -> AltTrips]
  BY <1>4, <1>5 DEF FromEnd, ToEnd, alts
<1>7. FromEnd(leg).alts \in Seq(AltTrips) /\ ToEnd(leg).alts \in Seq(AltTrips)
  BY <1>4, <1>6
<1>8. Call(FromEnd(leg)) /\ Call(ToEnd(leg))
  BY <1>7 DEF Call, FromEnd, ToEnd, PlannedLegs
<1> QED
  BY <1>8, DepartureAnswers, JourneysAssumption

-----------------------------------------------------------------------------
(* A journey, and the services of it *)

LEMMA LegsPlanned ==
  ASSUME journey \in Journeys
  PROVE  /\ legs \in Seq(PlannedLegs) /\ Len(legs) \in Nat /\ DOMAIN legs = 1 .. Len(legs)
         /\ \A i \in DOMAIN legs : /\ legs[i] \in PlannedLegs /\ legs[i].walk \in BOOLEAN
                                   /\ legs[i].depart \in Int /\ legs[i].arrive \in Int
         /\ \A k : Crossing(k) \in Int
<1>1. legs \in Seq(PlannedLegs) /\ journey.needed \in Seq(Int)
  BY JourneysAssumption DEF legs
<1>2. \A leg \in PlannedLegs : /\ leg.walk \in BOOLEAN
                               /\ leg.depart \in Int /\ leg.arrive \in Int
  BY DEF PlannedLegs
<1> DEFINE P == PlannedLegs
<1>3. legs \in Seq(P) /\ \A leg \in P : leg.walk \in BOOLEAN /\ leg.depart \in Int /\ leg.arrive \in Int
  BY <1>1, <1>2
<1> HIDE DEF P
<1>4. /\ Len(legs) \in Nat /\ DOMAIN legs = 1 .. Len(legs)
      /\ \A i \in DOMAIN legs : legs[i] \in P
  BY <1>3
<1>5. \A k : Crossing(k) \in Int
  BY <1>1 DEF Crossing
<1> QED
  BY <1>3, <1>4, <1>5 DEF P

(* How many services there are up to a leg.                                 *)
Nth(i) == Cardinality({j \in RidesOf : j <= i})

(* They can be counted, and each has a number of its own.                   *)
LEMMA RidesNumbered ==
  ASSUME journey \in Journeys
  PROVE  /\ RidesOf \subseteq 1 .. Len(legs) /\ Nth(0) = 0
         /\ \A i \in Int : IsFiniteSet({j \in RidesOf : j <= i}) /\ Nth(i) \in Nat
         /\ \A i, j \in RidesOf : i < j => Nth(i) < Nth(j)
         /\ \A i \in RidesOf : Change(Nth(i)) = i
<1> DEFINE to(i) == {j \in RidesOf : j <= i}
<1>1. RidesOf \subseteq 1 .. Len(legs) /\ Len(legs) \in Nat
  BY LegsPlanned DEF RidesOf
<1>0. \A j \in RidesOf : j \in Nat /\ j > 0
  BY <1>1
<1>2. \A i \in Int : IsFiniteSet(to(i)) /\ Nth(i) \in Nat
  <2> TAKE i \in Int
  <2>1. IsFiniteSet(1 .. Len(legs))
    BY <1>1, FS_Interval
  <2>2. IsFiniteSet(to(i))
    <3>1. to(i) \subseteq 1 .. Len(legs)
      BY <1>1
    <3> QED
      BY <2>1, <3>1, FS_Subset
  <2> QED
    BY <2>2, FS_CardinalityType DEF Nth
<1>3. Nth(0) = 0
  <2>1. to(0) = {}
    BY <1>0
  <2> QED
    BY <2>1, FS_EmptySet DEF Nth
<1>4. ASSUME NEW i \in RidesOf, NEW j \in RidesOf, i < j PROVE Nth(i) < Nth(j)
  <2> DEFINE all == to(j)
             but == to(j) \ {j}
  <2>1. i \in Int /\ j \in Int
    BY <1>0
  <2>2. IsFiniteSet(all) /\ j \in all
    BY <1>2, <2>1
  <2>3. to(i) \subseteq but
    <3> SUFFICES ASSUME NEW k \in RidesOf, k <= i PROVE k <= j /\ k # j
      OBVIOUS
    <3>1. k \in Nat
      BY <1>0
    <3> QED
      BY <1>4, <2>1, <3>1
  <2>4. Cardinality(all) = Nth(j) /\ Cardinality(to(i)) = Nth(i) /\ Nth(j) \in Nat /\ Nth(i) \in Nat
    BY <1>2, <2>1 DEF Nth
  <2>5. IsFiniteSet(but) /\ Cardinality(but) = Cardinality(all) - 1
    <3> HIDE DEF all
    <3> QED
      BY <2>2, FS_RemoveElement DEF all
  <2> HIDE DEF but, all, to
  <2>6. Cardinality(to(i)) <= Cardinality(but)
    BY <2>3, <2>5, FS_Subset
  <2> QED
    BY <2>4, <2>5, <2>6
<1>5. ASSUME NEW i \in RidesOf PROVE Change(Nth(i)) = i
  <2>1. \A j \in RidesOf : Nth(j) = Nth(i) => j = i
    <3>1. \A j \in RidesOf : /\ i \in Int /\ j \in Int /\ Nth(i) \in Nat /\ Nth(j) \in Nat
      <4>1. \A j \in RidesOf : j \in Int
        BY <1>0
      <4> QED
        BY <1>2, <4>1
    <3> QED
      BY <1>4, <3>1
  <2>2. Change(Nth(i)) = CHOOSE j \in RidesOf : Nth(j) = Nth(i)
    BY DEF Change, Nth
  <2> QED
    BY <2>1, <2>2
<1> QED
  BY <1>1, <1>2, <1>3, <1>4, <1>5

-----------------------------------------------------------------------------
(* The inductive invariant *)

LiveLegs == [walk : BOOLEAN, status : Statuses, delay : Int, depart : Int, arrive : Int]

(* The legs joined are the first of the journey's, and a walk begins when   *)
(* the leg before it ends.                                                  *)
LegsJoined ==
  /\ live \in Seq(LiveLegs)
  /\ \A i \in 2 .. Len(live) : live[i].walk => live[i].depart = live[i - 1].arrive

(* What the ends of the services joined say, and the worst of it.           *)
SaidBy(i) == {Departure(snapshot, FromEnd(legs[i])).status,
              Departure(snapshot, ToEnd(legs[i])).status}
EndsOf(n) == UNION {SaidBy(i) : i \in {k \in RidesOf : k <= n}}

WorstSoFar ==
  /\ status = "unknown" \/ status \in EndsOf(Len(live))
  /\ \A st \in EndsOf(Len(live)) : ~Worse(st, status)

(* How far the connections are tested.                                      *)
TestedSoFar ==
  /\ phase = "legs" => tight = <<>> /\ ~broken /\ ride = 0
  /\ phase # "legs" => Len(live) = Len(legs)
  /\ phase = "changes" => ride \in RidesOf /\ Nth(ride) = Len(tight) + 1
  /\ phase = "done" => \/ RidesOf = {} /\ tight = <<>>
                       \/ RidesOf # {} /\ Len(tight) = Cardinality(RidesOf) - 1

(* And what was found of each.                                              *)
Spared(k) ==
  /\ live[Change(k + 1)].depart \in Int /\ AtPlatform(k) \in Int
  /\ tight[k] = live[Change(k + 1)].depart - AtPlatform(k)
Missed(k) ==
  /\ tight[k] < 0
  /\ Known(live[Change(k)].status) /\ Known(live[Change(k + 1)].status)

FoundSoFar ==
  /\ \A k \in DOMAIN tight : Spared(k)
  /\ broken <=> \E k \in DOMAIN tight : Missed(k)

JourneyInv ==
  JourneyTypeOK /\ tight \in Seq(Int) /\ LegsJoined /\ WorstSoFar /\ TestedSoFar /\ FoundSoFar

-----------------------------------------------------------------------------
(* The next service, and the way to it *)

LEMMA RidesAreAfter ==
  ASSUME JourneyInv, Len(live) = Len(legs), NEW i \in Nat
  PROVE  RidesAfter(i) = {j \in RidesOf : j > i}
<1>1. DOMAIN live = 1 .. Len(live) /\ DOMAIN legs = 1 .. Len(legs)
  <2>1. journey \in Journeys /\ live \in Seq(LiveLegs)
    BY DEF JourneyInv, JourneyTypeOK, LegsJoined
  <2> QED
    BY <2>1, LegsPlanned
<1>2. \A j \in DOMAIN live : live[j].walk = legs[j].walk
  BY DEF JourneyInv, JourneyTypeOK
<1> QED
  BY <1>1, <1>2 DEF RidesAfter, RidesOf

(* The service found next has the next number, and is reached by walks.     *)
LEMMA NextRide ==
  ASSUME JourneyInv, Len(live) = Len(legs), NEW i \in Nat, RidesAfter(i) # {}
  PROVE  LET n == FirstOf(RidesAfter(i)) IN
         /\ n \in RidesOf /\ n > i /\ Nth(n) = Nth(i) + 1
         /\ \A j \in i + 1 .. n - 1 : live[j].walk
<1> DEFINE n == FirstOf(RidesAfter(i))
           to(k) == {j \in RidesOf : j <= k}
<1>1. /\ journey \in Journeys /\ live \in Seq(LiveLegs)
      /\ \A j \in DOMAIN live : live[j].walk = legs[j].walk
  BY DEF JourneyInv, JourneyTypeOK, LegsJoined
<1>2. RidesAfter(i) = {j \in RidesOf : j > i}
  BY RidesAreAfter
<1>3. \A j \in RidesOf : j \in Nat
  <2>1. RidesOf \subseteq 1 .. Len(legs) /\ Len(legs) \in Nat
    BY <1>1, RidesNumbered, LegsPlanned
  <2> QED
    BY <2>1
<1>4. n \in RidesAfter(i) /\ \A k \in RidesAfter(i) : n <= k
  <2>1. RidesAfter(i) \in SUBSET Nat
    BY <1>2, <1>3
  <2> QED
    BY <2>1, FirstIsLeast
<1> HIDE DEF n
<1>5. n \in RidesOf /\ n \in Nat /\ n > i /\ \A k \in RidesOf : k > i => n <= k
  BY <1>2, <1>3, <1>4
<1>6. Nth(n) = Nth(i) + 1
  <2>1. to(n) = to(i) \cup {n} /\ n \notin to(i)
    <3>1. \A k \in RidesOf : k <= n <=> (k <= i \/ k = n)
      BY <1>3, <1>5
    <3>2. \A k : k \in to(n) <=> k \in to(i) \/ k = n
      BY <1>5, <3>1
    <3>3. n \notin to(i)
      BY <1>5
    <3> HIDE DEF to
    <3> QED
      BY <3>2, <3>3
  <2>2. IsFiniteSet(to(i))
    BY <1>1, RidesNumbered
  <2> HIDE DEF to
  <2>3. Cardinality(to(n)) = Cardinality(to(i)) + 1
    BY <2>1, <2>2, FS_AddElement
  <2> QED
    BY <2>3 DEF Nth, to
<1>7. ASSUME NEW j \in i + 1 .. n - 1 PROVE live[j].walk
  <2>1. j \in Nat /\ j > i /\ ~ n <= j /\ j > 0 /\ j < n
    BY <1>5
  <2>2. j \notin RidesOf
    BY <1>5, <2>1
  <2>3. n <= Len(legs) /\ Len(legs) \in Nat
    <3>1. RidesOf \subseteq 1 .. Len(legs) /\ Len(legs) \in Nat
      BY <1>1, RidesNumbered, LegsPlanned
    <3> QED
      BY <1>5, <3>1
  <2>4. j \in 1 .. Len(legs)
    BY <2>1, <2>3, <1>5
  <2>5. DOMAIN legs = 1 .. Len(legs) /\ DOMAIN live = 1 .. Len(live)
    BY <1>1, LegsPlanned
  <2> QED
    BY <1>1, <2>2, <2>4, <2>5 DEF RidesOf
<1> QED
  BY <1>5, <1>6, <1>7 DEF n

(* When none is left, all are counted.                                      *)
LEMMA NoneLeft ==
  ASSUME JourneyInv, Len(live) = Len(legs), NEW i \in Nat, RidesAfter(i) = {}
  PROVE  Nth(i) = Cardinality(RidesOf)
<1>1. \A j \in RidesOf : j \in Nat
  <2>1. RidesOf \subseteq 1 .. Len(legs)
    BY RidesNumbered DEF JourneyInv, JourneyTypeOK
  <2> QED
    BY <2>1
<1>2. {j \in RidesOf : j > i} = {}
  BY RidesAreAfter
<1>3. {j \in RidesOf : j <= i} = RidesOf
  <2> SUFFICES ASSUME NEW j \in RidesOf PROVE j <= i
    OBVIOUS
  <2> QED
    BY <1>1, <1>2
<1> QED
  BY <1>3 DEF Nth

(* Where only walks lie between two services, the passenger who leaves the  *)
(* first when it arrives is at the end of the last walk after that long.    *)
LEMMA WalksTakeTheirTime ==
  ASSUME LegsJoined, NEW i \in 1 .. Len(live), NEW n \in 1 .. Len(live), i < n,
         \A j \in i + 1 .. n - 1 : live[j].walk
  PROVE  /\ live[i].arrive \in Int /\ live[n - 1].arrive \in Int
         /\ OnFoot(i, n) = live[n - 1].arrive - live[i].arrive
<1> DEFINE N == n - 1 - i
           took == [m \in 1 .. N |-> live[i + m].arrive - live[i + m].depart]
<1>1. \A j \in 1 .. Len(live) : live[j].depart \in Int /\ live[j].arrive \in Int
  <2>1. \A j \in 1 .. Len(live) : live[j] \in LiveLegs
    BY DEF LegsJoined
  <2> QED
    BY <2>1 DEF LiveLegs
<1>2. Len(live) \in Nat /\ i \in Nat /\ n \in Nat /\ N \in Nat /\ i + N = n - 1
  <2>1. Len(live) \in Nat
    BY DEF LegsJoined
  <2> QED
    BY <2>1
<1>3. Len(took) = N
  BY <1>2
<1>4. OnFoot(i, n) = TotalOf(took)
  BY DEF OnFoot
<1>5. \A m \in 1 .. N : /\ took[m] = live[i + m].arrive - live[i + m].depart
                        /\ i + m \in 1 .. Len(live) /\ i + (m - 1) \in 1 .. Len(live)
                        /\ live[i + m].depart = live[i + (m - 1)].arrive
  <2> TAKE m \in 1 .. N
  <2>1. /\ i + m \in i + 1 .. n - 1 /\ i + m \in 2 .. Len(live)
        /\ i + (m - 1) = (i + m) - 1 /\ i + (m - 1) \in 1 .. Len(live)
    BY <1>2
  <2>2. live[i + m].depart = live[(i + m) - 1].arrive
    BY <2>1 DEF LegsJoined
  <2>3. took[m] = live[i + m].arrive - live[i + m].depart
    OBVIOUS
  <2> HIDE DEF took, N
  <2> QED
    BY <2>1, <2>2, <2>3
<1> HIDE DEF took, N
<1>6. PICK f : /\ f[0] = 0 /\ TotalOf(took) = f[N]
               /\ \A m \in 1 .. N : f[m] = f[m - 1] + took[m]
  <2>1. Len(took) \in Nat
    BY <1>2, <1>3
  <2>2. \E f : /\ f[0] = 0 /\ TotalOf(took) = f[Len(took)]
               /\ \A m \in 1 .. Len(took) : f[m] = f[m - 1] + took[m]
    BY <2>1, TotalInSteps
  <2> QED
    BY <1>3, <2>2
<1> DEFINE Good == {m \in 0 .. N : f[m] = live[i + m].arrive - live[i].arrive}
<1>7. 0 \in Good
  BY <1>1, <1>2, <1>6
<1>8. ASSUME NEW m \in 1 .. N, m - 1 \in Good PROVE m \in Good
  <2>1. f[m - 1] = live[i + (m - 1)].arrive - live[i].arrive
    BY <1>8
  <2>2. f[m] = f[m - 1] + (live[i + m].arrive - live[i + m].depart)
    BY <1>5, <1>6
  <2>3. /\ live[i + m].arrive \in Int /\ live[i + (m - 1)].arrive \in Int
        /\ live[i].arrive \in Int /\ live[i + m].depart = live[i + (m - 1)].arrive
    BY <1>1, <1>2, <1>5
  <2>4. m \in 0 .. N
    BY <1>2
  <2>5. ASSUME NEW a \in Int, NEW b \in Int, NEW z \in Int, NEW u, NEW v,
               u = b - z, v = u + (a - b)
        PROVE  v = a - z
    BY <2>5
  <2>6. f[m] = live[i + m].arrive - live[i].arrive
    BY <2>1, <2>2, <2>3, <2>5
  <2> QED
    BY <2>4, <2>6
<1>9. N \in Good
  <2> HIDE DEF Good
  <2>1. Good \in SUBSET (0 .. N) /\ N \in 0 .. N
    BY <1>2 DEF Good
  <2> QED
    BY <1>2, <1>7, <1>8, <2>1, UpTo
<1>10. n - 1 \in 1 .. Len(live)
  BY <1>2
<1> QED
  BY <1>1, <1>2, <1>4, <1>6, <1>9, <1>10

-----------------------------------------------------------------------------
(* The worst of what is said *)

LEMMA SeverityOrders ==
  ASSUME NEW st \in Statuses
  PROVE  /\ Severity(st) \in 0 .. 4
         /\ st = "canceled" <=> Severity(st) = 4
         /\ st = "skipped" <=> Severity(st) = 3
         /\ st = "late" <=> Severity(st) = 2
         /\ st = "unknown" <=> Severity(st) = 0
BY DEF Statuses, Severity

LEMMA WorstOfTwo ==
  ASSUME NEW a \in Statuses, NEW b \in Statuses
  PROVE  /\ Worst(a, b) \in {a, b}
         /\ \A st \in Statuses : ~Worse(st, a) \/ ~Worse(st, b) => ~Worse(st, Worst(a, b))
<1>1. \A st \in Statuses : Severity(st) \in 0 .. 4
  BY SeverityOrders
<1> QED
  BY <1>1 DEF Worst, Worse

(* What one more leg adds to what is said, and what is said is a status.    *)
LEMMA EndsSay ==
  ASSUME journey \in Journeys, snapshot \in Snapshots
  PROVE  /\ \A n : EndsOf(n) \subseteq Statuses
         /\ \A n \in Nat : EndsOf(n + 1) =
              EndsOf(n) \cup (IF n + 1 \in RidesOf THEN SaidBy(n + 1) ELSE {})
         /\ EndsOf(0) = {} /\ EndsOf(Len(legs)) = EndStatuses
<1>1. RidesOf \subseteq 1 .. Len(legs) /\ Len(legs) \in Nat
  BY RidesNumbered, LegsPlanned
<1>2. \A k \in RidesOf : k \in Nat /\ k > 0 /\ k <= Len(legs)
  BY <1>1
<1>3. \A n, st : st \in EndsOf(n) <=> \E k \in RidesOf : k <= n /\ st \in SaidBy(k)
  BY DEF EndsOf
<1>4. \A k \in RidesOf : SaidBy(k) \subseteq Statuses
  <2> TAKE k \in RidesOf
  <2>1. legs[k] \in PlannedLegs
    BY LegsPlanned DEF RidesOf
  <2>2. \A r \in Answers : r.status \in Statuses
    BY DEF Answers
  <2> QED
    BY <2>1, <2>2, EndsAnswered DEF SaidBy
<1>5. \A n : EndsOf(n) \subseteq Statuses
  BY <1>3, <1>4
<1>6. ASSUME NEW n \in Nat
      PROVE  EndsOf(n + 1) = EndsOf(n) \cup (IF n + 1 \in RidesOf THEN SaidBy(n + 1) ELSE {})
  <2>1. \A k \in RidesOf : k <= n + 1 <=> k <= n \/ k = n + 1
    BY <1>2
  <2> QED
    BY <1>3, <2>1
<1>7. EndsOf(0) = {}
  BY <1>2, <1>3
<1>8. EndsOf(Len(legs)) = EndStatuses
  <2>1. {k \in RidesOf : k <= Len(legs)} = RidesOf
    BY <1>2
  <2> QED
    BY <2>1 DEF EndsOf, SaidBy, EndStatuses
<1> QED
  BY <1>5, <1>6, <1>7, <1>8

-----------------------------------------------------------------------------
(* What no step changes *)

LEMMA SameJourney ==
  ASSUME UNCHANGED <<snapshot, journey>>
  PROVE  /\ legs' = legs /\ RidesOf' = RidesOf
         /\ \A n : EndsOf(n)' = EndsOf(n) /\ Nth(n)' = Nth(n) /\ Change(n)' = Change(n)
         /\ \A n : Crossing(n)' = Crossing(n)
<1>1. legs' = legs
  BY DEF legs
<1>2. RidesOf' = RidesOf
  BY <1>1 DEF RidesOf
<1>3. \A n : SaidBy(n)' = SaidBy(n)
  BY <1>1 DEF SaidBy
<1>4. \A n : EndsOf(n)' = EndsOf(n)
  BY <1>2, <1>3 DEF EndsOf
<1>5. \A n : Nth(n)' = Nth(n) /\ Change(n)' = Change(n)
  BY <1>2 DEF Nth, Change
<1>6. \A n : Crossing(n)' = Crossing(n)
  BY DEF Crossing
<1> QED
  BY <1>1, <1>2, <1>4, <1>5, <1>6

-----------------------------------------------------------------------------
(* Every step keeps the invariant *)

LEMMA JourneyBegins == JourneyInit => JourneyInv
<1> SUFFICES ASSUME JourneyInit PROVE JourneyInv
  OBVIOUS
<1>1. journey \in Journeys /\ snapshot \in Snapshots
  BY DEF JourneyInit
<1>2. Len(legs) \in Nat /\ live \in Seq(LiveLegs) /\ Len(live) = 0 /\ DOMAIN live = {}
  BY <1>1, LegsPlanned DEF JourneyInit
<1>3. JourneyTypeOK
  <2>1. ride \in 0 .. Len(live) /\ Len(live) <= Len(legs)
    BY <1>2 DEF JourneyInit
  <2>2. status \in Statuses /\ broken \in BOOLEAN /\ phase \in {"legs", "changes", "done"}
    BY DEF JourneyInit, Statuses
  <2>3. \A k \in DOMAIN tight : tight[k] \in Int
    BY DEF JourneyInit
  <2> QED
    BY <1>1, <1>2, <2>1, <2>2, <2>3 DEF JourneyTypeOK
<1>4. LegsJoined
  BY <1>2 DEF LegsJoined
<1>5. WorstSoFar
  BY <1>1, <1>2, EndsSay DEF WorstSoFar, JourneyInit
<1>6. tight \in Seq(Int) /\ TestedSoFar /\ FoundSoFar
  BY DEF JourneyInit, TestedSoFar, FoundSoFar
<1> QED
  BY <1>3, <1>4, <1>5, <1>6 DEF JourneyInv

(* A leg is joined that begins, if it is a walk, where the last one ends.   *)
LEMMA LegAppended ==
  ASSUME JourneyInv, phase = "legs", Len(live) < Len(legs),
         NEW leg \in LiveLegs, leg.walk = NextLeg.walk,
         leg.walk /\ live # <<>> => leg.depart = live[Len(live)].arrive,
         live' = Append(live, leg), status' \in Statuses, WorstSoFar',
         UNCHANGED <<snapshot, journey, ride, tight, broken, phase>>
  PROVE  JourneyInv'
<1> DEFINE N == Len(live)
<1>1. /\ journey \in Journeys /\ live \in Seq(LiveLegs) /\ N \in Nat /\ N + 1 <= Len(legs)
      /\ Len(legs) \in Nat /\ DOMAIN live = 1 .. N
  <2>1. journey \in Journeys /\ live \in Seq(LiveLegs)
    BY DEF JourneyInv, JourneyTypeOK, LegsJoined
  <2> QED
    BY <2>1, LegsPlanned
<1>2. /\ live' \in Seq(LiveLegs) /\ Len(live') = N + 1 /\ DOMAIN live' = 1 .. N + 1
      /\ \A i \in 1 .. N : live'[i] = live[i]
      /\ live'[N + 1] = leg
  BY <1>1, Appended
<1>3. legs' = legs
  BY DEF legs
<1>4. \A i \in 1 .. N : live[i].status \in Statuses /\ live[i].walk = legs[i].walk
  BY <1>1 DEF JourneyInv, JourneyTypeOK
<1>5. \A i \in 1 .. N + 1 : live'[i].status \in Statuses /\ live'[i].walk = legs[i].walk
  <2>1. leg.status \in Statuses /\ leg.walk = legs[N + 1].walk
    BY DEF LiveLegs, NextLeg
  <2>2. \A i \in 1 .. N + 1 : i \in 1 .. N \/ i = N + 1
    BY <1>1
  <2> QED
    BY <1>2, <1>4, <2>1, <2>2
<1>6. JourneyTypeOK'
  <2>1. /\ snapshot' \in Snapshots /\ journey' \in Journeys /\ ride' \in 0 .. Len(live')
        /\ (\A k \in DOMAIN tight' : tight'[k] \in Int)
        /\ broken' \in BOOLEAN /\ phase' \in {"legs", "changes", "done"}
    BY <1>1, <1>2 DEF JourneyInv, JourneyTypeOK
  <2> QED
    BY <1>1, <1>2, <1>3, <1>5, <2>1 DEF JourneyTypeOK
<1>7. LegsJoined'
  <2>1. ASSUME NEW i \in 2 .. N + 1, live'[i].walk PROVE live'[i].depart = live'[i - 1].arrive
    <3>1. CASE i \in 2 .. N
      <4>1. i \in 1 .. N /\ i - 1 \in 1 .. N
        BY <3>1, <1>1
      <4>2. live[i].walk => live[i].depart = live[i - 1].arrive
        BY <3>1 DEF JourneyInv, LegsJoined
      <4> QED
        BY <1>2, <2>1, <4>1, <4>2
    <3>2. CASE i = N + 1
      <4>1. i - 1 = N /\ N \in 1 .. N /\ live # <<>>
        BY <1>1, <3>2
      <4> QED
        BY <1>2, <2>1, <3>2, <4>1
    <3> QED
      BY <1>1, <3>1, <3>2
  <2> QED
    BY <1>2, <2>1 DEF LegsJoined
<1>8. tight' \in Seq(Int) /\ TestedSoFar' /\ FoundSoFar'
  BY DEF JourneyInv, TestedSoFar, FoundSoFar
<1> QED
  BY <1>6, <1>7, <1>8 DEF JourneyInv

LEMMA JoinWalkKeeps == ASSUME JourneyInv, JoinWalk PROVE JourneyInv'
<1> DEFINE N == Len(live)
           begin == IF live = <<>> THEN NextLeg.depart ELSE live[N].arrive
           leg == LiveLeg(TRUE, "unknown", 0, begin, begin + (NextLeg.arrive - NextLeg.depart))
<1>1. /\ journey \in Journeys /\ snapshot \in Snapshots /\ live \in Seq(LiveLegs)
      /\ N \in Nat /\ Len(legs) \in Nat /\ phase = "legs" /\ N < Len(legs)
      /\ status \in Statuses
  <2>1. journey \in Journeys /\ snapshot \in Snapshots /\ live \in Seq(LiveLegs)
    BY DEF JourneyInv, JourneyTypeOK, LegsJoined
  <2> QED
    BY <2>1, LegsPlanned DEF JoinWalk, JourneyInv, JourneyTypeOK
<1>2. UNCHANGED <<snapshot, journey, status, ride, tight, broken, phase>>
  BY DEF JoinWalk
<1>3. NextLeg.walk /\ NextLeg.walk \in BOOLEAN /\ NextLeg.depart \in Int /\ NextLeg.arrive \in Int
  <2>1. N + 1 \in DOMAIN legs
    BY <1>1, LegsPlanned
  <2> QED
    BY <1>1, <2>1, LegsPlanned DEF JoinWalk, NextLeg
<1>4. begin \in Int
  <2>1. live # <<>> => live[N] \in LiveLegs
    BY <1>1
  <2> QED
    BY <1>3, <2>1 DEF LiveLegs
<1>5. leg \in LiveLegs /\ leg.walk = NextLeg.walk /\ (live # <<>> => leg.depart = live[N].arrive)
  <2>1. "unknown" \in Statuses
    BY DEF Statuses
  <2> HIDE DEF begin
  <2>2. leg \in LiveLegs /\ leg.walk = TRUE /\ leg.depart = begin
    BY <1>3, <1>4, <2>1 DEF LiveLegs, LiveLeg
  <2> QED
    BY <1>3, <2>2 DEF begin
<1>6. live' = Append(live, leg)
  BY DEF JoinWalk
<1>7. WorstSoFar'
  <2>1. N + 1 \notin RidesOf
    BY <1>3 DEF RidesOf, NextLeg
  <2>2. EndsOf(N + 1) = EndsOf(N)
    BY <1>1, <2>1, EndsSay
  <2>3. Len(live') = N + 1
    BY <1>1, <1>5, <1>6, Appended
  <2>4. \A n : EndsOf(n)' = EndsOf(n)
    BY <1>2, SameJourney
  <2>5. EndsOf(Len(live))' = EndsOf(N + 1)
    BY <2>3, <2>4
  <2>6. WorstSoFar
    BY DEF JourneyInv
  <2> QED
    BY <1>2, <2>2, <2>5, <2>6 DEF WorstSoFar
<1> HIDE DEF leg, N
<1>8. QED
  BY <1>1, <1>2, <1>5, <1>6, <1>7, LegAppended DEF N

LEMMA JoinRideKeeps == ASSUME JourneyInv, JoinRide PROVE JourneyInv'
<1> DEFINE N == Len(live)
           dep == Departure(snapshot, FromEnd(NextLeg))
           arr == Departure(snapshot, ToEnd(NextLeg))
           st  == Worst(arr.status, dep.status)
           delay == IF Known(arr.status) THEN arr.delay ELSE dep.delay
           leg == LiveLeg(FALSE, st, delay, dep.estimated, arr.estimated)
<1>1. /\ journey \in Journeys /\ snapshot \in Snapshots /\ live \in Seq(LiveLegs)
      /\ N \in Nat /\ Len(legs) \in Nat /\ phase = "legs" /\ N < Len(legs)
      /\ status \in Statuses
  <2>1. journey \in Journeys /\ snapshot \in Snapshots /\ live \in Seq(LiveLegs)
    BY DEF JourneyInv, JourneyTypeOK, LegsJoined
  <2> QED
    BY <2>1, LegsPlanned DEF JoinRide, JourneyInv, JourneyTypeOK
<1>2. UNCHANGED <<snapshot, journey, ride, tight, broken, phase>>
  BY DEF JoinRide
<1>3. N + 1 \in RidesOf /\ NextLeg \in PlannedLegs /\ NextLeg.walk = FALSE
  <2>1. N + 1 \in DOMAIN legs
    BY <1>1, LegsPlanned
  <2>2. NextLeg \in PlannedLegs /\ NextLeg.walk \in BOOLEAN
    BY <1>1, <2>1, LegsPlanned DEF NextLeg
  <2>3. ~NextLeg.walk
    BY DEF JoinRide
  <2> QED
    BY <2>1, <2>2, <2>3 DEF NextLeg, RidesOf
<1>4. /\ dep.status \in Statuses /\ dep.delay \in Int /\ dep.estimated \in Int
      /\ arr.status \in Statuses /\ arr.delay \in Int /\ arr.estimated \in Int
  <2>1. dep \in Answers /\ arr \in Answers
    BY <1>1, <1>3, EndsAnswered
  <2> HIDE DEF dep, arr
  <2> QED
    BY <2>1 DEF Answers
<1>5. live' = Append(live, leg) /\ status' = Worst(st, status)
  BY DEF JoinRide
<1>6. SaidBy(N + 1) = {dep.status, arr.status}
  BY DEF SaidBy, NextLeg
<1> HIDE DEF dep, arr
<1>7. st \in {dep.status, arr.status} /\ st \in Statuses /\ status' \in {st, status}
  BY <1>1, <1>4, <1>5, WorstOfTwo
<1>8. leg \in LiveLegs /\ leg.walk = NextLeg.walk /\ ~leg.walk
  <2>1. delay \in Int
    BY <1>4
  <2> HIDE DEF st, delay
  <2> QED
    BY <1>3, <1>4, <1>7, <2>1 DEF LiveLegs, LiveLeg
<1> HIDE DEF leg
<1>9. WorstSoFar'
  <2>1. EndsOf(N + 1) = EndsOf(N) \cup {dep.status, arr.status}
    BY <1>1, <1>3, <1>6, EndsSay
  <2>2. Len(live') = N + 1
    BY <1>1, <1>5, <1>8, Appended
  <2>3. \A n : EndsOf(n)' = EndsOf(n)
    BY <1>2, SameJourney
  <2>4. EndsOf(Len(live))' = EndsOf(N) \cup {dep.status, arr.status}
    BY <2>1, <2>2, <2>3
  <2>5. EndsOf(N) \subseteq Statuses
    BY <1>1, EndsSay
  <2>6. status = "unknown" \/ status \in EndsOf(N)
    BY DEF JourneyInv, WorstSoFar
  <2>7. \A s \in EndsOf(N) : ~Worse(s, status)
    BY DEF JourneyInv, WorstSoFar
  <2>8. \A s \in Statuses : (s = dep.status \/ s = arr.status) => ~Worse(s, st)
    <3>1. \A s \in Statuses : ~Worse(s, s)
      BY SeverityOrders DEF Worse
    <3> QED
      BY <1>4, <3>1, WorstOfTwo
  <2> HIDE DEF st
  <2>9. \A s \in Statuses : ~Worse(s, st) \/ ~Worse(s, status) => ~Worse(s, Worst(st, status))
    BY <1>1, <1>7, WorstOfTwo
  <2>10. \A s \in EndsOf(N) \cup {dep.status, arr.status} : ~Worse(s, status')
    BY <1>4, <1>5, <2>5, <2>7, <2>8, <2>9
  <2>11. status' = "unknown" \/ status' \in EndsOf(N) \cup {dep.status, arr.status}
    BY <1>7, <2>6
  <2> QED
    BY <2>4, <2>10, <2>11 DEF WorstSoFar
<1>10. status' \in Statuses
  BY <1>1, <1>7
<1> HIDE DEF st, N
<1> QED
  BY <1>1, <1>2, <1>5, <1>8, <1>9, <1>10, LegAppended DEF N

(* Once the legs are joined they, and what was said of them, stay.          *)
LEMMA StillJoined ==
  ASSUME JourneyInv, UNCHANGED <<snapshot, journey, live, status>>
  PROVE  /\ LegsJoined' /\ WorstSoFar'
         /\ ride' \in 0 .. Len(live) /\ tight' \in Seq(Int) /\ broken' \in BOOLEAN
              /\ phase' \in {"legs", "changes", "done"} => JourneyTypeOK'
         /\ \A k : tight'[k] = tight[k] => (Spared(k)' <=> Spared(k)) /\ (Missed(k)' <=> Missed(k))
<1>1. legs' = legs /\ (\A n : EndsOf(n)' = EndsOf(n)) /\ \A n : Change(n)' = Change(n)
  BY SameJourney
<1>2. LegsJoined'
  BY DEF JourneyInv, LegsJoined
<1>3. WorstSoFar'
  <2>1. EndsOf(Len(live))' = EndsOf(Len(live))
    BY <1>1
  <2> QED
    BY <2>1 DEF JourneyInv, WorstSoFar
<1>4. ASSUME ride' \in 0 .. Len(live), tight' \in Seq(Int), broken' \in BOOLEAN,
             phase' \in {"legs", "changes", "done"}
      PROVE  JourneyTypeOK'
  <2>1. \A k \in DOMAIN tight' : tight'[k] \in Int
    BY <1>4
  <2> QED
    BY <1>1, <1>4, <2>1 DEF JourneyInv, JourneyTypeOK
<1>5. \A k : AtPlatform(k)' = AtPlatform(k)
  BY <1>1, SameJourney DEF AtPlatform
<1>6. ASSUME NEW k, tight'[k] = tight[k]
      PROVE  (Spared(k)' <=> Spared(k)) /\ (Missed(k)' <=> Missed(k))
  BY <1>1, <1>5, <1>6 DEF Spared, Missed
<1> QED
  BY <1>2, <1>3, <1>4, <1>6

LEMMA CloseKeeps == ASSUME JourneyInv, Close PROVE JourneyInv'
<1>1. /\ journey \in Journeys /\ live \in Seq(LiveLegs) /\ Len(live) \in Nat
      /\ phase = "legs" /\ Len(live) = Len(legs)
      /\ UNCHANGED <<snapshot, journey, live, status, tight, broken>>
  <2>1. journey \in Journeys /\ live \in Seq(LiveLegs)
    BY DEF JourneyInv, JourneyTypeOK, LegsJoined
  <2> QED
    BY <2>1 DEF Close
<1>2. tight = <<>> /\ broken = FALSE /\ ride = 0
  BY <1>1 DEF JourneyInv, JourneyTypeOK, TestedSoFar
<1>3. RidesOf \subseteq 1 .. Len(live) /\ Nth(0) = 0
  BY <1>1, RidesNumbered
<1>4. legs' = legs /\ RidesOf' = RidesOf /\ \A n : Nth(n)' = Nth(n)
  BY <1>1, SameJourney
<1>5. ride' \in 0 .. Len(live) /\ phase' \in {"changes", "done"} /\ TestedSoFar'
  <2>1. CASE RidesAfter(0) = {}
    <3>1. phase' = "done" /\ ride' = ride
      BY <2>1 DEF Close
    <3>2. RidesOf = {}
      <4>1. {j \in RidesOf : j > 0} = {}
        BY <1>1, <2>1, RidesAreAfter
      <4>2. \A j \in RidesOf : j > 0
        BY <1>3
      <4> QED
        BY <4>1, <4>2
    <3> QED
      BY <1>1, <1>2, <1>4, <3>1, <3>2 DEF TestedSoFar
  <2>2. CASE RidesAfter(0) # {}
    <3>1. phase' = "changes" /\ ride' = FirstOf(RidesAfter(0))
      BY <2>2 DEF Close
    <3>2. ride' \in RidesOf /\ Nth(ride') = 0 + 1
      BY <1>1, <1>3, <2>2, <3>1, NextRide
    <3>3. Nth(ride)' = Nth(ride')
      BY <1>4 DEF Nth
    <3>4. ride' \in 0 .. Len(live) /\ Len(tight') = 0
      BY <1>1, <1>2, <1>3, <3>2
    <3> QED
      BY <1>1, <1>4, <3>1, <3>2, <3>3, <3>4 DEF TestedSoFar
  <2> QED
    BY <2>1, <2>2
<1>6. tight' \in Seq(Int) /\ broken' \in BOOLEAN /\ FoundSoFar'
  <2>1. tight' = <<>> /\ broken' = FALSE /\ DOMAIN tight' = {}
    BY <1>1, <1>2
  <2>2. FoundSoFar'
    BY <2>1 DEF FoundSoFar
  <2>3. tight' \in Seq(Int)
    BY <1>1 DEF JourneyInv
  <2>4. broken' \in BOOLEAN
    BY <2>1
  <2> QED
    BY <2>2, <2>3, <2>4
<1> QED
  BY <1>1, <1>5, <1>6, StillJoined DEF JourneyInv

LEMMA FinishKeeps == ASSUME JourneyInv, Finish PROVE JourneyInv'
<1>1. /\ journey \in Journeys /\ Len(live) = Len(legs) /\ ride \in RidesOf
      /\ Nth(ride) = Len(tight) + 1 /\ Len(tight) \in Nat /\ ride \in 0 .. Len(live)
  BY DEF Finish, JourneyInv, JourneyTypeOK, TestedSoFar
<1>2. /\ phase' = "done" /\ RidesAfter(ride) = {}
      /\ UNCHANGED <<snapshot, journey, live, status, ride, tight, broken>>
  BY DEF Finish
<1>3. Len(tight) = Cardinality(RidesOf) - 1
  BY <1>1, <1>2, NoneLeft
<1>4. legs' = legs /\ RidesOf' = RidesOf
  BY <1>2, SameJourney
<1>5. TestedSoFar'
  BY <1>1, <1>2, <1>3, <1>4 DEF TestedSoFar
<1>6. FoundSoFar'
  <2>1. \A k : (Spared(k)' <=> Spared(k)) /\ (Missed(k)' <=> Missed(k))
    BY <1>2, StillJoined
  <2> QED
    BY <1>2, <2>1 DEF FoundSoFar, JourneyInv
<1>7. tight' \in Seq(Int) /\ broken' \in BOOLEAN
  BY <1>2 DEF JourneyInv, JourneyTypeOK
<1> QED
  BY <1>1, <1>2, <1>5, <1>6, <1>7, StillJoined DEF JourneyInv

LEMMA ConnectKeeps == ASSUME JourneyInv, Connect PROVE JourneyInv'
<1> PICK K : K = Len(tight) + 1
  OBVIOUS
<1> DEFINE next == FirstOf(RidesAfter(ride))
           slack == Slack(ride, next, K)
           missed == slack < 0 /\ Known(live[ride].status) /\ Known(live[next].status)
<1>1. /\ journey \in Journeys /\ live \in Seq(LiveLegs) /\ tight \in Seq(Int)
      /\ Len(live) = Len(legs) /\ ride \in RidesOf /\ Nth(ride) = K /\ broken \in BOOLEAN
      /\ phase = "changes" /\ LegsJoined
  BY DEF Connect, JourneyInv, JourneyTypeOK, TestedSoFar, LegsJoined
<1>2. /\ tight' = Append(tight, slack) /\ broken' = (broken \/ missed) /\ ride' = next
      /\ RidesAfter(ride) # {}
      /\ UNCHANGED <<snapshot, journey, live, status, phase>>
  BY DEF Connect
<1>3. RidesOf \subseteq 1 .. Len(live) /\ Len(live) \in Nat /\ ride \in 1 .. Len(live) /\ ride \in Nat
  <2>1. RidesOf \subseteq 1 .. Len(live) /\ Len(live) \in Nat
    BY <1>1, RidesNumbered
  <2> QED
    BY <1>1, <2>1
<1>4. /\ next \in RidesOf /\ next > ride /\ Nth(next) = K + 1 /\ next \in 1 .. Len(live)
      /\ \A j \in ride + 1 .. next - 1 : live[j].walk
  BY <1>1, <1>2, <1>3, NextRide
<1> HIDE DEF next
<1>5. Change(K) = ride /\ Change(K + 1) = next
  BY <1>1, <1>4, RidesNumbered
<1>6. /\ live[ride].arrive \in Int /\ live[next - 1].arrive \in Int
      /\ OnFoot(ride, next) = live[next - 1].arrive - live[ride].arrive
  BY <1>1, <1>3, <1>4, WalksTakeTheirTime
<1>7. live[next].depart \in Int /\ Crossing(K) \in Int
  <2>1. live[next] \in LiveLegs
    BY <1>1, <1>4
  <2> QED
    BY <1>1, <2>1, LegsPlanned DEF LiveLegs
<1>8. /\ AtPlatform(K) \in Int /\ slack \in Int
      /\ slack = live[next].depart - AtPlatform(K)
  <2>1. AtPlatform(K) = live[next - 1].arrive + Crossing(K)
    BY <1>5 DEF AtPlatform
  <2>2. slack = live[next].depart - live[ride].arrive - OnFoot(ride, next) - Crossing(K)
    BY DEF Slack
  <2> HIDE DEF slack
  <2> QED
    BY <1>6, <1>7, <2>1, <2>2
<1> HIDE DEF slack
<1>9. /\ tight' \in Seq(Int) /\ Len(tight') = K /\ K \in Nat \ {0}
      /\ DOMAIN tight = 1 .. K - 1 /\ DOMAIN tight' = 1 .. K
      /\ \A k \in 1 .. K - 1 : tight'[k] = tight[k]
      /\ tight'[K] = slack
  BY <1>1, <1>2, <1>8, Appended
<1>10. \A k \in 1 .. K : k \in 1 .. K - 1 \/ k = K
  BY <1>9
<1>11. \A k \in 1 .. K - 1 : (Spared(k)' <=> Spared(k)) /\ (Missed(k)' <=> Missed(k))
  BY <1>2, <1>9, StillJoined
<1>12. Spared(K)' /\ (Missed(K)' <=> missed)
  <2>1. Change(K)' = ride /\ Change(K + 1)' = next /\ AtPlatform(K)' = AtPlatform(K)
    BY <1>2, <1>5, SameJourney DEF AtPlatform
  <2>2. Spared(K)'
    BY <1>2, <1>7, <1>8, <1>9, <2>1 DEF Spared
  <2> QED
    BY <1>2, <1>9, <2>1, <2>2 DEF Missed
<1>13. FoundSoFar'
  <2>1. /\ \A k \in 1 .. K - 1 : Spared(k)
        /\ broken <=> \E k \in 1 .. K - 1 : Missed(k)
    BY <1>9 DEF JourneyInv, FoundSoFar
  <2>2. \A k \in 1 .. K : Spared(k)'
    BY <1>10, <1>11, <1>12, <2>1
  <2>3. (\E k \in 1 .. K : Missed(k)') <=> (\E k \in 1 .. K - 1 : Missed(k)) \/ missed
    <3>1. K \in 1 .. K /\ \A k \in 1 .. K - 1 : k \in 1 .. K
      BY <1>9
    <3> HIDE DEF missed
    <3> QED
      BY <1>10, <1>11, <1>12, <3>1
  <2>4. broken' <=> broken \/ missed
    BY <1>2
  <2> HIDE DEF missed
  <2> QED
    BY <1>9, <2>1, <2>2, <2>3, <2>4 DEF FoundSoFar
<1>14. TestedSoFar'
  <2>1. legs' = legs /\ RidesOf' = RidesOf /\ Nth(ride)' = Nth(ride')
    BY <1>2, SameJourney DEF Nth
  <2> QED
    BY <1>1, <1>2, <1>4, <1>9, <2>1 DEF TestedSoFar
<1>15. ride' \in 0 .. Len(live) /\ broken' \in BOOLEAN /\ phase' \in {"legs", "changes", "done"}
  BY <1>1, <1>2, <1>4
<1> QED
  BY <1>2, <1>9, <1>13, <1>14, <1>15, StillJoined DEF JourneyInv

LEMMA JourneyStepKeeps == JourneyInv /\ [JourneyNext]_journeyVars => JourneyInv'
<1> SUFFICES ASSUME JourneyInv, [JourneyNext]_journeyVars PROVE JourneyInv'
  OBVIOUS
<1>1. CASE JoinWalk
  BY <1>1, JoinWalkKeeps
<1>2. CASE JoinRide
  BY <1>2, JoinRideKeeps
<1>3. CASE Close
  BY <1>3, CloseKeeps
<1>4. CASE Connect
  BY <1>4, ConnectKeeps
<1>5. CASE Finish
  BY <1>5, FinishKeeps
<1>6. CASE UNCHANGED journeyVars
  <2>1. UNCHANGED <<snapshot, journey, live, status, ride, tight, broken, phase>>
    BY <1>6 DEF journeyVars
  <2>2. LegsJoined' /\ WorstSoFar' /\ \A k : (Spared(k)' <=> Spared(k)) /\ (Missed(k)' <=> Missed(k))
    BY <2>1, StillJoined
  <2>3. FoundSoFar'
    BY <2>1, <2>2 DEF JourneyInv, FoundSoFar
  <2>4. TestedSoFar'
    <3>1. legs' = legs /\ RidesOf' = RidesOf /\ Nth(ride)' = Nth(ride)
      BY <2>1, SameJourney DEF Nth
    <3> QED
      BY <2>1, <3>1 DEF JourneyInv, TestedSoFar
  <2>5. JourneyTypeOK' /\ tight' \in Seq(Int)
    <3>1. legs' = legs
      BY <2>1, SameJourney
    <3> QED
      BY <2>1, <3>1 DEF JourneyInv, JourneyTypeOK
  <2> QED
    BY <2>2, <2>3, <2>4, <2>5 DEF JourneyInv
<1> QED
  BY <1>1, <1>2, <1>3, <1>4, <1>5, <1>6 DEF JourneyNext

LEMMA JourneyHolds == JourneySpec => []JourneyInv
BY JourneyBegins, JourneyStepKeeps, PTL DEF JourneySpec

(* What a journey is joined with and tested for stays within its types:     *)
(* the legs joined so far are the journey's own, rides as rides and walks   *)
(* as walks, each with a status there is.                                   *)
THEOREM JourneyTypesHold == JourneySpec => []JourneyTypeOK
<1>1. JourneyInv => JourneyTypeOK
  BY DEF JourneyInv
<1> QED
  BY <1>1, JourneyHolds, PTL

(* Live.Journey rolls up both ends of every leg, and no order of the legs   *)
(* hides a cancelled, skipped or late one behind another.                   *)
THEOREM StatusIsWorstHolds == JourneySpec => []StatusIsWorst
<1>1. JourneyInv => StatusIsWorst
  <2> SUFFICES ASSUME JourneyInv, phase = "done"
               PROVE  LET says(st) == st \in EndStatuses IN
                      /\ says("canceled") => status = "canceled"
                      /\ says("skipped") /\ ~says("canceled") => status = "skipped"
                      /\ says("late") /\ ~says("canceled") /\ ~says("skipped") => status = "late"
                      /\ status = "unknown" <=> EndStatuses \subseteq {"unknown"}
    BY DEF StatusIsWorst
  <2>1. EndsOf(Len(live)) = EndStatuses /\ EndStatuses \subseteq Statuses
    <3>1. journey \in Journeys /\ snapshot \in Snapshots /\ Len(live) = Len(legs)
      BY DEF JourneyInv, JourneyTypeOK, TestedSoFar
    <3>2. EndsOf(Len(live)) = EndStatuses
      BY <3>1, EndsSay
    <3> QED
      BY <3>1, <3>2, EndsSay
  <2>2. status \in Statuses /\ (status = "unknown" \/ status \in EndStatuses)
    BY <2>1 DEF JourneyInv, JourneyTypeOK, WorstSoFar
  <2>3. \A st \in EndStatuses : Severity(status) >= Severity(st)
    <3>1. \A st \in EndStatuses : ~Worse(st, status)
      BY <2>1 DEF JourneyInv, WorstSoFar
    <3>2. \A st \in Statuses : Severity(st) \in 0 .. 4
      BY SeverityOrders
    <3> QED
      BY <2>1, <2>2, <3>1, <3>2 DEF Worse
  <2>4. /\ Severity("canceled") = 4 /\ Severity("skipped") = 3
        /\ Severity("late") = 2
    BY DEF Severity
  <2>5. /\ Severity(status) \in 0 .. 4
        /\ status = "canceled" <=> Severity(status) = 4
        /\ status = "skipped" <=> Severity(status) = 3
        /\ status = "late" <=> Severity(status) = 2
        /\ status = "unknown" <=> Severity(status) = 0
    BY <2>2, SeverityOrders
  <2>6. "canceled" \in EndStatuses => status = "canceled"
    BY <2>3, <2>4, <2>5
  <2>7. "skipped" \in EndStatuses /\ "canceled" \notin EndStatuses => status = "skipped"
    BY <2>2, <2>3, <2>4, <2>5
  <2>8. "late" \in EndStatuses /\ "canceled" \notin EndStatuses /\ "skipped" \notin EndStatuses
        => status = "late"
    BY <2>2, <2>3, <2>4, <2>5
  <2>9. status = "unknown" <=> EndStatuses \subseteq {"unknown"}
    <3>1. status = "unknown" => \A st \in EndStatuses : st = "unknown"
      <4> SUFFICES ASSUME status = "unknown", NEW st \in EndStatuses PROVE st = "unknown"
        OBVIOUS
      <4>1. Severity(status) = 0 /\ Severity(status) >= Severity(st) /\ st \in Statuses
        BY <2>1, <2>3, <2>5
      <4>2. Severity(st) \in 0 .. 4 /\ (st = "unknown" <=> Severity(st) = 0)
        BY <4>1, SeverityOrders
      <4> QED
        BY <4>1, <4>2
    <3> QED
      BY <2>2, <3>1
  <2> QED
    BY <2>6, <2>7, <2>8, <2>9
<1> QED
  BY <1>1, JourneyHolds, PTL

(* What is reported as left of a connection is what a passenger who rides,  *)
(* walks and crosses as the journey says has left, however many walks lie   *)
(* between the two services and however late each of them is.               *)
THEOREM SlackIsSpareTimeHolds == JourneySpec => []SlackIsSpareTime
<1>1. JourneyInv => SlackIsSpareTime
  BY DEF JourneyInv, TestedSoFar, FoundSoFar, Spared, SlackIsSpareTime
<1> QED
  BY <1>1, JourneyHolds, PTL

(* A journey is reported broken for exactly those connections: one that     *)
(* leaves before the passenger is there, between two services something is  *)
(* known of.                                                                *)
THEOREM MissedIsBrokenHolds == JourneySpec => []MissedIsBroken
<1>1. JourneyInv => MissedIsBroken
  <2> SUFFICES ASSUME JourneyInv, phase = "done"
               PROVE  broken <=> \E k \in 1 .. Cardinality(RidesOf) - 1 :
                        /\ AtPlatform(k) > live[Change(k + 1)].depart
                        /\ Known(live[Change(k)].status)
                        /\ Known(live[Change(k + 1)].status)
    BY DEF MissedIsBroken
  <2>1. DOMAIN tight = 1 .. Cardinality(RidesOf) - 1
    <3>1. DOMAIN tight = 1 .. Len(tight) /\ Len(tight) \in Nat
      BY DEF JourneyInv
    <3>2. CASE RidesOf = {} /\ tight = <<>>
      <4>1. Cardinality(RidesOf) = 0
        BY <3>2, FS_EmptySet
      <4> QED
        BY <3>2, <4>1
    <3>3. CASE RidesOf # {} /\ Len(tight) = Cardinality(RidesOf) - 1
      BY <3>1, <3>3
    <3> QED
      BY <3>2, <3>3 DEF JourneyInv, TestedSoFar
  <2>2. ASSUME NEW k \in DOMAIN tight
        PROVE  AtPlatform(k) > live[Change(k + 1)].depart <=> tight[k] < 0
    <3>1. Spared(k)
      BY DEF JourneyInv, FoundSoFar
    <3> QED
      BY <3>1 DEF Spared
  <2>3. broken <=> \E k \in DOMAIN tight : Missed(k)
    BY DEF JourneyInv, FoundSoFar
  <2> QED
    BY <2>1, <2>2, <2>3 DEF Missed
<1> QED
  BY <1>1, JourneyHolds, PTL

-----------------------------------------------------------------------------
(* Alerts: the inductive invariant *)

Entries == [text : Texts, of : Nat, own : Seq(Affected), len : Nat]

(* The routes that some alert with this text names.                         *)
ByText(text) == Named(WithText(text))

(* Arrays as the snapshot's slices need them: what the alert itself names   *)
(* is never overwritten, and behind it only routes of its text are written. *)
KeptIn(a) ==
  /\ a \in [DOMAIN Alerts -> Seq(Affected \cup {None})]
  /\ \A i \in DOMAIN Alerts :
       /\ Len(Alerts[i].routes) <= Len(a[i])
       /\ \A k \in 1 .. Len(Alerts[i].routes) : a[i][k] = Alerts[i].routes[k]
       /\ \A k \in 1 .. Len(a[i]) : a[i][k] = None \/ a[i][k] \in ByText(Alerts[i].text)

(* A window on such an array is never shorter than the alert's own routes,  *)
(* and sees no slot that nothing was written to.                            *)
SoundIn(a, e) ==
  /\ e.of = 0 => ToSet(e.own) \subseteq ByText(e.text)
  /\ e.of # 0 =>
       /\ e.of \in DOMAIN Alerts /\ Alerts[e.of].text = e.text /\ e.own = <<>>
       /\ Len(Alerts[e.of].routes) <= e.len /\ e.len <= Len(a[e.of])
       /\ \A k \in 1 .. e.len : a[e.of][k] # None

TextsIn(o) == {o[k].text : k \in DOMAIN o}
TextsBefore(n, t) ==
  {Alerts[i].text : i \in {j \in DOMAIN Alerts : j < n /\ ActiveAt(Alerts[j], t)}}

(* A caller has one entry for each text of the active alerts it has passed. *)
CollectedIn(a, o, n, t) ==
  /\ \A k \in DOMAIN o : SoundIn(a, o[k])
  /\ \A j, k \in DOMAIN o : o[j].text = o[k].text => j = k
  /\ TextsIn(o) = TextsBefore(n, t)

(* And what it has still to append is named by an alert with that text.     *)
Under(p, o, n, t, rest) ==
  /\ p = "idle" => n \in {1, Len(Alerts) + 1}
  /\ p = "merging" => /\ n \in DOMAIN Alerts /\ ActiveAt(Alerts[n], t)
                      /\ Alerts[n].text \in TextsIn(o)
                      /\ rest \in Seq(ByText(Alerts[n].text))

Shapes ==
  /\ pc \in [Callers -> {"idle", "scanning", "merging"}]
  /\ when \in [Callers -> Instants]
  /\ reached \in [Callers -> 1 .. Len(Alerts) + 1]
  /\ out \in [Callers -> Seq(Entries)]
  /\ pending \in [Callers -> Seq(AllRoutes)]

AlertsInv ==
  /\ Shapes /\ KeptIn(array)
  /\ \A c \in Callers : /\ CollectedIn(array, out[c], reached[c], when[c])
                        /\ Under(pc[c], out[c], reached[c], when[c], pending[c])

-----------------------------------------------------------------------------
(* The alerts of a snapshot *)

LEMMA AlertsGiven ==
  /\ Len(Alerts) \in Nat /\ DOMAIN Alerts = 1 .. Len(Alerts)
  /\ \A i \in DOMAIN Alerts :
       /\ Alerts[i].text \in Texts /\ Alerts[i].routes \in Seq(Affected)
       /\ Len(Alerts[i].routes) \in Nat
       /\ Alerts[i].routes \in Seq(ByText(Alerts[i].text))
       /\ ByText(Alerts[i].text) \subseteq AllRoutes
  /\ AllRoutes \subseteq Affected
<1> DEFINE T == [text : Texts, routes : Seq(Affected), from : Int, to : Int]
<1>1. \A a \in T : a.text \in Texts /\ a.routes \in Seq(Affected)
  OBVIOUS
<1>2. Alerts \in Seq(T)
  BY AlertsAssumption
<1> HIDE DEF T
<1>3. Len(Alerts) \in Nat /\ DOMAIN Alerts = 1 .. Len(Alerts) /\ \A i \in DOMAIN Alerts : Alerts[i] \in T
  BY <1>2
<1>4. \A i \in DOMAIN Alerts : Alerts[i].text \in Texts /\ Alerts[i].routes \in Seq(Affected)
  BY <1>1, <1>3
<1>5. ASSUME NEW i \in DOMAIN Alerts
      PROVE  /\ Len(Alerts[i].routes) \in Nat
             /\ Alerts[i].routes \in Seq(ByText(Alerts[i].text))
             /\ ByText(Alerts[i].text) \subseteq AllRoutes
  <2> DEFINE r == Alerts[i].routes
  <2>1. r \in Seq(Affected) /\ Len(r) \in Nat /\ r \in [1 .. Len(r) -> Affected]
    BY <1>4
  <2>2. i \in WithText(Alerts[i].text)
    BY DEF WithText
  <2>3. \A k \in 1 .. Len(r) : r[k] \in ByText(Alerts[i].text)
    BY <2>1, <2>2 DEF ByText, Named, ToSet
  <2>4. ByText(Alerts[i].text) \subseteq AllRoutes
    BY DEF ByText, Named, WithText, AllRoutes
  <2> HIDE DEF r
  <2>5. r \in [1 .. Len(r) -> ByText(Alerts[i].text)]
    BY <2>1, <2>3
  <2>6. r \in Seq(ByText(Alerts[i].text))
    BY <2>1, <2>5
  <2> QED
    BY <2>1, <2>4, <2>6 DEF r
<1>6. AllRoutes \subseteq Affected
  <2>1. ASSUME NEW i \in DOMAIN Alerts PROVE ToSet(Alerts[i].routes) \subseteq Affected
    <3>1. \A k \in DOMAIN Alerts[i].routes : Alerts[i].routes[k] \in Affected
      BY <1>4
    <3> QED
      BY <3>1 DEF ToSet
  <2> QED
    BY <2>1 DEF AllRoutes
<1> QED
  BY <1>3, <1>4, <1>5, <1>6

(* An alert passed adds its text, if it is active.                          *)
LEMMA OneMorePassed ==
  ASSUME NEW n \in DOMAIN Alerts, NEW t
  PROVE  TextsBefore(n + 1, t) =
           TextsBefore(n, t) \cup (IF ActiveAt(Alerts[n], t) THEN {Alerts[n].text} ELSE {})
<1>1. \A j \in DOMAIN Alerts : j < n + 1 <=> j < n \/ j = n
  BY AlertsGiven
<1>2. ASSUME NEW j \in DOMAIN Alerts, j = n PROVE ~ j < n
  BY <1>2, AlertsGiven
<1>3. \A x, m : x \in TextsBefore(m, t) <=>
        \E j \in DOMAIN Alerts : j < m /\ ActiveAt(Alerts[j], t) /\ Alerts[j].text = x
  BY DEF TextsBefore
<1> QED
  BY <1>1, <1>3

LEMMA NonePassed == ASSUME NEW t PROVE TextsBefore(1, t) = {}
<1>1. \A j \in DOMAIN Alerts : ~ j < 1
  BY AlertsGiven
<1> QED
  BY <1>1 DEF TextsBefore

(* What an entry names, whoever wrote it.                                   *)
LEMMA EntryNames ==
  ASSUME KeptIn(array), NEW e \in Entries, SoundIn(array, e)
  PROVE  /\ RoutesOf(e) \in Seq(Affected)
         /\ ToSet(RoutesOf(e)) \subseteq ByText(e.text)
         /\ e.of # 0 => None \notin ToSet(RoutesOf(e))
<1>1. CASE e.of = 0
  BY <1>1 DEF SoundIn, RoutesOf, Entries
<1>2. CASE e.of # 0
  <2> DEFINE a == array[e.of]
             s == SubSeq(a, 1, e.len)
  <2>1. e.of \in DOMAIN Alerts /\ e.len \in Nat /\ e.len <= Len(a)
    BY <1>2 DEF SoundIn, Entries
  <2>2. a \in Seq(Affected \cup {None}) /\ Len(a) \in Nat
    BY <2>1 DEF KeptIn
  <2>3. \A k \in 1 .. e.len : /\ a[k] # None /\ a[k] \in Affected
                              /\ a[k] \in ByText(e.text)
    <3>1. \A k \in 1 .. e.len : k \in 1 .. Len(a)
      BY <2>1, <2>2
    <3>2. \A k \in 1 .. Len(a) : a[k] = None \/ a[k] \in ByText(e.text)
      BY <1>2, <2>1 DEF KeptIn, SoundIn
    <3>3. \A k \in 1 .. e.len : a[k] # None
      BY <1>2 DEF SoundIn
    <3>4. \A k \in 1 .. Len(a) : a[k] \in Affected \cup {None}
      BY <2>2
    <3> QED
      BY <3>1, <3>2, <3>3, <3>4
  <2>4. RoutesOf(e) = s
    BY <1>2 DEF RoutesOf
  <2> HIDE DEF a
  <2>5. Len(s) = e.len /\ DOMAIN s = 1 .. e.len /\ \A k \in 1 .. e.len : s[k] = a[k]
    BY <2>1, <2>2
  <2>6. s \in [1 .. e.len -> Affected]
    <3>1. s = [k \in 1 .. e.len |-> s[k]]
      BY <2>1, <2>2, <2>5
    <3> HIDE DEF s
    <3> QED
      BY <2>3, <2>5, <3>1
  <2> HIDE DEF s
  <2>7. s \in Seq(Affected)
    BY <2>1, <2>6
  <2> QED
    BY <2>3, <2>4, <2>5, <2>7 DEF ToSet
<1> QED
  BY <1>1, <1>2

-----------------------------------------------------------------------------
(* Writing behind the callers' backs *)

(* Arrays keep their length, and a slot that was written stays written.     *)
Grows(a, b) ==
  \A i \in DOMAIN Alerts :
    Len(b[i]) = Len(a[i]) /\ \A k \in 1 .. Len(a[i]) : a[i][k] # None => b[i][k] # None

LEMMA SoundStays ==
  ASSUME NEW a, NEW b, Grows(a, b), KeptIn(a), NEW e \in Entries, SoundIn(a, e)
  PROVE  SoundIn(b, e)
<1>1. CASE e.of = 0
  BY <1>1 DEF SoundIn
<1>2. CASE e.of # 0
  <2>1. e.of \in DOMAIN Alerts /\ e.len \in Nat /\ e.len <= Len(a[e.of])
    BY <1>2 DEF SoundIn, Entries
  <2>2. Len(a[e.of]) \in Nat
    BY <2>1 DEF KeptIn
  <2>3. \A k \in 1 .. e.len : k \in 1 .. Len(a[e.of])
    BY <2>1, <2>2
  <2> QED
    BY <1>2, <2>1, <2>3 DEF SoundIn, Grows
<1> QED
  BY <1>1, <1>2

LEMMA CollectedStays ==
  ASSUME NEW a, NEW b, Grows(a, b), KeptIn(a), NEW o \in Seq(Entries), NEW n, NEW t,
         CollectedIn(a, o, n, t)
  PROVE  CollectedIn(b, o, n, t)
<1>1. \A k \in DOMAIN o : o[k] \in Entries
  OBVIOUS
<1>2. \A k \in DOMAIN o : SoundIn(b, o[k])
  BY <1>1, SoundStays DEF CollectedIn
<1> QED
  BY <1>2 DEF CollectedIn

(* A step of one caller, that leaves the others' answers to them.           *)
LEMMA OneCallerSteps ==
  ASSUME AlertsInv, NEW c \in Callers, Shapes', KeptIn(array'), Grows(array, array'),
         \A d \in Callers \ {c} : /\ pc'[d] = pc[d] /\ when'[d] = when[d]
                                  /\ reached'[d] = reached[d] /\ out'[d] = out[d]
                                  /\ pending'[d] = pending[d],
         CollectedIn(array', out'[c], reached'[c], when'[c]),
         Under(pc'[c], out'[c], reached'[c], when'[c], pending'[c])
  PROVE  AlertsInv'
<1>1. ASSUME NEW d \in Callers
      PROVE  /\ CollectedIn(array', out'[d], reached'[d], when'[d])
             /\ Under(pc'[d], out'[d], reached'[d], when'[d], pending'[d])
  <2>1. CASE d = c
    BY <2>1
  <2>2. CASE d # c
    <3>1. /\ CollectedIn(array, out[d], reached[d], when[d]) /\ out[d] \in Seq(Entries)
          /\ Under(pc[d], out[d], reached[d], when[d], pending[d]) /\ KeptIn(array)
      BY DEF AlertsInv, Shapes
    <3>2. CollectedIn(array', out[d], reached[d], when[d])
      BY <3>1, CollectedStays
    <3> QED
      BY <2>2, <3>1, <3>2
  <2> QED
    BY <2>1, <2>2
<1> QED
  BY <1>1 DEF AlertsInv

LEMMA NothingWritten == ASSUME NEW a, NEW b, a = b PROVE Grows(a, b)
BY DEF Grows

(* Of the caller that steps.                                                *)
LEMMA OfCaller ==
  ASSUME AlertsInv, NEW c \in Callers
  PROVE  /\ CollectedIn(array, out[c], reached[c], when[c]) /\ out[c] \in Seq(Entries)
         /\ Under(pc[c], out[c], reached[c], when[c], pending[c]) /\ KeptIn(array)
         /\ reached[c] \in 1 .. Len(Alerts) + 1 /\ pending[c] \in Seq(AllRoutes)
         /\ when[c] \in Instants
BY DEF AlertsInv, Shapes

-----------------------------------------------------------------------------
(* Every step keeps the invariant *)

LEMMA AlertsBegin == AlertsInit => AlertsInv
<1> SUFFICES ASSUME AlertsInit PROVE AlertsInv
  OBVIOUS
<1>1. Shapes
  <2>1. 1 \in 1 .. Len(Alerts) + 1
    BY AlertsGiven
  <2>2. (CHOOSE t \in Instants : TRUE) \in Instants
    BY AlertsAssumption
  <2>3. <<>> \in Seq(Entries) /\ <<>> \in Seq(AllRoutes)
    OBVIOUS
  <2>4. when \in [Callers -> Instants]
    BY <2>2 DEF AlertsInit
  <2>5. pc \in [Callers -> {"idle", "scanning", "merging"}]
    BY DEF AlertsInit
  <2>6. reached \in [Callers -> 1 .. Len(Alerts) + 1]
    BY <2>1 DEF AlertsInit
  <2>7. out \in [Callers -> Seq(Entries)] /\ pending \in [Callers -> Seq(AllRoutes)]
    BY <2>3 DEF AlertsInit
  <2> QED
    BY <2>4, <2>5, <2>6, <2>7 DEF Shapes
<1>2. KeptIn(array)
  <2>1. ASSUME NEW i \in DOMAIN Alerts
        PROVE  /\ array[i] \in Seq(Affected \cup {None}) /\ Len(array[i]) = Room[i]
               /\ Room[i] \in Nat /\ Len(Alerts[i].routes) <= Room[i]
               /\ \A k \in 1 .. Len(Alerts[i].routes) : array[i][k] = Alerts[i].routes[k]
               /\ \A k \in 1 .. Room[i] :
                    array[i][k] = None \/ array[i][k] \in ByText(Alerts[i].text)
    <3> DEFINE r == Alerts[i].routes
               a == [k \in 1 .. Room[i] |-> IF k <= Len(r) THEN r[k] ELSE None]
    <3>1. array[i] = a
      BY DEF AlertsInit
    <3>2. Room[i] \in Nat /\ Len(r) \in Nat /\ Len(r) <= Room[i]
      BY AlertsAssumption, AlertsGiven
    <3>3. r \in Seq(Affected) /\ r \in Seq(ByText(Alerts[i].text))
      BY AlertsGiven
    <3> HIDE DEF r
    <3>4. \A k \in 1 .. Len(r) : r[k] \in Affected /\ r[k] \in ByText(Alerts[i].text)
      BY <3>3
    <3>5. \A k \in 1 .. Room[i] : k <= Len(r) => k \in 1 .. Len(r)
      BY <3>2
    <3>6. a \in [1 .. Room[i] -> Affected \cup {None}]
      BY <3>4, <3>5
    <3>7. \A k \in 1 .. Room[i] : a[k] = None \/ a[k] \in ByText(Alerts[i].text)
      BY <3>4, <3>5
    <3>8. \A k \in 1 .. Len(r) : a[k] = r[k]
      BY <3>2
    <3> HIDE DEF a
    <3>9. a \in Seq(Affected \cup {None}) /\ Len(a) = Room[i]
      BY <3>2, <3>6
    <3> QED
      BY <3>1, <3>2, <3>7, <3>8, <3>9 DEF r
  <2>2. array \in [DOMAIN Alerts -> Seq(Affected \cup {None})]
    <3>1. array = [i \in DOMAIN Alerts |-> array[i]]
      BY DEF AlertsInit
    <3> QED
      BY <2>1, <3>1
  <2> QED
    BY <2>1, <2>2 DEF KeptIn
<1>3. ASSUME NEW c \in Callers
      PROVE  /\ CollectedIn(array, out[c], reached[c], when[c])
             /\ Under(pc[c], out[c], reached[c], when[c], pending[c])
  <2>1. out[c] = <<>> /\ reached[c] = 1 /\ pc[c] = "idle"
    BY DEF AlertsInit
  <2>2. TextsIn(<<>>) = {}
    BY DEF TextsIn
  <2>3. CollectedIn(array, out[c], reached[c], when[c])
    <3>1. TextsBefore(1, when[c]) = {}
      BY NonePassed
    <3>2. DOMAIN out[c] = {}
      BY <2>1
    <3> QED
      BY <2>1, <2>2, <3>1, <3>2 DEF CollectedIn
  <2> QED
    BY <2>1, <2>3 DEF Under
<1> QED
  BY <1>1, <1>2, <1>3 DEF AlertsInv

LEMMA AskAlertsKeeps ==
  ASSUME AlertsInv, NEW c \in Callers, NEW t \in Instants, AskAlerts(c, t)
  PROVE  AlertsInv'
<1>1. /\ pc' = [pc EXCEPT ![c] = "scanning"] /\ when' = [when EXCEPT ![c] = t]
      /\ reached' = [reached EXCEPT ![c] = 1] /\ out' = [out EXCEPT ![c] = <<>>]
      /\ array' = array /\ pending' = pending
  BY DEF AskAlerts
<1>2. Shapes
  BY DEF AlertsInv
<1>3. Shapes'
  <2>1. 1 \in 1 .. Len(Alerts) + 1 /\ <<>> \in Seq(Entries)
    BY AlertsGiven
  <2> QED
    BY <1>1, <1>2, <2>1 DEF Shapes
<1>4. /\ pc'[c] = "scanning" /\ out'[c] = <<>> /\ reached'[c] = 1 /\ when'[c] = t
  BY <1>1, <1>2 DEF Shapes
<1>5. CollectedIn(array', out'[c], reached'[c], when'[c])
  <2>1. TextsIn(<<>>) = {}
    BY DEF TextsIn
  <2>2. TextsIn(<<>>) = TextsBefore(1, t)
    BY <2>1, NonePassed
  <2>3. \A a : CollectedIn(a, <<>>, 1, t)
    BY <2>2 DEF CollectedIn
  <2> QED
    BY <1>4, <2>3
<1>6. Under(pc'[c], out'[c], reached'[c], when'[c], pending'[c])
  BY <1>4 DEF Under
<1>7. KeptIn(array') /\ Grows(array, array')
  BY <1>1, NothingWritten DEF AlertsInv
<1>8. \A d \in Callers \ {c} : /\ pc'[d] = pc[d] /\ when'[d] = when[d]
                               /\ reached'[d] = reached[d] /\ out'[d] = out[d]
                               /\ pending'[d] = pending[d]
  BY <1>1, <1>2 DEF Shapes
<1> QED
  BY <1>3, <1>5, <1>6, <1>7, <1>8, OneCallerSteps

(* A caller passes the alert it has come to, and nothing else of it changes *)
(* but perhaps what it is doing.                                            *)
LEMMA AlertPassed ==
  ASSUME AlertsInv, NEW c \in Callers, reached[c] \in DOMAIN Alerts,
         ActiveAt(Alerts[reached[c]], when[c]) => Alerts[reached[c]].text \in TextsIn(out[c]),
         reached' = [reached EXCEPT ![c] = @ + 1], pc' = [pc EXCEPT ![c] = "scanning"],
         UNCHANGED <<array, when, out, pending>>
  PROVE  AlertsInv'
<1>1. Shapes /\ reached[c] \in Nat /\ reached[c] + 1 \in 1 .. Len(Alerts) + 1
  BY AlertsGiven DEF AlertsInv
<1>2. Shapes'
  <2>1. reached' \in [Callers -> 1 .. Len(Alerts) + 1]
    BY <1>1 DEF Shapes
  <2>2. pc' \in [Callers -> {"idle", "scanning", "merging"}]
    BY <1>1 DEF Shapes
  <2> QED
    BY <1>1, <2>1, <2>2 DEF Shapes
<1>3. reached'[c] = reached[c] + 1 /\ pc'[c] = "scanning" /\ out'[c] = out[c] /\ when'[c] = when[c]
  BY <1>1 DEF Shapes
<1>4. CollectedIn(array', out'[c], reached'[c], when'[c])
  <2>1. CollectedIn(array, out[c], reached[c], when[c])
    BY OfCaller
  <2>2. TextsBefore(reached[c] + 1, when[c]) = TextsBefore(reached[c], when[c]) \cup
          (IF ActiveAt(Alerts[reached[c]], when[c]) THEN {Alerts[reached[c]].text} ELSE {})
    BY OneMorePassed
  <2>3. TextsBefore(reached[c] + 1, when[c]) = TextsIn(out[c])
    BY <2>1, <2>2 DEF CollectedIn
  <2> QED
    BY <1>3, <2>1, <2>3 DEF CollectedIn
<1>5. Under(pc'[c], out'[c], reached'[c], when'[c], pending'[c])
  BY <1>3 DEF Under
<1>6. KeptIn(array') /\ Grows(array, array')
  BY NothingWritten DEF AlertsInv
<1>7. \A d \in Callers \ {c} : /\ pc'[d] = pc[d] /\ when'[d] = when[d]
                               /\ reached'[d] = reached[d] /\ out'[d] = out[d]
                               /\ pending'[d] = pending[d]
  BY <1>1 DEF Shapes
<1> QED
  BY <1>2, <1>4, <1>5, <1>6, <1>7, OneCallerSteps

LEMMA ScanningIsAt ==
  ASSUME AlertsInv, NEW c \in Callers, Scanning(c)
  PROVE  reached[c] \in DOMAIN Alerts /\ pc = [pc EXCEPT ![c] = "scanning"]
<1>1. reached[c] \in 1 .. Len(Alerts) + 1 /\ Len(Alerts) \in Nat /\ DOMAIN Alerts = 1 .. Len(Alerts)
  BY AlertsGiven, OfCaller
<1>2. pc \in [Callers -> {"idle", "scanning", "merging"}] /\ pc[c] = "scanning"
  BY DEF AlertsInv, Shapes, Scanning
<1> QED
  BY <1>1, <1>2 DEF Scanning

LEMMA InactiveKeeps ==
  ASSUME AlertsInv, NEW c \in Callers, Inactive(c) PROVE AlertsInv'
<1>1. Scanning(c) /\ ~ActiveAt(Alerts[reached[c]], when[c])
  BY DEF Inactive
<1>2. /\ reached' = [reached EXCEPT ![c] = @ + 1] /\ pc' = [pc EXCEPT ![c] = "scanning"]
      /\ UNCHANGED <<array, when, out, pending>>
  BY <1>1, ScanningIsAt DEF Inactive
<1> QED
  BY <1>1, <1>2, ScanningIsAt, AlertPassed

LEMMA MergedKeeps ==
  ASSUME AlertsInv, NEW c \in Callers, Merged(c) PROVE AlertsInv'
<1>1. reached[c] \in DOMAIN Alerts /\ Alerts[reached[c]].text \in TextsIn(out[c])
  BY OfCaller DEF Merged, Under
<1>2. /\ reached' = [reached EXCEPT ![c] = @ + 1] /\ pc' = [pc EXCEPT ![c] = "scanning"]
      /\ UNCHANGED <<array, when, out, pending>>
  BY DEF Merged
<1> QED
  BY <1>1, <1>2, AlertPassed

LEMMA AnswerKeeps ==
  ASSUME AlertsInv, NEW c \in Callers, Answer(c) PROVE AlertsInv'
<1>1. /\ pc' = [pc EXCEPT ![c] = "idle"] /\ reached[c] > Len(Alerts)
      /\ UNCHANGED <<array, when, reached, out, pending>>
  BY DEF Answer
<1>2. Shapes
  BY DEF AlertsInv
<1>3. Shapes' /\ pc'[c] = "idle"
  BY <1>1, <1>2 DEF Shapes
<1>4. reached[c] = Len(Alerts) + 1
  BY <1>1, OfCaller, AlertsGiven
<1>5. Under(pc'[c], out'[c], reached'[c], when'[c], pending'[c])
  BY <1>1, <1>3, <1>4 DEF Under
<1>6. CollectedIn(array', out'[c], reached'[c], when'[c])
  BY <1>1, OfCaller
<1>7. KeptIn(array') /\ Grows(array, array')
  BY <1>1, NothingWritten DEF AlertsInv
<1>8. \A d \in Callers \ {c} : /\ pc'[d] = pc[d] /\ when'[d] = when[d]
                               /\ reached'[d] = reached[d] /\ out'[d] = out[d]
                               /\ pending'[d] = pending[d]
  BY <1>1, <1>2 DEF Shapes
<1> QED
  BY <1>3, <1>5, <1>6, <1>7, <1>8, OneCallerSteps

LEMMA FirstOfTextKeeps ==
  ASSUME AlertsInv, NEW c \in Callers, FirstOfText(c) PROVE AlertsInv'
<1> PICK n : n = reached[c]
  OBVIOUS
<1> DEFINE al == Alerts[n]
           e == [text |-> al.text, of |-> n, own |-> <<>>, len |-> Len(al.routes)]
<1>1. /\ Scanning(c) /\ ActiveAt(al, when[c]) /\ Entry(c, al.text) = {}
      /\ out' = [out EXCEPT ![c] = Append(@, e)] /\ reached' = [reached EXCEPT ![c] = @ + 1]
      /\ UNCHANGED <<array, pc, when, pending>>
  BY DEF FirstOfText
<1>2. /\ Shapes /\ n \in DOMAIN Alerts /\ n \in Nat /\ n # 0 /\ n + 1 \in 1 .. Len(Alerts) + 1
      /\ pc[c] = "scanning" /\ KeptIn(array)
  <2>1. n \in DOMAIN Alerts
    BY <1>1, ScanningIsAt
  <2>2. n \in Nat /\ n # 0 /\ n + 1 \in 1 .. Len(Alerts) + 1
    BY <2>1, AlertsGiven
  <2> QED
    BY <1>1, <2>1, <2>2 DEF AlertsInv, Scanning
<1>3. e \in Entries /\ e.text = al.text /\ e.of = n /\ e.own = <<>> /\ e.len = Len(al.routes)
  BY <1>2, AlertsGiven DEF Entries
<1>4. SoundIn(array, e)
  <2>1. /\ al.routes \in Seq(Affected) /\ Len(al.routes) \in Nat
        /\ Len(al.routes) <= Len(array[n])
        /\ \A k \in 1 .. Len(al.routes) : array[n][k] = al.routes[k]
    BY <1>2, AlertsGiven DEF KeptIn
  <2>2. \A k \in 1 .. Len(al.routes) : array[n][k] \in Affected
    BY <2>1
  <2>3. \A k \in 1 .. Len(al.routes) : array[n][k] # None
    BY <2>2, AlertsAssumption
  <2>4. Alerts[e.of].text = e.text /\ Alerts[e.of].routes = al.routes
    BY <1>3
  <2> HIDE DEF e, al
  <2> QED
    BY <1>2, <1>3, <2>1, <2>3, <2>4 DEF SoundIn
<1> HIDE DEF e, al
<1> PICK o : o = out[c]
  OBVIOUS
<1>5. o \in Seq(Entries) /\ Len(o) \in Nat /\ CollectedIn(array, o, n, when[c])
  <2>1. o \in Seq(Entries) /\ CollectedIn(array, o, n, when[c])
    BY OfCaller
  <2> QED
    BY <2>1
<1> DEFINE p == Append(o, e)
<1>6. /\ p \in Seq(Entries) /\ DOMAIN p = 1 .. Len(o) + 1 /\ DOMAIN o = 1 .. Len(o)
      /\ \A k \in 1 .. Len(o) : p[k] = o[k]
      /\ p[Len(o) + 1] = e
  BY <1>3, <1>5, Appended
<1> HIDE DEF p
<1>7. \A k \in DOMAIN p : k \in DOMAIN o \/ k = Len(o) + 1
  BY <1>5, <1>6
<1>8. CollectedIn(array, p, n + 1, when[c])
  <2>1. \A k \in DOMAIN p : SoundIn(array, p[k])
    BY <1>4, <1>5, <1>6, <1>7 DEF CollectedIn
  <2>2. \A k \in DOMAIN o : o[k].text # e.text
    BY <1>1, <1>3 DEF Entry
  <2>3. \A j, k \in DOMAIN p : p[j].text = p[k].text => j = k
    BY <1>5, <1>6, <1>7, <2>2 DEF CollectedIn
  <2>4. TextsIn(p) = TextsIn(o) \cup {e.text}
    <3>1. \A x : x \in TextsIn(p) <=> \E k \in DOMAIN p : x = p[k].text
      BY DEF TextsIn
    <3>2. \A x : x \in TextsIn(o) <=> \E k \in DOMAIN o : x = o[k].text
      BY DEF TextsIn
    <3>3. \A k \in DOMAIN o : k \in DOMAIN p /\ p[k] = o[k]
      BY <1>5, <1>6
    <3>4. Len(o) + 1 \in DOMAIN p
      BY <1>5, <1>6
    <3> QED
      BY <1>6, <1>7, <3>1, <3>2, <3>3, <3>4
  <2>5. TextsBefore(n + 1, when[c]) = TextsBefore(n, when[c]) \cup {al.text}
    BY <1>1, <1>2, OneMorePassed DEF al
  <2> QED
    BY <1>3, <1>5, <2>1, <2>3, <2>4, <2>5 DEF CollectedIn
<1>9. out'[c] = p /\ reached'[c] = n + 1 /\ pc'[c] = "scanning" /\ when'[c] = when[c]
  BY <1>1, <1>2 DEF Shapes, p
<1>10. Shapes'
  <2>1. out' = [out EXCEPT ![c] = p] /\ out' \in [Callers -> Seq(Entries)]
    BY <1>1, <1>2, <1>6 DEF Shapes, p
  <2>2. reached' \in [Callers -> 1 .. Len(Alerts) + 1]
    BY <1>1, <1>2 DEF Shapes
  <2> QED
    BY <1>1, <1>2, <2>1, <2>2 DEF Shapes
<1>11. CollectedIn(array', out'[c], reached'[c], when'[c])
  BY <1>1, <1>8, <1>9
<1>12. Under(pc'[c], out'[c], reached'[c], when'[c], pending'[c])
  BY <1>9 DEF Under
<1>13. KeptIn(array') /\ Grows(array, array')
  BY <1>1, <1>2, NothingWritten
<1>14. \A d \in Callers \ {c} : /\ pc'[d] = pc[d] /\ when'[d] = when[d]
                                /\ reached'[d] = reached[d] /\ out'[d] = out[d]
                                /\ pending'[d] = pending[d]
  BY <1>1, <1>2 DEF Shapes
<1> QED
  BY <1>10, <1>11, <1>12, <1>13, <1>14, OneCallerSteps

LEMMA MergeKeeps ==
  ASSUME AlertsInv, NEW c \in Callers, Merge(c) PROVE AlertsInv'
<1> PICK n : n = reached[c]
  OBVIOUS
<1> DEFINE al == Alerts[n]
<1>1. PICK k \in Entry(c, al.text) :
        pending' = [pending EXCEPT ![c] = Among(Affected \ ToSet(RoutesOf(out[c][k])), al.routes)]
  BY DEF Merge
<1>2. /\ Scanning(c) /\ ActiveAt(al, when[c]) /\ pc' = [pc EXCEPT ![c] = "merging"]
      /\ UNCHANGED <<array, when, reached, out>>
  BY DEF Merge
<1>3. Shapes /\ n \in DOMAIN Alerts
  BY <1>2, ScanningIsAt DEF AlertsInv
<1> DEFINE rest == Among(Affected \ ToSet(RoutesOf(out[c][k])), al.routes)
<1>4. rest \in Seq(ByText(al.text)) /\ rest \in Seq(AllRoutes)
  <2>1. al.routes \in Seq(ByText(al.text)) /\ ByText(al.text) \subseteq AllRoutes
    BY <1>3, AlertsGiven
  <2> DEFINE S == Affected \ ToSet(RoutesOf(out[c][k]))
  <2>2. Among(S, al.routes) \in Seq(S \cap ByText(al.text))
    <3> HIDE DEF S, al
    <3> QED
      BY <2>1, AmongKept
  <2> HIDE DEF S, al
  <2>3. Among(S, al.routes) \in Seq(ByText(al.text))
    BY <2>2
  <2>4. Among(S, al.routes) \in Seq(AllRoutes)
    BY <2>1, <2>3
  <2> QED
    BY <2>3, <2>4 DEF S
<1> HIDE DEF rest
<1>5. /\ pending' = [pending EXCEPT ![c] = rest] /\ pending'[c] = rest /\ pc'[c] = "merging"
      /\ out'[c] = out[c] /\ reached'[c] = n /\ when'[c] = when[c]
  BY <1>1, <1>2, <1>3 DEF Shapes, rest
<1>6. Shapes'
  <2>1. pending' \in [Callers -> Seq(AllRoutes)]
    BY <1>3, <1>4, <1>5 DEF Shapes
  <2> QED
    BY <1>2, <1>3, <2>1 DEF Shapes
<1>7. CollectedIn(array', out'[c], reached'[c], when'[c])
  BY <1>2, <1>5, OfCaller
<1>8. al.text \in TextsIn(out[c])
  BY <1>1 DEF Entry, TextsIn
<1>9. Under(pc'[c], out'[c], reached'[c], when'[c], pending'[c])
  BY <1>2, <1>3, <1>4, <1>5, <1>8 DEF Under
<1>10. KeptIn(array') /\ Grows(array, array')
  BY <1>2, NothingWritten DEF AlertsInv
<1>11. \A d \in Callers \ {c} : /\ pc'[d] = pc[d] /\ when'[d] = when[d]
                                /\ reached'[d] = reached[d] /\ out'[d] = out[d]
                                /\ pending'[d] = pending[d]
  BY <1>1, <1>2, <1>3 DEF Shapes
<1> QED
  BY <1>6, <1>7, <1>9, <1>10, <1>11, OneCallerSteps

(* A route of an alert's text, written behind what the alert itself names.  *)
LEMMA SlotWritten ==
  ASSUME KeptIn(array), NEW i \in DOMAIN Alerts, NEW s \in 1 .. Len(array[i]),
         s > Len(Alerts[i].routes), NEW r \in ByText(Alerts[i].text),
         array' = [array EXCEPT ![i][s] = r]
  PROVE  /\ KeptIn(array') /\ Grows(array, array')
         /\ array'[i][s] = r /\ Len(array'[i]) = Len(array[i])
<1> DEFINE W == Affected \cup {None}
           a == array[i]
           b == [a EXCEPT ![s] = r]
<1>1. r \in Affected /\ r # None
  BY AlertsGiven, AlertsAssumption
<1>2. array \in [DOMAIN Alerts -> Seq(W)] /\ a \in Seq(W) /\ Len(a) \in Nat
  BY DEF KeptIn
<1>3. array' = [array EXCEPT ![i] = b]
  OBVIOUS
<1> HIDE DEF a
<1>4. /\ b \in Seq(W) /\ Len(b) = Len(a) /\ b[s] = r
      /\ \A k \in 1 .. Len(a) : k # s => b[k] = a[k]
  <2>1. s \in 1 .. Len(a)
    BY DEF a
  <2>2. DOMAIN a = 1 .. Len(a) /\ a \in [1 .. Len(a) -> W] /\ r \in W
    BY <1>1, <1>2
  <2>3. b \in [1 .. Len(a) -> W]
    BY <2>1, <2>2
  <2>4. b[s] = r /\ \A k \in 1 .. Len(a) : k # s => b[k] = a[k]
    BY <2>1, <2>2
  <2> HIDE DEF b, W
  <2>5. b \in Seq(W) /\ Len(b) = Len(a)
    BY <1>2, <2>3
  <2> QED
    BY <2>4, <2>5
<1> HIDE DEF b, W
<1>5. array' \in [DOMAIN Alerts -> Seq(W)]
  BY <1>2, <1>3, <1>4
<1>6. array'[i] = b /\ \A j \in DOMAIN Alerts : j # i => array'[j] = array[j]
  BY <1>2, <1>3
<1>7. Grows(array, array')
  <2>1. ASSUME NEW j \in DOMAIN Alerts
        PROVE  /\ Len(array'[j]) = Len(array[j])
               /\ \A k \in 1 .. Len(array[j]) : array[j][k] # None => array'[j][k] # None
    BY <1>1, <1>4, <1>6 DEF a
  <2> QED
    BY <2>1 DEF Grows
<1>8. ASSUME NEW j \in DOMAIN Alerts
      PROVE  /\ Len(Alerts[j].routes) <= Len(array'[j])
             /\ \A k \in 1 .. Len(Alerts[j].routes) : array'[j][k] = Alerts[j].routes[k]
             /\ \A k \in 1 .. Len(array'[j]) :
                  array'[j][k] = None \/ array'[j][k] \in ByText(Alerts[j].text)
  <2>1. /\ Len(Alerts[j].routes) <= Len(array[j]) /\ Len(Alerts[j].routes) \in Nat
        /\ Len(array[j]) \in Nat
        /\ \A k \in 1 .. Len(Alerts[j].routes) : array[j][k] = Alerts[j].routes[k]
        /\ \A k \in 1 .. Len(array[j]) :
             array[j][k] = None \/ array[j][k] \in ByText(Alerts[j].text)
    BY AlertsGiven DEF KeptIn
  <2>2. CASE j # i
    BY <1>6, <2>1, <2>2
  <2>3. CASE j = i
    <3>1. /\ array'[j] = b /\ array[j] = a
      BY <1>6, <2>3 DEF a
    <3>2. \A k \in 1 .. Len(Alerts[j].routes) : k \in 1 .. Len(a) /\ k # s
      BY <2>1, <2>3, <3>1
    <3>3. \A k \in 1 .. Len(a) : k = s \/ b[k] = a[k]
      BY <1>4
    <3> QED
      BY <1>4, <2>1, <2>3, <3>1, <3>2, <3>3
  <2> QED
    BY <2>2, <2>3
<1> QED
  BY <1>4, <1>5, <1>6, <1>7, <1>8 DEF KeptIn, W, a

(* An entry is replaced by a sound one with the same text.                  *)
LEMMA EntryReplaced ==
  ASSUME NEW a, NEW b, KeptIn(a), Grows(a, b), NEW o \in Seq(Entries), NEW n, NEW t,
         CollectedIn(a, o, n, t), NEW k \in DOMAIN o, NEW f \in Entries,
         f.text = o[k].text, SoundIn(b, f)
  PROVE  LET p == [o EXCEPT ![k] = f] IN
         p \in Seq(Entries) /\ CollectedIn(b, p, n, t) /\ TextsIn(p) = TextsIn(o)
<1> DEFINE p == [o EXCEPT ![k] = f]
<1>1. DOMAIN o = 1 .. Len(o) /\ Len(o) \in Nat /\ o \in [1 .. Len(o) -> Entries]
  OBVIOUS
<1>2. /\ p \in [1 .. Len(o) -> Entries] /\ DOMAIN p = DOMAIN o /\ p[k] = f
      /\ \A j \in DOMAIN o : j # k => p[j] = o[j]
  BY <1>1
<1> HIDE DEF p
<1>3. p \in Seq(Entries)
  BY <1>1, <1>2
<1>4. \A j \in DOMAIN o : p[j].text = o[j].text
  BY <1>2
<1>5. TextsIn(p) = TextsIn(o)
  BY <1>2, <1>4 DEF TextsIn
<1>6. CollectedIn(b, o, n, t)
  BY CollectedStays
<1>7. \A j \in DOMAIN p : SoundIn(b, p[j])
  BY <1>2, <1>6 DEF CollectedIn
<1>8. CollectedIn(b, p, n, t)
  BY <1>2, <1>4, <1>5, <1>6, <1>7 DEF CollectedIn
<1> QED
  BY <1>3, <1>5, <1>8 DEF p

LEMMA PoolKeeps ==
  ASSUME AlertsInv, NEW c \in Callers, Pool(c) PROVE AlertsInv'
<1> PICK n, o, t, r : n = reached[c] /\ o = out[c] /\ t = when[c] /\ r = Head(pending[c])
  OBVIOUS
<1> DEFINE text == Alerts[n].text
           inPlace(k) == o[k].of # 0 /\ o[k].len < Len(array[o[k].of])
           longer(k) == [o[k] EXCEPT !.len = @ + 1]
           moved(k) == [o[k] EXCEPT !.of = 0, !.own = Append(RoutesOf(o[k]), r)]
<1>1. PICK k \in Entry(c, text) :
        IF inPlace(k)
          THEN /\ array' = [array EXCEPT ![o[k].of][o[k].len + 1] = r]
               /\ out' = [out EXCEPT ![c][k].len = @ + 1]
          ELSE out' = [out EXCEPT ![c][k] = moved(k)] /\ array' = array
  BY DEF Pool, Slot
<1>2. /\ pc[c] = "merging" /\ pending[c] # <<>> /\ pending' = [pending EXCEPT ![c] = Tail(@)]
      /\ UNCHANGED <<pc, when, reached>>
  BY DEF Pool
<1>3. /\ Shapes /\ KeptIn(array) /\ o \in Seq(Entries) /\ CollectedIn(array, o, n, t)
      /\ n \in DOMAIN Alerts /\ ActiveAt(Alerts[n], t) /\ text \in TextsIn(o)
      /\ pending[c] \in Seq(ByText(text)) /\ pending[c] \in Seq(AllRoutes)
  <2>1. Under(pc[c], o, n, t, pending[c])
    BY OfCaller
  <2> QED
    BY <1>2, <2>1, OfCaller DEF AlertsInv, Under
<1>4. k \in DOMAIN o /\ o[k].text = text /\ o[k] \in Entries /\ SoundIn(array, o[k])
  <2>1. k \in DOMAIN o /\ o[k].text = text
    BY DEF Entry
  <2> QED
    BY <1>3, <2>1 DEF CollectedIn
<1>5. r \in ByText(text) /\ Tail(pending[c]) \in Seq(ByText(text)) /\ Tail(pending[c]) \in Seq(AllRoutes)
  <2> DEFINE S == ByText(text)
             q == pending[c]
  <2>1. q \in Seq(S) /\ q # <<>> /\ q \in Seq(AllRoutes) /\ r = Head(q)
    BY <1>1, <1>2, <1>3
  <2> HIDE DEF S, q
  <2>2. r \in S /\ Tail(q) \in Seq(S) /\ Tail(q) \in Seq(AllRoutes)
    BY <2>1
  <2> QED
    BY <2>2 DEF S, q
<1> HIDE DEF text
<1>6. r \in Affected
  BY <1>3, <1>5, AlertsGiven DEF text
<1>7. PICK f \in Entries :
        /\ f.text = text /\ SoundIn(array', f) /\ KeptIn(array') /\ Grows(array, array')
        /\ out' = [out EXCEPT ![c] = [o EXCEPT ![k] = f]]
  <2>1. CASE inPlace(k)
    <3> DEFINE i == o[k].of
    <3>1. /\ i # 0 /\ i \in DOMAIN Alerts /\ Alerts[i].text = text /\ o[k].own = <<>>
          /\ Len(Alerts[i].routes) <= o[k].len /\ o[k].len < Len(array[i])
          /\ \A m \in 1 .. o[k].len : array[i][m] # None
      BY <1>4, <2>1 DEF SoundIn
    <3>2. o[k].len \in Nat /\ Len(Alerts[i].routes) \in Nat /\ Len(array[i]) \in Nat
      BY <1>3, <1>4, <3>1, AlertsGiven DEF Entries, KeptIn
    <3>3. o[k].len + 1 \in 1 .. Len(array[i]) /\ o[k].len + 1 > Len(Alerts[i].routes)
      <4>1. \A x, y, z \in Nat : x <= y /\ y < z => y + 1 \in 1 .. z /\ y + 1 > x
        OBVIOUS
      <4> QED
        BY <3>1, <3>2, <4>1
    <3>4. array' = [array EXCEPT ![i][o[k].len + 1] = r]
      BY <1>1, <2>1
    <3> HIDE DEF i
    <3>5. /\ KeptIn(array') /\ Grows(array, array')
          /\ array'[i][o[k].len + 1] = r /\ Len(array'[i]) = Len(array[i])
      <4>1. r \in ByText(Alerts[i].text) /\ i \in DOMAIN Alerts
        BY <1>5, <3>1
      <4>2. KeptIn(array)
        BY <1>3
      <4>3. PICK s : s = o[k].len + 1
        OBVIOUS
      <4>4. /\ s \in 1 .. Len(array[i]) /\ s > Len(Alerts[i].routes)
            /\ array' = [array EXCEPT ![i][s] = r]
        BY <3>3, <3>4, <4>3
      <4>5. /\ KeptIn(array') /\ Grows(array, array')
            /\ array'[i][s] = r /\ Len(array'[i]) = Len(array[i])
        BY <4>1, <4>2, <4>4, SlotWritten
      <4> QED
        BY <4>3, <4>5
    <3>6. /\ longer(k) \in Entries /\ longer(k).text = text /\ longer(k).of = i
          /\ longer(k).len = o[k].len + 1 /\ longer(k).own = <<>>
      BY <1>4, <3>1, <3>2 DEF Entries, i
    <3>7. r # None
      BY <1>6, AlertsAssumption
    <3>8. \A m \in 1 .. o[k].len + 1 : array'[i][m] # None
      <4>1. \A m \in 1 .. o[k].len + 1 : m = o[k].len + 1 \/ m \in 1 .. o[k].len
        BY <3>2
      <4>2. \A m \in 1 .. o[k].len : m \in 1 .. Len(array[i])
        BY <3>1, <3>2
      <4> QED
        BY <3>1, <3>5, <3>7, <4>1, <4>2 DEF Grows
    <3>9. out' = [out EXCEPT ![c] = [o EXCEPT ![k] = longer(k)]]
      BY <1>1, <2>1
    <3> HIDE DEF longer
    <3>10. SoundIn(array', longer(k))
      BY <3>1, <3>2, <3>3, <3>5, <3>6, <3>8 DEF SoundIn
    <3> QED
      BY <3>5, <3>6, <3>9, <3>10
  <2>2. CASE ~inPlace(k)
    <3> DEFINE s == RoutesOf(o[k])
    <3>1. s \in Seq(Affected) /\ ToSet(s) \subseteq ByText(text)
      BY <1>3, <1>4, EntryNames
    <3>2. out' = [out EXCEPT ![c] = [o EXCEPT ![k] = moved(k)]] /\ array' = array
      BY <1>1, <2>2
    <3> HIDE DEF s
    <3>3. Append(s, r) \in Seq(Affected) /\ ToSet(Append(s, r)) \subseteq ByText(text)
      <4>1. /\ DOMAIN Append(s, r) = 1 .. Len(s) + 1 /\ DOMAIN s = 1 .. Len(s)
            /\ Append(s, r) \in Seq(Affected)
            /\ \A m \in 1 .. Len(s) : Append(s, r)[m] = s[m]
            /\ Append(s, r)[Len(s) + 1] = r
            /\ \A m \in 1 .. Len(s) + 1 : m \in 1 .. Len(s) \/ m = Len(s) + 1
        BY <1>6, <3>1
      <4>2. \A m \in 1 .. Len(s) : s[m] \in ToSet(s)
        BY <4>1 DEF ToSet
      <4>3. \A m \in DOMAIN Append(s, r) : Append(s, r)[m] \in ByText(text)
        BY <1>5, <3>1, <4>1, <4>2
      <4> QED
        BY <4>1, <4>3 DEF ToSet
    <3>4. /\ moved(k) \in Entries /\ moved(k).text = text /\ moved(k).of = 0
          /\ moved(k).own = Append(s, r)
      BY <1>4, <3>3 DEF Entries, s
    <3> HIDE DEF moved
    <3>5. SoundIn(array', moved(k))
      BY <3>3, <3>4 DEF SoundIn
    <3> QED
      BY <1>3, <3>2, <3>4, <3>5, NothingWritten
  <2> QED
    BY <2>1, <2>2
<1> DEFINE p == [o EXCEPT ![k] = f]
<1>8. p \in Seq(Entries) /\ CollectedIn(array', p, n, t) /\ TextsIn(p) = TextsIn(o)
  <2>1. f.text = o[k].text /\ k \in DOMAIN o /\ o \in Seq(Entries)
    BY <1>3, <1>4, <1>7
  <2>2. KeptIn(array) /\ Grows(array, array') /\ CollectedIn(array, o, n, t) /\ SoundIn(array', f)
    BY <1>3, <1>7
  <2> QED
    BY <2>1, <2>2, EntryReplaced
<1> HIDE DEF p
<1>9. out' = [out EXCEPT ![c] = p]
  BY <1>7 DEF p
<1>10. /\ out'[c] = p /\ pc'[c] = "merging" /\ reached'[c] = n /\ when'[c] = t
       /\ pending'[c] = Tail(pending[c])
  BY <1>2, <1>3, <1>9 DEF Shapes
<1>11. Shapes'
  <2>1. out' \in [Callers -> Seq(Entries)]
    BY <1>3, <1>8, <1>9 DEF Shapes
  <2>2. pending' \in [Callers -> Seq(AllRoutes)]
    BY <1>2, <1>3, <1>5 DEF Shapes
  <2> QED
    BY <1>2, <1>3, <2>1, <2>2 DEF Shapes
<1>12. CollectedIn(array', out'[c], reached'[c], when'[c])
  BY <1>8, <1>10
<1>13. Under(pc'[c], out'[c], reached'[c], when'[c], pending'[c])
  BY <1>3, <1>5, <1>8, <1>10 DEF Under, text
<1>14. \A d \in Callers \ {c} : /\ pc'[d] = pc[d] /\ when'[d] = when[d]
                                /\ reached'[d] = reached[d] /\ out'[d] = out[d]
                                /\ pending'[d] = pending[d]
  BY <1>2, <1>3, <1>9 DEF Shapes
<1> QED
  BY <1>7, <1>11, <1>12, <1>13, <1>14, OneCallerSteps

LEMMA AlertsStepKeeps == AlertsInv /\ [AlertsNext]_alertsVars => AlertsInv'
<1> SUFFICES ASSUME AlertsInv, [AlertsNext]_alertsVars PROVE AlertsInv'
  OBVIOUS
<1>1. CASE AlertsNext
  <2>1. PICK c \in Callers :
          \/ \E t \in Instants : AskAlerts(c, t)
          \/ Inactive(c) \/ FirstOfText(c) \/ Merge(c) \/ Pool(c) \/ Merged(c) \/ Answer(c)
    BY <1>1 DEF AlertsNext
  <2> QED
    BY <2>1, AskAlertsKeeps, InactiveKeeps, FirstOfTextKeeps, MergeKeeps, PoolKeeps, MergedKeeps,
       AnswerKeeps
<1>2. CASE UNCHANGED alertsVars
  BY <1>2 DEF alertsVars, AlertsInv, Shapes
<1> QED
  BY <1>1, <1>2

LEMMA AlertsHold == AlertsSpec => []AlertsInv
BY AlertsBegin, AlertsStepKeeps, PTL DEF AlertsSpec

(* Callers and arrays stay within their types: no caller is ever given a    *)
(* slot of an array that nothing was written to.                            *)
THEOREM AlertsTypesHold == AlertsSpec => []AlertsTypeOK
<1>1. AlertsInv => AlertsTypeOK
  <2> SUFFICES ASSUME AlertsInv PROVE AlertsTypeOK
    OBVIOUS
  <2>1. ASSUME NEW i \in DOMAIN Alerts PROVE ToSet(array[i]) \subseteq AllRoutes \cup {None}
    <3>1. /\ DOMAIN array[i] = 1 .. Len(array[i])
          /\ \A k \in 1 .. Len(array[i]) :
               array[i][k] = None \/ array[i][k] \in ByText(Alerts[i].text)
      BY DEF AlertsInv, KeptIn
    <3>2. ByText(Alerts[i].text) \subseteq AllRoutes
      BY AlertsGiven
    <3> QED
      BY <3>1, <3>2 DEF ToSet
  <2>2. ASSUME NEW c \in Callers, NEW k \in DOMAIN out[c], out[c][k].of # 0
        PROVE  /\ out[c][k].own = <<>> /\ out[c][k].len <= Len(array[out[c][k].of])
               /\ None \notin ToSet(RoutesOf(out[c][k]))
    <3>1. out[c][k] \in Entries /\ SoundIn(array, out[c][k]) /\ KeptIn(array)
      BY OfCaller DEF CollectedIn
    <3>2. None \notin ToSet(RoutesOf(out[c][k]))
      BY <2>2, <3>1, EntryNames
    <3> QED
      BY <2>2, <3>1, <3>2 DEF SoundIn
  <2>3. ASSUME NEW c \in Callers PROVE ToSet(pending[c]) \subseteq AllRoutes
    <3>1. pending[c] \in Seq(AllRoutes)
      BY OfCaller
    <3>2. \A k \in DOMAIN pending[c] : pending[c][k] \in AllRoutes
      BY <3>1
    <3> QED
      BY <3>2 DEF ToSet
  <2> QED
    BY <2>1, <2>2, <2>3 DEF AlertsInv, Shapes, AlertsTypeOK
<1> QED
  BY <1>1, AlertsHold, PTL

(* However many callers merge at once, append never writes over what the    *)
(* snapshot itself says an alert affects, whatever capacity it left.        *)
THEOREM SnapshotUnchangedHolds == AlertsSpec => []SnapshotUnchanged
<1>1. AlertsInv => SnapshotUnchanged
  <2> SUFFICES ASSUME AlertsInv, NEW i \in DOMAIN Alerts
               PROVE  SubSeq(array[i], 1, Len(Alerts[i].routes)) = Alerts[i].routes
    BY DEF SnapshotUnchanged
  <2> DEFINE r == Alerts[i].routes
             a == array[i]
             W == Affected \cup {None}
  <2>1. /\ r \in Seq(Affected) /\ Len(r) \in Nat /\ a \in Seq(W) /\ Len(r) <= Len(a)
        /\ \A k \in 1 .. Len(r) : a[k] = r[k]
    BY AlertsGiven DEF AlertsInv, KeptIn
  <2> HIDE DEF r, a, W
  <2>2. SubSeq(a, 1, Len(r)) = [k \in 1 .. Len(r) |-> a[k]]
    BY <2>1
  <2>3. r = [k \in 1 .. Len(r) |-> r[k]]
    BY <2>1
  <2>4. SubSeq(a, 1, Len(r)) = r
    BY <2>1, <2>2, <2>3
  <2> QED
    BY <2>4 DEF a, r
<1> QED
  BY <1>1, AlertsHold, PTL

(* Every answer has each active text once, and names under it only routes   *)
(* that some alert with that text names, with every interleaving of others. *)
THEOREM OneOfEachIncidentHolds == AlertsSpec => []OneOfEachIncident
<1>1. AlertsInv => OneOfEachIncident
  <2> SUFFICES ASSUME AlertsInv, NEW c \in Callers
               PROVE
    /\ \A j, k \in DOMAIN out[c] : out[c][j].text = out[c][k].text => j = k
    /\ \A k \in DOMAIN out[c] :
         ToSet(RoutesOf(out[c][k])) \subseteq Named(WithText(out[c][k].text))
    /\ pc[c] = "idle" /\ reached[c] > 1 =>
         {out[c][k].text : k \in DOMAIN out[c]} =
           {Alerts[i].text : i \in {j \in DOMAIN Alerts : ActiveAt(Alerts[j], when[c])}}
    BY DEF OneOfEachIncident
  <2>1. /\ CollectedIn(array, out[c], reached[c], when[c]) /\ KeptIn(array)
        /\ Under(pc[c], out[c], reached[c], when[c], pending[c])
        /\ out[c] \in Seq(Entries)
    BY OfCaller
  <2>2. \A k \in DOMAIN out[c] : out[c][k] \in Entries /\ SoundIn(array, out[c][k])
    BY <2>1 DEF CollectedIn
  <2>3. \A k \in DOMAIN out[c] :
          ToSet(RoutesOf(out[c][k])) \subseteq Named(WithText(out[c][k].text))
    BY <2>1, <2>2, EntryNames DEF ByText
  <2>4. ASSUME pc[c] = "idle", reached[c] > 1
        PROVE  TextsIn(out[c]) =
                 {Alerts[i].text : i \in {j \in DOMAIN Alerts : ActiveAt(Alerts[j], when[c])}}
    <3>1. reached[c] = Len(Alerts) + 1
      BY <2>1, <2>4 DEF Under
    <3>2. \A j \in DOMAIN Alerts : j < reached[c]
      BY <3>1, AlertsGiven
    <3>3. {j \in DOMAIN Alerts : j < reached[c] /\ ActiveAt(Alerts[j], when[c])} =
            {j \in DOMAIN Alerts : ActiveAt(Alerts[j], when[c])}
      BY <3>2
    <3> QED
      BY <2>1, <3>3 DEF CollectedIn, TextsBefore
  <2> QED
    BY <2>1, <2>3, <2>4 DEF CollectedIn, TextsIn
<1> QED
  BY <1>1, AlertsHold, PTL
=============================================================================
