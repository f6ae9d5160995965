------------------------------ MODULE LegCalls -------------------------------
(***************************************************************************)
(* Index.LegCalls (query.go): the stations a leg of a journey passes.  The *)
(* ones the service runs through are those where another service of its    *)
(* route calls: of the services that call at both ends of the leg, the one *)
(* whose stop_sequence is furthest between them, which stands in for the   *)
(* one that calls at most stations on the way.                             *)
(*                                                                         *)
(* A leg is what OneChange finds: a trip and two of its calls.             *)
(***************************************************************************)
EXTENDS OneChange

(* A call of the leg: its time is that of the service on the day of now.    *)
Call(c, now) == [stop |-> c.stop, time |-> Instant(DayOf(now), c.dep), skipped |-> FALSE]

Made(t, m, n, now) ==
  [k \in 1 .. n - m + 1 |-> Call(feed.trips[t].calls[m + k - 1], now)]

(* The stretches of the route's services between the stations of two calls. *)
Stretches(t, m, n) ==
  LET calls(q) == feed.trips[q].calls
      ends == <<Root(calls(t)[m].stop), Root(calls(t)[n].stop)>>
      route == {q \in DOMAIN feed.trips : feed.trips[q].route = feed.trips[t].route}
  IN  UNION {{q} \X {ab \in Spans(feed, q) :
                       <<Root(calls(q)[ab[1]].stop), Root(calls(q)[ab[2]].stop)>> = ends} :
               q \in route}

(* How long one is, by the numbers the feed gives the calls.                *)
SeqApart(s) ==
  LET calls == feed.trips[s[1]].calls IN calls[s[2][2]].seq - calls[s[2][1]].seq

(* The services with the longest of them: any may be the one compared with. *)
Fullest(t, m, n) ==
  LET all == Stretches(t, m, n)
  IN  {s[1] : s \in {x \in all : \A y \in all : SeqApart(y) <= SeqApart(x)}}

Pattern(q) == [k \in DOMAIN feed.trips[q].calls |-> Root(feed.trips[q].calls[k].stop)]

(* Mutant of Passed: what the service passed before the leg is listed too.  *)
PassedFromStart(s, made, called, station) ==
  IF s.next > Len(made) THEN s
  ELSE IF station \in called
    THEN [out |-> Append(s.out, made[s.next]), next |-> s.next + 1]
    ELSE [s EXCEPT !.out = Append(@, [stop |-> station, skipped |-> TRUE])]

(* One station of the pattern: the next call is listed where the service    *)
(* calls there, and the station itself where it is passed on the way.       *)
Passed(s, made, called, station) ==
  IF s.next > Len(made) THEN s
  ELSE IF station \in called
    THEN [out |-> Append(s.out, made[s.next]), next |-> s.next + 1]
    ELSE IF s.out = <<>> THEN s
    ELSE [s EXCEPT !.out = Append(@, [stop |-> station, skipped |-> TRUE])]

(* The pattern, with the calls made slotted into it; what is left of them   *)
(* comes at the end.                                                       *)
Slotted(made, called, pattern) ==
  LET after[n \in 0 .. Len(pattern)] ==
        IF n = 0 THEN [out |-> <<>>, next |-> 1]
        ELSE Passed(after[n - 1], made, called, pattern[n])
      end == after[Len(pattern)]
  IN  end.out \o SubSeq(made, end.next, Len(made))

CalledAt(made) == {Root(made[k].stop) : k \in DOMAIN made}

(***************************************************************************)
(* The calls alone where the leg's own service is the fullest, or where a  *)
(* query fails.  If the station of a call cannot be looked up it is not    *)
(* among those called at, and if the reading of the pattern breaks off it  *)
(* is as much of it as was read.                                           *)
(***************************************************************************)
LegCalls(t, m, n, now) ==
  LET made == Made(t, m, n, now) IN
  {made} \cup UNION {{Slotted(made, called, SubSeq(Pattern(q), 1, k)) :
                        called \in SUBSET CalledAt(made), k \in 0 .. Len(Pattern(q))} :
                       q \in Fullest(t, m, n) \ {t}}

-----------------------------------------------------------------------------

IsMade(c) == ~ c.skipped

(* A station that is passed is listed as itself, a call as a stop of one.   *)
StationOf(c) == IF IsMade(c) THEN Root(c.stop) ELSE c.stop

(* The stations called at come in the pattern, in its order.                *)
Follows(made, pattern) ==
  /\ IsInjective(pattern)
  /\ Among(CalledAt(made), pattern) = [k \in DOMAIN made |-> StationOf(made[k])]

(* The pattern from the one end of the leg to the other.                    *)
Between(made, pattern) ==
  LET at(c) == CHOOSE k \in DOMAIN pattern : pattern[k] = StationOf(c)
  IN  SubSeq(pattern, at(made[1]), at(made[Len(made)]))

(***************************************************************************)
(* query.go:646: an express is told from a stopping train.  Whatever   *)
(* the pattern, and however much of it was read, every call of the leg is  *)
(* listed, in order; and if the service calls at stations of the pattern,  *)
(* in its order, the listing is the pattern from the one end of the leg to *)
(* the other, and nothing before or after.  (A pattern that passes a       *)
(* station twice takes the second time for the next call.)                 *)
(***************************************************************************)
ExpressIsLegible ==
  stage = "candidates" =>
    \A t \in DOMAIN feed.trips : \A span \in Spans(feed, t) :
      LET made == Made(t, span[1], span[2], request.after) IN
      /\ \A listed \in LegCalls(t, span[1], span[2], request.after) :
           Among({c \in ToSet(listed) : IsMade(c)}, listed) = made
      /\ \A q \in Fullest(t, span[1], span[2]) \ {t} :
           LET listed == Slotted(made, CalledAt(made), Pattern(q)) IN
           Follows(made, Pattern(q)) =>
             [k \in DOMAIN listed |-> StationOf(listed[k])] = Between(made, Pattern(q))

-----------------------------------------------------------------------------
(* What a comment says, and the code does not do: it does not hold.        *)

(* query.go:644: Time is when this service calls.  It is when it would call *)
(* today, whatever the day of the leg.                                     *)
CallsWhenItCalls ==
  \A j \in found :
    LET leg == j.first
        m == CHOOSE i \in DOMAIN feed.trips[leg.trip].calls :
               feed.trips[leg.trip].calls[i].stop = leg.from
        n == CHOOSE i \in DOMAIN feed.trips[leg.trip].calls :
               feed.trips[leg.trip].calls[i].stop = leg.to
    IN  \A now \in {Midnight[0], request.after} :
          Head(Made(leg.trip, m, n, now)).time = leg.depart
=============================================================================
