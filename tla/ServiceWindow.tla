---------------------------- MODULE ServiceWindow ----------------------------
(***************************************************************************)
(* Index.Departures (query.go): what leaves a station within a window.     *)
(* The window is asked of two service days, today's and yesterday's, whose *)
(* late services are counted past its midnight; the rows of both are put   *)
(* in order, the several trips published for one physical service become   *)
(* one row, and the rest is limited.  A query outside the period the feed  *)
(* describes is refused instead (checkRange).                              *)
(*                                                                         *)
(* The request's Modes are left out: they restrict the trips asked about,  *)
(* so a feed of fewer trips stands for them.                               *)
(***************************************************************************)
EXTENDS ServiceDays, Queries

CONSTANTS
  Feeds,      (* Calendars, exceptions and the trips of the stations: the  *)
              (* service, route and headsign of each, and its calls in the *)
              (* order of stop_sequence, [stop, dep].                      *)
  Requests,   (* [ids, after, within, limit]: the stops of the station     *)
              (* (StopIDsForStation) and the window asked about.           *)
  Factor,     (* The rows fetched for each row of the limit, as most are   *)
              (* of services not running on the day: sixty.                *)
  FetchCap    (* And no more rows than this: five thousand.                *)

ASSUME FetchAssumption == Factor \in Nat \ {0} /\ FetchCap \in Nat \ {0}

(* The calls of a feed: a trip and the place of the call in it.             *)
CallIds(f) == UNION {{t} \X DOMAIN f.trips[t].calls : t \in DOMAIN f.trips}

(* There are finitely many, at whole seconds; what the feed describes lies  *)
(* in the calendar, and so does what is asked for and the day before it.    *)
ASSUME InputsAssumption ==
  /\ \A f \in Feeds :
       /\ IsFiniteSet(CallIds(f))
       /\ \A c \in CallIds(f) : f.trips[c[1]].calls[c[2]].dep \in Int
       /\ \A d \in DaysDescribed(f) : d \in Days /\ d + 1 \in Days
  /\ \A r \in Requests :
       /\ r.after \in Int /\ r.within \in Nat \ {0} /\ r.limit \in Nat \ {0}
       /\ \E d \in Days : d + 1 \in Days /\ Midnight[d + 1] <= r.after

VARIABLES
  feed, request,
  out,        (* The rows of both days.                                    *)
  unread,     (* Whether the feed's period could not be read.              *)
  stage       (* Which step of Departures comes next.                      *)

vars == <<feed, request, out, unread, stage>>

Init ==
  /\ feed \in Feeds
  /\ request \in Requests
  /\ out = <<>>
  /\ unread = FALSE
  /\ stage = "range"

today == DayOf(request.after)

-----------------------------------------------------------------------------
(* checkRange: the period ends with the last second of its last day, and a *)
(* day of grace is allowed before it begins.                               *)

(* Mutant of OutOfRange: the day of grace is at the end.                    *)
OutOfRangeLate(days) ==
  /\ days # {}
  /\ \/ request.after < Midnight[Min(days)]
     \/ request.after > Midnight[Max(days)] + 2 * Day24 - 1

OutOfRange(days) ==
  /\ days # {}
  /\ \/ request.after < Midnight[Min(days)] - Day24
     \/ request.after > Midnight[Max(days)] + Day24 - 1

(* What Validity reads: the days recorded with the feed; if they cannot be  *)
(* read, those of the calendar alone; if they cannot be either, nothing,   *)
(* and a query is never out of range.                                      *)
Validity == {DaysDescribed(feed), CalendarDays(feed), {}}

CheckRange ==
  /\ stage = "range"
  /\ \E days \in Validity :
       /\ stage' = IF OutOfRange(days) THEN "refused" ELSE "today"
       /\ unread' = (days # DaysDescribed(feed))
  /\ UNCHANGED <<feed, request, out>>

-----------------------------------------------------------------------------
(* departuresOnDay *)

Service(t) == feed.trips[t].service

(* Every call a trip of the feed would make on service day d.               *)
CallsOn(d) ==
  {LET trip == feed.trips[c[1]]
       call == trip.calls[c[2]]
   IN  [trip |-> c[1], seq |-> c[2], stop |-> call.stop, dep |-> call.dep,
        at |-> Instant(d, call.dep), route |-> trip.route, headsign |-> trip.headsign] :
     c \in CallIds(feed)}

(* Those in the window, whether or not their service runs on the day.       *)
RowsOn(d) ==
  LET fromSec == request.after - Midnight[d]
      toSec   == fromSec + request.within
  IN  {c \in CallsOn(d) : c.stop \in request.ids /\ c.dep \in fromSec .. toSec}

OverFetch == Min({request.limit * Factor, FetchCap})

RunsOn(d) == {r \in RowsOn(d) : Service(r.trip) \in ServiceIDsOn(feed, d)}

(* The rows fetched of day d whose service runs on it.                      *)
AskDay(d, now, next) ==
  /\ stage = now
  /\ \E rows \in OrderByLimit(RowsOn(d), [r \in RowsOn(d) |-> r.dep], OverFetch) :
       out' = out \o Among(RunsOn(d), rows)
  /\ stage' = next
  /\ UNCHANGED <<feed, request, unread>>

AskToday     == AskDay(today, "today", "yesterday")
AskYesterday == AskDay(today - 1, "yesterday", "answer")

(* A query fails, or the caller goes away: no departures and an error.      *)
Fail ==
  /\ stage \in {"range", "today", "yesterday"}
  /\ out' = <<>>
  /\ stage' = "failed"
  /\ UNCHANGED <<feed, request, unread>>

-----------------------------------------------------------------------------
(* The rows of both days, put together *)

(* Mutant of Soonest: yesterday's rows stay behind today's.                 *)
AsAsked(rows) == rows

(* A row moves before those in front of it that leave later, and no        *)
(* further: rows of one instant stay as they were.                         *)
Placed(rows, r) ==
  InsertAt(rows, 1 + Max({0} \cup {k \in DOMAIN rows : rows[k].at <= r.at}), r)

(* sortDepartures: one row after another finds its place.                   *)
Soonest(rows) ==
  LET sorted[n \in 0 .. Len(rows)] ==
        IF n = 0 THEN <<>> ELSE Placed(sorted[n - 1], rows[n])
  IN  sorted[Len(rows)]

(* Mutant of Physical: the headsign is not looked at.                       *)
PhysicalRun(r) == <<r.stop, r.at, r.route>>

(* What one service is published as, whatever its trip id.                  *)
Physical(r) == <<r.stop, r.at, r.route, r.headsign>>

Published(r) == [trip |-> r.trip, seq |-> r.seq]

(* Mutant of Merged: the other publications are dropped.                    *)
MergedWithout(rows, r) ==
  IF \E k \in DOMAIN rows : Physical(rows[k].row) = Physical(r) THEN rows
  ELSE Append(rows, [row |-> r, alts |-> <<>>])

(* dedupeDepartures, one row of it: an alternative of the row for the same  *)
(* service, or a row of its own.                                           *)
Merged(rows, r) ==
  IF \E k \in DOMAIN rows : Physical(rows[k].row) = Physical(r)
    THEN [k \in DOMAIN rows |->
            IF Physical(rows[k].row) = Physical(r)
              THEN [rows[k] EXCEPT !.alts = Append(@, Published(r))]
              ELSE rows[k]]
    ELSE Append(rows, [row |-> r, alts |-> <<>>])

(* dedupeDepartures, all of it.                                             *)
Deduped(rows) ==
  LET merged[n \in 0 .. Len(rows)] ==
        IF n = 0 THEN <<>> ELSE Merged(merged[n - 1], rows[n])
  IN  merged[Len(rows)]

(* Mutant of Answered: the limit is spent on duplicates.                    *)
AnsweredLimitFirst(rows) == Deduped(First(request.limit, Soonest(rows)))

Answered(rows) == First(request.limit, Deduped(Soonest(rows)))

Answer ==
  /\ stage = "answer"
  /\ out' = Answered(out)
  /\ stage' = "done"
  /\ UNCHANGED <<feed, request, unread>>

Next == CheckRange \/ AskToday \/ AskYesterday \/ Answer \/ Fail

Spec == Init /\ [][Next]_vars

-----------------------------------------------------------------------------

TypeOK ==
  /\ feed \in Feeds /\ request \in Requests /\ unread \in BOOLEAN
  /\ stage \in {"range", "today", "yesterday", "answer", "done", "refused", "failed"}
  /\ IF stage = "done"
       THEN \A k \in DOMAIN out : out[k].row \in CallsOn(today) \cup CallsOn(today - 1)
       ELSE \A k \in DOMAIN out : out[k] \in CallsOn(today) \cup CallsOn(today - 1)

(* The calls that the services of day d really make in the window, as the  *)
(* calendar files have it.                                                 *)
LeavingOn(d) ==
  {c \in CallsOn(d) : /\ c.stop \in request.ids /\ Runs(feed, Service(c.trip), d)
                      /\ c.at \in request.after .. request.after + request.within}

Leaving == LeavingOn(today) \cup LeavingOn(today - 1)

(* Every row of both days could be fetched.                                 *)
AllFetched ==
  \A d \in {today, today - 1} :
    Cardinality(RowsOn(d)) <= Min({Factor * request.limit, FetchCap})

(***************************************************************************)
(* query.go:295-299 and 352-353: what is shown is what leaves soonest.  No *)
(* service in the window, today's or one of yesterday's that runs after    *)
(* midnight, is missing from the answer unless the limit was met by        *)
(* physical services that leave no later.  (Provided the rows of services  *)
(* that do not run were not so many that the fetch itself was cut.)        *)
(***************************************************************************)
SoonestShown ==
  (stage = "done" /\ AllFetched) =>
    \A c \in Leaving :
      \/ \E k \in DOMAIN out : Physical(out[k].row) = Physical(c)
      \/ /\ Len(out) = request.limit
         /\ \A k \in DOMAIN out : out[k].row.at <= c.at

(***************************************************************************)
(* query.go:361-381: each physical service is one row, in order of time;   *)
(* every row and every alternative to it is a call that a running service  *)
(* makes, and a row's alternatives are publications of that same service.  *)
(***************************************************************************)
OnceAndReal ==
  stage = "done" =>
    /\ \A i, j \in DOMAIN out : i < j =>
         /\ out[i].row.at <= out[j].row.at
         /\ \/ out[i].row.stop # out[j].row.stop \/ out[i].row.at # out[j].row.at
            \/ out[i].row.route # out[j].row.route \/ out[i].row.headsign # out[j].row.headsign
    /\ \A k \in DOMAIN out :
         /\ out[k].row \in Leaving
         /\ \A a \in DOMAIN out[k].alts : \E c \in Leaving :
              /\ Published(c) = out[k].alts[a]
              /\ c.stop = out[k].row.stop /\ c.at = out[k].row.at
              /\ c.route = out[k].row.route /\ c.headsign = out[k].row.headsign

(***************************************************************************)
(* query.go:371-374: no publication of a service that is shown is lost to  *)
(* realtime, which describes only one of them: it is the row or one of its *)
(* alternatives, even one of the other service day.                        *)
(***************************************************************************)
VariantsKept ==
  (stage = "done" /\ AllFetched) =>
    \A c \in Leaving : \A k \in DOMAIN out :
      Physical(out[k].row) = Physical(c) =>
        \/ Published(out[k].row) = Published(c)
        \/ \E a \in DOMAIN out[k].alts : out[k].alts[a] = Published(c)

(***************************************************************************)
(* README.md:433 and query.go:766: a query past the end of the period is   *)
(* never answered, and one within it never refused, however the feed       *)
(* describes its first and last day.  (Provided its period could be read,  *)
(* and the clock does not change on the last day: its end is taken to be   *)
(* twenty-four hours after it began.)                                      *)
(***************************************************************************)
PeriodIsRespected ==
  (/\ DaysDescribed(feed) # {} /\ ~ unread
   /\ Midnight[ValidTo(feed) + 1] - Midnight[ValidTo(feed)] = Day24) =>
    /\ stage \in {"today", "yesterday", "answer", "done"} => today <= ValidTo(feed)
    /\ stage = "refused" => today \notin ValidFrom(feed) .. ValidTo(feed)

-----------------------------------------------------------------------------
(* What the comments say, and the code does not do: none of these holds.   *)

(* README.md:433 and query.go:766: what the feed does not describe is an   *)
(* error, not silence.  The day before it begins is answered with nothing.  *)
SilenceIsTold ==
  (stage = "done" /\ ~ unread /\ DaysDescribed(feed) # {}) => today >= ValidFrom(feed)

(* query.go:823: a query shortly after midnight reaches back to the         *)
(* previous service day.  After the last day's midnight it is refused.      *)
LastNightIsServed ==
  (stage = "refused" /\ ~ unread) => Leaving = {}

(* README.md:153: what leaves within two hours.  Those of tomorrow's        *)
(* timetable are not asked for when the window passes midnight.             *)
WholeWindow ==
  (stage = "done" /\ AllFetched /\ Len(out) < request.limit) =>
    \A c \in LeavingOn(today + 1) : \E k \in DOMAIN out : Physical(out[k].row) = Physical(c)

(* query.go:430: rows enough are fetched that none asked for is lost.       *)
FetchIsEnough ==
  stage = "done" => Len(out) = request.limit \/
    \A c \in Leaving : \E k \in DOMAIN out : Physical(out[k].row) = Physical(c)
=============================================================================
