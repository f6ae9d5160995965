----------------------------- MODULE ServiceDays -----------------------------
(***************************************************************************)
(* Which services run on a day, and when: the calendar of the feed, its    *)
(* exceptions, and times counted from the midnight of a service day        *)
(* (servicedays.go, and the queries of query.go and index.go about it).    *)
(*                                                                         *)
(* A feed is a record whose calendar gives some of the services their days *)
(* of the week and their period, and whose exceptions are rows             *)
(* [service, date, added], at most one for a service and a date (the key   *)
(* of calendar_date).  Days are integers.                                  *)
(***************************************************************************)
EXTENDS Integers, FiniteSetsExt

CONSTANTS
  Week,       (* The number of days after which the pattern repeats.       *)
  Day24,      (* Twenty-four hours.                                        *)
  Midnight    (* The instant each calendar day begins.  A day on which the *)
              (* clock changes is longer or shorter than Day24.            *)

Days == DOMAIN Midnight

ASSUME ClocksAssumption ==
  /\ Week \in Nat \ {0} /\ Day24 \in Nat \ {0}
  /\ Days \subseteq Int /\ \E first, last \in Days : Days = first .. last
  /\ Midnight \in [Days -> Int]
  /\ \A d, e \in Days : d < e => Midnight[d] < Midnight[e]

(* midnight: the calendar day of an instant.                                *)
DayOf(t) == Max({d \in Days : Midnight[d] <= t})

(* Mutant of Instant: every day is taken to be twenty-four hours.           *)
InstantOfEvenDays(d, secs) == Midnight[0] + d * Day24 + secs

Instant(d, secs) == Midnight[d] + secs

(* servicedays.go:12 and 141: 25:30 is half past one of the next morning.   *)
(* It is not, on a day on which the clock changes.                         *)
NightIsNextMorning ==
  \A d \in Days, n \in 0 .. Day24 :
    d + 1 \in Days => Instant(d, Day24 + n) = Midnight[d + 1] + n

-----------------------------------------------------------------------------

Regular(feed, d) ==
  {s \in DOMAIN feed.calendar :
     /\ d % Week \in feed.calendar[s].days
     /\ feed.calendar[s].start <= d /\ d <= feed.calendar[s].end}

Excepted(feed, d, added) ==
  {e.service : e \in {x \in feed.exceptions : x.date = d /\ x.added = added}}

(* Mutant of ServiceIDsOn: the regular pattern overrides the exceptions.    *)
ServiceIDsRegular(feed, d) ==
  (Excepted(feed, d, TRUE) \ Excepted(feed, d, FALSE)) \cup Regular(feed, d)

ServiceIDsOn(feed, d) ==
  (Regular(feed, d) \cup Excepted(feed, d, TRUE)) \ Excepted(feed, d, FALSE)

(* The days the feed says anything of; a date that only removes says none. *)
CalendarDays(feed) ==
  LET active == {s \in DOMAIN feed.calendar : feed.calendar[s].days # {}}
  IN  {feed.calendar[s].start : s \in active} \cup {feed.calendar[s].end : s \in active}
DaysDescribed(feed) ==
  CalendarDays(feed) \cup {e.date : e \in {x \in feed.exceptions : x.added}}

(* Validity, as days: from the first to the last, both included.            *)
ValidFrom(feed) == Min(DaysDescribed(feed))
ValidTo(feed)   == Max(DaysDescribed(feed))

(* ServiceDays.Runs, which reads the two files where ServiceIDsOn asks the *)
(* database: a removal first, then an addition, then the pattern.          *)
Runs(feed, s, d) ==
  /\ s \notin Excepted(feed, d, FALSE)
  /\ s \in Excepted(feed, d, TRUE) \/ s \in Regular(feed, d)
=============================================================================
