------------------------------ MODULE OneChange ------------------------------
(***************************************************************************)
(* Index.journeysWithOneChange (plan.go): a change has to be constructed.  *)
(* The search picks the stations that can be reached and from which the    *)
(* destination can be (interchanges, narrowed by Via), widens each to what *)
(* a short walk reaches (openInterchange), asks for the rides to it and    *)
(* once for the rides on from it, and joins each of the first few to the   *)
(* soonest onward ride that can be caught (catchable, joinLegs).           *)
(*                                                                         *)
(* The request's Modes are left out: they restrict the trips asked about,  *)
(* so a feed of fewer trips stands for them.  The direct journeys and what *)
(* Plan does with all of them are PlanResults and FilterDominated.         *)
(***************************************************************************)
EXTENDS Rides, TransferTimes

CONSTANTS
  Searches,          (* Feeds, rules (see TransferTimes) and requests:     *)
                     (* [from, to, after, within, maxWalk, buffer, via].   *)
  Anywhere,          (* The via of a request that names none.              *)
  WalkRadius,        (* Policy's, for a request that does not say.         *)
  MaxInterchanges,   (* The stations considered: twelve.                   *)
  MaxFirsts          (* The rides to each that are priced: four.           *)

ASSUME SearchAssumption ==
  WalkRadius \in Nat /\ MaxInterchanges \in Nat \ {0} /\ MaxFirsts \in Nat \ {0}

(* What is asked for lies in the calendar, a day and more after its start.  *)
ASSUME InputsAssumption ==
  \A s \in Searches :
    /\ IsTimetable(s.feed.trips) /\ AreRules(s.rules)
    /\ s.request.after \in Int /\ s.request.within \in Int
    /\ s.request.maxWalk \in Int /\ s.request.buffer \in Nat
    /\ \E d \in Days : d + 1 \in Days /\ Midnight[d + 1] <= s.request.after

(* The stops of a station are the station's for each of them, and every     *)
(* stop of the table has its coordinates.                                   *)
ASSUME TableAssumption ==
  /\ \A s \in Stops : \A p, q \in StopIDsForStation(s) : q \in StopIDsForStation(p)
  /\ Stops \subseteq DOMAIN Place

VARIABLES
  feed, rules, request,
  stations,   (* The stations still to be tried, the best first.           *)
  ic,         (* The interchange: its stops, and those of them a walk adds. *)
  firsts,     (* The rides to it that are priced.                          *)
  found,      (* The journeys made so far; their order is Plan's business. *)
  spoiled,    (* Whether a station was dropped or narrowed by an error.    *)
  stage

vars == <<feed, rules, request, stations, ic, firsts, found, spoiled, stage>>

Closed == [stops |-> {}, walkTo |-> {}]

Init ==
  /\ \E s \in Searches : feed = s.feed /\ rules = s.rules /\ request = s.request
  /\ stations = <<>> /\ ic = Closed /\ firsts = <<>> /\ found = {}
  /\ spoiled = FALSE
  /\ stage = "candidates"

From == StopIDsForStation(request.from)
To   == StopIDsForStation(request.to)

(* Zero asks for the policy's radius, a negative number for no walks.       *)
Walk == IF request.maxWalk = 0 THEN WalkRadius ELSE Max({request.maxWalk, 0})

-----------------------------------------------------------------------------
(* interchanges and restrictToVia *)

(* What may be found within a walk of each of the stations.                 *)
Surroundings(S) ==
  {f \in [S -> UNION {WalkableFrom(StopIDsForStation(s), Walk) : s \in S}] :
     \A s \in S : f[s] \in WalkableFrom(StopIDsForStation(s), Walk)}

(* Mutant of Interchanges: only stations that serve the destination.        *)
InterchangesNoWalk ==
  LET serving == StationsServing(feed, To, request.after, request.within)
  IN  {First(MaxInterchanges, Among(serving, reach)) :
         reach \in StationsFrom(feed, From, request.after, request.within)}

(***************************************************************************)
(* Those that serve the destination themselves come first, then those from *)
(* which a walk leads to one that does.  A station that is not in the stop *)
(* table cannot be walked from.                                            *)
(***************************************************************************)
Interchanges ==
  LET serving == StationsServing(feed, To, request.after, request.within)
      leading(near) ==
        {s \in DOMAIN near \ serving : \E n \in near[s] : Root(n) \in serving \/ n \in serving}
  IN  UNION {{First(MaxInterchanges, Among(serving, reach) \o Among(leading(near), reach)) :
                near \in Surroundings(ToSet(reach) \cap Stops)} :
        reach \in StationsFrom(feed, From, request.after, request.within)}

(* An interchange the caller named is taken even if the search missed it.   *)
Restricted(list) ==
  LET only == Among(StopIDsForStation(request.via), list)
  IN  IF request.via = Anywhere THEN list
      ELSE IF only = <<>> THEN <<request.via>> ELSE only

(* With no candidates there is no answer, whatever the caller named.        *)
Candidates ==
  /\ stage = "candidates"
  /\ \E list \in Interchanges :
       /\ list = <<>> \/ request.via \in Stops \cup {Anywhere}
       /\ stations' = IF list = <<>> THEN <<>> ELSE Restricted(list)
  /\ stage' = "open"
  /\ UNCHANGED <<feed, rules, request, ic, firsts, found, spoiled>>

-----------------------------------------------------------------------------
(* One turn of the loop over stations *)

(* A stop near the station brings its own platforms along; if they cannot  *)
(* be looked up it comes alone.                                            *)
OpenInterchange ==
  /\ stage = "open" /\ stations # <<>> /\ Head(stations) \in Stops
  /\ LET ids == StopIDsForStation(Head(stations)) IN
     \E near \in WalkableFrom(ids, Walk) : \E failing \in SUBSET near :
       LET walkTo == failing \cup UNION {StopIDsForStation(n) : n \in near \ failing} IN
       /\ ic' = [stops |-> ids \cup walkTo, walkTo |-> walkTo]
       /\ spoiled' = (spoiled \/ failing # {})
  /\ stage' = "firsts"
  /\ UNCHANGED <<feed, rules, request, stations, firsts, found>>

(* A station that is not in the table, or whose stops cannot be read, is    *)
(* not worth failing the search for.                                       *)
SkipInterchange ==
  /\ stage = "open" /\ stations # <<>>
  /\ stations' = Tail(stations)
  /\ spoiled' = TRUE
  /\ UNCHANGED <<feed, rules, request, ic, firsts, found, stage>>

FindFirsts ==
  /\ stage = "firsts"
  /\ \E rides \in DirectJourneys(feed, From, ic.stops, request.after, request.within) :
       firsts' = First(MaxFirsts, rides)
  /\ IF firsts' = <<>>
       THEN stations' = Tail(stations) /\ stage' = "open"
       ELSE stations' = stations /\ stage' = "price"
  /\ UNCHANGED <<feed, rules, request, ic, found, spoiled>>

-----------------------------------------------------------------------------
(* catchable and joinLegs *)

(* The walk of a change, if it is one.                                      *)
Across(p, q) == IF IsWalk(ic.walkTo, p, q) THEN WalkDuration(Metres[<<p, q>>]) ELSE 0

(* Mutant of Need: the walk is taken on top of the change of platforms.     *)
NeedBoth(p, q) == TransferTime(rules, p, q) + Across(p, q)

(* Mutant of Need: the walk is not timed.                                   *)
NeedNoWalk(p, q) == TransferTime(rules, p, q)

(* How long the change takes: the transfer, or the walk if that is longer.  *)
Need(p, q) == Max({TransferTime(rules, p, q), Across(p, q)})

(* Mutant of CanBeCaught: a walk may be any length.                         *)
CanBeCaughtAfar(leg, next) ==
  /\ next.trip # leg.trip /\ next.depart >= leg.arrive
  /\ next.depart >= leg.arrive + Need(leg.to, next.from) + request.buffer

CanBeCaught(leg, next) ==
  /\ next.trip # leg.trip
  /\ next.depart >= leg.arrive
  /\ IsWalk(ic.walkTo, leg.to, next.from) => Metres[<<leg.to, next.from>>] <= Walk
  /\ next.depart >= leg.arrive + Need(leg.to, next.from) + request.buffer

(* The onward ride that arrives soonest, the first of them; none if none    *)
(* can be caught.                                                          *)
Catchable(leg, onward) ==
  LET can == {k \in DOMAIN onward : CanBeCaught(leg, onward[k])}
      soonest == {k \in can : \A m \in can : onward[k].arrive <= onward[m].arrive}
  IN  {k \in soonest : \A m \in soonest : k <= m}

(* Mutant of JoinLegs: the walk is charged as time to cross as well.        *)
JoinLegsTwice(leg, next) ==
  LET onFoot == Across(leg.to, next.from) IN
  [first |-> leg, second |-> next, onFoot |-> onFoot,
   wait |-> next.depart - leg.arrive - onFoot,
   needed |-> Need(leg.to, next.from)]

(* A walk is a leg of its own, and the wait and the crossing are what is    *)
(* left without it.                                                        *)
JoinLegs(leg, next) ==
  LET onFoot == Across(leg.to, next.from) IN
  [first |-> leg, second |-> next, onFoot |-> onFoot,
   wait |-> next.depart - leg.arrive - onFoot,
   needed |-> Max({Need(leg.to, next.from) - onFoot, 0})]

(* Onward rides are asked for once, from the soonest a first ride arrives,  *)
(* with the default time to change.                                        *)
FromTime ==
  Min({firsts[k].arrive : k \in DOMAIN firsts}) + DefaultTransferTime + request.buffer

(* Mutant of PriceFirsts: the window of the onward rides begins anew.       *)
PriceFirstsAnew ==
  /\ stage = "price"
  /\ \E onward \in DirectJourneys(feed, ic.stops, To, FromTime, request.within) :
       found' = found \cup UNION {{JoinLegs(firsts[f], onward[k]) :
                                     k \in Catchable(firsts[f], onward)} : f \in DOMAIN firsts}
  /\ stations' = Tail(stations) /\ stage' = "open"
  /\ UNCHANGED <<feed, rules, request, ic, firsts, spoiled>>

PriceFirsts ==
  /\ stage = "price"
  /\ \E onward \in DirectJourneys(feed, ic.stops, To, FromTime,
                                  request.within - (FromTime - request.after)) :
       found' = found \cup UNION {{JoinLegs(firsts[f], onward[k]) :
                                     k \in Catchable(firsts[f], onward)} : f \in DOMAIN firsts}
  /\ stations' = Tail(stations) /\ stage' = "open"
  /\ UNCHANGED <<feed, rules, request, ic, firsts, spoiled>>

-----------------------------------------------------------------------------

Finish ==
  /\ stage = "open" /\ stations = <<>>
  /\ stage' = "done"
  /\ UNCHANGED <<feed, rules, request, stations, ic, firsts, found, spoiled>>

(* A query fails, the station named by Via is not there, or the caller goes *)
(* away: no journeys and an error.                                         *)
Fail ==
  /\ stage \in {"candidates", "firsts", "price"}
  /\ found' = {} /\ stations' = <<>>
  /\ stage' = "failed"
  /\ UNCHANGED <<feed, rules, request, ic, firsts, spoiled>>

Next ==
  \/ Candidates \/ OpenInterchange \/ SkipInterchange \/ FindFirsts \/ PriceFirsts
  \/ Finish \/ Fail

Spec == Init /\ [][Next]_vars

-----------------------------------------------------------------------------

TypeOK ==
  /\ \E s \in Searches : feed = s.feed /\ rules = s.rules /\ request = s.request
  /\ ToSet(stations) \subseteq {Root(s) : s \in Stops} \cup {request.via}
  /\ ic.walkTo \subseteq ic.stops /\ ic.stops \subseteq Stops
  /\ Len(firsts) <= MaxFirsts
  /\ Cardinality(found) <= MaxFirsts * MaxInterchanges
  /\ spoiled \in BOOLEAN
  /\ stage \in {"candidates", "open", "firsts", "price", "done", "failed"}

Ends == request.after + request.within

(* What the calendar files say runs on service day d within the window.     *)
Runnable(d) ==
  {r \in RidesOn(feed, d) : /\ Runs(feed, Service(feed, r.trip), d)
                            /\ r.depart \in request.after .. Ends}

(* The longest a change from p to q may take: crossing, or walking where q  *)
(* is not a stop of p's station.                                           *)
ChangeTime(p, q) ==
  Max({TransferTime(rules, p, q),
       IF q \in StopIDsForStation(p) THEN 0 ELSE WalkDuration(Metres[<<p, q>>])})

(* A connection: two services that run and are boarded in the window, in   *)
(* the direction they travel, with the time and the walk between them.      *)
IsConnection(j) ==
  LET one == j.first
      two == j.second
      runs == UNION {Runnable(d) : d \in DayOf(request.after) - 1 .. DayOf(Ends)}
  IN  /\ one \in runs /\ one.from \in From
      /\ two \in runs /\ two.to \in To
      /\ one.trip # two.trip
      /\ one.depart <= one.arrive /\ two.depart <= two.arrive
      /\ two.depart - one.arrive >= ChangeTime(one.to, two.from) + request.buffer
      /\ two.from \notin StopIDsForStation(one.to) => Metres[<<one.to, two.from>>] <= Walk

(***************************************************************************)
(* plan.go:424: a connection shown can be made.  Both services run and are *)
(* boarded in the window, in the direction they travel; they are two       *)
(* services; and between them there is time for what the rules say of this *)
(* pair of stops, for the walk if the change leaves the station, and for   *)
(* the buffer asked for, and no walk is longer than the traveller allows.  *)
(***************************************************************************)
CanBeMade == \A j \in found : IsConnection(j)

(* The wait and the crossing add up to the gap, the walk counted once.      *)
AddsUp(j) ==
  LET gap == j.second.depart - j.first.arrive
  IN  /\ j.wait - j.needed = gap - Max({TransferTime(rules, j.first.to, j.second.from), j.onFoot})
      /\ j.wait - j.needed >= request.buffer
      /\ j.needed >= 0 /\ j.onFoot + j.wait = gap

(***************************************************************************)
(* plan.go:488-502: the wait and the crossing a journey is published with  *)
(* are those Live.Journey judges it by after a delay.  What they leave of  *)
(* the gap is the gap less the longer of crossing and walking, with the    *)
(* walk counted once; it is never less than the buffer.                    *)
(***************************************************************************)
SlackIsWhatIsLeft == \A j \in found : AddsUp(j)

-----------------------------------------------------------------------------

(* The stops a walk is sure, or may happen, to add to a station.            *)
SureNear(station) ==
  {n \in Stops : \A near \in WalkableFrom(StopIDsForStation(station), Walk) : n \in near}
MayStop(station) ==
  StopIDsForStation(station) \cup
    UNION {StopIDsForStation(n) : n \in UNION WalkableFrom(StopIDsForStation(station), Walk)}

(* One can change from p to q within p's station, or by a short walk.       *)
Connected(p, q) ==
  \/ Root(p) = Root(q)
  \/ /\ Root(p) \in Stops
     /\ \E n \in SureNear(Root(p)) : Root(n) = Root(q) /\ q \in StopIDsForStation(n)
     /\ q \in Located /\ p \in Located /\ Metres[<<p, q>>] <= Walk

(* Nothing the search asks about a change at the station is cut short.      *)
Uncut(station, d) ==
  /\ Cardinality({Root(r.to) : r \in {x \in Runnable(d) : x.from \in From}})
       <= Min({MaxInterchanges, StationLimit})
  /\ Cardinality(RowsOn(feed, From, MayStop(station), request.after, request.within, d)) <= RowLimit
  /\ Cardinality(RowsOn(feed, MayStop(station), To, request.after, request.within, d)) <= RowLimit

(* f is among the few rides to its station that are priced.                 *)
Priced(f, d) ==
  Cardinality({r \in Runnable(d) : /\ r.from \in From /\ r.to \in MayStop(Root(f.to))
                                   /\ r.depart <= f.depart}) <= MaxFirsts

(* The changes service day d offers, with the time allowed for each: but    *)
(* the ones to a service that is boarded two days after its own, since for  *)
(* rides of one day no later day is asked than the next.                    *)
Changes(d, time(_, _)) ==
  {c \in {r \in Runnable(d) : r.from \in From} \X {r \in Runnable(d) : r.to \in To} :
     LET f == c[1]  g == c[2] IN
     /\ f.trip # g.trip
     /\ Connected(f.to, g.from) /\ Uncut(Root(f.to), d)
     /\ DayOf(g.depart) <= d + 1
     /\ g.depart >= f.arrive + time(f.to, g.from) + request.buffer}

(* A journey was found that leaves no earlier and arrives no later.         *)
AsGoodFound(f, g) ==
  \E j \in found : j.first.depart >= f.depart /\ j.second.arrive <= g.arrive

Searched == stage = "done" /\ ~spoiled /\ request.via = Anywhere

(* The default is allowed even where less is stated: onward rides that      *)
(* leave sooner are not asked for.                                         *)
TimeAllowed(p, q) == Max({ChangeTime(p, q), DefaultTransferTime})

(***************************************************************************)
(* plan.go:513-524 and 560: bounding the search loses nothing a traveller  *)
(* wants.  Whatever two of today's services could be joined, at a station  *)
(* or by a short walk, with the default time to change or more, the search *)
(* has a journey that leaves no earlier and arrives no later; as long as   *)
(* the first ride is one of the few soonest to its station and no query    *)
(* was cut off by its limit.                                               *)
(***************************************************************************)
FindsTheBest ==
  Searched =>
    LET d == DayOf(request.after) IN
    \A c \in Changes(d, TimeAllowed) : Priced(c[1], d) => AsGoodFound(c[1], c[2])

(***************************************************************************)
(* pathways.go:69 and 117: where nobody stated or published a time, a      *)
(* change is given the quickest way through the station, if that is within *)
(* what is believed of the graph; never less than the default, and the     *)
(* default where the graph has no such way.                                *)
(***************************************************************************)
QuickestWayAllowed ==
  stage = "candidates" =>
    \A p, q \in Nodes(rules) :
      LET ways == {w \in SimplePaths(rules, p, q) : p # q}
          best == QuickestWay(rules, p, q)
      IN  (rules.request = <<>> /\ rules.policy = <<>> /\ rules.published = {}) =>
            TransferTime(rules, p, q) =
              IF ways # {} /\ best \in DefaultTransferTime .. MaxTransferTime
                THEN best ELSE DefaultTransferTime

-----------------------------------------------------------------------------
(* What the comments say, and the code does not do: none of these holds.   *)

(* README.md:369 and pathways.go:144: a time the caller states is not       *)
(* floored by the default.  The onward search begins after the default.    *)
StatedTimeHonoured ==
  Searched =>
    LET d == DayOf(request.after) IN
    \A c \in Changes(d, ChangeTime) : Priced(c[1], d) => AsGoodFound(c[1], c[2])

(* plan.go:560: a later train to the same interchange cannot produce an     *)
(* earlier arrival.                                                        *)
LaterTrainCannotWin ==
  Searched =>
    LET d == DayOf(request.after) IN
    \A c \in Changes(d, TimeAllowed) :
      found # {} => \E j \in found : j.second.arrive <= c[2].arrive

(* pathways.go:172: no connection survives a transfer that is not possible. *)
ForbiddenStaysForbidden ==
  \A j \in found : \A r \in rules.published :
    ~ (/\ r.type = 3 /\ r.from = j.first.to /\ r.to = j.second.from
       /\ rules.request = <<>> /\ rules.policy = <<>>)

(* plan.go:626: a station the caller names is trusted although the search   *)
(* did not surface it.  With no candidates at all it is not looked at.     *)
ViaIsTrusted ==
  (stage = "done" /\ ~spoiled /\ request.via \in Stops) =>
    \A d \in {DayOf(request.after), DayOf(request.after) - 1} :
      \A c \in Changes(d, TimeAllowed) :
        (Root(c[1].to) = request.via /\ Root(c[2].from) = request.via /\ Priced(c[1], d)) =>
          found # {}

(* README.md:424: late-night services do not vanish.  Changes between those *)
(* of yesterday's timetable do: only today's services are searched for     *)
(* places to change.                                                       *)
LateNightChanges ==
  Searched =>
    LET d == DayOf(request.after) - 1 IN
    \A c \in Changes(d, TimeAllowed) : Priced(c[1], d) => AsGoodFound(c[1], c[2])
=============================================================================
