--------------------------- MODULE OneChangeProofs ---------------------------
(***************************************************************************)
(* The search for journeys with a change and the stations its legs pass,   *)
(* over every feed, stop table and set of rules: a connection it makes can *)
(* be made, the wait and the crossing it is published with are what is     *)
(* left of the gap, a change nobody timed is given the quickest walk, and  *)
(* the bounds of the search lose nothing a traveller wants; and the        *)
(* listing of a leg keeps the leg's own calls, in their order, with        *)
(* between them what the fuller service calls at.                          *)
(***************************************************************************)
EXTENDS LegCalls, ListFacts

-----------------------------------------------------------------------------
(* Days and rides *)

(* The rows of a service day that run on it.                                *)
Running(f, from, to, after, within, d) ==
  {r \in RowsOn(f, from, to, after, within, d) : Service(f, r.trip) \in ServiceIDsOn(f, d)}

(* What is kept of the rows of a day runs on it.                            *)
LEMMA AskedRun ==
  ASSUME NEW f, NEW from, NEW to, NEW after, NEW within, NEW d,
         NEW rows \in Asked(f, from, to, after, within, d)
  PROVE  rows \in Seq(Running(f, from, to, after, within, d))
<1> DEFINE table == RowsOn(f, from, to, after, within, d)
           key == [r \in table |-> r.dep]
           Run == Running(f, from, to, after, within, d)
<1>1. PICK all \in OrderByLimit(table, key, RowLimit) : rows = Among(Run, all)
  BY DEF Asked, Running
<1> HIDE DEF table, key, Run
<1>2. all \in Seq(table)
  BY RidesAssumption, AnswerIsOfTable
<1>3. rows \in Seq(Run \cap table)
  BY <1>1, <1>2, AmongKept
<1>4. Run \cap table \subseteq Run
  OBVIOUS
<1>5. rows \in Seq(Run)
  BY <1>3, <1>4
<1> QED
  BY <1>5 DEF Run

(* directJourneys answers with rides of two service days, all of which run. *)
LEMMA DirectRun ==
  ASSUME NEW f, NEW from, NEW to, NEW after, NEW within,
         NEW rides \in DirectJourneys(f, from, to, after, within)
  PROVE  rides \in Seq(Running(f, from, to, after, within, DayOf(after))
                         \cup Running(f, from, to, after, within, DayOf(after) - 1))
<1> DEFINE Run(d) == Running(f, from, to, after, within, d)
           Both == Run(DayOf(after)) \cup Run(DayOf(after) - 1)
<1>1. PICK today \in Asked(f, from, to, after, within, DayOf(after)),
           yesterday \in Asked(f, from, to, after, within, DayOf(after) - 1) :
             rides = today \o yesterday
  BY DEF DirectJourneys
<1>2. today \in Seq(Both) /\ yesterday \in Seq(Both)
  <2>1. today \in Seq(Run(DayOf(after))) /\ yesterday \in Seq(Run(DayOf(after) - 1))
    BY <1>1, AskedRun
  <2> HIDE DEF Run
  <2>2. Run(DayOf(after)) \subseteq Both /\ Run(DayOf(after) - 1) \subseteq Both
    OBVIOUS
  <2> HIDE DEF Both
  <2> QED
    BY <2>1, <2>2
<1>3. rides \in Seq(Both)
  <2> HIDE DEF Both
  <2> QED
    BY <1>1, <1>2
<1> QED
  BY <1>3

(* A ride is boarded and left at stops of the table, and at the instants    *)
(* its times are on its service day.                                        *)
LEMMA RideFacts ==
  ASSUME NEW f, IsTimetable(f.trips), NEW d \in Days, NEW r \in RidesOn(f, d)
  PROVE  /\ r.from \in Stops /\ r.to \in Stops
         /\ r.dep \in Int /\ r.arr \in Int /\ r.dep <= r.arr
         /\ Midnight[d] \in Int
         /\ r.depart = Midnight[d] + r.dep /\ r.arrive = Midnight[d] + r.arr
<1> DEFINE Ride(t, b, a) ==
             [trip |-> t, day |-> d, from |-> b.stop, to |-> a.stop,
              dep |-> b.dep, arr |-> a.arr,
              depart |-> Instant(d, b.dep), arrive |-> Instant(d, a.arr)]
<1>0. PICK t \in DOMAIN f.trips :
        \E s \in Spans(f, t) : r = Ride(t, f.trips[t].calls[s[1]], f.trips[t].calls[s[2]])
  BY DEF RidesOn
<1> DEFINE calls == f.trips[t].calls
           Calls == [stop : Stops, seq : Nat, arr : Int, dep : Int]
<1>1. PICK s \in Spans(f, t) : r = Ride(t, calls[s[1]], calls[s[2]])
  BY <1>0
<1>2. calls \in Seq(Calls)
      /\ \A m, n \in DOMAIN calls : m < n => calls[m].dep <= calls[n].arr
  BY DEF IsTimetable
<1>3. s[1] \in DOMAIN calls /\ s[2] \in DOMAIN calls /\ s[1] < s[2]
  BY DEF Spans, CallsOf
<1>4. /\ calls[s[1]] \in Calls /\ calls[s[2]] \in Calls
      /\ calls[s[1]].dep <= calls[s[2]].arr
  <2> HIDE DEF calls, Calls
  <2>1. \A k \in DOMAIN calls : calls[k] \in Calls
    BY <1>2
  <2> QED
    BY <1>2, <1>3, <2>1
<1>5. Midnight[d] \in Int
  BY ClocksAssumption DEF Days
<1>6. /\ r.from = calls[s[1]].stop /\ r.to = calls[s[2]].stop
      /\ r.dep = calls[s[1]].dep /\ r.arr = calls[s[2]].arr
      /\ r.depart = Midnight[d] + r.dep /\ r.arrive = Midnight[d] + r.arr
  BY <1>1 DEF Instant
<1> HIDE DEF calls
<1> QED
  BY <1>4, <1>5, <1>6

(* The day of an instant is the last to have begun.                         *)
LEMMA DayBegun ==
  ASSUME NEW t \in Int, NEW first \in Days, Midnight[first] <= t
  PROVE  /\ DayOf(t) \in Days /\ Midnight[DayOf(t)] <= t
         /\ \A d \in Days : Midnight[d] <= t => d <= DayOf(t)
<1> DEFINE Begun == {d \in Days : Midnight[d] <= t}
<1>1. PICK lo \in Days, hi \in Days : Days = lo .. hi
  BY ClocksAssumption
<1>2. lo \in Int /\ hi \in Int /\ Begun \subseteq Int /\ Begun # {}
  BY ClocksAssumption
<1>3. IsFiniteSet(Begun)
  <2>1. IsFiniteSet(lo .. hi)
    BY <1>2, FS_Interval
  <2> QED
    BY <1>1, <2>1, FS_Subset
<1>4. Max(Begun) \in Begun /\ \A d \in Begun : d <= Max(Begun)
  <2> HIDE DEF Begun
  <2> QED
    BY <1>2, <1>3, Greatest
<1> QED
  BY <1>4 DEF DayOf

(* Time goes forward a day at a time.                                       *)
LEMMA DaysInOrder ==
  ASSUME NEW t \in Int, NEW u \in Int, t <= u, NEW first \in Days, Midnight[first] <= t
  PROVE  DayOf(t) \in Int /\ DayOf(u) \in Int /\ DayOf(t) <= DayOf(u)
<1>1. DayOf(t) \in Days /\ Midnight[DayOf(t)] <= t
  BY DayBegun
<1>2. Midnight[first] \in Int /\ Midnight[DayOf(t)] \in Int
  BY <1>1, ClocksAssumption DEF Days
<1>3. Midnight[DayOf(t)] <= u /\ Midnight[first] <= u
  BY <1>1, <1>2
<1>4. DayOf(u) \in Days /\ DayOf(t) <= DayOf(u)
  BY <1>1, <1>3, DayBegun
<1> QED
  BY <1>1, <1>4, ClocksAssumption

-----------------------------------------------------------------------------
(* How long a change takes is a number *)

(* What Dijkstra keeps: a distance for every node, and a heap of nodes.     *)
WalkStates(nodes) == [dist : [nodes -> Nat], heap : SUBSET nodes]

(* A turn of its loop keeps that, whatever the edges are.                   *)
LEMMA TurnTyped ==
  ASSUME NEW nodes, NEW s \in WalkStates(nodes), NEW edges, NEW q
  PROVE  Turn(s, edges, q) \in WalkStates(nodes)
<1>1. ASSUME NEW cur PROVE Relaxed(s.dist, edges, cur) \in [nodes -> Nat]
  <2> DEFINE Offers(n) ==
               {s.dist[cur] + e[3] : e \in {x \in edges : x[1] = cur /\ x[2] = n}}
                 \cap 0 .. MaxTransferTime
  <2>1. s.dist \in [nodes -> Nat]
    BY DEF WalkStates
  <2>2. ASSUME NEW n \in nodes PROVE Min({s.dist[n]} \cup Offers(n)) \in Nat
    <3> DEFINE S == {s.dist[n]} \cup Offers(n)
    <3>1. S \subseteq Nat /\ S # {}
      <4>1. Offers(n) \subseteq Nat
        BY TransferAssumption
      <4> HIDE DEF Offers
      <4> QED
        BY <2>1, <4>1
    <3> HIDE DEF S
    <3>2. PICK low \in S : \A k \in S : low <= k
      BY <3>1, Least
    <3>3. Min(S) \in S
      BY <3>2, MinOf
    <3> QED
      BY <3>1, <3>3 DEF S
  <2>3. Relaxed(s.dist, edges, cur) = [n \in nodes |-> Min({s.dist[n]} \cup Offers(n))]
    BY <2>1 DEF Relaxed
  <2> HIDE DEF Offers
  <2> QED
    BY <2>2, <2>3
<1> DEFINE near == {n \in s.heap : \A m \in s.heap : s.dist[n] <= s.dist[m]}
           cur == CHOOSE n \in near : TRUE
           dist == Relaxed(s.dist, edges, cur)
           next == [dist |-> dist,
                    heap |-> (s.heap \ {cur}) \cup {n \in DOMAIN dist : dist[n] < s.dist[n]}]
<1>2. Turn(s, edges, q) = IF s.heap = {} \/ q \in near THEN s ELSE next
  BY DEF Turn
<1>3. next \in WalkStates(nodes)
  <2>1. dist \in [nodes -> Nat]
    BY <1>1
  <2>2. s.heap \subseteq nodes
    BY DEF WalkStates
  <2> HIDE DEF cur, dist
  <2>3. DOMAIN dist = nodes
    BY <2>1
  <2> QED
    BY <2>1, <2>2, <2>3 DEF WalkStates
<1> HIDE DEF next, near
<1> QED
  BY <1>2, <1>3

(* f[n] is what Dijkstra keeps after n turns.                               *)
Turns(f, start, edges, q, N) ==
  f = [n \in 0 .. N |-> IF n = 0 THEN start ELSE Turn(f[n - 1], edges, q)]

(* There is such a function, for any number of turns.                       *)
LEMMA TurnsDefined ==
  ASSUME NEW start, NEW edges, NEW q, NEW N \in Nat
  PROVE  \E f : Turns(f, start, edges, q, N)
<1> DEFINE Def(f, k) == f = [n \in 0 .. k |-> IF n = 0 THEN start ELSE Turn(f[n - 1], edges, q)]
           Bad == {k \in Nat : ~ \E f : Def(f, k)}
<1>1. Bad = {}
  <2> SUFFICES ASSUME Bad # {} PROVE FALSE
    OBVIOUS
  <2>1. PICK k \in Bad : \A j \in Bad : k <= j
    <3>1. Bad \subseteq Nat
      OBVIOUS
    <3> HIDE DEF Bad
    <3> QED
      BY <3>1, Least
  <2>2. k # 0
    <3>1. Def([n \in 0 .. 0 |-> start], 0)
      OBVIOUS
    <3> HIDE DEF Def
    <3> QED
      BY <3>1
  <2>3. k - 1 \in Nat /\ k - 1 \notin Bad
    <3>1. k \in Nat
      OBVIOUS
    <3>2. k - 1 \in Nat /\ ~ k <= k - 1
      BY <2>2, <3>1
    <3> QED
      BY <2>1, <3>2
  <2>4. PICK f : Def(f, k - 1)
    BY <2>3
  <2> DEFINE g == [n \in 0 .. k |-> IF n = 0 THEN start ELSE Turn(f[n - 1], edges, q)]
  <2>5. ASSUME NEW n \in 0 .. k, n # 0 PROVE g[n - 1] = f[n - 1]
    <3>1. n - 1 \in 0 .. k - 1 /\ n - 1 \in 0 .. k
      BY <2>3, <2>5
    <3>2. f[n - 1] = IF n - 1 = 0 THEN start ELSE Turn(f[(n - 1) - 1], edges, q)
      BY <2>4, <3>1
    <3> QED
      BY <3>1, <3>2
  <2>6. Def(g, k)
    <3>1. g = [n \in 0 .. k |-> IF n = 0 THEN start ELSE Turn(g[n - 1], edges, q)]
      BY <2>5
    <3> QED
      BY <3>1
  <2> HIDE DEF Def
  <2> QED
    BY <2>6
<1>2. PICK f : Def(f, N)
  BY <1>1
<1> QED
  BY <1>2 DEF Turns

(* However many turns there are, distances are numbers.                     *)
LEMMA TurnsTyped ==
  ASSUME NEW nodes, NEW start \in WalkStates(nodes), NEW edges, NEW q, NEW N \in Nat,
         NEW f, Turns(f, start, edges, q, N)
  PROVE  f[N] \in WalkStates(nodes)
<1> DEFINE Bad == {n \in 0 .. N : f[n] \notin WalkStates(nodes)}
<1>1. \A n \in 0 .. N : f[n] = IF n = 0 THEN start ELSE Turn(f[n - 1], edges, q)
  <2>1. f = [n \in 0 .. N |-> IF n = 0 THEN start ELSE Turn(f[n - 1], edges, q)]
    BY DEF Turns
  <2> QED
    BY <2>1
<1>2. Bad = {}
  <2> SUFFICES ASSUME Bad # {} PROVE FALSE
    OBVIOUS
  <2>1. PICK n \in Bad : \A m \in Bad : n <= m
    <3>1. Bad \subseteq Nat
      OBVIOUS
    <3> HIDE DEF Bad
    <3> QED
      BY <3>1, Least
  <2>2. n # 0
    BY <1>1
  <2>3. n - 1 \in 0 .. N /\ ~ n <= n - 1
    BY <2>2
  <2>4. f[n - 1] \in WalkStates(nodes)
    BY <2>1, <2>3
  <2>5. Turn(f[n - 1], edges, q) \in WalkStates(nodes)
    BY <2>4, TurnTyped
  <2> QED
    BY <1>1, <2>2, <2>5
<1> QED
  BY <1>2

(* The walk through a station is a number, or is not known.                 *)
LEMMA WalkTimeTyped ==
  ASSUME NEW r, AreRules(r), NEW p, NEW q
  PROVE  WalkTime(r, p, q) \in Nat \cup {Unknown}
<1> DEFINE edges == Edges(r)
           nodes == Nodes(r) \cup {p, q}
           N == Cardinality(nodes)
           start == [dist |-> [n \in nodes |-> IF n = p THEN 0 ELSE Unreached], heap |-> {p}]
           after == CHOOSE f : Turns(f, start, edges, q, N)
           final == after[N]
<1>1. N \in Nat
  <2>1. IsFiniteSet(Nodes(r))
    BY DEF AreRules
  <2>2. IsFiniteSet(Nodes(r) \cup {p})
    BY <2>1, FS_AddElement
  <2>3. IsFiniteSet((Nodes(r) \cup {p}) \cup {q})
    BY <2>2, FS_AddElement
  <2>4. nodes = (Nodes(r) \cup {p}) \cup {q}
    OBVIOUS
  <2> QED
    BY <2>3, <2>4, FS_CardinalityType
<1>2. start \in WalkStates(nodes)
  <2>1. Unreached \in Nat
    BY TransferAssumption DEF Unreached
  <2> QED
    BY <2>1 DEF WalkStates
<1>3. WalkTime(r, p, q) = IF p = q THEN 0
                          ELSE IF edges = {} \/ q \notin final.heap THEN Unknown
                          ELSE final.dist[q]
  BY DEF WalkTime, Turns
<1> HIDE DEF N, start, edges
<1>4. Turns(after, start, edges, q, N)
  BY <1>1, TurnsDefined
<1> HIDE DEF after, nodes
<1>5. final \in WalkStates(nodes)
  BY <1>1, <1>2, <1>4, TurnsTyped
<1> HIDE DEF final
<1>6. q \in nodes
  BY DEF nodes
<1>7. final.dist[q] \in Nat
  BY <1>5, <1>6 DEF WalkStates
<1> QED
  BY <1>3, <1>7

(* So is what the operator publishes of a pair of stops.                    *)
LEMMA PublishedTyped ==
  ASSUME NEW r, AreRules(r), NEW p, NEW q
  PROVE  PublishedTransfer(r, p, q) \in Int \cup {Unknown}
<1> DEFINE rows == {x \in r.published : x.from = p /\ x.to = q /\ x.type \in 0 .. 3}
           mins == {x.min : x \in rows}
           shortest == [x \in rows |-> x.min]
<1>1. CASE rows = {}
  BY <1>1 DEF PublishedTransfer
<1>2. CASE rows # {}
  <2>1. IsFiniteSet(rows)
    <3>1. IsFiniteSet(r.published) /\ rows \subseteq r.published
      BY DEF AreRules
    <3> QED
      BY <3>1, FS_Subset
  <2>2. mins \subseteq Int /\ mins # {}
    BY <1>2 DEF AreRules
  <2>3. IsFiniteSet(mins)
    <3>1. shortest \in Surjection(rows, mins)
      BY DEF Surjection
    <3> HIDE DEF rows, mins, shortest
    <3> QED
      BY <2>1, <3>1, FS_Surjection
  <2>4. Max(mins) \in Int
    <3> HIDE DEF mins
    <3> QED
      BY <2>2, <2>3, Greatest
  <2>5. MaxTransferTime * 10 \in Int
    BY TransferAssumption
  <2> QED
    BY <1>2, <2>4, <2>5 DEF PublishedTransfer
<1> QED
  BY <1>1, <1>2

(* And whatever source of the time of a change is the first to know.        *)
LEMMA TransferTyped ==
  ASSUME NEW r, AreRules(r), NEW p, NEW q
  PROVE  TransferTime(r, p, q) \in Int
<1> DEFINE sources == <<LookupPair(r.request, p, q), LookupPair(r.policy, p, q),
                        PublishedTransfer(r, p, q)>>
           known == {n \in DOMAIN sources : sources[n] # Unknown}
           walk == WalkTime(r, p, q)
<1>1. \A n \in 1 .. 3 : sources[n] \in Int \cup {Unknown}
  <2>1. LookupPair(r.request, p, q) \in Int \cup {Unknown}
    BY DEF AreRules, LookupPair
  <2>2. LookupPair(r.policy, p, q) \in Int \cup {Unknown}
    BY DEF AreRules, LookupPair
  <2>3. PublishedTransfer(r, p, q) \in Int \cup {Unknown}
    BY PublishedTyped
  <2> QED
    BY <2>1, <2>2, <2>3
<1>2. DOMAIN sources = 1 .. 3
  OBVIOUS
<1>3. TransferTime(r, p, q) = IF known # {} THEN sources[Min(known)]
                              ELSE IF walk = Unknown THEN DefaultTransferTime
                              ELSE Max({walk, DefaultTransferTime})
  BY DEF TransferTime
<1> HIDE DEF sources, walk
<1>4. CASE known # {}
  <2>1. known \subseteq Nat
    BY <1>2
  <2>2. PICK low \in known : \A k \in known : low <= k
    <3> HIDE DEF known
    <3> QED
      BY <1>4, <2>1, Least
  <2>3. Min(known) \in known
    <3> HIDE DEF known
    <3> QED
      BY <2>2, MinOf
  <2>4. sources[Min(known)] \in Int
    BY <1>1, <1>2, <2>3
  <2> QED
    BY <1>3, <1>4, <2>4
<1>5. CASE known = {}
  <2>1. walk \in Nat \cup {Unknown} /\ DefaultTransferTime \in Nat
    BY WalkTimeTyped, TransferAssumption DEF walk
  <2>2. walk # Unknown => Max({walk, DefaultTransferTime}) \in Int
    BY <2>1, MaxOfTwo
  <2> QED
    BY <1>3, <1>5, <2>1, <2>2
<1> QED
  BY <1>4, <1>5

(* Walking takes time.                                                      *)
LEMMA WalkDurationTyped ==
  ASSUME NEW m \in Nat
  PROVE  WalkDuration(m) \in Nat
<1>1. m * Detour \in Nat /\ Pace \in Int
  BY TransferAssumption
<1>2. Pace > 0 => (m * Detour) \div Pace \in Nat
  BY <1>1
<1> QED
  BY <1>1, <1>2 DEF WalkDuration

-----------------------------------------------------------------------------
(* What a step of the search may rely on *)

Given == \E s \in Searches : feed = s.feed /\ rules = s.rules /\ request = s.request

(* The stops of the interchange are those of one station, and what a walk   *)
(* adds.                                                                    *)
Opened == \E s \in Stops : ic.stops = StopIDsForStation(s) \cup ic.walkTo

(* The rides that may be priced.                                            *)
RidesTo ==
  Running(feed, From, ic.stops, request.after, request.within, DayOf(request.after))
    \cup Running(feed, From, ic.stops, request.after, request.within, DayOf(request.after) - 1)

(* The search keeps its inputs; what it has open is the surroundings of a   *)
(* station, and what it prices are rides there; and so what it has found    *)
(* are changes that can be made.                                           *)
SearchInv ==
  /\ Given
  /\ stage \in {"firsts", "price"} => Opened
  /\ stage = "price" => firsts # <<>> /\ firsts \in Seq(RidesTo)
  /\ CanBeMade /\ SlackIsWhatIsLeft

LEMMA GivenFacts ==
  ASSUME Given
  PROVE  /\ IsTimetable(feed.trips) /\ AreRules(rules)
         /\ request.after \in Int /\ request.within \in Int /\ Ends \in Int
         /\ request.maxWalk \in Int /\ request.buffer \in Nat
         /\ \E d \in Days : d + 1 \in Days /\ Midnight[d + 1] <= request.after
BY InputsAssumption DEF Given, Ends

(* A service the calendar has on a day runs on it by the two files as well. *)
LEMMA RunsOnDay ==
  ASSUME NEW f, NEW s, NEW d, s \in ServiceIDsOn(f, d)
  PROVE  Runs(f, s, d)
BY DEF Runs, ServiceIDsOn

(* Yesterday is in the calendar, whenever in the window one asks.           *)
LEMMA WindowDays ==
  ASSUME Given, NEW t \in Int, request.after <= t
  PROVE  /\ DayOf(request.after) \in Int /\ DayOf(t) \in Int
         /\ DayOf(t) \in Days /\ DayOf(t) - 1 \in Days
         /\ DayOf(request.after) <= DayOf(t)
<1>1. PICK first \in Days : first + 1 \in Days /\ Midnight[first + 1] <= request.after
  BY GivenFacts
<1>2. request.after \in Int
  BY GivenFacts
<1>3. DayOf(request.after) \in Int /\ DayOf(t) \in Int /\ DayOf(request.after) <= DayOf(t)
  BY <1>1, <1>2, DaysInOrder
<1>4. Midnight[first + 1] <= t
  <2>1. Midnight[first + 1] \in Int
    BY <1>1, ClocksAssumption DEF Days
  <2> QED
    BY <1>1, <1>2, <2>1
<1>5. DayOf(t) \in Days /\ first + 1 <= DayOf(t)
  BY <1>1, <1>4, DayBegun
<1>6. PICK lo \in Days, hi \in Days : Days = lo .. hi
  BY ClocksAssumption
<1>7. lo \in Int /\ hi \in Int /\ first \in Int
  BY ClocksAssumption
<1>8. DayOf(t) - 1 \in Days
  BY <1>3, <1>5, <1>6, <1>7
<1> QED
  BY <1>3, <1>5, <1>8

(* A ride the search is told of, asked from t to the end of the window, is  *)
(* one that runs, in the window.                                            *)
LEMMA RunFacts ==
  ASSUME Given, NEW from, NEW to, NEW t \in Int, request.after <= t,
         NEW w \in Int, t + w = Ends,
         NEW d \in {DayOf(t), DayOf(t) - 1}, NEW r \in Running(feed, from, to, t, w, d)
  PROVE  /\ r \in UNION {Runnable(e) : e \in DayOf(request.after) - 1 .. DayOf(Ends)}
         /\ r.from \in from \cap Stops /\ r.to \in to \cap Stops
         /\ r.depart \in Int /\ r.arrive \in Int
         /\ t <= r.depart /\ r.depart <= r.arrive
<1>1. request.after \in Int /\ Ends \in Int /\ IsTimetable(feed.trips)
  BY GivenFacts
<1>2. d \in Days
  BY WindowDays
<1>3. /\ r \in RidesOn(feed, d) /\ r.from \in from /\ r.to \in to
      /\ r.dep \in (t - Midnight[d]) .. (t - Midnight[d]) + w
      /\ Service(feed, r.trip) \in ServiceIDsOn(feed, d)
  BY DEF Running, RowsOn
<1>4. /\ r.from \in Stops /\ r.to \in Stops
      /\ r.dep \in Int /\ r.arr \in Int /\ r.dep <= r.arr
      /\ Midnight[d] \in Int
      /\ r.depart = Midnight[d] + r.dep /\ r.arrive = Midnight[d] + r.arr
  BY <1>1, <1>2, <1>3, RideFacts
<1>5. /\ r.depart \in Int /\ r.arrive \in Int /\ r.depart <= r.arrive
      /\ t <= r.depart /\ r.depart <= Ends /\ r.depart \in request.after .. Ends
  BY <1>1, <1>3, <1>4
<1>6. r \in Runnable(d)
  BY <1>3, <1>5, RunsOnDay DEF Runnable
<1>7. d \in DayOf(request.after) - 1 .. DayOf(Ends)
  <2>1. DayOf(request.after) \in Int /\ DayOf(t) \in Int /\ DayOf(request.after) <= DayOf(t)
    BY WindowDays
  <2>2. t <= Ends /\ request.after <= Ends
    BY <1>1, <1>5
  <2>3. DayOf(t) <= DayOf(Ends) /\ DayOf(Ends) \in Int
    <3>1. PICK first \in Days : Midnight[first] <= request.after
      BY GivenFacts
    <3>2. Midnight[first] \in Int
      BY <3>1, ClocksAssumption DEF Days
    <3>3. Midnight[first] <= t
      BY <1>1, <3>1, <3>2
    <3> QED
      BY <1>1, <2>2, <3>1, <3>3, DaysInOrder
  <2> QED
    BY <2>1, <2>3
<1> QED
  BY <1>3, <1>4, <1>5, <1>6, <1>7

(* A stop is one of its station's.                                          *)
LEMMA OwnStation ==
  ASSUME NEW p \in Stops
  PROVE  p \in StopIDsForStation(p)
BY DEF StopIDsForStation, Root

(* The time a change is given is never less than the change takes, and a    *)
(* change that leaves the station is a walk.                                *)
LEMMA TimeToChange ==
  ASSUME Given, Opened, NEW p \in Stops, NEW q \in Stops, p \in ic.stops, q \in ic.stops
  PROVE  /\ q \notin StopIDsForStation(p) => IsWalk(ic.walkTo, p, q)
         /\ TransferTime(rules, p, q) \in Int /\ Across(p, q) \in Nat
         /\ Need(p, q) \in Int /\ ChangeTime(p, q) \in Int /\ ChangeTime(p, q) <= Need(p, q)
<1>1. ASSUME q \notin StopIDsForStation(p) PROVE IsWalk(ic.walkTo, p, q)
  <2>1. p # q
    BY <1>1, OwnStation
  <2>2. PICK s \in Stops : ic.stops = StopIDsForStation(s) \cup ic.walkTo
    BY DEF Opened
  <2>3. p \in ic.walkTo \/ q \in ic.walkTo
    BY <1>1, <2>2, TableAssumption
  <2>4. p \in Located /\ q \in Located
    BY TableAssumption DEF Located
  <2> QED
    BY <2>1, <2>3, <2>4 DEF IsWalk
<1>2. TransferTime(rules, p, q) \in Int
  BY GivenFacts, TransferTyped
<1>3. WalkDuration(Metres[<<p, q>>]) \in Nat
  <2>1. Metres[<<p, q>>] \in Nat
    BY TableAssumption, StopsAssumption
  <2> QED
    BY <2>1, WalkDurationTyped
<1>4. Across(p, q) \in Nat
  BY <1>3 DEF Across
<1> DEFINE afoot == IF q \in StopIDsForStation(p) THEN 0 ELSE WalkDuration(Metres[<<p, q>>])
<1>5. afoot \in Nat /\ afoot <= Across(p, q)
  BY <1>1, <1>3, <1>4 DEF Across
<1>6. /\ Need(p, q) = IF TransferTime(rules, p, q) >= Across(p, q)
                        THEN TransferTime(rules, p, q) ELSE Across(p, q)
      /\ ChangeTime(p, q) = IF TransferTime(rules, p, q) >= afoot
                              THEN TransferTime(rules, p, q) ELSE afoot
  BY <1>2, <1>4, <1>5, MaxOfTwo DEF Need, ChangeTime
<1> HIDE DEF afoot
<1> QED
  BY <1>1, <1>2, <1>4, <1>5, <1>6

(* Onward rides are asked for from after the first rides were.              *)
LEMMA FromTimeFacts ==
  ASSUME Given, NEW T, firsts \in Seq(T), firsts # <<>>,
         \A r \in T : r.arrive \in Int /\ request.after <= r.arrive
  PROVE  /\ FromTime \in Int /\ request.after <= FromTime
         /\ \A k \in DOMAIN firsts :
              FromTime <= firsts[k].arrive + DefaultTransferTime + request.buffer
<1> DEFINE arrivals == {firsts[k].arrive : k \in DOMAIN firsts}
           since == {a - request.after : a \in arrivals}
<1>1. request.after \in Int /\ request.buffer \in Nat /\ DefaultTransferTime \in Nat
  BY GivenFacts, TransferAssumption
<1>2. \A a \in arrivals : a \in Int /\ request.after <= a
  <2>1. \A k \in DOMAIN firsts : firsts[k] \in T
    OBVIOUS
  <2> QED
    BY <2>1
<1>3. arrivals # {}
  <2>1. 1 \in DOMAIN firsts
    OBVIOUS
  <2> QED
    BY <2>1
<1> HIDE DEF arrivals
<1>4. since \subseteq Nat /\ since # {}
  BY <1>1, <1>2, <1>3
<1>5. PICK low \in since : \A k \in since : low <= k
  <2> HIDE DEF since
  <2> QED
    BY <1>4, Least
<1>6. PICK soon \in arrivals : low = soon - request.after
  BY DEF since
<1>7. \A a \in arrivals : soon <= a
  <2>1. \A a \in arrivals : a - request.after \in since
    OBVIOUS
  <2> HIDE DEF since
  <2>2. \A a \in arrivals : low <= a - request.after
    BY <1>5, <2>1
  <2> QED
    BY <1>1, <1>2, <1>6, <2>2
<1>8. Min(arrivals) \in arrivals /\ \A a \in arrivals : Min(arrivals) <= a
  BY <1>7, MinOf
<1>9. FromTime = Min(arrivals) + DefaultTransferTime + request.buffer
  BY DEF FromTime, arrivals
<1>10. \A k \in DOMAIN firsts : Min(arrivals) <= firsts[k].arrive /\ firsts[k].arrive \in Int
  <2>1. \A k \in DOMAIN firsts : firsts[k].arrive \in arrivals
    BY DEF arrivals
  <2> QED
    BY <1>2, <1>8, <2>1
<1> QED
  BY <1>1, <1>2, <1>8, <1>9, <1>10

(* Two rides the search knows to run, of which the second can be caught     *)
(* from the first, are a connection, and joining them adds up.              *)
LEMMA Joined ==
  ASSUME Given, Opened, NEW f, NEW g, CanBeCaught(f, g),
         NEW runs, runs = UNION {Runnable(e) : e \in DayOf(request.after) - 1 .. DayOf(Ends)},
         f \in runs, f.from \in From, f.to \in ic.stops \cap Stops,
         f.depart \in Int, f.arrive \in Int, f.depart <= f.arrive,
         g \in runs, g.to \in To, g.from \in ic.stops \cap Stops,
         g.depart \in Int, g.arrive \in Int, g.depart <= g.arrive
  PROVE  IsConnection(JoinLegs(f, g)) /\ AddsUp(JoinLegs(f, g))
<1> DEFINE p == f.to
           q == g.from
           gap == g.depart - f.arrive
           j == JoinLegs(f, g)
<1>1. /\ q \notin StopIDsForStation(p) => IsWalk(ic.walkTo, p, q)
      /\ TransferTime(rules, p, q) \in Int /\ Across(p, q) \in Nat
      /\ Need(p, q) \in Int /\ ChangeTime(p, q) \in Int /\ ChangeTime(p, q) <= Need(p, q)
  BY TimeToChange
<1>2. /\ g.trip # f.trip
      /\ IsWalk(ic.walkTo, p, q) => Metres[<<p, q>>] <= Walk
      /\ g.depart >= f.arrive + Need(p, q) + request.buffer
  BY DEF CanBeCaught
<1>3. request.buffer \in Nat
  BY GivenFacts
<1>4. /\ j.first = f /\ j.second = g /\ j.onFoot = Across(p, q)
      /\ j.wait = gap - Across(p, q) /\ j.needed = Max({Need(p, q) - Across(p, q), 0})
  BY DEF JoinLegs
<1>5. gap \in Int /\ gap >= Need(p, q) + request.buffer
  BY <1>1, <1>2, <1>3
<1> HIDE DEF j, gap, p, q
<1>6. gap >= ChangeTime(p, q) + request.buffer
  BY <1>1, <1>3, <1>5
<1>7. IsConnection(j)
  BY <1>1, <1>2, <1>4, <1>6 DEF IsConnection, gap, p, q
<1>8. Need(p, q) = IF TransferTime(rules, p, q) >= Across(p, q)
                     THEN TransferTime(rules, p, q) ELSE Across(p, q)
  BY <1>1, MaxOfTwo DEF Need
<1>9. j.needed = Need(p, q) - Across(p, q)
  <2>1. Need(p, q) - Across(p, q) >= 0 /\ Need(p, q) - Across(p, q) \in Int
    BY <1>1, <1>8
  <2> QED
    BY <1>4, <2>1, MaxOfTwo
<1>10. Max({TransferTime(rules, p, q), j.onFoot}) = Need(p, q)
  BY <1>4 DEF Need
<1>11. /\ j.wait - j.needed = gap - Need(p, q) /\ j.wait - j.needed >= request.buffer
       /\ j.needed >= 0 /\ j.onFoot + j.wait = gap
  BY <1>1, <1>3, <1>4, <1>5, <1>8, <1>9
<1>12. AddsUp(j)
  BY <1>4, <1>10, <1>11 DEF AddsUp, gap, p, q
<1> QED
  BY <1>7, <1>12 DEF j

-----------------------------------------------------------------------------
(* The search *)

LEMMA SearchInit == Init => SearchInv
BY DEF Init, SearchInv, Given, CanBeMade, SlackIsWhatIsLeft

(* Whether a journey is a connection that adds up rests on the inputs.      *)
LEMMA Unmoved ==
  ASSUME UNCHANGED <<feed, rules, request>>, NEW CONSTANT j
  PROVE  IsConnection(j)' = IsConnection(j) /\ AddsUp(j)' = AddsUp(j)
BY DEF IsConnection, AddsUp, Runnable, Ends, From, To, ChangeTime, Walk

(* So it is enough to look at what a step adds.                             *)
LEMMA FoundKeep ==
  ASSUME UNCHANGED <<feed, rules, request>>, CanBeMade, SlackIsWhatIsLeft,
         \A j \in found' : j \in found \/ (IsConnection(j) /\ AddsUp(j))
  PROVE  CanBeMade' /\ SlackIsWhatIsLeft'
<1>1. \A j \in found' : IsConnection(j) /\ AddsUp(j)
  BY DEF CanBeMade, SlackIsWhatIsLeft
<1> QED
  BY <1>1, Unmoved DEF CanBeMade, SlackIsWhatIsLeft

(* A step that finds nothing new, and opens nothing.                        *)
LEMMA NothingFound ==
  ASSUME SearchInv, UNCHANGED <<feed, rules, request>>, found' \in {found, {}},
         stage' \notin {"firsts", "price"}
  PROVE  SearchInv'
<1>1. Given'
  BY DEF SearchInv, Given
<1>2. CanBeMade' /\ SlackIsWhatIsLeft'
  BY FoundKeep DEF SearchInv
<1> QED
  BY <1>1, <1>2 DEF SearchInv

LEMMA OpenKeeps ==
  ASSUME SearchInv, OpenInterchange
  PROVE  SearchInv'
<1>1. UNCHANGED <<feed, rules, request, found>> /\ stage' = "firsts"
  BY DEF OpenInterchange
<1>2. Opened'
  BY DEF OpenInterchange, Opened
<1>3. Given'
  BY <1>1 DEF SearchInv, Given
<1>4. CanBeMade' /\ SlackIsWhatIsLeft'
  BY <1>1, FoundKeep DEF SearchInv
<1> QED
  BY <1>1, <1>2, <1>3, <1>4 DEF SearchInv

LEMMA FirstsKeep ==
  ASSUME SearchInv, FindFirsts
  PROVE  SearchInv'
<1>1. UNCHANGED <<feed, rules, request, ic, found>> /\ stage = "firsts"
      /\ stage' = IF firsts' = <<>> THEN "open" ELSE "price"
  BY DEF FindFirsts
<1>2. Opened'
  BY <1>1 DEF SearchInv, Opened
<1>3. firsts' \in Seq(RidesTo)
  <2>1. PICK rides \in DirectJourneys(feed, From, ic.stops, request.after, request.within) :
          firsts' = First(MaxFirsts, rides)
    BY DEF FindFirsts
  <2>2. rides \in Seq(RidesTo)
    BY <2>1, DirectRun DEF RidesTo
  <2>3. MaxFirsts \in Nat
    BY SearchAssumption
  <2> QED
    BY <2>1, <2>2, <2>3, FirstFacts
<1>4. RidesTo' = RidesTo
  BY <1>1 DEF RidesTo, From
<1>5. Given'
  BY <1>1 DEF SearchInv, Given
<1>7. CanBeMade' /\ SlackIsWhatIsLeft'
  BY <1>1, FoundKeep DEF SearchInv
<1>6. stage' = "price" => firsts' # <<>> /\ firsts' \in Seq(RidesTo')
  BY <1>1, <1>3, <1>4
<1> QED
  BY <1>1, <1>2, <1>5, <1>6, <1>7 DEF SearchInv

(* What pricing adds are connections that add up.                           *)
LEMMA PriceAdds ==
  ASSUME SearchInv, PriceFirsts, NEW j \in found', j \notin found
  PROVE  IsConnection(j) /\ AddsUp(j)
<1> DEFINE w == request.within - (FromTime - request.after)
           runs == UNION {Runnable(e) : e \in DayOf(request.after) - 1 .. DayOf(Ends)}
           RidesOnward == Running(feed, ic.stops, To, FromTime, w, DayOf(FromTime))
                            \cup Running(feed, ic.stops, To, FromTime, w, DayOf(FromTime) - 1)
<1>1. Given /\ Opened /\ firsts # <<>> /\ firsts \in Seq(RidesTo)
  BY DEF SearchInv, PriceFirsts
<1>2. request.after \in Int /\ request.within \in Int /\ request.after + request.within = Ends
  BY <1>1, GivenFacts DEF Ends
<1>3. \A f \in RidesTo :
        /\ f \in runs /\ f.from \in From /\ f.to \in ic.stops \cap Stops
        /\ f.depart \in Int /\ f.arrive \in Int
        /\ request.after <= f.depart /\ f.depart <= f.arrive
  <2> SUFFICES ASSUME NEW f \in RidesTo
               PROVE  /\ f \in runs /\ f.from \in From /\ f.to \in ic.stops \cap Stops
                      /\ f.depart \in Int /\ f.arrive \in Int
                      /\ request.after <= f.depart /\ f.depart <= f.arrive
    OBVIOUS
  <2>1. PICK d \in {DayOf(request.after), DayOf(request.after) - 1} :
          f \in Running(feed, From, ic.stops, request.after, request.within, d)
    BY DEF RidesTo
  <2>2. request.after <= request.after
    BY <1>2
  <2> QED
    BY <1>1, <1>2, <2>1, <2>2, RunFacts
<1>4. FromTime \in Int /\ request.after <= FromTime
  <2>1. \A f \in RidesTo : f.arrive \in Int /\ request.after <= f.arrive
    BY <1>2, <1>3
  <2> QED
    BY <1>1, <2>1, FromTimeFacts
<1>5. \A g \in RidesOnward :
        /\ g \in runs /\ g.to \in To /\ g.from \in ic.stops \cap Stops
        /\ g.depart \in Int /\ g.arrive \in Int /\ g.depart <= g.arrive
  <2> SUFFICES ASSUME NEW g \in RidesOnward
               PROVE  /\ g \in runs /\ g.to \in To /\ g.from \in ic.stops \cap Stops
                      /\ g.depart \in Int /\ g.arrive \in Int /\ g.depart <= g.arrive
    OBVIOUS
  <2>1. PICK d \in {DayOf(FromTime), DayOf(FromTime) - 1} :
          g \in Running(feed, ic.stops, To, FromTime, w, d)
    OBVIOUS
  <2>2. w \in Int /\ FromTime + w = Ends
    BY <1>2, <1>4
  <2> HIDE DEF w
  <2> QED
    BY <1>1, <1>4, <2>1, <2>2, RunFacts
<1>6. PICK onward \in DirectJourneys(feed, ic.stops, To, FromTime, w) :
        found' = found \cup UNION {{JoinLegs(firsts[f], onward[k]) :
                                      k \in Catchable(firsts[f], onward)} : f \in DOMAIN firsts}
  BY DEF PriceFirsts
<1>7. onward \in Seq(RidesOnward)
  BY <1>6, DirectRun
<1> HIDE DEF RidesOnward, w, runs
<1>8. PICK f \in DOMAIN firsts :
        j \in {JoinLegs(firsts[f], onward[k]) : k \in Catchable(firsts[f], onward)}
  BY <1>6
<1>9. PICK k \in Catchable(firsts[f], onward) : j = JoinLegs(firsts[f], onward[k])
  BY <1>8
<1>10. k \in DOMAIN onward /\ CanBeCaught(firsts[f], onward[k])
  BY <1>9 DEF Catchable
<1>11. firsts[f] \in RidesTo /\ onward[k] \in RidesOnward
  BY <1>1, <1>7, <1>8, <1>10
<1> QED
  <2>1. runs = UNION {Runnable(e) : e \in DayOf(request.after) - 1 .. DayOf(Ends)}
    BY DEF runs
  <2> QED
    BY <1>1, <1>3, <1>5, <1>9, <1>10, <1>11, <2>1, Joined

LEMMA PriceKeeps ==
  ASSUME SearchInv, PriceFirsts
  PROVE  SearchInv'
<1>1. UNCHANGED <<feed, rules, request>> /\ stage' = "open"
  BY DEF PriceFirsts
<1>2. \A j \in found' : j \in found \/ (IsConnection(j) /\ AddsUp(j))
  BY PriceAdds
<1>3. CanBeMade' /\ SlackIsWhatIsLeft'
  BY <1>1, <1>2, FoundKeep DEF SearchInv
<1> QED
  BY <1>1, <1>3 DEF SearchInv, Given

LEMMA SearchStep == SearchInv /\ [Next]_vars => SearchInv'
<1> SUFFICES ASSUME SearchInv, [Next]_vars PROVE SearchInv'
  OBVIOUS
<1>1. CASE Candidates
  BY <1>1, NothingFound DEF Candidates
<1>2. CASE OpenInterchange
  BY <1>2, OpenKeeps
<1>3. CASE SkipInterchange
  BY <1>3, NothingFound DEF SkipInterchange
<1>4. CASE FindFirsts
  BY <1>4, FirstsKeep
<1>5. CASE PriceFirsts
  BY <1>5, PriceKeeps
<1>6. CASE Finish
  BY <1>6, NothingFound DEF Finish
<1>7. CASE Fail
  BY <1>7, NothingFound DEF Fail
<1>8. CASE UNCHANGED vars
  <2>1. Given' /\ (Opened' <=> Opened) /\ RidesTo' = RidesTo
    BY <1>8 DEF vars, SearchInv, Given, Opened, RidesTo, From
  <2>2. CanBeMade' /\ SlackIsWhatIsLeft'
    BY <1>8, FoundKeep DEF vars, SearchInv
  <2> QED
    BY <1>8, <2>1, <2>2 DEF vars, SearchInv
<1> QED
  BY <1>1, <1>2, <1>3, <1>4, <1>5, <1>6, <1>7, <1>8 DEF Next

LEMMA SearchInvariant == Spec => []SearchInv
<1>1. Init => SearchInv
  BY SearchInit
<1>2. SearchInv /\ [Next]_vars => SearchInv'
  BY SearchStep
<1> QED
  BY <1>1, <1>2, PTL DEF Spec

(***************************************************************************)
(* Every connection journeysWithOneChange makes can be made: both services *)
(* run and leave in the window, and there is time between them for what is *)
(* stated of the change, for the walk and for the buffer.                  *)
(***************************************************************************)
THEOREM ConnectionsCanBeMade == Spec => []CanBeMade
<1>1. SearchInv => CanBeMade
  BY DEF SearchInv
<1> QED
  BY <1>1, SearchInvariant, PTL

(***************************************************************************)
(* What joinLegs says of a connection's wait and of its crossing is what   *)
(* is left of the gap, whichever source the time of the change is from.    *)
(***************************************************************************)
THEOREM WaitsAddUp == Spec => []SlackIsWhatIsLeft
<1>1. SearchInv => SlackIsWhatIsLeft
  BY DEF SearchInv
<1> QED
  BY <1>1, SearchInvariant, PTL

-----------------------------------------------------------------------------
(* What is asked, if its limit is not met *)

(* A feed has finitely many rides.                                          *)
LEMMA FewRides ==
  ASSUME NEW f, IsTimetable(f.trips), NEW d
  PROVE  IsFiniteSet(RidesOn(f, d))
<1> DEFINE Ride(t, b, a) ==
             [trip |-> t, day |-> d, from |-> b.stop, to |-> a.stop,
              dep |-> b.dep, arr |-> a.arr,
              depart |-> Instant(d, b.dep), arrive |-> Instant(d, a.arr)]
           rides(t) == [s \in Spans(f, t) |-> Ride(t, f.trips[t].calls[s[1]], f.trips[t].calls[s[2]])]
           made(t) == {rides(t)[s] : s \in Spans(f, t)}
           all == [t \in DOMAIN f.trips |-> made(t)]
<1>1. ASSUME NEW t \in DOMAIN f.trips PROVE IsFiniteSet(made(t))
  <2>1. f.trips[t].calls \in Seq([stop : Stops, seq : Nat, arr : Int, dep : Int])
    BY DEF IsTimetable
  <2>2. CallsOf(f, t) = 1 .. Len(f.trips[t].calls) /\ Len(f.trips[t].calls) \in Nat
    BY <2>1 DEF CallsOf
  <2>3. IsFiniteSet(CallsOf(f, t))
    BY <2>2, FS_Interval
  <2>4. IsFiniteSet(CallsOf(f, t) \X CallsOf(f, t))
    BY <2>3, FS_Product
  <2>5. Spans(f, t) \in SUBSET (CallsOf(f, t) \X CallsOf(f, t))
    BY DEF Spans
  <2>6. IsFiniteSet(Spans(f, t))
    BY <2>4, <2>5, FS_Subset
  <2> DEFINE g == rides(t)
  <2>7. DOMAIN g = Spans(f, t) /\ g = [s \in Spans(f, t) |-> g[s]]
    OBVIOUS
  <2> HIDE DEF g
  <2>8. IsFiniteSet({g[s] : s \in Spans(f, t)})
    BY <2>6, <2>7, FewMade
  <2> QED
    BY <2>8 DEF g
<1>2. \A t \in DOMAIN f.trips : all[t] = made(t)
  OBVIOUS
<1>3. RidesOn(f, d) = UNION {all[t] : t \in DOMAIN f.trips}
  <2> DEFINE from(t) == {Ride(t, f.trips[t].calls[s[1]], f.trips[t].calls[s[2]]) : s \in Spans(f, t)}
  <2>1. RidesOn(f, d) = UNION {from(t) : t \in DOMAIN f.trips}
    BY DEF RidesOn
  <2> HIDE DEF Ride, all
  <2>2. \A t : made(t) = from(t)
    OBVIOUS
  <2> HIDE DEF made, from
  <2>3. \A t \in DOMAIN f.trips : all[t] = from(t)
    BY <1>2, <2>2
  <2> QED
    BY <2>1, <2>3
<1>4. DOMAIN all = DOMAIN f.trips /\ all = [t \in DOMAIN f.trips |-> all[t]]
  OBVIOUS
<1> HIDE DEF all, made
<1>5. IsFiniteSet({all[t] : t \in DOMAIN f.trips})
  BY <1>4, FewMade DEF IsTimetable
<1>6. \A T \in {all[t] : t \in DOMAIN f.trips} : IsFiniteSet(T)
  BY <1>1, <1>2
<1> QED
  BY <1>3, <1>5, <1>6, FS_UNION

(* If the rows of a day are not cut off, all that run are answered, in the  *)
(* order they leave.                                                       *)
LEMMA AllAsked ==
  ASSUME NEW f, IsTimetable(f.trips), NEW from, NEW to, NEW after, NEW within, NEW d,
         NEW rows \in Asked(f, from, to, after, within, d),
         Cardinality(RowsOn(f, from, to, after, within, d)) <= RowLimit
  PROVE  /\ rows \in Seq(Running(f, from, to, after, within, d))
         /\ \A r \in Running(f, from, to, after, within, d) : r \in ToSet(rows)
         /\ \A i, j \in 1 .. Len(rows) : i < j => rows[i] # rows[j] /\ rows[i].dep <= rows[j].dep
<1> DEFINE table == RowsOn(f, from, to, after, within, d)
           key == [r \in table |-> r.dep]
           Run == Running(f, from, to, after, within, d)
<1>1. PICK all \in OrderByLimit(table, key, RowLimit) : rows = Among(Run, all)
  BY DEF Asked, Running
<1>2. IsFiniteSet(table) /\ Cardinality(table) <= RowLimit
  <2>1. table \in SUBSET RidesOn(f, d)
    BY DEF RowsOn
  <2>2. IsFiniteSet(RidesOn(f, d))
    BY FewRides
  <2> HIDE DEF table
  <2>3. IsFiniteSet(table)
    BY <2>1, <2>2, FS_Subset
  <2> QED
    BY <2>3 DEF table
<1>3. Run \subseteq table
  BY DEF Running
<1>4. \A r \in table : key[r] = r.dep
  OBVIOUS
<1> HIDE DEF table, key, Run
<1>5. RowLimit \in Nat
  BY RidesAssumption
<1>6. /\ all \in Seq(table) /\ table \subseteq ToSet(all)
      /\ \A i, j \in 1 .. Len(all) : i < j => all[i] # all[j] /\ key[all[i]] <= key[all[j]]
  BY <1>1, <1>2, <1>5, AnswerIsOfTable, AnswerInOrder
<1>7. /\ Among(Run, all) \in Seq(Run)
      /\ \A r \in Run : r \in ToSet(Among(Run, all))
  <2>1. /\ Among(Run, all) \in Seq(Run \cap table)
        /\ \A r \in ToSet(all) \cap Run : r \in ToSet(Among(Run, all))
    BY <1>6, AmongKept
  <2>2. Run \cap table = Run /\ \A r \in Run : r \in ToSet(all) \cap Run
    BY <1>3, <1>6
  <2> QED
    BY <2>1, <2>2
<1>8. PICK at \in [1 .. Len(Among(Run, all)) -> 1 .. Len(all)] :
        /\ \A n \in 1 .. Len(Among(Run, all)) : Among(Run, all)[n] = all[at[n]]
        /\ \A m, n \in 1 .. Len(Among(Run, all)) : m < n => at[m] < at[n]
  BY <1>6, AmongPicks
<1>9. \A n \in 1 .. Len(rows) : /\ at[n] \in 1 .. Len(all) /\ rows[n] = all[at[n]]
                                /\ key[rows[n]] = rows[n].dep
  <2>1. \A n \in 1 .. Len(rows) : at[n] \in 1 .. Len(all) /\ rows[n] = all[at[n]]
    BY <1>1, <1>8
  <2>2. \A k \in 1 .. Len(all) : key[all[k]] = all[k].dep
    BY <1>4, <1>6
  <2> QED
    BY <2>1, <2>2
<1>10. \A i, j \in 1 .. Len(rows) : i < j => rows[i] # rows[j] /\ rows[i].dep <= rows[j].dep
  <2> SUFFICES ASSUME NEW i \in 1 .. Len(rows), NEW j \in 1 .. Len(rows), i < j
               PROVE  rows[i] # rows[j] /\ rows[i].dep <= rows[j].dep
    OBVIOUS
  <2>1. at[i] < at[j]
    BY <1>1, <1>8
  <2>2. all[at[i]] # all[at[j]] /\ key[all[at[i]]] <= key[all[at[j]]]
    BY <1>6, <1>9, <2>1
  <2> QED
    BY <1>9, <2>2
<1> QED
  BY <1>1, <1>7, <1>10 DEF Run

-----------------------------------------------------------------------------
(* What the search must find *)

Today == DayOf(request.after)

(* A change that FindsTheBest asks for: a pair of rides.                    *)
Wanted(f, g) ==
  /\ f \in Runnable(Today) /\ f.from \in From
  /\ g \in Runnable(Today) /\ g.to \in To
  /\ f.trip # g.trip
  /\ Connected(f.to, g.from) /\ Uncut(Root(f.to), Today)
  /\ DayOf(g.depart) <= Today + 1
  /\ g.depart >= f.arrive + TimeAllowed(f.to, g.from) + request.buffer
  /\ Priced(f, Today)

LEMMA WantedIsAll ==
  ASSUME NEW c \in Changes(DayOf(request.after), TimeAllowed), Priced(c[1], DayOf(request.after))
  PROVE  Wanted(c[1], c[2])
BY DEF Changes, Wanted, Today

LEMMA TodayFacts ==
  ASSUME Given
  PROVE  Today \in Days /\ Today \in Int /\ Midnight[Today] \in Int
<1>1. request.after \in Int
  BY GivenFacts
<1>2. request.after <= request.after
  BY <1>1
<1>3. DayOf(request.after) \in Int /\ DayOf(request.after) \in Days
  BY <1>1, <1>2, WindowDays
<1> QED
  BY <1>3, ClocksAssumption DEF Today, Days

(* A ride of today is asked for by any query of its stops whose window has  *)
(* begun when it leaves and ends with the request's.                        *)
LEMMA TodayAsked ==
  ASSUME Given, NEW r \in Runnable(Today), NEW from, NEW to, r.from \in from, r.to \in to,
         NEW t \in Int, t <= r.depart, NEW w \in Int, t + w = Ends
  PROVE  r \in Running(feed, from, to, t, w, Today)
<1>1. Today \in Days /\ Midnight[Today] \in Int /\ Ends \in Int /\ IsTimetable(feed.trips)
  BY TodayFacts, GivenFacts
<1>2. r \in RidesOn(feed, Today) /\ Runs(feed, Service(feed, r.trip), Today) /\ r.depart <= Ends
  <2>1. r.depart \in request.after .. Ends
    BY DEF Runnable
  <2> QED
    BY <2>1 DEF Runnable
<1>3. r.dep \in Int /\ r.depart = Midnight[Today] + r.dep
  BY <1>1, <1>2, RideFacts
<1>4. r.dep \in (t - Midnight[Today]) .. (t - Midnight[Today]) + w
  BY <1>1, <1>2, <1>3
<1>5. Service(feed, r.trip) \in ServiceIDsOn(feed, Today)
  BY <1>2 DEF Runs, ServiceIDsOn
<1> QED
  BY <1>2, <1>4, <1>5 DEF Running, RowsOn

(* What a ride of today is.                                                 *)
LEMMA TodaysFacts ==
  ASSUME Given, NEW r \in Runnable(Today)
  PROVE  /\ r.from \in Stops /\ r.to \in Stops
         /\ r.dep \in Int /\ r.depart \in Int /\ r.arrive \in Int
         /\ r.depart = Midnight[Today] + r.dep
         /\ request.after <= r.depart /\ r.depart <= r.arrive /\ r.depart <= Ends
<1>1. Today \in Days /\ Midnight[Today] \in Int /\ request.after \in Int /\ IsTimetable(feed.trips)
      /\ Ends \in Int
  BY TodayFacts, GivenFacts
<1>2. r \in RidesOn(feed, Today) /\ r.depart \in request.after .. Ends
  BY DEF Runnable
<1>3. /\ r.from \in Stops /\ r.to \in Stops
      /\ r.dep \in Int /\ r.arr \in Int /\ r.dep <= r.arr
      /\ r.depart = Midnight[Today] + r.dep /\ r.arrive = Midnight[Today] + r.arr
  BY <1>1, <1>2, RideFacts
<1> QED
  BY <1>1, <1>2, <1>3

LEMMA FewToday ==
  ASSUME Given, NEW S \in SUBSET Runnable(Today)
  PROVE  IsFiniteSet(S)
<1>1. IsFiniteSet(RidesOn(feed, Today))
  BY GivenFacts, FewRides
<1>2. S \in SUBSET RidesOn(feed, Today)
  BY DEF Runnable
<1> QED
  BY <1>1, <1>2, FS_Subset

(* The rides that stationsFrom and stationsServing count are those that run *)
(* in the window.                                                          *)
LEMMA TodaysRunnable == TodaysRides(feed, request.after, request.within) = Runnable(Today)
<1>1. \A s : s \in ServiceIDsOn(feed, Today) <=> Runs(feed, s, Today)
  BY DEF Runs, ServiceIDsOn
<1> QED
  BY <1>1 DEF TodaysRides, Runnable, Today, Ends

(* A stop is one of those of its station, if the station is in the table.   *)
LEMMA StationHasIt ==
  ASSUME NEW p \in Stops, Root(p) \in Stops
  PROVE  p \in StopIDsForStation(Root(p))
<1>1. CASE Root(p) = p
  BY <1>1, OwnStation
<1>2. CASE Root(p) # p
  <2> DEFINE st == Root(p)
             siblings == {t \in Stops : Parent[t] = st \/ t = st}
             rest == siblings \ {p}
  <2>1. p \in siblings /\ st \in siblings
    BY <1>2 DEF Root
  <2>2. StopIDsForStation(p) = IF Cardinality(siblings) > 1 THEN siblings
                               ELSE {t \in Stops : NameOf[t] = NameOf[p]}
    BY DEF StopIDsForStation
  <2>3. siblings \in SUBSET Stops
    OBVIOUS
  <2> HIDE DEF siblings
  <2>4. IsFiniteSet(siblings)
    BY <2>3, StopsAssumption, FS_Subset
  <2>5. /\ IsFiniteSet(rest) /\ Cardinality(rest) = Cardinality(siblings) - 1
    BY <2>1, <2>4, FS_RemoveElement
  <2>6. st \in rest
    BY <1>2, <2>1
  <2> HIDE DEF rest, st
  <2>7. Cardinality(rest) # 0 /\ Cardinality(rest) \in Nat /\ Cardinality(siblings) \in Nat
    BY <2>4, <2>5, <2>6, FS_EmptySet, FS_CardinalityType
  <2>8. StopIDsForStation(p) = siblings
    BY <2>2, <2>5, <2>7
  <2>9. p \in StopIDsForStation(st)
    BY <2>1, <2>8, TableAssumption
  <2> QED
    BY <2>9 DEF st
<1> QED
  BY <1>1, <1>2

-----------------------------------------------------------------------------
(* The candidates *)

StationsOfTable == {Root(s) : s \in Stops}

(* Nothing cuts the station of a wanted change off the list.                *)
LEMMA CandidatesHaveIt ==
  ASSUME Given, NEW list \in Interchanges
  PROVE  /\ list \in Seq(StationsOfTable)
         /\ \A f, g : Wanted(f, g) => Root(f.to) \in ToSet(list)
<1> DEFINE runs == Runnable(Today)
           reached == {Root(r.to) : r \in {x \in runs : x.from \in From}}
           firstArr == [s \in reached |-> Min({r.arr : r \in {x \in {y \in runs : y.from \in From} : Root(x.to) = s}})]
           serving == StationsServing(feed, To, request.after, request.within)
           leading(near) ==
             {s \in DOMAIN near \ serving : \E n \in near[s] : Root(n) \in serving \/ n \in serving}
<1>1. PICK reach \in StationsFrom(feed, From, request.after, request.within) :
        \E near \in Surroundings(ToSet(reach) \cap Stops) :
          list = First(MaxInterchanges, Among(serving, reach) \o Among(leading(near), reach))
  BY DEF Interchanges
<1>2. PICK near \in Surroundings(ToSet(reach) \cap Stops) :
        list = First(MaxInterchanges, Among(serving, reach) \o Among(leading(near), reach))
  BY <1>1
<1>3. reach \in OrderByLimit(reached, firstArr, StationLimit)
  BY <1>1, TodaysRunnable DEF StationsFrom
<1>4. serving = {Root(r.from) : r \in {x \in runs : x.to \in To}}
  BY TodaysRunnable DEF StationsServing
<1>5. /\ StationLimit \in Nat /\ MaxInterchanges \in Nat
  BY RidesAssumption, SearchAssumption
<1>6. reached \subseteq StationsOfTable
  BY TodaysFacts DEF StationsOfTable
<1>7. IsFiniteSet(reached)
  <2> DEFINE S == {x \in runs : x.from \in From}
             g == [r \in S |-> Root(r.to)]
  <2>1. S \in SUBSET runs
    OBVIOUS
  <2>2. IsFiniteSet(S)
    BY <2>1, FewToday
  <2> HIDE DEF S
  <2>3. IsFiniteSet({g[r] : r \in S})
    BY <2>2, FewMade
  <2>4. reached = {g[r] : r \in S}
    BY DEF S
  <2> QED
    BY <2>3, <2>4
<1> DEFINE heads == Among(serving, reach)
           tails == Among(leading(near), reach)
<1> HIDE DEF reached, firstArr, leading
<1>8. /\ reach \in Seq(reached) /\ Len(reach) <= Cardinality(reached)
      /\ Cardinality(reached) <= StationLimit => reached \subseteq ToSet(reach)
  BY <1>3, <1>5, <1>7, AnswerIsOfTable, AnswerInOrder
<1>9. /\ heads \in Seq(reached) /\ tails \in Seq(reached)
      /\ \A s \in ToSet(reach) \cap serving : s \in ToSet(heads)
      /\ \A s \in ToSet(reach) \cap leading(near) : s \in ToSet(tails)
  <2>1. /\ heads \in Seq(serving \cap reached) /\ tails \in Seq(leading(near) \cap reached)
        /\ \A s \in ToSet(reach) \cap serving : s \in ToSet(heads)
        /\ \A s \in ToSet(reach) \cap leading(near) : s \in ToSet(tails)
    BY <1>8, AmongKept
  <2>2. \A X, Y : X \cap Y \subseteq Y
    OBVIOUS
  <2> HIDE DEF heads, tails, serving
  <2>3. \A X, Y, s : s \in Seq(X \cap Y) => s \in Seq(Y)
    OBVIOUS
  <2> QED
    BY <2>1, <2>3
<1>10. Len(heads) + Len(tails) <= Len(reach)
  <2>1. \A s \in leading(near) : s \notin serving
    BY DEF leading
  <2> HIDE DEF serving
  <2> QED
    BY <1>8, <2>1, AmongApart
<1> HIDE DEF heads, tails, serving
<1>11. list \in Seq(StationsOfTable)
  <2>1. heads \o tails \in Seq(reached)
    BY <1>9
  <2>2. list \in Seq(reached)
    BY <1>2, <1>5, <2>1, FirstFacts DEF heads, tails
  <2>3. \A X, Y, s : X \subseteq Y /\ s \in Seq(X) => s \in Seq(Y)
    OBVIOUS
  <2> QED
    BY <1>6, <2>2, <2>3
<1>12. ASSUME NEW f, NEW g, Wanted(f, g) PROVE Root(f.to) \in ToSet(list)
  <2> DEFINE st == Root(f.to)
  <2>1. /\ f \in runs /\ f.from \in From /\ g \in runs /\ g.to \in To
        /\ Connected(f.to, g.from) /\ Uncut(st, Today)
    BY <1>12 DEF Wanted
  <2>2. st \in reached /\ Root(g.from) \in serving
    BY <1>4, <2>1 DEF reached
  <2>3. Cardinality(reached) <= StationLimit /\ Cardinality(reached) <= MaxInterchanges
    <3>1. Cardinality(reached) <= Min({MaxInterchanges, StationLimit})
      BY <2>1 DEF Uncut, reached
    <3>2. \A a, b \in Int : Min({a, b}) \in Int /\ Min({a, b}) <= a /\ Min({a, b}) <= b
      <4> SUFFICES ASSUME NEW a \in Int, NEW b \in Int
                   PROVE  Min({a, b}) \in Int /\ Min({a, b}) <= a /\ Min({a, b}) <= b
        OBVIOUS
      <4>1. \E low \in {a, b} : \A k \in {a, b} : low <= k
        OBVIOUS
      <4>2. Min({a, b}) \in {a, b} /\ \A k \in {a, b} : Min({a, b}) <= k
        BY <4>1, MinOf
      <4> QED
        BY <4>2
    <3>3. Cardinality(reached) \in Nat
      BY <1>7, FS_CardinalityType
    <3> QED
      BY <1>5, <3>1, <3>2, <3>3
  <2>4. st \in ToSet(reach)
    BY <1>8, <2>2, <2>3
  <2>5. st \in ToSet(heads) \/ st \in ToSet(tails)
    <3>1. CASE st \in serving
      BY <1>9, <2>4, <3>1
    <3>2. CASE st \notin serving
      <4>1. st \in Stops /\ \E n \in SureNear(st) : Root(n) = Root(g.from)
        BY <2>1, <2>2, <3>2 DEF Connected
      <4>2. PICK n \in SureNear(st) : Root(n) = Root(g.from)
        BY <4>1
      <4>3. st \in DOMAIN near /\ near[st] \in WalkableFrom(StopIDsForStation(st), Walk)
        BY <1>2, <2>4, <4>1 DEF Surroundings
      <4>4. n \in near[st]
        BY <4>3 DEF SureNear
      <4>5. st \in leading(near)
        BY <2>2, <3>2, <4>2, <4>3, <4>4 DEF leading
      <4> QED
        BY <1>9, <2>4, <4>5
    <3> QED
      BY <3>1, <3>2
  <2>6. heads \o tails \in Seq(reached) /\ st \in ToSet(heads \o tails)
    BY <1>9, <2>5, OneBehindAnother
  <2> DEFINE both == heads \o tails
  <2>7. Len(both) = Len(heads) + Len(tails)
    BY <1>9
  <2> HIDE DEF both, st
  <2>8. PICK k \in 1 .. Len(both) : both[k] = st
    BY <2>6 DEF both, ToSet
  <2>9. k <= MaxInterchanges
    <3>1. Len(both) \in Nat /\ Len(reach) \in Nat /\ Cardinality(reached) \in Nat
      BY <1>7, <1>8, <2>6, FS_CardinalityType DEF both
    <3>2. Len(both) <= Cardinality(reached)
      BY <1>8, <1>10, <2>7, <3>1
    <3> QED
      BY <1>5, <2>3, <2>8, <3>1, <3>2
  <2>10. both[k] \in ToSet(First(MaxInterchanges, both))
    BY <1>5, <2>6, <2>8, <2>9, InFirst DEF both
  <2> QED
    BY <1>2, <2>8, <2>10 DEF both, st, heads, tails
<1> QED
  BY <1>11, <1>12

-----------------------------------------------------------------------------
(* The interchange *)

(* It is all that is near the station, each with its platforms.             *)
OpenedWhole(st) ==
  \E near \in WalkableFrom(StopIDsForStation(st), Walk) :
    /\ ic.walkTo = UNION {StopIDsForStation(n) : n \in near}
    /\ ic.stops = StopIDsForStation(st) \cup ic.walkTo

(* What a walk adds to a station is none of its own.                        *)
LEMMA AddedIsApart ==
  ASSUME NEW st \in Stops, OpenedWhole(st)
  PROVE  \A t \in ic.walkTo : t \in Stops /\ t \notin StopIDsForStation(st)
<1> DEFINE ids == StopIDsForStation(st)
<1>1. PICK near \in WalkableFrom(ids, Walk) :
        ic.walkTo = UNION {StopIDsForStation(n) : n \in near}
  BY DEF OpenedWhole
<1>2. \A n \in near : n \in Stops /\ n \notin ids
  <2> DEFINE origins == ids \cap Located
  <2>1. CASE Walk <= 0 \/ origins = {}
    BY <1>1, <2>1 DEF WalkableFrom
  <2>2. CASE ~ (Walk <= 0 \/ origins = {})
    <3>1. PICK kept \in Deduped(Boxed(origins, Walk)) :
            near = {s \in kept : /\ s \notin ids /\ Parent[s] \notin ids
                                 /\ Nearest(origins, s) <= Walk}
      BY <1>1, <2>2 DEF WalkableFrom
    <3>2. kept \subseteq Stops
      BY <3>1 DEF Deduped, Boxed, Located
    <3> QED
      BY <3>1, <3>2
  <2> QED
    BY <2>1, <2>2
<1>3. ASSUME NEW n \in near, NEW t \in StopIDsForStation(n) PROVE t \in Stops /\ t \notin ids
  <2>1. t \in Stops
    BY <1>3 DEF StopIDsForStation
  <2> SUFFICES ASSUME t \in ids PROVE FALSE
    BY <2>1
  <2>2. n \in StopIDsForStation(n) /\ st \in ids /\ n \in Stops
    BY <1>2, OwnStation
  <2>3. n \in StopIDsForStation(t)
    BY <2>2, TableAssumption
  <2>4. st \in StopIDsForStation(t)
    BY <2>2, TableAssumption
  <2>5. n \in StopIDsForStation(st)
    BY <2>1, <2>3, <2>4, TableAssumption
  <2> QED
    BY <1>2, <2>5
<1> HIDE DEF ids
<1>4. \A t \in ic.walkTo : t \in Stops /\ t \notin ids
  BY <1>1, <1>3
<1> QED
  BY <1>4 DEF ids

(* Both ends of a wanted change are there, and the search gives it no more  *)
(* time than it is to be allowed.                                          *)
LEMMA ChangeIsThere ==
  ASSUME Given, NEW f, NEW g, Wanted(f, g), Root(f.to) \in Stops, OpenedWhole(Root(f.to))
  PROVE  /\ f.to \in StopIDsForStation(Root(f.to))
         /\ f.to \in ic.stops /\ g.from \in ic.stops
         /\ IsWalk(ic.walkTo, f.to, g.from) => Metres[<<f.to, g.from>>] <= Walk
         /\ Need(f.to, g.from) \in Int /\ ChangeTime(f.to, g.from) \in Int
         /\ Need(f.to, g.from) <= ChangeTime(f.to, g.from)
<1> DEFINE p == f.to
           q == g.from
           st == Root(p)
           ids == StopIDsForStation(st)
<1>1. p \in Stops /\ q \in Stops /\ Connected(p, q) /\ st \in Stops
  BY TodaysFacts DEF Wanted
<1>2. p \in ids /\ st \in ids
  BY <1>1, StationHasIt, OwnStation
<1>3. /\ ic.stops = ids \cup ic.walkTo
      /\ \A n \in SureNear(st) : StopIDsForStation(n) \subseteq ic.walkTo
  BY DEF OpenedWhole, SureNear
<1>4. \A t \in ic.walkTo : t \in Stops /\ t \notin ids
  BY <1>1, AddedIsApart
<1>5. \/ q \in ids
      \/ q \in ic.walkTo /\ Metres[<<p, q>>] <= Walk
  <2>1. CASE Root(p) = Root(q)
    BY <1>1, <2>1, StationHasIt
  <2>2. CASE Root(p) # Root(q)
    BY <1>1, <1>3, <2>2 DEF Connected
  <2> QED
    BY <2>1, <2>2
<1>6. p \in ic.stops /\ q \in ic.stops
  BY <1>2, <1>3, <1>5
<1>7. IsWalk(ic.walkTo, p, q) => q \in ic.walkTo /\ Metres[<<p, q>>] <= Walk
  BY <1>2, <1>4, <1>5 DEF IsWalk
<1>8. IsWalk(ic.walkTo, p, q) => q \notin StopIDsForStation(p)
  <2> SUFFICES ASSUME IsWalk(ic.walkTo, p, q), q \in StopIDsForStation(p) PROVE FALSE
    OBVIOUS
  <2>1. q \notin ids
    BY <1>4, <1>7
  <2>2. st \in StopIDsForStation(p)
    BY <1>1, <1>2, TableAssumption
  <2>3. q \in StopIDsForStation(st)
    BY <1>1, <2>2, TableAssumption
  <2> QED
    BY <2>1, <2>3
<1>9. /\ TransferTime(rules, p, q) \in Int /\ Across(p, q) \in Nat
      /\ Need(p, q) \in Int /\ ChangeTime(p, q) \in Int
  <2>1. Opened
    BY <1>1, <1>3 DEF Opened
  <2> HIDE DEF p, q
  <2> QED
    BY <1>1, <1>6, <2>1, TimeToChange
<1> DEFINE afoot == IF q \in StopIDsForStation(p) THEN 0 ELSE WalkDuration(Metres[<<p, q>>])
<1>10. WalkDuration(Metres[<<p, q>>]) \in Nat
  <2>1. Metres[<<p, q>>] \in Nat
    BY <1>1, TableAssumption, StopsAssumption
  <2> QED
    BY <2>1, WalkDurationTyped
<1>11. afoot \in Nat /\ Across(p, q) <= afoot
  BY <1>8, <1>10 DEF Across
<1>12. /\ Need(p, q) = IF TransferTime(rules, p, q) >= Across(p, q)
                         THEN TransferTime(rules, p, q) ELSE Across(p, q)
       /\ ChangeTime(p, q) = IF TransferTime(rules, p, q) >= afoot
                               THEN TransferTime(rules, p, q) ELSE afoot
  BY <1>9, <1>11, MaxOfTwo DEF Need, ChangeTime
<1> HIDE DEF afoot
<1>13. Need(p, q) <= ChangeTime(p, q)
  BY <1>9, <1>11, <1>12
<1> QED
  BY <1>2, <1>6, <1>7, <1>9, <1>13

(* An interchange has no more stops than those it may.                      *)
LEMMA OpenedWithin ==
  ASSUME NEW st, OpenedWhole(st)
  PROVE  ic.stops \subseteq MayStop(st)
<1>1. PICK near \in WalkableFrom(StopIDsForStation(st), Walk) :
        /\ ic.walkTo = UNION {StopIDsForStation(n) : n \in near}
        /\ ic.stops = StopIDsForStation(st) \cup ic.walkTo
  BY DEF OpenedWhole
<1>2. near \subseteq UNION WalkableFrom(StopIDsForStation(st), Walk)
  OBVIOUS
<1> QED
  BY <1>1, <1>2 DEF MayStop

(* The first ride of a wanted change is among those that are priced.        *)
LEMMA FirstsHaveIt ==
  ASSUME Given, NEW f, NEW g, Wanted(f, g), Root(f.to) \in Stops, OpenedWhole(Root(f.to)),
         NEW rides \in DirectJourneys(feed, From, ic.stops, request.after, request.within)
  PROVE  f \in ToSet(First(MaxFirsts, rides))
<1> DEFINE st == Root(f.to)
           Rows(stops) == RowsOn(feed, From, stops, request.after, request.within, Today)
           Run == Running(feed, From, ic.stops, request.after, request.within, Today)
           Late == Running(feed, From, ic.stops, request.after, request.within, Today - 1)
           before == {r \in Runnable(Today) : /\ r.from \in From /\ r.to \in MayStop(st)
                                              /\ r.depart <= f.depart}
<1>1. PICK today \in Asked(feed, From, ic.stops, request.after, request.within, Today),
           yesterday \in Asked(feed, From, ic.stops, request.after, request.within, Today - 1) :
        rides = today \o yesterday
  BY DEF DirectJourneys, Today
<1>2. /\ f \in Runnable(Today) /\ f.from \in From /\ f.to \in ic.stops
      /\ Uncut(st, Today) /\ Priced(f, Today)
  BY ChangeIsThere DEF Wanted
<1>3. /\ IsTimetable(feed.trips) /\ request.after \in Int /\ request.within \in Int
      /\ Ends = request.after + request.within
      /\ RowLimit \in Nat /\ MaxFirsts \in Nat
      /\ Today \in Days /\ Midnight[Today] \in Int
  BY GivenFacts, RidesAssumption, SearchAssumption, TodayFacts DEF Ends
<1>4. ic.stops \subseteq MayStop(st)
  BY OpenedWithin
<1>5. Cardinality(Rows(ic.stops)) <= RowLimit
  <2>1. Cardinality(Rows(MayStop(st))) <= RowLimit
    BY <1>2 DEF Uncut
  <2>2. Rows(ic.stops) \in SUBSET Rows(MayStop(st)) /\ Rows(MayStop(st)) \in SUBSET RidesOn(feed, Today)
    BY <1>4 DEF RowsOn
  <2>3. IsFiniteSet(RidesOn(feed, Today))
    BY <1>3, FewRides
  <2> DEFINE some == Rows(ic.stops)
             all == Rows(MayStop(st))
  <2> HIDE DEF some, all
  <2>4. some \in SUBSET all /\ all \in SUBSET RidesOn(feed, Today)
    BY <2>2 DEF some, all
  <2>5. IsFiniteSet(all)
    BY <2>3, <2>4, FS_Subset
  <2>6. Cardinality(some) <= Cardinality(all) /\ IsFiniteSet(some)
    BY <2>4, <2>5, FS_Subset
  <2>7. Cardinality(some) \in Nat /\ Cardinality(all) \in Nat
    BY <2>5, <2>6, FS_CardinalityType
  <2>8. Cardinality(all) <= RowLimit
    BY <2>1 DEF all
  <2>9. Cardinality(some) <= RowLimit
    BY <1>3, <2>6, <2>7, <2>8
  <2> QED
    BY <2>9 DEF some
<1>6. f \in Run
  <2>1. request.after <= f.depart
    BY <1>2, TodaysFacts
  <2> QED
    BY <1>2, <1>3, <2>1, TodayAsked
<1>7. /\ today \in Seq(Run) /\ f \in ToSet(today)
      /\ \A i, j \in 1 .. Len(today) : i < j => today[i] # today[j] /\ today[i].dep <= today[j].dep
  BY <1>1, <1>3, <1>5, <1>6, AllAsked
<1>8. yesterday \in Seq(Late)
  BY <1>1, AskedRun
<1>9. \A r \in Run : r \in Runnable(Today) /\ r.from \in From /\ r.to \in MayStop(st)
  <2> SUFFICES ASSUME NEW r \in Run
               PROVE  r \in Runnable(Today) /\ r.from \in From /\ r.to \in MayStop(st)
    OBVIOUS
  <2>1. /\ r \in RidesOn(feed, Today) /\ r.from \in From /\ r.to \in ic.stops
        /\ r.dep \in (request.after - Midnight[Today]) ..
                       (request.after - Midnight[Today]) + request.within
        /\ Service(feed, r.trip) \in ServiceIDsOn(feed, Today)
    BY DEF Running, RowsOn
  <2>2. r.dep \in Int /\ r.depart = Midnight[Today] + r.dep
    BY <1>3, <2>1, RideFacts
  <2>3. r.depart \in request.after .. Ends
    BY <1>3, <2>1, <2>2
  <2> QED
    BY <1>4, <2>1, <2>3, RunsOnDay DEF Runnable
<1> HIDE DEF Run, Late
<1>10. PICK k \in 1 .. Len(today) : today[k] = f
  <2>1. DOMAIN today = 1 .. Len(today)
    BY <1>7
  <2> QED
    BY <1>7, <2>1 DEF ToSet
<1>11. ASSUME NEW i \in 1 .. k PROVE today[i] \in before
  <2>1. i \in 1 .. Len(today) /\ k \in 1 .. Len(today) /\ (i < k \/ i = k)
    <3>1. Len(today) \in Nat
      BY <1>7
    <3> QED
      BY <1>10, <3>1
  <2>2. today[i] \in Run
    BY <1>7, <2>1
  <2>3. today[i] \in Runnable(Today) /\ today[i].from \in From /\ today[i].to \in MayStop(st)
    BY <1>9, <2>2
  <2>4. /\ today[i].dep \in Int /\ today[i].depart = Midnight[Today] + today[i].dep
        /\ f.dep \in Int /\ f.depart = Midnight[Today] + f.dep
    BY <1>2, <2>3, TodaysFacts
  <2>5. today[i].dep <= f.dep
    BY <1>7, <1>10, <2>1, <2>4
  <2>6. today[i].depart <= f.depart
    BY <1>3, <2>4, <2>5
  <2> QED
    BY <2>3, <2>6
<1>12. k <= MaxFirsts
  <2>1. before \in SUBSET Runnable(Today)
    OBVIOUS
  <2>2. Cardinality(before) <= MaxFirsts
    BY <1>2 DEF Priced
  <2> HIDE DEF before
  <2>3. IsFiniteSet(before)
    BY <2>1, FewToday
  <2>4. k <= Cardinality(before)
    BY <1>7, <1>11, <2>3, FewBefore
  <2>5. Cardinality(before) \in Nat
    BY <2>3, FS_CardinalityType
  <2> QED
    BY <1>3, <2>2, <2>4, <2>5
<1> HIDE DEF before, st
<1>13. /\ rides \in Seq(Run \cup Late) /\ k \in 1 .. Len(rides) /\ rides[k] = f
  <2>1. today \in Seq(Run \cup Late) /\ yesterday \in Seq(Run \cup Late)
    BY <1>7, <1>8
  <2>2. rides \in Seq(Run \cup Late) /\ k \in 1 .. Len(rides) /\ rides[k] = today[k]
    BY <1>1, <1>10, <2>1
  <2> QED
    BY <1>10, <2>2
<1>14. rides[k] \in ToSet(First(MaxFirsts, rides))
  BY <1>3, <1>12, <1>13, InFirst
<1> QED
  BY <1>13, <1>14

(* Of rides of which one can be caught, one is chosen, and it arrives no    *)
(* later than any that can be.                                             *)
LEMMA SoonestIsCaught ==
  ASSUME NEW f, NEW T, NEW onward \in Seq(T), NEW from \in Int,
         \A r \in T : r.arrive \in Int /\ from <= r.arrive,
         NEW g, g \in ToSet(onward), CanBeCaught(f, g)
  PROVE  \E k \in Catchable(f, onward) : onward[k].arrive <= g.arrive
<1> DEFINE can == {k \in DOMAIN onward : CanBeCaught(f, onward[k])}
           since == {onward[k].arrive - from : k \in can}
           soonest == {k \in can : \A m \in can : onward[k].arrive <= onward[m].arrive}
<1>1. \A k \in DOMAIN onward : k \in Nat /\ onward[k] \in T
  OBVIOUS
<1>2. \A k \in can : k \in Nat /\ onward[k].arrive \in Int /\ from <= onward[k].arrive
  BY <1>1
<1>3. PICK c \in can : onward[c] = g
  <2>1. PICK c \in DOMAIN onward : onward[c] = g
    BY DEF ToSet
  <2> QED
    BY <2>1
<1> HIDE DEF can
<1>4. since \subseteq Nat /\ since # {}
  <2>1. \A k \in can : onward[k].arrive - from \in Nat
    BY <1>2
  <2> QED
    BY <1>3, <2>1
<1>5. PICK low \in since : \A s \in since : low <= s
  <2> HIDE DEF since
  <2> QED
    BY <1>4, Least
<1>6. PICK b \in can : low = onward[b].arrive - from
  BY DEF since
<1>7. \A m \in can : onward[b].arrive <= onward[m].arrive
  <2>1. \A m \in can : low <= onward[m].arrive - from
    BY <1>5 DEF since
  <2> QED
    BY <1>2, <1>6, <2>1
<1>8. b \in soonest /\ soonest \subseteq Nat
  BY <1>2, <1>7
<1>9. PICK k \in soonest : \A m \in soonest : k <= m
  <2> HIDE DEF soonest
  <2> QED
    BY <1>8, Least
<1>10. k \in Catchable(f, onward)
  BY <1>9 DEF Catchable, can
<1>11. onward[k].arrive <= g.arrive
  BY <1>3
<1> QED
  BY <1>10, <1>11

(* If the first ride of a wanted change is priced, a journey is found that  *)
(* is as good.                                                             *)
LEMMA OnwardIsFound ==
  ASSUME Given, NEW f, NEW g, Wanted(f, g), Root(f.to) \in Stops, OpenedWhole(Root(f.to)),
         firsts \in Seq(RidesTo), f \in ToSet(firsts),
         NEW onward \in DirectJourneys(feed, ic.stops, To, FromTime,
                                       request.within - (FromTime - request.after))
  PROVE  \E k \in Catchable(f, onward) : onward[k].arrive <= g.arrive
<1> DEFINE st == Root(f.to)
           w == request.within - (FromTime - request.after)
           Rows(stops, t, wide) == RowsOn(feed, stops, To, t, wide, Today)
           Run(d) == Running(feed, ic.stops, To, FromTime, w, d)
           T == Run(DayOf(FromTime)) \cup Run(DayOf(FromTime) - 1)
<1>1. /\ f \in Runnable(Today) /\ g \in Runnable(Today) /\ g.to \in To /\ f.trip # g.trip
      /\ Uncut(st, Today) /\ DayOf(g.depart) <= Today + 1
      /\ g.depart >= f.arrive + TimeAllowed(f.to, g.from) + request.buffer
  BY DEF Wanted
<1>2. /\ g.from \in ic.stops
      /\ IsWalk(ic.walkTo, f.to, g.from) => Metres[<<f.to, g.from>>] <= Walk
      /\ Need(f.to, g.from) \in Int /\ ChangeTime(f.to, g.from) \in Int
      /\ Need(f.to, g.from) <= ChangeTime(f.to, g.from)
  BY ChangeIsThere
<1>3. /\ IsTimetable(feed.trips) /\ request.after \in Int /\ request.within \in Int
      /\ request.buffer \in Nat /\ DefaultTransferTime \in Nat /\ RowLimit \in Nat
      /\ Ends \in Int /\ Ends = request.after + request.within
      /\ Today \in Days /\ Today \in Int /\ Midnight[Today] \in Int
  BY GivenFacts, RidesAssumption, TransferAssumption, TodayFacts DEF Ends
<1>4. /\ f.depart \in Int /\ f.arrive \in Int /\ f.depart <= f.arrive /\ request.after <= f.depart
      /\ g.depart \in Int /\ g.arrive \in Int /\ g.depart <= Ends
  BY <1>1, TodaysFacts
<1>5. /\ TimeAllowed(f.to, g.from) \in Int
      /\ ChangeTime(f.to, g.from) <= TimeAllowed(f.to, g.from)
      /\ DefaultTransferTime <= TimeAllowed(f.to, g.from)
  BY <1>2, <1>3, MaxOfTwo DEF TimeAllowed
<1>6. CanBeCaught(f, g)
  <2> DEFINE need == Need(f.to, g.from)
             change == ChangeTime(f.to, g.from)
             time == TimeAllowed(f.to, g.from)
  <2>1. /\ need \in Int /\ change \in Int /\ time \in Int
        /\ need <= change /\ change <= time /\ 0 <= time
        /\ g.depart >= f.arrive + time + request.buffer
    BY <1>1, <1>2, <1>3, <1>5
  <2> HIDE DEF need, change, time
  <2>2. g.depart >= f.arrive
    BY <1>3, <1>4, <2>1
  <2>3. need <= time
    BY <2>1
  <2>4. g.depart >= f.arrive + need + request.buffer
    BY <1>3, <1>4, <2>1, <2>3
  <2> QED
    BY <1>1, <1>2, <2>2, <2>4 DEF CanBeCaught, need
<1>7. FromTime \in Int /\ request.after <= FromTime /\ FromTime <= g.depart
  <2>1. \A r \in RidesTo : r.arrive \in Int /\ request.after <= r.arrive
    <3> SUFFICES ASSUME NEW r \in RidesTo PROVE r.arrive \in Int /\ request.after <= r.arrive
      OBVIOUS
    <3>1. PICK d \in {DayOf(request.after), DayOf(request.after) - 1} :
            r \in Running(feed, From, ic.stops, request.after, request.within, d)
      BY DEF RidesTo
    <3>2. request.after <= request.after
      BY <1>3
    <3>3. r.depart \in Int /\ r.arrive \in Int /\ request.after <= r.depart /\ r.depart <= r.arrive
      BY <1>3, <3>1, <3>2, RunFacts
    <3> QED
      BY <1>3, <3>3
  <2>2. PICK k \in DOMAIN firsts : firsts[k] = f
    BY DEF ToSet
  <2>3. firsts # <<>>
    BY <2>2
  <2>4. /\ FromTime \in Int /\ request.after <= FromTime
        /\ FromTime <= firsts[k].arrive + DefaultTransferTime + request.buffer
    BY <2>1, <2>2, <2>3, FromTimeFacts
  <2> DEFINE time == TimeAllowed(f.to, g.from)
             start == FromTime
  <2>5. time \in Int /\ DefaultTransferTime <= time /\ g.depart >= f.arrive + time + request.buffer
    BY <1>1, <1>5
  <2>6. start \in Int /\ start <= f.arrive + DefaultTransferTime + request.buffer
    BY <2>2, <2>4
  <2> HIDE DEF time, start
  <2>7. start <= g.depart
    BY <1>3, <1>4, <2>5, <2>6
  <2> QED
    BY <2>4, <2>7 DEF start
<1>8. w \in Int /\ FromTime + w = Ends
  BY <1>3, <1>7
<1>9. Today \in {DayOf(FromTime), DayOf(FromTime) - 1}
  <2>1. PICK first \in Days : Midnight[first] <= request.after
    BY GivenFacts
  <2>2. Midnight[first] \in Int
    BY <2>1, ClocksAssumption DEF Days
  <2>3. Midnight[first] <= FromTime
    BY <1>3, <1>7, <2>1, <2>2
  <2>4. DayOf(FromTime) \in Int /\ DayOf(g.depart) \in Int /\ DayOf(FromTime) <= DayOf(g.depart)
    BY <1>4, <1>7, <2>3, DaysInOrder
  <2>5. Today <= DayOf(FromTime)
    BY <1>3, <1>7, <2>1, DaysInOrder DEF Today
  <2> QED
    BY <1>1, <1>3, <2>4, <2>5
<1>10. g \in Run(Today)
  <2> HIDE DEF w
  <2> QED
    BY <1>1, <1>2, <1>7, <1>8, TodayAsked
<1>11. Cardinality(Rows(ic.stops, FromTime, w)) <= RowLimit
  <2> DEFINE some == Rows(ic.stops, FromTime, w)
             all == Rows(MayStop(st), request.after, request.within)
  <2>1. Cardinality(all) <= RowLimit
    BY <1>1 DEF Uncut
  <2>2. some \in SUBSET all
    <3> SUFFICES ASSUME NEW r \in some PROVE r \in all
      OBVIOUS
    <3>1. /\ r \in RidesOn(feed, Today) /\ r.from \in ic.stops /\ r.to \in To
          /\ r.dep \in (FromTime - Midnight[Today]) .. (FromTime - Midnight[Today]) + w
      BY DEF RowsOn
    <3>2. r.from \in MayStop(st)
      BY <3>1, OpenedWithin
    <3>3. r.dep \in (request.after - Midnight[Today]) .. (request.after - Midnight[Today]) + request.within
      <4> DEFINE began == Midnight[Today]
                 start == FromTime
      <4>1. /\ began \in Int /\ start \in Int /\ w \in Int /\ request.after <= start
            /\ start + w = request.after + request.within
            /\ r.dep \in (start - began) .. (start - began) + w
        BY <1>3, <1>7, <1>8, <3>1
      <4> HIDE DEF began, start, w
      <4>2. \A a, n, b, s, v, e \in Int :
               a <= s /\ s + v = a + n /\ e \in (s - b) .. (s - b) + v
                 => e \in (a - b) .. (a - b) + n
        OBVIOUS
      <4>3. r.dep \in Int
        BY <4>1
      <4>4. r.dep \in (request.after - began) .. (request.after - began) + request.within
        BY <1>3, <4>1, <4>2, <4>3
      <4> QED
        BY <4>4 DEF began
    <3> QED
      BY <3>1, <3>2, <3>3 DEF RowsOn
  <2>3. all \in SUBSET RidesOn(feed, Today)
    BY DEF RowsOn
  <2>4. IsFiniteSet(RidesOn(feed, Today))
    BY <1>3, FewRides
  <2> HIDE DEF some, all
  <2>5. IsFiniteSet(all)
    BY <2>3, <2>4, FS_Subset
  <2>6. Cardinality(some) <= Cardinality(all) /\ IsFiniteSet(some)
    BY <2>2, <2>5, FS_Subset
  <2>7. Cardinality(some) \in Nat /\ Cardinality(all) \in Nat
    BY <2>5, <2>6, FS_CardinalityType
  <2>8. Cardinality(some) <= RowLimit
    BY <1>3, <2>1, <2>6, <2>7
  <2> QED
    BY <2>8 DEF some
<1>12. PICK today \in Asked(feed, ic.stops, To, FromTime, w, DayOf(FromTime)),
            yesterday \in Asked(feed, ic.stops, To, FromTime, w, DayOf(FromTime) - 1) :
         onward = today \o yesterday
  BY DEF DirectJourneys
<1>13. g \in ToSet(today) \/ g \in ToSet(yesterday)
  <2>1. ASSUME NEW rows \in Asked(feed, ic.stops, To, FromTime, w, Today) PROVE g \in ToSet(rows)
    BY <1>3, <1>10, <1>11, AllAsked
  <2> HIDE DEF w
  <2> QED
    BY <1>9, <1>12, <2>1
<1>14. today \in Seq(T) /\ yesterday \in Seq(T)
  <2> HIDE DEF w
  <2>1. today \in Seq(Run(DayOf(FromTime))) /\ yesterday \in Seq(Run(DayOf(FromTime) - 1))
    BY <1>12, AskedRun
  <2> HIDE DEF Run
  <2>2. Run(DayOf(FromTime)) \subseteq T /\ Run(DayOf(FromTime) - 1) \subseteq T
    OBVIOUS
  <2> HIDE DEF T
  <2> QED
    BY <2>1, <2>2
<1>15. \A r \in T : r.arrive \in Int /\ FromTime <= r.arrive
  <2> SUFFICES ASSUME NEW r \in T PROVE r.arrive \in Int /\ FromTime <= r.arrive
    OBVIOUS
  <2>1. PICK d \in {DayOf(FromTime), DayOf(FromTime) - 1} : r \in Run(d)
    OBVIOUS
  <2> HIDE DEF w
  <2>2. r.depart \in Int /\ r.arrive \in Int /\ FromTime <= r.depart /\ r.depart <= r.arrive
    BY <1>7, <1>8, <2>1, RunFacts
  <2> QED
    BY <1>7, <2>2
<1> HIDE DEF T, w, Run
<1>16. onward \in Seq(T) /\ g \in ToSet(onward)
  BY <1>12, <1>13, <1>14, OneBehindAnother
<1> QED
  BY <1>6, <1>7, <1>15, <1>16, SoonestIsCaught

-----------------------------------------------------------------------------
(* The search loses nothing *)

Searching == stage \notin {"candidates", "failed"} /\ ~spoiled /\ request.via = Anywhere

(* What is wanted has been found, or its station is still to be tried; and  *)
(* while it is tried, all that is near is open, and the first ride is among *)
(* those that are priced.                                                  *)
BestInv ==
  Searching =>
    /\ stations \in Seq(StationsOfTable)
    /\ stage = "done" => stations = <<>>
    /\ stage \in {"firsts", "price"} =>
         stations # <<>> /\ Head(stations) \in Stops /\ OpenedWhole(Head(stations))
    /\ \A f, g : Wanted(f, g) => AsGoodFound(f, g) \/ Root(f.to) \in ToSet(stations)
    /\ stage = "price" =>
         \A f, g : Wanted(f, g) /\ Root(f.to) = Head(stations) => f \in ToSet(firsts)

(* What is wanted rests on the inputs.                                      *)
LEMMA WantedStays ==
  ASSUME UNCHANGED <<feed, rules, request>>
  PROVE  /\ \A f, g : Wanted(f, g)' <=> Wanted(f, g)
         /\ Walk' = Walk
<1>1. Walk' = Walk
  BY DEF Walk
<1>2. \A d : Runnable(d)' = Runnable(d)
  BY DEF Runnable, Ends
<1>3. Today' = Today /\ From' = From /\ To' = To
  BY DEF Today, From, To
<1>4. \A s : SureNear(s)' = SureNear(s) /\ MayStop(s)' = MayStop(s)
  BY <1>1 DEF SureNear, MayStop
<1>5. \A p, q : Connected(p, q)' <=> Connected(p, q)
  BY <1>1, <1>4 DEF Connected
<1>6. \A s, d : Uncut(s, d)' <=> Uncut(s, d)
  BY <1>2, <1>3, <1>4 DEF Uncut
<1>7. \A p, q : TimeAllowed(p, q)' = TimeAllowed(p, q)
  BY DEF TimeAllowed, ChangeTime
<1>8. \A f, d : Priced(f, d)' <=> Priced(f, d)
  BY <1>2, <1>3, <1>4 DEF Priced
<1>9. \A f, g : Wanted(f, g)' <=> Wanted(f, g)
  BY <1>2, <1>3, <1>5, <1>6, <1>7, <1>8 DEF Wanted
<1> QED
  BY <1>1, <1>9

LEMMA CandidatesBest ==
  ASSUME SearchInv, Candidates
  PROVE  BestInv'
<1> SUFFICES ASSUME Searching' PROVE BestInv'
  BY DEF BestInv
<1>1. /\ UNCHANGED <<feed, rules, request>> /\ stage' = "open" /\ Given
      /\ request.via = Anywhere
  BY DEF Candidates, Searching, SearchInv
<1>2. PICK list \in Interchanges : stations' = IF list = <<>> THEN <<>> ELSE Restricted(list)
  BY DEF Candidates
<1>3. stations' = list
  BY <1>1, <1>2 DEF Restricted
<1>4. /\ list \in Seq(StationsOfTable)
      /\ \A f, g : Wanted(f, g) => Root(f.to) \in ToSet(list)
  BY <1>1, CandidatesHaveIt
<1>5. \A f, g : Wanted(f, g)' => Root(f.to) \in ToSet(list)
  BY <1>1, <1>4, WantedStays
<1> QED
  BY <1>1, <1>3, <1>4, <1>5 DEF BestInv

LEMMA OpenBest ==
  ASSUME BestInv, OpenInterchange
  PROVE  BestInv'
<1> SUFFICES ASSUME Searching' PROVE BestInv'
  BY DEF BestInv
<1>1. /\ UNCHANGED <<feed, rules, request, stations, found>> /\ stage = "open" /\ stage' = "firsts"
      /\ stations # <<>> /\ Head(stations) \in Stops
  BY DEF OpenInterchange
<1> DEFINE ids == StopIDsForStation(Head(stations))
<1>2. PICK near \in WalkableFrom(ids, Walk) : \E failing \in SUBSET near :
        LET walkTo == failing \cup UNION {StopIDsForStation(n) : n \in near \ failing} IN
        /\ ic' = [stops |-> ids \cup walkTo, walkTo |-> walkTo]
        /\ spoiled' = (spoiled \/ failing # {})
  BY DEF OpenInterchange
<1>3. PICK failing \in SUBSET near :
        LET walkTo == failing \cup UNION {StopIDsForStation(n) : n \in near \ failing} IN
        /\ ic' = [stops |-> ids \cup walkTo, walkTo |-> walkTo]
        /\ spoiled' = (spoiled \/ failing # {})
  BY <1>2
<1>4. ~spoiled /\ failing = {}
  BY <1>3 DEF Searching
<1>5. near \ {} = near
  OBVIOUS
<1>6. /\ ic'.walkTo = UNION {StopIDsForStation(n) : n \in near}
      /\ ic'.stops = ids \cup ic'.walkTo
  BY <1>3, <1>4, <1>5
<1>7. Walk' = Walk
  BY <1>1, WantedStays
<1>8. OpenedWhole(Head(stations))'
  BY <1>1, <1>6, <1>7 DEF OpenedWhole
<1>9. Searching
  BY <1>1, <1>4 DEF Searching
<1>10. \A f, g : Wanted(f, g)' => AsGoodFound(f, g)' \/ Root(f.to) \in ToSet(stations)
  <2>1. \A f, g : AsGoodFound(f, g)' <=> AsGoodFound(f, g)
    BY <1>1 DEF AsGoodFound
  <2> QED
    BY <1>1, <1>9, <2>1, WantedStays DEF BestInv
<1> QED
  BY <1>1, <1>8, <1>9, <1>10 DEF BestInv

LEMMA FirstsBest ==
  ASSUME SearchInv, BestInv, FindFirsts
  PROVE  BestInv'
<1> SUFFICES ASSUME Searching' PROVE BestInv'
  BY DEF BestInv
<1> DEFINE st == Head(stations)
<1>1. /\ UNCHANGED <<feed, rules, request, ic, found, spoiled>> /\ stage = "firsts" /\ Given
      /\ IF firsts' = <<>> THEN stations' = Tail(stations) /\ stage' = "open"
                           ELSE stations' = stations /\ stage' = "price"
  BY DEF FindFirsts, SearchInv
<1>2. PICK rides \in DirectJourneys(feed, From, ic.stops, request.after, request.within) :
        firsts' = First(MaxFirsts, rides)
  BY DEF FindFirsts
<1>3. Searching
  BY <1>1 DEF Searching
<1>4. /\ stations \in Seq(StationsOfTable) /\ stations # <<>> /\ st \in Stops /\ OpenedWhole(st)
      /\ \A f, g : Wanted(f, g) => AsGoodFound(f, g) \/ Root(f.to) \in ToSet(stations)
  BY <1>1, <1>3 DEF BestInv
<1>5. \A f, g : Wanted(f, g) /\ Root(f.to) = st => f \in ToSet(firsts')
  <2> SUFFICES ASSUME NEW f, NEW g, Wanted(f, g), Root(f.to) = st PROVE f \in ToSet(firsts')
    OBVIOUS
  <2>1. Root(f.to) \in Stops /\ OpenedWhole(Root(f.to))
    BY <1>4
  <2>2. f \in ToSet(First(MaxFirsts, rides))
    BY <1>1, <2>1, FirstsHaveIt
  <2> QED
    BY <1>2, <2>2
<1>6. \A f, g : AsGoodFound(f, g)' <=> AsGoodFound(f, g)
  BY <1>1 DEF AsGoodFound
<1>7. /\ Walk' = Walk /\ \A f, g : Wanted(f, g)' <=> Wanted(f, g)
  BY <1>1, WantedStays
<1>8. CASE firsts' = <<>>
  <2>1. \A f : f \notin ToSet(firsts')
    BY <1>8 DEF ToSet
  <2>2. /\ Tail(stations) \in Seq(StationsOfTable)
        /\ \A s \in ToSet(stations) : s = st \/ s \in ToSet(Tail(stations))
    BY <1>4, HeadOrTail
  <2>3. \A f, g : Wanted(f, g)' => AsGoodFound(f, g)' \/ Root(f.to) \in ToSet(Tail(stations))
    BY <1>4, <1>5, <1>6, <1>7, <2>1, <2>2
  <2> QED
    BY <1>1, <1>8, <2>2, <2>3 DEF BestInv
<1>9. CASE firsts' # <<>>
  <2>1. OpenedWhole(st)'
    BY <1>1, <1>4, <1>7, <1>9 DEF OpenedWhole
  <2> QED
    BY <1>1, <1>4, <1>5, <1>6, <1>7, <1>9, <2>1 DEF BestInv
<1> QED
  BY <1>8, <1>9

LEMMA PriceBest ==
  ASSUME SearchInv, BestInv, PriceFirsts
  PROVE  BestInv'
<1> SUFFICES ASSUME Searching' PROVE BestInv'
  BY DEF BestInv
<1> DEFINE st == Head(stations)
<1>1. /\ UNCHANGED <<feed, rules, request, spoiled>> /\ stage = "price" /\ stage' = "open"
      /\ stations' = Tail(stations) /\ Given /\ firsts \in Seq(RidesTo)
  BY DEF PriceFirsts, SearchInv
<1>2. PICK onward \in DirectJourneys(feed, ic.stops, To, FromTime,
                                     request.within - (FromTime - request.after)) :
        found' = found \cup UNION {{JoinLegs(firsts[i], onward[k]) :
                                      k \in Catchable(firsts[i], onward)} : i \in DOMAIN firsts}
  BY DEF PriceFirsts
<1>3. Searching
  BY <1>1 DEF Searching
<1>4. /\ stations \in Seq(StationsOfTable) /\ stations # <<>> /\ st \in Stops /\ OpenedWhole(st)
      /\ \A f, g : Wanted(f, g) => AsGoodFound(f, g) \/ Root(f.to) \in ToSet(stations)
      /\ \A f, g : Wanted(f, g) /\ Root(f.to) = st => f \in ToSet(firsts)
  BY <1>1, <1>3 DEF BestInv
<1>5. \A f, g : AsGoodFound(f, g) => AsGoodFound(f, g)'
  BY <1>2 DEF AsGoodFound
<1>6. ASSUME NEW f, NEW g, Wanted(f, g), Root(f.to) = st PROVE AsGoodFound(f, g)'
  <2>1. Root(f.to) \in Stops /\ OpenedWhole(Root(f.to)) /\ f \in ToSet(firsts)
    BY <1>4, <1>6
  <2>2. PICK k \in Catchable(f, onward) : onward[k].arrive <= g.arrive
    BY <1>1, <1>6, <2>1, OnwardIsFound
  <2>3. PICK i \in DOMAIN firsts : firsts[i] = f
    BY <2>1 DEF ToSet
  <2> DEFINE j == JoinLegs(f, onward[k])
  <2>4. j \in found'
    BY <1>2, <2>2, <2>3
  <2>5. j.first = f /\ j.second = onward[k]
    BY DEF JoinLegs
  <2>6. f.depart >= f.depart
    <3>1. f.depart \in Int
      BY <1>1, <1>6, TodaysFacts DEF Wanted
    <3> QED
      BY <3>1
  <2> HIDE DEF j
  <2> QED
    BY <2>2, <2>4, <2>5, <2>6 DEF AsGoodFound
<1>7. /\ Tail(stations) \in Seq(StationsOfTable)
      /\ \A s \in ToSet(stations) : s = st \/ s \in ToSet(Tail(stations))
  BY <1>4, HeadOrTail
<1>8. \A f, g : Wanted(f, g)' <=> Wanted(f, g)
  BY <1>1, WantedStays
<1>9. \A f, g : Wanted(f, g)' => AsGoodFound(f, g)' \/ Root(f.to) \in ToSet(Tail(stations))
  BY <1>4, <1>5, <1>6, <1>7, <1>8
<1> QED
  BY <1>1, <1>7, <1>9 DEF BestInv

LEMMA BestStep == SearchInv /\ BestInv /\ [Next]_vars => BestInv'
<1> SUFFICES ASSUME SearchInv, BestInv, [Next]_vars PROVE BestInv'
  OBVIOUS
<1>1. CASE Candidates
  BY <1>1, CandidatesBest
<1>2. CASE OpenInterchange
  BY <1>2, OpenBest
<1>3. CASE SkipInterchange
  BY <1>3 DEF SkipInterchange, BestInv, Searching
<1>4. CASE FindFirsts
  BY <1>4, FirstsBest
<1>5. CASE PriceFirsts
  BY <1>5, PriceBest
<1>6. CASE Finish
  <2>1. /\ UNCHANGED <<feed, rules, request, found, stations, spoiled>>
        /\ stage = "open" /\ stage' = "done" /\ stations = <<>>
    BY <1>6 DEF Finish
  <2>2. /\ \A f, g : AsGoodFound(f, g)' <=> AsGoodFound(f, g)
        /\ \A f, g : Wanted(f, g)' <=> Wanted(f, g)
    BY <2>1, WantedStays DEF AsGoodFound
  <2> QED
    BY <2>1, <2>2 DEF BestInv, Searching
<1>7. CASE Fail
  BY <1>7 DEF Fail, BestInv, Searching
<1>8. CASE UNCHANGED vars
  <2>1. UNCHANGED <<feed, rules, request, ic, firsts, found, stations, spoiled, stage>>
    BY <1>8 DEF vars
  <2>2. /\ \A f, g : AsGoodFound(f, g)' <=> AsGoodFound(f, g)
        /\ \A f, g : Wanted(f, g)' <=> Wanted(f, g)
        /\ OpenedWhole(Head(stations))' <=> OpenedWhole(Head(stations))
    BY <2>1, WantedStays DEF AsGoodFound, OpenedWhole
  <2> QED
    BY <2>1, <2>2 DEF BestInv, Searching
<1> QED
  BY <1>1, <1>2, <1>3, <1>4, <1>5, <1>6, <1>7, <1>8 DEF Next

LEMMA BestMeans == SearchInv /\ BestInv => FindsTheBest
<1> SUFFICES ASSUME BestInv, Searched,
                    NEW c \in Changes(DayOf(request.after), TimeAllowed),
                    Priced(c[1], DayOf(request.after))
             PROVE  AsGoodFound(c[1], c[2])
  BY DEF FindsTheBest
<1>1. Wanted(c[1], c[2])
  BY WantedIsAll
<1>2. stations = <<>> /\ Searching /\ stage = "done"
  BY DEF BestInv, Searching, Searched
<1>3. AsGoodFound(c[1], c[2]) \/ Root(c[1].to) \in ToSet(stations)
  BY <1>1, <1>2 DEF BestInv
<1> QED
  BY <1>2, <1>3 DEF ToSet

(***************************************************************************)
(* The bounds of the search lose nothing a traveller wants: whatever two   *)
(* of today's services could be joined with the default time to change or  *)
(* more, a journey is found that leaves no earlier and arrives no later,   *)
(* as long as its first ride is one of the few that are priced and no      *)
(* query was cut off.                                                      *)
(***************************************************************************)
THEOREM BestIsFound == Spec => []FindsTheBest
<1>1. Init => BestInv
  BY DEF Init, BestInv, Searching
<1>2. SearchInv /\ SearchInv' /\ BestInv /\ [Next]_vars => BestInv'
  BY BestStep
<1>3. SearchInv /\ BestInv => FindsTheBest
  BY BestMeans
<1>4. Spec => []SearchInv
  BY SearchInvariant
<1> QED
  BY <1>1, <1>2, <1>3, <1>4, PTL DEF Spec

-----------------------------------------------------------------------------
(* The quickest way through a station *)

(* The pathways between some places.                                        *)
Station(nodes, edges) ==
  /\ IsFiniteSet(nodes)
  /\ \A e \in edges : e[1] \in nodes /\ e[2] \in nodes /\ e[3] \in Nat

Linked(edges, a, b) == \E e \in edges : e[1] = a /\ e[2] = b

(* A way of n places from p to v that passes none twice, and the time at    *)
(* which each of its hops ends.                                            *)
Trail(nodes, edges, p, v, n, w, f) ==
  /\ n \in Nat /\ n > 0 /\ w \in [1 .. n -> nodes] /\ w[1] = p /\ w[n] = v /\ IsInjective(w)
  /\ f \in [0 .. n - 1 -> Nat] /\ f[0] = 0
  /\ \A k \in 1 .. n - 1 :
       Linked(edges, w[k], w[k + 1]) /\ f[k] = f[k - 1] + Hop(edges, w[k], w[k + 1])

LEMMA HopFacts ==
  ASSUME NEW nodes, NEW edges, Station(nodes, edges), NEW a, NEW b, Linked(edges, a, b)
  PROVE  /\ Hop(edges, a, b) \in Nat
         /\ \E e \in edges : e[1] = a /\ e[2] = b /\ e[3] = Hop(edges, a, b)
         /\ \A e \in edges : e[1] = a /\ e[2] = b => Hop(edges, a, b) <= e[3]
<1> DEFINE S == {e[3] : e \in {x \in edges : x[1] = a /\ x[2] = b}}
<1>1. S \subseteq Nat /\ S # {}
  BY DEF Station, Linked
<1>2. Min(S) \in S /\ \A k \in S : Min(S) <= k
  <2> HIDE DEF S
  <2>1. PICK low \in S : \A k \in S : low <= k
    BY <1>1, Least
  <2> QED
    BY <2>1, MinOf
<1>3. Hop(edges, a, b) = Min(S)
  BY DEF Hop
<1>4. \A e \in edges : e[1] = a /\ e[2] = b => e[3] \in S
  OBVIOUS
<1>5. \E e \in edges : e[1] = a /\ e[2] = b /\ e[3] = Min(S)
  BY <1>2
<1> HIDE DEF S
<1> QED
  BY <1>1, <1>2, <1>3, <1>4, <1>5

(* What relaxing the neighbours of a node does to each distance.            *)
LEMMA RelaxedFacts ==
  ASSUME NEW nodes, NEW edges, Station(nodes, edges),
         NEW dist \in [nodes -> Nat], NEW cur \in nodes, NEW n \in nodes
  PROVE  LET after == Relaxed(dist, edges, cur) IN
         /\ after \in [nodes -> Nat]
         /\ after[n] <= dist[n]
         /\ \A e \in edges : e[1] = cur /\ e[2] = n /\ dist[cur] + e[3] <= MaxTransferTime =>
              after[n] <= dist[cur] + e[3]
         /\ \/ after[n] = dist[n]
            \/ after[n] <= MaxTransferTime
               /\ \E e \in edges : e[1] = cur /\ e[2] = n /\ after[n] = dist[cur] + e[3]
<1> DEFINE Offers(m) == {dist[cur] + e[3] : e \in {x \in edges : x[1] = cur /\ x[2] = m}}
                          \cap 0 .. MaxTransferTime
           Best(m) == {dist[m]} \cup Offers(m)
           after == Relaxed(dist, edges, cur)
<1>1. after = [m \in nodes |-> Min(Best(m))]
  BY DEF Relaxed
<1>2. ASSUME NEW m \in nodes
      PROVE  Min(Best(m)) \in Best(m) /\ Min(Best(m)) \in Nat /\ \A k \in Best(m) : Min(Best(m)) <= k
  <2>1. Best(m) \subseteq Nat /\ Best(m) # {}
    BY TransferAssumption
  <2> DEFINE S == Best(m)
  <2> HIDE DEF Best
  <2>2. PICK low \in S : \A k \in S : low <= k
    <3>1. S \in SUBSET Nat /\ S # {}
      BY <2>1
    <3> HIDE DEF S
    <3> QED
      BY <3>1, Least
  <2>3. Min(S) \in S /\ \A k \in S : Min(S) <= k
    <3> HIDE DEF S
    <3> QED
      BY <2>2, MinOf
  <2> QED
    BY <2>1, <2>3
<1>3. after \in [nodes -> Nat] /\ after[n] = Min(Best(n))
  <2> HIDE DEF Best
  <2> QED
    BY <1>1, <1>2
<1>4. dist[n] \in Best(n)
  OBVIOUS
<1>5. ASSUME NEW e \in edges, e[1] = cur, e[2] = n, dist[cur] + e[3] <= MaxTransferTime
      PROVE  dist[cur] + e[3] \in Best(n)
  <2>1. dist[cur] + e[3] \in 0 .. MaxTransferTime
    BY <1>5, TransferAssumption DEF Station
  <2> QED
    BY <1>5, <2>1
<1>6. Min(Best(n)) = dist[n] \/ Min(Best(n)) \in Offers(n)
  BY <1>2
<1>7. Min(Best(n)) \in Offers(n) =>
        Min(Best(n)) <= MaxTransferTime
        /\ \E e \in edges : e[1] = cur /\ e[2] = n /\ Min(Best(n)) = dist[cur] + e[3]
  <2> DEFINE low == Min(Best(n))
  <2> HIDE DEF low
  <2>1. low \in Offers(n) => low <= MaxTransferTime
        /\ \E e \in edges : e[1] = cur /\ e[2] = n /\ low = dist[cur] + e[3]
    BY TransferAssumption
  <2> QED
    BY <2>1 DEF low
<1> HIDE DEF Best, Offers, after
<1>8. after[n] <= dist[n]
  BY <1>2, <1>3, <1>4
<1>9. \A e \in edges : e[1] = cur /\ e[2] = n /\ dist[cur] + e[3] <= MaxTransferTime =>
         after[n] <= dist[cur] + e[3]
  BY <1>2, <1>3, <1>5
<1> QED
  BY <1>3, <1>6, <1>7, <1>8, <1>9 DEF after
(* A way may go on to a place it has not passed.                            *)
LEMMA LongerTrail ==
  ASSUME NEW nodes, NEW edges, Station(nodes, edges), NEW p, NEW u, NEW n, NEW w, NEW f,
         Trail(nodes, edges, p, u, n, w, f), NEW v \in nodes, Linked(edges, u, v),
         \A k \in 1 .. n : w[k] # v
  PROVE  \E x, g : /\ Trail(nodes, edges, p, v, n + 1, x, g)
                   /\ g[n] = f[n - 1] + Hop(edges, u, v)
                   /\ \A k \in 1 .. n : x[k] = w[k]
<1> DEFINE x == [k \in 1 .. n + 1 |-> IF k = n + 1 THEN v ELSE w[k]]
           g == [k \in 0 .. n |-> IF k = n THEN f[n - 1] + Hop(edges, u, v) ELSE f[k]]
<1>1. /\ n \in Nat /\ n > 0 /\ w \in [1 .. n -> nodes] /\ w[1] = p /\ w[n] = u
      /\ f \in [0 .. n - 1 -> Nat] /\ f[0] = 0
  BY DEF Trail
<1>2. \A a, b \in 1 .. n : w[a] = w[b] => a = b
  BY <1>1 DEF Trail, IsInjective
<1>3. Hop(edges, u, v) \in Nat
  BY HopFacts
<1>4. /\ n + 1 \in Nat /\ n + 1 > 0 /\ (n + 1) - 1 = n
      /\ 1 \in 1 .. n + 1 /\ n + 1 \in 1 .. n + 1 /\ 1 # n + 1
      /\ 0 \in 0 .. n /\ n \in 0 .. n /\ n # 0
      /\ \A k \in 1 .. n : k \in 1 .. n + 1 /\ k # n + 1
      /\ \A k \in 1 .. n + 1 : k \in 1 .. n \/ k = n + 1
      /\ \A k \in 0 .. n : k \in 0 .. n - 1 \/ k = n
      /\ n - 1 \in 0 .. n - 1
  BY <1>1
<1>5. /\ \A k \in 1 .. n : x[k] = w[k]
      /\ x[n + 1] = v /\ x \in [1 .. n + 1 -> nodes]
  BY <1>1, <1>4
<1>6. f[n - 1] + Hop(edges, u, v) \in Nat
  BY <1>1, <1>3, <1>4
<1>7. /\ \A k \in 0 .. n - 1 : g[k] = f[k]
      /\ g[n] = f[n - 1] + Hop(edges, u, v) /\ g \in [0 .. n -> Nat]
  <2>1. \A k \in 0 .. n - 1 : k \in 0 .. n /\ k # n
    BY <1>1
  <2> QED
    BY <1>1, <1>4, <1>6, <2>1
<1> HIDE DEF x, g
<1>8. IsInjective(x)
  <2>1. ASSUME NEW a \in 1 .. n + 1, NEW b \in 1 .. n + 1, x[a] = x[b] PROVE a = b
    BY <1>2, <1>4, <1>5, <2>1
  <2>2. DOMAIN x = 1 .. n + 1
    BY <1>5
  <2> QED
    BY <2>1, <2>2 DEF IsInjective
<1>9. ASSUME NEW k \in 1 .. (n + 1) - 1
      PROVE  Linked(edges, x[k], x[k + 1]) /\ g[k] = g[k - 1] + Hop(edges, x[k], x[k + 1])
  <2>1. k \in 1 .. n
    BY <1>4
  <2>2. k - 1 \in 0 .. n - 1 /\ x[k] = w[k] /\ g[k - 1] = f[k - 1]
    <3>1. k - 1 \in 0 .. n - 1
      BY <1>1, <2>1
    <3> QED
      BY <1>5, <1>7, <2>1, <3>1
  <2>3. CASE k = n
    BY <1>1, <1>5, <1>7, <2>2, <2>3
  <2>4. CASE k # n
    <3>1. k \in 1 .. n - 1 /\ k + 1 \in 1 .. n /\ k \in 0 .. n - 1
      BY <1>1, <2>1, <2>4
    <3>2. x[k + 1] = w[k + 1] /\ g[k] = f[k]
      BY <1>5, <1>7, <3>1
    <3>3. Linked(edges, w[k], w[k + 1]) /\ f[k] = f[k - 1] + Hop(edges, w[k], w[k + 1])
      BY <3>1 DEF Trail
    <3> QED
      BY <2>2, <3>2, <3>3
  <2> QED
    BY <2>3, <2>4
<1>10. x[1] = p /\ g[0] = 0
  <2>1. 1 \in 1 .. n /\ 0 \in 0 .. n - 1
    BY <1>1
  <2> QED
    BY <1>1, <1>5, <1>7, <2>1
<1>11. Trail(nodes, edges, p, v, n + 1, x, g)
  <2>1. g \in [0 .. (n + 1) - 1 -> Nat]
    BY <1>4, <1>7
  <2> QED
    BY <1>4, <1>5, <1>8, <1>9, <1>10, <2>1 DEF Trail
<1> QED
  BY <1>5, <1>7, <1>11

(* What has left the heap, and what is nearest on it.                       *)
Settled(s) == {v \in DOMAIN s.dist : s.dist[v] <= MaxTransferTime /\ v \notin s.heap}
AtHand(s) == {n \in s.heap : \A m \in s.heap : s.dist[n] <= s.dist[m]}
Stopped(s, q) == s.heap = {} \/ q \in AtHand(s)

(* There is a way to v as short as is said, through what is settled.        *)
HasWay(s, nodes, edges, p, v) ==
  \E n, w, f : /\ Trail(nodes, edges, p, v, n, w, f) /\ f[n - 1] <= s.dist[v]
               /\ \A k \in 1 .. n - 1 : w[k] \in Settled(s)

(* The neighbours of u know of the way through it.                          *)
IsRelaxed(s, edges, u) ==
  \A e \in edges : e[1] = u /\ s.dist[u] + e[3] <= MaxTransferTime =>
    s.dist[e[2]] <= s.dist[u] + e[3]

(* What every turn of Dijkstra's loop keeps.                                *)
WalkInv(s, nodes, edges, p, q) ==
  /\ s \in WalkStates(nodes) /\ p \in nodes /\ s.dist[p] = 0
  /\ q \notin Settled(s)
  /\ \A v \in s.heap : s.dist[v] <= MaxTransferTime
  /\ \A u \in Settled(s) : \A v \in s.heap : s.dist[u] <= s.dist[v]
  /\ \A u \in Settled(s) : IsRelaxed(s, edges, u)
  /\ \A v \in nodes : s.dist[v] <= MaxTransferTime => HasWay(s, nodes, edges, p, v)

(* A turn takes a nearest node off the heap and puts on it what has become  *)
(* nearer.                                                                 *)
LEMMA TurnTakes ==
  ASSUME NEW nodes, NEW edges, Station(nodes, edges), NEW q, NEW s \in WalkStates(nodes),
         ~ Stopped(s, q)
  PROVE  \E cur \in AtHand(s) :
           LET t == Turn(s, edges, q) IN
           /\ cur # q /\ t.dist = Relaxed(s.dist, edges, cur)
           /\ t.heap = (s.heap \ {cur}) \cup {n \in nodes : t.dist[n] < s.dist[n]}
<1> DEFINE near == {n \in s.heap : \A m \in s.heap : s.dist[n] <= s.dist[m]}
           cur == CHOOSE n \in near : TRUE
           dist == Relaxed(s.dist, edges, cur)
           next == [dist |-> dist,
                    heap |-> (s.heap \ {cur}) \cup {n \in DOMAIN dist : dist[n] < s.dist[n]}]
<1>1. near = AtHand(s)
  BY DEF AtHand
<1>2. s.heap # {} /\ q \notin near
  BY <1>1 DEF Stopped
<1>3. Turn(s, edges, q) = next
  BY <1>2 DEF Turn
<1>4. s.heap \subseteq nodes /\ s.dist \in [nodes -> Nat]
  BY DEF WalkStates
<1>5. near # {}
  <2> DEFINE S == {s.dist[n] : n \in s.heap}
  <2>1. S \subseteq Nat /\ S # {}
    BY <1>2, <1>4
  <2>2. PICK low \in S : \A k \in S : low <= k
    <3> HIDE DEF S
    <3> QED
      BY <2>1, Least
  <2>3. PICK n \in s.heap : s.dist[n] = low
    OBVIOUS
  <2>4. \A m \in s.heap : s.dist[n] <= s.dist[m]
    BY <2>2, <2>3
  <2> QED
    BY <2>4
<1>6. cur \in near
  <2> HIDE DEF near
  <2> QED
    BY <1>5
<1> HIDE DEF cur
<1>7. cur \in nodes
  BY <1>4, <1>6
<1>8. DOMAIN dist = nodes
  BY <1>4, <1>7, RelaxedFacts
<1>9. next.dist = dist /\ next.heap = (s.heap \ {cur}) \cup {n \in nodes : dist[n] < s.dist[n]}
  BY <1>8
<1> HIDE DEF near, dist, next
<1>10. cur \in AtHand(s) /\ cur # q
  BY <1>1, <1>2, <1>6
<1> QED
  BY <1>3, <1>9, <1>10 DEF dist
(* It settles the node it takes off, and keeps the invariant.               *)
LEMMA TurnSettles ==
  ASSUME NEW nodes, NEW edges, Station(nodes, edges), NEW p, NEW q, NEW s,
         WalkInv(s, nodes, edges, p, q), ~ Stopped(s, q)
  PROVE  LET t == Turn(s, edges, q) IN
         /\ WalkInv(t, nodes, edges, p, q)
         /\ \E cur : cur \notin Settled(s) /\ Settled(t) = Settled(s) \cup {cur}
<1> DEFINE t == Turn(s, edges, q)
<1>1. /\ s \in WalkStates(nodes) /\ s.dist \in [nodes -> Nat] /\ s.heap \subseteq nodes
      /\ \A v \in nodes : s.dist[v] \in Nat
      /\ \A v \in nodes : v \in Settled(s) <=> s.dist[v] <= MaxTransferTime /\ v \notin s.heap
      /\ Settled(s) \subseteq nodes
  BY DEF WalkInv, WalkStates, Settled
<1>2. PICK cur \in AtHand(s) :
        /\ cur # q /\ t.dist = Relaxed(s.dist, edges, cur)
        /\ t.heap = (s.heap \ {cur}) \cup {n \in nodes : t.dist[n] < s.dist[n]}
  BY <1>1, TurnTakes
<1>3. /\ cur \in s.heap /\ cur \in nodes /\ s.dist[cur] <= MaxTransferTime
      /\ \A m \in s.heap : s.dist[cur] <= s.dist[m]
      /\ \A u \in Settled(s) : s.dist[u] <= s.dist[cur]
  BY <1>1, <1>2 DEF AtHand, WalkInv
<1>4. t \in WalkStates(nodes)
  BY <1>1, TurnTyped
<1>5. t.dist \in [nodes -> Nat] /\ \A v \in nodes : t.dist[v] \in Nat
  BY <1>4 DEF WalkStates
<1>6. \A v \in nodes :
        /\ t.dist[v] <= s.dist[v]
        /\ \A e \in edges : e[1] = cur /\ e[2] = v /\ s.dist[cur] + e[3] <= MaxTransferTime =>
             t.dist[v] <= s.dist[cur] + e[3]
        /\ \/ t.dist[v] = s.dist[v]
           \/ t.dist[v] <= MaxTransferTime
              /\ \E e \in edges : e[1] = cur /\ e[2] = v /\ t.dist[v] = s.dist[cur] + e[3]
  BY <1>1, <1>2, <1>3, RelaxedFacts
<1> HIDE DEF t
<1>7. \A v \in nodes : t.dist[v] # s.dist[v] =>
        t.dist[v] < s.dist[v] /\ s.dist[cur] <= t.dist[v] /\ t.dist[v] <= MaxTransferTime
  <2> SUFFICES ASSUME NEW v \in nodes, t.dist[v] # s.dist[v]
               PROVE  t.dist[v] < s.dist[v] /\ s.dist[cur] <= t.dist[v]
                      /\ t.dist[v] <= MaxTransferTime
    OBVIOUS
  <2>1. PICK e \in edges : t.dist[v] = s.dist[cur] + e[3]
    BY <1>6
  <2>2. e[3] \in Nat /\ s.dist[cur] \in Nat /\ t.dist[v] \in Nat /\ s.dist[v] \in Nat
    BY <1>1, <1>3, <1>5 DEF Station
  <2> QED
    BY <1>6, <2>1, <2>2
<1>8. \A v \in Settled(s) \cup {cur} : v \in nodes /\ t.dist[v] = s.dist[v]
  <2> SUFFICES ASSUME NEW v \in Settled(s) \cup {cur}, t.dist[v] # s.dist[v] PROVE FALSE
    BY <1>1, <1>3
  <2>1. v \in nodes /\ s.dist[v] <= s.dist[cur]
    BY <1>1, <1>3
  <2>2. s.dist[v] \in Nat /\ s.dist[cur] \in Nat /\ t.dist[v] \in Nat
    BY <1>1, <1>3, <1>5, <2>1
  <2> QED
    BY <1>7, <2>1, <2>2
<1>9. \A v \in nodes : v \in t.heap <=> (v \in s.heap /\ v # cur) \/ t.dist[v] # s.dist[v]
  BY <1>1, <1>2, <1>5, <1>6
<1>10. \A v \in nodes : v \in Settled(t) <=> t.dist[v] <= MaxTransferTime /\ v \notin t.heap
  BY <1>5 DEF Settled
<1>11. cur \notin Settled(s) /\ Settled(t) = Settled(s) \cup {cur}
  <2>1. Settled(t) \subseteq nodes
    BY <1>5 DEF Settled
  <2>2. ASSUME NEW v \in nodes PROVE v \in Settled(t) <=> v \in Settled(s) \cup {cur}
    <3>1. CASE v \in Settled(s) \cup {cur}
      BY <1>1, <1>3, <1>8, <1>9, <1>10, <3>1
    <3>2. CASE v \notin Settled(s) \cup {cur}
      BY <1>1, <1>9, <1>10, <3>2
    <3> QED
      BY <3>1, <3>2
  <2> QED
    BY <1>1, <1>3, <2>1, <2>2
<1>12. \A v \in t.heap : v \in nodes /\ t.dist[v] <= MaxTransferTime /\ s.dist[cur] <= t.dist[v]
  <2> SUFFICES ASSUME NEW v \in t.heap
               PROVE  v \in nodes /\ t.dist[v] <= MaxTransferTime /\ s.dist[cur] <= t.dist[v]
    OBVIOUS
  <2>1. v \in nodes
    BY <1>4 DEF WalkStates
  <2>2. CASE t.dist[v] # s.dist[v]
    BY <1>7, <2>1, <2>2
  <2>3. CASE t.dist[v] = s.dist[v]
    BY <1>3, <1>9, <2>1, <2>3 DEF WalkInv
  <2> QED
    BY <2>1, <2>2, <2>3
<1>13. q \notin Settled(t)
  BY <1>2, <1>11 DEF WalkInv
<1>14. ASSUME NEW u \in Settled(t), NEW v \in t.heap PROVE t.dist[u] <= t.dist[v]
  <2>1. u \in nodes /\ v \in nodes /\ t.dist[u] = s.dist[u] /\ s.dist[u] <= s.dist[cur]
    BY <1>1, <1>3, <1>8, <1>11, <1>12
  <2>2. s.dist[cur] <= t.dist[v]
    BY <1>12
  <2>3. s.dist[u] \in Nat /\ s.dist[cur] \in Nat /\ t.dist[v] \in Nat
    BY <1>1, <1>3, <1>5, <2>1
  <2> QED
    BY <2>1, <2>2, <2>3
<1>15. ASSUME NEW u \in Settled(t) PROVE IsRelaxed(t, edges, u)
  <2> SUFFICES ASSUME NEW e \in edges, e[1] = u, t.dist[u] + e[3] <= MaxTransferTime
               PROVE  t.dist[e[2]] <= t.dist[u] + e[3]
    BY DEF IsRelaxed
  <2>1. t.dist[u] = s.dist[u] /\ e[2] \in nodes
    BY <1>8, <1>11 DEF Station
  <2>2. CASE u = cur
    BY <1>6, <2>1, <2>2
  <2>3. CASE u \in Settled(s)
    <3>1. s.dist[e[2]] <= s.dist[u] + e[3]
      BY <2>1, <2>3 DEF WalkInv, IsRelaxed
    <3>2. t.dist[e[2]] <= s.dist[e[2]] /\ t.dist[e[2]] \in Nat /\ s.dist[e[2]] \in Nat
      BY <1>1, <1>5, <1>6, <2>1
    <3>3. s.dist[u] + e[3] \in Nat
      BY <1>1, <2>3 DEF Station
    <3> QED
      BY <2>1, <3>1, <3>2, <3>3
  <2> QED
    BY <1>11, <2>2, <2>3
<1>16. ASSUME NEW v \in nodes, t.dist[v] <= MaxTransferTime PROVE HasWay(t, nodes, edges, p, v)
  <2>1. CASE t.dist[v] = s.dist[v]
    <3>1. HasWay(s, nodes, edges, p, v)
      BY <1>16, <2>1 DEF WalkInv
    <3> QED
      BY <1>11, <2>1, <3>1 DEF HasWay
  <2>2. CASE t.dist[v] # s.dist[v]
    <3>1. PICK e \in edges : e[1] = cur /\ e[2] = v /\ t.dist[v] = s.dist[cur] + e[3]
      BY <1>6, <2>2
    <3>2. Linked(edges, cur, v)
      BY <3>1 DEF Linked
    <3>3. HasWay(s, nodes, edges, p, cur)
      BY <1>3 DEF WalkInv
    <3>4. PICK n, w, f : /\ Trail(nodes, edges, p, cur, n, w, f) /\ f[n - 1] <= s.dist[cur]
                         /\ \A k \in 1 .. n - 1 : w[k] \in Settled(s)
      BY <3>3 DEF HasWay
    <3>5. n \in Nat /\ n > 0 /\ w[n] = cur /\ f[n - 1] \in Nat
      BY <3>4 DEF Trail
    <3>6. \A k \in 1 .. n : w[k] \in Settled(t)
      BY <1>11, <3>4, <3>5
    <3>7. v \notin Settled(t)
      BY <1>8, <1>11, <2>2
    <3>8. PICK x, g : /\ Trail(nodes, edges, p, v, n + 1, x, g)
                      /\ g[n] = f[n - 1] + Hop(edges, cur, v)
                      /\ \A k \in 1 .. n : x[k] = w[k]
      BY <3>2, <3>4, <3>6, <3>7, LongerTrail
    <3>9. /\ Hop(edges, cur, v) \in Nat /\ Hop(edges, cur, v) <= e[3]
          /\ e[3] \in Nat /\ s.dist[cur] \in Nat
      <4>1. /\ Hop(edges, cur, v) \in Nat
            /\ \A d \in edges : d[1] = cur /\ d[2] = v => Hop(edges, cur, v) <= d[3]
        BY <3>2, HopFacts
      <4>2. Hop(edges, cur, v) <= e[3]
        BY <3>1, <4>1
      <4>3. e[3] \in Nat
        BY DEF Station
      <4> QED
        BY <1>1, <1>3, <4>1, <4>2, <4>3
    <3>10. (n + 1) - 1 = n /\ g[n] <= t.dist[v]
      BY <3>1, <3>4, <3>5, <3>8, <3>9
    <3>11. \A k \in 1 .. n : x[k] \in Settled(t)
      BY <3>6, <3>8
    <3>12. \E m, y, h : /\ Trail(nodes, edges, p, v, m, y, h) /\ h[m - 1] <= t.dist[v]
                        /\ \A k \in 1 .. m - 1 : y[k] \in Settled(t)
      BY <3>8, <3>10, <3>11
    <3> QED
      BY <3>12 DEF HasWay
  <2> QED
    BY <2>1, <2>2
<1>17. p \in nodes /\ t.dist[p] = 0
  <2>1. p \in nodes /\ s.dist[p] = 0 /\ t.dist[p] \in Nat /\ t.dist[p] <= s.dist[p]
    BY <1>5, <1>6 DEF WalkInv
  <2> QED
    BY <2>1
<1>18. WalkInv(t, nodes, edges, p, q)
  BY <1>4, <1>12, <1>13, <1>14, <1>15, <1>16, <1>17 DEF WalkInv
<1> QED
  BY <1>11, <1>18 DEF t
(* A loop that has stopped stays as it is.                                  *)
LEMMA StoppedStays ==
  ASSUME NEW s, NEW edges, NEW q, Stopped(s, q)
  PROVE  Turn(s, edges, q) = s
<1> DEFINE near == {n \in s.heap : \A m \in s.heap : s.dist[n] <= s.dist[m]}
           cur == CHOOSE n \in near : TRUE
           dist == Relaxed(s.dist, edges, cur)
           next == [dist |-> dist,
                    heap |-> (s.heap \ {cur}) \cup {n \in DOMAIN dist : dist[n] < s.dist[n]}]
<1>1. Turn(s, edges, q) = IF s.heap = {} \/ q \in near THEN s ELSE next
  BY DEF Turn
<1>2. near = AtHand(s)
  BY DEF AtHand
<1> HIDE DEF near, next
<1> QED
  BY <1>1, <1>2 DEF Stopped

(* It starts at p, with nothing settled.                                    *)
LEMMA WalkStarts ==
  ASSUME NEW nodes, NEW edges, NEW p \in nodes, NEW q,
         NEW s, s = [dist |-> [n \in nodes |-> IF n = p THEN 0 ELSE Unreached], heap |-> {p}]
  PROVE  WalkInv(s, nodes, edges, p, q) /\ Settled(s) = {}
<1>1. /\ Unreached \in Nat /\ 0 <= MaxTransferTime /\ ~ Unreached <= MaxTransferTime
  BY TransferAssumption DEF Unreached
<1>2. /\ s.dist = [n \in nodes |-> IF n = p THEN 0 ELSE Unreached] /\ s.heap = {p}
      /\ s \in WalkStates(nodes)
  BY <1>1 DEF WalkStates
<1>3. \A v \in nodes : s.dist[v] = IF v = p THEN 0 ELSE Unreached
  BY <1>2
<1>4. Settled(s) = {}
  BY <1>1, <1>2, <1>3 DEF Settled
<1>5. HasWay(s, nodes, edges, p, p)
  <2> DEFINE w == [k \in 1 .. 1 |-> p]
             f == [k \in 0 .. 0 |-> 0]
  <2>1. w \in [1 .. 1 -> nodes] /\ w[1] = p /\ f \in [0 .. 1 - 1 -> Nat] /\ f[0] = 0
    OBVIOUS
  <2>2. IsInjective(w)
    BY DEF IsInjective
  <2> HIDE DEF w, f
  <2>3. Trail(nodes, edges, p, p, 1, w, f)
    BY <2>1, <2>2 DEF Trail
  <2>4. f[1 - 1] <= s.dist[p] /\ \A k \in 1 .. 1 - 1 : w[k] \in Settled(s)
    BY <1>3, <2>1
  <2> QED
    BY <2>3, <2>4 DEF HasWay
<1>6. \A v \in nodes : s.dist[v] <= MaxTransferTime => HasWay(s, nodes, edges, p, v)
  BY <1>1, <1>3, <1>5
<1> QED
  BY <1>1, <1>2, <1>3, <1>4, <1>6 DEF WalkInv

(* As each turn settles a node, the loop has stopped after as many turns as *)
(* there are nodes.                                                        *)
LEMMA TurnsEnough ==
  ASSUME NEW nodes, NEW edges, Station(nodes, edges), NEW p, NEW q,
         NEW start, WalkInv(start, nodes, edges, p, q), Settled(start) = {},
         NEW N, N = Cardinality(nodes), NEW f, Turns(f, start, edges, q, N)
  PROVE  WalkInv(f[N], nodes, edges, p, q) /\ Stopped(f[N], q)
<1> DEFINE Good == {n \in 0 .. N : /\ WalkInv(f[n], nodes, edges, p, q)
                                   /\ Stopped(f[n], q) \/ Cardinality(Settled(f[n])) = n}
<1>1. IsFiniteSet(nodes) /\ N \in Nat
  BY FS_CardinalityType DEF Station
<1>2. \A n \in 0 .. N : f[n] = IF n = 0 THEN start ELSE Turn(f[n - 1], edges, q)
  <2>1. f = [n \in 0 .. N |-> IF n = 0 THEN start ELSE Turn(f[n - 1], edges, q)]
    BY DEF Turns
  <2> QED
    BY <2>1
<1>3. ASSUME NEW s, WalkInv(s, nodes, edges, p, q)
      PROVE  Settled(s) \subseteq nodes /\ IsFiniteSet(Settled(s)) /\ s.heap \subseteq nodes
             /\ Settled(s) \cap s.heap = {}
  <2>1. Settled(s) \subseteq nodes /\ s.heap \subseteq nodes /\ Settled(s) \cap s.heap = {}
    BY <1>3 DEF WalkInv, WalkStates, Settled
  <2> QED
    BY <1>1, <2>1, FS_Subset
<1>4. 0 \in Good
  <2>1. f[0] = start /\ 0 \in 0 .. N
    BY <1>1, <1>2
  <2> QED
    BY <2>1, FS_EmptySet
<1>5. ASSUME NEW n \in 1 .. N, n - 1 \in Good PROVE n \in Good
  <2> DEFINE s == f[n - 1]
  <2>1. /\ WalkInv(s, nodes, edges, p, q) /\ n \in 0 .. N
        /\ Stopped(s, q) \/ Cardinality(Settled(s)) = n - 1
    BY <1>5
  <2>2. f[n] = Turn(s, edges, q)
    BY <1>2, <2>1
  <2> HIDE DEF s
  <2>3. CASE Stopped(s, q)
    <3>1. f[n] = s
      BY <2>2, <2>3, StoppedStays
    <3> QED
      BY <2>1, <2>3, <3>1
  <2>4. CASE ~ Stopped(s, q)
    <3> DEFINE t == Turn(s, edges, q)
    <3>0. /\ WalkInv(t, nodes, edges, p, q)
          /\ \E cur : cur \notin Settled(s) /\ Settled(t) = Settled(s) \cup {cur}
      BY <2>1, <2>4, TurnSettles
    <3>1. /\ WalkInv(f[n], nodes, edges, p, q)
          /\ \E cur : cur \notin Settled(s) /\ Settled(f[n]) = Settled(s) \cup {cur}
      <4> HIDE DEF t
      <4>1. f[n] = t
        BY <2>2 DEF t
      <4> QED
        BY <3>0, <4>1, Zenon
    <3>2. PICK cur : cur \notin Settled(s) /\ Settled(f[n]) = Settled(s) \cup {cur}
      BY <3>1
    <3>3. Cardinality(Settled(s) \cup {cur}) = Cardinality(Settled(s)) + 1
      BY <1>3, <2>1, <3>2, FS_AddElement
    <3>4. Cardinality(Settled(f[n])) = n
      BY <2>1, <2>4, <3>2, <3>3
    <3> QED
      BY <2>1, <3>1, <3>4
  <2> QED
    BY <2>3, <2>4
<1>6. N \in Good
  <2> HIDE DEF Good
  <2>1. Good \in SUBSET (0 .. N) /\ N \in 0 .. N
    BY <1>1 DEF Good
  <2> QED
    BY <1>1, <1>4, <1>5, <2>1, UpTo
<1>7. ASSUME Cardinality(Settled(f[N])) = N PROVE Stopped(f[N], q)
  <2>1. Settled(f[N]) = nodes
    BY <1>1, <1>3, <1>6, <1>7, FS_Subset
  <2>2. f[N].heap = {}
    BY <1>3, <1>6, <2>1
  <2> QED
    BY <2>2 DEF Stopped
<1> QED
  BY <1>6, <1>7

(* When it has stopped, no way to q within the limit is quicker than what   *)
(* is said of q: the places along it were settled one after the other.     *)
LEMMA NoneIsQuicker ==
  ASSUME NEW nodes, NEW edges, Station(nodes, edges), NEW p, NEW q, NEW s,
         WalkInv(s, nodes, edges, p, q), Stopped(s, q),
         NEW n, NEW w, NEW f, Trail(nodes, edges, p, q, n, w, f), f[n - 1] <= MaxTransferTime
  PROVE  q \in s.heap /\ s.dist[q] <= f[n - 1]
<1> DEFINE N == n - 1
<1>1. /\ N \in Nat /\ w \in [1 .. n -> nodes] /\ w[1] = p /\ w[n] = q /\ n = N + 1
      /\ f \in [0 .. N -> Nat] /\ f[0] = 0 /\ f[N] <= MaxTransferTime
      /\ \A k \in 1 .. N : Linked(edges, w[k], w[k + 1])
                           /\ f[k] = f[k - 1] + Hop(edges, w[k], w[k + 1])
  BY DEF Trail
<1>2. \A v \in nodes : s.dist[v] \in Nat
  BY DEF WalkInv, WalkStates
<1>3. \A v \in nodes : v \in Settled(s) <=> s.dist[v] <= MaxTransferTime /\ v \notin s.heap
  BY DEF WalkInv, WalkStates, Settled
<1> HIDE DEF N
<1>4. \A k \in 0 .. N : f[k] \in Nat
  BY <1>1
<1>5. \A k \in 1 .. N : k - 1 \in 0 .. N /\ k \in 0 .. N /\ f[k - 1] <= f[k]
  <2> TAKE k \in 1 .. N
  <2>1. k - 1 \in 0 .. N /\ k \in 0 .. N
    BY <1>1
  <2>2. Hop(edges, w[k], w[k + 1]) \in Nat
    BY <1>1, HopFacts
  <2>3. f[k - 1] \in Nat /\ f[k] = f[k - 1] + Hop(edges, w[k], w[k + 1])
    BY <1>1, <1>4, <2>1
  <2> QED
    BY <2>1, <2>2, <2>3
<1>6. \A k \in 0 .. N : f[k] <= f[N]
  <2> DEFINE Good == {m \in 0 .. N : \A k \in 0 .. m : f[k] <= f[m]}
  <2>1. 0 \in Good
    BY <1>1
  <2>2. ASSUME NEW m \in 1 .. N, m - 1 \in Good PROVE m \in Good
    <3>1. /\ m - 1 \in 0 .. N /\ m \in 0 .. N /\ f[m - 1] <= f[m]
          /\ f[m - 1] \in Nat /\ f[m] \in Nat
      BY <1>4, <1>5
    <3>2. ASSUME NEW k \in 0 .. m PROVE f[k] <= f[m]
      <4>1. CASE k = m
        BY <3>1, <4>1
      <4>2. CASE k # m
        <5>1. k \in 0 .. m - 1 /\ k \in 0 .. N
          BY <1>1, <4>2
        <5>2. f[k] <= f[m - 1] /\ f[k] \in Nat
          BY <1>4, <2>2, <5>1
        <5> QED
          BY <3>1, <5>2
      <4> QED
        BY <4>1, <4>2
    <3> QED
      BY <3>1, <3>2
  <2>3. N \in Good
    <3> HIDE DEF Good
    <3>1. Good \in SUBSET (0 .. N) /\ N \in 0 .. N
      BY <1>1 DEF Good
    <3> QED
      BY <1>1, <2>1, <2>2, <3>1, UpTo
  <2> QED
    BY <2>3
<1> SUFFICES ASSUME ~ (q \in s.heap /\ s.dist[q] <= f[N]) PROVE FALSE
  BY DEF N
<1> DEFINE Good == {k \in 0 .. N : s.dist[w[k + 1]] <= f[k]}
<1>7. 0 \in Good
  BY <1>1 DEF WalkInv
<1>8. ASSUME NEW k \in 1 .. N, k - 1 \in Good PROVE k \in Good
  <2> DEFINE u == w[k]
             v == w[k + 1]
  <2>1. /\ k \in 0 .. N /\ k - 1 \in 0 .. N /\ u \in nodes /\ v \in nodes
        /\ (k - 1) + 1 = k
    BY <1>1
  <2>2. s.dist[u] <= f[k - 1]
    BY <1>8, <2>1
  <2>3. Linked(edges, u, v) /\ f[k] = f[k - 1] + Hop(edges, u, v)
    BY <1>1
  <2> HIDE DEF u, v, Good
  <2>4. /\ f[k - 1] \in Nat /\ f[k] \in Nat /\ f[N] \in Nat /\ f[k - 1] <= f[N] /\ f[k] <= f[N]
        /\ s.dist[u] \in Nat /\ s.dist[v] \in Nat /\ MaxTransferTime \in Nat
    BY <1>1, <1>2, <1>4, <1>6, <2>1, TransferAssumption
  <2>5. s.dist[u] <= MaxTransferTime /\ s.dist[u] <= f[N]
    BY <1>1, <2>2, <2>4
  <2>6. u \in Settled(s)
    <3> SUFFICES ASSUME u \in s.heap PROVE FALSE
      BY <1>3, <2>1, <2>5
    <3>1. q \in s.heap /\ s.dist[q] <= s.dist[u]
      BY DEF Stopped, AtHand
    <3>2. s.dist[q] \in Nat
      BY <1>2, <3>1 DEF WalkInv, WalkStates
    <3> QED
      BY <2>4, <2>5, <3>1, <3>2
  <2>7. PICK e \in edges : e[1] = u /\ e[2] = v /\ e[3] = Hop(edges, u, v)
    BY <2>3, HopFacts
  <2>8. e[3] \in Nat
    BY DEF Station
  <2>9. s.dist[u] + e[3] <= f[k] /\ s.dist[u] + e[3] <= MaxTransferTime
    <3>1. \A a, b, c, x, y, z \in Nat :
            a <= b /\ c = b + x /\ c <= y /\ y <= z => a + x <= c /\ a + x <= z
      OBVIOUS
    <3>2. f[k] = f[k - 1] + e[3] /\ f[N] <= MaxTransferTime
      BY <1>1, <2>3, <2>7
    <3> QED
      BY <2>2, <2>4, <2>8, <3>1, <3>2
  <2>10. s.dist[v] <= s.dist[u] + e[3]
    BY <2>6, <2>7, <2>9 DEF WalkInv, IsRelaxed
  <2>11. s.dist[v] <= f[k]
    BY <2>4, <2>8, <2>9, <2>10
  <2> QED
    BY <2>1, <2>11 DEF Good, v
<1>9. N \in Good
  <2> HIDE DEF Good
  <2>1. Good \in SUBSET (0 .. N) /\ N \in 0 .. N
    BY <1>1 DEF Good
  <2> QED
    BY <1>1, <1>7, <1>8, <2>1, UpTo
<1>10. s.dist[q] <= f[N] /\ q \in nodes
  BY <1>1, <1>9
<1>11. s.dist[q] <= MaxTransferTime
  BY <1>1, <1>2, <1>4, <1>10, TransferAssumption
<1>12. q \in s.heap
  BY <1>3, <1>10, <1>11 DEF WalkInv
<1> QED
  BY <1>10, <1>12
(* A station is one as far as rules say.                                    *)
LEMMA RulesStation ==
  ASSUME NEW r, AreRules(r), NEW p, NEW q
  PROVE  Station(Nodes(r) \cup {p, q}, Edges(r))
<1> DEFINE nodes == Nodes(r) \cup {p, q}
<1>1. IsFiniteSet(nodes)
  <2>1. IsFiniteSet(Nodes(r))
    BY DEF AreRules
  <2>2. IsFiniteSet(Nodes(r) \cup {p})
    BY <2>1, FS_AddElement
  <2>3. IsFiniteSet((Nodes(r) \cup {p}) \cup {q})
    BY <2>2, FS_AddElement
  <2>4. nodes = (Nodes(r) \cup {p}) \cup {q}
    OBVIOUS
  <2> QED
    BY <2>3, <2>4
<1>2. ASSUME NEW e \in Edges(r)
      PROVE  e[1] \in Nodes(r) /\ e[2] \in Nodes(r) /\ e[3] \in Nat
  <2>1. PICK x \in r.pathways : e = <<x.from, x.to, x.seconds>> \/ e = <<x.to, x.from, x.seconds>>
    BY DEF Edges
  <2>2. x.from \in Nodes(r) /\ x.to \in Nodes(r) /\ x.seconds \in Nat
    BY DEF Nodes, AreRules
  <2> QED
    BY <2>1, <2>2
<1> QED
  BY <1>1, <1>2 DEF Station

(* How long a way takes is when its last hop ends.                          *)
LEMMA TimeOfTrail ==
  ASSUME NEW nodes, NEW r, NEW p, NEW v, NEW n, NEW w, NEW f,
         Trail(nodes, Edges(r), p, v, n, w, f)
  PROVE  TimeOf(r, w) = f[n - 1] /\ Len(w) = n
<1> DEFINE took == [k \in 1 .. Len(w) - 1 |-> Hop(Edges(r), w[k], w[k + 1])]
<1>1. n \in Nat /\ n > 0 /\ w \in [1 .. n -> nodes] /\ f[0] = 0
  BY DEF Trail
<1>2. Len(w) = n
  <2>1. \A k, S, x : k \in Nat /\ x \in [1 .. k -> S] => Len(x) = k
    OBVIOUS
  <2> QED
    BY <1>1, <2>1
<1>3. Len(took) = n - 1 /\ n - 1 \in Nat
  <2>1. n - 1 \in Nat /\ DOMAIN took = 1 .. n - 1
    BY <1>1, <1>2
  <2> QED
    BY <1>2, <2>1
<1>4. \A k \in 1 .. n - 1 : took[k] = Hop(Edges(r), w[k], w[k + 1])
  BY <1>2
<1>5. TimeOf(r, w) = TotalOf(took)
  BY DEF TimeOf
<1> HIDE DEF took
<1>6. \A k \in 1 .. n - 1 : f[k] = f[k - 1] + took[k]
  BY <1>4 DEF Trail
<1> QED
  BY <1>1, <1>2, <1>3, <1>5, <1>6, TotalAsTold

(* The ways that pass no place twice are those of the definition.           *)
LEMMA TrailsArePaths ==
  ASSUME NEW r, AreRules(r), NEW p, NEW q, p # q, NEW n, NEW w, NEW f,
         Trail(Nodes(r) \cup {p, q}, Edges(r), p, q, n, w, f)
  PROVE  w \in SimplePaths(r, p, q)
<1> DEFINE nodes == Nodes(r) \cup {p, q}
<1>1. /\ n \in Nat /\ n > 0 /\ w \in [1 .. n -> nodes] /\ w[1] = p /\ w[n] = q /\ IsInjective(w)
      /\ \A k \in 1 .. n - 1 : \E e \in Edges(r) : e[1] = w[k] /\ e[2] = w[k + 1]
  BY DEF Trail, Linked
<1>2. Len(w) = n
  BY TimeOfTrail
<1>3. IsFiniteSet(nodes)
  BY RulesStation DEF Station
<1> HIDE DEF nodes
<1>4. n # 1
  BY <1>1
<1>5. n <= Cardinality(nodes) /\ Cardinality(nodes) \in Nat
  <2>1. w \in Injection(1 .. n, nodes)
    BY <1>1 DEF Injection, IsInjective
  <2>2. Cardinality(1 .. n) <= Cardinality(nodes)
    BY <1>3, <2>1, FS_Injection
  <2>3. Cardinality(1 .. n) = IF 1 > n THEN 0 ELSE n - 1 + 1
    BY <1>1, FS_Interval
  <2> QED
    BY <1>1, <1>3, <2>2, <2>3, FS_CardinalityType
<1>6. n \in 2 .. Cardinality(nodes)
  BY <1>1, <1>4, <1>5
<1>7. w \in UNION {[1 .. m -> nodes] : m \in 2 .. Cardinality(nodes)}
  BY <1>1, <1>6
<1> QED
  BY <1>1, <1>2, <1>7 DEF SimplePaths, nodes

LEMMA PathsAreTrails ==
  ASSUME NEW r, AreRules(r), NEW p, NEW q, NEW w \in SimplePaths(r, p, q)
  PROVE  \E n, f : Trail(Nodes(r) \cup {p, q}, Edges(r), p, q, n, w, f)
<1> DEFINE nodes == Nodes(r) \cup {p, q}
           edges == Edges(r)
<1>1. PICK n \in 2 .. Cardinality(nodes) : w \in [1 .. n -> nodes]
  BY DEF SimplePaths
<1>2. Station(nodes, edges) /\ Cardinality(nodes) \in Nat
  BY RulesStation, FS_CardinalityType DEF Station
<1>3. /\ w[1] = p /\ w[Len(w)] = q /\ IsInjective(w)
      /\ \A k \in 1 .. Len(w) - 1 : Linked(edges, w[k], w[k + 1])
  BY DEF SimplePaths, Linked
<1> HIDE DEF nodes, edges
<1>4. n \in Nat /\ n > 0 /\ n - 1 \in Nat
  BY <1>1, <1>2
<1>5. Len(w) = n
  <2>1. \A k, S, x : k \in Nat /\ x \in [1 .. k -> S] => Len(x) = k
    OBVIOUS
  <2> QED
    BY <1>1, <1>4, <2>1
<1> DEFINE took == [k \in 1 .. n - 1 |-> Hop(edges, w[k], w[k + 1])]
           f == CHOOSE g : SumsUpTo(g, took, n - 1)
<1>6. \A k \in 1 .. n - 1 : took[k] \in Nat /\ took[k] = Hop(edges, w[k], w[k + 1])
  BY <1>2, <1>3, <1>5, HopFacts
<1>7. SumsUpTo(f, took, n - 1)
  BY <1>4, TotalsDefined
<1> HIDE DEF f, took
<1>8. /\ f = [k \in 0 .. n - 1 |-> IF k = 0 THEN 0 ELSE f[k - 1] + took[k]]
      /\ \A k \in 0 .. n - 1 : f[k] = IF k = 0 THEN 0 ELSE f[k - 1] + took[k]
  <2>1. f = [k \in 0 .. n - 1 |-> IF k = 0 THEN 0 ELSE f[k - 1] + took[k]]
    BY <1>7 DEF SumsUpTo
  <2> QED
    BY <2>1
<1>9. \A k \in 0 .. n - 1 : f[k] \in Nat
  <2> DEFINE Good == {k \in 0 .. n - 1 : f[k] \in Nat}
  <2>1. 0 \in Good
    BY <1>4, <1>8
  <2>2. ASSUME NEW k \in 1 .. n - 1, k - 1 \in Good PROVE k \in Good
    <3>1. k \in 0 .. n - 1 /\ k # 0
      BY <1>4
    <3>2. f[k] = f[k - 1] + took[k]
      BY <1>8, <3>1
    <3> QED
      BY <1>6, <2>2, <3>1, <3>2
  <2> HIDE DEF Good
  <2>3. Good \in SUBSET (0 .. n - 1)
    BY DEF Good
  <2>4. \A k \in 0 .. n - 1 : k \in Good
    BY <1>4, <2>1, <2>2, <2>3, UpTo
  <2> QED
    BY <2>4 DEF Good
<1>10. f \in [0 .. n - 1 -> Nat] /\ f[0] = 0
  <2>1. f \in [0 .. n - 1 -> Nat]
    BY <1>8, <1>9
  <2> QED
    BY <1>4, <1>8, <2>1
<1>11. \A k \in 1 .. n - 1 : f[k] = f[k - 1] + Hop(edges, w[k], w[k + 1])
  <2>1. \A k \in 1 .. n - 1 : k \in 0 .. n - 1 /\ k # 0
    BY <1>4
  <2> QED
    BY <1>6, <1>8, <2>1
<1>12. Trail(nodes, edges, p, q, n, w, f)
  BY <1>1, <1>3, <1>4, <1>5, <1>10, <1>11 DEF Trail
<1> QED
  BY <1>12 DEF nodes, edges

(* How long the walk through a station takes: no less and no more than the  *)
(* quickest way, if that is within the limit; else it is not known.         *)
LEMMA WalkIsQuickest ==
  ASSUME NEW r, AreRules(r), NEW p, NEW q, p # q
  PROVE  WalkTime(r, p, q) =
           IF SimplePaths(r, p, q) # {} /\ QuickestWay(r, p, q) \in 0 .. MaxTransferTime
             THEN QuickestWay(r, p, q) ELSE Unknown
<1> DEFINE edges == Edges(r)
           nodes == Nodes(r) \cup {p, q}
           N == Cardinality(nodes)
           start == [dist |-> [n \in nodes |-> IF n = p THEN 0 ELSE Unreached], heap |-> {p}]
           after == CHOOSE f : Turns(f, start, edges, q, N)
           final == after[N]
           ways == SimplePaths(r, p, q)
           times == {TimeOf(r, w) : w \in ways}
           best == QuickestWay(r, p, q)
<1>1. Station(nodes, edges) /\ p \in nodes /\ q \in nodes
  BY RulesStation
<1>2. N \in Nat
  BY <1>1, FS_CardinalityType DEF Station
<1>3. WalkTime(r, p, q) = IF p = q THEN 0
                          ELSE IF edges = {} \/ q \notin final.heap THEN Unknown
                          ELSE final.dist[q]
  BY DEF WalkTime, Turns
<1>4. WalkInv(start, nodes, edges, p, q) /\ Settled(start) = {}
  <2> HIDE DEF nodes, edges
  <2> QED
    BY <1>1, WalkStarts
<1>5. best = Min(times)
  BY DEF QuickestWay
<1>6. \A w \in ways : \E n, f : Trail(nodes, edges, p, q, n, w, f) /\ TimeOf(r, w) = f[n - 1]
                                /\ f[n - 1] \in Nat
  <2> TAKE w \in ways
  <2>1. PICK n, f : Trail(nodes, edges, p, q, n, w, f)
    BY PathsAreTrails
  <2>2. TimeOf(r, w) = f[n - 1]
    BY <2>1, TimeOfTrail
  <2>3. f[n - 1] \in Nat
    BY <2>1 DEF Trail
  <2> QED
    BY <2>1, <2>2, <2>3
<1>7. \A n, w, f : Trail(nodes, edges, p, q, n, w, f) =>
        w \in ways /\ f[n - 1] \in times /\ edges # {}
  <2> SUFFICES ASSUME NEW n, NEW w, NEW f, Trail(nodes, edges, p, q, n, w, f)
               PROVE  w \in ways /\ f[n - 1] \in times /\ edges # {}
    OBVIOUS
  <2>1. w \in ways
    BY TrailsArePaths
  <2>2. TimeOf(r, w) = f[n - 1]
    BY TimeOfTrail
  <2>3. edges # {}
    <3>1. n \in Nat /\ n > 0 /\ w[1] = p /\ w[n] = q
          /\ \A k \in 1 .. n - 1 : Linked(edges, w[k], w[k + 1])
      BY DEF Trail
    <3>2. 1 \in 1 .. n - 1
      BY <3>1
    <3> QED
      BY <3>1, <3>2 DEF Linked
  <2> QED
    BY <2>1, <2>2, <2>3
<1> HIDE DEF edges, nodes, N, start, ways, best
<1>8. Turns(after, start, edges, q, N)
  BY <1>2, TurnsDefined
<1> HIDE DEF after
<1>9. WalkInv(final, nodes, edges, p, q) /\ Stopped(final, q)
  BY <1>1, <1>4, <1>8, TurnsEnough DEF N
<1> HIDE DEF final
<1>10. ways # {} => best \in times /\ \A t \in times : best <= t
  <2>1. times \subseteq Nat
    BY <1>6
  <2>2. ways # {} => times # {}
    OBVIOUS
  <2> HIDE DEF times
  <2>3. ASSUME times # {} PROVE Min(times) \in times /\ \A t \in times : Min(times) <= t
    <3>1. PICK low \in times : \A k \in times : low <= k
      BY <2>1, <2>3, Least
    <3> QED
      BY <3>1, MinOf
  <2> QED
    BY <1>5, <2>2, <2>3
<1>11. CASE q \in final.heap
  <2>1. final.dist[q] <= MaxTransferTime /\ final.dist[q] \in Nat
    BY <1>1, <1>9, <1>11 DEF WalkInv, WalkStates
  <2>2. HasWay(final, nodes, edges, p, q)
    BY <1>1, <1>9, <2>1 DEF WalkInv
  <2>3. PICK n, w, f : Trail(nodes, edges, p, q, n, w, f) /\ f[n - 1] <= final.dist[q]
    BY <2>2 DEF HasWay
  <2>4. w \in ways /\ f[n - 1] \in times /\ edges # {}
    BY <1>7, <2>3
  <2>5. f[n - 1] \in Nat
    BY <2>3 DEF Trail
  <2>6. best \in times /\ best <= f[n - 1]
    BY <1>10, <2>4
  <2>7. PICK x \in ways : best = TimeOf(r, x)
    BY <2>6
  <2>8. PICK m, g : Trail(nodes, edges, p, q, m, x, g) /\ best = g[m - 1] /\ g[m - 1] \in Nat
    BY <1>6, <2>7
  <2>9. best \in Nat /\ best <= MaxTransferTime /\ MaxTransferTime \in Nat
    BY <2>1, <2>3, <2>5, <2>6, <2>8, TransferAssumption
  <2>10. final.dist[q] <= best
    BY <1>1, <1>9, <2>8, <2>9, NoneIsQuicker
  <2>11. final.dist[q] = best
    BY <2>1, <2>3, <2>5, <2>6, <2>9, <2>10
  <2>12. ways # {} /\ best \in 0 .. MaxTransferTime
    BY <2>4, <2>9
  <2>13. WalkTime(r, p, q) = best
    BY <1>3, <1>11, <2>4, <2>11
  <2> QED
    BY <2>12, <2>13 DEF ways, best
<1>12. CASE q \notin final.heap
  <2>1. ~ (ways # {} /\ best \in 0 .. MaxTransferTime)
    <3> SUFFICES ASSUME ways # {}, best \in 0 .. MaxTransferTime PROVE FALSE
      OBVIOUS
    <3>1. PICK x \in ways : best = TimeOf(r, x)
      BY <1>10
    <3>2. PICK m, g : Trail(nodes, edges, p, q, m, x, g) /\ best = g[m - 1]
      BY <1>6, <3>1
    <3>3. best <= MaxTransferTime
      BY TransferAssumption
    <3> QED
      BY <1>1, <1>9, <1>12, <3>2, <3>3, NoneIsQuicker
  <2>2. WalkTime(r, p, q) = Unknown
    BY <1>3, <1>12
  <2> QED
    BY <2>1, <2>2 DEF ways, best
<1> QED
  BY <1>11, <1>12

(* Where no source states a time, the walk decides, and is floored.         *)
LEMMA UnstatedTime ==
  ASSUME NEW r, r.request = <<>>, r.policy = <<>>, r.published = {}, NEW p, NEW q
  PROVE  TransferTime(r, p, q) =
           IF WalkTime(r, p, q) = Unknown THEN DefaultTransferTime
           ELSE Max({WalkTime(r, p, q), DefaultTransferTime})
<1> DEFINE sources == <<LookupPair(r.request, p, q), LookupPair(r.policy, p, q),
                        PublishedTransfer(r, p, q)>>
           known == {n \in DOMAIN sources : sources[n] # Unknown}
<1>1. LookupPair(r.request, p, q) = Unknown /\ LookupPair(r.policy, p, q) = Unknown
  <2>1. DOMAIN <<>> = {}
    OBVIOUS
  <2> QED
    BY <2>1 DEF LookupPair
<1>2. PublishedTransfer(r, p, q) = Unknown
  BY DEF PublishedTransfer
<1>3. known = {}
  <2>1. DOMAIN sources = 1 .. 3
    OBVIOUS
  <2>2. \A n \in 1 .. 3 : sources[n] = Unknown
    BY <1>1, <1>2
  <2> QED
    BY <2>1, <2>2
<1>4. TransferTime(r, p, q) = IF known # {} THEN sources[Min(known)]
                              ELSE IF WalkTime(r, p, q) = Unknown THEN DefaultTransferTime
                              ELSE Max({WalkTime(r, p, q), DefaultTransferTime})
  BY DEF TransferTime
<1> HIDE DEF known, sources
<1> QED
  BY <1>3, <1>4

(***************************************************************************)
(* pathways.go:69 and 117: over every graph of pathways, a change nobody   *)
(* stated or published a time for is given the quickest way through the    *)
(* station, if that is within what is believed of the graph, and never     *)
(* less than the default.                                                  *)
(***************************************************************************)
THEOREM QuickestIsAllowed == Spec => []QuickestWayAllowed
<1>1. ASSUME SearchInv PROVE QuickestWayAllowed
  <2> SUFFICES ASSUME NEW p \in Nodes(rules), NEW q \in Nodes(rules),
                      rules.request = <<>>, rules.policy = <<>>, rules.published = {}
               PROVE  LET ways == {w \in SimplePaths(rules, p, q) : p # q}
                          best == QuickestWay(rules, p, q)
                      IN  TransferTime(rules, p, q) =
                            IF ways # {} /\ best \in DefaultTransferTime .. MaxTransferTime
                              THEN best ELSE DefaultTransferTime
    BY DEF QuickestWayAllowed
  <2> DEFINE paths == SimplePaths(rules, p, q)
             ways == {w \in paths : p # q}
             best == QuickestWay(rules, p, q)
             walk == WalkTime(rules, p, q)
             time == TransferTime(rules, p, q)
  <2>1. AreRules(rules)
    BY <1>1, GivenFacts DEF SearchInv
  <2>2. time = IF walk = Unknown THEN DefaultTransferTime ELSE Max({walk, DefaultTransferTime})
    BY UnstatedTime
  <2>3. DefaultTransferTime \in Nat /\ MaxTransferTime \in Nat /\ Unknown \notin Nat
    BY TransferAssumption
  <2>4. walk # Unknown => walk \in Nat
    BY <2>1, WalkTimeTyped
  <2>5. p = q => walk = 0
    BY DEF WalkTime
  <2>6. p # q => walk = IF paths # {} /\ best \in 0 .. MaxTransferTime THEN best ELSE Unknown
    BY <2>1, WalkIsQuickest
  <2>7. walk # Unknown => time = IF walk >= DefaultTransferTime THEN walk ELSE DefaultTransferTime
    BY <2>2, <2>3, <2>4, MaxOfTwo
  <2>8. (p = q => ways = {}) /\ (p # q => ways = paths)
    OBVIOUS
  <2> HIDE DEF paths, ways, best, walk, time
  <2>9. CASE p = q
    <3>1. walk \in Nat /\ walk # Unknown
      BY <2>3, <2>5, <2>9
    <3>2. time = DefaultTransferTime
      BY <2>3, <2>5, <2>7, <2>9, <3>1
    <3>3. time = IF ways # {} /\ best \in DefaultTransferTime .. MaxTransferTime
                   THEN best ELSE DefaultTransferTime
      BY <2>8, <2>9, <3>2
    <3> QED
      BY <3>3 DEF ways, paths, best, time
  <2>10. CASE p # q
    <3>1. CASE walk = Unknown
      <4>1. ~ (paths # {} /\ best \in 0 .. MaxTransferTime)
        BY <2>3, <2>6, <2>10, <3>1
      <4>2. ~ (ways # {} /\ best \in DefaultTransferTime .. MaxTransferTime)
        BY <2>3, <2>8, <2>10, <4>1
      <4>3. time = IF ways # {} /\ best \in DefaultTransferTime .. MaxTransferTime
                     THEN best ELSE DefaultTransferTime
        BY <2>2, <3>1, <4>2
      <4> QED
        BY <4>3 DEF ways, paths, best, time
    <3>2. CASE walk # Unknown
      <4>1. paths # {} /\ best \in 0 .. MaxTransferTime /\ walk = best
        BY <2>6, <2>10, <3>2
      <4>2. ways # {} /\ (best \in DefaultTransferTime .. MaxTransferTime <=> best >= DefaultTransferTime)
        BY <2>3, <2>8, <2>10, <4>1
      <4>3. time = IF ways # {} /\ best \in DefaultTransferTime .. MaxTransferTime
                     THEN best ELSE DefaultTransferTime
        BY <2>7, <3>2, <4>1, <4>2
      <4> QED
        BY <4>3 DEF ways, paths, best, time
    <3> QED
      BY <3>1, <3>2
  <2> QED
    BY <2>9, <2>10
<1> QED
  BY SearchInvariant, <1>1, PTL DEF Spec

-----------------------------------------------------------------------------
(* What a leg passes *)

(* f[n] is what Slotted has made of the first n stations of the pattern.    *)
Slots(f, made, called, pattern, N) ==
  f = [n \in 0 .. N |-> IF n = 0 THEN [out |-> <<>>, next |-> 1]
                        ELSE Passed(f[n - 1], made, called, pattern[n])]

LEMMA SlotsDefined ==
  ASSUME NEW made, NEW called, NEW pattern, NEW N \in Nat
  PROVE  \E f : Slots(f, made, called, pattern, N)
<1> DEFINE Start == [out |-> <<>>, next |-> 1]
           After(prev, n) == Passed(prev, made, called, pattern[n])
           Def(f, k) == f = [n \in 0 .. k |-> IF n = 0 THEN Start ELSE After(f[n - 1], n)]
           Good == {k \in 0 .. N : \E f : Def(f, k)}
<1> HIDE DEF After, Start
<1>1. 0 \in Good
  <2>1. Def([n \in 0 .. 0 |-> Start], 0)
    OBVIOUS
  <2> HIDE DEF Def
  <2> QED
    BY <2>1
<1>2. ASSUME NEW k \in 1 .. N, k - 1 \in Good PROVE k \in Good
  <2>1. PICK f : Def(f, k - 1)
    BY <1>2
  <2> DEFINE g == [n \in 0 .. k |-> IF n = 0 THEN Start ELSE After(f[n - 1], n)]
  <2>2. ASSUME NEW n \in 0 .. k, n # 0 PROVE g[n - 1] = f[n - 1]
    <3>1. n - 1 \in 0 .. k - 1 /\ n - 1 \in 0 .. k
      BY <2>2
    <3>2. f[n - 1] = IF n - 1 = 0 THEN Start ELSE After(f[(n - 1) - 1], n - 1)
      BY <2>1, <3>1
    <3> QED
      BY <3>1, <3>2
  <2>3. Def(g, k)
    <3>1. g = [n \in 0 .. k |-> IF n = 0 THEN Start ELSE After(g[n - 1], n)]
      BY <2>2
    <3> QED
      BY <3>1
  <2> HIDE DEF Def
  <2> QED
    BY <2>3
<1>3. N \in Good
  <2> HIDE DEF Good
  <2>1. Good \in SUBSET (0 .. N) /\ N \in 0 .. N
    BY DEF Good
  <2> QED
    BY <1>1, <1>2, <2>1, UpTo
<1>4. PICK f : Def(f, N)
  BY <1>3
<1> QED
  BY <1>4 DEF After, Start, Slots

(* The loop over the pattern, station by station.                           *)
Slotting(f, made, called, pattern) ==
  /\ f[0].out = <<>> /\ f[0].next = 1
  /\ \A n \in 1 .. Len(pattern) : f[n] = Passed(f[n - 1], made, called, pattern[n])
  /\ Slotted(made, called, pattern)
       = f[Len(pattern)].out \o SubSeq(made, f[Len(pattern)].next, Len(made))

LEMMA SlottedInSteps ==
  ASSUME NEW made, NEW called, NEW pattern, Len(pattern) \in Nat
  PROVE  \E f : Slotting(f, made, called, pattern)
<1> DEFINE N == Len(pattern)
           after == CHOOSE f : Slots(f, made, called, pattern, N)
<1>1. Slotted(made, called, pattern) = after[N].out \o SubSeq(made, after[N].next, Len(made))
  BY DEF Slotted, Slots
<1>2. Slots(after, made, called, pattern, N)
  BY SlotsDefined
<1> HIDE DEF after, N
<1>3. N \in Nat
  BY DEF N
<1>4. \A n \in 0 .. N :
        after[n] = IF n = 0 THEN [out |-> <<>>, next |-> 1]
                   ELSE Passed(after[n - 1], made, called, pattern[n])
  <2>1. after = [n \in 0 .. N |-> IF n = 0 THEN [out |-> <<>>, next |-> 1]
                                  ELSE Passed(after[n - 1], made, called, pattern[n])]
    BY <1>2 DEF Slots
  <2> QED
    BY <2>1
<1>5. 0 \in 0 .. N /\ \A n \in 1 .. N : n \in 0 .. N /\ n # 0
  BY <1>3
<1>6. /\ after[0].out = <<>> /\ after[0].next = 1
      /\ \A n \in 1 .. N : after[n] = Passed(after[n - 1], made, called, pattern[n])
  BY <1>4, <1>5
<1> QED
  BY <1>1, <1>6 DEF Slotting, N

(* What is listed of a leg: its calls, and stations of the pattern.         *)
Entries(X, Y) == X \cup {[stop |-> s, skipped |-> TRUE] : s \in Y}

(* A list is its head and what is left.                                     *)
LEMMA CutInTwo ==
  ASSUME NEW X, NEW s \in Seq(X), NEW k \in 1 .. Len(s) + 1
  PROVE  SubSeq(s, k, Len(s)) \in Seq(X) /\ SubSeq(s, 1, k - 1) \o SubSeq(s, k, Len(s)) = s
<1> DEFINE u == SubSeq(s, 1, k - 1)
           v == SubSeq(s, k, Len(s))
<1>1. /\ Len(s) \in Nat /\ \A i \in 1 .. Len(s) : s[i] \in X
      /\ k - 1 \in 0 .. Len(s) /\ k \in Nat
  OBVIOUS
<1>2. u \in Seq(X) /\ Len(u) = k - 1 /\ \A i \in 1 .. k - 1 : u[i] = s[i]
  BY <1>1
<1>3. v \in Seq(X) /\ Len(v) = Len(s) - k + 1 /\ \A i \in 1 .. Len(v) : v[i] = s[k + i - 1]
  <2>1. v = [i \in 1 .. Len(s) - k + 1 |-> s[k + i - 1]]
    BY <1>1
  <2>2. \A i \in 1 .. Len(s) - k + 1 : k + i - 1 \in 1 .. Len(s)
    BY <1>1
  <2>3. Len(s) - k + 1 \in Nat
    BY <1>1
  <2> HIDE DEF v
  <2> QED
    BY <1>1, <2>1, <2>2, <2>3
<1> HIDE DEF u, v
<1>4. /\ u \o v \in Seq(X) /\ Len(u \o v) = Len(s)
      /\ \A i \in 1 .. Len(s) : (u \o v)[i] = IF i <= Len(u) THEN u[i] ELSE v[i - Len(u)]
  BY <1>1, <1>2, <1>3
<1>5. \A i \in 1 .. Len(s) : (u \o v)[i] = s[i]
  <2> SUFFICES ASSUME NEW i \in 1 .. Len(s) PROVE (u \o v)[i] = s[i]
    OBVIOUS
  <2>1. CASE i <= Len(u)
    BY <1>1, <1>2, <1>4, <2>1
  <2>2. CASE ~ i <= Len(u)
    <3>1. i - Len(u) \in 1 .. Len(v) /\ k + (i - Len(u)) - 1 = i
      BY <1>1, <1>2, <1>3, <2>2
    <3> QED
      BY <1>3, <1>4, <2>2, <3>1
  <2> QED
    BY <2>1, <2>2
<1>6. \A a, b : a \in Seq(X) /\ b \in Seq(X) /\ Len(a) = Len(b)
                 /\ (\A i \in 1 .. Len(b) : a[i] = b[i]) => a = b
  OBVIOUS
<1>7. u \o v = s
  BY <1>4, <1>5, <1>6
<1> QED
  BY <1>3, <1>7 DEF u, v

(* Whatever was read of the pattern, every call is listed, in order.        *)
LEMMA CallsAreListed ==
  ASSUME NEW X, NEW Y, NEW made \in Seq(X), NEW called, NEW pattern \in Seq(Y),
         \A c \in X : ~ c.skipped
  PROVE  /\ Slotted(made, called, pattern) \in Seq(Entries(X, Y))
         /\ Among(X, Slotted(made, called, pattern)) = made
<1> DEFINE T == Entries(X, Y)
           L == Len(made)
           N == Len(pattern)
<1>1. L \in Nat /\ N \in Nat /\ X \subseteq T /\ made \in Seq(T)
      /\ (\A k \in 1 .. L : made[k] \in X) /\ \A n \in 1 .. N : pattern[n] \in Y
  BY DEF Entries
<1>2. PICK f : Slotting(f, made, called, pattern)
  BY <1>1, SlottedInSteps
<1> DEFINE Good(n) == /\ f[n].out \in Seq(T) /\ f[n].next \in 1 .. L + 1
                      /\ Among(X, f[n].out) = SubSeq(made, 1, f[n].next - 1)
           good == {n \in 0 .. N : Good(n)}
<1>3. Good(0)
  <2>1. f[0].out = <<>> /\ f[0].next = 1
    BY <1>2 DEF Slotting
  <2>2. SubSeq(made, 1, f[0].next - 1) = <<>> /\ <<>> \in Seq(T) /\ f[0].next \in 1 .. L + 1
    <3>1. SubSeq(made, 1, 0) = <<>> /\ <<>> \in Seq(T)
      OBVIOUS
    <3>2. f[0].next - 1 = 0
      BY <2>1
    <3> QED
      BY <1>1, <2>1, <3>1, <3>2
  <2>3. Among(X, f[0].out) = <<>>
    BY <2>1, AmongNone
  <2> QED
    BY <2>1, <2>2, <2>3
<1>4. ASSUME NEW n \in 1 .. N, Good(n - 1) PROVE Good(n)
  <2> DEFINE s == f[n - 1]
             passed == [stop |-> pattern[n], skipped |-> TRUE]
  <2>1. f[n] = Passed(s, made, called, pattern[n])
    BY <1>2 DEF Slotting
  <2>2. s.out \in Seq(T) /\ s.next \in 1 .. L + 1 /\ Among(X, s.out) = SubSeq(made, 1, s.next - 1)
    BY <1>4
  <2> HIDE DEF s
  <2>3. CASE s.next > L
    <3>1. f[n] = s
      BY <2>1, <2>3 DEF Passed
    <3> QED
      BY <2>2, <3>1
  <2>4. CASE ~ s.next > L /\ pattern[n] \in called
    <3>1. f[n] = [out |-> Append(s.out, made[s.next]), next |-> s.next + 1]
      BY <2>1, <2>4 DEF Passed
    <3>2. f[n].out = Append(s.out, made[s.next]) /\ f[n].next = s.next + 1
      BY <3>1
    <3>3. s.next \in 1 .. L /\ made[s.next] \in X /\ made[s.next] \in T
      BY <1>1, <2>2, <2>4
    <3>4. Append(s.out, made[s.next]) \in Seq(T)
      <4> HIDE DEF T, L
      <4> QED
        BY <2>2, <3>3
    <3>5. Among(X, Append(s.out, made[s.next])) = Append(Among(X, s.out), made[s.next])
      <4> HIDE DEF T, L
      <4> QED
        BY <2>2, <3>3, AmongAppend
    <3>6. Append(SubSeq(made, 1, s.next - 1), made[s.next]) = SubSeq(made, 1, s.next)
      <4>1. \A k \in 1 .. Len(made) : SubSeq(made, 1, k) = Append(SubSeq(made, 1, k - 1), made[k])
        OBVIOUS
      <4> QED
        BY <3>3, <4>1
    <3>7. (s.next + 1) - 1 = s.next /\ s.next + 1 \in 1 .. L + 1
      BY <1>1, <3>3
    <3> QED
      BY <2>2, <3>2, <3>4, <3>5, <3>6, <3>7
  <2>5. CASE ~ s.next > L /\ pattern[n] \notin called /\ s.out = <<>>
    <3>1. f[n] = s
      BY <2>1, <2>5 DEF Passed
    <3> QED
      BY <2>2, <3>1
  <2>6. CASE ~ s.next > L /\ pattern[n] \notin called /\ s.out # <<>>
    <3>1. f[n] = [s EXCEPT !.out = Append(@, passed)]
      BY <2>1, <2>6 DEF Passed
    <3>2. f[n].next = s.next
      BY <3>1
    <3>3. passed \in T /\ passed.skipped
      BY <1>1 DEF Entries
    <3>4. passed \notin X
      BY <3>3
    <3> HIDE DEF passed
    <3>5. f[n].out = Append(s.out, passed)
      BY <3>1
    <3>6. Append(s.out, passed) \in Seq(T)
      <4> HIDE DEF T, L
      <4> QED
        BY <2>2, <3>3
    <3>7. Among(X, Append(s.out, passed)) = Among(X, s.out)
      <4> HIDE DEF T, L
      <4> QED
        BY <2>2, <3>3, <3>4, AmongAppend
    <3> QED
      BY <2>2, <3>2, <3>5, <3>6, <3>7
  <2> QED
    BY <2>3, <2>4, <2>5, <2>6
<1>5. Good(N)
  <2> HIDE DEF Good
  <2>1. good \in SUBSET (0 .. N) /\ 0 \in good /\ N \in 0 .. N
    BY <1>1, <1>3
  <2>2. \A n \in 1 .. N : n - 1 \in good => n \in good
    BY <1>4
  <2> HIDE DEF good
  <2>3. N \in good
    BY <1>1, <2>1, <2>2, UpTo
  <2> QED
    BY <2>3 DEF good
<1> DEFINE out == f[N].out
           next == f[N].next
           rest == SubSeq(made, next, L)
<1>6. Slotted(made, called, pattern) = out \o rest
  BY <1>2 DEF Slotting
<1>7. out \in Seq(T) /\ next \in 1 .. L + 1 /\ Among(X, out) = SubSeq(made, 1, next - 1)
  BY <1>5
<1> HIDE DEF out, next
<1>8. /\ rest \in Seq(T) /\ \A k \in 1 .. Len(rest) : rest[k] \in X
      /\ SubSeq(made, 1, next - 1) \o rest = made
  <2>1. \A k \in 1 .. Len(made) + 1 : /\ SubSeq(made, k, Len(made)) \in Seq(X)
                                     /\ SubSeq(made, 1, k - 1) \o SubSeq(made, k, Len(made)) = made
    BY CutInTwo
  <2>2. rest \in Seq(X) /\ SubSeq(made, 1, next - 1) \o rest = made
    BY <1>7, <2>1
  <2> HIDE DEF rest, T
  <2>3. \A u : u \in Seq(X) => u \in Seq(T) /\ \A k \in 1 .. Len(u) : u[k] \in X
    BY <1>1
  <2> QED
    BY <2>2, <2>3
<1> HIDE DEF rest, T, L
<1>9. Among(X, out \o rest) = Among(X, out) \o rest
  <2>1. out \in Seq(T) /\ rest \in Seq(T) /\ \A k \in 1 .. Len(rest) : rest[k] \in X
    BY <1>7, <1>8
  <2> QED
    BY <2>1, AmongBehind
<1>10. out \o rest \in Seq(T)
  BY <1>7, <1>8
<1> QED
  BY <1>6, <1>7, <1>8, <1>9, <1>10 DEF T

(* f gives the place in the pattern of each call.                           *)
PlacesOf(f, made, pattern) ==
  /\ f \in [1 .. Len(made) -> 1 .. Len(pattern)]
  /\ \A i \in 1 .. Len(made) : StationOf(made[i]) = pattern[f[i]] /\ pattern[f[i]] \in CalledAt(made)
  /\ \A i, j \in 1 .. Len(made) : i < j => f[i] < f[j]
  /\ \A k \in 1 .. Len(pattern) :
       pattern[k] \in CalledAt(made) => \E i \in 1 .. Len(made) : f[i] = k

LEMMA FollowsByPlace ==
  ASSUME NEW X, NEW Y, NEW made \in Seq(X), NEW pattern \in Seq(Y), \A c \in X : ~ c.skipped,
         Follows(made, pattern)
  PROVE  \E f : PlacesOf(f, made, pattern)
<1> DEFINE at == CalledAt(made)
           kept == Among(at, pattern)
           L == Len(made)
<1>1. kept = [k \in DOMAIN made |-> StationOf(made[k])]
  BY DEF Follows
<1>2. L \in Nat /\ DOMAIN made = 1 .. L /\ \A k \in 1 .. L : made[k] \in X
  OBVIOUS
<1>3. PICK f \in [1 .. Len(kept) -> 1 .. Len(pattern)] :
        /\ \A n \in 1 .. Len(kept) : kept[n] = pattern[f[n]]
        /\ \A m, n \in 1 .. Len(kept) : m < n => f[m] < f[n]
        /\ \A k \in 1 .. Len(pattern) :
             pattern[k] \in at => \E n \in 1 .. Len(kept) : f[n] = k
  <2> HIDE DEF L, at
  <2>1. pattern \in Seq(Y)
    OBVIOUS
  <2> QED
    BY <2>1, AmongPicks
<1> HIDE DEF kept
<1>4. Len(kept) = L /\ \A n \in 1 .. L : kept[n] = StationOf(made[n])
  <2>1. kept = [k \in 1 .. L |-> StationOf(made[k])]
    BY <1>1, <1>2
  <2> HIDE DEF L
  <2> QED
    BY <1>2, <2>1
<1>5. \A n \in 1 .. L : StationOf(made[n]) \in CalledAt(made)
  BY <1>2 DEF CalledAt, StationOf, IsMade
<1> HIDE DEF L
<1>6. \A n \in 1 .. L : StationOf(made[n]) = pattern[f[n]] /\ pattern[f[n]] \in CalledAt(made)
  BY <1>3, <1>4, <1>5
<1> QED
  BY <1>3, <1>4, <1>6 DEF PlacesOf, L

(* What has been listed once the pattern was read up to its n-th station.   *)
ListedTo(s, n, f, T, made, pattern) ==
  /\ s.out \in Seq(T) /\ s.next \in 1 .. Len(made) + 1
  /\ \A i \in 1 .. Len(made) : f[i] <= n <=> i < s.next
  /\ s.next = 1 => s.out = <<>>
  /\ s.next # 1 =>
       Len(s.out) = (IF s.next <= Len(made) THEN n ELSE f[Len(made)]) - f[1] + 1
  /\ \A j \in 1 .. Len(s.out) : StationOf(s.out[j]) = pattern[f[1] + j - 1]

LEMMA ListedToNext ==
  ASSUME NEW X, NEW Y, NEW made \in Seq(X), NEW pattern \in Seq(Y), \A c \in X : ~ c.skipped,
         Len(made) >= 1, NEW f, PlacesOf(f, made, pattern),
         NEW n \in 1 .. Len(pattern), NEW s,
         ListedTo(s, n - 1, f, Entries(X, Y), made, pattern)
  PROVE  ListedTo(Passed(s, made, CalledAt(made), pattern[n]), n, f, Entries(X, Y), made, pattern)
<1> DEFINE T == Entries(X, Y)
           L == Len(made)
           N == Len(pattern)
           passed == [stop |-> pattern[n], skipped |-> TRUE]
           new == Passed(s, made, CalledAt(made), pattern[n])
<1>1. /\ L \in Nat /\ N \in Nat /\ X \subseteq T /\ n \in Nat
      /\ (\A k \in 1 .. L : made[k] \in X) /\ pattern[n] \in Y
  BY DEF Entries
<1>2. /\ passed \in T /\ StationOf(passed) = pattern[n]
      /\ \A k \in 1 .. L : made[k] \in T
  BY <1>1 DEF Entries, StationOf, IsMade
<1>3. /\ \A i \in 1 .. L : f[i] \in 1 .. N
      /\ \A i \in 1 .. L : StationOf(made[i]) = pattern[f[i]] /\ pattern[f[i]] \in CalledAt(made)
      /\ \A i, j \in 1 .. L : i < j => f[i] < f[j]
      /\ \A k \in 1 .. N : pattern[k] \in CalledAt(made) => \E i \in 1 .. L : f[i] = k
  BY DEF PlacesOf
<1>4. /\ s.out \in Seq(T) /\ s.next \in 1 .. L + 1
      /\ \A i \in 1 .. L : f[i] <= n - 1 <=> i < s.next
      /\ s.next = 1 => s.out = <<>>
      /\ s.next # 1 => Len(s.out) = (IF s.next <= L THEN n - 1 ELSE f[L]) - f[1] + 1
      /\ \A j \in 1 .. Len(s.out) : StationOf(s.out[j]) = pattern[f[1] + j - 1]
  BY DEF ListedTo
<1>5. 1 \in 1 .. L /\ L \in 1 .. L
  BY <1>1
<1> HIDE DEF T, passed, L, N
<1>6. CASE s.next > L
  <2>1. new = s
    BY <1>6 DEF Passed, L
  <2>2. s.next = L + 1
    BY <1>1, <1>4, <1>6
  <2>3. \A i \in 1 .. L : f[i] <= n <=> i < s.next
    BY <1>1, <1>3, <1>4, <2>2
  <2> QED
    BY <1>1, <1>4, <2>1, <2>2, <2>3 DEF ListedTo, T, L
<1>7. CASE ~ s.next > L /\ pattern[n] \in CalledAt(made)
  <2>1. new = [out |-> Append(s.out, made[s.next]), next |-> s.next + 1]
    BY <1>7 DEF Passed, L
  <2>2. new.out = Append(s.out, made[s.next]) /\ new.next = s.next + 1
    BY <2>1
  <2>3. s.next \in 1 .. L
    BY <1>1, <1>4, <1>7
  <2>4. PICK m \in 1 .. L : f[m] = n
    BY <1>3, <1>7 DEF N
  <2>5. m = s.next
    <3>1. ~ m < s.next
      BY <1>1, <1>4, <2>4
    <3>2. ~ s.next < m
      <4>1. s.next < m => f[s.next] < n /\ f[s.next] \in Nat
        BY <1>3, <2>3, <2>4
      <4>2. ~ f[s.next] <= n - 1
        BY <1>4, <2>3
      <4> QED
        BY <1>1, <4>1, <4>2
    <3> QED
      BY <2>3, <3>1, <3>2
  <2>6. f[s.next] = n
    BY <2>4, <2>5
  <2> HIDE DEF new
  <2>7. new.next \in 1 .. L + 1 /\ new.next # 1
    BY <1>1, <2>2, <2>3
  <2>8. \A i \in 1 .. L : f[i] <= n <=> i < new.next
    <3> SUFFICES ASSUME NEW i \in 1 .. L PROVE f[i] <= n <=> i < new.next
      OBVIOUS
    <3>1. i < s.next => f[i] < n
      BY <1>3, <2>3, <2>6
    <3>2. s.next < i => n < f[i]
      BY <1>3, <2>3, <2>6
    <3>3. f[i] \in Int /\ n \in Int /\ i \in Int /\ s.next \in Int
      BY <1>1, <1>3, <2>3
    <3>4. i = s.next => f[i] = n
      BY <2>6
    <3> QED
      BY <2>2, <3>1, <3>2, <3>3, <3>4
  <2>9. /\ new.out \in Seq(T) /\ Len(new.out) = Len(s.out) + 1
        /\ \A j \in 1 .. Len(s.out) : new.out[j] = s.out[j]
        /\ new.out[Len(s.out) + 1] = made[s.next]
        /\ Len(s.out) \in Nat
    <3>1. made[s.next] \in T
      BY <1>2, <2>3
    <3> QED
      BY <1>4, <2>2, <3>1, Appended
  <2>10. f[1] \in Int /\ f[L] \in Int
    BY <1>3, <1>5
  <2>11. Len(s.out) = n - f[1]
    <3>1. CASE s.next = 1
      BY <1>1, <1>4, <2>6, <2>10, <3>1
    <3>2. CASE s.next # 1
      <4>1. Len(s.out) = (n - 1) - f[1] + 1
        BY <1>4, <1>7, <2>3, <3>2
      <4> QED
        BY <1>1, <2>10, <4>1
    <3> QED
      BY <3>1, <3>2
  <2>12. Len(new.out) = (IF new.next <= L THEN n ELSE f[L]) - f[1] + 1
    <3>1. Len(new.out) = n - f[1] + 1
      BY <2>9, <2>11
    <3>2. ~ new.next <= L => f[L] = n
      <4>1. ~ new.next <= L => s.next = L
        BY <1>1, <2>2, <2>3
      <4> QED
        BY <2>6, <4>1
    <3> QED
      BY <3>1, <3>2
  <2>13. \A j \in 1 .. Len(new.out) : StationOf(new.out[j]) = pattern[f[1] + j - 1]
    <3> SUFFICES ASSUME NEW j \in 1 .. Len(new.out)
                 PROVE  StationOf(new.out[j]) = pattern[f[1] + j - 1]
      OBVIOUS
    <3>1. CASE j \in 1 .. Len(s.out)
      BY <1>4, <2>9, <3>1
    <3>2. CASE j = Len(s.out) + 1
      <4>1. f[1] + j - 1 = n
        BY <1>1, <2>10, <2>11, <3>2
      <4>2. StationOf(made[s.next]) = pattern[n]
        BY <1>3, <2>3, <2>6
      <4> QED
        BY <2>9, <3>2, <4>1, <4>2
    <3> QED
      BY <2>9, <3>1, <3>2
  <2>14. ListedTo(new, n, f, T, made, pattern)
    BY <2>7, <2>8, <2>9, <2>12, <2>13 DEF ListedTo, L
  <2> QED
    BY <2>14 DEF new, T
<1>8. CASE ~ s.next > L /\ pattern[n] \notin CalledAt(made)
  <2>1. new = IF s.out = <<>> THEN s ELSE [s EXCEPT !.out = Append(@, passed)]
    BY <1>8 DEF Passed, L, passed
  <2> HIDE DEF new
  <2>2. s.next \in 1 .. L
    BY <1>1, <1>4, <1>8
  <2>3. \A i \in 1 .. L : f[i] <= n <=> i < s.next
    <3> SUFFICES ASSUME NEW i \in 1 .. L PROVE f[i] <= n <=> i < s.next
      OBVIOUS
    <3>1. f[i] # n /\ f[i] \in Int
      BY <1>3, <1>8
    <3>2. f[i] <= n <=> f[i] <= n - 1
      BY <1>1, <3>1
    <3> QED
      BY <1>4, <3>2
  <2>4. f[1] \in Int
    BY <1>3, <1>5
  <2>5. CASE s.out = <<>>
    <3>1. s.next = 1
      <4> SUFFICES ASSUME s.next # 1 PROVE FALSE
        OBVIOUS
      <4>1. Len(s.out) = (n - 1) - f[1] + 1 /\ Len(s.out) = 0
        BY <1>4, <2>2, <2>5
      <4>2. f[1] <= n - 1
        BY <1>4, <1>5, <2>2
      <4> QED
        BY <1>1, <2>4, <4>1, <4>2
    <3>2. new = s
      BY <2>1, <2>5
    <3> QED
      BY <1>4, <2>3, <3>1, <3>2 DEF ListedTo, T, L, new
  <2>6. CASE s.out # <<>>
    <3>1. new.out = Append(s.out, passed) /\ new.next = s.next /\ s.next # 1
      <4>1. new = [s EXCEPT !.out = Append(@, passed)]
        BY <2>1, <2>6
      <4>2. s.next # 1
        BY <1>4, <2>6
      <4> QED
        BY <4>1, <4>2
    <3>2. /\ new.out \in Seq(T) /\ Len(new.out) = Len(s.out) + 1
          /\ \A j \in 1 .. Len(s.out) : new.out[j] = s.out[j]
          /\ new.out[Len(s.out) + 1] = passed
          /\ Len(s.out) \in Nat
      BY <1>2, <1>4, <3>1, Appended
    <3>3. Len(s.out) = n - f[1]
      <4>1. Len(s.out) = (n - 1) - f[1] + 1
        BY <1>4, <2>2, <3>1
      <4> QED
        BY <1>1, <2>4, <4>1
    <3>4. Len(new.out) = (IF new.next <= L THEN n ELSE f[L]) - f[1] + 1
      BY <2>2, <3>1, <3>2, <3>3
    <3>5. \A j \in 1 .. Len(new.out) : StationOf(new.out[j]) = pattern[f[1] + j - 1]
      <4> SUFFICES ASSUME NEW j \in 1 .. Len(new.out)
                   PROVE  StationOf(new.out[j]) = pattern[f[1] + j - 1]
        OBVIOUS
      <4>1. CASE j \in 1 .. Len(s.out)
        BY <1>4, <3>2, <4>1
      <4>2. CASE j = Len(s.out) + 1
        <5>1. f[1] + j - 1 = n
          BY <1>1, <2>4, <3>3, <4>2
        <5> QED
          BY <1>2, <3>2, <4>2, <5>1
      <4> QED
        BY <3>2, <4>1, <4>2
    <3>6. ListedTo(new, n, f, T, made, pattern)
      BY <1>4, <2>3, <3>1, <3>2, <3>4, <3>5 DEF ListedTo, L
    <3> QED
      BY <3>6 DEF new, T
  <2> QED
    BY <2>5, <2>6
<1> QED
  BY <1>1, <1>4, <1>6, <1>7, <1>8

(* The listing of a leg that follows the pattern is the pattern between the *)
(* leg's ends.                                                             *)
LEMMA ListedBetween ==
  ASSUME NEW X, NEW Y, NEW made \in Seq(X), NEW pattern \in Seq(Y), \A c \in X : ~ c.skipped,
         Len(made) >= 1, Follows(made, pattern),
         NEW listed, listed = Slotted(made, CalledAt(made), pattern)
  PROVE  [k \in DOMAIN listed |-> StationOf(listed[k])] = Between(made, pattern)
<1> DEFINE T == Entries(X, Y)
           L == Len(made)
           N == Len(pattern)
<1>1. /\ L \in Nat /\ N \in Nat /\ L >= 1 /\ 1 \in 1 .. L /\ L \in 1 .. L
      /\ DOMAIN pattern = 1 .. N /\ \A k \in 1 .. N : pattern[k] \in Y
  OBVIOUS
<1>2. PICK f : PlacesOf(f, made, pattern)
  BY FollowsByPlace
<1>3. PICK g : Slotting(g, made, CalledAt(made), pattern)
  BY <1>1, SlottedInSteps
<1>4. /\ f \in [1 .. L -> 1 .. N]
      /\ \A i \in 1 .. L : StationOf(made[i]) = pattern[f[i]]
      /\ \A i, j \in 1 .. L : i < j => f[i] < f[j]
  BY <1>2 DEF PlacesOf
<1> DEFINE Good(n) == ListedTo(g[n], n, f, T, made, pattern)
<1>5. Good(0)
  <2>1. g[0].out = <<>> /\ g[0].next = 1
    BY <1>3 DEF Slotting
  <2>2. \A i \in 1 .. L : f[i] <= 0 <=> i < 1
    BY <1>4
  <2>3. <<>> \in Seq(T) /\ Len(<<>>) = 0 /\ 1 \in 1 .. L + 1
    BY <1>1
  <2> HIDE DEF T
  <2> QED
    BY <2>1, <2>2, <2>3 DEF ListedTo
<1>6. ASSUME NEW n \in 1 .. N, Good(n - 1) PROVE Good(n)
  <2>1. g[n] = Passed(g[n - 1], made, CalledAt(made), pattern[n])
    BY <1>3 DEF Slotting
  <2> QED
    BY <1>1, <1>2, <1>6, <2>1, ListedToNext
<1>7. Good(N)
  <2> DEFINE good == {n \in 0 .. N : Good(n)}
  <2> HIDE DEF Good
  <2>1. good \in SUBSET (0 .. N) /\ 0 \in good /\ N \in 0 .. N
    BY <1>1, <1>5
  <2>2. \A n \in 1 .. N : n - 1 \in good => n \in good
    BY <1>6
  <2> HIDE DEF good
  <2>3. N \in good
    BY <1>1, <2>1, <2>2, UpTo
  <2> QED
    BY <2>3 DEF good
<1> DEFINE out == g[N].out
           next == g[N].next
<1>8. /\ out \in Seq(T) /\ next \in 1 .. L + 1
      /\ \A i \in 1 .. L : f[i] <= N <=> i < next
      /\ next # 1 => Len(out) = (IF next <= L THEN N ELSE f[L]) - f[1] + 1
      /\ \A j \in 1 .. Len(out) : StationOf(out[j]) = pattern[f[1] + j - 1]
  BY <1>7 DEF ListedTo
<1>9. listed = out \o SubSeq(made, next, L)
  BY <1>3 DEF Slotting
<1> HIDE DEF out, next, T
<1>10. next = L + 1
  BY <1>1, <1>4, <1>8
<1>11. listed = out
  <2>1. SubSeq(made, L + 1, L) = <<>>
    BY <1>1
  <2>2. out \o <<>> = out
    BY <1>8
  <2> QED
    BY <1>9, <1>10, <2>1, <2>2
<1>12. f[1] \in 1 .. N /\ f[L] \in 1 .. N /\ f[1] <= f[L]
  <2>1. f[1] \in 1 .. N /\ f[L] \in 1 .. N
    BY <1>1, <1>4
  <2>2. 1 < L => f[1] < f[L]
    BY <1>1, <1>4
  <2>3. 1 < L \/ L = 1
    <3> HIDE DEF L, N
    <3> QED
      BY <1>1
  <2> QED
    BY <2>1, <2>2, <2>3
<1>13. Between(made, pattern) = SubSeq(pattern, f[1], f[L])
  <2>1. ASSUME NEW i \in {1, L}
        PROVE  (CHOOSE k \in DOMAIN pattern : pattern[k] = StationOf(made[i])) = f[i]
    <3>1. f[i] \in DOMAIN pattern /\ pattern[f[i]] = StationOf(made[i])
      BY <1>1, <1>4
    <3>2. \A k \in DOMAIN pattern : pattern[k] = pattern[f[i]] => k = f[i]
      BY <3>1 DEF Follows, IsInjective
    <3> QED
      BY <3>1, <3>2
  <2> QED
    BY <2>1 DEF Between
<1>14. /\ DOMAIN listed = 1 .. f[L] - f[1] + 1
       /\ \A k \in 1 .. f[L] - f[1] + 1 : StationOf(listed[k]) = pattern[f[1] + k - 1]
  <2>1. Len(out) = f[L] - f[1] + 1
    BY <1>1, <1>8, <1>10
  <2>2. DOMAIN out = 1 .. Len(out)
    BY <1>8
  <2> QED
    BY <1>8, <1>11, <2>1, <2>2
<1>15. SubSeq(pattern, f[1], f[L]) = [k \in 1 .. f[L] - f[1] + 1 |-> pattern[f[1] + k - 1]]
  <2>1. \A a, b \in 1 .. Len(pattern) : a <= b =>
          SubSeq(pattern, a, b) = [k \in 1 .. b - a + 1 |-> pattern[a + k - 1]]
    OBVIOUS
  <2> QED
    BY <1>12, <2>1
<1> QED
  BY <1>13, <1>14, <1>15

(* The calls of a leg are calls, one and then another.                      *)
CallsAsOf(now) == {Call(c, now) : c \in [stop : Stops, seq : Nat, arr : Int, dep : Int]}

LEMMA MadeFacts ==
  ASSUME Given, NEW t \in DOMAIN feed.trips, NEW span \in Spans(feed, t), NEW now,
         NEW made, made = Made(t, span[1], span[2], now)
  PROVE  /\ made \in Seq(CallsAsOf(now)) /\ Len(made) >= 1
         /\ \A c \in CallsAsOf(now) : ~ c.skipped
<1> DEFINE X == CallsAsOf(now)
           calls == feed.trips[t].calls
           Calls == [stop : Stops, seq : Nat, arr : Int, dep : Int]
           m == span[1]
           n == span[2]
<1>1. calls \in Seq(Calls)
  BY GivenFacts DEF IsTimetable
<1>2. m \in DOMAIN calls /\ n \in DOMAIN calls /\ m < n
  BY DEF Spans, CallsOf
<1>3. made = [k \in 1 .. n - m + 1 |-> Call(calls[m + k - 1], now)]
  BY DEF Made
<1> HIDE DEF calls, m, n, Calls
<1>4. /\ m \in 1 .. Len(calls) /\ n \in 1 .. Len(calls) /\ Len(calls) \in Nat
      /\ \A k \in 1 .. Len(calls) : calls[k] \in Calls
  BY <1>1, <1>2
<1>5. n - m + 1 \in Nat /\ n - m + 1 >= 1
  BY <1>2, <1>4
<1>6. ASSUME NEW k \in 1 .. n - m + 1 PROVE Call(calls[m + k - 1], now) \in X
  <2>1. m + k - 1 \in 1 .. Len(calls)
    BY <1>2, <1>4
  <2> QED
    BY <1>4, <2>1 DEF Calls, CallsAsOf
<1>8. \A c \in X : ~ c.skipped
  BY DEF Call, CallsAsOf
<1> HIDE DEF X
<1>7. made \in Seq(X) /\ Len(made) = n - m + 1
  BY <1>3, <1>5, <1>6
<1> QED
  BY <1>5, <1>7, <1>8 DEF X

LEMMA PatternTyped ==
  ASSUME Given, NEW q \in DOMAIN feed.trips
  PROVE  Pattern(q) \in Seq({Root(s) : s \in Stops})
<1>1. feed.trips[q].calls \in Seq([stop : Stops, seq : Nat, arr : Int, dep : Int])
  BY GivenFacts DEF IsTimetable
<1> DEFINE calls == feed.trips[q].calls
<1>2. /\ DOMAIN calls = 1 .. Len(calls) /\ Len(calls) \in Nat
      /\ \A k \in 1 .. Len(calls) : calls[k].stop \in Stops
  <2> DEFINE Calls == [stop : Stops, seq : Nat, arr : Int, dep : Int]
  <2>1. calls \in Seq(Calls)
    BY <1>1
  <2>2. \A c \in Calls : c.stop \in Stops
    OBVIOUS
  <2> HIDE DEF calls, Calls
  <2>3. /\ DOMAIN calls = 1 .. Len(calls) /\ Len(calls) \in Nat
        /\ \A k \in 1 .. Len(calls) : calls[k] \in Calls
    BY <2>1
  <2> QED
    BY <2>2, <2>3
<1>3. Pattern(q) = [k \in 1 .. Len(calls) |-> Root(calls[k].stop)]
  BY <1>2 DEF Pattern
<1> HIDE DEF calls
<1> QED
  BY <1>2, <1>3

(***************************************************************************)
(* LegCalls tells an express from a stopping train: whatever was read of   *)
(* the fullest pattern, it lists every call of the leg, once and in order; *)
(* and a service that calls at stations of the pattern in its order is     *)
(* shown along the pattern from the one end of the leg to the other.       *)
(***************************************************************************)
THEOREM ExpressesAreLegible == Spec => []ExpressIsLegible
<1>1. SearchInv => ExpressIsLegible
  <2> SUFFICES ASSUME SearchInv, NEW t \in DOMAIN feed.trips, NEW span \in Spans(feed, t),
                      NEW made, made = Made(t, span[1], span[2], request.after)
               PROVE  /\ \A listed \in LegCalls(t, span[1], span[2], request.after) :
                           Among({c \in ToSet(listed) : IsMade(c)}, listed) = made
                      /\ \A q \in Fullest(t, span[1], span[2]) \ {t} :
                           LET listed == Slotted(made, CalledAt(made), Pattern(q)) IN
                           Follows(made, Pattern(q)) =>
                             [k \in DOMAIN listed |-> StationOf(listed[k])]
                               = Between(made, Pattern(q))
    BY DEF ExpressIsLegible
  <2> DEFINE X == CallsAsOf(request.after)
             Y == {Root(s) : s \in Stops}
  <2>1. made \in Seq(X) /\ Len(made) >= 1 /\ \A c \in X : ~ c.skipped
    BY MadeFacts DEF SearchInv
  <2>2. ASSUME NEW q \in Fullest(t, span[1], span[2])
        PROVE  q \in DOMAIN feed.trips /\ Pattern(q) \in Seq(Y)
    <3>1. q \in DOMAIN feed.trips
      <4>1. \E s \in Stretches(t, span[1], span[2]) : q = s[1]
        BY DEF Fullest
      <4> QED
        BY <4>1 DEF Stretches
    <3> QED
      BY <3>1, PatternTyped DEF SearchInv
  <2> HIDE DEF X, Y
  <2>3. ASSUME NEW listed \in Seq(Entries(X, Y)), Among(X, listed) = made
        PROVE  Among({c \in ToSet(listed) : IsMade(c)}, listed) = made
    <3>1. \A r \in ToSet(listed) : r \in Entries(X, Y)
      BY DEF ToSet
    <3>2. \A r \in Entries(X, Y) : r \in X <=> IsMade(r)
      BY <2>1 DEF Entries, IsMade
    <3>3. \A r \in ToSet(listed) : r \in {c \in ToSet(listed) : IsMade(c)} <=> r \in X
      BY <3>1, <3>2
    <3>4. Among({c \in ToSet(listed) : IsMade(c)}, listed) = Among(X, listed)
      BY <3>3, AmongSame
    <3> QED
      BY <2>3, <3>4
  <2>4. ASSUME NEW listed \in LegCalls(t, span[1], span[2], request.after)
        PROVE  listed \in Seq(Entries(X, Y)) /\ Among(X, listed) = made
    <3>1. \/ listed = made
          \/ \E q \in Fullest(t, span[1], span[2]) \ {t} :
               \E called : \E k \in 0 .. Len(Pattern(q)) :
               listed = Slotted(made, called, SubSeq(Pattern(q), 1, k))
      BY DEF LegCalls
    <3>2. CASE listed = made
      <4>1. \A k \in 1 .. Len(made) : made[k] \in X
        BY <2>1
      <4>2. made \in Seq(Entries(X, Y))
        <5>1. X \subseteq Entries(X, Y)
          BY DEF Entries
        <5> QED
          BY <2>1, <5>1
      <4> QED
        BY <2>1, <3>2, <4>1, <4>2, AmongAll
    <3>3. CASE \E q \in Fullest(t, span[1], span[2]) \ {t} :
               \E called : \E k \in 0 .. Len(Pattern(q)) :
                 listed = Slotted(made, called, SubSeq(Pattern(q), 1, k))
      <4>1. PICK q \in Fullest(t, span[1], span[2]) \ {t} :
               \E called : \E k \in 0 .. Len(Pattern(q)) :
                   listed = Slotted(made, called, SubSeq(Pattern(q), 1, k))
        BY <3>3
      <4>2. PICK called : \E k \in 0 .. Len(Pattern(q)) :
                   listed = Slotted(made, called, SubSeq(Pattern(q), 1, k))
        BY <4>1
      <4>4. PICK k \in 0 .. Len(Pattern(q)) :
                   listed = Slotted(made, called, SubSeq(Pattern(q), 1, k))
        BY <4>2
      <4>3. SubSeq(Pattern(q), 1, k) \in Seq(Y)
        <5>1. Pattern(q) \in Seq(Y)
          BY <2>2
        <5>2. \A s : s \in Seq(Y) => \A j \in 0 .. Len(s) : SubSeq(s, 1, j) \in Seq(Y)
          OBVIOUS
        <5> QED
          BY <5>1, <5>2
      <4> DEFINE read == SubSeq(Pattern(q), 1, k)
      <4>5. read \in Seq(Y) /\ listed = Slotted(made, called, read)
        BY <4>3, <4>4
      <4> HIDE DEF read
      <4>6. /\ Slotted(made, called, read) \in Seq(Entries(X, Y))
            /\ Among(X, Slotted(made, called, read)) = made
        BY <2>1, <4>5, CallsAreListed
      <4> QED
        BY <4>5, <4>6
    <3> QED
      BY <3>1, <3>2, <3>3
  <2>5. ASSUME NEW q \in Fullest(t, span[1], span[2]), Follows(made, Pattern(q)),
               NEW listed, listed = Slotted(made, CalledAt(made), Pattern(q))
        PROVE  [k \in DOMAIN listed |-> StationOf(listed[k])] = Between(made, Pattern(q))
    BY <2>1, <2>2, <2>5, ListedBetween
  <2> QED
    BY <2>3, <2>4, <2>5
<1> QED
  BY <1>1, SearchInvariant, PTL
=============================================================================
