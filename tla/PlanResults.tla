----------------------------- MODULE PlanResults -----------------------------
(***************************************************************************)
(* What Index.Plan (plan.go) does with the journeys its searches found:    *)
(* the same travel found twice is folded into one (dedupeJourneys), what   *)
(* leaves too late is cut off, what another journey dominates is dropped   *)
(* (FilterDominated is that loop), and the rest is ranked and limited.     *)
(***************************************************************************)
EXTENDS Dominance, Queries, Totals

CONSTANTS
  Trips,      (* Trip ids; a walk has one that stands for none.            *)
  Places,     (* Stops.                                                    *)
  Searches,   (* What the searches may have found, in the order found.     *)
  Requests    (* rank, maxWait (0 for no bound) and limit of a request;    *)
              (* instants count from the request's After.                  *)

(* Journey and Leg, and what is known of either when its search ends: there *)
(* is at least one leg, and a change between any two rides.                 *)
Alts == [trip : Trips, from : Places, to : Places]
Legs == [walk : BOOLEAN, trip : Trips, from : Places, to : Places, metres : Nat, alts : Seq(Alts)]

Rides(j) == Cardinality({l \in DOMAIN j.legs : ~j.legs[l].walk})

PlannedJourneys ==
  {j \in [legs : Seq(Legs), depart : Int, arrive : Int, transfers : Nat] :
     j.legs # <<>> /\ j.transfers = Rides(j) - 1}

Ranks == {"fastest", "fewest_transfers", "shortest", "leave_latest"}

ASSUME InputsAssumption ==
  /\ Searches \subseteq Seq(PlannedJourneys)
  /\ Requests \subseteq [rank : Ranks, maxWait : Nat, limit : Nat \ {0}]

VARIABLES
  found,      (* What the searches found.                                  *)
  request,    (* The request it was found for.                             *)
  next,       (* The journey dedupeJourneys has come to.                   *)
  journeys,   (* Plan's journeys, as they now are.                         *)
  stage       (* Which step of Plan comes next.                            *)

vars == <<found, request, next, journeys, stage>>

Init ==
  /\ found \in Searches
  /\ request \in Requests
  /\ next = 1
  /\ journeys = <<>>
  /\ stage = "dedupe"

-----------------------------------------------------------------------------
(* dedupeJourneys *)

TotalWalk(j) ==
  TotalOf([l \in DOMAIN j.legs |-> IF j.legs[l].walk THEN j.legs[l].metres ELSE 0])

(* Mutant of Key: journeys are told apart by their trip ids.                *)
KeyWithTrips(j) == <<[l \in DOMAIN j.legs |-> j.legs[l].trip], j.depart, j.arrive>>

(* The same from one end to the other, wherever it changes in between.      *)
Key(j) == <<Head(j.legs).from, j.depart, Last(j.legs).to, j.arrive, Rides(j)>>

(* Every leg of j is noted as another publication of the leg with its index.*)
WithAlts(kept, j) ==
  [kept EXCEPT !.legs =
     [l \in DOMAIN kept.legs |->
        IF l \in DOMAIN j.legs
          THEN [kept.legs[l] EXCEPT !.alts =
                  Append(@, [trip |-> j.legs[l].trip, from |-> j.legs[l].from,
                             to |-> j.legs[l].to])]
          ELSE kept.legs[l]]]

(* Mutant of Folded: the first found is kept, however far it walks.         *)
FoldedFirst(kept, j) == WithAlts(kept, j)

(* The shorter walk is kept; the other's own alternatives go with it.       *)
Folded(kept, j) == WithAlts(IF TotalWalk(j) < TotalWalk(kept) THEN j ELSE kept, j)

Seen(j) == {k \in DOMAIN journeys : Key(journeys[k]) = Key(j)}

Dedupe ==
  /\ stage = "dedupe" /\ next <= Len(found)
  /\ LET j == found[next] IN
       journeys' = IF Seen(j) = {} THEN Append(journeys, j)
                   ELSE [k \in DOMAIN journeys |->
                           IF k \in Seen(j) THEN Folded(journeys[k], j) ELSE journeys[k]]
  /\ next' = next + 1
  /\ UNCHANGED <<found, request, stage>>

-----------------------------------------------------------------------------
(* The steps of Plan after it *)

Undominated(js) == Among(Survivors(js), js)

InWait(j) == request.maxWait > 0 => j.depart <= request.maxWait

(* Mutant of InTime: what is dominated is dropped before the cutoff.        *)
InTimeUndominated(js) ==
  Among({j \in ToSet(js) : InWait(j) /\ j \in Survivors(js)}, js)

InTime(js) == Among({j \in ToSet(js) : InWait(j)}, js)

CutOff ==
  /\ stage = "dedupe" /\ next > Len(found)
  /\ journeys' = InTime(journeys)
  /\ stage' = "filter"
  /\ UNCHANGED <<found, request, next>>

Filter ==
  /\ stage = "filter"
  /\ journeys' = Undominated(journeys)
  /\ stage' = "rank"
  /\ UNCHANGED <<found, request, next>>

Duration(j) == j.arrive - j.depart

(* Mutant of Precedes: of those that arrive together, the earliest to leave.*)
PrecedesEarliest(a, b) ==
  CASE request.rank = "leave_latest" -> a.arrive < b.arrive
    [] OTHER -> a.depart < b.depart

Precedes(a, b) ==
  CASE request.rank = "fewest_transfers" ->
         a.transfers < b.transfers \/ (a.transfers = b.transfers /\ a.arrive < b.arrive)
    [] request.rank = "shortest" ->
         Duration(a) < Duration(b) \/ (Duration(a) = Duration(b) /\ a.depart < b.depart)
    [] request.rank = "leave_latest" ->
         a.arrive < b.arrive \/ (a.arrive = b.arrive /\ a.depart > b.depart)
    [] OTHER ->
         a.arrive < b.arrive \/ (a.arrive = b.arrive /\ a.transfers < b.transfers)

(* sort.SliceStable: what neither precedes stays in the order it was in, so *)
(* a journey comes after as many as go before it.                           *)
GoesBefore(js, a, b) == Precedes(js[a], js[b]) \/ (~Precedes(js[b], js[a]) /\ a < b)

Place(js, k) == 1 + Cardinality({m \in DOMAIN js : GoesBefore(js, m, k)})

Ranked(js) == [n \in DOMAIN js |-> js[CHOOSE k \in DOMAIN js : Place(js, k) = n]]

(* The journeys in order, and no more of them than the limit.               *)
RankAndLimit ==
  /\ stage = "rank"
  /\ journeys' = First(request.limit, Ranked(journeys))
  /\ stage' = "done"
  /\ UNCHANGED <<found, request, next>>

Next == Dedupe \/ CutOff \/ Filter \/ RankAndLimit

Spec == Init /\ [][Next]_vars

-----------------------------------------------------------------------------

(* Every journey is one that was found, with alternatives to its legs.      *)
PlainLegs(j) == [l \in DOMAIN j.legs |-> [j.legs[l] EXCEPT !.alts = <<>>]]

TypeOK ==
  /\ found \in Searches /\ request \in Requests
  /\ next \in 1 .. Len(found) + 1
  /\ journeys \in Seq(PlannedJourneys) /\ Len(journeys) < next
  /\ \A k \in DOMAIN journeys : \E n \in DOMAIN found :
       PlainLegs(journeys[k]) = PlainLegs(found[n])
  /\ stage \in {"dedupe", "filter", "rank", "done"}

SameTravel(a, b) ==
  /\ a.depart = b.depart /\ a.arrive = b.arrive
  /\ Head(a.legs).from = Head(b.legs).from /\ Last(a.legs).to = Last(b.legs).to
  /\ Rides(a) = Rides(b)

(***************************************************************************)
(* plan.go:206: a request for several options never answers with one train *)
(* twice, whichever trip ids it is published under and wherever the search *)
(* chose to change.                                                        *)
(***************************************************************************)
ShownOnce ==
  stage = "done" =>
    \A a, b \in DOMAIN journeys : SameTravel(journeys[a], journeys[b]) => a = b

(* plan.go:266: of one travel found several times, what is shown is the     *)
(* publication with the least walking of all that were found.               *)
LeastWalkShown ==
  stage = "done" =>
    \A k \in DOMAIN journeys : \A n \in DOMAIN found :
      SameTravel(found[n], journeys[k]) => TotalWalk(journeys[k]) <= TotalWalk(found[n])

(* The journeys found that the traveller is prepared to wait for.           *)
Catchable == {n \in DOMAIN found : InWait(found[n])}

(***************************************************************************)
(* plan.go:124 and 220: folding, the cutoff and the filter together lose   *)
(* nothing.  If the limit was not met, every journey the traveller can     *)
(* wait for has one shown that leaves no earlier, arrives no later and     *)
(* changes no more: a journey that leaves too late never suppresses one    *)
(* that can be caught.                                                     *)
(***************************************************************************)
NothingLost ==
  (stage = "done" /\ Len(journeys) < request.limit) =>
    \A n \in Catchable : \E k \in DOMAIN journeys : NotWorse(journeys[k], found[n])

(* What each rank asks of the first answer (plan.go:87-106).                *)
AnswersRank(a, b) ==
  LET soonest == a.arrive <= b.arrive IN
  CASE request.rank = "fewest_transfers" ->
         a.transfers <= b.transfers /\ (a.transfers = b.transfers => soonest)
    [] request.rank = "shortest" ->
         Duration(a) <= Duration(b)
    [] request.rank = "leave_latest" ->
         soonest /\ (a.arrive = b.arrive => a.depart >= b.depart)
    [] request.rank = "fastest" ->
         soonest /\ (a.arrive = b.arrive => a.transfers <= b.transfers)

(***************************************************************************)
(* plan.go:87-106: the first journey shown is the best, by the rank asked  *)
(* for, of all the catchable journeys that were found, although folding    *)
(* and filtering knew nothing of the rank; and there is one if any was.    *)
(***************************************************************************)
FirstIsBest ==
  (stage = "done" /\ Catchable # {}) =>
    /\ journeys # <<>>
    /\ \A n \in Catchable : AnswersRank(Head(journeys), found[n])

-----------------------------------------------------------------------------
(* What the comments of plan.go say, and the code does not do: neither     *)
(* formula holds.                                                          *)

(* plan.go:236: the survivor keeps the others as alternatives, so a trip id *)
(* of the same travel is never lost to realtime.                            *)
OthersAreKept ==
  stage = "filter" =>
    \A n \in Catchable : \E k \in DOMAIN journeys :
      /\ SameTravel(found[n], journeys[k])
      /\ \A l \in DOMAIN found[n].legs : \E m \in DOMAIN journeys[k].legs :
           \/ journeys[k].legs[m].trip = found[n].legs[l].trip
           \/ \E a \in DOMAIN journeys[k].legs[m].alts :
                journeys[k].legs[m].alts[a].trip = found[n].legs[l].trip

(* plan.go:51: the alternatives of a leg publish this same physical leg.    *)
AltsAreTheLeg ==
  \A k \in DOMAIN journeys : \A l \in DOMAIN journeys[k].legs :
    \A a \in DOMAIN journeys[k].legs[l].alts :
      LET leg == journeys[k].legs[l] IN
      leg.alts[a].from = leg.from /\ leg.alts[a].to = leg.to
=============================================================================
