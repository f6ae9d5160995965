---------------------------- MODULE MCPlanResults ----------------------------
(* PlanResults for one pair of stations: a direct train under two trip ids, *)
(* a later and slower one, and changes at two stations of the same trains,  *)
(* two of them with a walk; and a train that only a patient traveller gets. *)
EXTENDS PlanResults

CONSTANTS o, x, y, p, q, d, t1, t1b, t2, t3, t4, t5, t6, t7, t8, none

Ride(t, f, g) == [walk |-> FALSE, trip |-> t, from |-> f, to |-> g, metres |-> 0, alts |-> <<>>]
Walk(f, g, m) == [walk |-> TRUE, trip |-> none, from |-> f, to |-> g, metres |-> m, alts |-> <<>>]
Planned(dep, arr, legs, n) == [depart |-> dep, arrive |-> arr, legs |-> legs, transfers |-> n]

Train(t) == Planned(1, 6, <<Ride(t, o, d)>>, 0)
Slow     == Planned(2, 8, <<Ride(t2, o, d)>>, 0)
DirectLists == { <<>>, <<Train(t1), Train(t1b)>>, <<Train(t1), Slow>> }

Changing ==
  { Planned(1, 5, <<Ride(t3, o, x), Ride(t4, x, d)>>, 1),
    Planned(1, 5, <<Ride(t3, o, y), Ride(t4, y, d)>>, 1),
    Planned(1, 5, <<Ride(t5, o, x), Walk(x, p, 300), Ride(t6, p, d)>>, 1),
    Planned(1, 5, <<Ride(t3, o, y), Walk(y, q, 100), Ride(t7, q, d)>>, 1),
    Planned(3, 5, <<Ride(t8, o, x), Ride(t4, x, d)>>, 1) }

Lists(S, n) ==
  {s \in UNION {[1 .. m -> S] : m \in 0 .. n} : IsInjective(s)}

(* The direct journeys are found before those with a change.                *)
MCSearches == {ds \o cs : ds \in DirectLists, cs \in Lists(Changing, 3)}

MCTrips  == {t1, t1b, t2, t3, t4, t5, t6, t7, t8, none}
MCPlaces == {o, x, y, p, q, d}

MCRequests == [rank : Ranks, maxWait : {0, 2}, limit : {1, 3}]
=============================================================================
