------------------------------ MODULE Stations ------------------------------
(***************************************************************************)
(* Stops, the stations they belong to and the walks between them: the stop *)
(* table as query.go and plan.go ask it.  A train leaves from a platform,  *)
(* and its platforms name their station as their parent; a roadside stop   *)
(* has no parent and is grouped with those of its name and mode.           *)
(***************************************************************************)
EXTENDS Queries, FiniteSetsExt

CONSTANTS
  Stops,      (* The ids in the stop table.                                *)
  Orphan,     (* The parent of a stop that names none.                     *)
  Parent,     (* The parent of each stop, or Orphan.                       *)
  NameOf,     (* The name and mode of each stop.                           *)
  StationIDs, (* The ids that have the form of a station's.                *)
  Place,      (* The coordinates of the stops that have them, and of the   *)
              (* points the requests ask about.                            *)
  Metres      (* The distance between two of those.                        *)

Located == Stops \cap DOMAIN Place

(* How far two of them are apart along one axis.                            *)
Apart(a, b, axis) == Max({Place[a][axis] - Place[b][axis], Place[b][axis] - Place[a][axis]})

ASSUME StopsAssumption ==
  /\ IsFiniteSet(Stops) /\ Orphan \notin Stops
  /\ DOMAIN Parent = Stops /\ DOMAIN NameOf = Stops
  /\ StationIDs \subseteq Stops
  /\ Place \in [DOMAIN Place -> Int \X Int]
  /\ Metres \in [(DOMAIN Place) \X (DOMAIN Place) -> Nat]
  /\ \A a, b \in DOMAIN Place, axis \in 1 .. 2 : Apart(a, b, axis) <= Metres[<<a, b>>]

Root(s) == IF Parent[s] = Orphan THEN s ELSE Parent[s]

(* The stops of the same station; of one without a station, the stops of   *)
(* the same name and mode.                                                 *)
StopIDsForStation(s) ==
  LET siblings == {t \in Stops : Parent[t] = Root(s) \/ t = Root(s)}
  IN  IF Cardinality(siblings) > 1 THEN siblings
      ELSE {t \in Stops : NameOf[t] = NameOf[s]}

(* What dedupeByStation files a stop under: its station, or its name.      *)
StationKey(s) ==
  IF Parent[s] # Orphan THEN Parent[s]
  ELSE IF s \in StationIDs THEN s
  ELSE NameOf[s]

(* dedupeByStation: one stop for each key, the station's own record if it  *)
(* is there.  Otherwise it is the first in a query that states no order.   *)
Deduped(S) ==
  {T \in SUBSET S :
     /\ \A s \in S : Cardinality({t \in T : StationKey(t) = StationKey(s)}) = 1
     /\ \A s \in S : s = StationKey(s) => s \in T}

-----------------------------------------------------------------------------
(* Walks *)

(* The query's bounding box: the one around origins, grown by the radius.   *)
Boxed(origins, radius) ==
  {s \in Located : \A axis \in 1 .. 2 :
     /\ Place[s][axis] >= Min({Place[o][axis] : o \in origins}) - radius
     /\ Place[s][axis] <= Max({Place[o][axis] : o \in origins}) + radius}

Nearest(origins, s) == Min({Metres[<<o, s>>] : o \in origins})

(***************************************************************************)
(* walkableFrom: what may be found within radius of a station's stops and  *)
(* does not belong to the station.  Platforms are folded into their        *)
(* station before they are measured, so it is the station's record, where  *)
(* the box has it, that must be near.                                      *)
(***************************************************************************)
WalkableFrom(ids, radius) ==
  LET origins == ids \cap Located IN
  IF radius <= 0 \/ origins = {} THEN {{}}
  ELSE {{s \in kept : /\ s \notin ids /\ Parent[s] \notin ids
                      /\ Nearest(origins, s) <= radius} :
          kept \in Deduped(Boxed(origins, radius))}

(* walkDistance finds a walk between the two stops of a change: it leaves  *)
(* the station (walkTo is what openInterchange added to it), and both stops *)
(* have coordinates.                                                       *)
IsWalk(walkTo, p, q) ==
  /\ p # q
  /\ p \in walkTo \/ q \in walkTo
  /\ p \in Located /\ q \in Located

-----------------------------------------------------------------------------
(* StopsNear: the stations about a point, one record each, nearest first;  *)
(* those equally near come in no stated order.                             *)
StopsNear(point, radius, limit) ==
  LET about(kept) == {s \in kept : Metres[<<point, s>>] <= radius}
      away == [s \in Located |-> Metres[<<point, s>>]]
  IN  UNION {OrderByLimit(about(kept), away, limit) :
               kept \in Deduped(Boxed({point}, radius))}
=============================================================================
