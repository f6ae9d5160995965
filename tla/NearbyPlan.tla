------------------------------ MODULE NearbyPlan -----------------------------
(***************************************************************************)
(* Index.PlanFromNearby (nearby.go): which stop to leave from.  The stops  *)
(* near a point are grouped by mode, the nearest few of each kept          *)
(* (StopsNearByMode), a journey is planned from each of them at the same   *)
(* time, and the answer lists what was found.  Several requests share one  *)
(* Index, and with it the walking graph (WalkGraph).                       *)
(*                                                                         *)
(* A search from a stop is Plan, of which is kept what it shares with the  *)
(* others: whether it comes to ask for the graph, when its best journey    *)
(* arrives, and that it may fail.  It fails by itself only if its caller   *)
(* has gone away or the database refuses the caller's queries.  The Modes  *)
(* of a request are left out: fewer stops stand for them.                  *)
(***************************************************************************)
EXTENDS Stations, WalkGraph

CONSTANTS
  Callers,         (* The requests, and what each asks for:                *)
  Near,            (* [point, radius, perMode], zero for the default.      *)
  DefaultRadius, OverFetch,
  ModeOf,          (* The feed's mode of each stop.                        *)
  Timetables,      (* What the searches may find:                          *)
                   (* [Stops -> [asks, arrive]].                           *)
  Never,           (* The arrival of a search that finds no journey.       *)
  Unasked, Pending, Error

ASSUME NearbyAssumption ==
  /\ Readers = Callers \X Stops
  /\ Never \notin Int /\ Pending # Error
  /\ Unasked \notin Seq([mode : {"train", "tram", "bus"}, stops : Seq(Stops)])

ASSUME InputsAssumption ==
  /\ Near \in [Callers -> [point : DOMAIN Place, radius : Int, perMode : Int]]
  /\ DefaultRadius \in Nat /\ OverFetch \in Nat
  /\ Timetables \subseteq [Stops -> [asks : BOOLEAN, arrive : Int \cup {Never}]]

VARIABLES
  timetable,
  trouble,    (* The callers whose queries may fail.                       *)
  groups,     (* The stops each request plans from, by mode.               *)
  res,        (* The stops a journey was found from, as they came in.      *)
  firstErr,   (* Whether one of the searches failed.                       *)
  reply

vars == <<graphVars, timetable, trouble, groups, res, firstErr, reply>>

Init ==
  /\ GraphInit
  /\ timetable \in Timetables
  /\ trouble = {}
  /\ at = [r \in Readers |-> "idle"]
  /\ groups = [c \in Callers |-> Unasked]
  /\ res = [c \in Callers |-> <<>>]
  /\ firstErr = [c \in Callers |-> FALSE]
  /\ reply = [c \in Callers |-> Pending]

-----------------------------------------------------------------------------
(* StopsNearByMode *)

Buckets == <<"train", "tram", "bus">>

ModeBucket(m) ==
  IF m \in {"metro train", "regional train"} THEN "train"
  ELSE IF m = "metro tram" THEN "tram" ELSE "bus"

(* sort.SliceStable, by a function of the elements: one comes after as many *)
(* as go before it.                                                        *)
GoesBefore(s, key, a, b) == key[s[a]] < key[s[b]] \/ (key[s[a]] = key[s[b]] /\ a < b)

PlaceIn(s, key, k) == 1 + Cardinality({m \in DOMAIN s : GoesBefore(s, key, m, k)})

StableBy(s, key) ==
  [n \in DOMAIN s |-> s[CHOOSE k \in DOMAIN s : PlaceIn(s, key, k) = n]]

InBucket(b) == {s \in Stops : ModeBucket(ModeOf[s]) = Buckets[b]}

Filled(gs) == Among({g \in ToSet(gs) : g.stops # <<>>}, gs)

(* The nearest few of each mode; the mode of the nearest stop first.        *)
ByMode(stops, perMode, metres) ==
  LET group == [b \in DOMAIN Buckets |->
        [mode |-> Buckets[b], stops |-> First(perMode, Among(InBucket(b), stops))]]
      filled == Filled(group)
  IN  StableBy(filled, [g \in ToSet(filled) |-> metres[Head(g.stops)]])

StopsNearByMode(near) ==
  LET radius  == IF near.radius <= 0 THEN DefaultRadius ELSE near.radius
      perMode == IF near.perMode <= 0 THEN 1 ELSE near.perMode
  IN  {ByMode(stops, perMode, [s \in Located |-> Metres[<<near.point, s>>]]) :
         stops \in StopsNear(near.point, radius, OverFetch)}

(* The database does not change, and so neither does this.                  *)
NearByMode == [c \in Callers |-> StopsNearByMode(Near[c])]

Origins(gs) == UNION {ToSet(gs[g].stops) : g \in DOMAIN gs}

Candidates(c) == IF groups[c] = Unasked THEN {} ELSE Origins(groups[c])

(* A search is begun for each of the stops.                                 *)
Ask(c) ==
  /\ groups[c] = Unasked /\ reply[c] = Pending
  /\ \E gs \in NearByMode[c] :
       /\ groups' = [groups EXCEPT ![c] = gs]
       /\ at' = [r \in Readers |-> IF r[1] = c /\ r[2] \in Origins(gs) THEN "begun" ELSE at[r]]
  /\ UNCHANGED <<once, loaded, adj, err, timetable, trouble, res, firstErr, reply>>

AskFails(c) ==
  /\ groups[c] = Unasked /\ reply[c] = Pending /\ c \in trouble
  /\ reply' = [reply EXCEPT ![c] = Error]
  /\ UNCHANGED <<graphVars, timetable, trouble, groups, res, firstErr>>

(* The caller goes away, or the database stops answering its queries.       *)
Trouble(c) ==
  /\ trouble' = trouble \cup {c}
  /\ UNCHANGED <<graphVars, timetable, groups, res, firstErr, reply>>

-----------------------------------------------------------------------------
(* The searches *)

requestVars == <<timetable, trouble, groups, res, firstErr, reply>>
sharedVars  == <<once, loaded, adj, err>>

(* The search goes about its business until it knows whether to ask for the *)
(* graph, which it does for a change whose time nobody states.              *)
Search(r) ==
  /\ at[r] = "begun"
  /\ Become(r, IF timetable[r[2]].asks THEN "asking" ELSE "searching")
  /\ UNCHANGED <<sharedVars, requestVars>>

SearchEnds(r) ==
  /\ at[r] \in {"searching", "crossing"}
  /\ Become(r, "found")
  /\ UNCHANGED <<sharedVars, requestVars>>

SearchFails(r) ==
  /\ at[r] \in {"begun", "searching", "crossing"} /\ r[1] \in trouble
  /\ Become(r, "failed")
  /\ UNCHANGED <<sharedVars, requestVars>>

UseGraph(r) ==
  /\ \/ LoadGraph(r) \/ LoadRow(r) \/ LoadDone(r) \/ ReadGraph(r)
     \/ r[1] \in trouble /\ (LoadRefused(r) \/ LoadBroken(r))
  /\ UNCHANGED requestVars

(* Under the mutex: a journey is noted, or the error.                       *)
Deliver(r) ==
  LET c == r[1] IN
  /\ at[r] \in {"found", "failed"}
  /\ Become(r, "over")
  /\ res' = IF at[r] = "found" /\ timetable[r[2]].arrive # Never
              THEN [res EXCEPT ![c] = Append(@, r[2])] ELSE res
  /\ firstErr' = [firstErr EXCEPT ![c] = @ \/ at[r] = "failed"]
  /\ UNCHANGED <<sharedVars, timetable, trouble, groups, reply>>

-----------------------------------------------------------------------------
(* The answer *)

(* Mutant of FoundByMode: the stops are listed as their searches came in.   *)
FoundAsTheyCame(c) ==
  Filled([g \in DOMAIN groups[c] |->
           [mode |-> groups[c][g].mode,
            stops |-> Among(ToSet(groups[c][g].stops), res[c])]])

(* The stops from which there is a journey, the soonest first, the nearest  *)
(* of those; no mode from which there is none.                             *)
FoundByMode(c) ==
  LET found(g) == Among(ToSet(res[c]), groups[c][g].stops)
      arrive == [s \in ToSet(res[c]) |-> timetable[s].arrive]
  IN  Filled([g \in DOMAIN groups[c] |->
               [mode |-> groups[c][g].mode, stops |-> StableBy(found(g), arrive)]])

(* The soonest mode first.                                                  *)
SoonestMode(gs) == StableBy(gs, [g \in ToSet(gs) |-> timetable[Head(g.stops)].arrive])

(* Mutant of AllOver: a search is only counted once it has begun to run.    *)
AllOverSoFar(c) == \A s \in Candidates(c) : at[<<c, s>>] \in {"begun", "over"}

(* What wg.Wait waits for.                                                  *)
AllOver(c) == \A s \in Candidates(c) : at[<<c, s>>] = "over"

Reply(c) ==
  /\ groups[c] # Unasked /\ reply[c] = Pending /\ AllOver(c)
  /\ \E found \in {FoundByMode(c)} :
       reply' = [reply EXCEPT ![c] = IF firstErr[c] THEN Error ELSE SoonestMode(found)]
  /\ UNCHANGED <<graphVars, timetable, trouble, groups, res, firstErr>>

-----------------------------------------------------------------------------

Run(r) == Search(r) \/ SearchEnds(r) \/ SearchFails(r) \/ UseGraph(r) \/ Deliver(r)

Next ==
  \/ \E c \in Callers : Ask(c) \/ AskFails(c) \/ Trouble(c) \/ Reply(c)
  \/ \E r \in Readers : Run(r)

(* Go runs every goroutine that can run, and a query comes to an end.       *)
Fairness ==
  /\ \A c \in Callers : WF_vars(Ask(c) \/ AskFails(c)) /\ WF_vars(Reply(c))
  /\ \A r \in Readers : WF_vars(Run(r))

Spec == Init /\ [][Next]_vars /\ Fairness

-----------------------------------------------------------------------------

Places == {"idle", "begun", "searching", "asking", "loading", "crossing", "found",
           "failed", "over"}

TypeOK ==
  /\ timetable \in Timetables /\ trouble \subseteq Callers
  /\ at \in [Readers -> Places]
  /\ once \in {"new", "running", "done"}
  /\ loaded \in 0 .. Rows /\ adj \in 0 .. Rows /\ err \in BOOLEAN
  /\ firstErr \in [Callers -> BOOLEAN]
  /\ \A c \in Callers : ToSet(res[c]) \subseteq Candidates(c)

(* s is listed before t in a sequence of groups.                            *)
Before(gs, s, t) ==
  \E g, h \in DOMAIN gs : \E m \in DOMAIN gs[g].stops, n \in DOMAIN gs[h].stops :
    gs[g].stops[m] = s /\ gs[h].stops[n] = t /\ (g < h \/ (g = h /\ m < n))

(***************************************************************************)
(* nearby.go:126-128 and 166: whatever order the searches come to an end   *)
(* in, the answer is of all of them.  Unless one failed, every stop with a *)
(* journey is listed once, under its mode, the soonest to arrive first and *)
(* of those the one listed first as near; and so are the modes.            *)
(***************************************************************************)
AnswerIsWhole ==
  \A c \in Callers :
    (reply[c] \notin {Pending, Error}) =>
      LET gs == reply[c]
          want == {s \in Candidates(c) : timetable[s].arrive # Never}
          arrive(s) == timetable[s].arrive
          bucket(s) == ModeBucket(ModeOf[s])
          soonest(s) == Min({arrive(t) : t \in {u \in want : bucket(u) = bucket(s)}})
      IN  /\ Origins(gs) = want /\ ~ firstErr[c]
          /\ \A s \in want : ~ Before(gs, s, s)
          /\ \A s, t \in want : (s # t /\ Before(gs, s, t)) =>
               IF bucket(s) # bucket(t) THEN soonest(s) <= soonest(t)
               ELSE \/ arrive(s) < arrive(t)
                    \/ arrive(s) = arrive(t) /\ Before(groups[c], s, t)

(***************************************************************************)
(* pathways.go:42 and nearby.go:161: every request is answered in the end, *)
(* whoever was reading the graph it waited for and whatever became of it.  *)
(***************************************************************************)
RequestReturns == \A c \in Callers : <>(reply[c] # Pending)

-----------------------------------------------------------------------------
(* What the comments say, and the code does not do: neither holds.         *)

(* nearby.go:126: the searches are independent.  One whose caller goes away *)
(* while it reads the graph fails every later search that asks for it.      *)
Independent == \A c \in Callers : reply[c] = Error => c \in trouble

(* nearby.go:56: one mode cannot crowd out the others.  The search fetches  *)
(* a number of stops before it groups them.                                *)
NotCrowdedOut ==
  \A c \in Callers : groups[c] # Unasked =>
    \A s \in Stops : Metres[<<Near[c].point, s>>] <= Near[c].radius =>
      \E g \in DOMAIN groups[c] : groups[c][g].mode = ModeBucket(ModeOf[s])
=============================================================================
