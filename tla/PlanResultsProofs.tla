-------------------------- MODULE PlanResultsProofs --------------------------
(***************************************************************************)
(* What Plan does with the journeys found, for every list of journeys and  *)
(* every request: no travel is shown twice, the publication shown is the   *)
(* one with the least walking, nothing the traveller can wait for is lost, *)
(* and the first journey is the best by the rank asked for.  The filter    *)
(* that Plan uses is what the nested loop of filterDominated does.         *)
(***************************************************************************)
EXTENDS PlanResults, FilterDominated, ListFacts

-----------------------------------------------------------------------------
(* Lists picked from lists *)

(* The members of t are members of s, each from a place of its own.         *)
Picks(f, t, s) ==
  /\ f \in [DOMAIN t -> DOMAIN s]
  /\ \A a, b \in DOMAIN t : f[a] = f[b] => a = b
  /\ \A k \in DOMAIN t : t[k] = s[f[k]]

PickedFrom(t, s) == \E f : Picks(f, t, s)

(* A list has no more members than the one it is picked from.               *)
LEMMA PickedIsShorter ==
  ASSUME NEW T, NEW s \in Seq(T), NEW t \in Seq(T), PickedFrom(t, s)
  PROVE  Len(t) <= Len(s)
<1>1. PICK f : Picks(f, t, s)
  BY DEF PickedFrom
<1>2. DOMAIN s = 1 .. Len(s) /\ DOMAIN t = 1 .. Len(t) /\ Len(s) \in Nat /\ Len(t) \in Nat
  OBVIOUS
<1>3. f \in Injection(1 .. Len(t), 1 .. Len(s))
  BY <1>1, <1>2 DEF Picks, Injection, IsInjective
<1>4. /\ IsFiniteSet(1 .. Len(s)) /\ Cardinality(1 .. Len(s)) = Len(s)
      /\ Cardinality(1 .. Len(t)) = Len(t)
  <2>1. \A n \in Nat : IsFiniteSet(1 .. n) /\ Cardinality(1 .. n) = IF 1 > n THEN 0 ELSE n - 1 + 1
    BY FS_Interval
  <2> QED
    BY <1>2, <2>1
<1> QED
  BY <1>3, <1>4, FS_Injection

(* The first of a list are picked from it.                                  *)
LEMMA FirstPicks ==
  ASSUME NEW T, NEW s \in Seq(T), NEW n \in Nat
  PROVE  PickedFrom(First(n, s), s)
<1>1. /\ DOMAIN First(n, s) \subseteq DOMAIN s
      /\ \A k \in DOMAIN First(n, s) : First(n, s)[k] = s[k]
  BY FirstFacts
<1>2. Picks([k \in DOMAIN First(n, s) |-> k], First(n, s), s)
  BY <1>1 DEF Picks
<1> QED
  BY <1>2 DEF PickedFrom

(* So is what a loop keeps of it.                                           *)
LEMMA LoopPicks ==
  ASSUME NEW S, NEW T, NEW rows \in Seq(T)
  PROVE  PickedFrom(Among(S, rows), rows)
<1> DEFINE kept == Among(S, rows)
<1>1. PICK f \in [1 .. Len(kept) -> 1 .. Len(rows)] :
        /\ \A n \in 1 .. Len(kept) : kept[n] = rows[f[n]]
        /\ \A m, n \in 1 .. Len(kept) : m < n => f[m] < f[n]
  BY AmongPicks
<1>2. DOMAIN kept = 1 .. Len(kept) /\ Len(kept) \in Nat /\ DOMAIN rows = 1 .. Len(rows)
  <2>1. kept \in Seq(S \cap T)
    BY AmongKept
  <2> HIDE DEF kept
  <2> QED
    BY <2>1
<1> HIDE DEF kept
<1>3. \A m, n \in 1 .. Len(kept) : f[m] = f[n] => m = n
  <2> SUFFICES ASSUME NEW m \in 1 .. Len(kept), NEW n \in 1 .. Len(kept), f[m] = f[n]
               PROVE  m = n
    OBVIOUS
  <2>1. f[m] \in Int
    OBVIOUS
  <2>2. ~ m < n /\ ~ n < m
    BY <1>1, <2>1
  <2> QED
    BY <1>2, <2>2
<1>4. Picks(f, kept, rows)
  BY <1>1, <1>2, <1>3 DEF Picks
<1> QED
  BY <1>4 DEF PickedFrom, kept

-----------------------------------------------------------------------------
(* Dominance in a list *)

Timed(a) == a.depart \in Int /\ a.arrive \in Int /\ a.transfers \in Int

LEMMA NotWorseIsOrder ==
  ASSUME NEW a, NEW b, NEW c, Timed(a), Timed(b), Timed(c)
  PROVE  /\ NotWorse(a, a) /\ ~Dominates(a, a)
         /\ NotWorse(a, b) /\ NotWorse(b, c) => NotWorse(a, c)
         /\ Dominates(a, b) /\ NotWorse(b, c) => Dominates(a, c)
BY DEF Timed, NotWorse, Dominates

(* For every journey of a list there is one no worse that none dominates.   *)
LEMMA SomeSurvives ==
  ASSUME NEW T, \A r \in T : Timed(r), NEW js \in Seq(T), NEW x \in DOMAIN js
  PROVE  \E y \in DOMAIN js :
           /\ NotWorse(js[y], js[x])
           /\ \A n \in DOMAIN js : ~Dominates(js[n], js[y])
<1> DEFINE N == Len(js)
           Best(y, n) == NotWorse(js[y], js[x]) /\ \A m \in 1 .. n : ~Dominates(js[m], js[y])
           good == {n \in 0 .. N : \E y \in 1 .. N : Best(y, n)}
<1>1. N \in Nat /\ DOMAIN js = 1 .. N /\ \A n \in 1 .. N : Timed(js[n])
  OBVIOUS
<1> HIDE DEF N
<1>2. 0 \in good
  <2>1. Best(x, 0) /\ x \in 1 .. N
    BY <1>1, NotWorseIsOrder
  <2> HIDE DEF Best
  <2> QED
    BY <1>1, <2>1
<1>3. ASSUME NEW n \in 1 .. N, n - 1 \in good PROVE n \in good
  <2>1. PICK y \in 1 .. N : Best(y, n - 1)
    BY <1>3
  <2>2. n \in 0 .. N /\ \A m \in 1 .. n : m = n \/ m \in 1 .. n - 1
    BY <1>1
  <2>3. CASE ~Dominates(js[n], js[y])
    <3>1. Best(y, n)
      BY <2>1, <2>2, <2>3
    <3> HIDE DEF Best
    <3> QED
      BY <2>2, <3>1
  <2>4. CASE Dominates(js[n], js[y])
    <3>1. NotWorse(js[n], js[x])
      BY <1>1, <2>1, <2>4, NotWorseIsOrder DEF Dominates
    <3>2. ~Dominates(js[n], js[n])
      BY <1>1, NotWorseIsOrder
    <3>3. ASSUME NEW m \in 1 .. n - 1, Dominates(js[m], js[n]) PROVE FALSE
      <4>1. m \in 1 .. N
        BY <1>1
      <4>2. Dominates(js[m], js[y])
        BY <1>1, <2>4, <3>3, <4>1, NotWorseIsOrder DEF Dominates
      <4> QED
        BY <2>1, <4>2
    <3>4. Best(n, n)
      BY <2>2, <3>1, <3>2, <3>3
    <3> HIDE DEF Best
    <3> QED
      BY <2>2, <3>4
  <2> QED
    BY <2>3, <2>4
<1>4. N \in good
  <2>1. good \in SUBSET (0 .. N) /\ N \in 0 .. N
    BY <1>1
  <2> HIDE DEF good
  <2> QED
    BY <1>1, <1>2, <1>3, <2>1, UpTo
<1>5. PICK y \in 1 .. N : Best(y, N)
  BY <1>4
<1> QED
  BY <1>1, <1>5

-----------------------------------------------------------------------------
(* The ranking *)

(* Each rank looks first at one number and then at another.                 *)
Major(a) ==
  CASE request.rank = "fewest_transfers" -> a.transfers
    [] request.rank = "shortest" -> Duration(a)
    [] OTHER -> a.arrive
Minor(a) ==
  CASE request.rank = "fewest_transfers" -> a.arrive
    [] request.rank = "shortest" -> a.depart
    [] request.rank = "leave_latest" -> -a.depart
    [] OTHER -> a.transfers

LEMMA PrecedesByNumbers ==
  ASSUME NEW a, NEW b, Timed(a), Timed(b), request.rank \in Ranks
  PROVE  /\ Major(a) \in Int /\ Minor(a) \in Int
         /\ Precedes(a, b) <=> Major(a) < Major(b) \/ (Major(a) = Major(b) /\ Minor(a) < Minor(b))
<1>1. a.depart \in Int /\ a.arrive \in Int /\ a.transfers \in Int
  BY DEF Timed
<1>2. b.depart \in Int /\ b.arrive \in Int /\ b.transfers \in Int
  BY DEF Timed
<1>3. CASE request.rank = "fewest_transfers"
  BY <1>1, <1>2, <1>3 DEF Major, Minor, Precedes
<1>4. CASE request.rank = "shortest"
  BY <1>1, <1>2, <1>4 DEF Major, Minor, Precedes, Duration
<1>5. CASE request.rank = "leave_latest"
  BY <1>1, <1>2, <1>5 DEF Major, Minor, Precedes
<1>6. CASE request.rank = "fastest"
  BY <1>1, <1>2, <1>6 DEF Major, Minor, Precedes
<1> QED
  BY <1>3, <1>4, <1>5, <1>6 DEF Ranks

(* In a list, what goes before is a total order of the places.              *)
LEMMA GoesBeforeIsOrder ==
  ASSUME NEW T, \A r \in T : Timed(r), request.rank \in Ranks, NEW js \in Seq(T),
         NEW a \in DOMAIN js, NEW b \in DOMAIN js, NEW c \in DOMAIN js
  PROVE  /\ ~GoesBefore(js, a, a)
         /\ a # b => GoesBefore(js, a, b) \/ GoesBefore(js, b, a)
         /\ GoesBefore(js, a, b) /\ GoesBefore(js, b, c) => GoesBefore(js, a, c)
<1> DEFINE u(k) == Major(js[k])
           v(k) == Minor(js[k])
           Earlier(k, m) == u(k) < u(m) \/ (u(k) = u(m) /\ v(k) < v(m))
<1>1. \A k \in {a, b, c} : k \in Int /\ Timed(js[k])
  OBVIOUS
<1>2. \A k \in {a, b, c} : u(k) \in Int /\ v(k) \in Int
  BY <1>1, PrecedesByNumbers
<1>3. \A k, m \in {a, b, c} : Precedes(js[k], js[m]) <=> Earlier(k, m)
  BY <1>1, PrecedesByNumbers
<1> HIDE DEF u, v
<1>4. \A k, m \in {a, b, c} :
        GoesBefore(js, k, m) <=> Earlier(k, m) \/ (~Earlier(m, k) /\ k < m)
  BY <1>3 DEF GoesBefore
<1>5. /\ ~(Earlier(a, a) \/ (~Earlier(a, a) /\ a < a))
      /\ a # b => (Earlier(a, b) \/ (~Earlier(b, a) /\ a < b))
                    \/ (Earlier(b, a) \/ (~Earlier(a, b) /\ b < a))
      /\ (Earlier(a, b) \/ (~Earlier(b, a) /\ a < b))
           /\ (Earlier(b, c) \/ (~Earlier(c, b) /\ b < c))
         => Earlier(a, c) \/ (~Earlier(c, a) /\ a < c)
  BY <1>1, <1>2
<1> QED
  BY <1>4, <1>5

(* Every place is taken by one journey, and by one only.                    *)
LEMMA PlacesAreTaken ==
  ASSUME NEW T, \A r \in T : Timed(r), request.rank \in Ranks, NEW js \in Seq(T)
  PROVE  /\ \A a, b \in DOMAIN js : Place(js, a) = Place(js, b) => a = b
         /\ \A a \in DOMAIN js : Place(js, a) \in DOMAIN js
         /\ \A n \in DOMAIN js : \E a \in DOMAIN js : Place(js, a) = n
<1> DEFINE N == Len(js)
           Ahead(a) == {m \in DOMAIN js : GoesBefore(js, m, a)}
           place == [a \in 1 .. N |-> Place(js, a)]
<1>1. N \in Nat /\ DOMAIN js = 1 .. N /\ IsFiniteSet(1 .. N) /\ Cardinality(1 .. N) = N
  <2>1. N \in Nat /\ DOMAIN js = 1 .. N
    OBVIOUS
  <2>2. IsFiniteSet(1 .. N) /\ Cardinality(1 .. N) = IF 1 > N THEN 0 ELSE N - 1 + 1
    BY <2>1, FS_Interval
  <2> QED
    BY <2>1, <2>2
<1> HIDE DEF N
<1>2. \A a \in 1 .. N : /\ Ahead(a) \in SUBSET (1 .. N) /\ a \notin Ahead(a)
                        /\ IsFiniteSet(Ahead(a)) /\ Cardinality(Ahead(a)) \in Nat
                        /\ Place(js, a) = 1 + Cardinality(Ahead(a))
  <2> TAKE a \in 1 .. N
  <2>1. Ahead(a) \in SUBSET (1 .. N) /\ a \notin Ahead(a)
    BY <1>1, GoesBeforeIsOrder
  <2>2. Place(js, a) = 1 + Cardinality(Ahead(a))
    BY DEF Place
  <2> HIDE DEF Ahead
  <2>3. IsFiniteSet(Ahead(a)) /\ Cardinality(Ahead(a)) \in Nat
    BY <1>1, <2>1, FS_Subset, FS_CardinalityType
  <2> QED
    BY <2>1, <2>2, <2>3
<1>3. ASSUME NEW a \in 1 .. N, NEW b \in 1 .. N, GoesBefore(js, a, b)
      PROVE  Cardinality(Ahead(a)) < Cardinality(Ahead(b))
  <2>1. Ahead(a) \in SUBSET Ahead(b)
    BY <1>1, <1>3, GoesBeforeIsOrder
  <2>2. Ahead(a) # Ahead(b)
    BY <1>1, <1>2, <1>3
  <2> HIDE DEF Ahead
  <2>3. Cardinality(Ahead(a)) <= Cardinality(Ahead(b))
    BY <1>2, <2>1, FS_Subset
  <2>4. Cardinality(Ahead(b)) # Cardinality(Ahead(a))
    BY <1>2, <2>1, <2>2, FS_Subset
  <2> QED
    BY <1>2, <2>3, <2>4
<1> HIDE DEF Ahead
<1>4. \A a, b \in 1 .. N : Place(js, a) = Place(js, b) => a = b
  <2> SUFFICES ASSUME NEW a \in 1 .. N, NEW b \in 1 .. N, a # b
               PROVE  Place(js, a) # Place(js, b)
    OBVIOUS
  <2>1. GoesBefore(js, a, b) \/ GoesBefore(js, b, a)
    BY <1>1, GoesBeforeIsOrder
  <2>2. /\ Cardinality(Ahead(a)) \in Nat /\ Cardinality(Ahead(b)) \in Nat
        /\ Place(js, a) = 1 + Cardinality(Ahead(a))
        /\ Place(js, b) = 1 + Cardinality(Ahead(b))
    BY <1>2
  <2>3. Cardinality(Ahead(a)) # Cardinality(Ahead(b))
    BY <1>3, <2>1, <2>2
  <2> QED
    BY <2>2, <2>3
<1>5. \A a \in 1 .. N : Place(js, a) \in 1 .. N
  <2> TAKE a \in 1 .. N
  <2>1. IsFiniteSet((1 .. N) \ {a}) /\ Cardinality((1 .. N) \ {a}) = N - 1
    BY <1>1, FS_RemoveElement
  <2>2. Ahead(a) \in SUBSET ((1 .. N) \ {a})
    BY <1>2
  <2>3. Cardinality(Ahead(a)) <= N - 1
    BY <2>1, <2>2, FS_Subset
  <2>4. Cardinality(Ahead(a)) \in Nat /\ Place(js, a) = 1 + Cardinality(Ahead(a))
    BY <1>2
  <2> QED
    BY <1>1, <2>3, <2>4
<1>6. place \in Injection(1 .. N, 1 .. N)
  <2>1. place \in [1 .. N -> 1 .. N]
    BY <1>5
  <2>2. \A a, b \in 1 .. N : place[a] = place[b] => a = b
    BY <1>4
  <2> HIDE DEF place
  <2> QED
    BY <2>1, <2>2 DEF Injection, IsInjective
<1>7. place \in Surjection(1 .. N, 1 .. N)
  <2> HIDE DEF place
  <2> QED
    BY <1>1, <1>6, FS_Injection
<1>8. \A n \in 1 .. N : \E a \in 1 .. N : Place(js, a) = n
  <2>1. \A n \in 1 .. N : \E a \in 1 .. N : place[a] = n
    <3> HIDE DEF place
    <3> QED
      BY <1>7 DEF Surjection
  <2> QED
    BY <2>1
<1> QED
  BY <1>1, <1>4, <1>5, <1>8

(* The ranking is the same journeys, and none precedes the first of them.   *)
LEMMA RankedFacts ==
  ASSUME NEW T, \A r \in T : Timed(r), request.rank \in Ranks, NEW js \in Seq(T)
  PROVE  /\ Ranked(js) \in Seq(T) /\ Len(Ranked(js)) = Len(js)
         /\ PickedFrom(Ranked(js), js)
         /\ \A k \in DOMAIN js : \E n \in DOMAIN Ranked(js) : Ranked(js)[n] = js[k]
         /\ js # <<>> => \A k \in DOMAIN js : ~Precedes(js[k], Ranked(js)[1])
<1> DEFINE At(n) == CHOOSE k \in DOMAIN js : Place(js, k) = n
           ranked == Ranked(js)
<1>1. DOMAIN js = 1 .. Len(js) /\ Len(js) \in Nat /\ \A k \in DOMAIN js : js[k] \in T
  OBVIOUS
<1>2. \A n \in DOMAIN js : At(n) \in DOMAIN js /\ Place(js, At(n)) = n
  BY PlacesAreTaken
<1>3. \A k \in DOMAIN js : Place(js, k) \in DOMAIN js /\ At(Place(js, k)) = k
  BY <1>2, PlacesAreTaken
<1>4. ranked = [n \in DOMAIN js |-> js[At(n)]]
  BY DEF Ranked
<1> HIDE DEF At, ranked
<1>5. /\ DOMAIN ranked = DOMAIN js
      /\ \A n \in DOMAIN js : ranked[n] = js[At(n)] /\ ranked[n] \in T
  BY <1>1, <1>2, <1>4
<1>6. ranked \in Seq(T) /\ Len(ranked) = Len(js)
  BY <1>1, <1>5, <1>4
<1>7. PickedFrom(ranked, js)
  <2> DEFINE f == [n \in DOMAIN js |-> At(n)]
  <2>1. f \in [DOMAIN js -> DOMAIN js] /\ \A n \in DOMAIN js : f[n] = At(n)
    BY <1>2
  <2> HIDE DEF f
  <2>2. \A a, b \in DOMAIN js : f[a] = f[b] => a = b
    BY <1>2, <2>1
  <2>3. Picks(f, ranked, js)
    BY <1>5, <2>1, <2>2 DEF Picks
  <2> QED
    BY <2>3 DEF PickedFrom
<1>8. \A k \in DOMAIN js : \E n \in DOMAIN ranked : ranked[n] = js[k]
  BY <1>3, <1>5
<1>9. ASSUME js # <<>>, NEW k \in DOMAIN js PROVE ~Precedes(js[k], ranked[1])
  <2> DEFINE a == At(1)
             ahead == {m \in DOMAIN js : GoesBefore(js, m, a)}
  <2>1. 1 \in DOMAIN js
    BY <1>1, <1>9
  <2>2. a \in DOMAIN js /\ Place(js, a) = 1 /\ ranked[1] = js[a]
    BY <1>2, <1>5, <2>1
  <2> HIDE DEF a
  <2>3. IsFiniteSet(DOMAIN js) /\ ahead \in SUBSET DOMAIN js
    BY <1>1, FS_Interval
  <2>4. Place(js, a) = 1 + Cardinality(ahead)
    BY DEF Place
  <2> HIDE DEF ahead
  <2>5. IsFiniteSet(ahead) /\ Cardinality(ahead) \in Nat
    BY <2>3, FS_Subset, FS_CardinalityType
  <2>6. ahead = {}
    BY <2>2, <2>4, <2>5, FS_EmptySet
  <2>7. ~GoesBefore(js, k, a)
    BY <2>6 DEF ahead
  <2> QED
    BY <2>2, <2>7 DEF GoesBefore
<1> QED
  BY <1>6, <1>7, <1>8, <1>9 DEF ranked

-----------------------------------------------------------------------------
(* Folding *)

LEMMA TotalIsNumber ==
  ASSUME NEW metres \in Seq(Nat)
  PROVE  TotalOf(metres) \in Nat
<1>1. PICK upTo : /\ upTo[0] = 0 /\ TotalOf(metres) = upTo[Len(metres)]
                  /\ \A n \in 1 .. Len(metres) : upTo[n] = upTo[n - 1] + metres[n]
  BY TotalInSteps
<1> DEFINE N == Len(metres)
           good == {n \in 0 .. N : upTo[n] \in Nat}
<1>2. N \in Nat /\ \A n \in 1 .. N : metres[n] \in Nat
  OBVIOUS
<1> HIDE DEF N
<1>3. good \in SUBSET (0 .. N) /\ 0 \in good /\ N \in 0 .. N
  BY <1>1, <1>2
<1>4. \A n \in 1 .. N : n - 1 \in good => n \in good
  BY <1>1, <1>2 DEF N
<1>5. N \in good
  <2> HIDE DEF good
  <2> QED
    BY <1>2, <1>3, <1>4, UpTo
<1> QED
  BY <1>1, <1>5 DEF N

(* What is known of a planned journey.                                      *)
LEMMA PlannedFacts ==
  ASSUME NEW a \in PlannedJourneys
  PROVE  /\ a \in [legs : Seq(Legs), depart : Int, arrive : Int, transfers : Nat]
         /\ a.legs \in Seq(Legs) /\ a.legs # <<>> /\ Timed(a)
         /\ a.transfers = Rides(a) - 1 /\ Rides(a) \in Nat
         /\ TotalWalk(a) \in Nat
<1>1. /\ a \in [legs : Seq(Legs), depart : Int, arrive : Int, transfers : Nat]
      /\ a.legs \in Seq(Legs) /\ a.legs # <<>> /\ a.transfers = Rides(a) - 1
      /\ a.depart \in Int /\ a.arrive \in Int /\ a.transfers \in Nat
  BY DEF PlannedJourneys
<1>2. Len(a.legs) \in Nat /\ DOMAIN a.legs = 1 .. Len(a.legs)
  BY <1>1
<1>3. Rides(a) \in Nat
  <2> DEFINE rides == {l \in DOMAIN a.legs : ~a.legs[l].walk}
  <2>1. IsFiniteSet(DOMAIN a.legs) /\ rides \in SUBSET DOMAIN a.legs
    BY <1>2, FS_Interval
  <2> HIDE DEF rides
  <2>2. Cardinality(rides) \in Nat
    BY <2>1, FS_Subset, FS_CardinalityType
  <2> QED
    BY <2>2 DEF Rides, rides
<1>4. TotalWalk(a) \in Nat
  <2> DEFINE metres == [l \in DOMAIN a.legs |-> IF a.legs[l].walk THEN a.legs[l].metres ELSE 0]
  <2>1. \A l \in DOMAIN a.legs : a.legs[l].metres \in Nat
    <3>1. \A l \in DOMAIN a.legs : a.legs[l] \in Legs
      BY <1>1
    <3> QED
      BY <3>1 DEF Legs
  <2>2. metres \in Seq(Nat)
    BY <1>2, <2>1
  <2> HIDE DEF metres
  <2>3. TotalOf(metres) \in Nat
    BY <2>2, TotalIsNumber
  <2> QED
    BY <2>3 DEF TotalWalk, metres
<1> QED
  BY <1>1, <1>3, <1>4 DEF Timed

(* Alternatives change nothing else about a journey.                        *)
LEMMA WithAltsFacts ==
  ASSUME NEW a \in PlannedJourneys, NEW b \in PlannedJourneys
  PROVE  /\ WithAlts(a, b) \in PlannedJourneys /\ Key(WithAlts(a, b)) = Key(a)
         /\ TotalWalk(WithAlts(a, b)) = TotalWalk(a)
         /\ PlainLegs(WithAlts(a, b)) = PlainLegs(a)
<1> DEFINE alt(l) == [trip |-> b.legs[l].trip, from |-> b.legs[l].from, to |-> b.legs[l].to]
           noted(l) == IF l \in DOMAIN b.legs
                         THEN [a.legs[l] EXCEPT !.alts = Append(@, alt(l))]
                         ELSE a.legs[l]
           w == WithAlts(a, b)
<1>1. /\ a \in [legs : Seq(Legs), depart : Int, arrive : Int, transfers : Nat]
      /\ a.legs \in Seq(Legs) /\ a.legs # <<>> /\ a.transfers = Rides(a) - 1
      /\ Len(a.legs) \in Nat /\ DOMAIN a.legs = 1 .. Len(a.legs)
      /\ \A l \in DOMAIN a.legs : a.legs[l] \in Legs
      /\ \A l \in DOMAIN b.legs : b.legs[l] \in Legs
  <2>1. a.legs \in Seq(Legs) /\ b.legs \in Seq(Legs)
    BY PlannedFacts
  <2> QED
    BY <2>1, PlannedFacts
<1>2. w = [a EXCEPT !.legs = [l \in DOMAIN a.legs |-> noted(l)]]
  BY DEF WithAlts
<1>3. ASSUME NEW l \in DOMAIN a.legs
      PROVE  /\ noted(l) \in Legs
             /\ noted(l).walk = a.legs[l].walk /\ noted(l).metres = a.legs[l].metres
             /\ noted(l).from = a.legs[l].from /\ noted(l).to = a.legs[l].to
             /\ [noted(l) EXCEPT !.alts = <<>>] = [a.legs[l] EXCEPT !.alts = <<>>]
  <2>1. CASE l \in DOMAIN b.legs
    <3>1. alt(l) \in Alts
      BY <1>1, <2>1 DEF Legs, Alts
    <3>2. a.legs[l] \in Legs
      BY <1>1
    <3> HIDE DEF alt
    <3>3. Append(a.legs[l].alts, alt(l)) \in Seq(Alts)
      BY <3>1, <3>2 DEF Legs
    <3>4. noted(l) = [a.legs[l] EXCEPT !.alts = Append(a.legs[l].alts, alt(l))]
      BY <2>1
    <3> QED
      BY <3>2, <3>3, <3>4 DEF Legs
  <2>2. CASE l \notin DOMAIN b.legs
    BY <1>1, <2>2
  <2> QED
    BY <2>1, <2>2
<1> HIDE DEF noted
<1>4. /\ w.legs = [l \in DOMAIN a.legs |-> noted(l)]
      /\ w.depart = a.depart /\ w.arrive = a.arrive /\ w.transfers = a.transfers
  BY <1>1, <1>2
<1>5. w.legs \in Seq(Legs) /\ Len(w.legs) = Len(a.legs) /\ DOMAIN w.legs = DOMAIN a.legs
  <2>1. \A l \in DOMAIN a.legs : noted(l) \in Legs
    BY <1>3
  <2>2. [l \in DOMAIN a.legs |-> noted(l)] \in [1 .. Len(a.legs) -> Legs]
    BY <1>1, <2>1
  <2>3. w.legs \in [1 .. Len(a.legs) -> Legs]
    BY <1>4, <2>2
  <2>4. \A legs \in [1 .. Len(a.legs) -> Legs] :
          legs \in Seq(Legs) /\ Len(legs) = Len(a.legs) /\ DOMAIN legs = 1 .. Len(a.legs)
    BY <1>1
  <2> HIDE DEF w
  <2> QED
    BY <1>1, <2>3, <2>4
<1>6. w \in [legs : Seq(Legs), depart : Int, arrive : Int, transfers : Nat]
  BY <1>1, <1>2, <1>4, <1>5
<1> HIDE DEF w
<1>7. \A l \in DOMAIN a.legs : w.legs[l] = noted(l)
  BY <1>4
<1>8. Rides(w) = Rides(a)
  <2>1. {l \in DOMAIN w.legs : ~w.legs[l].walk} = {l \in DOMAIN a.legs : ~a.legs[l].walk}
    BY <1>3, <1>5, <1>7
  <2> QED
    BY <2>1 DEF Rides
<1>9. w.legs # <<>> /\ 1 \in DOMAIN a.legs /\ Len(a.legs) \in DOMAIN a.legs
  BY <1>1, <1>5
<1>10. w \in PlannedJourneys
  BY <1>1, <1>4, <1>6, <1>8, <1>9 DEF PlannedJourneys
<1>11. Key(w) = Key(a)
  <2>1. Head(w.legs) = w.legs[1] /\ Head(a.legs) = a.legs[1]
    BY <1>1, <1>5, <1>9
  <2>2. Last(w.legs) = w.legs[Len(a.legs)] /\ Last(a.legs) = a.legs[Len(a.legs)]
    BY <1>5 DEF Last
  <2>3. /\ w.legs[1].from = a.legs[1].from
        /\ w.legs[Len(a.legs)].to = a.legs[Len(a.legs)].to
    <3>1. w.legs[1] = noted(1) /\ w.legs[Len(a.legs)] = noted(Len(a.legs))
      BY <1>7, <1>9
    <3>2. noted(1).from = a.legs[1].from /\ noted(Len(a.legs)).to = a.legs[Len(a.legs)].to
      BY <1>3, <1>9
    <3> QED
      BY <3>1, <3>2
  <2> QED
    BY <1>4, <1>8, <2>1, <2>2, <2>3 DEF Key
<1>12. TotalWalk(w) = TotalWalk(a)
  <2>1. [l \in DOMAIN w.legs |-> IF w.legs[l].walk THEN w.legs[l].metres ELSE 0]
          = [l \in DOMAIN a.legs |-> IF a.legs[l].walk THEN a.legs[l].metres ELSE 0]
    BY <1>3, <1>5, <1>7
  <2> QED
    BY <2>1 DEF TotalWalk
<1>13. PlainLegs(w) = PlainLegs(a)
  BY <1>3, <1>5, <1>7 DEF PlainLegs
<1> QED
  BY <1>10, <1>11, <1>12, <1>13 DEF w

(* Folding keeps the travel, and the shorter of the two walks.              *)
LEMMA FoldedFacts ==
  ASSUME NEW a \in PlannedJourneys, NEW b \in PlannedJourneys, Key(a) = Key(b)
  PROVE  /\ Folded(a, b) \in PlannedJourneys /\ Key(Folded(a, b)) = Key(a)
         /\ TotalWalk(Folded(a, b)) <= TotalWalk(a)
         /\ TotalWalk(Folded(a, b)) <= TotalWalk(b)
         /\ PlainLegs(Folded(a, b)) \in {PlainLegs(a), PlainLegs(b)}
<1>1. TotalWalk(a) \in Nat /\ TotalWalk(b) \in Nat
  BY PlannedFacts
<1>2. CASE TotalWalk(b) < TotalWalk(a)
  <2>1. Folded(a, b) = WithAlts(b, b)
    BY <1>2 DEF Folded
  <2> QED
    BY <1>1, <1>2, <2>1, WithAltsFacts
<1>3. CASE ~ TotalWalk(b) < TotalWalk(a)
  <2>1. Folded(a, b) = WithAlts(a, b)
    BY <1>3 DEF Folded
  <2> QED
    BY <1>1, <1>3, <2>1, WithAltsFacts
<1> QED
  BY <1>2, <1>3

(* What a journey's key says of it, and what of two that share it.          *)
LEMMA KeyFacts ==
  ASSUME NEW a \in PlannedJourneys, NEW b \in PlannedJourneys
  PROVE  /\ SameTravel(a, b) <=> Key(a) = Key(b)
         /\ Key(a) = Key(b) => /\ a.depart = b.depart /\ a.arrive = b.arrive
                               /\ a.transfers = b.transfers
<1>1. SameTravel(a, b) <=> Key(a) = Key(b)
  BY DEF SameTravel, Key
<1>2. a.transfers = Rides(a) - 1 /\ b.transfers = Rides(b) - 1
  BY PlannedFacts
<1> QED
  BY <1>1, <1>2 DEF SameTravel

-----------------------------------------------------------------------------
(* The invariant *)

(* The journeys there are: each one that was found, no travel twice, and of *)
(* each the shortest walk met so far.                                       *)
Listed ==
  /\ journeys \in Seq(PlannedJourneys) /\ Len(journeys) < next
  /\ \A k \in DOMAIN journeys : \E n \in DOMAIN found :
       PlainLegs(journeys[k]) = PlainLegs(found[n])
  /\ \A a, b \in DOMAIN journeys : Key(journeys[a]) = Key(journeys[b]) => a = b
  /\ \A k \in DOMAIN journeys, n \in 1 .. next - 1 :
       Key(journeys[k]) = Key(found[n]) => TotalWalk(journeys[k]) <= TotalWalk(found[n])

(* At each step, what stands for the journeys found.                        *)
StoodFor ==
  /\ stage = "dedupe" => \A n \in 1 .. next - 1 : \E k \in DOMAIN journeys :
                           Key(journeys[k]) = Key(found[n])
  /\ stage = "filter" => \A n \in Catchable : \E k \in DOMAIN journeys :
                           Key(journeys[k]) = Key(found[n])
  /\ stage = "rank" => \A n \in Catchable : \E k \in DOMAIN journeys :
                         NotWorse(journeys[k], found[n])

ResultsInv ==
  /\ found \in Searches /\ request \in Requests
  /\ next \in 1 .. Len(found) + 1 /\ stage \in {"dedupe", "filter", "rank", "done"}
  /\ stage # "dedupe" => next = Len(found) + 1
  /\ Listed /\ StoodFor
  /\ NothingLost /\ FirstIsBest

(* What is asked, and what was found.                                       *)
LEMMA GivenFacts ==
  ASSUME ResultsInv
  PROVE  /\ found \in Seq(PlannedJourneys) /\ Len(found) \in Nat
         /\ DOMAIN found = 1 .. Len(found)
         /\ request.rank \in Ranks /\ request.maxWait \in Nat /\ request.limit \in Nat \ {0}
         /\ \A n \in DOMAIN found : found[n] \in PlannedJourneys
         /\ next \in Nat /\ \A n \in 1 .. next - 1 : n \in DOMAIN found
<1>1. found \in Seq(PlannedJourneys)
  BY InputsAssumption DEF ResultsInv
<1>2. request \in [rank : Ranks, maxWait : Nat, limit : Nat \ {0}]
  BY InputsAssumption DEF ResultsInv
<1>3. /\ Len(found) \in Nat /\ DOMAIN found = 1 .. Len(found)
      /\ \A n \in DOMAIN found : found[n] \in PlannedJourneys
  BY <1>1
<1>4. next \in Nat /\ next <= Len(found) + 1
  BY <1>3 DEF ResultsInv
<1> QED
  BY <1>1, <1>2, <1>3, <1>4

LEMMA InitResults == Init => ResultsInv
<1> SUFFICES ASSUME Init PROVE ResultsInv
  OBVIOUS
<1>1. found \in Seq(PlannedJourneys)
  BY InputsAssumption DEF Init
<1>2. Len(found) \in Nat
  BY <1>1
<1>3. Listed
  BY DEF Init, Listed
<1>4. StoodFor /\ NothingLost /\ FirstIsBest
  BY DEF Init, StoodFor, NothingLost, FirstIsBest
<1> QED
  BY <1>2, <1>3, <1>4 DEF Init, ResultsInv

(* Leaving journeys out, or putting them in another order, keeps the list.  *)
LEMMA PickedKeeps ==
  ASSUME ResultsInv, UNCHANGED <<found, request, next>>,
         journeys' \in Seq(PlannedJourneys), PickedFrom(journeys', journeys)
  PROVE  Listed'
<1>1. PICK f : Picks(f, journeys', journeys)
  BY DEF PickedFrom
<1>2. /\ \A k \in DOMAIN journeys' : f[k] \in DOMAIN journeys /\ journeys'[k] = journeys[f[k]]
      /\ \A a, b \in DOMAIN journeys' : f[a] = f[b] => a = b
  BY <1>1 DEF Picks
<1>3. journeys \in Seq(PlannedJourneys) /\ Len(journeys) < next
  BY DEF ResultsInv, Listed
<1>4. Len(journeys') <= Len(journeys)
  BY <1>3, PickedIsShorter
<1>5. Len(journeys') < next'
  <2>1. Len(journeys) \in Nat /\ Len(journeys') \in Nat /\ next \in Nat
    BY <1>3, GivenFacts
  <2>2. \A m \in Nat : m <= Len(journeys) => m < next
    BY <1>3, <2>1
  <2> QED
    BY <1>4, <2>1, <2>2
<1>6. \A k \in DOMAIN journeys' : \E n \in DOMAIN found :
        PlainLegs(journeys'[k]) = PlainLegs(found[n])
  <2> TAKE k \in DOMAIN journeys'
  <2>1. \E n \in DOMAIN found : PlainLegs(journeys[f[k]]) = PlainLegs(found[n])
    BY <1>2 DEF ResultsInv, Listed
  <2> QED
    BY <1>2, <2>1
<1>7. \A a, b \in DOMAIN journeys' : Key(journeys'[a]) = Key(journeys'[b]) => a = b
  BY <1>2 DEF ResultsInv, Listed
<1>8. \A k \in DOMAIN journeys', n \in 1 .. next - 1 :
        Key(journeys'[k]) = Key(found[n]) => TotalWalk(journeys'[k]) <= TotalWalk(found[n])
  BY <1>2 DEF ResultsInv, Listed
<1> QED
  BY <1>5, <1>6, <1>7, <1>8 DEF Listed

(* dedupeJourneys has another journey of a travel it has met.               *)
LEMMA FoldKeeps ==
  ASSUME ResultsInv, Dedupe, Seen(found[next]) # {}
  PROVE  ResultsInv'
<1> DEFINE j0 == found[next]
<1>1. /\ stage = "dedupe" /\ stage' = stage /\ next \in DOMAIN found /\ next \in Nat
      /\ found' = found /\ request' = request /\ next' = next + 1
      /\ journeys' = [k \in DOMAIN journeys |->
                        IF k \in Seen(j0) THEN Folded(journeys[k], j0) ELSE journeys[k]]
  <2>1. next \in DOMAIN found /\ next \in Nat
    BY GivenFacts DEF Dedupe, ResultsInv
  <2>2. journeys' = [k \in DOMAIN journeys |->
                       IF k \in Seen(j0) THEN Folded(journeys[k], j0) ELSE journeys[k]]
    BY DEF Dedupe
  <2> QED
    BY <2>1, <2>2 DEF Dedupe
<1>2. /\ j0 \in PlannedJourneys /\ journeys \in Seq(PlannedJourneys) /\ Len(journeys) < next
      /\ DOMAIN journeys = 1 .. Len(journeys) /\ Len(journeys) \in Nat
      /\ \A k \in DOMAIN journeys : journeys[k] \in PlannedJourneys
  BY <1>1, GivenFacts DEF ResultsInv, Listed
<1>3. \A k \in DOMAIN journeys : k \in Seen(j0) <=> Key(journeys[k]) = Key(j0)
  BY DEF Seen
<1> HIDE DEF j0
<1>4. ASSUME NEW k \in DOMAIN journeys
      PROVE  /\ journeys'[k] \in PlannedJourneys /\ Key(journeys'[k]) = Key(journeys[k])
             /\ TotalWalk(journeys'[k]) \in Nat /\ TotalWalk(journeys[k]) \in Nat
             /\ TotalWalk(journeys'[k]) <= TotalWalk(journeys[k])
             /\ Key(journeys[k]) = Key(j0) => TotalWalk(journeys'[k]) <= TotalWalk(j0)
             /\ PlainLegs(journeys'[k]) \in {PlainLegs(journeys[k]), PlainLegs(j0)}
  <2>1. CASE k \in Seen(j0)
    <3>1. journeys'[k] = Folded(journeys[k], j0) /\ Key(journeys[k]) = Key(j0)
      BY <1>1, <1>3, <2>1
    <3> DEFINE folded == Folded(journeys[k], j0)
    <3>2. /\ folded \in PlannedJourneys /\ Key(folded) = Key(journeys[k])
          /\ TotalWalk(folded) <= TotalWalk(journeys[k])
          /\ TotalWalk(folded) <= TotalWalk(j0)
          /\ PlainLegs(folded) \in {PlainLegs(journeys[k]), PlainLegs(j0)}
      BY <1>2, <3>1, FoldedFacts
    <3> HIDE DEF folded
    <3>3. TotalWalk(folded) \in Nat /\ TotalWalk(journeys[k]) \in Nat
      BY <1>2, <3>2, PlannedFacts
    <3>4. journeys'[k] = folded
      BY <3>1 DEF folded
    <3> QED
      BY <3>2, <3>3, <3>4
  <2>2. CASE k \notin Seen(j0)
    <3>1. journeys'[k] = journeys[k] /\ Key(journeys[k]) # Key(j0)
      BY <1>1, <1>3, <2>2
    <3>2. TotalWalk(journeys[k]) \in Nat
      BY <1>2, PlannedFacts
    <3> QED
      BY <1>2, <3>1, <3>2
  <2> QED
    BY <2>1, <2>2
<1>5. /\ journeys' \in Seq(PlannedJourneys) /\ DOMAIN journeys' = DOMAIN journeys
      /\ Len(journeys') = Len(journeys)
  <2>1. journeys' \in [1 .. Len(journeys) -> PlannedJourneys]
    <3>1. journeys' = [k \in 1 .. Len(journeys) |-> journeys'[k]]
      BY <1>1, <1>2
    <3> QED
      BY <1>2, <1>4, <3>1
  <2> QED
    BY <1>2, <2>1
<1>6. \A k \in DOMAIN journeys' : \E n \in DOMAIN found :
        PlainLegs(journeys'[k]) = PlainLegs(found[n])
  <2> TAKE k \in DOMAIN journeys'
  <2>1. PICK n \in DOMAIN found : PlainLegs(journeys[k]) = PlainLegs(found[n])
    BY <1>5 DEF ResultsInv, Listed
  <2>2. PlainLegs(journeys'[k]) = PlainLegs(found[n]) \/ PlainLegs(journeys'[k]) = PlainLegs(found[next])
    BY <1>4, <1>5, <2>1 DEF j0
  <2> QED
    BY <1>1, <2>2
<1>7. \A a, b \in DOMAIN journeys' : Key(journeys'[a]) = Key(journeys'[b]) => a = b
  BY <1>4, <1>5 DEF ResultsInv, Listed
<1>8. \A n \in 1 .. next' - 1 : n = next \/ n \in 1 .. next - 1
  BY <1>1
<1>9. \A k \in DOMAIN journeys', n \in 1 .. next' - 1 :
        Key(journeys'[k]) = Key(found[n]) => TotalWalk(journeys'[k]) <= TotalWalk(found[n])
  <2> SUFFICES ASSUME NEW k \in DOMAIN journeys, NEW n \in 1 .. next' - 1,
                      Key(journeys'[k]) = Key(found[n])
               PROVE  TotalWalk(journeys'[k]) <= TotalWalk(found[n])
    BY <1>5
  <2>1. CASE n = next
    BY <1>4, <2>1 DEF j0
  <2>2. CASE n \in 1 .. next - 1
    <3>1. TotalWalk(journeys[k]) <= TotalWalk(found[n])
      BY <1>4, <2>2 DEF ResultsInv, Listed
    <3>2. TotalWalk(found[n]) \in Nat
      BY <2>2, GivenFacts, PlannedFacts
    <3> QED
      BY <1>4, <3>1, <3>2
  <2> QED
    BY <1>8, <2>1, <2>2
<1>10. Listed'
  BY <1>1, <1>2, <1>5, <1>6, <1>7, <1>9 DEF Listed
<1>11. \A n \in 1 .. next' - 1 : \E k \in DOMAIN journeys' : Key(journeys'[k]) = Key(found[n])
  <2> TAKE n \in 1 .. next' - 1
  <2>1. CASE n = next
    <3>1. PICK k \in DOMAIN journeys : Key(journeys[k]) = Key(j0)
      BY DEF Seen, j0
    <3> QED
      BY <1>4, <1>5, <2>1, <3>1 DEF j0
  <2>2. CASE n \in 1 .. next - 1
    <3>1. PICK k \in DOMAIN journeys : Key(journeys[k]) = Key(found[n])
      BY <1>1, <2>2 DEF ResultsInv, StoodFor
    <3> QED
      BY <1>4, <1>5, <3>1
  <2> QED
    BY <1>8, <2>1, <2>2
<1>12. StoodFor' /\ NothingLost' /\ FirstIsBest'
  BY <1>1, <1>11 DEF StoodFor, NothingLost, FirstIsBest
<1>13. next' \in 1 .. Len(found) + 1
  BY <1>1, GivenFacts
<1> QED
  BY <1>1, <1>10, <1>12, <1>13 DEF ResultsInv

(* dedupeJourneys meets a travel it has not met.                            *)
LEMMA AddKeeps ==
  ASSUME ResultsInv, Dedupe, Seen(found[next]) = {}
  PROVE  ResultsInv'
<1> DEFINE j0 == found[next]
           L == Len(journeys)
<1>1. /\ stage = "dedupe" /\ stage' = stage /\ next \in DOMAIN found /\ next \in Nat
      /\ found' = found /\ request' = request /\ next' = next + 1
      /\ journeys' = Append(journeys, j0)
  <2>1. next \in DOMAIN found /\ next \in Nat
    BY GivenFacts DEF Dedupe, ResultsInv
  <2>2. journeys' = Append(journeys, j0)
    BY DEF Dedupe
  <2> QED
    BY <2>1, <2>2 DEF Dedupe
<1>2. /\ j0 \in PlannedJourneys /\ journeys \in Seq(PlannedJourneys) /\ L < next
      /\ DOMAIN journeys = 1 .. L /\ L \in Nat
  BY <1>1, GivenFacts DEF ResultsInv, Listed
<1>3. \A k \in DOMAIN journeys : Key(journeys[k]) # Key(j0)
  BY DEF Seen
<1> HIDE DEF j0
<1>4. /\ journeys' \in Seq(PlannedJourneys) /\ Len(journeys') = L + 1
      /\ DOMAIN journeys' = 1 .. L + 1 /\ journeys'[L + 1] = j0
      /\ \A k \in 1 .. L : journeys'[k] = journeys[k]
  BY <1>1, <1>2
<1> HIDE DEF L
<1>5. \A k \in 1 .. L + 1 : k = L + 1 \/ k \in 1 .. L
  BY <1>2
<1>6. \A k \in DOMAIN journeys' : \E n \in DOMAIN found :
        PlainLegs(journeys'[k]) = PlainLegs(found[n])
  <2> SUFFICES ASSUME NEW k \in 1 .. L + 1
               PROVE  \E n \in DOMAIN found : PlainLegs(journeys'[k]) = PlainLegs(found[n])
    BY <1>4
  <2>1. CASE k = L + 1
    BY <1>1, <1>4, <2>1 DEF j0
  <2>2. CASE k \in 1 .. L
    BY <1>2, <1>4, <2>2 DEF ResultsInv, Listed
  <2> QED
    BY <1>5, <2>1, <2>2
<1>7. \A a, b \in DOMAIN journeys' : Key(journeys'[a]) = Key(journeys'[b]) => a = b
  <2> SUFFICES ASSUME NEW a \in 1 .. L + 1, NEW b \in 1 .. L + 1,
                      Key(journeys'[a]) = Key(journeys'[b])
               PROVE  a = b
    BY <1>4
  <2>1. CASE a \in 1 .. L /\ b \in 1 .. L
    BY <1>2, <1>4, <2>1 DEF ResultsInv, Listed
  <2>2. CASE a = L + 1 /\ b \in 1 .. L
    BY <1>2, <1>3, <1>4, <2>2
  <2>3. CASE a \in 1 .. L /\ b = L + 1
    BY <1>2, <1>3, <1>4, <2>3
  <2> QED
    BY <1>5, <2>1, <2>2, <2>3
<1>8. \A n \in 1 .. next' - 1 : n = next \/ n \in 1 .. next - 1
  BY <1>1
<1>9. \A n \in 1 .. next - 1 : \E k \in 1 .. L : Key(journeys[k]) = Key(found[n])
  BY <1>1, <1>2 DEF ResultsInv, StoodFor
<1>10. \A k \in DOMAIN journeys', n \in 1 .. next' - 1 :
         Key(journeys'[k]) = Key(found[n]) => TotalWalk(journeys'[k]) <= TotalWalk(found[n])
  <2> SUFFICES ASSUME NEW k \in 1 .. L + 1, NEW n \in 1 .. next' - 1,
                      Key(journeys'[k]) = Key(found[n])
               PROVE  TotalWalk(journeys'[k]) <= TotalWalk(found[n])
    BY <1>4
  <2>1. CASE k \in 1 .. L /\ n \in 1 .. next - 1
    <3>1. Key(journeys[k]) = Key(found[n]) /\ k \in DOMAIN journeys
      BY <1>2, <1>4, <2>1
    <3>2. TotalWalk(journeys[k]) <= TotalWalk(found[n])
      BY <2>1, <3>1 DEF ResultsInv, Listed
    <3> QED
      BY <1>4, <2>1, <3>2
  <2>2. CASE k \in 1 .. L /\ n = next
    BY <1>2, <1>3, <1>4, <2>2 DEF j0
  <2>3. CASE k = L + 1 /\ n \in 1 .. next - 1
    BY <1>2, <1>3, <1>4, <1>9, <2>3
  <2>4. CASE k = L + 1 /\ n = next
    <3>1. TotalWalk(j0) \in Nat
      BY <1>2, PlannedFacts
    <3> QED
      BY <1>4, <2>4, <3>1 DEF j0
  <2> QED
    BY <1>5, <1>8, <2>1, <2>2, <2>3, <2>4
<1>11. Listed'
  BY <1>1, <1>2, <1>4, <1>6, <1>7, <1>10 DEF Listed
<1>12. \A n \in 1 .. next' - 1 : \E k \in DOMAIN journeys' : Key(journeys'[k]) = Key(found[n])
  <2> TAKE n \in 1 .. next' - 1
  <2>1. CASE n = next
    <3>1. L + 1 \in DOMAIN journeys' /\ journeys'[L + 1] = found[n]
      BY <1>2, <1>4, <2>1 DEF j0
    <3> QED
      BY <3>1
  <2>2. CASE n \in 1 .. next - 1
    <3>1. PICK k \in 1 .. L : Key(journeys[k]) = Key(found[n])
      BY <1>9, <2>2
    <3>2. k \in DOMAIN journeys' /\ journeys'[k] = journeys[k]
      BY <1>2, <1>4
    <3> QED
      BY <3>1, <3>2
  <2> QED
    BY <1>8, <2>1, <2>2
<1>13. StoodFor' /\ NothingLost' /\ FirstIsBest'
  BY <1>1, <1>12 DEF StoodFor, NothingLost, FirstIsBest
<1>14. next' \in 1 .. Len(found) + 1
  BY <1>1, GivenFacts
<1> QED
  BY <1>1, <1>11, <1>13, <1>14 DEF ResultsInv

(* The cutoff takes nothing that the traveller can wait for.                *)
LEMMA CutOffKeeps ==
  ASSUME ResultsInv, CutOff
  PROVE  ResultsInv'
<1> DEFINE Timely == {a \in ToSet(journeys) : InWait(a)}
<1>1. /\ stage = "dedupe" /\ stage' = "filter" /\ next = Len(found) + 1
      /\ found' = found /\ request' = request /\ next' = next
      /\ journeys' = Among(Timely, journeys)
  <2>1. next = Len(found) + 1
    BY GivenFacts DEF CutOff, ResultsInv
  <2> QED
    BY <2>1 DEF CutOff, InTime
<1>2. /\ journeys \in Seq(PlannedJourneys)
      /\ \A k \in DOMAIN journeys : journeys[k] \in PlannedJourneys /\ journeys[k] \in ToSet(journeys)
  BY DEF ResultsInv, Listed, ToSet
<1>3. Among(Timely, journeys) \in Seq(Timely \cap PlannedJourneys)
  BY <1>2, AmongKept
<1>4. \A a \in ToSet(journeys) \cap Timely : a \in ToSet(Among(Timely, journeys))
  BY <1>2, AmongKept
<1>5. PickedFrom(Among(Timely, journeys), journeys)
  BY <1>2, LoopPicks
<1>6. journeys' \in Seq(PlannedJourneys)
  <2>1. Timely \cap PlannedJourneys \subseteq PlannedJourneys
    OBVIOUS
  <2> HIDE DEF Timely
  <2> QED
    BY <1>1, <1>3, <2>1
<1>7. Listed'
  BY <1>1, <1>5, <1>6, PickedKeeps
<1>8. \A n \in Catchable : \E k \in DOMAIN journeys' : Key(journeys'[k]) = Key(found[n])
  <2> TAKE n \in Catchable
  <2>1. n \in 1 .. next - 1 /\ found[n] \in PlannedJourneys /\ InWait(found[n])
    BY <1>1, GivenFacts DEF Catchable
  <2>2. PICK k \in DOMAIN journeys : Key(journeys[k]) = Key(found[n])
    BY <1>1, <2>1 DEF ResultsInv, StoodFor
  <2>3. journeys[k] \in Timely
    BY <1>2, <2>1, <2>2, KeyFacts DEF InWait
  <2>4. journeys[k] \in ToSet(journeys')
    BY <1>1, <1>2, <1>4, <2>3
  <2> QED
    BY <2>2, <2>4 DEF ToSet
<1>9. StoodFor'
  BY <1>1, <1>8 DEF StoodFor, Catchable, InWait
<1>10. NothingLost' /\ FirstIsBest'
  BY <1>1 DEF NothingLost, FirstIsBest
<1> QED
  BY <1>1, <1>7, <1>9, <1>10 DEF ResultsInv

(* The filter leaves of every journey it drops one that is no worse.        *)
LEMMA FilterKeeps ==
  ASSUME ResultsInv, Filter
  PROVE  ResultsInv'
<1> DEFINE Left == Survivors(journeys)
<1>1. /\ stage = "filter" /\ stage' = "rank" /\ next = Len(found) + 1
      /\ found' = found /\ request' = request /\ next' = next
      /\ journeys' = Among(Left, journeys)
  BY DEF Filter, Undominated, ResultsInv
<1>2. /\ journeys \in Seq(PlannedJourneys)
      /\ \A k \in DOMAIN journeys : journeys[k] \in PlannedJourneys /\ journeys[k] \in ToSet(journeys)
  BY DEF ResultsInv, Listed, ToSet
<1>3. Among(Left, journeys) \in Seq(Left \cap PlannedJourneys)
  BY <1>2, AmongKept
<1>4. \A a \in ToSet(journeys) \cap Left : a \in ToSet(Among(Left, journeys))
  BY <1>2, AmongKept
<1>5. PickedFrom(Among(Left, journeys), journeys)
  BY <1>2, LoopPicks
<1>6. journeys' \in Seq(PlannedJourneys)
  <2>1. Left \cap PlannedJourneys \subseteq PlannedJourneys
    OBVIOUS
  <2> HIDE DEF Left
  <2> QED
    BY <1>1, <1>3, <2>1
<1>7. Listed'
  BY <1>1, <1>5, <1>6, PickedKeeps
<1>8. \A n \in Catchable : \E k \in DOMAIN journeys' : NotWorse(journeys'[k], found[n])
  <2> TAKE n \in Catchable
  <2>1. found[n] \in PlannedJourneys
    BY GivenFacts DEF Catchable
  <2>2. PICK x \in DOMAIN journeys : Key(journeys[x]) = Key(found[n])
    BY <1>1 DEF ResultsInv, StoodFor
  <2>3. \A r \in PlannedJourneys : Timed(r)
    BY PlannedFacts
  <2>4. PICK y \in DOMAIN journeys :
          /\ NotWorse(journeys[y], journeys[x])
          /\ \A m \in DOMAIN journeys : ~Dominates(journeys[m], journeys[y])
    BY <1>2, <2>3, SomeSurvives
  <2>5. journeys[y] \in Left
    BY <2>4 DEF Survivors
  <2>6. journeys[y] \in ToSet(journeys')
    BY <1>1, <1>2, <1>4, <2>5
  <2>7. NotWorse(journeys[y], found[n])
    <3>1. /\ journeys[x].depart = found[n].depart /\ journeys[x].arrive = found[n].arrive
          /\ journeys[x].transfers = found[n].transfers
      BY <1>2, <2>1, <2>2, KeyFacts
    <3> QED
      BY <2>4, <3>1 DEF NotWorse
  <2> QED
    BY <2>6, <2>7 DEF ToSet
<1>9. StoodFor'
  BY <1>1, <1>8 DEF StoodFor, Catchable, InWait
<1>10. NothingLost' /\ FirstIsBest'
  BY <1>1 DEF NothingLost, FirstIsBest
<1> QED
  BY <1>1, <1>7, <1>9, <1>10 DEF ResultsInv

LEMMA PickedOfPicked ==
  ASSUME NEW r, NEW s, NEW t, PickedFrom(t, s), PickedFrom(s, r)
  PROVE  PickedFrom(t, r)
<1>1. PICK f : Picks(f, t, s)
  BY DEF PickedFrom
<1>2. PICK g : Picks(g, s, r)
  BY DEF PickedFrom
<1> DEFINE h == [k \in DOMAIN t |-> g[f[k]]]
<1>3. /\ \A k \in DOMAIN t : f[k] \in DOMAIN s /\ t[k] = s[f[k]]
      /\ \A a, b \in DOMAIN t : f[a] = f[b] => a = b
  BY <1>1 DEF Picks
<1>4. /\ \A k \in DOMAIN s : g[k] \in DOMAIN r /\ s[k] = r[g[k]]
      /\ \A a, b \in DOMAIN s : g[a] = g[b] => a = b
  BY <1>2 DEF Picks
<1>5. h \in [DOMAIN t -> DOMAIN r] /\ \A k \in DOMAIN t : h[k] = g[f[k]] /\ t[k] = r[h[k]]
  BY <1>3, <1>4
<1> HIDE DEF h
<1>6. \A a, b \in DOMAIN t : h[a] = h[b] => a = b
  BY <1>3, <1>4, <1>5
<1>7. Picks(h, t, r)
  BY <1>5, <1>6 DEF Picks
<1> QED
  BY <1>7 DEF PickedFrom

(* What no journey precedes is no worse, by the rank, than what a journey   *)
(* it is measured against stands for.                                       *)
LEMMA BestAnswersRank ==
  ASSUME NEW best, NEW a, NEW b, Timed(best), Timed(a), Timed(b),
         request.rank \in Ranks, ~Precedes(a, best), NotWorse(a, b)
  PROVE  AnswersRank(best, b)
<1>1. best.depart \in Int /\ best.arrive \in Int /\ best.transfers \in Int
  BY DEF Timed
<1>2. a.depart \in Int /\ a.arrive \in Int /\ a.transfers \in Int
  BY DEF Timed
<1>3. b.depart \in Int /\ b.arrive \in Int /\ b.transfers \in Int
  BY DEF Timed
<1>4. a.depart >= b.depart /\ a.arrive <= b.arrive /\ a.transfers <= b.transfers
  BY DEF NotWorse
<1>5. CASE request.rank = "fewest_transfers"
  <2>1. ~(a.transfers < best.transfers
            \/ (a.transfers = best.transfers /\ a.arrive < best.arrive))
    BY <1>5 DEF Precedes
  <2>2. /\ best.transfers <= b.transfers
        /\ best.transfers = b.transfers => best.arrive <= b.arrive
    BY <1>1, <1>2, <1>3, <1>4, <2>1
  <2> QED
    BY <1>5, <2>2 DEF AnswersRank
<1>6. CASE request.rank = "shortest"
  <2>1. ~(a.arrive - a.depart < best.arrive - best.depart)
    BY <1>6 DEF Precedes, Duration
  <2>2. best.arrive - best.depart <= b.arrive - b.depart
    BY <1>1, <1>2, <1>3, <1>4, <2>1
  <2> QED
    BY <1>6, <2>2 DEF AnswersRank, Duration
<1>7. CASE request.rank = "leave_latest"
  <2>1. ~(a.arrive < best.arrive \/ (a.arrive = best.arrive /\ a.depart > best.depart))
    BY <1>7 DEF Precedes
  <2>2. /\ best.arrive <= b.arrive
        /\ best.arrive = b.arrive => best.depart >= b.depart
    BY <1>1, <1>2, <1>3, <1>4, <2>1
  <2> QED
    BY <1>7, <2>2 DEF AnswersRank
<1>8. CASE request.rank = "fastest"
  <2>1. ~(a.arrive < best.arrive \/ (a.arrive = best.arrive /\ a.transfers < best.transfers))
    BY <1>8 DEF Precedes
  <2>2. /\ best.arrive <= b.arrive
        /\ best.arrive = b.arrive => best.transfers <= b.transfers
    BY <1>1, <1>2, <1>3, <1>4, <2>1
  <2> QED
    BY <1>8, <2>2 DEF AnswersRank
<1> QED
  BY <1>5, <1>6, <1>7, <1>8 DEF Ranks

(* Ranking leaves nothing out, and a limit that is not met neither.         *)
LEMMA RankKeeps ==
  ASSUME ResultsInv, RankAndLimit
  PROVE  ResultsInv'
<1> DEFINE ranked == Ranked(journeys)
           limit == request.limit
<1>1. /\ stage = "rank" /\ stage' = "done" /\ next = Len(found) + 1
      /\ found' = found /\ request' = request /\ next' = next
      /\ journeys' = First(limit, ranked)
  BY DEF RankAndLimit, ResultsInv
<1>2. journeys \in Seq(PlannedJourneys) /\ DOMAIN journeys = 1 .. Len(journeys)
  BY DEF ResultsInv, Listed
<1>3. limit \in Nat /\ limit # 0 /\ request.rank \in Ranks
  BY GivenFacts
<1>4. \A r \in PlannedJourneys : Timed(r)
  BY PlannedFacts
<1>5. /\ ranked \in Seq(PlannedJourneys) /\ Len(ranked) = Len(journeys)
      /\ PickedFrom(ranked, journeys)
      /\ \A k \in DOMAIN journeys : \E n \in DOMAIN ranked : ranked[n] = journeys[k]
      /\ journeys # <<>> => \A k \in DOMAIN journeys : ~Precedes(journeys[k], ranked[1])
  BY <1>2, <1>3, <1>4, RankedFacts
<1> HIDE DEF ranked, limit
<1>6. /\ journeys' \in Seq(PlannedJourneys)
      /\ Len(journeys') = IF limit < Len(ranked) THEN limit ELSE Len(ranked)
      /\ \A k \in DOMAIN journeys' : journeys'[k] = ranked[k]
      /\ \A k \in DOMAIN ranked : k \in DOMAIN journeys' \/ Len(journeys') = limit
  BY <1>1, <1>3, <1>5, FirstFacts
<1>7. Listed'
  <2>1. PickedFrom(journeys', ranked)
    BY <1>1, <1>3, <1>5, FirstPicks
  <2>2. PickedFrom(journeys', journeys)
    BY <1>5, <2>1, PickedOfPicked
  <2> QED
    BY <1>1, <1>6, <2>2, PickedKeeps
<1>8. \A n \in Catchable : \E k \in DOMAIN journeys : NotWorse(journeys[k], found[n])
  BY <1>1 DEF ResultsInv, StoodFor
<1>9. Catchable' = Catchable
  BY <1>1 DEF Catchable, InWait
<1>10. NothingLost'
  <2> SUFFICES ASSUME Len(journeys') # limit, NEW n \in Catchable
               PROVE  \E k \in DOMAIN journeys' : NotWorse(journeys'[k], found[n])
    BY <1>1, <1>9 DEF NothingLost, limit
  <2>1. PICK k \in DOMAIN journeys : NotWorse(journeys[k], found[n])
    BY <1>8
  <2>2. PICK m \in DOMAIN ranked : ranked[m] = journeys[k]
    BY <1>5
  <2>3. m \in DOMAIN journeys' /\ journeys'[m] = journeys[k]
    BY <1>6, <2>2
  <2> QED
    BY <2>1, <2>3
<1>11. ASSUME NEW n \in Catchable
       PROVE  journeys' # <<>> /\ AnswersRank(Head(journeys), found[n])'
  <2>1. PICK k \in DOMAIN journeys : NotWorse(journeys[k], found[n])
    BY <1>8
  <2>2. Len(journeys) \in Nat /\ Len(journeys) > 0 /\ journeys # <<>>
    BY <1>2
  <2>3. Len(journeys') \in Nat /\ Len(journeys') > 0 /\ DOMAIN journeys' = 1 .. Len(journeys')
    BY <1>3, <1>5, <1>6, <2>2
  <2>4. 1 \in DOMAIN journeys' /\ journeys' # <<>> /\ Head(journeys') = journeys'[1]
    BY <1>6, <2>3
  <2>5. Head(journeys') = ranked[1] /\ Head(journeys') \in PlannedJourneys
    BY <1>6, <2>4
  <2>6. ~Precedes(journeys[k], Head(journeys'))
    BY <1>5, <2>2, <2>5
  <2>7. found[n] \in PlannedJourneys /\ journeys[k] \in PlannedJourneys
    BY <1>2, GivenFacts DEF Catchable
  <2>8. AnswersRank(Head(journeys'), found[n])
    BY <1>3, <1>4, <2>1, <2>5, <2>6, <2>7, BestAnswersRank
  <2> QED
    BY <1>1, <2>4, <2>8 DEF AnswersRank
<1>12. FirstIsBest'
  BY <1>1, <1>9, <1>11 DEF FirstIsBest, AnswersRank
<1>13. StoodFor'
  BY <1>1 DEF StoodFor
<1> QED
  BY <1>1, <1>7, <1>10, <1>12, <1>13 DEF ResultsInv

LEMMA ResultsStep == ResultsInv /\ [Next]_vars => ResultsInv'
<1> SUFFICES ASSUME ResultsInv, [Next]_vars PROVE ResultsInv'
  OBVIOUS
<1>1. CASE Dedupe
  BY <1>1, FoldKeeps, AddKeeps
<1>2. CASE CutOff
  BY <1>2, CutOffKeeps
<1>3. CASE Filter
  BY <1>3, FilterKeeps
<1>4. CASE RankAndLimit
  BY <1>4, RankKeeps
<1>5. CASE UNCHANGED vars
  <2>1. /\ found' = found /\ request' = request /\ next' = next
        /\ journeys' = journeys /\ stage' = stage
    BY <1>5 DEF vars
  <2>2. Listed'
    BY <2>1 DEF ResultsInv, Listed
  <2>3. StoodFor'
    BY <2>1 DEF ResultsInv, StoodFor, Catchable, InWait
  <2>4. NothingLost'
    BY <2>1 DEF ResultsInv, NothingLost, Catchable, InWait
  <2>5. FirstIsBest'
    BY <2>1 DEF ResultsInv, FirstIsBest, Catchable, InWait, AnswersRank
  <2> QED
    BY <2>1, <2>2, <2>3, <2>4, <2>5 DEF ResultsInv
<1> QED
  BY <1>1, <1>2, <1>3, <1>4, <1>5 DEF Next

LEMMA ResultsHold == Spec => []ResultsInv
BY InitResults, ResultsStep, PTL DEF Spec

-----------------------------------------------------------------------------
(* The results *)

(* Whatever the searches found, Plan stays within it.                       *)
THEOREM TypesHold == Spec => []TypeOK
<1>1. ResultsInv => TypeOK
  BY DEF ResultsInv, Listed, TypeOK
<1> QED
  BY ResultsHold, <1>1, PTL

(* plan.go:206, for any journeys found and any request: no two journeys     *)
(* shown are the same travel.                                               *)
THEOREM ShownOnceHolds == Spec => []ShownOnce
<1>1. ResultsInv => ShownOnce
  <2> SUFFICES ASSUME ResultsInv, NEW a \in DOMAIN journeys, NEW b \in DOMAIN journeys,
                      SameTravel(journeys[a], journeys[b])
               PROVE  a = b
    BY DEF ShownOnce
  <2>1. journeys[a] \in PlannedJourneys /\ journeys[b] \in PlannedJourneys
    BY DEF ResultsInv, Listed
  <2>2. Key(journeys[a]) = Key(journeys[b])
    BY <2>1, KeyFacts
  <2> QED
    BY <2>2 DEF ResultsInv, Listed
<1> QED
  BY ResultsHold, <1>1, PTL

(* plan.go:266: however many publications of a travel are found, what is    *)
(* shown walks no further than any of them.                                 *)
THEOREM LeastWalkShownHolds == Spec => []LeastWalkShown
<1>1. ResultsInv => LeastWalkShown
  <2> SUFFICES ASSUME ResultsInv, stage = "done",
                      NEW k \in DOMAIN journeys, NEW n \in DOMAIN found,
                      SameTravel(found[n], journeys[k])
               PROVE  TotalWalk(journeys[k]) <= TotalWalk(found[n])
    BY DEF LeastWalkShown
  <2>1. journeys[k] \in PlannedJourneys /\ found[n] \in PlannedJourneys
    BY GivenFacts DEF ResultsInv, Listed
  <2>2. Key(journeys[k]) = Key(found[n])
    BY <2>1, KeyFacts
  <2>3. n \in 1 .. next - 1
    BY GivenFacts DEF ResultsInv
  <2> QED
    BY <2>2, <2>3 DEF ResultsInv, Listed
<1> QED
  BY ResultsHold, <1>1, PTL

(* plan.go:124 and 220: unless the limit was met, every journey that can be *)
(* waited for has one shown that is no worse in any way.                    *)
THEOREM NothingLostHolds == Spec => []NothingLost
<1>1. ResultsInv => NothingLost
  BY DEF ResultsInv
<1> QED
  BY ResultsHold, <1>1, PTL

(* plan.go:87-106: the first journey shown is the best by the rank asked    *)
(* for of all that were found, and can be waited for.                       *)
THEOREM FirstIsBestHolds == Spec => []FirstIsBest
<1>1. ResultsInv => FirstIsBest
  BY DEF ResultsInv
<1> QED
  BY ResultsHold, <1>1, PTL

-----------------------------------------------------------------------------
(***************************************************************************)
(* The loop of filterDominated.  The inner loop is right for the journey   *)
(* it is run for: everything that journey dominates is dropped.  A journey *)
(* that was dropped is skipped, and what it dominates is dropped all the   *)
(* same, because the journey that dropped it dominates that too.  So the   *)
(* loop invariant says of every dropped journey which earlier one dropped  *)
(* it (DropsAreEarned), and of every journey passed that all it dominates  *)
(* is gone (PassedDropAll).                                                *)
(***************************************************************************)

LEMMA FieldsAreNumbers ==
  ASSUME NEW a \in Journeys
  PROVE  a.depart \in Int /\ a.arrive \in Int /\ a.transfers \in Int
<1>1. a.depart \in Times /\ a.arrive \in Times /\ a.transfers \in Changes
  BY DEF Journeys
<1>2. \A t \in Times : t \in Int  BY JourneysAssumption
<1>3. \A t \in Changes : t \in Int
  <2>1. \A t \in Changes : t \in Nat  BY JourneysAssumption
  <2>2. QED  BY <2>1
<1>4. QED  BY <1>1, <1>2, <1>3

(* Dominance is better-ness, and better-ness is a strict order.             *)
LEMMA DominatesIsBetter ==
  ASSUME NEW a \in Journeys, NEW b \in Journeys
  PROVE  Dominates(a, b) <=> Better(a, b)
BY FieldsAreNumbers DEF Dominates, Better, NotWorse

LEMMA BetterTransitive ==
  ASSUME NEW a \in Journeys, NEW b \in Journeys, NEW c \in Journeys,
         Better(a, b), Better(b, c)
  PROVE  Better(a, c)
BY FieldsAreNumbers DEF Better, NotWorse

LEMMA BetterIrreflexive ==
  ASSUME NEW a \in Journeys
  PROVE  ~Better(a, a)
BY DEF Better

-----------------------------------------------------------------------------
(* The loop invariant *)

(* A dropped journey was dropped by one the loop has reached; if that is    *)
(* the one it is at, it is still kept.                                      *)
DropsAreEarned ==
  \A k \in DOMAIN in :
    ~keep[k] => \E m \in DOMAIN in :
                  Better(in[m], in[k]) /\ (m < i \/ (m = i /\ keep[i]))

(* All that a journey passed dominates is dropped, and of what the current  *)
(* one dominates, all the inner loop has passed.                            *)
PassedDropAll ==
  \A m, k \in DOMAIN in :
    /\ m < i /\ Better(in[m], in[k]) => ~keep[k]
    /\ m = i /\ k < j /\ Better(in[m], in[k]) => ~keep[k]

(* The inner loop runs only for a journey that is kept.                     *)
InnerIsKept == i \in DOMAIN in /\ j > 1 => keep[i]

LoopInvariant ==
  /\ FilterTypeOK /\ DroppedForKept /\ DropsAreEarned /\ PassedDropAll /\ InnerIsKept
  /\ phase = "done" => (Len(in) < 2 \/ i > Len(in))

LEMMA LoopStarts == FilterInit => LoopInvariant
<1> SUFFICES ASSUME FilterInit PROVE LoopInvariant  OBVIOUS
<1>1. PICK n \in 0 .. MaxFound : in \in [1 .. n -> Journeys]  BY DEF FilterInit
<1>2. n \in Nat  BY <1>1, JourneysAssumption
<1>3. in \in Seq(Journeys) /\ Len(in) = n /\ DOMAIN in = 1 .. n  BY <1>1, <1>2
<1>4. keep = [k \in 1 .. n |-> TRUE] /\ i = 1 /\ j = 1  BY <1>3 DEF FilterInit
<1>5. \A k \in DOMAIN in : keep[k]  BY <1>3, <1>4
<1>6. FilterTypeOK  BY <1>2, <1>3, <1>4 DEF FilterInit, FilterTypeOK
<1>7. DroppedForKept /\ DropsAreEarned /\ InnerIsKept
  BY <1>5 DEF DroppedForKept, DropsAreEarned, InnerIsKept
<1>8. PassedDropAll  BY <1>3, <1>4 DEF PassedDropAll
<1>9. phase = "done" => (Len(in) < 2 \/ i > Len(in))  BY DEF FilterInit
<1>10. QED  BY <1>6, <1>7, <1>8, <1>9 DEF LoopInvariant

(* What a dropped journey dominates, something already passed dominates.    *)
LEMMA SkippedDropAll ==
  ASSUME LoopInvariant, i \in DOMAIN in, ~keep[i],
         NEW k \in DOMAIN in, Better(in[i], in[k])
  PROVE  ~keep[k]
<1>1. in \in Seq(Journeys)  BY DEF LoopInvariant, FilterTypeOK
<1>2. PICK m \in DOMAIN in : Better(in[m], in[i]) /\ m < i
  BY DEF LoopInvariant, DropsAreEarned
<1>3. in[m] \in Journeys /\ in[i] \in Journeys /\ in[k] \in Journeys  BY <1>1
<1>4. Better(in[m], in[k])  BY <1>2, <1>3, BetterTransitive
<1>5. QED  BY <1>2, <1>4 DEF LoopInvariant, PassedDropAll

(* One comparison: what it drops, it drops for a journey that stays.        *)
LEMMA CompareStep ==
  ASSUME LoopInvariant, Compare
  PROVE  LoopInvariant'
<1> USE DEF LoopInvariant
<1>1. /\ in \in Seq(Journeys) /\ keep \in [DOMAIN in -> BOOLEAN]
      /\ DOMAIN in = 1 .. Len(in) /\ Len(in) \in Nat
      /\ i \in DOMAIN in /\ j \in DOMAIN in /\ i \in Int /\ j \in Int /\ keep[i]
  BY DEF FilterTypeOK, Compare
<1>2. in' = in /\ i' = i /\ j' = j + 1 /\ phase' = phase /\ phase = "comparing"
  BY DEF Compare
<1>3. \A k \in DOMAIN in : in[k] \in Journeys  BY <1>1
<1>4. keep' \in [DOMAIN in -> BOOLEAN]  BY <1>1 DEF Compare
<1>5. \A k \in DOMAIN in : k # j => (keep'[k] <=> keep[k])  BY <1>1 DEF Compare
<1>6. keep'[j] <=> keep[j] /\ (i = j \/ ~Better(in[i], in[j]))
  <2>1. Dominates(in[i], in[j]) <=> Better(in[i], in[j])
    BY <1>1, <1>3, DominatesIsBetter
  <2>2. keep'[j] = (keep[j] /\ (i = j \/ ~Dominates(in[i], in[j])))
    BY <1>1 DEF Compare
  <2>3. QED  BY <2>1, <2>2
<1>7. keep'[i]  BY <1>1, <1>5, <1>6
<1>8. FilterTypeOK'
  <2>1. keep' \in [1 .. Len(in') -> BOOLEAN]  BY <1>1, <1>2, <1>4
  <2>2. j' \in 1 .. Len(in') + 1  BY <1>1, <1>2
  <2>3. QED  BY <1>2, <2>1, <2>2 DEF FilterTypeOK
<1>9. DroppedForKept'
  <2> SUFFICES ASSUME NEW k \in DOMAIN in, ~keep'[k]
               PROVE  \E m \in DOMAIN in : keep'[m] /\ Better(in[m], in[k])
    BY <1>2 DEF DroppedForKept
  <2>1. CASE keep[k]
    <3>1. k = j /\ Better(in[i], in[j])  BY <1>5, <1>6, <2>1
    <3>2. QED  BY <1>1, <1>7, <3>1
  <2>2. CASE ~keep[k]
    <3>1. PICK m \in DOMAIN in : keep[m] /\ Better(in[m], in[k])
      BY <2>2 DEF DroppedForKept
    <3>2. CASE keep'[m]  BY <3>1, <3>2
    <3>3. CASE ~keep'[m]
      <4>1. m = j /\ Better(in[i], in[m])  BY <1>5, <1>6, <3>1, <3>3
      <4>2. Better(in[i], in[k])  BY <1>1, <1>3, <3>1, <4>1, BetterTransitive
      <4>3. QED  BY <1>1, <1>7, <4>2
    <3>4. QED  BY <3>2, <3>3
  <2>3. QED  BY <2>1, <2>2
<1>10. DropsAreEarned'
  <2> SUFFICES ASSUME NEW k \in DOMAIN in, ~keep'[k]
               PROVE  \E m \in DOMAIN in :
                        Better(in[m], in[k]) /\ (m < i \/ (m = i /\ keep'[i]))
    BY <1>2 DEF DropsAreEarned
  <2>1. CASE keep[k]
    <3>1. k = j /\ Better(in[i], in[j])  BY <1>5, <1>6, <2>1
    <3>2. QED  BY <1>1, <1>7, <3>1
  <2>2. CASE ~keep[k]  BY <1>7, <2>2 DEF DropsAreEarned
  <2>3. QED  BY <2>1, <2>2
<1>11. PassedDropAll'
  <2> SUFFICES ASSUME NEW m \in DOMAIN in, NEW k \in DOMAIN in,
                      Better(in[m], in[k]), m < i \/ (m = i /\ k < j + 1)
               PROVE  ~keep'[k]
    BY <1>2 DEF PassedDropAll
  <2>1. CASE ~keep[k]  BY <1>5, <1>6, <2>1
  <2>2. CASE keep[k]
    <3>1. m = i /\ k = j  BY <1>1, <2>2 DEF PassedDropAll
    <3>2. i # j  BY <1>3, <3>1, BetterIrreflexive
    <3>3. QED  BY <1>6, <3>1, <3>2
  <2>3. QED  BY <2>1, <2>2
<1>12. InnerIsKept'  BY <1>2, <1>7 DEF InnerIsKept
<1>13. QED  BY <1>2, <1>8, <1>9, <1>10, <1>11, <1>12

(* The loop moves to the next journey, having passed this one.              *)
LEMMA AdvanceStep ==
  ASSUME LoopInvariant, Skip \/ NextJourney
  PROVE  LoopInvariant'
<1> USE DEF LoopInvariant
<1>1. /\ in \in Seq(Journeys) /\ keep \in [DOMAIN in -> BOOLEAN]
      /\ DOMAIN in = 1 .. Len(in) /\ Len(in) \in Nat /\ i \in DOMAIN in /\ i \in Int
  BY DEF FilterTypeOK, Skip, NextJourney
<1>2. /\ in' = in /\ keep' = keep /\ i' = i + 1 /\ j' = 1
      /\ phase' = phase /\ phase = "comparing"
  BY DEF Skip, NextJourney
<1>3. \A k \in DOMAIN in : Better(in[i], in[k]) => ~keep[k]
  <2>1. CASE Skip  BY <1>1, <2>1, SkippedDropAll DEF Skip
  <2>2. CASE NextJourney
    <3>1. \A k \in DOMAIN in : k < j  BY <1>1, <2>2 DEF NextJourney, FilterTypeOK
    <3>2. QED  BY <1>1, <3>1 DEF PassedDropAll
  <2>3. QED  BY <2>1, <2>2
<1>4. FilterTypeOK'  BY <1>1, <1>2 DEF FilterTypeOK
<1>5. DroppedForKept'  BY <1>2 DEF DroppedForKept
<1>6. DropsAreEarned'  BY <1>1, <1>2 DEF DropsAreEarned
<1>7. PassedDropAll'
  <2> SUFFICES ASSUME NEW m \in DOMAIN in, NEW k \in DOMAIN in,
                      Better(in[m], in[k]), m < i + 1 \/ (m = i + 1 /\ k < 1)
               PROVE  ~keep[k]
    BY <1>2 DEF PassedDropAll
  <2>1. m < i \/ m = i  BY <1>1
  <2>2. QED  BY <1>3, <2>1 DEF PassedDropAll
<1>8. InnerIsKept'  BY <1>2 DEF InnerIsKept
<1>9. QED  BY <1>2, <1>4, <1>5, <1>6, <1>7, <1>8

LEMMA LoopKeeps == LoopInvariant /\ [FilterNext]_filterVars => LoopInvariant'
<1> SUFFICES ASSUME LoopInvariant, [FilterNext]_filterVars PROVE LoopInvariant'  OBVIOUS
<1>1. CASE Compare  BY <1>1, CompareStep
<1>2. CASE Skip \/ NextJourney  BY <1>2, AdvanceStep
<1>3. CASE Finish
  BY <1>3 DEF Finish, LoopInvariant, FilterTypeOK, DroppedForKept, DropsAreEarned,
              PassedDropAll, InnerIsKept
<1>4. CASE UNCHANGED filterVars
  BY <1>4 DEF filterVars, LoopInvariant, FilterTypeOK, DroppedForKept, DropsAreEarned,
              PassedDropAll, InnerIsKept
<1>5. QED  BY <1>1, <1>2, <1>3, <1>4 DEF FilterNext

(* When the loop ends, what is kept is what nothing beats.                  *)
LEMMA LoopEnds == LoopInvariant => KeepsUndominated
<1> SUFFICES ASSUME LoopInvariant, phase = "done", NEW k \in DOMAIN in
             PROVE  keep[k] <=> \A m \in DOMAIN in : ~Better(in[m], in[k])
  BY DEF KeepsUndominated
<1> USE DEF LoopInvariant
<1>1. in \in Seq(Journeys) /\ DOMAIN in = 1 .. Len(in) /\ Len(in) \in Nat /\ i \in Int
  BY DEF FilterTypeOK
<1>2. ~keep[k] => \E m \in DOMAIN in : Better(in[m], in[k])  BY DEF DroppedForKept
<1>3. ASSUME NEW m \in DOMAIN in, Better(in[m], in[k]) PROVE ~keep[k]
  <2>1. CASE i > Len(in)
    <3>1. m < i  BY <1>1, <2>1
    <3>2. QED  BY <1>3, <3>1 DEF PassedDropAll
  <2>2. CASE Len(in) < 2
    <3>1. m = k  BY <1>1, <2>2
    <3>2. in[k] \in Journeys  BY <1>1
    <3>3. QED  BY <1>3, <3>1, <3>2, BetterIrreflexive
  <2>3. QED  BY <2>1, <2>2
<1>4. QED  BY <1>2, <1>3

-----------------------------------------------------------------------------
(* What the loop keeps *)

(* The loop stays within the journeys it was given.                         *)
THEOREM FilterTypesHold == FilterSpec => []FilterTypeOK
<1>1. LoopInvariant => FilterTypeOK  BY DEF LoopInvariant
<1>2. QED  BY LoopStarts, LoopKeeps, <1>1, PTL DEF FilterSpec

(* plan.go:1057, for every list of journeys: what is shown is exactly what  *)
(* no other journey found is better than.                                   *)
THEOREM KeepsUndominatedHolds == FilterSpec => []KeepsUndominated
BY LoopStarts, LoopKeeps, LoopEnds, PTL DEF FilterSpec

(* At every moment, a dropped journey has a kept one that is better.        *)
THEOREM DroppedForKeptHolds == FilterSpec => []DroppedForKept
<1>1. LoopInvariant => DroppedForKept  BY DEF LoopInvariant
<1>2. QED  BY LoopStarts, LoopKeeps, <1>1, PTL DEF FilterSpec

(* plan.go:1057-1100, for every list of journeys: what the loop keeps is    *)
(* what the filter step of PlanResults leaves, the journeys of the list     *)
(* that no other of it dominates.                                           *)
THEOREM LoopIsTheFilter ==
  FilterSpec => [](phase = "done" => \A k \in DOMAIN in : keep[k] <=> in[k] \in Survivors(in))
<1>1. LoopInvariant =>
        (phase = "done" => \A k \in DOMAIN in : keep[k] <=> in[k] \in Survivors(in))
  <2> SUFFICES ASSUME LoopInvariant, phase = "done", NEW k \in DOMAIN in
               PROVE  keep[k] <=> in[k] \in Survivors(in)
    OBVIOUS
  <2>1. \A m \in DOMAIN in : in[m] \in Journeys
    BY DEF LoopInvariant, FilterTypeOK
  <2>2. keep[k] <=> \A m \in DOMAIN in : ~Better(in[m], in[k])
    BY LoopEnds DEF KeepsUndominated
  <2>3. \A m \in DOMAIN in : Better(in[m], in[k]) <=> Dominates(in[m], in[k])
    BY <2>1, DominatesIsBetter
  <2>4. in[k] \in Survivors(in) <=> \A m \in DOMAIN in : ~Dominates(in[m], in[k])
    BY DEF Survivors
  <2> QED
    BY <2>2, <2>3, <2>4
<1> QED
  BY LoopStarts, LoopKeeps, <1>1, PTL DEF FilterSpec
=============================================================================
