-------------------------- MODULE NearbyPlanProofs ---------------------------
(***************************************************************************)
(* Of NearbyPlan: however many requests plan from however many stops, and  *)
(* whoever of them fails when, no search is given a part of the walking    *)
(* graph, and an answer is of all the searches, in an order of its own.    *)
(***************************************************************************)
EXTENDS NearbyPlan, ListFacts

AtType == at \in [Readers -> Places]

(* One reader at most reads the table, and only while the Once is running;  *)
(* who was given the graph was given it afterwards, from a reading without  *)
(* an error; and such a reading came to the end of the table.               *)
GraphInv ==
  /\ AtType
  /\ \A r \in Readers : at[r] = "loading" => once = "running"
  /\ \A r, q \in Readers : at[r] = "loading" /\ at[q] = "loading" => r = q
  /\ \A r \in Readers : at[r] = "crossing" => once = "done" /\ ~ err
  /\ (once = "done" /\ ~ err) => adj = Rows

LEMMA InitGraph == Init => GraphInv
  BY DEF Init, GraphInit, GraphInv, AtType, Places

(* What the steps that leave the graph alone do to the readers.             *)
LEMMA Elsewhere ==
  ASSUME GraphInv, at' \in [Readers -> Places], UNCHANGED sharedVars,
         \A r \in Readers : at'[r] = at[r] \/ at'[r] \notin {"loading", "crossing"}
  PROVE  GraphInv'
  BY DEF GraphInv, AtType, Places, sharedVars

LEMMA ElsewhereOne ==
  ASSUME GraphInv, NEW r \in Readers, NEW pc \in Places, Become(r, pc),
         pc \notin {"loading", "crossing"}, UNCHANGED sharedVars
  PROVE  GraphInv'
  <1>1. at' \in [Readers -> Places]
    BY DEF GraphInv, AtType, Places, Become
  <1>2. \A q \in Readers : at'[q] = at[q] \/ at'[q] \notin {"loading", "crossing"}
    BY DEF GraphInv, AtType, Places, Become
  <1> QED BY <1>1, <1>2, Elsewhere

(* The end of a reading, with an error or at the end of the table.          *)
LEMMA LoadedKeeps ==
  ASSUME GraphInv, NEW r \in Readers, NEW n, NEW failed \in BOOLEAN,
         Loaded(r, n, failed), ~ failed => n = Rows
  PROVE  GraphInv'
  <1>1. at[r] = "loading" /\ once = "running"
    BY DEF GraphInv, Loaded
  <1>2. at' = [at EXCEPT ![r] = "asking"] /\ once' = "done" /\ adj' = n /\ err' = failed
    BY DEF Loaded, Become
  <1>3. AtType' /\ at'[r] = "asking" /\ \A q \in Readers : q # r => at'[q] = at[q]
    BY <1>2 DEF GraphInv, AtType, Places
  <1>4. \A q \in Readers : at'[q] # "loading"
    BY <1>1, <1>3 DEF GraphInv
  <1>5. \A q \in Readers : at'[q] # "crossing"
    BY <1>1, <1>3 DEF GraphInv
  <1> QED BY <1>2, <1>3, <1>4, <1>5 DEF GraphInv

LEMMA UseGraphKeeps ==
  ASSUME GraphInv, NEW r \in Readers, UseGraph(r)
  PROVE  GraphInv'
  <1>1. CASE LoadGraph(r)
    <2>1. /\ AtType' /\ at'[r] = "loading"
          /\ \A q \in Readers : q # r => at'[q] = at[q]
      BY <1>1 DEF LoadGraph, Become, GraphInv, AtType, Places
    <2>2. once = "new" /\ once' = "running" /\ adj' = adj /\ err' = err
      BY <1>1 DEF LoadGraph
    <2>3. \A q \in Readers : at[q] # "loading" /\ at[q] # "crossing"
      BY <2>2 DEF GraphInv
    <2> QED BY <2>1, <2>2, <2>3 DEF GraphInv
  <1>2. CASE LoadRow(r)
    BY <1>2 DEF LoadRow, GraphInv, AtType, Places
  <1>3. CASE LoadDone(r)
    BY <1>3, LoadedKeeps DEF LoadDone
  <1>4. CASE ReadGraph(r)
    <2>1. once = "done" /\ once' = once /\ adj' = adj /\ err' = err
      BY <1>4 DEF ReadGraph
    <2>2. CASE err
      BY <1>4, <2>1, <2>2, ElsewhereOne DEF ReadGraph, sharedVars, Places
    <2>3. CASE ~ err
      <3>1. /\ AtType' /\ at'[r] = "crossing"
            /\ \A q \in Readers : q # r => at'[q] = at[q]
        BY <1>4, <2>3 DEF ReadGraph, Become, GraphInv, AtType, Places
      <3> QED BY <2>1, <2>3, <3>1 DEF GraphInv
    <2> QED BY <2>2, <2>3
  <1>5. CASE LoadRefused(r)
    BY <1>5, LoadedKeeps DEF LoadRefused
  <1>6. CASE LoadBroken(r)
    BY <1>6, LoadedKeeps DEF LoadBroken
  <1> QED BY <1>1, <1>2, <1>3, <1>4, <1>5, <1>6 DEF UseGraph

LEMMA RunKeeps ==
  ASSUME GraphInv, NEW r \in Readers, Run(r)
  PROVE  GraphInv'
  <1>1. CASE Search(r)
    <2>1. UNCHANGED sharedVars
      BY <1>1 DEF Search
    <2>2. Become(r, "asking") \/ Become(r, "searching")
      BY <1>1 DEF Search
    <2> QED BY <2>1, <2>2, ElsewhereOne DEF Places
  <1>2. CASE SearchEnds(r)
    BY <1>2, ElsewhereOne DEF SearchEnds, Places
  <1>3. CASE SearchFails(r)
    BY <1>3, ElsewhereOne DEF SearchFails, Places
  <1>4. CASE UseGraph(r)
    BY <1>4, UseGraphKeeps
  <1>5. CASE Deliver(r)
    BY <1>5, ElsewhereOne DEF Deliver, Places
  <1> QED BY <1>1, <1>2, <1>3, <1>4, <1>5 DEF Run

LEMMA NextGraph == GraphInv /\ [Next]_vars => GraphInv'
  <1> SUFFICES ASSUME GraphInv, [Next]_vars PROVE GraphInv'
    OBVIOUS
  <1>1. CASE \E c \in Callers : Ask(c)
    <2>1. UNCHANGED sharedVars
      BY <1>1 DEF Ask, sharedVars
    <2>2. at' \in [Readers -> Places] /\
          \A r \in Readers : at'[r] = at[r] \/ at'[r] \notin {"loading", "crossing"}
      <3>1. PICK c \in Callers : Ask(c)
        BY <1>1
      <3>2. PICK gs \in NearByMode[c] : at' = [r \in Readers |->
              IF r[1] = c /\ r[2] \in Origins(gs) THEN "begun" ELSE at[r]]
        BY <3>1 DEF Ask
      <3> QED BY <3>2 DEF GraphInv, AtType, Places
    <2> QED BY <2>1, <2>2, Elsewhere
  <1>2. CASE \E c \in Callers : AskFails(c) \/ Trouble(c) \/ Reply(c)
    BY <1>2 DEF AskFails, Trouble, Reply, graphVars, GraphInv, AtType, Places
  <1>3. CASE \E r \in Readers : Run(r)
    BY <1>3, RunKeeps
  <1>4. CASE UNCHANGED vars
    BY <1>4 DEF vars, graphVars, GraphInv, AtType, Places
  <1> QED BY <1>1, <1>2, <1>3, <1>4 DEF Next

(***************************************************************************)
(* pathways.go:42: sync.Once and the error kept beside the graph are       *)
(* enough.  Whatever the number of requests, of stops and of rows, no      *)
(* search works on a part of the graph.                                    *)
(***************************************************************************)
THEOREM WholeGraph == Spec => []GraphIsWhole
  <1>1. GraphInv => GraphIsWhole
    BY DEF GraphInv, GraphIsWhole
  <1> QED BY InitGraph, NextGraph, <1>1, PTL DEF Spec

-----------------------------------------------------------------------------
(* Sorting, and the groups *)

(* L has each element of s in a place of its own, one that goes before      *)
(* another ahead of it.                                                     *)
Sorts(L, s, key) ==
  \E f \in [1 .. Len(s) -> 1 .. Len(s)] :
    /\ \A n \in 1 .. Len(s) : L[n] = s[f[n]]
    /\ \A m, n \in 1 .. Len(s) : m < n => GoesBefore(s, key, f[m], f[n])
    /\ \A k \in 1 .. Len(s) : \E n \in 1 .. Len(s) : f[n] = k

LEMMA StableFacts ==
  ASSUME NEW T, NEW s \in Seq(T), NEW key, \A r \in T : key[r] \in Int
  PROVE  /\ StableBy(s, key) \in Seq(T) /\ Len(StableBy(s, key)) = Len(s)
         /\ Sorts(StableBy(s, key), s, key)
<1> DEFINE N == Len(s)
           k(a) == key[s[a]]
           ahead == [a \in 1 .. N |-> {m \in DOMAIN s : GoesBefore(s, key, m, a)}]
           f == [n \in 1 .. N |-> CHOOSE a \in DOMAIN s : PlaceIn(s, key, a) = n]
<1>1. N \in Nat /\ DOMAIN s = 1 .. N /\ \A a \in 1 .. N : s[a] \in T /\ k(a) \in Int
  OBVIOUS
<1>2. \A a, b : GoesBefore(s, key, a, b) <=> k(a) < k(b) \/ (k(a) = k(b) /\ a < b)
  BY DEF GoesBefore
<1>3. StableBy(s, key) = [n \in 1 .. N |-> s[f[n]]]
  BY <1>1 DEF StableBy
<1> HIDE DEF N, k
<1>4. /\ ahead \in [1 .. N -> SUBSET (1 .. N)]
      /\ \A a, b \in 1 .. N : a \in ahead[b] <=> GoesBefore(s, key, a, b)
      /\ \A a \in 1 .. N : PlaceIn(s, key, a) = 1 + Cardinality(ahead[a])
  BY <1>1 DEF PlaceIn
<1> HIDE DEF ahead
<1>5. \A a \in 1 .. N : a \notin ahead[a]
  BY <1>1, <1>2, <1>4
<1>6. \A a, b \in 1 .. N : a # b => a \in ahead[b] \/ b \in ahead[a]
  BY <1>1, <1>2, <1>4
<1>7. \A a, b, c \in 1 .. N : a \in ahead[b] /\ b \in ahead[c] => a \in ahead[c]
  <2> TAKE a, b, c \in 1 .. N
  <2>1. /\ a \in ahead[b] <=> k(a) < k(b) \/ (k(a) = k(b) /\ a < b)
        /\ b \in ahead[c] <=> k(b) < k(c) \/ (k(b) = k(c) /\ b < c)
        /\ a \in ahead[c] <=> k(a) < k(c) \/ (k(a) = k(c) /\ a < c)
        /\ k(a) \in Int /\ k(b) \in Int /\ k(c) \in Int
    BY <1>1, <1>2, <1>4
  <2> QED
    BY <2>1
<1>8. /\ \A a \in 1 .. N : Cardinality(ahead[a]) \in Nat /\ 1 + Cardinality(ahead[a]) \in 1 .. N
      /\ \A a, b \in 1 .. N : a \in ahead[b] => Cardinality(ahead[a]) < Cardinality(ahead[b])
      /\ \A n \in 1 .. N : \E a \in 1 .. N : 1 + Cardinality(ahead[a]) = n
  <2>1. N \in Nat /\ ahead \in [1 .. N -> SUBSET (1 .. N)]
    BY <1>1, <1>4
  <2> QED
    BY <1>5, <1>6, <1>7, <2>1, PlacesOfOrder
<1>9. \A n \in 1 .. N : f[n] \in 1 .. N /\ 1 + Cardinality(ahead[f[n]]) = n
  BY <1>1, <1>4, <1>8
<1> HIDE DEF f
<1>10. \A m, n \in 1 .. N : m < n => GoesBefore(s, key, f[m], f[n])
  <2> SUFFICES ASSUME NEW m \in 1 .. N, NEW n \in 1 .. N, m < n
               PROVE  f[m] \in ahead[f[n]]
    BY <1>4, <1>9
  <2>1. /\ f[m] \in 1 .. N /\ f[n] \in 1 .. N
        /\ 1 + Cardinality(ahead[f[m]]) = m /\ 1 + Cardinality(ahead[f[n]]) = n
    BY <1>9
  <2>2. f[m] # f[n]
    BY <2>1
  <2>3. f[n] \notin ahead[f[m]]
    <3> SUFFICES ASSUME f[n] \in ahead[f[m]] PROVE FALSE
      OBVIOUS
    <3>1. Cardinality(ahead[f[n]]) < Cardinality(ahead[f[m]])
      BY <1>8, <2>1
    <3>2. Cardinality(ahead[f[n]]) \in Int /\ Cardinality(ahead[f[m]]) \in Int
      <4>1. \A a \in 1 .. N : Cardinality(ahead[a]) \in Int
        BY <1>8
      <4> QED
        BY <2>1, <4>1
    <3> QED
      BY <2>1, <3>1, <3>2
  <2> QED
    BY <1>6, <2>1, <2>2, <2>3
<1>11. \A a \in 1 .. N : \E n \in 1 .. N : f[n] = a
  <2> SUFFICES ASSUME NEW a \in 1 .. N PROVE \E n \in 1 .. N : f[n] = a
    OBVIOUS
  <2>1. PICK n \in 1 .. N : n = 1 + Cardinality(ahead[a])
    BY <1>8
  <2>2. f[n] \in 1 .. N /\ 1 + Cardinality(ahead[f[n]]) = n
    BY <1>9
  <2>3. \A b \in 1 .. N : Cardinality(ahead[b]) \in Int
    BY <1>1, <1>8
  <2>4. f[n] \in ahead[a] \/ a \in ahead[f[n]] \/ f[n] = a
    BY <1>6, <2>2
  <2>5. ~ Cardinality(ahead[f[n]]) < Cardinality(ahead[a])
        /\ ~ Cardinality(ahead[a]) < Cardinality(ahead[f[n]])
    BY <2>1, <2>2, <2>3
  <2> QED
    BY <1>8, <2>2, <2>4, <2>5
<1>12. f \in [1 .. N -> 1 .. N]
  BY <1>9 DEF f
<1>13. /\ StableBy(s, key) \in Seq(T) /\ Len(StableBy(s, key)) = N
       /\ \A n \in 1 .. N : StableBy(s, key)[n] = s[f[n]]
  BY <1>1, <1>3, <1>9
<1> QED
  BY <1>10, <1>11, <1>12, <1>13 DEF N, Sorts

(* A group: a mode, and its stops without one of them twice.                *)
Group ==
  {g \in [mode : {"train", "tram", "bus"}, stops : Seq(Located)] :
     /\ \A m, n \in 1 .. Len(g.stops) : g.stops[m] = g.stops[n] => m = n
     /\ \A n \in 1 .. Len(g.stops) : ModeBucket(ModeOf[g.stops[n]]) = g.mode}

(* Groups of different modes.                                               *)
GoodGroups(gs) ==
  gs \in Seq(Group) /\ \A m, n \in 1 .. Len(gs) : gs[m].mode = gs[n].mode => m = n

(* Some of them, in whatever order, are good groups too.                    *)
LEMMA SomeAreGood ==
  ASSUME NEW gs, GoodGroups(gs), NEW hs \in Seq(Group),
         NEW f \in [1 .. Len(hs) -> 1 .. Len(gs)],
         \A n \in 1 .. Len(hs) : hs[n] = gs[f[n]],
         \A m, n \in 1 .. Len(hs) : f[m] = f[n] => m = n
  PROVE  GoodGroups(hs)
BY DEF GoodGroups

(* Who goes before another is another.                                      *)
LEMMA OneEach ==
  ASSUME NEW N \in Nat, NEW f \in [1 .. N -> Int], NEW s, NEW key,
         \A n \in 1 .. N : key[s[f[n]]] \in Int,
         \A m, n \in 1 .. N : m < n => GoesBefore(s, key, f[m], f[n])
  PROVE  \A m, n \in 1 .. N : f[m] = f[n] => m = n
<1> SUFFICES ASSUME NEW m \in 1 .. N, NEW n \in 1 .. N, f[m] = f[n], m < n
             PROVE  FALSE
  OBVIOUS
<1>1. GoesBefore(s, key, f[m], f[n])
  OBVIOUS
<1> QED
  BY <1>1 DEF GoesBefore

LEMMA UpIsOneEach ==
  ASSUME NEW N \in Nat, NEW f \in [1 .. N -> Int],
         \A m, n \in 1 .. N : m < n => f[m] < f[n]
  PROVE  \A m, n \in 1 .. N : f[m] = f[n] => m = n
<1> SUFFICES ASSUME NEW m \in 1 .. N, NEW n \in 1 .. N, f[m] = f[n], m < n
             PROVE  FALSE
  OBVIOUS
<1> QED
  OBVIOUS

(* The filled ones of some groups, sorted.                                  *)
LEMMA FilledAreGood ==
  ASSUME NEW gs, GoodGroups(gs)
  PROVE  /\ GoodGroups(Filled(gs))
         /\ \A n \in 1 .. Len(Filled(gs)) : Filled(gs)[n].stops # <<>>
<1> DEFINE S == {g \in ToSet(gs) : g.stops # <<>>}
           hs == Filled(gs)
<1>1. gs \in Seq(Group)
  BY DEF GoodGroups
<1>2. hs \in Seq(S \cap Group) /\ hs = Among(S, gs)
  <2>1. hs = Among(S, gs)
    BY DEF Filled
  <2> HIDE DEF S, hs
  <2> QED
    BY <1>1, <2>1, AmongKept
<1>3. \A n \in 1 .. Len(hs) : hs[n].stops # <<>>
  BY <1>2
<1>4. PICK f \in [1 .. Len(hs) -> 1 .. Len(gs)] :
        /\ \A n \in 1 .. Len(hs) : hs[n] = gs[f[n]]
        /\ \A m, n \in 1 .. Len(hs) : m < n => f[m] < f[n]
  <2> HIDE DEF S, hs
  <2> QED
    BY <1>1, <1>2, AmongPicks
<1> HIDE DEF S, hs
<1>5. hs \in Seq(Group) /\ Len(hs) \in Nat
  BY <1>2
<1>6. f \in [1 .. Len(hs) -> Int]
  <2>1. \A n \in 1 .. Len(hs) : f[n] \in Int
    OBVIOUS
  <2> QED
    BY <2>1
<1>7. \A m, n \in 1 .. Len(hs) : f[m] = f[n] => m = n
  BY <1>4, <1>5, <1>6, UpIsOneEach
<1>8. GoodGroups(hs)
  BY <1>4, <1>5, <1>7, SomeAreGood
<1> QED
  BY <1>3, <1>8 DEF hs

LEMMA SortedAreGood ==
  ASSUME NEW gs, GoodGroups(gs), NEW key, \A g \in ToSet(gs) : key[g] \in Int
  PROVE  GoodGroups(StableBy(gs, key))
<1> DEFINE hs == StableBy(gs, key)
<1>1. gs \in Seq(Group) /\ gs \in Seq(ToSet(gs)) /\ gs \in Seq(Group \cap ToSet(gs))
  <2>1. gs \in Seq(Group)
    BY DEF GoodGroups
  <2>2. \A n \in 1 .. Len(gs) : gs[n] \in ToSet(gs)
    BY <2>1 DEF ToSet
  <2> QED
    BY <2>1, <2>2
<1>2. hs \in Seq(Group \cap ToSet(gs)) /\ Len(hs) = Len(gs) /\ Sorts(hs, gs, key)
  <2>1. \A r \in Group \cap ToSet(gs) : key[r] \in Int
    OBVIOUS
  <2> QED
    BY <1>1, <2>1, StableFacts
<1> HIDE DEF hs
<1>3. PICK f \in [1 .. Len(hs) -> 1 .. Len(gs)] :
        /\ \A n \in 1 .. Len(hs) : hs[n] = gs[f[n]]
        /\ \A m, n \in 1 .. Len(hs) : m < n => GoesBefore(gs, key, f[m], f[n])
  BY <1>2 DEF Sorts
<1>4. Len(hs) \in Nat /\ hs \in Seq(Group)
  BY <1>2
<1>5. \A n \in 1 .. Len(hs) : f[n] \in 1 .. Len(gs) /\ f[n] \in Int /\ key[gs[f[n]]] \in Int
  <2>1. \A n \in 1 .. Len(hs) : f[n] \in 1 .. Len(gs) /\ f[n] \in Int
    OBVIOUS
  <2>2. \A k \in 1 .. Len(gs) : gs[k] \in ToSet(gs)
    BY <1>1
  <2> QED
    BY <2>1, <2>2
<1>6. f \in [1 .. Len(hs) -> Int]
  BY <1>5
<1>7. \A m, n \in 1 .. Len(hs) : f[m] = f[n] => m = n
  BY <1>3, <1>4, <1>5, <1>6, OneEach
<1>8. GoodGroups(hs)
  BY <1>3, <1>4, <1>7, SomeAreGood
<1> QED
  BY <1>8 DEF hs

LEMMA TheBuckets ==
  /\ DOMAIN Buckets = 1 .. 3
  /\ \A b \in 1 .. 3 : Buckets[b] \in {"train", "tram", "bus"}
  /\ \A a, b \in 1 .. 3 : Buckets[a] = Buckets[b] => a = b
<1>1. Buckets[1] = "train" /\ Buckets[2] = "tram" /\ Buckets[3] = "bus" /\ DOMAIN Buckets = 1 .. 3
  BY DEF Buckets
<1>2. \A b \in 1 .. 3 : b = 1 \/ b = 2 \/ b = 3
  OBVIOUS
<1>3. "train" # "tram" /\ "tram" # "bus" /\ "train" # "bus"
  OBVIOUS
<1> QED
  BY <1>1, <1>2, <1>3

(* The nearest few of a mode.                                               *)
LEMMA ModeStops ==
  ASSUME NEW stops \in Seq(Located), NEW n \in Nat, NEW b \in 1 .. 3,
         \A j, k \in 1 .. Len(stops) : stops[j] = stops[k] => j = k
  PROVE  [mode |-> Buckets[b], stops |-> First(n, Among(InBucket(b), stops))] \in Group
<1> DEFINE kept == Among(InBucket(b), stops)
           few == First(n, kept)
           In == InBucket(b) \cap Located
<1>1. kept \in Seq(In)
  BY AmongKept
<1>2. PICK f \in [1 .. Len(kept) -> 1 .. Len(stops)] :
        /\ \A m \in 1 .. Len(kept) : kept[m] = stops[f[m]]
        /\ \A j, k \in 1 .. Len(kept) : j < k => f[j] < f[k]
  BY AmongPicks
<1> HIDE DEF kept
<1>3. Len(kept) \in Nat /\ f \in [1 .. Len(kept) -> Int]
  <2>1. \A m \in 1 .. Len(kept) : f[m] \in Int
    OBVIOUS
  <2> QED
    BY <1>1, <2>1
<1>4. \A j, k \in 1 .. Len(kept) : f[j] = f[k] => j = k
  BY <1>2, <1>3, UpIsOneEach
<1>5. \A j, k \in 1 .. Len(kept) : kept[j] = kept[k] => j = k
  BY <1>2, <1>4
<1>6. /\ few \in Seq(In) /\ DOMAIN few \subseteq DOMAIN kept
      /\ \A k \in DOMAIN few : few[k] = kept[k]
  BY <1>1, FirstFacts
<1> HIDE DEF few
<1>7. /\ DOMAIN few = 1 .. Len(few) /\ DOMAIN kept = 1 .. Len(kept)
      /\ \A k \in 1 .. Len(few) : few[k] \in In /\ k \in 1 .. Len(kept)
  BY <1>1, <1>6
<1>8. \A j, k \in 1 .. Len(few) : few[j] = few[k] => j = k
  BY <1>5, <1>6, <1>7
<1>9. few \in Seq(Located)
  BY <1>6
<1>10. \A k \in 1 .. Len(few) : ModeBucket(ModeOf[few[k]]) = Buckets[b]
  BY <1>7 DEF InBucket
<1>11. [mode |-> Buckets[b], stops |-> few]
         \in [mode : {"train", "tram", "bus"}, stops : Seq(Located)]
  BY <1>9, TheBuckets
<1> QED
  BY <1>8, <1>10, <1>11 DEF Group, few, kept

LEMMA ByModeGood ==
  ASSUME NEW stops \in Seq(Located), NEW n \in Nat, NEW metres,
         \A s \in Located : metres[s] \in Int,
         \A j, k \in 1 .. Len(stops) : stops[j] = stops[k] => j = k
  PROVE  GoodGroups(ByMode(stops, n, metres))
<1> DEFINE group == [b \in DOMAIN Buckets |->
             [mode |-> Buckets[b], stops |-> First(n, Among(InBucket(b), stops))]]
           filled == Filled(group)
           key == [g \in ToSet(filled) |-> metres[Head(g.stops)]]
<1>1. ByMode(stops, n, metres) = StableBy(filled, key)
  BY DEF ByMode
<1>2. DOMAIN group = 1 .. 3 /\ \A b \in 1 .. 3 : group[b] \in Group /\ group[b].mode = Buckets[b]
  BY TheBuckets, ModeStops
<1>3. group \in Seq(Group) /\ Len(group) = 3
  <2>1. group \in [1 .. 3 -> Group] /\ 3 \in Nat
    BY <1>2
  <2>2. \A k, X, f : k \in Nat /\ f \in [1 .. k -> X] => f \in Seq(X) /\ Len(f) = k
    OBVIOUS
  <2> HIDE DEF group
  <2> QED
    BY <2>1, <2>2
<1> HIDE DEF group
<1>4. GoodGroups(group)
  BY <1>2, <1>3, TheBuckets DEF GoodGroups
<1>5. GoodGroups(filled) /\ \A k \in 1 .. Len(filled) : filled[k].stops # <<>>
  BY <1>4, FilledAreGood
<1>6. \A g \in ToSet(filled) : g.stops \in Seq(Located) /\ g.stops # <<>>
  BY <1>5 DEF ToSet, GoodGroups, Group
<1>7. \A g \in ToSet(filled) : key[g] \in Int
  <2> TAKE g \in ToSet(filled)
  <2>1. Head(g.stops) \in Located
    BY <1>6
  <2> QED
    BY <2>1
<1> HIDE DEF filled, key
<1> QED
  BY <1>1, <1>5, <1>7, SortedAreGood

(* The stops a request plans from.                                          *)
LEMMA AskedGood ==
  ASSUME NEW c \in Callers, NEW gs \in NearByMode[c]
  PROVE  GoodGroups(gs)
<1> DEFINE near == Near[c]
           radius  == IF near.radius <= 0 THEN DefaultRadius ELSE near.radius
           perMode == IF near.perMode <= 0 THEN 1 ELSE near.perMode
           metres  == [s \in Located |-> Metres[<<near.point, s>>]]
<1>1. near.point \in DOMAIN Place /\ perMode \in Nat /\ OverFetch \in Nat
  BY InputsAssumption
<1>2. \A s \in Located : metres[s] \in Int
  <2>1. \A s \in Located : <<near.point, s>> \in (DOMAIN Place) \X (DOMAIN Place)
    BY <1>1 DEF Located
  <2>2. \A ab \in (DOMAIN Place) \X (DOMAIN Place) : Metres[ab] \in Int
    BY StopsAssumption
  <2> QED
    BY <2>1, <2>2
<1>3. PICK stops \in StopsNear(near.point, radius, OverFetch) : gs = ByMode(stops, perMode, metres)
  BY DEF NearByMode, StopsNearByMode
<1> HIDE DEF near, radius, perMode, metres
<1>4. \E table, key : table \subseteq Located /\ stops \in OrderByLimit(table, key, OverFetch)
  <2>1. PICK kept \in Deduped(Boxed({near.point}, radius)) :
          stops \in OrderByLimit({s \in kept : Metres[<<near.point, s>>] <= radius},
                                 [s \in Located |-> Metres[<<near.point, s>>]], OverFetch)
    BY <1>3 DEF StopsNear
  <2>2. kept \subseteq Located
    BY DEF Deduped, Boxed
  <2> QED
    BY <2>1, <2>2
<1>5. PICK table, key : table \subseteq Located /\ stops \in OrderByLimit(table, key, OverFetch)
  BY <1>4
<1>6. PICK m \in 0 .. OverFetch : stops \in [1 .. m -> table]
  BY <1>5 DEF OrderByLimit
<1>7. \A j, k \in DOMAIN stops : j < k => stops[j] # stops[k]
  BY <1>5 DEF OrderByLimit
<1>8. stops \in Seq(Located) /\ DOMAIN stops = 1 .. Len(stops) /\ Len(stops) \in Nat
  BY <1>1, <1>5, <1>6
<1>9. \A j, k \in 1 .. Len(stops) : stops[j] = stops[k] => j = k
  BY <1>7, <1>8
<1> QED
  BY <1>1, <1>2, <1>3, <1>8, <1>9, ByModeGood

-----------------------------------------------------------------------------
(* The answer *)

(* The stops of a group with a journey, the soonest first.                  *)
OptionsOf(R, stops, arrive) == StableBy(Among(R, stops), arrive)

(* L has the stops of R, those one is at sooner ahead, and those of one     *)
(* time in the order they came in.                                          *)
SoonestFirst(L, R, stops, arrive) ==
  /\ \A s : (\E m \in 1 .. Len(L) : L[m] = s) <=>
              s \in R /\ \E j \in 1 .. Len(stops) : stops[j] = s
  /\ \A m, n \in 1 .. Len(L) : m < n =>
       /\ L[m] # L[n]
       /\ \/ arrive[L[m]] < arrive[L[n]]
          \/ /\ arrive[L[m]] = arrive[L[n]]
             /\ \E j, k \in 1 .. Len(stops) : stops[j] = L[m] /\ stops[k] = L[n] /\ j < k

LEMMA OptionsFacts ==
  ASSUME NEW stops \in Seq(Located), NEW R, NEW arrive, \A s \in R : arrive[s] \in Int,
         \A j, k \in 1 .. Len(stops) : stops[j] = stops[k] => j = k
  PROVE  /\ OptionsOf(R, stops, arrive) \in Seq(Located \cap R)
         /\ SoonestFirst(OptionsOf(R, stops, arrive), R, stops, arrive)
<1> DEFINE kept == Among(R, stops)
           L == StableBy(kept, arrive)
           In == R \cap Located
<1>1. kept \in Seq(In)
  BY AmongKept
<1>2. PICK f \in [1 .. Len(kept) -> 1 .. Len(stops)] :
        /\ \A m \in 1 .. Len(kept) : kept[m] = stops[f[m]]
        /\ \A j, k \in 1 .. Len(kept) : j < k => f[j] < f[k]
        /\ \A k \in 1 .. Len(stops) : stops[k] \in R => \E m \in 1 .. Len(kept) : f[m] = k
  BY AmongPicks
<1> HIDE DEF kept
<1>4. L \in Seq(In) /\ Len(L) = Len(kept) /\ Sorts(L, kept, arrive)
  <2>1. \A r \in In : arrive[r] \in Int
    OBVIOUS
  <2> HIDE DEF In
  <2> QED
    BY <1>1, <2>1, StableFacts
<1> HIDE DEF L
<1>5. PICK g \in [1 .. Len(kept) -> 1 .. Len(kept)] :
        /\ \A n \in 1 .. Len(kept) : L[n] = kept[g[n]]
        /\ \A m, n \in 1 .. Len(kept) : m < n => GoesBefore(kept, arrive, g[m], g[n])
        /\ \A k \in 1 .. Len(kept) : \E n \in 1 .. Len(kept) : g[n] = k
  BY <1>4 DEF Sorts
<1>6. \A n \in 1 .. Len(L) : /\ g[n] \in 1 .. Len(kept) /\ f[g[n]] \in 1 .. Len(stops)
                             /\ L[n] = stops[f[g[n]]] /\ L[n] \in In
  <2> TAKE n \in 1 .. Len(L)
  <2>1. n \in 1 .. Len(kept) /\ L[n] \in In
    BY <1>4
  <2>2. g[n] \in 1 .. Len(kept) /\ L[n] = kept[g[n]]
    BY <1>5, <2>1
  <2>3. \A k \in 1 .. Len(kept) : f[k] \in 1 .. Len(stops) /\ kept[k] = stops[f[k]]
    BY <1>2
  <2> QED
    BY <2>1, <2>3, <2>2
<1>7. ASSUME NEW s
      PROVE  (\E m \in 1 .. Len(L) : L[m] = s) <=>
               s \in R /\ \E j \in 1 .. Len(stops) : stops[j] = s
  <2>1. ASSUME NEW m \in 1 .. Len(L), L[m] = s
        PROVE  s \in R /\ \E j \in 1 .. Len(stops) : stops[j] = s
    BY <1>6, <2>1
  <2>2. ASSUME s \in R, NEW j \in 1 .. Len(stops), stops[j] = s
        PROVE  \E m \in 1 .. Len(L) : L[m] = s
    <3>1. PICK k \in 1 .. Len(kept) : f[k] = j
      BY <1>2, <2>2
    <3>2. PICK m \in 1 .. Len(kept) : g[m] = k
      BY <1>5
    <3> QED
      BY <1>4, <1>6, <2>2, <3>1, <3>2
  <2> QED
    BY <2>1, <2>2
<1>8. ASSUME NEW m \in 1 .. Len(L), NEW n \in 1 .. Len(L), m < n
      PROVE  /\ L[m] # L[n]
             /\ \/ arrive[L[m]] < arrive[L[n]]
                \/ /\ arrive[L[m]] = arrive[L[n]]
                   /\ \E j, k \in 1 .. Len(stops) : stops[j] = L[m] /\ stops[k] = L[n] /\ j < k
  <2>1. /\ g[m] \in 1 .. Len(kept) /\ f[g[m]] \in 1 .. Len(stops) /\ L[m] = stops[f[g[m]]]
        /\ g[n] \in 1 .. Len(kept) /\ f[g[n]] \in 1 .. Len(stops) /\ L[n] = stops[f[g[n]]]
        /\ L[m] = kept[g[m]] /\ L[n] = kept[g[n]]
        /\ arrive[L[m]] \in Int /\ arrive[L[n]] \in Int
    BY <1>4, <1>5, <1>6
  <2>2. GoesBefore(kept, arrive, g[m], g[n])
    BY <1>4, <1>5, <1>8
  <2>3. arrive[L[m]] < arrive[L[n]] \/ (arrive[L[m]] = arrive[L[n]] /\ g[m] < g[n])
    BY <2>1, <2>2 DEF GoesBefore
  <2>4. g[m] < g[n] => f[g[m]] < f[g[n]]
    BY <1>2, <2>1
  <2>5. CASE arrive[L[m]] < arrive[L[n]]
    BY <2>1, <2>5
  <2>6. CASE arrive[L[m]] = arrive[L[n]] /\ g[m] < g[n]
    <3>1. f[g[m]] < f[g[n]] /\ f[g[m]] # f[g[n]]
      BY <2>1, <2>4, <2>6
    <3> QED
      BY <2>1, <2>6, <3>1
  <2> QED
    BY <2>3, <2>5, <2>6
<1>9. L = OptionsOf(R, stops, arrive) /\ L \in Seq(Located \cap R)
  BY <1>4 DEF L, kept, OptionsOf
<1>10. SoonestFirst(L, R, stops, arrive)
  BY <1>7, <1>8 DEF SoonestFirst
<1> HIDE DEF In
<1> QED
  BY <1>9, <1>10

Arrive(c) == [s \in ToSet(res[c]) |-> timetable[s].arrive]

Options(c, k) == OptionsOf(ToSet(res[c]), groups[c][k].stops, Arrive(c))

(* What a request with no failed search is answered.                        *)
Listed(c) == SoonestMode(FoundByMode(c))

(* Each group of the answer is what there is of one of the groups asked     *)
(* about, and none that has something is left out.                          *)
LEMMA ListedFacts ==
  ASSUME NEW c \in Callers, GoodGroups(groups[c]),
         \A s \in ToSet(res[c]) : timetable[s].arrive \in Int
  PROVE  LET gs == Listed(c) IN
         /\ GoodGroups(gs)
         /\ \E e \in [1 .. Len(gs) -> 1 .. Len(groups[c])] :
              /\ \A n \in 1 .. Len(gs) : /\ gs[n].mode = groups[c][e[n]].mode
                                         /\ gs[n].stops = Options(c, e[n])
                                         /\ gs[n].stops # <<>>
              /\ \A k \in 1 .. Len(groups[c]) :
                   Options(c, k) # <<>> => \E n \in 1 .. Len(gs) : e[n] = k
              /\ \A m, n \in 1 .. Len(gs) : m < n =>
                   timetable[Head(gs[m].stops)].arrive <= timetable[Head(gs[n].stops)].arrive
<1> DEFINE N == Len(groups[c])
           R == ToSet(res[c])
           listed == [k \in DOMAIN groups[c] |->
             [mode |-> groups[c][k].mode, stops |-> Options(c, k)]]
           filled == Filled(listed)
           key == [g \in ToSet(filled) |-> timetable[Head(g.stops)].arrive]
           gs == StableBy(filled, key)
<1>1. gs = Listed(c)
  <2>1. filled = FoundByMode(c)
    BY DEF FoundByMode, Options, OptionsOf, Arrive
  <2> HIDE DEF filled
  <2> QED
    BY <2>1 DEF Listed, SoonestMode
<1>2. /\ N \in Nat /\ DOMAIN groups[c] = 1 .. N
      /\ \A k \in 1 .. N : groups[c][k] \in Group
      /\ \A j, k \in 1 .. N : groups[c][j].mode = groups[c][k].mode => j = k
  BY DEF GoodGroups
<1>3. \A s \in R : Arrive(c)[s] = timetable[s].arrive /\ Arrive(c)[s] \in Int
  BY DEF Arrive
<1>4. ASSUME NEW k \in 1 .. N
      PROVE  /\ listed[k] \in Group /\ listed[k].mode = groups[c][k].mode
             /\ listed[k].stops = Options(c, k) /\ Options(c, k) \in Seq(Located \cap R)
  <2> DEFINE stops == groups[c][k].stops
             L == Options(c, k)
  <2>1. /\ stops \in Seq(Located) /\ groups[c][k].mode \in {"train", "tram", "bus"}
        /\ \A i, j \in 1 .. Len(stops) : stops[i] = stops[j] => i = j
        /\ \A j \in 1 .. Len(stops) : ModeBucket(ModeOf[stops[j]]) = groups[c][k].mode
    BY <1>2 DEF Group
  <2>2. L = OptionsOf(R, stops, Arrive(c))
    BY DEF Options
  <2>3. listed[k] = [mode |-> groups[c][k].mode, stops |-> L]
    BY <1>2
  <2> HIDE DEF stops, L, R, listed
  <2>4. L \in Seq(Located \cap R) /\ SoonestFirst(L, R, stops, Arrive(c))
    BY <1>3, <2>1, <2>2, OptionsFacts
  <2>5. /\ L \in Seq(Located \cap R)
        /\ \A s : (\E m \in 1 .. Len(L) : L[m] = s) <=>
                     s \in R /\ \E j \in 1 .. Len(stops) : stops[j] = s
        /\ \A m, n \in 1 .. Len(L) : m < n => L[m] # L[n]
    BY <2>4 DEF SoonestFirst
  <2>6. \A m, n \in 1 .. Len(L) : L[m] = L[n] => m = n
    BY <2>5
  <2>7. \A m \in 1 .. Len(L) : ModeBucket(ModeOf[L[m]]) = groups[c][k].mode
    BY <2>1, <2>5
  <2>8. L \in Seq(Located)
    BY <2>5
  <2>9. [mode |-> groups[c][k].mode, stops |-> L] \in Group
    BY <2>1, <2>6, <2>7, <2>8 DEF Group
  <2> QED
    BY <2>3, <2>5, <2>9 DEF L
<1>5. listed \in Seq(Group) /\ Len(listed) = N
  <2>1. listed \in [1 .. N -> Group]
    BY <1>2, <1>4
  <2>2. \A k, X, f : k \in Nat /\ f \in [1 .. k -> X] => f \in Seq(X) /\ Len(f) = k
    OBVIOUS
  <2> HIDE DEF listed, N
  <2> QED
    BY <1>2, <2>1, <2>2
<1> HIDE DEF listed
<1>6. GoodGroups(listed)
  BY <1>2, <1>4, <1>5 DEF GoodGroups
<1>7. GoodGroups(filled) /\ \A n \in 1 .. Len(filled) : filled[n].stops # <<>>
  BY <1>6, FilledAreGood
<1>8. PICK f \in [1 .. Len(filled) -> 1 .. N] :
        /\ \A n \in 1 .. Len(filled) : filled[n] = listed[f[n]]
        /\ \A k \in 1 .. N : Options(c, k) # <<>> => \E n \in 1 .. Len(filled) : f[n] = k
  <2> DEFINE S == {g \in ToSet(listed) : g.stops # <<>>}
  <2>1. filled = Among(S, listed)
    BY DEF Filled
  <2>2. \A k \in 1 .. N : Options(c, k) # <<>> => listed[k] \in S
    <3>1. \A k \in 1 .. N : listed[k] \in ToSet(listed)
      BY <1>5 DEF ToSet
    <3> QED
      BY <1>4, <3>1
  <2> HIDE DEF S, filled
  <2>3. \E f \in [1 .. Len(filled) -> 1 .. Len(listed)] :
          /\ \A n \in 1 .. Len(filled) : filled[n] = listed[f[n]]
          /\ \A m, n \in 1 .. Len(filled) : m < n => f[m] < f[n]
          /\ \A k \in 1 .. Len(listed) :
               listed[k] \in S => \E n \in 1 .. Len(filled) : f[n] = k
    BY <1>5, <2>1, AmongPicks
  <2> QED
    BY <1>5, <2>2, <2>3
<1>9. filled \in Seq(Group) /\ filled \in Seq(ToSet(filled)) /\ Len(filled) \in Nat
  <2>1. filled \in Seq(Group)
    BY <1>7 DEF GoodGroups
  <2> HIDE DEF filled
  <2>2. \A n \in 1 .. Len(filled) : filled[n] \in ToSet(filled)
    BY <2>1 DEF ToSet
  <2> QED
    BY <2>1, <2>2
<1>10. ASSUME NEW n \in 1 .. Len(filled)
       PROVE  /\ filled[n].stops \in Seq(Located \cap R) /\ filled[n].stops # <<>>
              /\ filled[n] \in ToSet(filled) /\ key[filled[n]] \in Int
              /\ key[filled[n]] = timetable[Head(filled[n].stops)].arrive
  <2>1. filled[n].stops \in Seq(Located \cap R) /\ filled[n].stops # <<>>
    BY <1>4, <1>7, <1>8
  <2>2. Head(filled[n].stops) \in R
    BY <2>1
  <2>3. filled[n] \in ToSet(filled)
    BY <1>9 DEF ToSet
  <2>4. key[filled[n]] = timetable[Head(filled[n].stops)].arrive
    BY <2>3
  <2> HIDE DEF key, filled, R
  <2> QED
    BY <1>3, <2>1, <2>2, <2>3, <2>4
<1> HIDE DEF filled, key
<1>11. \A g \in ToSet(filled) : key[g] \in Int
  <2>1. \A g \in ToSet(filled) : \E n \in 1 .. Len(filled) : g = filled[n]
    BY <1>9 DEF ToSet
  <2> QED
    BY <1>10, <2>1
<1>12. /\ Len(gs) = Len(filled) /\ Sorts(gs, filled, key) /\ GoodGroups(gs)
  <2>1. Len(gs) = Len(filled) /\ Sorts(gs, filled, key)
    BY <1>9, <1>11, StableFacts
  <2>2. GoodGroups(gs)
    BY <1>7, <1>11, SortedAreGood
  <2> QED
    BY <2>1, <2>2
<1> HIDE DEF gs
<1>13. PICK h \in [1 .. Len(filled) -> 1 .. Len(filled)] :
         /\ \A n \in 1 .. Len(filled) : gs[n] = filled[h[n]]
         /\ \A m, n \in 1 .. Len(filled) : m < n => GoesBefore(filled, key, h[m], h[n])
         /\ \A k \in 1 .. Len(filled) : \E n \in 1 .. Len(filled) : h[n] = k
  BY <1>12 DEF Sorts
<1> DEFINE e == [n \in 1 .. Len(gs) |-> f[h[n]]]
<1>14. \A n \in 1 .. Len(gs) : /\ h[n] \in 1 .. Len(filled) /\ e[n] \in 1 .. N
                               /\ e[n] = f[h[n]] /\ gs[n] = filled[h[n]]
                               /\ gs[n] = listed[e[n]]
  <2>1. \A n \in 1 .. Len(gs) : h[n] \in 1 .. Len(filled) /\ gs[n] = filled[h[n]]
    BY <1>12, <1>13
  <2>2. \A n \in 1 .. Len(filled) : f[n] \in 1 .. N /\ filled[n] = listed[f[n]]
    BY <1>8
  <2> HIDE DEF N
  <2> QED
    BY <2>1, <2>2
<1>15. \A k \in 1 .. N : Options(c, k) # <<>> => \E n \in 1 .. Len(gs) : e[n] = k
  <2> SUFFICES ASSUME NEW k \in 1 .. N, Options(c, k) # <<>>
               PROVE  \E n \in 1 .. Len(gs) : e[n] = k
    OBVIOUS
  <2>1. PICK j \in 1 .. Len(filled) : f[j] = k
    BY <1>8
  <2>2. PICK n \in 1 .. Len(gs) : h[n] = j
    BY <1>12, <1>13
  <2> QED
    BY <2>1, <2>2
<1> HIDE DEF e
<1>16. \A n \in 1 .. Len(gs) : /\ gs[n].mode = groups[c][e[n]].mode
                               /\ gs[n].stops = Options(c, e[n])
                               /\ gs[n].stops # <<>>
  BY <1>4, <1>10, <1>14
<1>17. \A m, n \in 1 .. Len(gs) : m < n =>
         timetable[Head(gs[m].stops)].arrive <= timetable[Head(gs[n].stops)].arrive
  <2> SUFFICES ASSUME NEW m \in 1 .. Len(gs), NEW n \in 1 .. Len(gs), m < n
               PROVE  timetable[Head(gs[m].stops)].arrive <= timetable[Head(gs[n].stops)].arrive
    OBVIOUS
  <2>1. key[filled[h[m]]] <= key[filled[h[n]]]
    <3>1. GoesBefore(filled, key, h[m], h[n])
      BY <1>12, <1>13
    <3>2. key[filled[h[m]]] \in Int /\ key[filled[h[n]]] \in Int
      BY <1>10, <1>14
    <3> QED
      BY <3>1, <3>2 DEF GoesBefore
  <2>2. /\ h[m] \in 1 .. Len(filled) /\ gs[m] = filled[h[m]]
        /\ h[n] \in 1 .. Len(filled) /\ gs[n] = filled[h[n]]
    BY <1>14
  <2>3. key[gs[m]] = timetable[Head(gs[m].stops)].arrive
    BY <1>10, <2>2, Zenon
  <2>4. key[gs[n]] = timetable[Head(gs[n].stops)].arrive
    BY <1>10, <2>2, Zenon
  <2>5. key[gs[m]] <= key[gs[n]]
    BY <2>1, <2>2, Zenon
  <2> QED
    BY <2>3, <2>4, <2>5, Zenon
<1>18. e \in [1 .. Len(gs) -> 1 .. N]
  BY <1>14 DEF e
<1> HIDE DEF N
<1>19. \E d \in [1 .. Len(gs) -> 1 .. N] :
         /\ \A n \in 1 .. Len(gs) : /\ gs[n].mode = groups[c][d[n]].mode
                                    /\ gs[n].stops = Options(c, d[n])
                                    /\ gs[n].stops # <<>>
         /\ \A k \in 1 .. N : Options(c, k) # <<>> => \E n \in 1 .. Len(gs) : d[n] = k
         /\ \A m, n \in 1 .. Len(gs) : m < n =>
              timetable[Head(gs[m].stops)].arrive <= timetable[Head(gs[n].stops)].arrive
  BY <1>15, <1>16, <1>17, <1>18
<1> QED
  BY <1>1, <1>12, <1>19 DEF N

(* A request whose searches all came to an end well is answered as said.    *)
LEMMA WholeAnswer ==
  ASSUME NEW c \in Callers, groups[c] # Unasked, GoodGroups(groups[c]),
         timetable \in Timetables, ~ firstErr[c], reply[c] = Listed(c),
         ToSet(res[c]) = {s \in Candidates(c) : timetable[s].arrive # Never}
  PROVE  LET gs == reply[c]
             want == {s \in Candidates(c) : timetable[s].arrive # Never}
             arrive(s) == timetable[s].arrive
             bucket(s) == ModeBucket(ModeOf[s])
             soonest(s) == Min({arrive(t) : t \in {u \in want : bucket(u) = bucket(s)}})
         IN  /\ Origins(gs) = want /\ ~ firstErr[c]
             /\ \A s \in want : ~ Before(gs, s, s)
             /\ \A s, t \in want : (s # t /\ Before(gs, s, t)) =>
                  IF bucket(s) # bucket(t) THEN soonest(s) <= soonest(t)
                  ELSE \/ arrive(s) < arrive(t)
                       \/ arrive(s) = arrive(t) /\ Before(groups[c], s, t)
<1> DEFINE gs == Listed(c)
           GS == groups[c]
           want == {s \in Candidates(c) : timetable[s].arrive # Never}
           arrive(s) == timetable[s].arrive
           bucket(s) == ModeBucket(ModeOf[s])
           of(s) == {arrive(t) : t \in {u \in want : bucket(u) = bucket(s)}}
           In(L, s) == \E m \in 1 .. Len(L) : L[m] = s
<1>1. /\ Len(GS) \in Nat /\ DOMAIN GS = 1 .. Len(GS)
      /\ \A k \in 1 .. Len(GS) : GS[k] \in Group
      /\ \A j, k \in 1 .. Len(GS) : GS[j].mode = GS[k].mode => j = k
  BY DEF GoodGroups
<1>2. \A k \in 1 .. Len(GS) :
        /\ GS[k].stops \in Seq(Located) /\ DOMAIN GS[k].stops = 1 .. Len(GS[k].stops)
        /\ \A i, j \in 1 .. Len(GS[k].stops) : GS[k].stops[i] = GS[k].stops[j] => i = j
        /\ \A j \in 1 .. Len(GS[k].stops) : bucket(GS[k].stops[j]) = GS[k].mode
  <2> TAKE k \in 1 .. Len(GS)
  <2>1. GS[k] \in Group
    BY <1>1
  <2> QED
    BY <2>1 DEF Group
<1>3. \A s : s \in Candidates(c) <=> \E k \in 1 .. Len(GS) : In(GS[k].stops, s)
  <2>1. Candidates(c) = UNION {ToSet(GS[k].stops) : k \in 1 .. Len(GS)}
    BY <1>1 DEF Candidates, Origins
  <2>2. \A k \in 1 .. Len(GS) : \A s : s \in ToSet(GS[k].stops) <=> In(GS[k].stops, s)
    BY <1>2 DEF ToSet
  <2> HIDE DEF In, GS
  <2> QED
    BY <2>1, <2>2
<1>4. \A s \in want : arrive(s) \in Int
  <2>1. \A s \in want : s \in Stops
    BY <1>2, <1>3 DEF Located
  <2>2. \A s \in Stops : timetable[s].arrive \in Int \cup {Never}
    BY InputsAssumption
  <2> QED
    BY <2>1, <2>2
<1>5. \A s \in want : Arrive(c)[s] = arrive(s) /\ Arrive(c)[s] \in Int
  BY <1>4 DEF Arrive
<1>6. GoodGroups(gs)
  BY <1>4, ListedFacts
<1>7. PICK e \in [1 .. Len(gs) -> 1 .. Len(GS)] :
        /\ \A n \in 1 .. Len(gs) : /\ gs[n].mode = GS[e[n]].mode
                                   /\ gs[n].stops = Options(c, e[n])
                                   /\ gs[n].stops # <<>>
        /\ \A k \in 1 .. Len(GS) : Options(c, k) # <<>> => \E n \in 1 .. Len(gs) : e[n] = k
        /\ \A m, n \in 1 .. Len(gs) : m < n =>
             arrive(Head(gs[m].stops)) <= arrive(Head(gs[n].stops))
  BY <1>4, ListedFacts
<1>8. \A k \in 1 .. Len(GS) : /\ Options(c, k) \in Seq(Located \cap want)
                              /\ SoonestFirst(Options(c, k), want, GS[k].stops, Arrive(c))
  <2> TAKE k \in 1 .. Len(GS)
  <2> DEFINE stops == GS[k].stops
  <2>1. /\ stops \in Seq(Located)
        /\ \A i, j \in 1 .. Len(stops) : stops[i] = stops[j] => i = j
    BY <1>2
  <2>2. Options(c, k) = OptionsOf(want, stops, Arrive(c))
    BY DEF Options
  <2> HIDE DEF stops, want
  <2>3. /\ OptionsOf(want, stops, Arrive(c)) \in Seq(Located \cap want)
        /\ SoonestFirst(OptionsOf(want, stops, Arrive(c)), want, stops, Arrive(c))
    BY <1>5, <2>1, OptionsFacts
  <2> QED
    BY <2>2, <2>3 DEF stops
<1>9. /\ Len(gs) \in Nat /\ DOMAIN gs = 1 .. Len(gs)
      /\ \A m, n \in 1 .. Len(gs) : gs[m].mode = gs[n].mode => m = n
  BY <1>6 DEF GoodGroups
<1> HIDE DEF gs, want
<1>10. ASSUME NEW n \in 1 .. Len(gs)
       PROVE  /\ e[n] \in 1 .. Len(GS) /\ gs[n].mode = GS[e[n]].mode
              /\ gs[n].stops \in Seq(Located \cap want) /\ gs[n].stops # <<>>
              /\ DOMAIN gs[n].stops = 1 .. Len(gs[n].stops)
              /\ \A s : In(gs[n].stops, s) <=> s \in want /\ In(GS[e[n]].stops, s)
              /\ \A i, j \in 1 .. Len(gs[n].stops) : i < j =>
                   /\ gs[n].stops[i] # gs[n].stops[j]
                   /\ \/ arrive(gs[n].stops[i]) < arrive(gs[n].stops[j])
                      \/ /\ arrive(gs[n].stops[i]) = arrive(gs[n].stops[j])
                         /\ Before(GS, gs[n].stops[i], gs[n].stops[j])
  <2> DEFINE L == Options(c, e[n])
             stops == GS[e[n]].stops
  <2>1. e[n] \in 1 .. Len(GS) /\ gs[n].mode = GS[e[n]].mode /\ gs[n].stops = L /\ L # <<>>
    BY <1>7
  <2>2. L \in Seq(Located \cap want) /\ SoonestFirst(L, want, stops, Arrive(c))
    BY <1>8, <2>1
  <2>3. DOMAIN stops = 1 .. Len(stops)
    BY <1>2, <2>1
  <2>4. \A s, t : (\E j, k \in 1 .. Len(stops) : stops[j] = s /\ stops[k] = t /\ j < k)
                    => Before(GS, s, t)
    BY <1>1, <2>1, <2>3 DEF Before
  <2> HIDE DEF L, stops, GS, arrive
  <2>5. DOMAIN L = 1 .. Len(L) /\ \A i \in 1 .. Len(L) : Arrive(c)[L[i]] = arrive(L[i])
    BY <1>5, <2>2
  <2>6. \A s : In(L, s) <=> s \in want /\ In(stops, s)
    BY <2>2 DEF SoonestFirst
  <2>7. \A i, j \in 1 .. Len(L) : i < j =>
           /\ L[i] # L[j]
           /\ \/ arrive(L[i]) < arrive(L[j])
              \/ arrive(L[i]) = arrive(L[j]) /\ Before(GS, L[i], L[j])
    BY <2>2, <2>4, <2>5 DEF SoonestFirst
  <2>8. \A s : In(L, s) <=> s \in want /\ In(GS[e[n]].stops, s)
    BY <2>6 DEF stops
  <2> HIDE DEF In
  <2> QED
    BY <2>1, <2>2, <2>5, <2>7, <2>8
<1>11. \A n \in 1 .. Len(gs) : \A s : In(gs[n].stops, s) => s \in want /\ bucket(s) = gs[n].mode
  <2> SUFFICES ASSUME NEW n \in 1 .. Len(gs), NEW s, In(gs[n].stops, s)
               PROVE  s \in want /\ bucket(s) = gs[n].mode
    OBVIOUS
  <2>1. \A k \in 1 .. Len(GS) : In(GS[k].stops, s) => bucket(s) = GS[k].mode
    BY <1>2
  <2>2. /\ e[n] \in 1 .. Len(GS) /\ gs[n].mode = GS[e[n]].mode
        /\ \A t : In(gs[n].stops, t) <=> t \in want /\ In(GS[e[n]].stops, t)
    BY <1>10
  <2> HIDE DEF In, GS, bucket
  <2>3. s \in want /\ In(GS[e[n]].stops, s)
    BY <2>2
  <2> QED
    BY <2>1, <2>2, <2>3
<1>12. Origins(gs) = want
  <2>1. \A s : s \in Origins(gs) <=> \E n \in 1 .. Len(gs) : In(gs[n].stops, s)
    <3>1. Origins(gs) = UNION {ToSet(gs[n].stops) : n \in 1 .. Len(gs)}
      BY <1>9 DEF Origins
    <3>2. \A n \in 1 .. Len(gs) : \A s : s \in ToSet(gs[n].stops) <=> In(gs[n].stops, s)
      BY <1>10 DEF ToSet
    <3> HIDE DEF In
    <3> QED
      BY <3>1, <3>2
  <2>2. ASSUME NEW s \in want PROVE \E n \in 1 .. Len(gs) : In(gs[n].stops, s)
    <3>1. PICK k \in 1 .. Len(GS) : In(GS[k].stops, s)
      BY <1>3 DEF want
    <3>2. Options(c, k) # <<>>
      <4> DEFINE L == Options(c, k)
                 stops == GS[k].stops
      <4>1. SoonestFirst(L, want, stops, Arrive(c)) /\ In(stops, s)
        BY <1>8, <3>1
      <4> HIDE DEF L, stops
      <4>2. \E m \in 1 .. Len(L) : L[m] = s
        BY <4>1 DEF SoonestFirst
      <4> QED
        BY <4>2 DEF L
    <3>3. PICK n \in 1 .. Len(gs) : e[n] = k
      BY <1>7, <3>2
    <3> HIDE DEF In
    <3> QED
      BY <1>10, <3>1, <3>3
  <2> HIDE DEF In
  <2> QED
    BY <1>11, <2>1, <2>2
<1>13. \A s, t : Before(gs, s, t) <=>
         \E g, h \in 1 .. Len(gs) :
           \E m \in 1 .. Len(gs[g].stops), n \in 1 .. Len(gs[h].stops) :
             gs[g].stops[m] = s /\ gs[h].stops[n] = t /\ (g < h \/ (g = h /\ m < n))
  <2>1. \A g \in 1 .. Len(gs) : DOMAIN gs[g].stops = 1 .. Len(gs[g].stops)
    BY <1>10
  <2>2. DOMAIN gs = 1 .. Len(gs)
    BY <1>9
  <2> TAKE s, t
  <2>3. ASSUME Before(gs, s, t)
        PROVE  \E g, h \in 1 .. Len(gs) :
                 \E m \in 1 .. Len(gs[g].stops), n \in 1 .. Len(gs[h].stops) :
                   gs[g].stops[m] = s /\ gs[h].stops[n] = t /\ (g < h \/ (g = h /\ m < n))
    <3>1. PICK g \in DOMAIN gs, h \in DOMAIN gs :
            \E m \in DOMAIN gs[g].stops, n \in DOMAIN gs[h].stops :
              gs[g].stops[m] = s /\ gs[h].stops[n] = t /\ (g < h \/ (g = h /\ m < n))
      BY <2>3 DEF Before
    <3> QED
      BY <2>1, <2>2, <3>1
  <2>4. ASSUME NEW g \in 1 .. Len(gs), NEW h \in 1 .. Len(gs),
               \E m \in 1 .. Len(gs[g].stops), n \in 1 .. Len(gs[h].stops) :
                 gs[g].stops[m] = s /\ gs[h].stops[n] = t /\ (g < h \/ (g = h /\ m < n))
        PROVE  Before(gs, s, t)
    BY <2>1, <2>2, <2>4 DEF Before
  <2> QED
    BY <2>3, <2>4
<1>14. ASSUME NEW g \in 1 .. Len(gs), NEW s \in want, bucket(s) = gs[g].mode
       PROVE  Min(of(s)) = arrive(Head(gs[g].stops)) /\ Min(of(s)) \in Int
  <2> DEFINE L == gs[g].stops
             first == L[1]
  <2>1. L \in Seq(Located \cap want) /\ L # <<>>
    BY <1>10
  <2>2. Head(L) = first /\ 1 \in 1 .. Len(L)
    BY <2>1
  <2>3. first \in want /\ bucket(first) = bucket(s) /\ In(L, first)
    BY <1>11, <1>14, <2>2
  <2>4. ASSUME NEW u \in want, bucket(u) = bucket(s) PROVE arrive(first) <= arrive(u)
    <3>1. PICK k \in 1 .. Len(GS) : In(GS[k].stops, u)
      BY <1>3 DEF want
    <3>2. bucket(u) = GS[k].mode
      BY <1>2, <3>1
    <3>3. k = e[g]
      <4>1. e[g] \in 1 .. Len(GS) /\ gs[g].mode = GS[e[g]].mode
        BY <1>7
      <4>2. GS[k].mode = GS[e[g]].mode
        BY <1>14, <2>4, <3>2, <4>1
      <4> QED
        BY <1>1, <4>1, <4>2
    <3>4. In(L, u)
      BY <1>10, <3>1, <3>3
    <3>5. PICK m \in 1 .. Len(L) : L[m] = u
      BY <3>4
    <3>6. CASE m = 1
      BY <1>4, <3>5, <3>6
    <3>7. CASE m # 1
      <4>1. 1 < m
        BY <3>7
      <4>2. arrive(L[1]) < arrive(L[m]) \/ arrive(L[1]) = arrive(L[m])
        BY <1>10, <2>2, <4>1
      <4> QED
        BY <1>4, <2>3, <3>5, <4>2
    <3> QED
      BY <3>6, <3>7
  <2>5. arrive(first) \in of(s) /\ \A k \in of(s) : k \in Int /\ arrive(first) <= k
    BY <1>4, <2>3, <2>4
  <2>6. Min(of(s)) \in of(s) /\ \A k \in of(s) : Min(of(s)) <= k
    <3> HIDE DEF of, first, arrive
    <3> QED
      BY <2>5, MinOf
  <2> HIDE DEF of, first, L
  <2> QED
    BY <2>2, <2>5, <2>6 DEF L
<1>15. ASSUME NEW s \in want, Before(gs, s, s) PROVE FALSE
  <2>1. PICK g \in 1 .. Len(gs), h \in 1 .. Len(gs) :
          \E m \in 1 .. Len(gs[g].stops), n \in 1 .. Len(gs[h].stops) :
            gs[g].stops[m] = s /\ gs[h].stops[n] = s /\ (g < h \/ (g = h /\ m < n))
    BY <1>13, <1>15
  <2>2. PICK m \in 1 .. Len(gs[g].stops), n \in 1 .. Len(gs[h].stops) :
          gs[g].stops[m] = s /\ gs[h].stops[n] = s /\ (g < h \/ (g = h /\ m < n))
    BY <2>1
  <2>3. bucket(s) = gs[g].mode /\ bucket(s) = gs[h].mode
    BY <1>11, <2>2
  <2>4. g = h
    BY <1>9, <2>3
  <2>5. m < n
    BY <2>2, <2>4
  <2> QED
    BY <1>10, <2>2, <2>4, <2>5
<1>16. ASSUME NEW s \in want, NEW t \in want, s # t, Before(gs, s, t)
       PROVE  IF bucket(s) # bucket(t) THEN Min(of(s)) <= Min(of(t))
              ELSE \/ arrive(s) < arrive(t)
                   \/ arrive(s) = arrive(t) /\ Before(groups[c], s, t)
  <2>1. PICK g \in 1 .. Len(gs), h \in 1 .. Len(gs) :
          \E m \in 1 .. Len(gs[g].stops), n \in 1 .. Len(gs[h].stops) :
            gs[g].stops[m] = s /\ gs[h].stops[n] = t /\ (g < h \/ (g = h /\ m < n))
    BY <1>13, <1>16
  <2>2. PICK m \in 1 .. Len(gs[g].stops), n \in 1 .. Len(gs[h].stops) :
          gs[g].stops[m] = s /\ gs[h].stops[n] = t /\ (g < h \/ (g = h /\ m < n))
    BY <2>1
  <2>3. bucket(s) = gs[g].mode /\ bucket(t) = gs[h].mode
    BY <1>11, <2>2
  <2>4. CASE bucket(s) # bucket(t)
    <3>1. g < h
      BY <2>2, <2>3, <2>4
    <3>2. arrive(Head(gs[g].stops)) <= arrive(Head(gs[h].stops))
      BY <1>7, <3>1
    <3>3. Min(of(s)) = arrive(Head(gs[g].stops)) /\ Min(of(t)) = arrive(Head(gs[h].stops))
      BY <1>14, <2>3
    <3> QED
      BY <2>4, <3>2, <3>3
  <2>5. CASE bucket(s) = bucket(t)
    <3>1. g = h
      BY <1>9, <2>3, <2>5
    <3>2. m < n
      BY <2>2, <3>1
    <3>3. arrive(s) < arrive(t) \/ (arrive(s) = arrive(t) /\ Before(GS, s, t))
      <4> DEFINE L == gs[g].stops
      <4>1. /\ m \in 1 .. Len(L) /\ n \in 1 .. Len(L) /\ m < n
            /\ L[m] = s /\ L[n] = t
        BY <2>2, <3>1, <3>2
      <4>2. arrive(L[m]) < arrive(L[n]) \/ (arrive(L[m]) = arrive(L[n]) /\ Before(GS, L[m], L[n]))
        BY <1>10, <4>1
      <4> HIDE DEF L
      <4> QED
        BY <4>1, <4>2
    <3> QED
      BY <2>5, <3>3
  <2> QED
    BY <2>4, <2>5
<1>17. reply[c] = gs
  BY DEF gs
<1> QED
  BY <1>12, <1>15, <1>16, <1>17 DEF want

-----------------------------------------------------------------------------
(* The searches and the answer *)

(* What a request plans from; and what was found from a stop is kept until  *)
(* the answer is made, of all of them.                                      *)
ReplyInv ==
  /\ AtType /\ timetable \in Timetables
  /\ DOMAIN groups = Callers /\ DOMAIN reply = Callers
  /\ res \in [Callers -> Seq(Stops)] /\ firstErr \in [Callers -> BOOLEAN]
  /\ \A c \in Callers :
       /\ groups[c] = Unasked \/ GoodGroups(groups[c])
       /\ \A s \in Stops : at[<<c, s>>] # "idle" => s \in Candidates(c)
       /\ \A s \in ToSet(res[c]) : /\ s \in Candidates(c) /\ at[<<c, s>>] = "over"
                                   /\ timetable[s].arrive # Never
       /\ \A s \in Candidates(c) :
            at[<<c, s>>] = "over" /\ ~ firstErr[c] /\ timetable[s].arrive # Never
              => s \in ToSet(res[c])
       /\ reply[c] \notin {Pending, Error} =>
            groups[c] # Unasked /\ AllOver(c) /\ ~ firstErr[c] /\ reply[c] = Listed(c)

LEMMA GoodIsAsked ==
  ASSUME NEW gs, GoodGroups(gs)
  PROVE  gs # Unasked
<1>1. gs \in Seq(Group)
  BY DEF GoodGroups
<1>2. Group \subseteq [mode : {"train", "tram", "bus"}, stops : Seq(Stops)]
  <2>1. Seq(Located) \subseteq Seq(Stops)
    BY DEF Located
  <2> QED
    BY <2>1 DEF Group
<1>3. gs \in Seq([mode : {"train", "tram", "bus"}, stops : Seq(Stops)])
  <2> DEFINE B == [mode : {"train", "tram", "bus"}, stops : Seq(Stops)]
  <2>1. \A k \in 1 .. Len(gs) : gs[k] \in B
    BY <1>1, <1>2
  <2> HIDE DEF B
  <2>2. gs \in Seq(B)
    BY <1>1, <2>1
  <2> QED
    BY <2>2 DEF B
<1> QED
  BY <1>3, NearbyAssumption

(* What the answer to a request depends on.                                 *)
LEMMA ListedSame ==
  ASSUME NEW c \in Callers, groups'[c] = groups[c], res'[c] = res[c], timetable' = timetable
  PROVE  Listed(c)' = Listed(c)
BY DEF Listed, FoundByMode, SoonestMode

LEMMA CandidatesSame ==
  ASSUME NEW c \in Callers, groups'[c] = groups[c]
  PROVE  Candidates(c)' = Candidates(c)
BY DEF Candidates, Origins

LEMMA CandidatesAreStops ==
  ASSUME NEW c \in Callers, groups[c] = Unasked \/ GoodGroups(groups[c])
  PROVE  Candidates(c) \subseteq Stops
<1> SUFFICES ASSUME GoodGroups(groups[c]), NEW s \in Origins(groups[c])
             PROVE  s \in Stops
  BY DEF Candidates
<1>1. groups[c] \in Seq(Group)
  BY DEF GoodGroups
<1>2. PICK k \in DOMAIN groups[c] : s \in ToSet(groups[c][k].stops)
  BY DEF Origins
<1>3. groups[c][k].stops \in Seq(Located)
  BY <1>1 DEF Group
<1> QED
  BY <1>2, <1>3 DEF ToSet, Located

LEMMA InitReply == Init => ReplyInv
<1> SUFFICES ASSUME Init PROVE ReplyInv
  OBVIOUS
<1>1. AtType /\ timetable \in Timetables
  BY DEF Init, AtType, Places
<1>2. /\ DOMAIN groups = Callers /\ DOMAIN reply = Callers
      /\ res \in [Callers -> Seq(Stops)] /\ firstErr \in [Callers -> BOOLEAN]
  BY DEF Init
<1>3. \A c \in Callers : /\ groups[c] = Unasked /\ res[c] = <<>> /\ reply[c] = Pending
                         /\ Candidates(c) = {} /\ ToSet(res[c]) = {}
  BY DEF Init, Candidates, ToSet
<1>4. \A c \in Callers, s \in Stops : at[<<c, s>>] = "idle"
  BY NearbyAssumption DEF Init
<1> QED
  BY <1>1, <1>2, <1>3, <1>4 DEF ReplyInv

(* A search that moves on, and is neither begun nor over.                   *)
LEMMA MovesKeep ==
  ASSUME ReplyInv, UNCHANGED requestVars, at' \in [Readers -> Places],
         \A q \in Readers : at'[q] = at[q] \/ (at[q] \notin {"idle", "over"}
                                               /\ at'[q] \notin {"idle", "over"})
  PROVE  ReplyInv'
<1>1. /\ timetable' = timetable /\ groups' = groups /\ res' = res
      /\ firstErr' = firstErr /\ reply' = reply
  BY DEF requestVars
<1>2. \A c \in Callers, s \in Stops : <<c, s>> \in Readers
  BY NearbyAssumption
<1>3. \A c \in Callers : Candidates(c)' = Candidates(c) /\ Listed(c)' = Listed(c)
  BY <1>1, CandidatesSame, ListedSame
<1>4. \A c \in Callers : \A s \in Candidates(c) : <<c, s>> \in Readers
  <2>1. \A c \in Callers : Candidates(c) \subseteq Stops
    BY CandidatesAreStops DEF ReplyInv
  <2> QED
    BY <1>2, <2>1
<1>5. \A c \in Callers : AllOver(c) => AllOver(c)'
  BY <1>3, <1>4 DEF AllOver
<1>6. AtType' /\ timetable' \in Timetables
  BY <1>1 DEF AtType, ReplyInv
<1>7. ASSUME NEW c \in Callers
      PROVE  /\ (groups[c] = Unasked \/ GoodGroups(groups[c]))'
             /\ \A s \in Stops : at'[<<c, s>>] # "idle" => s \in Candidates(c)'
             /\ \A s \in ToSet(res'[c]) : /\ s \in Candidates(c)' /\ at'[<<c, s>>] = "over"
                                          /\ timetable'[s].arrive # Never
             /\ \A s \in Candidates(c)' :
                  at'[<<c, s>>] = "over" /\ ~ firstErr'[c] /\ timetable'[s].arrive # Never
                    => s \in ToSet(res'[c])
             /\ reply'[c] \notin {Pending, Error} =>
                  /\ groups'[c] # Unasked /\ AllOver(c)'
                  /\ ~ firstErr'[c] /\ reply'[c] = Listed(c)'
  BY <1>1, <1>2, <1>3, <1>4, <1>5 DEF ReplyInv
<1> QED
  BY <1>1, <1>6, <1>7 DEF ReplyInv

(* One search moves on.                                                     *)
LEMMA MoveKeeps ==
  ASSUME ReplyInv, NEW r \in Readers, NEW pc \in Places, Become(r, pc), UNCHANGED requestVars,
         at[r] \notin {"idle", "over"}, pc \notin {"idle", "over"}
  PROVE  ReplyInv'
<1>1. at' = [at EXCEPT ![r] = pc] /\ at \in [Readers -> Places]
  BY DEF Become, ReplyInv, AtType
<1>2. at' \in [Readers -> Places]
  BY <1>1
<1>3. \A q \in Readers : at'[q] = at[q] \/ (at[q] \notin {"idle", "over"}
                                             /\ at'[q] \notin {"idle", "over"})
  BY <1>1
<1> QED
  BY <1>2, <1>3, MovesKeep

LEMMA UseGraphReply ==
  ASSUME ReplyInv, NEW r \in Readers, UseGraph(r)
  PROVE  ReplyInv'
<1>1. UNCHANGED requestVars
  BY DEF UseGraph
<1>2. CASE LoadRow(r)
  BY <1>1, <1>2, MovesKeep DEF LoadRow, ReplyInv, AtType
<1>3. CASE ~ LoadRow(r)
  <2>1. PICK pc \in {"loading", "asking", "failed", "crossing"} : Become(r, pc)
    BY <1>3 DEF UseGraph, LoadGraph, LoadDone, ReadGraph, LoadRefused, LoadBroken, Loaded
  <2>2. at[r] \in {"asking", "loading"}
    BY <1>3 DEF UseGraph, LoadGraph, LoadDone, ReadGraph, LoadRefused, LoadBroken, Loaded
  <2> QED
    BY <1>1, <2>1, <2>2, MoveKeeps DEF Places
<1> QED
  BY <1>2, <1>3

(* A search's outcome is noted.                                             *)
LEMMA DeliverReply ==
  ASSUME ReplyInv, NEW r \in Readers, Deliver(r)
  PROVE  ReplyInv'
<1> DEFINE c == r[1]
           t == r[2]
<1>1. c \in Callers /\ t \in Stops /\ r = <<c, t>>
  BY NearbyAssumption
<1> HIDE DEF c, t
<1>2. /\ timetable' = timetable /\ groups' = groups /\ reply' = reply
      /\ at[r] \in {"found", "failed"} /\ at' = [at EXCEPT ![r] = "over"]
      /\ firstErr' = [firstErr EXCEPT ![c] = @ \/ at[r] = "failed"]
      /\ res' = IF at[r] = "found" /\ timetable[t].arrive # Never
                  THEN [res EXCEPT ![c] = Append(@, t)] ELSE res
  BY DEF Deliver, Become, c, t
<1>3. /\ at \in [Readers -> Places] /\ timetable \in Timetables
      /\ DOMAIN groups = Callers /\ DOMAIN reply = Callers
      /\ res \in [Callers -> Seq(Stops)] /\ firstErr \in [Callers -> BOOLEAN]
  BY DEF ReplyInv, AtType
<1>4. \A d \in Callers : Candidates(d)' = Candidates(d) /\ Candidates(d) \subseteq Stops
  BY <1>2, CandidatesSame, CandidatesAreStops DEF ReplyInv
<1>5. \A d \in Callers, s \in Stops :
        /\ <<d, s>> \in Readers
        /\ at'[<<d, s>>] = IF d = c /\ s = t THEN "over" ELSE at[<<d, s>>]
  <2>1. \A d \in Callers, s \in Stops : <<d, s>> \in Readers /\ (<<d, s>> = r <=> d = c /\ s = t)
    BY <1>1, NearbyAssumption
  <2> QED
    BY <1>2, <1>3, <2>1
<1>6. /\ \A d \in Callers : d # c => res'[d] = res[d] /\ firstErr'[d] = firstErr[d]
      /\ firstErr'[c] = (firstErr[c] \/ at[r] = "failed")
      /\ firstErr' \in [Callers -> BOOLEAN]
  BY <1>1, <1>2, <1>3
<1>7. /\ res' \in [Callers -> Seq(Stops)]
      /\ \A s : s \in ToSet(res'[c]) <=>
                  s \in ToSet(res[c]) \/ (s = t /\ at[r] = "found" /\ timetable[t].arrive # Never)
  <2>1. CASE at[r] = "found" /\ timetable[t].arrive # Never
    <3>1. res' = [res EXCEPT ![c] = Append(res[c], t)] /\ res[c] \in Seq(Stops)
      BY <1>1, <1>2, <1>3, <2>1
    <3>2. /\ Append(res[c], t) \in Seq(Stops) /\ Len(Append(res[c], t)) = Len(res[c]) + 1
          /\ \A k \in 1 .. Len(res[c]) : Append(res[c], t)[k] = res[c][k]
          /\ Append(res[c], t)[Len(res[c]) + 1] = t
          /\ \A s : (s = t \/ s \in ToSet(res[c])) => s \in ToSet(Append(res[c], t))
      BY <1>1, <3>1, Appended
    <3>3. res' \in [Callers -> Seq(Stops)] /\ res'[c] = Append(res[c], t)
      BY <1>1, <1>3, <3>1, <3>2
    <3>4. \A s : s \in ToSet(Append(res[c], t)) => s = t \/ s \in ToSet(res[c])
      <4> SUFFICES ASSUME NEW s, s \in ToSet(Append(res[c], t))
                   PROVE  s = t \/ s \in ToSet(res[c])
        OBVIOUS
      <4>1. PICK k \in 1 .. Len(res[c]) + 1 : s = Append(res[c], t)[k]
        BY <3>1, <3>2 DEF ToSet
      <4>2. k \in 1 .. Len(res[c]) \/ k = Len(res[c]) + 1
        BY <3>1
      <4> QED
        BY <3>1, <3>2, <4>1, <4>2 DEF ToSet
    <3> QED
      BY <2>1, <3>2, <3>3, <3>4
  <2>2. CASE ~ (at[r] = "found" /\ timetable[t].arrive # Never)
    BY <1>2, <1>3, <2>2
  <2> QED
    BY <2>1, <2>2
<1>8. t \in Candidates(c)
  BY <1>1, <1>2 DEF ReplyInv
<1>9. reply[c] \in {Pending, Error}
  <2> SUFFICES ASSUME reply[c] \notin {Pending, Error} PROVE FALSE
    OBVIOUS
  <2>1. AllOver(c)
    BY <1>1 DEF ReplyInv
  <2> QED
    BY <1>1, <1>2, <1>8, <2>1 DEF AllOver
<1>10. ASSUME NEW d \in Callers
       PROVE  /\ (groups[d] = Unasked \/ GoodGroups(groups[d]))'
              /\ \A s \in Stops : at'[<<d, s>>] # "idle" => s \in Candidates(d)'
              /\ \A s \in ToSet(res'[d]) : /\ s \in Candidates(d)' /\ at'[<<d, s>>] = "over"
                                           /\ timetable'[s].arrive # Never
              /\ \A s \in Candidates(d)' :
                   at'[<<d, s>>] = "over" /\ ~ firstErr'[d] /\ timetable'[s].arrive # Never
                     => s \in ToSet(res'[d])
              /\ reply'[d] \notin {Pending, Error} =>
                   /\ groups'[d] # Unasked /\ AllOver(d)'
                   /\ ~ firstErr'[d] /\ reply'[d] = Listed(d)'
  <2>1. (groups[d] = Unasked \/ GoodGroups(groups[d]))'
    BY <1>2 DEF ReplyInv
  <2>2. \A s \in Stops : at'[<<d, s>>] # "idle" => s \in Candidates(d)'
    BY <1>4, <1>5, <1>8 DEF ReplyInv
  <2>3. CASE d = c
    <3>1. \A s \in ToSet(res'[d]) : /\ s \in Candidates(d)' /\ at'[<<d, s>>] = "over"
                                    /\ timetable'[s].arrive # Never
      BY <1>2, <1>4, <1>5, <1>7, <1>8, <2>3 DEF ReplyInv
    <3>2. \A s \in Candidates(d)' :
            at'[<<d, s>>] = "over" /\ ~ firstErr'[d] /\ timetable'[s].arrive # Never
              => s \in ToSet(res'[d])
      <4> SUFFICES ASSUME NEW s \in Candidates(c), at'[<<c, s>>] = "over", ~ firstErr'[c],
                          timetable[s].arrive # Never
                   PROVE  s \in ToSet(res'[c])
        BY <1>2, <1>4, <2>3
      <4>1. ~ firstErr[c] /\ at[r] = "found"
        BY <1>2, <1>6
      <4>2. CASE s = t
        BY <1>7, <4>1, <4>2
      <4>3. CASE s # t
        <5>1. at[<<c, s>>] = "over"
          BY <1>1, <1>4, <1>5, <4>3
        <5>2. s \in ToSet(res[c])
          BY <1>1, <4>1, <5>1 DEF ReplyInv
        <5> QED
          BY <1>7, <5>2
      <4> QED
        BY <4>2, <4>3
    <3> QED
      BY <1>2, <1>9, <2>1, <2>2, <2>3, <3>1, <3>2
  <2>4. CASE d # c
    <3>1. /\ res'[d] = res[d] /\ firstErr'[d] = firstErr[d] /\ reply'[d] = reply[d]
          /\ groups'[d] = groups[d] /\ Candidates(d)' = Candidates(d) /\ Listed(d)' = Listed(d)
          /\ \A s \in Candidates(d) : at'[<<d, s>>] = at[<<d, s>>]
      BY <1>2, <1>4, <1>5, <1>6, <2>4, ListedSame
    <3>2. AllOver(d) => AllOver(d)'
      BY <3>1 DEF AllOver
    <3> QED
      BY <1>2, <2>1, <2>2, <3>1, <3>2 DEF ReplyInv
  <2> QED
    BY <2>3, <2>4
<1>11. AtType'
  BY <1>2, <1>3 DEF AtType, Places
<1> QED
  BY <1>2, <1>3, <1>6, <1>7, <1>10, <1>11 DEF ReplyInv

LEMMA RunReply ==
  ASSUME ReplyInv, NEW r \in Readers, Run(r)
  PROVE  ReplyInv'
<1>1. CASE Search(r) \/ SearchEnds(r) \/ SearchFails(r)
  <2>1. UNCHANGED requestVars
    BY <1>1 DEF Search, SearchEnds, SearchFails
  <2>2. PICK pc \in {"asking", "searching", "found", "failed"} : Become(r, pc)
    BY <1>1 DEF Search, SearchEnds, SearchFails
  <2>3. at[r] \in {"begun", "searching", "crossing"}
    BY <1>1 DEF Search, SearchEnds, SearchFails
  <2> QED
    BY <2>1, <2>2, <2>3, MoveKeeps DEF Places
<1>2. CASE UseGraph(r)
  BY <1>2, UseGraphReply
<1>3. CASE Deliver(r)
  BY <1>3, DeliverReply
<1> QED
  BY <1>1, <1>2, <1>3 DEF Run

(* The stops near the caller are found, and searches begun.                 *)
LEMMA AskReply ==
  ASSUME ReplyInv, NEW c \in Callers, Ask(c)
  PROVE  ReplyInv'
<1>1. PICK gs \in NearByMode[c] :
        /\ groups' = [groups EXCEPT ![c] = gs]
        /\ at' = [r \in Readers |-> IF r[1] = c /\ r[2] \in Origins(gs) THEN "begun" ELSE at[r]]
  BY DEF Ask
<1>2. /\ groups[c] = Unasked /\ reply[c] = Pending
      /\ timetable' = timetable /\ res' = res /\ firstErr' = firstErr /\ reply' = reply
  BY DEF Ask
<1>3. /\ at \in [Readers -> Places] /\ timetable \in Timetables
      /\ DOMAIN groups = Callers /\ DOMAIN reply = Callers
      /\ res \in [Callers -> Seq(Stops)] /\ firstErr \in [Callers -> BOOLEAN]
  BY DEF ReplyInv, AtType
<1>4. GoodGroups(gs) /\ gs # Unasked
  BY AskedGood, GoodIsAsked
<1>5. groups'[c] = gs /\ DOMAIN groups' = Callers /\ \A d \in Callers : d # c => groups'[d] = groups[d]
  BY <1>1, <1>3
<1>6. AtType'
  BY <1>1, <1>3 DEF AtType, Places
<1>7. \A d \in Callers, s \in Stops :
        at'[<<d, s>>] = IF d = c /\ s \in Origins(gs) THEN "begun" ELSE at[<<d, s>>]
  <2>1. \A d \in Callers, s \in Stops :
          <<d, s>> \in Readers /\ <<d, s>>[1] = d /\ <<d, s>>[2] = s
    BY NearbyAssumption
  <2> HIDE DEF Origins
  <2> QED
    BY <1>1, <2>1
<1>8. Candidates(c) = {} /\ Candidates(c)' = Origins(gs) /\ ToSet(res[c]) = {}
  <2>1. Candidates(c) = {}
    BY <1>2 DEF Candidates
  <2>2. Candidates(c)' = Origins(gs)
    BY <1>4, <1>5 DEF Candidates, Origins
  <2> QED
    BY <2>1, <2>2 DEF ReplyInv
<1>9. ASSUME NEW d \in Callers
      PROVE  /\ (groups[d] = Unasked \/ GoodGroups(groups[d]))'
             /\ \A s \in Stops : at'[<<d, s>>] # "idle" => s \in Candidates(d)'
             /\ \A s \in ToSet(res'[d]) : /\ s \in Candidates(d)' /\ at'[<<d, s>>] = "over"
                                          /\ timetable'[s].arrive # Never
             /\ \A s \in Candidates(d)' :
                  at'[<<d, s>>] = "over" /\ ~ firstErr'[d] /\ timetable'[s].arrive # Never
                    => s \in ToSet(res'[d])
             /\ reply'[d] \notin {Pending, Error} =>
                  /\ groups'[d] # Unasked /\ AllOver(d)'
                  /\ ~ firstErr'[d] /\ reply'[d] = Listed(d)'
  <2>1. CASE d = c
    <3>1. GoodGroups(groups'[c]) /\ reply'[c] = Pending /\ ToSet(res'[c]) = {}
      BY <1>2, <1>4, <1>5, <1>8 DEF GoodGroups
    <3>2. \A s \in Stops : at'[<<c, s>>] # "idle" => s \in Candidates(c)'
      BY <1>7, <1>8 DEF ReplyInv
    <3>3. \A s \in Candidates(c)' : at'[<<c, s>>] # "over"
      <4>1. Candidates(c)' \subseteq Stops
        <5>1. Origins(gs) \subseteq Stops
          <6> SUFFICES ASSUME NEW s \in Origins(gs) PROVE s \in Stops
            OBVIOUS
          <6>1. gs \in Seq(Group)
            BY <1>4 DEF GoodGroups
          <6>2. PICK k \in DOMAIN gs : s \in ToSet(gs[k].stops)
            BY DEF Origins
          <6>3. gs[k].stops \in Seq(Located)
            BY <6>1 DEF Group
          <6> QED
            BY <6>2, <6>3 DEF ToSet, Located
        <5> QED
          BY <1>8, <5>1
      <4> QED
        BY <1>7, <1>8, <4>1
    <3> QED
      BY <2>1, <3>1, <3>2, <3>3 DEF GoodGroups
  <2>2. CASE d # c
    <3>1. /\ groups'[d] = groups[d] /\ Candidates(d)' = Candidates(d) /\ Listed(d)' = Listed(d)
          /\ Candidates(d) \subseteq Stops
      BY <1>2, <1>5, <2>2, CandidatesSame, ListedSame, CandidatesAreStops DEF ReplyInv
    <3>2. \A s \in Stops : at'[<<d, s>>] = at[<<d, s>>]
      BY <1>7, <2>2
    <3>3. AllOver(d) => AllOver(d)'
      BY <3>1, <3>2 DEF AllOver
    <3>4. (groups[d] = Unasked \/ GoodGroups(groups[d]))'
      BY <3>1 DEF ReplyInv, GoodGroups
    <3> QED
      BY <1>2, <3>1, <3>2, <3>3, <3>4 DEF ReplyInv
  <2> QED
    BY <2>1, <2>2
<1> QED
  BY <1>2, <1>3, <1>5, <1>6, <1>9 DEF ReplyInv

(* What an answer is made of does not change as answers are given.          *)
LEMMA AnswersKeep ==
  ASSUME ReplyInv, UNCHANGED <<at, timetable, groups, res, firstErr>>, DOMAIN reply' = Callers,
         \A d \in Callers : reply'[d] = reply[d] \/ reply'[d] = Error
           \/ (groups[d] # Unasked /\ AllOver(d) /\ ~ firstErr[d] /\ reply'[d] = Listed(d))
  PROVE  ReplyInv'
<1>1. \A d \in Callers : Candidates(d)' = Candidates(d) /\ Listed(d)' = Listed(d)
  BY CandidatesSame, ListedSame
<1>2. \A d \in Callers : AllOver(d) => AllOver(d)'
  BY <1>1 DEF AllOver
<1>3. \A d \in Callers : (groups[d] = Unasked \/ GoodGroups(groups[d]))'
  BY DEF ReplyInv, GoodGroups
<1>4. ASSUME NEW d \in Callers, reply'[d] \notin {Pending, Error}
      PROVE  groups[d] # Unasked /\ AllOver(d) /\ ~ firstErr[d] /\ reply'[d] = Listed(d)
  BY <1>4 DEF ReplyInv
<1> QED
  BY <1>1, <1>2, <1>3, <1>4 DEF ReplyInv, AtType

LEMMA NextReply == ReplyInv /\ [Next]_vars => ReplyInv'
<1> SUFFICES ASSUME ReplyInv, [Next]_vars PROVE ReplyInv'
  OBVIOUS
<1>1. CASE \E c \in Callers : Ask(c)
  BY <1>1, AskReply
<1>2. CASE \E c \in Callers : AskFails(c)
  BY <1>2, AnswersKeep DEF AskFails, graphVars, ReplyInv
<1>3. CASE \E c \in Callers : Trouble(c)
  BY <1>3, AnswersKeep DEF Trouble, graphVars, ReplyInv
<1>4. CASE \E c \in Callers : Reply(c)
  <2>1. PICK c \in Callers : Reply(c)
    BY <1>4
  <2>2. /\ UNCHANGED <<at, timetable, groups, res, firstErr>>
        /\ groups[c] # Unasked /\ AllOver(c) /\ firstErr[c] \in BOOLEAN
        /\ reply' = [reply EXCEPT ![c] = IF firstErr[c] THEN Error ELSE Listed(c)]
    BY <2>1 DEF Reply, Listed, graphVars, ReplyInv
  <2> QED
    BY <2>2, AnswersKeep DEF ReplyInv
<1>5. CASE \E r \in Readers : Run(r)
  BY <1>5, RunReply
<1>6. CASE UNCHANGED vars
  BY <1>6, AnswersKeep DEF vars, graphVars, ReplyInv
<1> QED
  BY <1>1, <1>2, <1>3, <1>4, <1>5, <1>6 DEF Next

(***************************************************************************)
(* nearby.go:126-128 and 166: whatever the number of requests and of stops, *)
(* whatever order the searches come to an end in and whichever of them     *)
(* fail, an answer is of all of them: every stop with a journey once, under *)
(* its mode, and the soonest first.                                        *)
(***************************************************************************)
THEOREM AnswersAreWhole == Spec => []AnswerIsWhole
<1>1. ASSUME ReplyInv PROVE AnswerIsWhole
  <2>1. ASSUME NEW c \in Callers, reply[c] \notin {Pending, Error}
        PROVE  /\ groups[c] # Unasked /\ GoodGroups(groups[c]) /\ timetable \in Timetables
               /\ ~ firstErr[c] /\ reply[c] = Listed(c)
               /\ ToSet(res[c]) = {s \in Candidates(c) : timetable[s].arrive # Never}
    <3>1. groups[c] # Unasked /\ AllOver(c) /\ ~ firstErr[c] /\ reply[c] = Listed(c)
      BY <1>1, <2>1 DEF ReplyInv
    <3>2. \A s : s \in ToSet(res[c]) <=> s \in Candidates(c) /\ timetable[s].arrive # Never
      BY <1>1, <3>1 DEF ReplyInv, AllOver
    <3> QED
      BY <1>1, <3>1, <3>2 DEF ReplyInv
  <2> QED
    BY <2>1, WholeAnswer DEF AnswerIsWhole
<1> QED
  BY InitReply, NextReply, <1>1, PTL DEF Spec
=============================================================================
