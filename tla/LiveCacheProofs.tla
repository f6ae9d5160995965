--------------------------- MODULE LiveCacheProofs ---------------------------
(***************************************************************************)
(* Proofs about LiveCache, for any callers, feeds, TTL and timeout.        *)
(***************************************************************************)
EXTENDS LiveCache, TLAPS

(* Every reachable state is well typed, and what a fetch reads, stores and *)
(* serves is as old as the parts of RoundInvariant say.                    *)
LEMMA RoundInit == Init => RoundInvariant
<1> SUFFICES ASSUME Init PROVE RoundInvariant
  OBVIOUS
<1> USE TimeAssumption, NilAssumption DEF Init
<1>1. TypeOK
  <2>1. 0 \in Time
    BY DEF Time
  <2>2. /\ job \in [Callers -> [Feeds -> {"idle", "running", "read", "failed"}]]
        /\ data \in [Callers -> Snapshot]
    BY DEF Snapshot, Empty, NoJobs
  <2>3. reply \in [Callers -> [snap : Snapshot \cup {Nil}, err : BOOLEAN,
                               when : Time, tried : BOOLEAN]]
    BY <2>1
  <2>4. pc \in [Callers -> {"idle", "locking", "fetching"}]
    OBVIOUS
  <2>5. QED
    BY <2>1, <2>2, <2>3, <2>4 DEF TypeOK
<1>2. OneFetchAtATime
  BY DEF OneFetchAtATime, NoJobs
<1>3. RoundTimed /\ StoredInRound
  BY DEF RoundTimed, StoredInRound
<1>4. ReadInRound
  BY DEF ReadInRound, Empty, NoJobs
<1>5. ServedAge
  BY DEF ServedAge
<1>6. QED
  BY <1>1, <1>2, <1>3, <1>4, <1>5 DEF RoundInvariant

LEMMA RoundStep == RoundInvariant /\ [Next]_vars => RoundInvariant'
<1> SUFFICES ASSUME RoundInvariant, [Next]_vars PROVE RoundInvariant'
  OBVIOUS
<1> USE FeedsAssumption, TimeAssumption, NilAssumption
<1>1. ASSUME NEW c \in Callers, Call(c) PROVE RoundInvariant'
  BY <1>1 DEF RoundInvariant, TypeOK, OneFetchAtATime, RoundTimed, ReadInRound,
     StoredInRound, ServedAge, Time, Snapshot, Learned, Call, cache, fetch
<1>2. ASSUME NEW c \in Callers, Hit(c) PROVE RoundInvariant'
  BY <1>2 DEF RoundInvariant, TypeOK, OneFetchAtATime, RoundTimed, ReadInRound,
     StoredInRound, ServedAge, Time, Snapshot, Learned, Hit, Fresh, Reply, cache, fetch
<1>3. ASSUME NEW c \in Callers, StartFetch(c) PROVE RoundInvariant'
  <2> USE DEF RoundInvariant
  <2>1. TypeOK'
    BY <1>3 DEF TypeOK, Time, Snapshot, Empty, StartFetch, cache
  <2>2. OneFetchAtATime'
    BY <1>3 DEF TypeOK, OneFetchAtATime, StartFetch
  <2>3. RoundTimed'
    BY <1>3 DEF TypeOK, Time, RoundTimed, StoredInRound, StartFetch, Fresh, cache
  <2>4. ReadInRound'
    <3>1. /\ data \in [Callers -> [Feeds -> Time \cup {None}]]
          /\ data' = [data EXCEPT ![c] = Empty] /\ mu = Nil
      BY <1>3 DEF TypeOK, Snapshot, StartFetch
    <3>2. \A d \in Callers, f \in Feeds : data[d][f] = None /\ job[d][f] # "read"
      BY <3>1 DEF TypeOK, OneFetchAtATime, ReadInRound
    <3>3. \A d \in Callers, f \in Feeds : data'[d][f] = None
      BY <3>1, <3>2 DEF Empty
    <3>4. \A d \in Callers, f \in Feeds : job'[d][f] # "read"
      BY <1>3, <3>2 DEF TypeOK, StartFetch
    <3> QED
      BY <3>3, <3>4 DEF ReadInRound
  <2>5. StoredInRound'
    BY <1>3 DEF StoredInRound, Learned, StartFetch, cache
  <2>6. ServedAge'
    BY <1>3 DEF ServedAge, Learned, StartFetch
  <2> QED
    BY <2>1, <2>2, <2>3, <2>4, <2>5, <2>6
<1>4. ASSUME NEW c \in Callers, Finish(c) PROVE RoundInvariant'
  <2> USE DEF RoundInvariant
  <2>1. PICK s, e :
          /\ Return(c, s, e)
          /\ \/ s = snap /\ snap # Nil /\ UNCHANGED cache
             \/ s = Nil /\ snap = Nil /\ cacheErr' = TRUE /\ UNCHANGED <<snap, at>>
             \/ s = data[c] /\ snap' = s /\ at' = clock /\ cacheErr' = FetchErr(c)
          /\ e \in BOOLEAN
    BY <1>4 DEF Finish, KeepStale, FailEmpty, Store
  <2>2. mu = c /\ pc[c] = "fetching"
    BY <1>4 DEF Finish, KeepStale, FailEmpty, Store, Fetched, OneFetchAtATime
  <2>3. snap' \in Snapshot \cup {Nil} /\ s = snap' /\ (snap' = snap \/ snap' = data[c])
    BY <2>1 DEF TypeOK, cache
  <2>4. TypeOK'
    <3>1. at' \in Time \cup {None} /\ cacheErr' \in BOOLEAN
      BY <2>1 DEF TypeOK, cache, FetchErr
    <3>2. /\ job' \in [Callers -> [Feeds -> {"idle", "running", "read", "failed"}]]
          /\ data' \in [Callers -> Snapshot]
      BY <2>1 DEF TypeOK, Return, NoJobs, Empty, Snapshot
    <3>3. reply' \in [Callers -> [snap : Snapshot \cup {Nil}, err : BOOLEAN,
                                  when : Time, tried : BOOLEAN]]
      BY <2>1, <2>3 DEF TypeOK, Return, Reply
    <3>4. QED
      BY <2>1, <2>3, <3>1, <3>2, <3>3 DEF TypeOK, Return
  <2>5. OneFetchAtATime'
    BY <2>1, <2>2 DEF OneFetchAtATime, TypeOK, Return, NoJobs
  <2>6. RoundTimed'
    BY <2>1 DEF RoundTimed, Return
  <2>7. ReadInRound'
    BY <2>1 DEF ReadInRound, TypeOK, Return, NoJobs, Empty
  <2>8. StoredInRound'
    <3>1. CASE UNCHANGED <<snap, at>>
      BY <2>1, <3>1 DEF StoredInRound, Return, Learned
    <3>2. CASE snap' = data[c] /\ at' = clock
      <4>1. snap' # Nil /\ at' # None /\ at' <= clock'
        BY <2>1, <3>2 DEF Return, TypeOK, Time, Snapshot
      <4>2. ASSUME NEW f \in Feeds, snap'[f] # None
            PROVE  snap'[f] <= at' /\ at' <= snap'[f] + Timeout
        BY <2>2, <3>2, <4>2 DEF ReadInRound, RoundTimed, TypeOK, Time, Snapshot
      <4>3. QED
        BY <4>1, <4>2 DEF StoredInRound, Learned
    <3>3. QED
      BY <2>1, <3>1, <3>2 DEF cache
  <2>9. ServedAge'
    BY <2>1 DEF ServedAge, TypeOK, Return, Reply, Learned
  <2>10. QED
    BY <2>4, <2>5, <2>6, <2>7, <2>8, <2>9
<1>5. ASSUME NEW c \in Callers, NEW f \in Feeds, FeedRead(c, f) PROVE RoundInvariant'
  BY <1>5 DEF RoundInvariant, TypeOK, OneFetchAtATime, RoundTimed, ReadInRound,
     StoredInRound, ServedAge, Time, Snapshot, Learned, FeedRead, cache
<1>6. ASSUME NEW c \in Callers, NEW f \in Feeds, FeedFail(c, f) PROVE RoundInvariant'
  BY <1>6 DEF RoundInvariant, TypeOK, OneFetchAtATime, RoundTimed, ReadInRound,
     StoredInRound, ServedAge, Time, Snapshot, Learned, FeedFail, cache
<1>7. CASE Tick
  BY <1>7 DEF RoundInvariant, TypeOK, OneFetchAtATime, RoundTimed, ReadInRound,
     StoredInRound, ServedAge, Time, Snapshot, Learned, Tick, cache, fetch
<1>8. CASE UNCHANGED vars
  BY <1>8 DEF RoundInvariant, TypeOK, OneFetchAtATime, RoundTimed, ReadInRound,
     StoredInRound, ServedAge, Time, Snapshot, Learned, vars, cache, fetch
<1>9. QED
  BY <1>1, <1>2, <1>3, <1>4, <1>5, <1>6, <1>7, <1>8 DEF Next, Finish

(***************************************************************************)
(* In every reachable state one caller at most is fetching, and everything *)
(* read, stored or served is as old as RoundInvariant says.                *)
(***************************************************************************)
THEOREM RoundInvariantHolds == Spec => []RoundInvariant
BY RoundInit, RoundStep, PTL DEF Spec

(* The variables of live.Cache, its mutex, its callers and their fetches   *)
(* keep their types.                                                       *)
THEOREM TypeCorrect == Spec => []TypeOK
<1>1. RoundInvariant => TypeOK
  BY DEF RoundInvariant
<1>2. QED
  BY <1>1, RoundInvariantHolds, PTL

(* Cache.mu keeps two callers of Get from fetching at the same time.       *)
THEOREM FetchesExclude == Spec => []OneFetchAtATime
<1>1. RoundInvariant => OneFetchAtATime
  BY DEF RoundInvariant
<1>2. QED
  BY <1>1, RoundInvariantHolds, PTL

(* A Get that does not fetch serves nothing read a TTL and a request       *)
(* timeout ago, or earlier.                                                *)
THEOREM ServedAgeBounded == Spec => []ServedAge
<1>1. RoundInvariant => ServedAge
  BY DEF RoundInvariant
<1>2. QED
  BY <1>1, RoundInvariantHolds, PTL

-----------------------------------------------------------------------------
(* What a step of the code may do to the snapshot *)

(* Nothing but Store touches the snapshot.                                 *)
LEMMA OnlyStore ==
  ASSUME [Next]_vars, ~UNCHANGED <<snap, at>>
  PROVE  \E c \in Callers : Store(c)
BY DEF Next, Call, Hit, StartFetch, KeepStale, FailEmpty, FeedRead, FeedFail, Tick,
   vars, cache

(***************************************************************************)
(* What Store stores learned something, and was read by a round that began *)
(* a TTL or more after the snapshot it replaces was stored.                *)
(***************************************************************************)
LEMMA StoreStep ==
  ASSUME RoundInvariant, NEW c \in Callers, Store(c)
  PROVE  /\ Feeds # {} => Learned(data[c]) # {}
         /\ data[c] \in Snapshot /\ data[c] # Nil
         /\ at' \in Time
         /\ snap # Nil =>
              /\ at \in Time
              /\ at' >= at + TTL
              /\ \A f \in Learned(snap) \cap Learned(data[c]) : data[c][f] >= snap[f]
<1> USE FeedsAssumption, TimeAssumption, NilAssumption DEF RoundInvariant
<1>1. data[c] # Nil
  BY DEF TypeOK, Snapshot, Time
<1>2. mu = c /\ data[c] \in Snapshot
  BY DEF Store, Fetched, OneFetchAtATime, TypeOK
<1>3. Feeds # {} => Learned(data[c]) # {}
  <2>1. CASE ~FetchErr(c)
    BY <2>1 DEF Store, Fetched, FetchErr, ReadInRound, Learned
  <2>2. CASE ~AtIsZero(data[c])
    BY <2>2 DEF AtIsZero
  <2>3. QED
    BY <2>1, <2>2 DEF Store, NothingLearned
<1>4. at' = clock /\ clock \in Time
  BY DEF Store, TypeOK
<1>5. ASSUME snap # Nil
      PROVE  /\ at \in Time
             /\ at' >= at + TTL
             /\ \A f \in Learned(snap) \cap Learned(data[c]) : data[c][f] >= snap[f]
  <2>1. at \in Time /\ started \in Time /\ started <= clock /\ started >= at + TTL
    BY <1>2, <1>5 DEF RoundTimed, StoredInRound, TypeOK
  <2>2. ASSUME NEW f \in Learned(snap) \cap Learned(data[c])
        PROVE  data[c][f] >= snap[f]
    <3>1. snap[f] \in Nat /\ data[c][f] \in Nat
      BY <1>2, <1>5, <2>2 DEF TypeOK, Snapshot, Learned, Time
    <3>2. started <= data[c][f] /\ snap[f] <= at
      BY <1>5, <2>2 DEF ReadInRound, StoredInRound, Learned
    <3>3. QED
      BY <2>1, <3>1, <3>2 DEF Time
  <2>3. QED
    BY <1>4, <2>1, <2>2 DEF Time
<1>6. QED
  BY <1>1, <1>2, <1>3, <1>4, <1>5

(* An outage of every feed never replaces data by an empty snapshot.       *)
THEOREM OutageKeepsDataHolds == Spec => OutageKeepsData
<1>1. RoundInvariant /\ [Next]_vars =>
        [(snap # Nil /\ ~AtIsZero(snap)) => (snap' # Nil /\ ~AtIsZero(snap'))]_vars
  <2> SUFFICES ASSUME RoundInvariant, [Next]_vars, snap # Nil, Learned(snap) # {}
               PROVE  snap' # Nil /\ Learned(snap') # {}
    BY DEF AtIsZero
  <2>1. CASE UNCHANGED <<snap, at>>
    BY <2>1 DEF Learned
  <2>2. CASE ~UNCHANGED <<snap, at>>
    <3>1. PICK c \in Callers : Store(c)
      BY <2>2, OnlyStore
    <3>2. snap' = data[c] /\ Feeds # {}
      BY <3>1 DEF Store, Learned
    <3>3. QED
      BY <3>1, <3>2, StoreStep
  <2>3. QED
    BY <2>1, <2>2
<1>2. QED
  BY <1>1, RoundInvariantHolds, PTL DEF Spec, OutageKeepsData

(* Refreshes that land are a TTL apart.                                    *)
THEOREM RefreshSpacingHolds == Spec => RefreshSpacing
<1>1. RoundInvariant /\ [Next]_vars =>
        [(at' # at /\ at # None) => at' - at >= TTL]_vars
  <2> SUFFICES ASSUME RoundInvariant, [Next]_vars, at' # at, at # None
               PROVE  at' - at >= TTL
    OBVIOUS
  <2>1. snap # Nil
    BY DEF RoundInvariant, StoredInRound
  <2>2. QED
    BY <2>1, OnlyStore, StoreStep, TimeAssumption DEF Time
<1>2. QED
  BY <1>1, RoundInvariantHolds, PTL DEF Spec, RefreshSpacing

(* No refresh puts back an older reading of a feed.                        *)
THEOREM NoFeedGoesBackHolds == Spec => NoFeedGoesBack
<1>1. RoundInvariant /\ [Next]_vars =>
        [(snap # Nil /\ snap' # Nil) =>
           \A f \in Learned(snap) \cap Learned(snap') : snap'[f] >= snap[f]]_vars
  <2> SUFFICES ASSUME RoundInvariant, [Next]_vars, snap # Nil, snap' # Nil,
                      NEW f \in Learned(snap) \cap Learned(snap')
               PROVE  snap'[f] >= snap[f]
    OBVIOUS
  <2>1. CASE UNCHANGED <<snap, at>>
    BY <2>1 DEF RoundInvariant, TypeOK, Snapshot, Learned, Time
  <2>2. CASE ~UNCHANGED <<snap, at>>
    BY <2>2, OnlyStore, StoreStep DEF Store, Learned
  <2>3. QED
    BY <2>1, <2>2
<1>2. QED
  BY <1>1, RoundInvariantHolds, PTL DEF Spec, NoFeedGoesBack

-----------------------------------------------------------------------------
(***************************************************************************)
(* The cache implements the register: every step answers one caller from   *)
(* the register, advances it, finds it empty, or is invisible to callers.  *)
(***************************************************************************)
THEOREM CacheImplementsRegister == Spec => ImplementsRegister
<1> DEFINE answer == [c \in Callers |-> [snap |-> reply[c].snap, err |-> reply[c].err]]
<1>1. Init => Register!RegisterInit
  BY DEF Init, Register!RegisterInit
<1>2. RoundInvariant /\ [Next]_vars => [Register!RegisterNext]_(Register!rvars)
  <2> SUFFICES ASSUME RoundInvariant, [Next]_vars
               PROVE  [Register!RegisterNext]_(Register!rvars)
    OBVIOUS
  <2> USE DEF RoundInvariant
  <2>1. CASE UNCHANGED <<snap, reply>>
    BY <2>1 DEF Register!rvars
  <2>2. ASSUME NEW c \in Callers, NEW s, NEW e, NEW t,
               reply' = [reply EXCEPT ![c] = Reply(s, e, t)]
        PROVE  answer' = [answer EXCEPT ![c] = [snap |-> s, err |-> e]]
    <3>1. reply'[c].snap = s /\ reply'[c].err = e
      BY <2>2 DEF TypeOK, Reply
    <3>2. \A d \in Callers : d # c => reply'[d] = reply[d]
      BY <2>2 DEF TypeOK
    <3>3. answer' = [d \in Callers |-> [snap |-> reply'[d].snap, err |-> reply'[d].err]]
      OBVIOUS
    <3>4. QED
      BY <3>1, <3>2, <3>3
  <2>3. ASSUME NEW c \in Callers, Hit(c) \/ KeepStale(c) PROVE Register!Answer(c)
    <3>1. snap # Nil /\ snap' = snap
      BY <2>3 DEF Hit, Fresh, KeepStale, cache
    <3>2. answer' = [answer EXCEPT ![c] = [snap |-> snap, err |-> FALSE]]
      <4>1. CASE Hit(c)
        BY <2>2, <4>1 DEF Hit
      <4>2. CASE KeepStale(c)
        BY <2>2, <4>2 DEF KeepStale, Return
      <4>3. QED
        BY <2>3, <4>1, <4>2
    <3>3. QED
      BY <3>1, <3>2 DEF Register!Answer
  <2>4. ASSUME NEW c \in Callers, FailEmpty(c) PROVE Register!Refuse(c)
    <3>1. PICK e : e = TRUE
      OBVIOUS
    <3>2. reply' = [reply EXCEPT ![c] = Reply(Nil, e, e)]
      BY <2>4, <3>1, Zenon DEF FailEmpty, Return
    <3>3. answer' = [answer EXCEPT ![c] = [snap |-> Nil, err |-> e]]
      BY <2>2, <3>2
    <3>4. answer' = [answer EXCEPT ![c] = [snap |-> Nil, err |-> TRUE]]
      BY <3>1, <3>3, Zenon
    <3>5. QED
      BY <2>4, <3>4 DEF FailEmpty, Register!Refuse
  <2>5. ASSUME NEW c \in Callers, Store(c) PROVE Register!Advance(c)
    <3>1. answer' = [answer EXCEPT ![c] = [snap |-> snap', err |-> FALSE]]
      <4>1. PICK e, t : e = FALSE /\ t = TRUE
        OBVIOUS
      <4>2. reply' = [reply EXCEPT ![c] = Reply(snap', e, t)]
        BY <2>5, <4>1, Zenon DEF Store, Return
      <4>3. answer' = [answer EXCEPT ![c] = [snap |-> snap', err |-> e]]
        BY <2>2, <4>2
      <4>4. QED
        BY <4>1, <4>3, Zenon
    <3>2. snap' # Nil /\ Register!Supersedes(snap', snap)
      BY <2>5, StoreStep DEF Store, Register!Supersedes, Register!Learned, Learned
    <3>3. QED
      BY <3>1, <3>2 DEF Register!Advance
  <2>6. QED
    BY <2>1, <2>3, <2>4, <2>5
       DEF Next, Call, StartFetch, FeedRead, FeedFail, Tick, vars, cache, fetch,
           Register!RegisterNext
<1>3. QED
  BY <1>1, <1>2, RoundInvariantHolds, PTL DEF Spec, ImplementsRegister, Register!RegisterSpec
=============================================================================
