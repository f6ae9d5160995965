------------------------------ MODULE LiveCache ------------------------------
(***************************************************************************)
(* The realtime snapshot every tool call shares (live/live.go) and the     *)
(* fetch that refreshes it (FetchLive in live.go): callers of Cache.Get    *)
(* contend for one mutex, the holder starts a goroutine per feed, waits    *)
(* for all of them and decides what to keep.                               *)
(*                                                                         *)
(* Time is counted in ticks of the real clock.  The only thing the cache   *)
(* tells apart about a feed's contents is whether there are any and how    *)
(* old they are, so a feed's data is the tick at which its body was read.  *)
(***************************************************************************)
EXTENDS Naturals, FiniteSets

CONSTANTS
  Callers,   (* Goroutines that call Cache.Get.                            *)
  Feeds,     (* The feeds of the configured modes, one job each.           *)
  TTL,       (* live.TTL, in ticks.                                        *)
  Timeout,   (* The HTTP client's timeout, in ticks.                       *)
  MaxClock,  (* Bound on the clock; a bound of the model only.             *)
  None,      (* A feed nothing was read from, or a time not set.           *)
  Nil        (* The nil snapshot, and the mutex nobody holds.              *)

ASSUME FeedsAssumption == IsFiniteSet(Feeds)

ASSUME TimeAssumption ==
  /\ TTL \in Nat /\ Timeout \in Nat /\ MaxClock \in Nat
  /\ None \notin Nat

ASSUME NilAssumption ==
  /\ Nil \notin Callers
  /\ Nil \notin [Feeds -> Nat \cup {None}]

VARIABLES
  clock,     (* The current tick.                                          *)
  mu,        (* The caller holding Cache.mu.                               *)
  snap,      (* Cache.snap.                                                *)
  at,        (* Cache.at: when snap was stored.                            *)
  cacheErr,  (* Cache.err: whether the last recorded outcome was an error. *)
  pc,        (* Each caller's place in Get.                                *)
  job,       (* Each feed's goroutine in a caller's FetchLive.             *)
  data,      (* What a caller's FetchLive has read so far.                 *)
  started,   (* The tick at which the latest FetchLive began.              *)
  reply      (* What each caller's last Get returned, when, and whether    *)
             (* that call fetched.                                         *)

cache == <<snap, at, cacheErr>>
fetch == <<job, data, started>>
vars  == <<clock, mu, cache, pc, fetch, reply>>

Time     == 0 .. MaxClock
Snapshot == [Feeds -> Time \cup {None}]
Empty    == [f \in Feeds |-> None]
NoJobs   == [f \in Feeds |-> "idle"]

(* The feeds a snapshot learned something from. *)
Learned(s) == {f \in Feeds : s[f] # None}

(* Live.At.IsZero: NewLive met no data from which to take a timestamp. *)
AtIsZero(s) == Learned(s) = {}

Reply(s, e, tried) == [snap |-> s, err |-> e, when |-> clock, tried |-> tried]

Init ==
  /\ clock = 0
  /\ mu = Nil
  /\ snap = Nil
  /\ at = None
  /\ cacheErr = FALSE
  /\ pc = [c \in Callers |-> "idle"]
  /\ job = [c \in Callers |-> NoJobs]
  /\ data = [c \in Callers |-> Empty]
  /\ started = None
  /\ reply = [c \in Callers |->
                [snap |-> Nil, err |-> FALSE, when |-> 0, tried |-> FALSE]]

-----------------------------------------------------------------------------
(* Cache.Get *)

(* A tool calls Get and queues for the mutex. *)
Call(c) ==
  /\ pc[c] = "idle"
  /\ pc' = [pc EXCEPT ![c] = "locking"]
  /\ UNCHANGED <<clock, mu, cache, fetch, reply>>

(* Mutants of Fresh: one tick too long; counted from when the fetch began.  *)
FreshTooLong == snap # Nil /\ clock - at <= TTL
FreshFromStart == snap # Nil /\ clock - started < TTL

Fresh == snap # Nil /\ clock - at < TTL

(* With the mutex: the snapshot is young enough to be returned as it is. *)
Hit(c) ==
  /\ pc[c] = "locking" /\ mu = Nil
  /\ Fresh
  /\ pc' = [pc EXCEPT ![c] = "idle"]
  /\ reply' = [reply EXCEPT ![c] = Reply(snap, FALSE, FALSE)]
  /\ UNCHANGED <<clock, mu, cache, fetch>>

(* Mutant of StartFetch: the mutex is not held across the fetch.            *)
StartFetchUnlocked(c) ==
  /\ pc[c] = "locking"
  /\ ~Fresh
  /\ mu' = c
  /\ pc' = [pc EXCEPT ![c] = "fetching"]
  /\ job' = [job EXCEPT ![c] = [f \in Feeds |-> "running"]]
  /\ data' = [data EXCEPT ![c] = Empty]
  /\ started' = clock
  /\ UNCHANGED <<clock, cache, reply>>

(* With the mutex: it is not, so FetchLive starts a goroutine per feed. *)
StartFetch(c) ==
  /\ pc[c] = "locking" /\ mu = Nil
  /\ ~Fresh
  /\ mu' = c
  /\ pc' = [pc EXCEPT ![c] = "fetching"]
  /\ job' = [job EXCEPT ![c] = [f \in Feeds |-> "running"]]
  /\ data' = [data EXCEPT ![c] = Empty]
  /\ started' = clock
  /\ UNCHANGED <<clock, cache, reply>>

(* wg.Wait returns once no goroutine is left. *)
Fetched(c) ==
  pc[c] = "fetching" /\ \A f \in Feeds : job[c][f] \in {"read", "failed"}

(* FetchLive returned an error: errors.Join of what the goroutines met. *)
FetchErr(c) == \E f \in Feeds : job[c][f] = "failed"

(* Mutant of NothingLearned: test the snapshot for nil, which it never is.  *)
OnlyNilIsNothing(c) == FetchErr(c) /\ data[c] = Nil

(* An error, and a snapshot that learned nothing. *)
NothingLearned(c) == FetchErr(c) /\ AtIsZero(data[c])

Return(c, s, e) ==
  /\ mu' = Nil
  /\ pc' = [pc EXCEPT ![c] = "idle"]
  /\ job' = [job EXCEPT ![c] = NoJobs]
  /\ data' = [data EXCEPT ![c] = Empty]
  /\ reply' = [reply EXCEPT ![c] = Reply(s, e, TRUE)]
  /\ UNCHANGED <<clock, started>>

(* Mutant of KeepStale: the fallback returns without unlocking.             *)
KeepStaleLocked(c) ==
  /\ Fetched(c) /\ NothingLearned(c)
  /\ snap # Nil
  /\ pc' = [pc EXCEPT ![c] = "idle"]
  /\ job' = [job EXCEPT ![c] = NoJobs]
  /\ data' = [data EXCEPT ![c] = Empty]
  /\ reply' = [reply EXCEPT ![c] = Reply(snap, FALSE, TRUE)]
  /\ UNCHANGED <<clock, mu, cache, started>>

(* Every feed failed, and there is an older snapshot to fall back on. *)
KeepStale(c) ==
  /\ Fetched(c) /\ NothingLearned(c)
  /\ snap # Nil
  /\ Return(c, snap, FALSE)
  /\ UNCHANGED cache

(* Every feed failed, and nothing was ever learned. *)
FailEmpty(c) ==
  /\ Fetched(c) /\ NothingLearned(c)
  /\ snap = Nil
  /\ Return(c, Nil, TRUE)
  /\ cacheErr' = TRUE
  /\ UNCHANGED <<snap, at>>

(* Mutants of Store: at is when the fetch began; the caller is handed the   *)
(* snapshot that was just replaced.                                        *)
StoreStarted(c) ==
  /\ Fetched(c) /\ ~NothingLearned(c)
  /\ snap' = data[c]
  /\ at' = started
  /\ cacheErr' = FetchErr(c)
  /\ Return(c, data[c], FALSE)
StoreReturnsOld(c) ==
  /\ Fetched(c) /\ ~NothingLearned(c)
  /\ snap' = data[c]
  /\ at' = clock
  /\ cacheErr' = FetchErr(c)
  /\ Return(c, snap, FALSE)

(* Something was learned: it replaces the snapshot, whatever else failed. *)
Store(c) ==
  /\ Fetched(c) /\ ~NothingLearned(c)
  /\ snap' = data[c]
  /\ at' = clock
  /\ cacheErr' = FetchErr(c)
  /\ Return(c, data[c], FALSE)

-----------------------------------------------------------------------------
(* The goroutines of FetchLive, in whatever order the gateway answers *)

FeedRead(c, f) ==
  /\ job[c][f] = "running"
  /\ job' = [job EXCEPT ![c][f] = "read"]
  /\ data' = [data EXCEPT ![c][f] = clock]
  /\ UNCHANGED <<clock, mu, cache, pc, started, reply>>

(* A refused request, a timeout, a cancelled context or an undecodable body. *)
FeedFail(c, f) ==
  /\ job[c][f] = "running"
  /\ job' = [job EXCEPT ![c][f] = "failed"]
  /\ UNCHANGED <<clock, mu, cache, pc, data, started, reply>>

(***************************************************************************)
(* Time passes, but not past the moment by which the HTTP client has given *)
(* up on every request of the fetch under way.                             *)
(***************************************************************************)
Tick ==
  /\ clock < MaxClock
  /\ mu # Nil => clock < started + Timeout
  /\ clock' = clock + 1
  /\ UNCHANGED <<mu, cache, pc, fetch, reply>>

-----------------------------------------------------------------------------

Finish(c) == KeepStale(c) \/ FailEmpty(c) \/ Store(c)
Acquire(c) == Hit(c) \/ StartFetch(c)

Next ==
  \/ \E c \in Callers : Call(c) \/ Hit(c) \/ StartFetch(c)
                          \/ KeepStale(c) \/ FailEmpty(c) \/ Store(c)
  \/ \E c \in Callers, f \in Feeds : FeedRead(c, f) \/ FeedFail(c, f)
  \/ Tick

Spec == Init /\ [][Next]_vars

(***************************************************************************)
(* Every request ends, if only in the client's timeout; the holder of the  *)
(* mutex runs on; and a waiter cannot be overtaken for ever, because a Go  *)
(* mutex hands itself to the longest waiter once it has waited a           *)
(* millisecond.  That hand-over is strong fairness of taking the lock.     *)
(* Nothing obliges a tool to call, nor the clock to move.                  *)
(***************************************************************************)
FairSpec ==
  /\ Spec
  /\ \A c \in Callers, f \in Feeds : WF_vars(FeedRead(c, f) \/ FeedFail(c, f))
  /\ \A c \in Callers : SF_vars(Acquire(c)) /\ WF_vars(Finish(c))

-----------------------------------------------------------------------------

TypeOK ==
  /\ clock \in Time
  /\ mu \in Callers \cup {Nil}
  /\ snap \in Snapshot \cup {Nil}
  /\ at \in Time \cup {None}
  /\ cacheErr \in BOOLEAN
  /\ pc \in [Callers -> {"idle", "locking", "fetching"}]
  /\ job \in [Callers -> [Feeds -> {"idle", "running", "read", "failed"}]]
  /\ data \in [Callers -> Snapshot]
  /\ started \in Time \cup {None}
  /\ reply \in [Callers -> [snap : Snapshot \cup {Nil}, err : BOOLEAN,
                            when : Time, tried : BOOLEAN]]

(***************************************************************************)
(* A caller is given old data only after trying for new.  Whatever a Get   *)
(* returns without fetching, every feed in it was read less than a TTL     *)
(* plus one request timeout before: the TTL runs from when the fetch       *)
(* ended, not from when its first feed was read.                           *)
(***************************************************************************)
ServedAge ==
  \A c \in Callers :
    LET r == reply[c] IN
      (r.snap # Nil /\ ~r.tried) =>
         \A f \in Learned(r.snap) : r.when - r.snap[f] < TTL + Timeout

(***************************************************************************)
(* An outage never erases what was known: once a snapshot with data is     *)
(* held, whatever replaces it has data too.                                *)
(***************************************************************************)
OutageKeepsData ==
  [][(snap # Nil /\ ~AtIsZero(snap)) => (snap' # Nil /\ ~AtIsZero(snap'))]_vars

(***************************************************************************)
(* Two callers never race to fill the cache: a refresh that lands comes at *)
(* least a TTL after the one before it, however many callers found the     *)
(* snapshot expired together.                                              *)
(***************************************************************************)
RefreshSpacing ==
  [][(at' # at /\ at # None) => at' - at >= TTL]_vars

(***************************************************************************)
(* A slow fetch that started earlier never overwrites a later one: no feed *)
(* goes back to data read before the data it replaces.                     *)
(***************************************************************************)
NoFeedGoesBack ==
  [][(snap # Nil /\ snap' # Nil) =>
       \A f \in Learned(snap) \cap Learned(snap') : snap'[f] >= snap[f]]_vars

(***************************************************************************)
(* Only a fetch in progress keeps the mutex, and it is one caller's: no    *)
(* second fan-out of requests is ever in flight with the first.            *)
(***************************************************************************)
OneFetchAtATime ==
  /\ \A c \in Callers : pc[c] = "fetching" <=> mu = c
  /\ \A c \in Callers, f \in Feeds : job[c][f] # "idle" => mu = c

(***************************************************************************)
(* Every Get returns: neither an outage nor the queue for the mutex keeps  *)
(* a caller for ever.                                                      *)
(***************************************************************************)
GetReturns == \A c \in Callers : pc[c] = "locking" ~> pc[c] = "idle"

(***************************************************************************)
(* Seen from its callers the cache is the register of SnapshotRegister:    *)
(* each Get takes effect at the instant it returns.                        *)
(***************************************************************************)
Register == INSTANCE SnapshotRegister WITH
  register <- snap,
  answer   <- [c \in Callers |-> [snap |-> reply[c].snap, err |-> reply[c].err]]

ImplementsRegister == Register!RegisterSpec

-----------------------------------------------------------------------------
(***************************************************************************)
(* Why those hold: the parts of the inductive invariant the proofs use.    *)
(***************************************************************************)

(* A fetch under way began no longer ago than a timeout, and a TTL after   *)
(* the snapshot it is to replace.                                          *)
RoundTimed ==
  mu # Nil =>
    /\ started \in Time
    /\ started <= clock
    /\ clock <= started + Timeout
    /\ snap # Nil => started >= at + TTL

(* What a fetch has read is what its goroutines have read, since it began. *)
ReadInRound ==
  \A c \in Callers, f \in Feeds :
    /\ data[c][f] # None <=> job[c][f] = "read"
    /\ data[c][f] # None => started <= data[c][f] /\ data[c][f] <= clock

(* What is held was read within one timeout before it was stored.          *)
StoredInRound ==
  /\ snap = Nil <=> at = None
  /\ snap # Nil => at <= clock
  /\ snap # Nil => \A f \in Learned(snap) : snap[f] <= at /\ at <= snap[f] + Timeout

(* The inductive invariant: how old what a fetch reads, stores and serves  *)
(* can be, given that one caller at a time fetches.                        *)
RoundInvariant ==
  /\ TypeOK
  /\ OneFetchAtATime
  /\ RoundTimed
  /\ ReadInRound
  /\ StoredInRound
  /\ ServedAge

-----------------------------------------------------------------------------
(* What a comment of live/live.go says, and the code does not do: it does   *)
(* not hold of a fetch that learns nothing.                                 *)

(***************************************************************************)
(* live/live.go:51: a fetch failure returns the previous snapshot when     *)
(* there is one, alongside the error.                                      *)
(***************************************************************************)
StaleComesWithError ==
  [][\A c \in Callers :
       (Fetched(c) /\ pc'[c] = "idle" /\ NothingLearned(c)) => reply'[c].err]_vars
=============================================================================
