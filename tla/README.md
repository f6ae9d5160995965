# A verification development for ptv-gtfs-go

ptv-gtfs-go answers questions about Victoria's public transport. It downloads a
timetable bundle, loads it into SQLite, plans journeys over it, and joins what the
operator's realtime feeds say onto the answers. This directory holds TLA+ models of
it, the TLC configurations that check them and the proofs TLAPS checks. Paths are
relative to `src/`; "model bound" means a number that exists only to keep a run
finite.

## 1. The system

| component | source | state | operations | model |
|---|---|---|---|---|
| Shared realtime cache | `live/live.go`, `FetchLive` in `live.go`, `realtime/client.go` | `Cache.mu, snap, at, err`; a goroutine per feed while fetching | `Get` | `LiveCache`, `SnapshotRegister` |
| Schedule database lifecycle | `store/store.go`, `Download` and `OpenBundle` in `feed.go`, `Build` in `index.go` | four file names in one directory, the connections of an open pool | `Status`, `EnsureBuilt`, `Build` | `StoreBuild` |
| Status of one call | `Departure`, `stopUpdateFor`, `sameServiceDay` in `live.go` | none | pure, one loop | `LiveStatus`, `StopUpdate` |
| Departure boards | `NewLive`, `Departures`, `Disambiguate` in `live.go` | `Live.byTrip`, the rows under way | build, join, settle | `LiveBoard` |
| Realtime journeys | `Live.Journey` | the legs and connections under way | one pass over legs, one over connections | `LiveJourney` |
| Alerts | `Live.Alerts`, `mergeIDs` | the arrays behind the snapshot's slices | merge | `AlertsMerge` |
| Journey results | `dedupeJourneys`, `filterDominated`, `rankJourneys`, the tail of `Plan` in `plan.go` | the list of journeys | fold, cut off, filter, rank, limit | `Dominance`, `FilterDominated`, `PlanResults` |
| Journey search | `journeysWithOneChange` and what it calls in `plan.go`, `StopIDsForStation` in `query.go` | none (SQL reads) | direct rides, places to change, onward rides, joined legs | `OneChange` on `Rides`, `Stations`, `Queries` |
| Times of a change | `transferTime`, `WalkTime`, `publishedTransfer` in `pathways.go`, `policy.go`, `transfers.go` | stated times, rows of two files | pure | `TransferTimes` |
| Station walking graph | `walkGraph` in `pathways.go` | graph and error kept by `sync.Once` | load once, read | `WalkGraph` |
| Planning from nearby stops | `nearby.go` | results under a mutex, a goroutine per stop | `StopsNearByMode`, `PlanFromNearby` | `NearbyPlan` on `WalkGraph`, `Stations` |
| Departures from the schedule | `Departures` and what it calls in `query.go` | none (SQL reads) | `checkRange`, a query per service day, order, fold, limit | `ServiceWindow` |
| Service days | `servicedays.go`, `ServiceIDsOn` and `Validity` in `query.go` | the calendar | pure | `ServiceDays` |
| Calls of a leg | `LegCalls` in `query.go` | none (SQL reads) | pure | `LegCalls` |
| Other lookups, policy defaults, CSV and protobuf decoding, HTTP | `query.go`, `policy.go`, `realtime/`, `index.go` | none | | not modelled, see section 8 |

How they interact: a tool call takes a schedule handle from `store.Manager` and a
`*gtfs.Live` from `live.Cache`. The handle is a pool of connections to one file name
that other processes may rename a new file over. The snapshot is shared by every
caller that was given it, without a lock, until the cache replaces it. Boards and
journeys are computed from rows the planner returns and from that snapshot. The
planner reads the timetable through that handle, query by query; the walking graph is
the one thing it keeps, in the `Index`, shared by every plan of the process. A request
to plan from nearby stops runs a plan per stop at once, all of which may be the one
that happens to load that graph.

What is hard in it: callers contending for a cache whose holder waits for a slow
gateway; outages of some or all feeds; one snapshot read by many; a build that may
die between any two of its steps, in a directory other servers share; a graph loaded
once on behalf of a caller who may go away; a search bounded in five places that must
lose nothing worth having; and passes over data in which order, gaps, duplicates and
the boundary at midnight decide the answer.

## 2. Modules

Every component has one module with its state, one action per step, its properties
and, just before the definition it alters, the mutants used to test each property.
`MC...` modules give the constants values; `...Proofs` modules hold proofs, and
`ListFacts` the lemmas several of them share.

**`LiveCache`** is `Cache.Get` together with `FetchLive`. `Call` queues for `mu`; `Hit`
is the early return; `StartFetch` is the lock, the failed freshness test and the start
of a goroutine per feed; `FeedRead` and `FeedFail` are those goroutines, in any order;
`Store`, `KeepStale` and `FailEmpty` are the three ways `Get` ends after `wg.Wait`.
A feed's data is abstracted to the tick at which it was read, since all the cache can
tell apart is whether there is data and how old it is. `Tick` lets time pass, but not
beyond the HTTP client's timeout of the fetch under way.

**`SnapshotRegister`** is what those callers are promised: one register, which each
call reads, advances or finds empty in one instant, and whose contents never go back.

**`StoreBuild`** is a server's way through `EnsureBuilt` and `Build`, one action for
each step that touches the directory. Names map to inodes, because removing, renaming,
truncating and opening differ exactly in that. `CreatePartial` to `InstallArchive` are
`Download`; `OpenBundle`, `ClearTmp`, `OpenTmp`, `LoadPart` (one file in its
transaction), `StampBuilt`, `StampRange`, `Install`, `CleanUp` are the rest of `Build`;
`EnsureMissing`, `EnsureUnread`, `EnsureUsable` are the outcomes of `Status`;
`OpenHandle` and `Query` are the pool. `DownloadFail`, `LoadFail` and `CloseFail` are
calls that return errors, with what the code removes and what it leaves; `ClearTmpFails`
and `CleanUpFails` are the two `os.Remove` whose error `Build` ignores and goes on, and
the third, in `LoadFail`, may fail too. The history variable `stuck` says which databases
were built on a leftover that such a failure let stay: the build loads into it, and may
put rows of a table without a key there twice. `Crash` may come between any two actions
and keeps only the files. A process here is a caller: a `Manager` has no lock, so two
goroutines of one server are two.

**`LiveStatus`** holds the pure part of the join: which update of which variant covers
a call, for which service day, and what status it gives. **`StopUpdate`** is
`stopUpdateFor` again, as the loop it is.

**`LiveBoard`** builds a snapshot update by update (`Decode`, the last for a trip id
wins), joins rows (`Join`), settles ambiguous rows (`Disambiguate`) and starts over
with a new snapshot (`Refresh`). A row has its alternatives' times after midnight besides
(`altSecs`), which the code does not keep: they tell what would have survived had another
publication been met first (`SurvivedBy`), and for which service day. **`LiveJourney`** joins the legs (`JoinWalk`,
`JoinRide`) and then re-tests each connection (`Connect`).

**`AlertsMerge`** models slices: an entry of an answer is a window on the array behind
an alert of the snapshot, and `Pool` is `append`, in place where the array has room.
`decodeAlert` grows its slices by append too, which is why there is room: how much is the
constant `Room`, any that holds what the alert names, and the run doubles a full array as
the runtime does.

**`Dominance`** is `dominates`, and what of a list it leaves (`Survivors`);
**`FilterDominated`** is the nested loop of `filterDominated`, one comparison a step;
**`PlanResults`** the steps of `Plan` after the search, in their order: its `Filter` leaves
the survivors in one step, and that the loop does so is a theorem (`LoopIsTheFilter`).
`Ranked` is the stable sort, by the place each journey comes to. **`Totals`** is the loop that
adds up the walks of a journey, here and in `LiveJourney`.

**`Queries`** is what a SQLite query may return: rows in the order of its key, ties in
any order, cut off at its limit (`OrderByLimit`, by what it promises), and what a loop
over them keeps (`Among`). Every module about the schedule takes its rows from
there, so a property that holds does not rest on how ties fall.

**`ServiceDays`** is the calendar twice, as `ServiceDays.Runs` reads the files and as
`ServiceIDsOn` asks the database, and `Instant`, over days that may differ in length.
**`ServiceWindow`** is `Departures`: `CheckRange` (with a period that may be unreadable,
`Validity`), `AskToday` and `AskYesterday` (`departuresOnDay`: the rows are cut off before
those of services that do not run are dropped), `Answer` (order, fold, limit), `Fail`.
`Soonest` is the insertion sort and `Deduped` the map of keys, each as the loop it is: a
recursive function of the number of rows it has passed.

**`Stations`** is the stop table: a station and its platforms, roadside stops that share
a name, what `dedupeByStation` leaves of a set of stops, and what a walk reaches.
**`Rides`** is the queries of `plan.go` over it. **`TransferTimes`** is what a change
takes: stated, published, or Dijkstra over the pathways, turn by turn as a fold, with the
limit it has. **`OneChange`** is the search, one action per step of its loop:
`Candidates` picks the stations, `OpenInterchange` or `SkipInterchange` widens or drops
one, `FindFirsts` asks for the rides to it, `PriceFirsts` for the rides on, and joins them
(`Catchable`, `JoinLegs`). Its output is what `PlanResults` takes as `found`, and its
`wait` and `needed` what `LiveJourney` adds up after a delay. **`LegCalls`** extends it
with the calls of a leg it found; the pattern it compares with is that whose
`stop_sequence` is furthest between the two stations, which is the one with most calls
only where no numbers are left out.

**`WalkGraph`** is `walkGraph`: `LoadGraph` enters `once.Do`, `LoadRow` scans a row,
`LoadDone`, `LoadRefused` and `LoadBroken` are the three ways it ends (the last keeps the
part that was read, with an error), `ReadGraph` is everyone's return. **`NearbyPlan`**
composes it with the requests: `Ask` is `StopsNearByMode` and the start of a goroutine
per stop, `Search`, `SearchEnds`, `SearchFails` and `UseGraph` are a search with what it
shares with others, `Deliver` the part under the mutex, `Reply` what follows `wg.Wait`.
`Trouble` is a caller who goes away, or whose queries are refused, at any time.

## 3. Runs

All runs use two workers or fewer and end within three minutes on a laptop.

| run | what it asks | bounds, and why they suffice |
|---|---|---|
| `live_cache` | the inductive invariant; age of what a hit serves; outages erase nothing; refreshes a TTL apart; no feed goes back; every `Get` returns; refinement of the register | 2 callers, 2 feeds, TTL and timeout of 2 ticks, 4 ticks: time for a fetch, a hit, an expiry and a second fetch that fails in part or in full, while the other caller waits |
| `store_build` | nothing half-built is in place or read; no truncated archive; a rebuild never takes the schedule away; success leaves no litter; a server that keeps asking is served | 1 caller, a body of 2 reads, 2 feed files (one table with a key, one without), 2 connections, 2 crashes, 2 failures, 2 rebuilds: a crash inside a rebuild that follows a failed one, with a handle open, or a leftover and then its removal that fails. 4 and 6 inodes: as many as `InodeAssumption` asks for, so a new file never has to share |
| `stop_update` | the loop finds what its definition asks for | every list of up to 3 updates of 2 stops with sequences 0 to 3, looked up for every call |
| `live_board` | claims are published, for the right day; variants of one day do not matter; settling keeps what is known | up to 3 updates of 3 trips in any order, 5 timetables of 1 to 3 rows, one a fold of two service days, days of 10 ticks |
| `live_journey` | the verdict is the worst of all ends; what is left of a connection; missed connections | 5 journeys with and without a change and a walk, each trip with any of 10 updates or none |
| `filter_dominated` | exactly the undominated journeys are kept; nothing is dropped for one that is dropped | every list of up to 3 journeys over 3 instants with 0 or 1 changes |
| `plan_results` | no travel twice; the shortest walk; nothing catchable lost; the first is the best | 3 lists of direct journeys followed by any list of up to 3 of 5 journeys with a change; 4 ranks, with and without a cutoff, limits 1 and 3 |
| `alerts_merge` | the snapshot's own slices never change; each incident once | 2 callers, 3 instants, 5 alerts of which 4 tell of one incident and the first has spare capacity |
| `service_window` | the soonest are shown; each once, and only if it runs; no publication lost; the period is kept to | every feed of 4 trips of a family (a train published twice, one elsewhere at the same time, a late one), 2 calendars by 3 tables of exceptions, and a feed without services; a week of 2 days of 8 ticks, one day of 7; 11 instants of asking, limits 1, 2 and 4 |
| `one_change` | connections can be made; what is left of them; nothing better is missed; the quickest way; an express is legible | 32 timetables of 6 trips before, across and after midnight, parts of them under 5 sets of transfer rules and 5 requests (walks refused, widened, a buffer, a station named); 64 graphs of 4 places; 40 pairs of lines, with and without gaps in their numbers. 4 rows for a query, 2 first rides, 3 interchanges: less than there are, so that each limit bites |
| `nearby_plan` | nobody plans with part of the graph; the answer is of all searches; every request is answered | 2 requests, of 2 groups and of one; 5 stops of which 3 are fetched, 2 pathway rows, 3 outcomes of the searches, with a tie, with the further stop the sooner and with a stop that has no journey; either caller may go away at any step |
| `on_time_unstated` (violation) | a call is on time only if a feed stated so | up to 2 updates |

`FindsTheBest` compares with every pair of today's rides that could be joined in the
default time or more, at a station or by a walk within the radius, as long as the first
is among the rides that are priced, no query was cut off and the second is boarded no
later than the day after its service day began (`directJourneys` asks two service days); `QuickestWayAllowed` with
every way through the graph that passes no place twice; `ExpressIsLegible` with the
stretch of the fullest pattern between the ends of the leg.

Deadlock is checked in `live_cache`, `store_build`, `live_board` and `alerts_merge`,
whose systems go on for ever. The others are one computation, or in `nearby_plan` two
requests, that end, and their configurations say `CHECK_DEADLOCK FALSE`. `live_cache`
may stop at the last tick only in states where some caller can still call.

Model bounds are `MaxClock`, `MaxCrashes`, `MaxFailures`, `MaxRebuilds`, `MaxSeq`,
`MaxLen`, `MaxUpdates` and `MaxFound`. `Timeout` and `TTL` are the code's 30-second-scale
constants in ticks; `MaxConns` is 8 in the code. `RowLimit` (400), `StationLimit` (60),
`MaxInterchanges` (12), `MaxFirsts` (4), `Factor` (60), `FetchCap` (5000) and `OverFetch`
(200) are the code's own limits, made small enough to be met.

### Where the code and its comments disagree

One has a run: `on_time_unstated`. An inherited event keeps `Set` and loses its time, so
an update with absolute times only becomes a delay of zero, which is on time.

The others have a definition, at the end of the module concerned, and no run of their
own; adding the definition as an INVARIANT (`StaleComesWithError`: as a PROPERTY) to the
configuration named produces the counterexample. `PROJECT.json` quotes the comments.

| definition | module | configuration | what the code does |
|---|---|---|---|
| `PoolsActiveRoutes` | `AlertsMerge` | `MCAlertsMerge.cfg` | `mergeIDs` appends into the spare capacity of the shared snapshot's slices, behind another caller's answer |
| `InstalledComplete` | `StoreBuild` | `MCStoreBuild.cfg` with `Processes <- TwoProcesses` and every bound from `MaxConns` on 1 | two builders share the temporary name: one renames the other's unfinished file into place |
| `LoadedAfresh` | `StoreBuild` | `MCStoreBuild.cfg` | a leftover that cannot be removed is loaded into: transfers and pathways are there twice |
| `OneFilePerHandle` | `StoreBuild` | `MCStoreBuild.cfg` | after a rebuild one pool reads the old file and the new |
| `OthersAreKept`, `AltsAreTheLeg` | `PlanResults` | `MCPlanResults.cfg` | folding loses trip ids, or records those of a leg between other stops |
| `StaleComesWithError` | `LiveCache` | `MCLiveCache.cfg` | an outage returns the old snapshot without its error |
| `SurvivorNeverMatters` | `LiveBoard` | `MCLiveBoard.cfg` | a row folded of two service days takes the survivor's day for all its trip ids |
| `AtOrAfterIsBroken` | `LiveJourney` | `MCLiveJourney.cfg` | a service that arrives at the instant the next one leaves does not break the journey |
| `BothEndsPredicted` | `LiveJourney` | `MCLiveJourney.cfg` | an arrival past midnight is looked up for the wrong service day |
| `Independent` | `NearbyPlan` | `MCNearbyPlan.cfg` | one cancelled loading of the walking graph fails every later plan |
| `NotCrowdedOut` | `NearbyPlan` | `MCNearbyPlan.cfg` | the nearest 200 stops may all be buses |
| `StatedTimeHonoured` | `OneChange` | `MCOneChange.cfg` | onward rides are asked for after the default time, whatever was stated |
| `LaterTrainCannotWin` | `OneChange` | `MCOneChange.cfg` | a fifth train that overtakes is not priced |
| `ForbiddenStaysForbidden` | `OneChange` | `MCOneChange.cfg` | a transfer that is not possible takes eighty minutes, and the window is three hours |
| `ViaIsTrusted`, `LateNightChanges` | `OneChange` | `MCOneChange.cfg` | candidates are searched in today's timetable only, and without any Via is not looked at |
| `CallsWhenItCalls` | `LegCalls` | `MCOneChange.cfg` | the calls of a leg have the date of the asking |
| `WholeWindow`, `FetchIsEnough` | `ServiceWindow` | `MCServiceWindow.cfg` | tomorrow is not asked about; rows of services that do not run use up the fetch |
| `LastNightIsServed`, `SilenceIsTold` | `ServiceWindow` | `MCServiceWindow.cfg` | the day of grace is before the period and not after it |
| `NightIsNextMorning` | `ServiceDays` | `MCServiceWindow.cfg` | times count from midnight, not from noon less twelve hours |

Of `AtOrAfterIsBroken` the code has a test on its side: live_test.go:600 wants a
connection with nothing left to spare to be makeable. `MissedIsBroken` therefore says what
code and test say, and is strict.

`LoadedAfresh` bounds what `InstalledComplete`, `HandlesComplete` and `StaysAvailable`
claim. They ask of every database that no table and neither stamp is missing (`Complete`),
and that each row is there once only of those that were not built on a leftover that
stayed (`stuck`).

## 4. Fairness

`LiveCache` assumes that every request ends (weak fairness of `FeedRead` or
`FeedFail`, justified by the client's timeout), that the holder of the mutex runs on
(weak fairness of `Finish`), and strong fairness of taking the mutex for each caller:
Go's `sync.Mutex` switches to handing itself to the longest waiter after a
millisecond of waiting. Nothing obliges a tool to call or the clock to move.

`StoreBuild` assumes weak fairness of the step a process is in, and strong fairness of
asking for a handle: a server that has none has no other way to answer. Failures,
crashes and explicit rebuilds are never assumed to happen, and are finite in number,
so `EventuallyServed` says that no leftover of any number of them wedges a build.

`NearbyPlan` assumes weak fairness of each request's own steps and of each goroutine
(`Run`): Go runs every goroutine that can run, the mutex around the results is held for a
few assignments, and a query of a local file comes to an end, with rows or an error.
`Trouble` is never assumed to happen. A goroutine that waits in `once.Do` waits for
another that reads, so `RequestReturns` rests on that one letting go however it ends.

The other modules state safety only.

## 5. Proofs

TLAPS proves the following for every value of the constants that satisfies the named
assumptions in the modules. The assumptions say what a value is (a row has these fields,
a clock only moves on, a table is finite) and nothing about what the code does with it;
TLC evaluates each of them in the run of its module.

**`LiveCacheProofs`** (from `FeedsAssumption`, `TimeAssumption`, `NilAssumption`).
The inductive invariant is `RoundInvariant`. Its property of interest, `ServedAge`, is
about a reply already given; to bound it one needs that what is *held* was read within
a timeout before it was stored (`StoredInRound`), for that, that what is *being read*
was read since the round began (`ReadInRound`) and that the round is no older than a
timeout and began a TTL after the held snapshot (`RoundTimed`), and all of these only
make sense because one caller at a time fetches (`OneFetchAtATime`). `RoundStep` has a
step per action. Lemma `OnlyStore` says that `Store` is the only action that changes
the held snapshot, `StoreStep` what it changes it to; from these follow
`OutageKeepsData`, `RefreshSpacing` and `NoFeedGoesBack`. `CacheImplementsRegister`
shows that `Hit` and `KeepStale` are the register's `Answer`, `Store` its `Advance`,
`FailEmpty` its `Refuse`, and every other action a stutter.

**`StoreBuildProofs`** (from `SizeAssumption`, `InodeAssumption`). All the properties of
`StoreBuild` but its liveness. With two builders the first of them is false (section 3),
and what no lock in the code ensures is a hypothesis of the theorems, `OneBuilder`: no
two builds run at once, in two servers or in two goroutines of one. `OneCallerIsEnough`
discharges it for a directory that a single caller uses. Failing removals are among the
failures the theorems allow. The invariant, `BuildInv`, says how far the file under
each name has come: the archive being written has the chunks written so far, the
database under `building` has each row of the parts loaded so far, once, and of the
others none, unless it is a leftover that stayed, which has at least what was loaded since
(`Loaded`, `Stage`), and no temporary name shares an inode with a file that is in place or
read (`NamesApart`). The last is what a crash and a rebuild could break: it is why a new
file's inode must be free of connections to what it replaces. `ClearTmp` must come before
`OpenTmp` for the rows to be there once; where it fails, what remains provable is what
`Complete` asks of a database in `stuck`.

**`LiveProofs`**, of the lookup (from `UpdatesAssumption`, `ClockAssumption`). The loop
invariant adds `PassedSoFar`: nothing passed so far is the call's own, and the fallback
held is the first of the nearest among those passed. `FindsUpdate` follows when the loop
ends.

**`LiveProofs`**, of the board (from `InputsAssumption`, `MaxUpdatesAssumption`,
`ClockAssumption`). All three properties of the board, for snapshots and boards of any
size. `BoardInv` says that the map by trip holds only updates the feed published, each
under its own trip id (`Kept`), that every row joined so far has the status `Departure`
gives it (`JoinedSoFar`), and that no row is dropped before all are joined (`DropsLast`).
`NothingKnownIsDropped` follows for `Disambiguate` because a row settles its service only
if it is the one row of its service that has live data, so that a row dropped in its
favour has none. `VariantBlind` follows because the publications of what would have
survived are the same ones (`SameVariants`), of which realtime describes one, and what an
update says of a call depends on the stop, the instant, the service day and that one's
sequence (`AppliedAlike`). The service day is a hypothesis: without it the statement is
false (`SurvivorNeverMatters`).

**`LiveProofs`**, of journeys (from `JourneysAssumption`, `ClockAssumption`). All three
properties, for journeys of any number of legs. `JourneyInv` says that a walk joined so far
begins when the leg before it ends (`LegsJoined`), that the status is the worst that the
ends joined so far say (`WorstSoFar`), that the connection under test is the one after as
many services as have been tested (`TestedSoFar`), and that what was found of each holds of
the journey as it then ran (`FoundSoFar`). `NextRide` is the count that goes with
`TestedSoFar`: the next service is the next by number, and only walks lie between. Over
those walks `WalksTakeTheirTime` telescopes the sum the code takes, which is why the time
on foot is the time from the arrival to the platform even after a delay has moved the
walks, and why `SlackIsSpareTime` counts each of them once.

**`LiveProofs`**, of alerts (from `AlertsAssumption`). Both properties, for any number of
callers, alerts and free slots. `AlertsInv` says of each array that it begins with what its
alert names and that what else was written into it belongs to an alert with the same text
(`KeptIn`), and of each answer that a window on an array is never shorter than what the
alert itself names and sees no slot nobody wrote (`SoundIn`). So an append in place lands
behind the alert's own routes (`SlotWritten`), whoever appends; and another caller's answer
stays sound because a slot, once written, is written to again but never emptied
(`SoundStays`). That the texts of an answer are those of the active alerts passed so far is
`CollectedIn`, and `Under` says what a merge under way is about.

**`PlanResultsProofs`**, of the results (from `InputsAssumption` of `PlanResults`, which says
what the searches produce: at least one leg, and one change fewer than rides, as
`directJourneys` and `joinLegs` build them). All four properties, for every list of
journeys and every request. Each is about what is shown at the end, so the invariant
carries it through the steps in two parts. `Listed` says of the journeys there are that
each was found, that no travel is there twice and that none found so far walks less than
the one kept of its travel: folding keeps the key and the shorter walk (`FoldedFacts`),
and every step after it only picks from the list (`PickedKeeps`). `StoodFor` says what
stands for the journeys found: while folding, and after the cutoff, one of the same key,
and after the filter one that is no worse. The cutoff keeps all that are in time because
what is folded leaves at the same moment; the filter leaves one no worse because
dominance is transitive and strict on a list of any length (`SomeSurvives`). That no two
journeys take the same place in the ranking and every place is taken (`PlacesAreTaken`)
is a count of a finite order; `BestAnswersRank` then says why the first of the ranking is
the best of all that were found, although most of them are no longer in the list.

**`PlanResultsProofs`**, of the loop (from `JourneysAssumption`). `Better` is transitive
and irreflexive. The invariant says that what the outer loop has passed has dropped all
it dominates, that the inner loop has done so up to where it is, that the journey the
inner loop compares is itself still kept, and that every drop is earned by one that is
kept. The last is where transitivity is used: when the journey that earned a drop is
dropped in turn, the one that drops it takes its place. `LoopIsTheFilter` joins the two
halves: what the loop keeps are the `Survivors` that the filter step leaves.

**`OneChangeProofs`** (from the assumptions of `OneChange` and of the modules below it).
Every connection found can be made (`CanBeMade`), and the wait and the crossing it is
published with add up (`SlackIsWhatIsLeft`). Both are invariants of `found`, which
`PriceFirsts` extends by `Catchable` and `JoinLegs`; `SearchInv` adds what that step
relies on: that the interchange in hand is one of the stations opened and walked to, and
that the first rides are rides of the feed, in the window, from the origin to it. The
lemmas underneath say what a query returns, that `WalkTime` is never negative and that
`transferTime` answers with a time of its sources or with none. Of a leg's listing
(`LegCalls`) it proves `ExpressIsLegible`, by induction over the stations of the pattern:
the calls listed so far are the first so many of the leg's (`SlottedInSteps`,
`CallsAreListed`), whatever the pattern; and if the service calls at stations of the
pattern in its order, then after `n` of them the listing is the pattern from the place of
the leg's first call up to `n`, and no further than the place of its last (`ListedTo`,
`ListedToNext`, `ListedBetween`). Where each call's place is comes from `AmongPicks`
(`FollowsByPlace`).

`FindsTheBest` compares a search that has ended with two rides it may never have looked
at together. Its invariant `BestInv` says, of every two rides that are wanted, that a
journey as good has been found or that their interchange is still on the list of those to
try; and that while an interchange is tried, all that is near it was opened and the first
ride is among those priced there. The interchange gets on the list because the queries
behind `interchanges` lose nothing when their limit is not met (`AnswerInOrder`,
`StationHasIt`, `CandidatesHaveIt`); the first ride is priced because the fewer than
`MaxFirsts` rides that leave before it are all that a sort can put before it
(`FirstsHaveIt`, from `FewBefore`, a count); and then the onward search has the second
ride, or one to the same station that is as soon (`SoonestIsCaught`, `OnwardIsFound`). An
interchange is taken off the list only by `PriceFirsts`, which prices every one of its
rides (`PriceBest`), or by `FindFirsts` where there are none, and then nothing was wanted
there. This is why `Stops` and the trips
of a timetable are assumed finite: a query that is not cut off answers with all its rows.

`QuickestWayAllowed` is the correctness of Dijkstra's algorithm, for every graph. A node
is settled once it is within the limit and off the heap. `WalkInv`, which each turn keeps
(`TurnSettles`), says that what is settled is no further than what is on the heap, that
the neighbours of a settled node know of the way through it, that to every node reached
there is a way as short as is said, through settled nodes and passing none twice
(`HasWay`), and that the destination is not settled. A turn settles one node, so after as
many turns as there are nodes the loop has stopped (`TurnsEnough`), with the heap empty or
the destination nearest on it; then no way within the limit is quicker than what is said
of the destination (`NoneIsQuicker`), because the nodes along it would have been settled
one after the other. `WalkIsQuickest` joins this with the ways of the definition
(`TrailsArePaths`, `PathsAreTrails`). No pathway may take less than no time (`AreRules`):
the index would let a negative `traversal_time` in, and the loop might then never end.

**`ServiceWindowProofs`** (from `ClocksAssumption`, `FetchAssumption`, `InputsAssumption`).
All four properties of the board from the schedule. The lemmas go along the code:
`AnswerIsOfTable` (a query whose limit is not met returns its whole table), `RunsAreLeaving`
(the window in seconds of a service day, filtered by the database's calendar, is the
window in instants, filtered by the calendar files), `PlacedFacts` and `SoonestFacts` (the
insertion sort sorts, and loses nothing), `MergedFacts` and `DedupedFacts` (folding keeps
the order, shows each service once and each publication of it, and invents none),
`FirstFacts`, and `AnsweredFacts`, which joins them. `WindowInv` says what the days asked so
far have given (`Gathered`) and that a query that is answered is one the period allows
(`WithinPeriod`). `PeriodHolds` needs in addition that the midnights grow with the days
and that the day of an instant is the last to have begun (`DayBegun`).

**`NearbyPlanProofs`** (from `RowsAssumption`, `NearbyAssumption`, and for the answer
`StopsAssumption` and `InputsAssumption`). `GraphIsWhole`
speaks of a search that was given the graph; to prove it one needs that at most one
search reads the table, and only while the `Once` is running, that a search is given the
graph only after a reading without an error, and that such a reading came to the end of
the table (`GraphInv`). `LoadBroken`, which keeps the part that was read, is the case
that makes the error part of the invariant. `AnswerIsWhole` compares an answer with all that was
planned. `ReplyInv` says that a request's groups are such as `StopsNearByMode` gives (`GoodGroups`),
that its results are the stops whose search is over and had a journey, unless one failed,
and that an answer is what `FoundByMode` and `SoonestMode` make of them. What those give rests on the stable sort,
which puts each element after as many as go before it: `PlacesOfOrder` says that then every
place is taken, so that `StableBy` sorts and loses nothing (`StableFacts`), and
`AmongPicks` that a loop keeps the order of what it keeps, so that of two stops equally
soon the nearer is listed first.

The loops of `Among`, `Soonest`, `Deduped`, `Slotted` and `TotalOf` are recursive functions on an
interval, and a function defined by recursion is, to the prover, a choice of some function
that meets an equation. So each is shown to exist (`AmongDefined`, `SortsDefined`,
`MergesDefined`, `SlotsDefined`, `TotalsDefined`) and its facts are shown of any that does. Both are inductions, over a set of numbers
rather than with an operator: what holds of 0 and is handed on holds up to N (`UpTo`),
since otherwise there would be a least number of which it does not (`Least`, from the
library's well-founded induction). What the components share of this, and of queries and
lists, is in **`ListFacts`**.

Only model-checked, not proved: `GetReturns`, `EventuallyServed` and `RequestReturns`,
since liveness under fairness is beyond the prover.

## 6. Hazards

`PROJECT.json` lists what in this code is hard to test, at its line, with the
properties that would catch it going wrong, and says of each that no property covers
why that is so. One has none: a power loss (section 8).

## 7. Plan

Every component of section 1 that is to be modelled is. Proved are all safety properties
of `LiveCache`, `StoreBuild`, `StopUpdate`, `LiveBoard`, `LiveJourney`, `AlertsMerge`,
`FilterDominated`, `PlanResults`, `ServiceWindow`, `NearbyPlan`, `LegCalls` and
`OneChange`. What is left to TLC alone is liveness.

## 8. Not modelled

* SQL text, indexes and query plans: a model takes the rows a query returns.
* The modes of a request, in the board, the search and the stops near a point: a feed of
  fewer trips, or fewer stops, stands for them.
* One lookup that fails among others that do not: `walkDistance` then reports no walk,
  and `interchanges` and `walkableFrom` pass over the stop. Everywhere else a query that
  fails is an action or an outcome (`Fail`, `SkipInterchange`, `failing` in
  `OpenInterchange`, `Validity`, `LegCalls`).
* `FindStops`, `Stop`, `StopName`, `RouteNames`, `RouteIDForTrip`, `Continuation` and
  `CityLoopStops`, which return rows or count them.
* Policy defaults: each model takes the ones it needs as constants.
* The range check at the start of `Plan`: it is `checkRange`, modelled in `ServiceWindow`.
* CSV and protobuf decoding, formatting of times, names, headsigns and platforms, stop
  search: data, not control. Distances on the globe are a table, no shorter than either
  axis.
* Vehicle positions and the fields of a row that a join only copies.
* A power loss: `Crash` is the death of a process, after which the kernel still has
  every write. The build switches syncing off, and what a file system keeps of an
  unsynced file after its rename is not stated anywhere in the code.
* Cancellation of a caller's context while it waits for the cache's mutex: the code
  does not look at it there. Cancellation during a fetch is one of the failures.
* Two parts of a leftover that could not be removed: rows of a transaction that was broken
  off (the build runs with its journal off, so some may stay; in the model such a part is
  not loaded, and of a database built on it only that no table is missing is claimed), and
  rows of an older feed that `INSERT OR REPLACE` leaves in a table with a key.
* How long things take, beyond the TTL and the timeout.

Four consequences of the code that the models show and the properties are stated
around: two roadside stops of one name are places to change only within each; platforms
are folded into their station before distances are measured, so it is the station's
record that must be within a walk; stops of one station, or roadside stops of one name, are
changed between without a walk, whatever lies between them (`CanBeMade` asks for a walk's
time only between different ones); and a pattern that passes a station twice puts the
second time in the place of the next call (`LegCalls`).
