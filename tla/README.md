# A TLA+ model of Beacon DNS

Beacon DNS is a filtering, caching DNS resolver for a home network, written in Go. It has no tests;
its behaviour depends on goroutines that share cache entries without a lock, on background refreshes
and prefetches, on a query log written by a worker with an iterator goroutine, and on lists that are
fetched, kept in files and loaded while queries are being answered. This directory models that
logic, checks it with TLC on small instances and proves every safety property that holds, and both
refinements, with TLAPS for every value of the constants.

## The system

| Component | Code | State it keeps | Operations |
|---|---|---|---|
| Query path | `internal/dns/server.go`, `resolver.go` | one goroutine per query; `ongoingPrefetches`; per-upstream `LastFailure` | `handleRequest`, `process`, `resolve`, `forwardToUpstream`, `selectUpstream`, `prefetchRelated` |
| Answer cache | `internal/dns/cache.go` | `Cache` (otter) of pointers to shared `Cached` objects | `Get`/`Set`, `touch`, `reduceTtl`, eviction, expiry |
| Filter | `resolver.go` 95-171, `config.go` 63-157, `trace.go` | radix `tree` of rules under `treeMu`; groups, schedules | `LoadListToMemory`, `isBlocked`, `IsClientBlocked`, `HandleTrace` |
| List synchronisation | `internal/lists/sync.go` | one JSON file per list | `Sync` (start and daily): read, fetch, save, load |
| Query log | `internal/querylog/querylog.go`, `pkg/threadsafe/slices.go` | `queryChan`, `queue`, table `queries` | `Log`, `worker`, `flush`, `Shutdown`, `DeleteOldQueries` |
| Live view | `internal/querylog/broadcast.go`, `internal/api/ws.go` | `clients`, one buffered channel per websocket | `Subscribe`, `Unsubscribe`, `broadcast`, `watch` |
| Query patterns | `cache.go` 98-316 | table `query_patterns`, map `Prefetch` | `UpdateQueryPatterns`, `loadQueryPatterns` |
| Client names | `internal/dns/hostnames.go`, `pkg/threadsafe/maps.go` | `clientMap`, an `ExpiryMap` | `lookupHostname` |
| Start-up, scheduler | `cmd/beacon/main.go` | cron jobs, deferred shutdown | `main` |
| Configuration | `internal/config/config.go`, `sources.go` | `config.All`, read once at the start | `Read`, `UnmarshalYAML` of durations, days and periods, `precompute` |
| API, statistics | `internal/api`, `querylog/stats.go` | none | read-only routes, `GetDeviceStats` |

How they interact: the DNS server calls `handleRequest` in a goroutine per query, which asks the
client names, calls `process` (filter, then cache, then upstream) and hands the outcome to the query
log without waiting. `resolve` starts goroutines that call `process` again (a refresh of an entry
that turned stale) or `prefetchRelated` (which calls it for related names). The worker of the query
log appends to its queue, broadcasts to the live views and flushes to the database every five
minutes. `Sync` appends rules to the tree the filter reads; `UpdateQueryPatterns` reads the query
log's table and replaces the map `prefetchRelated` reads. Almost nothing waits for anything else, so
most of what can go wrong is an order of steps.

What is hard, and what makes each part correct:

- *Query path and cache.* `touch` reads and writes `Stale`, `Touched` and TTLs of a shared object with
  no lock; messages are shared between cache and clients; refreshes and prefetches outlive the query.
  Correct: each client gets the answer to its own question and id, what is blocked is never resolved,
  no stale transition is missed, TTLs only count down, prefetches are exclusive and do not cascade,
  every query is answered.
- *Query log.* Four calls of a flush may fail, the iterator holds a lock while it feeds the worker, the
  process may die anywhere. Correct: what was accepted is stored once and in order, or is still on its
  way, or died with the process.
- *Live view.* A watcher leaves while a broadcast is under way, or is too slow. Correct: no send on a
  closed channel, no waiting in a circle, order kept.
- *Query patterns.* The table is emptied outside the transaction that fills it, calls fail, updates
  overlap, the log is stored in another order than it was asked in. Correct: what is learnt is what
  the log shows, no part of a result is left behind, the database is not left locked.
- *Lists and filter.* Fetches fail, writes are interrupted, two runs overlap, the configuration changes
  between two starts, lists contradict each other. Correct: a verdict follows from the lists that name
  the domain or a parent, allowlists first, is explained by the trace and not undone by a failure; one
  bad list does not keep out the others.
- *Client names.* Handlers look at a remembered name after they gave the lock back, and delete it under
  another lock. Correct: names are recent, a dropped name is found out again, and a device the
  configuration names is filtered by that name.
- *Configuration.* Durations, days and periods are texts. Correct: what `Read` accepts, the scheduler, the
  pattern search and the schedules can work with.
- *Statistics.* The flags of a query are set at different returns. Correct: they add up.

`PROJECT.json` lists every hazard with its line and the properties that would catch it, or why none does.

## The modules

| Module | Models | How state and actions correspond to the code |
|---|---|---|
| `QueryService` | what a client is promised | abstract: ask, be judged by the filter of one instant, be answered, refused or failed |
| `Resolver` | query path and answer cache | `pc[t]` is where goroutine `t` is, `call[t]` its arguments of `process`, `loc[t]` the locals of `resolve`/`touch`; `heap` holds the `Cached` objects, `cache` the pointers; inside `touch` one action per load or store of `Stale`, `Touched` or a record's `Ttl`, each record on its own (cache.go:53, 58 and 59 load it three times); elsewhere one per call |
| `Broadcaster` | live view | `clients`, `buffer`, `watcher` are the map, the channels and the websocket goroutines; the read lock is held from `Broadcast` to `BroadcastDone` |
| `QueryLogger` | query log, composed with `Broadcaster`, an implementation of `QueryStore` | `wpc` is where the worker is, `ipc`/`closing`/`leaked` its iterator goroutine and lock, `txn` the open transaction, `db` the table |
| `QueryStore` | what the query log promises | abstract: accept, store a first part of what is waiting, be forgotten by a process that ends, delete what is old |
| `Selection` | the `WHERE` of a query on a table | the rows that are in a set, in their order; a recursive function, used by `QueryLogger`, `QueryStore` and `QueryPatterns` |
| `Config` | what `Read` accepts and makes of a file; groups and schedules | functions: a file is a record of the keys that matter, a configuration what `config.All` holds; `Configs` are all that the files in `Files` give |
| `Filter` | the decision to block | functions of the tree and a configuration of `Config`, no state |
| `ClientNames` | `lookupHostname` and the `ExpiryMap`, over `Config` | `clientMap` is the map, `pc[h]` where a handler is between the locks of `Get` and `Set`, `ip`, `item`, `hostname` its variables |
| `Statistics` | `GetDeviceStats` over the queries of `Resolver` | functions of the responses sent, no state |
| `Blocklists` | `Sync`, the files, the scheduler, restarts; composed with `Filter` and the files of `Config` | `pc[r]`, `pos[r]`, `list[r]` are a run's place, list index and variable `list`; `fs` the files, `tree` the rules; `unused` is a history variable: the lists whose whole copy a run could not see, read or finish, and none has loaded since |
| `QueryPatterns` | learning from the log, `UpdateQueryPatterns`, the map `Prefetch` | `pc[r]` is the call a run is at, `patterns[r]` its result, `batch[r]` and `writer` its transaction and the lock of the database, `queries`/`stored` the tables |
| `MCResolver`, `MCQueryLogger`, `MCBlocklists`, `MCClientNames`, `MCQueryPatterns` | instances for TLC | |
| `ResolverProofs`, `ResolverSafetyProofs`, `ResolverServiceProofs` | theorems about `Resolver`, the last of them about `Statistics` too | each extends the one before it |
| `SelectionProofs` | lemmas on `Selection`, induction, sequences, finite sets, ranks and the sums of histograms | used by `ResolverServiceProofs` and by those of the next row but `ClientNamesProofs` |
| `QueryLoggerProofs`, `QueryPatternsProofs`, `BlocklistsProofs`, `ClientNamesProofs` | theorems about the module of that name (for `BlocklistsProofs` with `Filter` and `Config`) | |

Data is abstracted to what the properties tell apart. A DNS message is its question, its id and the
TTLs of its records. A domain name is the sequence of its labels, and the two relations `Begins` and
`Ends` stand for the characters of labels, because `isBlocked` compares strings and not labels. A
list is the set of the valid names on it. In `Resolver` the filter is a table of verdicts that
changes at any time between the tables in `Policies`: `Filter` and `Blocklists` model how verdicts
come about, `Resolver` what a changing verdict does to queries under way.

Comments that start with "Mutant" mark operators no specification uses. Each is a plausible
mistake in the definition below it, and a run's property is known to notice it (`mutants` in
`PROJECT.json`).

## The runs

| Run | Instance | Shows |
|---|---|---|
| `ResolverTouch` | three queries for one name, replies with two records of TTL 1 and 2 or with none, up to three refreshes, clock 0..1 | `TypeOK`; `StaleHasRefresher`: however the touches of one object race, a stale entry had a refresh started or has a goroutine about to start it; `OwnReply`; `NoPrefetchCascade`: a refresh prefetches nothing |
| `ResolverPrefetch` | two clients; a name followed by a second one and that by a private reverse name; two background goroutines; failing exchanges, also inside a prefetch; a filter that changes; an instant | `OwnReply`, `PrefetchExclusive`, `NoPrefetchCascade`, `BlockedNeverResolved`; `StatsAddUp`: every query of a device is counted once, as refused, cached or forwarded, and no ratio exceeds 100 %; `ImplementsQueryService`: the resolver refines `QueryService`; under fairness `EveryQueryAnswered`, `PrefetchKeyReleased` |
| `ResolverStale` | three queries for one name with TTL 1, clock 0..3 | violated: docs and README.md:17 say records are cached up to their TTL and served stale while they are refreshed; when that refresh fails nothing tries again, and the old records go on being served |
| `ResolverWrap` | the same with TTL 3, clock 0..2 | violated: README.md:16 says records are cached up to their TTL; two goroutines pass the test of cache.go:58 with one TTL, both subtract, and the second difference wraps around |
| `QueryLogger` | two queries, a channel of one, a slow watcher, two database failures, one death of the process | `LogConserved`, `ShownIsLogged`, `ShownInOrder`, `NoSendOnClosed`, and `ImplementsQueryStore`: the log refines `QueryStore`, so a failed or interrupted flush stores nothing or the oldest waiting queries once; under fairness `StoredUnlessLeaked`, `UnsubscribeCompletes` |
| `QueryLoggerStuck` | three queries, one failed insert | violated: docs/config.md:85 says queries are stored; after an insert that fails before the last item the iterator keeps the queue's lock and the worker waits for ever |
| `Filtering` | two overlapping runs of `Sync`, two configurations with block and allow lists, two days; any stat, read, fetch, parse or write may fail, a write also halfway or when the file is whole, and the process may end anywhere | `ListedIsBlocked` and `AllowlistWins`: lists have the effect they are loaded for; `PeriodsShareTheDay`, `TraceExplains`; `SyncLoadsCopies`: a recent copy gets into memory unless a file operation on that very list failed; `NothingUnblocks` |
| `ListsOverride` | one run, a list that moves to another category | violated: docs/config.md:107 says lists can be overridden; the file of a list keeps its old category and URL |
| `ListsLookAlike` | one run, a list that names `aha.com` | violated: resolver.go:133-136 says a match is checked, lest `com.server` match `com.serverfault`; the check compares characters, and `ahaha.com` is blocked too |
| `Patterns` | two overlapping updates, two flushes of the log of ten forms, a failure, a restart | `LearnsWhatFollows`: the loops and the early exit of `binQueries` count what the log shows; `BatchesAreWhole`, `InStepWhenQuiet`, `LockIsReturned` |
| `Names` | two handlers, a private, a public and a loopback address, two files that are accepted and six that are not, three hours with names good for one, any number of ends and starts | `NameIsRecent`, `DroppedIsSought`, `StaticDeviceIsFiltered`, `AcceptedIsUsable` |
| `NamesPanic` | the same | violated: hostnames.go:71-74 logs a failed lookup and goes on; the message it logs from is nil, and the panic ends the process |

`PastTtlIsRefreshed` fails in two more ways, which no run listed here has the constants for. With
`Replies = {<<0>>}` a reply whose TTLs are all 0 is kept for `MaxUint32` seconds. With `TicksPerSecond = 3`
and `MaxTime = 4` an entry that is hit more than once a second does not age, because `touch` moves
`Touched` and drops the fraction of a second.

`ListedIsBlocked` and `AllowlistWins` exempt names for which a longer listed name gets in the way
(`Overrides`): with `ad.aha.com` on a list, `adx.aha.com` finds that one, fails the check by suffix and is
not judged by `aha.com`. Neither a comment nor the documentation says what should happen then.

`SyncLoadsCopies` is about whole and recent copies. A run gives up on the list of a copy it cannot see
or read, and on one it has written in full when closing the file reports an error (`unused`); it never
repairs a torn file, and when a parse panics the lists after that one are left to the next run
(`RunEnds`). The code promises no more, and no documentation does.

Bounds, and why they are enough. `MaxGoroutines` bounds how many background goroutines ever start,
so runs end in states where the model stops although the program would go on (`CHECK_DEADLOCK
FALSE`; in the query log because `Shutdown` really stops the worker, and everything bounded is used
up). Two queries and a refresh are the smallest race of `touch`; the run has three and three, and two
records, of which one runs out while the other counts down. A compiler may merge loads of one
variable; then there is nothing between two actions of the model, which is one of its behaviours. A
prefetch key needs two prefetchers that want it; there are two clients with a prefetcher each. Two
queries are the least with which an insert fails with an item left, a channel of one is full, and a
watcher that is slow holds one query while another is offered. Two runs of
`Sync` are all that a start and the daily job can overlap in practice; three syncs (times 0, 1, 2)
are the least with a copy that is fetched, found recent and found outdated. The visits in the log of
`Patterns` have pairs at five and at six seconds, counts at and below four fifths of five, another
client, a query without an answer, a slow answer that is logged late, and a second visit that begins
while the first is still within the window and partly out of the period looked back on. The four
names of the list instance have a name and its subdomains, a label that begins another, and one that
begins and ends another. In `Names` two handlers are what it takes to have one delete what the other
has set; three hours are the least in which a name is found out, expires, is found again and is
dropped; the clock moves at most once during a query, which takes seconds. `MaxHours` stands for the
2.5 million hours a `time.Duration` holds, smaller so that days wrap around within the files of the
instance; `DaysPerMonth` is above every day of the instance of `Blocklists`. `Limit` is the code's
10, more than there are names: `MostFrequent` keeps all of them in these runs. `MaxUint32` is any
number above the other TTLs. `Symmetry` permutes queries, handlers, or runs of `Sync`, which the
specifications treat alike; it is used in safety runs only.

Fairness. In `Resolver`: every goroutine that can take a step takes one in the end (the Go scheduler),
and an exchange ends, with an answer or after the client's read timeout (`resolver.go:240`). In
`QueryLogger`: the worker, its iterators and the websocket handlers go on when they can, the ticker
ticks, and a `select` does not ignore a ready case for ever (Go picks among the ready cases at
random). Nothing is assumed of clients, upstream answers, time, failures, crashes or of `Log` being
called; a background goroutine whose bound is used up blocks its starter, which the liveness
properties do not excuse, so the bounds of the runs with fairness let all of them end.

## What is proved

Every safety invariant, action property and refinement that a passing run checks is a theorem. The
theorems hold for every value of the constants that satisfies the named assumptions of the modules,
which say that constants have their types, that the null pointer is none of the values, and:

- `ResolverAssumption`: queries and background goroutines are different things.
- `LabelAssumption`: beginning with is transitive, and of two beginnings of a label one begins the other.
- `StatisticsAssumption`: the names and the texts a row of the log is marked with are none of them the
  null value, which stands for a column left empty.
- `PatternsAssumption`: what a flush stores is a sequence, and its times are whole numbers.
- `ConfigAssumption`: durations are written with whole numbers and a schedule says when it applies.
- `BlocklistsAssumption`: there are finitely many names, and each has a label.

TLC checked every inductive invariant on the instance of a run before it was proved.

### Query path (`ResolverProofs`, `ResolverSafetyProofs`, `ResolverServiceProofs`)

- `TypeCorrect`: `TypeOK` always holds. It is not inductive: every access of `touch` dereferences
  `loc[t].obj` and those of the loop index its records, `WriteMsg` reads a shared `resp[c].ref`, `Lookup`
  a cache entry. `IInv` adds that goroutines that have started have arguments (`CallOK`), that what a
  touching goroutine points to exists and has the record it looks at (`TouchOK`), that a response exists
  and shares an existing object (`RespOK`), and that a cache entry was made for its own question
  (`CacheOK`). The index stays good because an object is allocated once (`Unborn`, which itself
  needs that what has not started has no arguments, `Unstarted`): `Store` never replaces the records
  somebody is going through. One step
  per action of `Next`, one per conjunct.
- `PrefetchIsExclusive`: inductive on top of `IInv` as it stands.
- `RepliesAreOwn`: needs that a handler's call carries its own id (`OwnId`), that what a goroutine reads
  from the cache is an entry for its question (`OwnObject`), and that the response it is about to
  write is a private copy with its id or the very object it allocated (`ReplyReady`). The last is
  what makes it safe that the message of a miss is in the cache before it is written.
- `BlockedIsNeverResolved`: needs that the policy in force is one of `Policies` and that the response
  of a refused query says so (`BlockedReply`).
- `StaleIsNoticed`: needs `Unborn` and that a stale flag once seen is never cleared (`SeenStale`): a
  goroutine that found the entry stale before it touched it relies on another one, and induction finds
  that one.
- `ResolverImplementsQueryService`: every step maps to a step of `QueryService` or a stutter. Needs
  `ReplyGrounded`: a handler has a response only while it returns, and an answer is to a question some
  upstream has answered; no object is ever freed (`HeapGrows`), so the answer stays grounded.
- `PrefetchDoesNotCascade`: a counting argument. Only finitely many queries have arrived
  (`StartedFinite`), what is processed for a refresh or a prefetch starts no prefetch
  (`FollowUpsAreQuiet`), and each step that starts a prefetcher moves one query among the served.

- `StatisticsAddUp`: needs `ColumnsAgree`: a response that refuses is neither cached nor forwarded, any
  other is exactly one of the two, and only a cached one counts as prefetched. The columns are set at
  different returns of `process` and `resolve`; together with `IInv` this is inductive. On it rest two
  counts: the rows of a device fall into three disjoint parts
  (`ThreeParts`), and the entries of a histogram add up to the rows that are not empty in its column
  (`HistogramTotal`, by induction over the finite set of rows: one more row makes one entry greater by one,
  `CountOneMore`). Ratios are bounded because a part is no greater than the whole (`PercentageBounds`).

The lemma `TouchFacts` says once what any access of `touch` may do (to one object, in one goroutine,
without clearing `Stale` or changing the number of records); `TouchEndEffect`, `PrefetchOnHitEffect`, `StoreEffect` and
`StoreStarts` what the steps that start a goroutine do to the others.

### Query log and live view (`QueryLoggerProofs`)

- `LogTypesHold`, `ClosedIsNeverSentTo`: inductive together as `TypeInv`, which adds where the worker holds
  a query (`HandOK`), that a channel is closed by its own watcher, whose lock excludes a broadcast
  (`ChannelsOK`), and that the rows of an open transaction are the items its iterator has handed
  over, all of them once the iterator is through (`FlushOK`).
- `LogSteps` sums every step up: for the log as a whole it accepts a query, writes the whole queue,
  moves the retention, deletes what is too old, loses what waits, or changes nothing. From it follow
  `QueryLoggerImplementsQueryStore` and, with the order of queries (`InOrder`, `QueueOK`), `LogIsConserved`:
  selecting from what was accepted gives what selecting from the table and the queue gives.
- `ViewIsInOrder`, `ViewIsLogged`: the same for one watcher (`ViewSteps`). `ViewOK` relates what it has seen
  to what it may yet be offered, which is all later.

### Query patterns (`QueryPatternsProofs`)

- `PatternTypesHold`, `LockComesBack`, `TableHasWholeBatches`: from `TableInv`. A run learns once and one
  pattern for a name (`LearntOK`), its open transaction has rows of its own (`BatchOK`), and the table has
  all rows of a run or none, none before it commits (`StoredOK`). The first needs that `binQueries`
  counts finitely many pairs, whatever the log is.
- `MapIsInStep`: `MapOK`. From its `DELETE` until it has loaded the table a run answers for the difference
  between map and table, and what one run stored is replaced only by one that stores its own.

- `LearnsTheLog`: whatever the log, a run that reads all of it learns what the log shows. `SelectPlaces`:
  what is selected stays in order and nothing twice. `RankPermutes`, `ByTimeSorts`: ranks by the number of
  smaller elements are a permutation that keeps the order. So what is fetched is the recent part of the
  log in the order of time (`FetchesLog`), and in that order the inner loop of `binQueries`, which stops at
  the first relevant query that is too late, misses nothing (`ObservedFollow`). The pairs it counts are
  one to one with those `Follows` reads off the unsorted table (`CountsWhatFollows`), hence equal counts
  and types; `GreatestCount` turns the comparison with the most frequent name into one with every name.

### Client names and configuration (`ClientNamesProofs`)

- `NameTypesHold` (`NamesInv`: nothing is remembered of a time to come, or without a process),
  `DroppedNamesComeBack` (inductive on top of it), `StaticNamesAreUsed` (`StaticOK`: a device with a name in
  the configuration goes by it wherever a name is kept, in the map, in an item read before, in
  a variable), `NamesAreRecent` (`LastingOK`: whatever is kept expires in time).
- `AcceptedFilesAreUsable`: from `ReadFacts`, what holds of any configuration `Read` makes of any file.

### Lists and filter (`BlocklistsProofs`)

- `ListTypesHold`: `ListsInv`, where each run is and what it holds (`JobOK`).
- `ListedStaysBlocked`, `AllowlistsWin`, `LoadingUnblocksNothing`: about every tree of rules. They rest on
  lemmas about keys: being a prefix is transitive and total among the prefixes of one key
  (`PrefixIsTransitive`, `PrefixIsTotal`), so `LongestPrefix` chooses something (`LongestExists`), the key
  of a parent is a prefix and passes the check by suffix (`SuffixFacts`), and so the rules of a listed
  parent decide when no longer listed name gets in the way (`ClosestDecides`).
- `TraceExplainsVerdicts`, `PeriodsAreComplements`: for every tree and every configuration `Read` accepts.
- `SyncLoadsRecentCopies`: `PassedOK` says that every list a run has passed is in memory, or on its way,
  or has a copy a run gave up on. The lemma behind it (`InMemoryStep`) is that this is lost only with
  the process: who replaces a copy loads the new one next, or gives up on it (`GivesUp`). The property
  speaks of a run at a list of the same name, not at the same place of the configuration, because a
  configuration may name a list twice.

### Only model-checked

- Liveness: `EveryQueryAnswered`, `PrefetchKeyReleased`, `StoredUnlessLeaked`, `UnsubscribeCompletes`.
  Fairness and `ENABLED` are out of the prover's reach.
- The six properties of the runs that find a violation: they do not hold.

## What is not modelled

- The connection that an update does not give back when its `DELETE` fails (`cache.go:246` returns
  without a rollback): nothing has been written on it and it holds no lock, but it stays open.
- Of the configuration: the keys no other module reads (ports, upstreams, cache sizes, DHCP), the
  contents of the table of default lists (`sources.go`), and the texts themselves. Whether the YAML library replaces the
  default groups or adds to them is left open, and both are checked. A period that spans midnight is
  looked up under the weekday of now (config.go:148), so its hours after midnight belong to the day
  that begins; the documentation does not say which day is meant. An `apply_to` that names no group
  is accepted and never in force. An empty list of upstreams is accepted and makes `selectUpstream` panic; an
  assumption of `Resolver` excludes it.
- With `log_clients: false` every client is called "-" and the groups with devices apply to nobody
  (server.go:38-41); `StaticDeviceIsFiltered` says so in its condition.
- Of the statistics: response times, query types, codes and addresses, and the period asked for.
  The HTTP routes other than the websocket and the trace only read and encode.
- The weights of upstreams grow with the time since a failure and change probabilities only. The
  model has the least weight, which must stay above 0, and lets any upstream of positive weight be chosen.
- The start: the DNS server answers before the first sync has loaded a list (main.go:99), so queries
  of the first seconds are not filtered. `Blocklists` has the empty tree, but no property of the query
  path starts from it. The order of the deferred calls at the end is not modelled.
- A websocket client that has gone is noticed only when a query is written to it (ws.go:40): the
  model has this, no property speaks of it.
- The contents of records, and lines of a list that are repeated or in capitals. (Questions are
  lower-cased before they are looked up and lists are not, so a listed name in capitals matches nothing.)

## Plan

All modules and the theorems above are done. What is left is out of the prover's reach (liveness) or
listed as not modelled.
