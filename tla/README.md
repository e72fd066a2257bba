# A TLA+ model of go-clockwork

go-clockwork profiles HTTP requests: a middleware captures a request, a
collector records what happens while it is served, and the resulting metadata
is stored and served under `GET /__clockwork/:id`. This directory holds TLA+
modules of the parts whose behaviour depends on order, concurrency, limits or
failure, the TLC configurations that model-check them, and TLAPS proofs.

    tlc -workers 2 -config storage.cfg MCInMemoryStorage
    tlapm InMemoryStorageProofs.tla

`PROJECT.json` lists the runs, the source lines behind every definition, the
hazards of the code, the disagreements found and the theorems.

## The system

| Part | Source | State | Operations | Depends on |
|---|---|---|---|---|
| Service | `clockwork.go` | config, storage, registry of active traces (`sync.Map` + atomic counter), data sources (under an RWMutex) | `SaveMetadata`, `GetMetadata`, `ListMetadata`, `Cleanup`, `RegisterDataSource`, `CompleteRequest`, `RegisterTrace`, `HasActiveTraces`, `RecordLogFor...` | storage, collector |
| Cleanup loop | `clockwork.go` 217-232 | ticker, stop channel | tick, stop | storage |
| Collector | `collector.go` | one request's lists, drop counters, `truncated`, bytes charged; one mutex | the `Add...` and `Set...` methods, `GetMetadata` | limits of the config |
| In-memory storage | `storage_memory.go` | list, index, byte total; one RWMutex | `Store`, `Get`, `List`, `Cleanup` | clock |
| Redis storage | `storage/redis` | keys with a TTL, an index list, on the server | `Store` (a pipeline), `Get`, `List` | Redis |
| Memcache storage | `storage/memcache` | keys with a TTL and an index key on the server, a mutex per process | `Store`, `Get`, `List` | memcached |
| Middlewares | `middleware/{http,gin,chi,fiber,echo}`, `middleware_helpers.go` | none; a collector per request | capture decision, headers, registration, handler, completion; the metadata route | service, collector |
| zap integration | `integrations/zap` | none | `Core.Write`: gate, then a record call | registry |
| SQL, cache integrations | `integrations/{sql,cache}` | none | record a query on the collector in the context | collector |
| Configuration | `config.go`, `config/load.go` | the process's environment | `Load`: .env files, config file, environment, overrides, `Normalize` | viper, gotenv |
| Types | `metadata.go`, `protocol.go`, `datasource.go`, `storage.go` | none | - | - |

A request goes through the parts in this order. The middleware decides whether
to capture it, makes a collector and, if the context carries a trace id,
registers the collector under it. While the handler runs, integrations record
on the collector; a zap core finds it through the registry. `CompleteRequest`
sets the response data, calls the data sources, takes the metadata out,
unregisters the trace and stores the metadata. Beside the requests, the cleanup
loop removes old entries from the storage and clients read it. All of it runs
on a `Config` that was loaded and normalised once, before.

What is hard: no lock spans a request, so registration, log lines and
completion of several requests interleave freely; the registry is two atomics;
the trace id a request is unregistered with is not the one it was registered
with but what the collector kept of it; a panic skips completion; the storage
pushes before it evicts; the cutoff of a cleanup is older than its lock; four
collector methods fill one timeline; drop counters are kept by hand in six
places; the remote storages update several keys without a transaction; a client
gets an id before there is metadata to it, and by the time it asks others may
have pushed that out; an option passes through three readers of the same
environment that do not agree on what a good value is.

## Modules

| Module | Models |
|---|---|
| `RecencyLog` | what a bounded storage promises: a log of the most recent entries, one per id, within two limits; every operation is one step |
| `InMemoryStorage` | `storage_memory.go`, by goroutine: the call before the lock, the lock with what follows, each turn of the loops |
| `CleanupLoop` | `StartCleanupLoop`: composes a ticker, a stop channel and a loop with `InMemoryStorage` |
| `Collector` | `collector.go`: one action per method |
| `ActiveTraces` | the registry in `clockwork.go`, `CompleteRequest`, the middleware's calls and zap's `Core.Write`, each access to shared state a step |
| `MemcacheStorage` | `storage/memcache`: `Store` with each round trip a step |
| `RedisStorage` | `storage/redis`: `Store` with each command of its pipeline a step |
| `RequestLifecycle` | the five adapters: capture, status and id on their way to the client and to the storage |
| `RequestService` | composes `RequestLifecycle` with a storage (an instance of `RecencyLog`), the other requests and cleanups that use it, and the metadata route |
| `Integrations` | the sql, cache and zap integrations over `Collector`: what they make of a query, a cache operation or a log line |
| `ConfigLoader` | `config.go`, `config/load.go`: one call of `Load` |
| `InMemoryStorageProofs`, `CollectorProofs`, `ActiveTracesProofs`, `RedisStorageProofs`, `MemcacheStorageProofs`, `RequestServiceProofs`, `ConfigLoaderProofs` | theorems about the module named; those of `CleanupLoop` are in `InMemoryStorageProofs`, those of `Integrations` in `CollectorProofs`, those of `RequestLifecycle` in `RequestServiceProofs` |
| `Numbers` | the least-number principle, which the proofs use in place of induction |
| `MC...` | the instances TLC checks |

A definition named `X_Bug` repeats `X` with a plausible bug. Nothing refers to
it; replacing `X` by it must make TLC refute the property `PROJECT.json` names.
`InMemoryStorage` and `RecencyLog` are tied by refinement, `CleanupLoop`
extends `InMemoryStorage`, `Integrations` extends `Collector`, and
`RequestService` joins `RequestLifecycle` to the abstract storage that
`InMemoryStorage` implements. `ActiveTraces` and `Integrations` meet at an
interface: the first has the way of a log line to its collector, `AppendLine`,
the second what arrives there, `Write`.

### How state and actions correspond to the code

**InMemoryStorage.** `entries` is the list of that name, of records rather
than pointers (the index holds a copy, and `IndexMatchesList` is about both holding
the same); `byID` and `totalBytes` are the fields of that name; `mu` is the
writer. An entry keeps of its metadata the id, the length of the JSON and
`createdAt`. `Store` is `BeginStore` (checks and marshalling, no lock),
`LockStore` (lock, drop the entry of the same id, push), `EvictFront` per turn
of `evictLocked`, `EndStore`. `Cleanup` is `BeginCleanup` (which fixes the
cutoff), `LockCleanup`, `SweepElem`, `EndCleanup`. `Get` and `List` hold the
read lock throughout and are operators. `Tick` lets time pass between any two
steps.

**RecencyLog.** What the limits leave is a suffix of the list, and so is what a
retention time leaves: `Recent` and `Young` name the least position from which
the rest fits, or is young. That a rest `Fits` is said by a function of running
sums. `MCInMemoryStorage` compares both with a fold and a filter over all short
lists (`RecencyByFilters`).

**CleanupLoop.** `tick` is the ticker's one-place channel, `stop` the closed
state of the stop channel, `running` that `runCleanup` has not returned.
`TakeTick` and `TakeStop` are the arms of the select; the Cleanup it calls runs
through the actions of `InMemoryStorage` in the goroutine `Loop`.

**Collector.** Each list is its length; `usedBytes`, `dropped` and `truncated`
are the fields. A call's arguments are what the limits can tell apart: the
estimate given to `reserveLocked`, how many of its strings are too long, whether
a log context has more than 20 fields. `Refuse` and `Reserve` are the two
outcomes of `reserveLocked`, `Mark` the effect of `truncate` and
`sanitizeContext`.

**ActiveTraces.** `active` and `activeCount` are `activeByTrace` and
`activeCount`; `pc[r]` is where request `r` is between the middleware's capture
and the return of `CompleteRequest`; `line[l]` is where log line `l` is in
`Core.Write`. `RegisterTrace` is `LoadOrStore` and `CountUp`, `unregisterTrace`
is `LoadAndDelete` and `CountDown`, as the code updates the map and the counter
one after the other. `StoredTrace` is what `SetTrace` keeps of an id:
`CompleteRequest` unregisters that one. The bundled middlewares take ids from
OpenTelemetry, 32 characters long, which the default string limit of 2048 leaves alone,
but `RegisterTrace` and `SetTrace` are exported, `README.md` invites custom
middleware, and the limit is configurable; cut ids may then coincide. A
collector keeps a line or counts it: `AppendLine` refuses it when the list has
`MaxLogs` lines, and may refuse it at any time for want of byte budget, which
everything else a request records draws on (`Collector` has the sums). `logs`
and `refused` are the two outcomes, `meta` and `counted` what `GetMetadata`
takes of them.

**MemcacheStorage.** `items` and `index` are what the server holds, `mu` the
mutex of each `Storage` value, which stands for a process. `SetItem`,
`LoadIndex`, `SaveIndex`, `DeleteEvicted` are the client's calls; `Fail` is an
error of any of them, with or without effect on the server; `Forget` is expiry
or memory pressure. `done`, `before`, `begun`, `again`, `used` and `faulty` are
history. `Without` is the loop of `prependUnique`: what is left is counted off by
rank, and `WithoutFilters` compares it with a filter.

**RedisStorage.** `expiry`, `index` and `indexExpiry` are the keys on the
server; `Set`, `LPush`, `LTrim` and `Expire` the commands of the pipeline, one
at a time; `Break` a connection that breaks, after which the client gives up or
sends the whole pipeline again (go-redis retries by default); `Tick` is time and
the expiry of keys. SET carries a TTL in milliseconds if it is not whole seconds;
EXPIRE knows seconds only and go-redis cuts the rest off: `IndexTTL` is what it
sends, `Second` the ticks of a second, `Cut` what is lost.

**RequestLifecycle.** `adapter` says which middleware. `status` is what its
response writer reports, `out` what has left (the status, and whether the id
header was on it), `recorded` the collector's status, `metadata` the stored one.
`SetStatus` and `Write` are the handler's, `Return` and `Panic` its end,
`Complete` is `SetResponseData`, `Save` is `SaveMetadata`, `Unwind` is what the
framework does outside the middleware: handling an error (echo, fiber), sending
what has not left. The sets `Buffers`, `SendsAtOnce` and `HandlesErrors` say how
the frameworks differ.

**RequestService.** `log` and `now` are the state of `RecencyLog`; `Me` is the id of
the request `RequestLifecycle` follows, the others are numbered. `SaveMetadata`
is `Save` with the storage's `Put` in it; `OtherRequest` is the same for anybody
else's request, which must pass the capture decision first; `Cleanup` comes with
any cutoff that may have been computed by now. `Answer` is the metadata route,
`ResolveMetadataID` where it takes the id from (the header goes before the
path). `ContextReused` is fiber's pool; `uri` says whose path the stored
metadata shows. `storedAt` and `newer` are history: from them `Displaced` says
whether the limits or the retention time gave a reason to drop the metadata.

**Integrations.** `OnQuery` and `CacheOperation` are calls on the collector with
what the integration decides. `Write` is `Core.Write` from `appendFields` on:
`LogContext` is the set of keys it ends up with, of the fields the logger is
bound to and those of the call, in order, cut at `MaxFields`; `EntryFields` adds
the logger's name if it has one and the time if it is not zero, to a full map,
too; `LogTrace` is the number of frames. `Sanitizes` says what the collector may
take of that map, in whatever order Go ranges over it: keys that are too long are
cut (`CutKey`), so that two may become one. `AppendsInTurn` and `SanitizesInTurn`
compare `AppendFields` and `Sanitizes`, which say which keys are in, with the
loops over the fields. `untold` is history: for each stored line that lost a
field with nothing counted, the keys `Write` had added to it.

**ConfigLoader.** `pc` is the place in `Load`. Options of a kind are treated
alike by the code, so a model has a set of options for each kind: numbers
(limits and durations), flags, names of headers. A text in the environment is
its form (unset, empty, blank, padded with spaces, plain, with a base prefix
like 0x10, with a zero in front like 010 or 08, garbage) and its value, as the
parsers differ in which forms they take and in what they read: `Parses` is
`strconv` in base 10 and `time`, `InViper`, `Decodes` and `Decoded` are viper and
mapstructure, which goes by the prefix (external; to it 010 is eight, and 08
nothing), `LookupEnv` and `Trimmed` the loader's own. Durations and flags so
written parse alike in both or not at all: for them such a text is plain or
garbage. `Unmarshal`
is both branches of the `IsSet` test: in a section the environment is not
consulted, at the root it goes before the file. `ApplyEnvOverrides` and
`Normalize` are the functions of that name.

## What the runs show

| Run | Bounds | Result |
|---|---|---|
| `storage` | 2 goroutines, 3 ids, sizes 1, 2, 4, limits of 2 entries and 3 bytes, clock to 3 | index, list and byte total agree; order of creation; limits hold whenever a reader can get in; `List` and `Get` agree; an entry goes only when replaced, evicted or expired; a Cleanup misses nothing; implements `RecencyLog` |
| `cleanup_loop` | loop and one request goroutine, 2 ids, clock to 4, interval 2, retention 1 | a stop ends the loop; an expired entry is removed; every call returns |
| `recording` | 6 calls of integrations and handlers, limits of 1, 2, 2 and none, budget of 5, contexts of 2 fields, traces of 2 frames, 4 lists of fields, of keys some of which are too long | every call is accounted for; every query is on the timeline or counted there; limits hold; `truncated` tells the truth; only recorded calls are charged; a line that lost a field says so, unless `Write` adds no key of its own to it: it has neither name nor time, or fields called `logger` and `time` |
| `registry` | 3 requests, 2 trace ids of which one is cut to the other, panics, 1 data source | map and counter stay in step; only a panic or a cut id leaves an entry; otherwise the registry ends up empty |
| `log_lines` | 2 requests, 2 lines of which a collector takes one at most, 2 trace ids, panics | a line with a trace id only reaches requests of that trace; with unique ids the counter never misses a running request, and every line a handler logs is stored with its own request, or counted there as dropped, unless an id is cut |
| `memcache` | 2 goroutines in one process, 1 in another, 3 ids, an index of 2 | the index is bounded in any case; newest first, always for ids stored once; in one process without faults no update is lost, what is listed is stored, what is stored is listed or about to be deleted |
| `redis` | 2 pipelines, 3 ids, an index of 2, TTL of a second and a half (3 ticks), clock to 5 | an index too long or without a TTL is passing; it outlives the metadata it lists but for the half second EXPIRE cuts off; metadata with longer to live is listed, newest first |
| `service` | 5 adapters, 3 statuses; 3 other requests; sizes 1, 2, 4, limits of 2 entries and 3 bytes, clock to 3, retention 1 | the stored status is the one the client got, with two named exceptions; stored metadata is retrievable until the limits or the retention time give a reason to drop it; an id a client has resolves in the end |
| `config` | one option of each kind, 10, 6 and 5 texts in the environment, with and without .env, 4 shapes of file, up to 4 values in it | a loaded config is usable; environment, file, default decide in that order; `Load` fails for the named reasons only |

The bounds let every interesting case happen: one id more than there is room
for, entries that fit alone, together and not at all, a third request that
registers a trace between two others, a budget and limits that are each met in
some order, a TTL that runs out within the clock, every combination of texts and
values an option can have. No property depends on a
number of processes beyond two or three: each is about a pair of entries, a
pair of requests, or one request and the shared counter. Where TLAPS has proved
the property the bounds do not matter.

Three further runs find a violation, each of a sentence in the repository:

| Run | What the code does | What is said |
|---|---|---|
| `panic_leaks_trace` | `CompleteRequest` is not deferred: a panicking handler leaves its trace registered, and `HasActiveTraces` is true with no request left | clockwork.go:163 |
| `shared_trace_loses_lines` | of two requests with one trace id only the first is registered; lines of the other go to it, or nowhere, and are not counted either | integrations/zap/README.md:27 |
| `fiber_path_reused` | the collector keeps `c.Path()`, a string that shares the buffer of fiber's pooled context (unless the app is configured `Immutable`): the next request on that context overwrites the path in the stored metadata of the in-memory storage | README.md:115 |

Met on the way, without a run of their own:

- a trace id that `SetTrace` cuts is not found when it is unregistered: its
  entry stays, or another's is taken out (`LeaksOnlyByPanicOrCut` names it);
- processes that share a memcached overwrite each other's index
  (`NoLostUpdate` holds within one process only), and an id stored again while
  it is evicted can end up listed and gone;
- `RecordLogForSingleActive` may pick one of two active requests, as the counter
  is read before the map; the code calls it best-effort;
- a line looked up just before its request completes is appended to a collector
  nobody reads any more;
- a Redis TTL that is not whole seconds lets the index go before the last
  metadata in it, by less than a second (`AheadByLessThanASecond`); an LPUSH does
  not look for the id, so an id stored again takes the place of another;
- a line of a logger without a name whose entry has a zero time may lose fields
  to the limit of 20 with nothing on record, as may one that brings fields called
  `logger` and `time` itself (`ContextLossTold` says that it takes this); two
  keys cut to the same text become one field, which the count of cut strings
  shows;
- user data and the context fields of log lines are kept outside the byte
  budget, so nothing bounds the payload of a request;
- with net/http, chi, gin and echo the id header leaves with the first byte the
  handler writes, the metadata is stored after the handler: until then the route
  answers 404 (`IdResolves` is about the end, not about at once);
- the id header of a request for the metadata route goes before the id in the
  path;
- a number that is not positive in the environment beats a good one in the file
  and becomes the default; a header name of spaces only passes `Normalize` and
  turns capture off, as no request can have that header (`LoadedIsUsable` names
  how it gets in);
- a limit of 08 in the environment is eight to the loader and an error to
  mapstructure, which fails `Load` when the options are at the root of the file or
  there is none; 010 is eight to mapstructure and, in the end, ten;
- a variable that is blank, padded or no number fails `Load` when the options are
  at the root of the file or there is none, and is ignored or trimmed when they
  are in a section (`FailsForAReason` has the list); `gotenv` leaves its values in
  the process's environment, where they go before a later `Load`'s .env files;
- the caller of a log line is listed twice when the entry has a stack, as
  `isSameFrame` compares function names and the caller comes without one;
- `ExtractSafeHeaders` looks for `X-Request-ID` and `X-City-ID`, which canonical
  header keys never equal;
- `docs/architecture.md` says the logger is used by the middleware when
  persistence fails; only gin takes one.

### Fairness

Liveness is checked in `cleanup_loop`, `registry` and `service`.

- A goroutine that is running keeps running (weak fairness of its steps).
- Waiting for `mu` gets strong fairness: `sync.RWMutex` starves nobody.
- `TakeStop` gets strong fairness: Go's select chooses at random among the
  channels that are ready.
- The clock goes on: weak fairness of `ClockAdvances`.
- Handlers, data sources and storages return, or panic. No request has to
  arrive, no line has to be logged, no goroutine has to call Store, and nobody
  has to stop the loop.

`EventuallyQuiet` assumes that neither leak happens, `IdResolves` allows for a
panic, for a Store that fails and for metadata that was displaced.

## What is proved

For any number of goroutines, any ids, sizes, ages and limits, from the
assumptions named in the modules:

| Module | Theorems |
|---|---|
| `InMemoryStorageProofs` | `TypeCorrect`, `IndexCorrect`, `OrderCorrect`, `TotalCorrect`, `LimitsHold`, `CleanupComplete`, `ReadersAgree`, `LossJustified`, `LogImplemented`; with a `CleanupLoop`: `LoopRefines`, `LoopImplementsLog` |
| `CollectorProofs`, of `Collector` | `TypeCorrect`, `EveryCallAccounted`, `EveryQueryShown`, `LimitsHold`, `TruncationTold`, `ChargesRecorded` |
| `CollectorProofs`, of `Integrations` | `IntegratedAccounting`, `IntegratedTimeline`, `IntegratedLimits`, `IntegratedTruncation`, `IntegratedCharges`, `LossIsTold` |
| `ActiveTracesProofs` | `TypeCorrect`, `CountFollowsRegistry`, `LeaksNamed`, `TracesNotMixed`, `CountCovers`, `LinesNotLost` |
| `RedisStorageProofs` | `TypeCorrect`, `ExcessPasses`, `ImmortalPasses`, `IndexOutlives`, `AheadByLessThanASecond`, `StoredAreListed`, `NewestAreFirst` |
| `MemcacheStorageProofs` | `TypeCorrect`, `IndexStaysBounded`, `NewestAreFirst`, `UpdatesNotLost`, `ListedAreStored`, `NothingOrphaned` |
| `RequestServiceProofs`, of `RequestLifecycle` | `TypeCorrect`, `StatusCorrect` |
| `RequestServiceProofs`, of `RequestService` | `ServiceRefines`, `ServiceStatusCorrect`, `Retrievable` |
| `ConfigLoaderProofs` | `SourcesInOrder`, `UsableWhenLoaded`, `FailureHasReason` |

Each module also has the theorem that its inductive invariant is one
(`Invariance`; `UniqueInvariance`, `IntegratedInvariance` and
`ServiceInvariance` where there is a second).

*InMemoryStorage.* None of the invariants is inductive alone: whether the total
is exact after a removal depends on the index pointing at an element that is in
the list, and that on ids being unique. `IInv` joins them in `Consistent`, a
predicate of a list, an index and a total, and adds that a goroutine is in a
loop exactly when it holds the lock, that the limits are exceeded only while
some goroutine evicts, and that what a sweep has passed is young enough. The
total is the last of a function of running sums, so that no recursion is
needed. Two lemmas carry the proof, `RemovalConsistent` and `PushConsistent`:
every change of the storage is composed of these two. That the clamp at zero in
`removeElementLocked` never acts is a step of the first. `LossJustified` needs
one more invariant, `CutoffsPast`: the cutoff a sweep works with lies before the
clock, so what it drops is older than some retention time. Assumed: the limits
are positive (`NewInMemoryStorage` replaces others), sizes are positive (JSON of
an object is never empty), `NoEntry` is no entry.

*The storage implements RecencyLog.* The mapping takes a loop as finished from
the moment it has the lock: the abstract log is the list with the pending
evictions, or the pending sweep, done. So `LockStore` is `Put`, `LockCleanup` is
`Expire`, `Tick` is `Tick`, and every other step a stutter, one lemma for each
(`LockStorePuts`, `LockCleanupExpires`, `EvictStutters`, ...). Evicting the front of
a list that does not fit leaves the same longest suffix that fits
(`RecentTail`); `OverLimit` means that it does not fit because the total is the
sum the running sums end in, and these are unique (`SumsUnique`). A sweep only
ever removes the front, because the list is sorted and what the sweep has passed
is young (`YoungTail`). A cutoff before the clock began drops nothing and is a
stutter. `LoopRefines` is that a behaviour of `CleanupLoop` is one of
`InMemoryStorage`, so all of this holds with the loop in place. Assumed there: the
loop's goroutine and its retention time are among those of the storage.

*Collector.* `IInv` is the conjunction of the type invariant and the four
invariants; one lemma for each of `Refuse`, `Reserve`, `Mark` and
`AppendTimeline` says what it adds to the counters, and each method composes
them. `ChargesRecorded` needs the type invariant only.

*Integrations.* The collector's lemmas are about `AnyCall`, a call of any method
with any argument; what an integration or a handler does is one of these
(`IntegratedNextIsAnyCall`), so the invariant carries over. `LossIsTold` is new: if
a field is missing from a context, the context was full when its turn came
(`AppendFull`, by the least position at which it was). If `Write` then adds a key
the line did not bring, the map is overfull (`LossShows`), and the collector
cannot have taken all of it with every key whole (`WholeContextFits`): a context
or a string is counted as cut. Assumed: keys are strings, and
the two limits positive.

*ActiveTraces.* `IInv` has four parts. `Owned`: the request of an entry has
that trace and is still registered or has panicked, or the id was cut.
`LinesTraced`: a line that is about to be appended, or has been, is with a
request of its own trace if it has one; requests keep their trace meanwhile.
`CountMatchesRegistry` is inductive beside `TypeOK`: each step adds one element
to one of three finite sets or removes one, or does so to two of them at once.
What holds with unique ids is a second invariant, `UInv`, on top of the first.
Uniqueness is a premise in it and not an assumption: it is about the ids given so
far, so a step that gives one only has to keep what it can still promise.
`Covered`: the map has at least as many entries as requests are registered under a
trace, as each has put in one and taken out none, its own or another's. `Entered`:
if no id is cut either, the entry of a trace is that of its request. `Followed`:
a line of a running handler is on its way to its own request, or there, kept or
counted. The request cannot complete meanwhile, as its handler waits for the line. Assumed:
the sets of requests and of traces are finite, `NoReq` is no request,
`NoTrace` no trace, and a cut trace id is again a trace id.

*RedisStorage.* `OwnCalls`: two Stores that go on are of different ids.
`LifeBounded`: no metadata has longer to live than a TTL from now, hence, from
the EXPIRE on, not longer than the index; this holds although other pipelines
run between the SET and the EXPIRE. Both are up to `Cut`, of which `TTLFacts` says
that it is less than a second and nothing for whole seconds. `PushedIsListed` and `PushedFirst` extend
`StoredIsListed` and `NewestFirst` to Stores that have pushed and not yet
returned: an LPUSH of another id moves everything one place back, an LTRIM cuts
the end, and neither puts an older id before a newer. Assumed: `TTL` and `Second` are positive.

*MemcacheStorage.* What holds in any case is about lists: `Proper` says of the
index, and of every index a goroutine may still save, that it has no id twice, no
more than the limit, none that is only coming, and the ids stored once in
order. What one process without faults guarantees comes from the mutex:
`Agreement` says that the goroutine between `LoadIndex` and `SaveIndex` has what
is on the server, and the one that deletes has its own id at the front and
what it evicted nowhere in the index. `WithoutFacts` says what
`prependUnique` leaves. Assumed: each goroutine has a `Storage` value, and
`Nobody` is no goroutine.

*RequestLifecycle.* The invariant follows the status through its places: nothing
is recorded before the handler has returned, what is recorded is the status from
then on, what is stored is what was recorded, and what has left is the status
unless one of the exceptions was there to change it.

*RequestService.* `ServiceRefines`: a behaviour of the service is one of
`RequestLifecycle`, so its theorems carry over. `SInv` adds that as long as the
metadata is not displaced its entry `Stands` in the log, with no more entries
and bytes behind it than were stored since. So the rest from it on fits
whenever there is `Room`, the longest rest that fits begins no later, and an
Expire whose cutoff it outlives begins no later either (`SuffixHolds`).
`LogImplemented` carries this to the storage in memory. Assumed: limits and
sizes are positive, `None` is no number.

*ConfigLoader.* The invariant says what each step of `Load` has decided: that
`cfg` is what viper decodes after `Unmarshal`, what the overrides make of it
after that, and what `Normalize` makes of that at the end; and which reason a
failure has. `OverriddenIsValue` then compares the two orders of deciding, source
by source in the code and option by option in `FirstSourceDecides`, form by form
of the texts. Assumed: an option has one kind (`KindsAssumption`), a text has one
of the forms of `Forms` (`TextsAssumption`).

What attempts at these proofs showed: without `TracesFit` the property
`UniqueTracedLinesAccounted` is false for a cut id, which takes out the entry of
another request (it holds of the bundled middlewares, whose ids are never cut);
whether an id was stored before has to be known from the start of its first Store
(`begun`), not from its end; and of two listed ids the order is only kept
if the older one has not been trimmed away in between, so `NewestFirst` of Redis
speaks of ids that are not listed, too.

Only model-checked are the liveness properties (`StopEndsLoop`,
`ExpiredIsRemoved`, `CallsReturn`, `EventuallyQuiet`, `IdResolves`), which rest on
fairness. The operators TLC
compares with folds and filters (`RecencyByFilters`, `WithoutFilters`,
`AppendsInTurn`, `SanitizesInTurn`) are compared on short lists only, as the folds recurse. The type
invariants that are proved are not run as invariants, except that of
`MemcacheStorage`, which also ties the mutex to the goroutine that holds it.

## What is not modelled

- Bodies of metadata: headers, URLs, durations, stack frames, JSON,
  the values of log fields, table names taken from queries. A marshalling error is
  a failing `Save`.
- `Get` and `List` of the remote storages, which change nothing and read several
  keys one by one: an id that expires in between is skipped.
- The error of a single Redis command inside a pipeline whose later commands
  still run (an index key of another type, memory that is used up).
- Handlers that call `SetTrace` again or `RegisterTrace` by hand:
  `LeaksOnlyByPanicOrCut` is about the middlewares.
- Commands that reach a remote server after the client has given up on them.
- TTL arithmetic of memcache (cut to seconds): expiry may happen at any time.
- The names `Load` finds its file and its variables by; what viper reads besides
  (a variable `CLOCKWORK_CLOCKWORK` would stand for the whole section).
- Another `fiber` request's write into the buffer while metadata is marshalled: a
  data race with the same outcome as `ContextReused`, a path that is not the
  request's.

## Plan

Done: the modules above, in the order storage, cleanup loop, collector,
registry, remote storages, request lifecycle, integrations, service,
configuration, and the proofs listed: every invariant and action property of
the passing runs, and the refinement of `RecencyLog`.

Next:

1. An abstract registry (the set of traces being served) that `ActiveTraces`
   implements as long as traces are unique, fit, and nobody panics.
2. The order of an index that several processes share in memcached: what two
   of them can still promise each other.
