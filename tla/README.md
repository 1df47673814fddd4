# Verification of webdev

TLA+ models, TLC runs and TLAPS proofs about the Go toolkit in `src/`: some thirty
small packages under `src/pkg` and an example application, `src/cmd/crm`. Most
packages are sequential helpers that unit tests cover well. What is verified here is
the part tests reach badly: shared state under locks that are released in the
middle, retries, lost answers, crashes, and processes that meet in a database.

`PROJECT.json` lists the components, the runs, the hazards with the properties
that cover them, and for every definition the source lines it models.

## 1. Inventory

The components with logic of their own, the state each keeps, and when it is right.
The rest (see the component list) is formatting, I/O, or wiring of libraries.

| Component | State | Operations | Hard part | Right when |
|---|---|---|---|---|
| `resilience` circuit breaker | state, failure count, openUntil, probe right, under one mutex | `Execute`, `State` | fn runs outside the lock; results arrive in a later era than the call began in; panics; contexts | the probe right is never lost or doubled; counts mean what they say; it never wedges |
| `resilience` retry | none | `RetryPolicy.Do` | context ending in a pause | attempts bounded, first error kept |
| `db` runtime | global `*runtime` (pool, breaker, cache) | `Init`, `Close`, `Exec*`, `Query*`, `Bulk*`, `Tx` | replaced while in use; lost answers and retries | no pool leaks; no unasked second write; truthful row totals |
| `db` statement cache | map, LRU list, reference counts | `acquire`, `release`, `closeAll` | prepare outside the lock; eviction in use | nobody uses a closed statement, none leaks |
| `db` builders | none | `bindNamed`, bulk statements | batch limits, empty lists, rows repeated in a batch | a statement finds and changes the rows that were described |
| `sqlutil`, `q` | cached templates | render files, build conditions | functions that collect arguments, shared between renders | arguments belong to their own text, in its order |
| `migrate` | tracking table, advisory lock, schema | `Up`, `Down`, `DownAll`, `Status` | several processes; crashes between body and record; lost COMMIT answers; pool limits | the schema is always a prefix of the migrations, recorded as such; runs return |
| `seeder` | history table, list of seeds | `Run`, `RunForce` | two runs, no lock | each seed once, failures reported |
| `ratelimit` | tokens, last refill, closed | `Allow`, `Wait`, `Do`, `Close` | lazy refill, truncated sleeps, several waiters | no token minted or lost; waiters progress |
| `signals` | subscriber slices, topic map | `Subscribe`, `Emit`, `Clear`, `Bus.*` | slices shared after unlock; topics removed meanwhile | an emission reaches exactly who was subscribed |
| `httpx` | none per call | JSON exchange, streams, downloads, uploads | retries of what may have been applied; Retry-After; temporary files; idle timer | attempts bounded, only repeatable requests repeated, destination whole or untouched |
| `policy` | casbin enforcer; default manager; pending adapter | `Init`, `SetAdapter`, `Reload`, `Enforce`, `AddPolicy` | reload failing half-way; the global replaced meanwhile | decisions come from a whole policy |
| `crm/menusvc` | cached tree, time loaded | `Items`, `Reload`, `BuildTree` | overlapping reloads | what is served is no older than a TTL and the loads it passed through |
| `crm` login limit | map of limiters | per-request `get`, sweep | a swept limiter in use | at most the configured rate |
| `web` sessions | a session the client keeps | flash, old input, CSRF token | overlapping requests of a client | nothing lost, nothing shown twice |
| `middleware` | response writer | `Recover`, `Timeout`, ... | panic after the answer began | one status line per answer |
| `crm/menusvc`, `web` menu | none | `BuildTree`, `BuildMenu` | cycles, headings, permissions | the menu is the records, and what its reader may open |
| `router` | registry of names | `RegisterRoute`, `ChiGroup`, `ReverseURL` | nested prefixes, optional parameters | a URL leads where the route is served, with the values given |
| `forms`, `validation`, `crypto` signed tokens, `config` | none or immutable | pure functions | edge cases | not modelled (section 5) |

Interactions: `db` runs each call through a breaker and then through
`RetryPolicy`, on a runtime that owns a statement cache; `migrate` and `seeder`
use a `*sql.DB` of the caller's; `crm` builds its login limiter from `ratelimit`,
its menu from `web`, `policy` and `router`. The packages share no other mutable state.

## 2. Modules

| Module | Models | State and actions |
|---|---|---|
| `CircuitBreaker` | the breaker of `resilience.go` | the fields, with `openUntil` as the time left; what each goroutine is running. `ExecuteClosed`/`ExecuteProbe` are the first critical section of `Execute`, `Return` is fn's result (or panic) with `record`, `State` the lazy transition |
| `StmtCache` | `db/stmtcache.go` | map, list, counts, and whether the server-side statement is open. One action per critical section of `acquire`, `PrepareOK`/`PrepareFails` without the lock, `Release`, `CloseAll` |
| `DbRuntime` | `db/db.go`, `errors.go`, the loop of `RetryPolicy.Do` | the global runtime and its pools; `Init` in three steps (open, swap, close the old), `Close` in two; for each call its runtime, attempts, statements, rows counted and answer; history: how often the database applied it |
| `BatchSize` | `builders.go` | how many rows a statement of a dialect takes |
| `BulkWrite` | `BulkInsertRows`, `BulkUpsertRowsWithOptions`, `BulkUpdateByKey` | the job, its statements, and a table they are executed on one after the other in a transaction |
| `SqlText` | | SQL as tokens, and how a database reads it with three-valued logic |
| `NamedParams` | `bindNamed` | one template and its parameters, bound once |
| `Condition` | `q`, the WHERE builder of `sqlutil` | one tree of conditions, built once |
| `SqlLoader` | `sqlutil.SQLLoader` | the shared template, its functions, each renderer's clone and arguments; a piece of text carries the number of places up to its end |
| `SchemaVersion` | the promise of `migrate` | files in force and recorded; one step forward or back at a time |
| `Migrate` | `migrate.go`, `lock.go` | the table, the effect of each file, the advisory lock; each runner from `Start` over connection, lock, snapshot, loop, transaction or no-tx body and record, to `Release`. `Fails` may happen at any statement, `TxCommit(r, FALSE)` is a lost answer, `Crash` may happen anywhere |
| `RateLimiter` | `ratelimit.go` | tokens and the time since the last refill in integer units, sleepers with their timers; history: a meter `debt` that charges grants and drains at the rate |
| `Signal` | `Signal[T]` | slice headers into a heap of arrays with capacities, as Go shares and grows them; each emission's header and position |
| `SignalBus` | `Bus` | the topic's Signal, its members, each user between look-up and subscription |
| `HttpExchange` | `httpx.go`, `retry.go` | one call: attempt, pause, causes of the last failure, answer; history: what the server carried out |
| `AtomicFile`, `Download` | `DownloadToFile` | the destination as one whole content; temporary files step by step, every step failing, power cuts that lose what was not synced |
| `RecordStream` | `StreamNDJSON`, `streamCtx` | what the server sent, what is buffered and handled, the idle timer |
| `RequestLog` | `logToFile` | current and rotated file, who holds `logMu` |
| `PolicyManager` | `policy`, `gormpolicy` | managers with the model and rules in force, default manager, pending adapter, calls holding a manager they fetched |
| `Seeder` | `seeder.go` | the history table, effects, each run's snapshot and transaction |
| `MenuLoader` | `menuloader.go`, the cache | tree in force and when it was stored, requests between read and store |
| `MenuTree` | `BuildTree`, `BuildMenu` | records, tree, and the menu of one user on one page |
| `NamedRoutes` | `router.go`, `chi_adapter.go` | registry, the group in hand, one call of `ReverseURLWithQuery` |
| `LoginLimit` | `LoginRateLimit` | limiters by address, the sweep, requests that hold a limiter |
| `ClientSession` | `web` and `fiberweb` flash, old input, CSRF, login | the client's cookies, the copies overlapping requests work on |
| `MiddlewareChain` | `middleware` | one request going in and out of a chain: status, parts of the answer, panics |
| `Httpx` | the four modules of `pkg/httpx` together | one of them runs in a behaviour, chosen by `scene` |
| `Db` | `DbRuntime`, `BulkWrite` and `SqlLoader`, the three of the database layer that have state and no recursive data | likewise |
| `App` | `SignalBus`, `Signal`, `PolicyManager`, `Seeder`, `MenuLoader`, `LoginLimit`, `ClientSession`, `MiddlewareChain`, `NamedRoutes` | likewise |
| `*Proofs` | | TLAPS proofs: `CircuitBreaker`, `StmtCache`, `Db`, `BulkWrite`, `Migrate`, `RateLimiter`, `Httpx`, `App` |
| `MC*` | | instances for TLC |

Two pairs are a detailed and an abstract specification. `Promise` in `Migrate`
instantiates `SchemaVersion`, and `ImplementsSchemaVersion` is checked and proved; the
mapping hides the effect of no-tx files behind their record, for which alone the code
promises anything. `Download` implements `AtomicFile` (`DestinationWhole`): a reader of
the destination sees one whole content before and after every step, crashes included.

`Httpx`, `Db` and `App` hold several modules that share no state. A variable `scene`
chosen initially says which of them runs in a behaviour; the others keep their initial
state. A property of such a run is that of the module behind it. `MCHttpx`, `MCDb` and
`MCApp` give their constants values (`MCDb` adds `Condition` and `NamedParams`, `MCApp` adds `MenuTree`, all over recursive data), so that
what TLC checks is what the theorems are about: a step of the
composition is a step of one part and leaves the variables of the others alone, hence
what holds of the part on its own holds of the composition. The scenes have ends (a call
returns, a bound is reached), so these runs do not check deadlock; the runs of
`CircuitBreaker`, `StmtCache`, `Migrate` and `RateLimiter` do.

Definitions marked "Mutant" are never used by a specification. Each is a
plausible slip in the code; substituted for the definition it follows, TLC finds
the property named for it in `PROJECT.json` violated.

## 3. Runs, bounds, fairness

| Run | Instance | Shows |
|---|---|---|
| `breaker` | 4 goroutines, threshold 3, 3 ticks | the probe right and the count are exact; late results decide nothing they should not; the breaker never wedges |
| `breaker_late` (violation) | threshold 1 | a late success closes an open breaker early, unlike the comment of `NewCircuitBreaker` |
| `stmtcache` | 3 goroutines, 3 texts, size 2, 5 statements | use is safe, nothing leaks, counts and both indexes agree |
| `db` | 1 caller, 2 administrators, 4 runtimes, 3 attempts, 2 statements; about 2,800 trees of conditions; 54 templates with every parameter; 2 renders; bulk writes of up to 3 rows | pools live as long as they should; writes applied once; answers true; statements mean what was described; renders do not mix; a bulk write is its rows one by one, or nothing |
| `db_empty_list` (violation) | the templates of `db` | an empty list beside another parameter, or after a sum, changes what is found instead of being refused |
| `migrate` | 2 processes, 3 versions (one no-tx, one without down file), lock with timeout | mutual exclusion, fresh snapshots, no-tx files exact unless torn, refinement of `SchemaVersion`, every run returns |
| `migrate_nolock` | 2 processes running Up, no lock | the primary key and the transaction alone keep transactional files exact |
| `migrate_pool` (violation) | 2 goroutines, one pool of 2 connections | lock connections exhaust the pool and nobody returns, unlike the comments |
| `ratelimit` | 2 goroutines, burst 2, token of 7 units, rate 2 | exact accounting, no sleep beside a token, progress, close frees |
| `httpx` | about 50 client configurations; 2 downloads of 2 blocks; 3 records, idle time 2; 3 lines to a log of 4 | repeats only where allowed; pauses within both limits; errors and answers true; destination whole, no temporary file left; streams end and are complete; a whole log |
| `httpx_idle` (violation) | the stream of `httpx` | the idle timer fires although data arrived, while the handler works |
| `app` | ten scenes (below) | the properties of `SignalBus`, `Signal`, `PolicyManager`, `Seeder`, `MenuLoader`, `LoginLimit`, `ClientSession`, `MiddlewareChain`, `MenuTree` and `NamedRoutes` |

Why the bounds suffice:

- `breaker`: two late results of an earlier era, one probe and one newcomer meet with
  four goroutines. Three failures separate "first", "middle" and "last but one" of the
  count. The clock is the time left, so nothing else is bounded.
- `stmtcache`: three texts on two places force eviction; three goroutines let one use
  an entry, one evict it and one lose a race. At most five statements are open at once,
  so five members stand for all (a closed one nobody refers to is reused).
- `db`, runtime: callers touch no common state but the runtime, so one is enough; two
  administrators give every order of swap and shutdown. Three attempts distinguish
  first, middle and last. Conditions: every operator as a leaf, every AND/OR of two of
  six of them, and those again beside a leaf or under NOT, so that each level of
  parentheses occurs within each other; rows take 0, 1 and NULL in both columns.
  Templates: one or two predicates, with lists of none, one, two values and a NULL.
  Bulk: three rows in every order of keys with repetitions, every batch size; the
  parameter limits of the dialects are met by wide rows (`more` columns besides the
  modelled ones), on both sides of each limit.
- `migrate`: two runners make every race of the lock; three versions have a first, a
  middle and a last, and with `Steps` 1 and 3 a partial and a full `Down`. Effects are
  counted up to `EffectBound` = 2, one more than right.
- `ratelimit`: a token of 7 units at rate 2 never comes out even, so every sleep is
  truncated; `debt` is bounded by `NoTokenLost` itself.
- `httpx`: the configurations are every way of being allowed to repeat (method, option,
  key of the client or the call) and every retry policy with a delay at, above and below
  its cap; a 200, a 404 and a 503 with no, zero, an acceptable and too long a
  Retry-After. Two downloads race for one destination, and a block may be written and
  not synced. Three records have a first, a middle and a last; three lines on a log of
  four characters make a rotation while somebody waits.
- `app`: 2 users and 1 emitter with 4 Signals (a topic removed while both hold one);
  2 emissions and 3 subscriptions over 4 arrays, which leaves both spare and exact
  capacity; 2 callers on 2 managers; 2 seed runs over 2 seeds in every mode; 2 requests
  on a menu of TTL 3 the store takes up to 2 ticks to read; 2 addresses with 2 attempts
  a window of 2, swept after 3; 2 overlapping requests of a client with 2 messages and
  4 operations; 6 chains of middlewares (with layers on either side of `Timeout`) and 3
  operations of the handler; 3 menu records in every hierarchy, cycles included; 15
  patterns, groups at most two segments deep, up to 3 values in order or by name.

Fairness is assumed in four runs. A goroutine whose fn returns records its result,
a sleeping goroutine wakes and runs, a reader that has data reads it, a handler
returns, and time passes (weak fairness of `Return`, `Reserve`/`TimerFires`/`WokenByClose`,
the steps of `RecordStream`, `Tick`): what the Go scheduler and the timers give. The
server of a stream is under no obligation. In `migrate` a runner keeps executing
statements, and is served connections and the advisory lock in arrival order by
`database/sql` and the server; strong fairness of `Progress` and `Lock` stands for that.
Nothing obliges anybody to call an operation, or a statement to fail.

## 4. What is proved

TLAPS proves for all values of the constants, from the assumptions named in the
modules that declare them. The assumptions say of
which sort a constant is and that the marks for "nobody" and "nothing" are no member of
anything else; five say more. `BulkAssumption` says that a row which is not empty begins
with its key, and that a table has a place for every key. `ExchangeAssumption` gives the options of a client the
ranges their setters leave; `ChainAssumption` allows one `Timeout` in a chain, as the
router has it; `RouteAssumption` that a group is told where its router is mounted, that
what it registers begins with a slash, and that the parts of a value between slashes are
not empty; and `PowersAssumption` is arithmetic, that powers of natural numbers are
natural numbers, of which the provers know nothing. TLC evaluates every assumption on the
instances of the runs. `TypeCorrect` is the type invariant of its module; it is
established by the proofs and not checked by a run.

- `CircuitBreakerProofs`: `ProbeRightHolds`, `CountsHold`, `LateResultsHold`.
  `ProbeRight` alone is inductive given the types: the right moves between `allowProbe`
  and the one call that has it. `CountsConsecutiveFailures` needs both of its halves,
  because only "closed exactly while below the threshold" excludes a trip at a wrong
  count. The action property follows step by step from these.
- `StmtCacheProofs`: `InUseIsOpenHolds`, `NoLeakHolds`, `BookkeepingHolds`. The order of
  the list plays no part in the first two: they need exact reference counts, that a
  statement between prepare and insertion belongs to one goroutine alone
  (`PreparedIsPrivate`), and that an entry in use which the map has lost is marked
  evicted (`Safe`). The third is `ListMatchesMap` and the count.
- `DbProofs`, `DbRuntime`: `PoolLifetimeHolds`, `AppliedOnceHolds`, `AnswerIsTrueHolds`. A pool is
  in exactly one hand until it is closed (`PoolsInHand`); where a call is in its loop
  says what the database has applied of it (`CallAt`). `RuntimeInDb` carries the three
  over to the composition.
- `DbProofs`, `SqlLoader`: `RenderBindsHolds`. The property is about a finished render. On
  the way, a template in execution is the renderer's own clone with its own functions,
  or a shared one whose functions bind nothing (`TemplateInHand`, `SharedBindsNothing`);
  the pieces written so far cover the arguments without gap or overlap, each holding
  what its call means (`Laid`). A call that is not refused emits what it means, with a
  binder or without (`EvaluateEmits`). Assumed of the data: values are values, and
  `SortCols` gives a sequence of the columns it is asked about.
- `MigrateProofs`: `MutualExclusionHolds`, `SnapshotFreshHolds`, `NoTxExactHolds` and
  `ImplementsHolds` when there is a lock; `TxAtomicHolds` with a lock or for concurrent
  Ups without one. The inductive invariant is `Basis` (types; whoever is past
  `acquireLock` owns the lock; a runner in the middle of a file has a next file of the
  right sort) with `SnapshotFresh`. From a fresh snapshot "next file" means "not
  recorded, and everything before it is" (or the reverse for Down), which is what a step
  of `SchemaVersion` asks for. Without a lock the place of the snapshot is taken by
  `KeyGuards`: who has inserted the row is alone with it. `NoTxExactHolds` needs in
  addition what holds between body and record (`BodyDone`).
- `RateLimiterProofs`: `NoTokenLostHolds` and `WithinRateHolds`: the bucket and the meter
  mirror each other exactly, hence no window sees more than the burst plus the rate.
  `NoSleepBesideATokenHolds` needs that a sleep was sized when there was no token
  (`Sleepers`).
- `HttpxProofs`, downloads: `NoPartLeftHolds`, and `DestinationWholeHolds`, the refinement
  of `AtomicFile`. What makes it inductive is that a temporary file is whole and synced
  before it is renamed (`OnDisk`, `DestinationDurable`).
- `HttpxProofs`, calls: `RepeatsJustifiedHolds`, `PauseKeepsToBothHolds`,
  `AnswerTellsTheStoryHolds`. The first is about a call that has been repeated, and
  nothing in it says why the next pause may be made; `Counts` keeps for every attempt
  the permission that led to it (`MayRepeat`) and that a request leaves once in each. The
  second is arithmetic over all delays, ceilings, growth and jitter: what is planned is cut
  to the ceiling and jittered, and a Retry-After the client accepts only lengthens it. The third needs
  `Memory`, that the failure a call remembers is one it has seen.
- `HttpxProofs`, streams and logging: `StreamIsCompleteHolds` is inductive with the types
  and "ok only when returned". `LogIsWholeHolds` is not: its lines are unique and all
  there because one logger alone is between lock and write (`AloneInside`), who has seen
  a size is still right about it, and a rotated file is apart from the current one
  (`LogInv`). It promises nothing of the size after a failed `Stat` (`unrotated`).
- `AppProofs`, `SignalBus`: `TopicDeliversHolds`. The property says nothing of a goroutine
  that has found a Signal and not yet subscribed; the invariant that does is `LookupMeans`.
- `AppProofs`, `Signal`: `EmissionUndisturbedHolds`. That a walk and what was promised to it
  agree is not inductive: `append` may write the array the walk is on. It does so behind
  the end of every slice that shares the array (`Behind`), since the list only grows in
  place and everything else moves it to a new one; and an id is given once
  (`OncePerId`), so that a removal finds the subscription it means.
- `AppProofs`, `PolicyManager`: `ManagerKeepsFaithHolds`. Outside of a reload, a manager
  in use has the policies of its model or is known to have failed (`EmptyIsBroken`); and
  while no manager was replaced, every call works on the default one (`CallsOnDefault`).
- `AppProofs`, `Seeder`: `HistoryExactHolds`. What is left of a run's list is a tail of the
  seeds, and everything before the tail is applied unless somebody picks names
  (`LeftToDo`, `LeftFrom`): that carries the order of the seeds through runs that
  overlap. No two runs hold one row (`RowsApart`), so an effect is not counted twice.
- `AppProofs`, `MenuLoader`: `MenuFreshEnoughHolds`. A read is no older than the load it
  was made in, also when stored later (`ReadsAreRecent`), and who has stored serves while
  his own load lasts (`StoredIsFresh`). The attempt to prove "a TTL and one load" failed
  for a good reason: with a TTL shorter than a load, a request can store a read of one
  load's age and another, whose own load began before, find it in time. The property
  says so (two loads), and so does TLC on an instance with such a TTL.
- `AppProofs`, `LoginLimit`: `SweepGivesNothingHolds`. An entry idle for n ticks has been
  refilled for n less a window (`FilledSince`), so it is full when the sweep takes it.
- `AppProofs`, `ClientSession`: `SessionsHoldHolds`. While requests do not overlap there is
  one copy of the cookies (`AtMostOne`), and the messages that wait are in it, or in the
  jar while there is none (`CopyIsJar`, `AtRest`); so is the token of the form in hand.
- `AppProofs`, `MiddlewareChain`: `OneAnswerHolds`, for every chain and any number of
  operations of the handler. It speaks of the end of a request; the invariant (`ChainInv`)
  says on the way in that nothing was answered but data, what the wrapped writer knows of
  the one below it (`WriterKnows`), that a body is never followed by a text
  (`OneBody`), and that a panic has `Recover` still before it (`PanicMeetsRecover`).
- `AppProofs`, `NamedRoutes`: `RouteTellsHolds`, for every pattern, mount, nesting of groups,
  list or map of values. The registry needs that a group opened without a trailing slash
  is where its prefix says (`GroupHolds`). The other three parts are about one answer.
  Values in order answer as by name because there is only one choice of parameters they
  can fill, the one the code makes (`ChoiceIsGiven`), and looking up names finds the rank
  of each (`ByNameFills`). A path is followed token by token: of two assignments on the
  same parameters, equal paths give equal values (`Tells`), and an assignment on more
  parameters gives a longer path, although one left out may take a slash with it
  (`Ahead`); no two slashes meet (`Unbroken`). The attempt to prove that two lists of
  values make two URLs failed for a good reason: of the pattern `/:x?/+` the
  values "a", "b" and the one value "a/b" make the same URL. `Readable` now asks that a
  greedy parameter which is required stands among required ones only. That an escaped
  value is read back is assumed, by making it one token.
- `AppProofs`: `SignalsDeliverHold` is `TopicDeliversHolds` and `EmissionUndisturbedHolds`.
- `BulkWriteProofs`: `BulkIsRowByRowHolds`, for all jobs and tables. The property compares
  the table with the rows done one by one when the call has answered; the invariant says
  the same after every statement (`Running`): the table is what the rows before the cut
  make of the table before the call. What a statement does depends on its flat list of
  arguments, so the proof goes through where each row's values are in it (`FlattenEven`,
  `BatchValues`, `UpdateArgs`); an insert then is its rows unless it clashes
  (`InsertBatch`), and the `CASE` of an update chooses the one row of each key
  (`CasedIsUpdated`, `UpdateBatch`), for which the keys must differ. `CutsAre` is the
  arithmetic of the cuts, and `BatchWithinLimit` that no statement has more parameters
  than its dialect takes, for every row width and requested size.

The inductions of `BulkWriteProofs` and of `RouteTellsHolds` are over the rows of a job
and the tokens of a pattern. The library's induction
rules take a predicate as a parameter, which the provers do not instantiate; but that a set
of numbers has a least element (`LeastElement`, from `WFMin`) is about a set, and gives an
induction over the set of numbers for which a claim holds (`SetInduction`). By it recursive
functions over numbers are shown to exist, and to be what their equations say.

Only model-checked: every liveness property (the prover has no rule for fairness and
ENABLED), and what is defined by recursive operators over trees and text, of which the
provers have no account (`StatementMeans` and `MenuTells`, that is
`SqlText`, `Condition`, `NamedParams` and `MenuTree`).

## 5. Assumptions and what is not modelled

- Memory is sequentially consistent: every shared field is read under the lock that
  guards its writes, or is atomic. `Signal` and `SqlLoader` model the two cases in which
  something is shared without a lock: Go's slices, and the functions of a template.
- `Migrate` assumes transactional DDL and a lock that lasts. On MySQL, DDL commits
  implicitly: every file is then what a no-tx file is in the model (`NoTx`). A session
  lost in the middle of a run frees the lock under its holder: from then on what
  `migrate_nolock` shows is what holds.
- `DbRuntime` lets the breaker refuse any call; the breaker itself is `CircuitBreaker`.
  The statement cache of a runtime is `StmtCache`.
- `NamedParams`: `NamedMeans` covers predicates with one parameter each that test a column
  or a call; the others are the finding of `db_empty_list`.
- `BulkWrite`: an update of rows with the same key twice in one batch is decided by the
  server and left out; keys of an update are distinct.
- `MiddlewareChain`: what a handler goes on to do after its `Timeout` has fired goes to a
  buffer nobody reads and is not modelled; a hijacked connection is outside the log.
- `RepeatsJustified` excepts a call that empties the idempotency key its client sends by
  default (`KeyEmptied`): the code counts the default key although none leaves.
- `MenuLoader`: a load takes `LoadTime` at most; the code leaves that to the store's context.
- `LoginLimit` assumes a window of at most the ten minutes after which an address is
  swept: its bucket is full again by then.
- `ClientSession`: of overlapping requests the answer that arrives last wins, as cookies
  have it. The promises about messages are for requests that do not overlap.
- `NamedRoutes`: what is said of values by name is for patterns whose parameters have
  distinct names (`NamesDiffer`; with `{id}` twice, `ReverseURL` refuses parameters given
  by name, since it counts fills against names). A value with an empty part between
  slashes is left out: in a wildcard it makes an empty segment.
  `RegisteredIsRouted` excepts groups opened by `ChiGroup.Route` with a pattern that ends
  in a slash: their prefix is joined uncleaned, so that `Chi(r).Route("/", ...)` with a
  handler at `/x` registers `//x` while chi serves `/x`. Drop `tidyRoute[n] =>` from the
  property to see it.
- Panics of a transaction's function, logging, tracing identifiers and wording are left
  out.

Not modelled, with the reason in `PROJECT.json`: `scheduler`, `grpcx`, `socialite`, `logx`
(wiring of libraries); `crypto`, `security`, `id` (cryptographic libraries); `forms`,
`validation`, `validate`, `text`, `conv` and the like (a value in, a value or messages
out, no state between calls); `config`, `localization`, `i18ncheck` (files read once at
start-up); `fs` (calls to file systems, mail and image libraries); the handlers of `crm`
and the demonstrations. Of modelled components: reading and ordering migration files,
`Status` and the legacy table; redaction and wording of log lines; `RealIP` and the origins
of CORS; redirects and templates.

What would come next: a violation run for the group prefixes above, the validity
window of signed tokens, and `localization` under a reload.

## 6. Running

    tlc -config MCMigrate.cfg MCMigrate
    tlapm CircuitBreakerProofs.tla
