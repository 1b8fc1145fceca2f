# kayvee-go in TLA+

kayvee-go writes structured log lines. A `Logger` merges a line with its context,
formats it and writes it; two loggers batch their lines and send them to Firehose or
Kinesis; an HTTP middleware logs requests and can roll them up; a router decides which
rules apply to a line; a validator says whether a text is a line. This directory
models the parts that keep state and run concurrently, checks them with TLC on small
instances, and proves the properties that matter most for every instance with TLAPS.

Paths are relative to `src/`. Run `tlc -config <run>.cfg <MC module>` for a run of
the table below and `tlapm <module>Proofs.tla` for the proofs.

## 1. Inventory

| part | source | state | operations | what makes it correct |
|---|---|---|---|---|
| analytics logger | `logger/analytics/analyticslogger.go` | batch, byte counter, wait group, ticker, `done` channel; one goroutine per batch | `Write`, `flush`, the flushing loop, `sendBatch`, `Close` | no line is lost silently; a request keeps its limits; retries resend what was refused and nothing else; `Close` drains |
| kinesis logger | `logger/kinesisstream/kinesisstreamlogger.go` | the same, with partition keys | the same | the same, and order within a request |
| rollups | `middleware/rollup.go` | map of rollups, `ctxDone`; per rollup a message, a sum and a goroutine | `Process`, `findOrCreate`, `add`, `schedule`, `report` | every line is counted once, in a rollup of its own operation; goroutines end with the context |
| HTTP middleware | `middleware/middleware.go` | per request a response writer with status and length, and a logger | `WriteHeader`, `Write`, `ServeHTTP`, `applyHandlers` | a request is rolled up or logged, never both, with what the client got; reserved fields win |
| logger | `logger/logger.go` | context, level, formatter, output; read-write mutex, and a mutex in each `log.Logger` | log calls, timers, `AddContext`, `SetConfig`, setters | a line is of its call, of one configuration and of a context of its time; an output sees one write at a time; nobody starves |
| routers of the logger | `logger/logger.go` | `globalRouter`, `logRouter`, no lock | `SetGlobalRouting`, `SetGlobalRoutingFromBytes`, `SetRouter`, every log call | replacing a router never breaks a log call; the logger's own router wins |
| line format | `kayvee.go`, `logger/logger.go` | fields of the environment, read once | `Format`, `FormatLog`, reserved names | every line can be written, and validates |
| validator | `validator/validator.go` | none | `ValidateJSONFormat` | accepts what the loggers write |
| router | `router/*.go` | none once built | reading rules, `Matches`, `OutputFor`, `Route` | accepted configurations cannot make matching panic; outputs are complete |
| mock logger | `logger/mocklogger.go` | counts per rule | `formatAndLog` | counts are exact |
| log context, endpoint resolver, schema, benchmarks | | none | | see section 7 |

Interactions. Applications call the loggers from any goroutine. The embedded
`log.Logger` of a `Logger` serialises `Println`, hence the calls of `Write` it makes
on the analytics and kinesis loggers, but `Write` is exported and may be called
directly. `flush` starts a goroutine that calls the AWS client and reports what it
could not send to an error logger. `ServeHTTP` makes a logger for the request, hands
it to the application's handler, and calls the rollup router or that logger when the
handler has returned; goroutines of the application may still be using the logger.
A rollup's goroutine calls the router's logger. A log call reads `logRouter` and
`globalRouter`, which other goroutines may be replacing.

The hard behaviours are listed with their lines in `PROJECT.json` under "hazards":
the gap between `Write`'s unlock and its flush; partial failures and ambiguous
errors; a `Close` that races with writers and senders; the reads of `ctxDone`, of
the level and of the routers without a lock; a rollup that is found, filled and
reported in different critical sections; maps that several writers fill one after
another, where the last one wins.

## 2. Modules

| module | models | composes |
|---|---|---|
| `LogSink` | abstract: what an asynchronous sink promises its callers | |
| `BatchLogger` | the analytics logger | implements `LogSink` |
| `KinesisLogger` | the kinesis logger, with order, keys and answers by position | implements `BatchLogger` |
| `RollupRouter` | rollups, and `ServeHTTP`'s choice between a rollup and a line | |
| `LogLevels` | levels, their names, the level of a new logger | |
| `KayveeLogger` | `Logger` under its read-write mutex, and the `log.Logger` it writes through | extends `LogLevels` |
| `RoutingRules` | the router package, pure | |
| `Routing` | the global router and a logger's own, log calls through them, and the mock's counts | extends `RoutingRules` |
| `LineFormat` | fields, `Format`, the context of a new logger, `ValidateJSONFormat`; pure | extends `LogLevels` |
| `RequestLog` | a request through the middleware and its logger, with the lines it makes | extends `LineFormat` |
| `MC*` | instances for TLC | |
| `BatchLoggerProofs`, `KinesisLoggerProofs`, `RollupRouterProofs`, `KayveeLoggerProofs`, `RoutingProofs`, `RequestLogProofs` | theorems about the module each is named for | `KinesisLoggerProofs` instantiates the theorems of `BatchLoggerProofs` |
| `SequenceFacts`, `SumFacts` | lemmas: induction over numbers, sequences, sums over finite sets | |

Operators named "Defective variant" are not part of a model. Each is a plausible bug
in the definition that follows it, and substituted for it makes TLC report the
property it is listed with in `PROJECT.json`: it shows that the property can fail.

### How state and actions correspond to the code

**Critical sections are atomic; everything between them is not.** A locked section
of a Go mutex is one action. `Write` is `Write` (the locked append and the decision)
followed by `WriteFlush` (the flush after the unlock), as in the code. A shared
variable read or written without a lock has an action of its own (`Process` reads
`ctxDone`; `LogStart` reads the level; `Store` writes one word of `globalRouter`).

`BatchLogger`
- `batch`, `batchBytes`, `sendBatchWG` are the fields; `ticking` and `loop` are the
  ticker and the goroutine `New` starts; `writer`, `closer`, `senders` are program
  counters of the callers and of the goroutines `flush` starts.
- `Close` is four steps: stop the ticker, hand over on the unbuffered `done` channel
  (possible only while the loop is in `select`), flush, wait. `CloseWait` is
  `sync.WaitGroup.Wait` with its sleep, its wake-up, and the panic when the counter
  has been raised before the woken goroutine runs.
- A sender looks at its deadline (`LoopCheck`), sends (`PutResponse`, with any
  subset refused), retries after a `RequestError` that may have stored any subset
  (`PutRequestError`), fails at once on any other error (`PutError`), and reports
  what is left. `late` stands for the time-out having passed.
- `accepted`, `acked`, `reported`, `stored`, `dups`, `unsure`, `owed` are history;
  `owed[c]` is what had been accepted when closer `c` called `Close`, so that
  `accepted = owed[c]` says that nobody has written since.
- A limit of the configuration is any `int`: a negative one passes through `min` and
  never compares equal, and the conversion to `int` cuts towards zero (`FlushBytes`).
- A line is a model value; `Size` gives its bytes.

`KinesisLogger` has the same steps over sequences of entries with a partition key;
`NewBatch` rebuilds the batch from the positions with an error code. `Positions` is
the ascending enumeration of those positions, chosen and not computed: the code's loop
over the answer makes it, and there is only one.

`RollupRouter` identifies a rollup with the request that created it. `Process` may
read a stale `FALSE` of `ctxDone`. `FindOrCreate` and `Add` are two critical
sections of two mutexes. `Report` is the locked body of `report`; `TimerFires`
and `ScheduleStops` are the two branches of the `select`, either of which may be
taken when both are ready. A name is a sequence of parts, so that joining with
dashes (`\o`) is as ambiguous as in `fmt.Sprintf("%d-%s-%s", ...)`.

`KayveeLogger`: a log call is `LogStart` (level test without the lock), `RLock`,
`Merge`, `Format`, `Println` (which reads the `log.Logger`), `Output` (its mutex is
taken and the output's `Write` begins) and `LogEnd` (with `RUnlock`). `setOutput`
makes a new `log.Logger`, named by an id that no caller is using, so that two of them
may write to one output. `AddContext` and `SetConfig` are `WantLock` and a critical
section. `sync.RWMutex` is modelled by what its documentation says: readers wait while
a writer waits, and readers that waited ("rwait") go in when it unlocks. A caller that
is past the level test and not yet in `RLock` ("rlock") is not one of them. Source,
formatter and output are named by the configuration that brought them. Keys have
counted versions, so that stale values can be told apart.

`RoutingRules` and `Routing`: a template is a sequence of tokens; a line is a record
of typed values. `LogCheck` tests `logRouter` and, when it is nil, `GlobalCheck` tests
`globalRouter`; `Route` or `LogPanic` reads the one that was chosen again. An
interface value is two words, which a replacement stores in either order and a log
call reads without a lock. The contents of a new router are visible to whoever sees
the pointer, as on the architectures with ordered stores; the Go memory model alone
would not promise that. `SetGlobalRouting` takes what `NewFromConfig` and
`NewFromConfigBytes` return, which have been parsed; `SetRouter` takes that or what
the exported `NewFromRoutes` returns (`FromRoutes`), which no schema was asked of and
which may have an empty list of values. `made` says which of the two the rules in a
slot are. `FieldText` is what `substituteFields` makes of a value by its kind.

`LineFormat`: a line and a data map are functions from field names to values; a
value is what `encoding/json` sees of it, and one that it cannot write has the type
"nothing". (`:>` and `@@` are defined in the module, as TLC defines them, for the
proofs to expand.) `Format` and `ValidateJSONFormat` are operators over them. The cases of
`validator_test.go` and of the format tests are assumptions of `MCRequestLog`.

`RequestLog`: `stage` follows `ServeHTTP`. While it is "serving" the application may
call `WriteHeader` and `Write`; `sent` is what net/http has sent (an external
behaviour: the first final status, 200 if the first `Write` comes before one).
`HandlerReturns` makes the finalizer, `Collect` runs `applyHandlers`, `Choose` reads
`globalRollupRouter`, and `Process` or `LogRequest` ends the request. `EnableRollups`
and the calls of the logger's methods may come at any of these stages. A log call is
one step (`KayveeLogger` takes it apart). `LogFresh` is a call with a map of its own,
`LogKept` one with a map that is used again and keeps what the logger put in it.
`line` is the line the last step wrote, and what it was made from: the title and level
of the call, what its caller and the method put in the map (`from`; for the kept map
`had`), and the context then and when the map first got it. `Choose` reads
`globalRollupRouter` once where the code reads it up to three times: it is never set
back to nil, so the later reads find what the first one did.

## 3. Runs

| run | instance | question |
|---|---|---|
| `BatchLogger_concurrent` | 3 records and a malformed one, 2 direct writers, 1 closer, limit 2, 1 retry | Is every line in one place, the wait group exact, does `Close` settle what it owes, leave nothing and not panic if nobody wrote since, is `LogSink` implemented, with writes during `Close`? |
| `BatchLogger_serial` | 3 records of 1 and 3 bytes, 1 writer, limits 2 records and 3 bytes, no retry, fairness | With writes through the embedded logger: limits of a request, exact byte counter; does every line settle, does `Close` come to an end? |
| `BatchLogger_record_limit` | serial off | Violation: the record limit is exceeded |
| `BatchLogger_close_panic` | serial | Violation: `WaitGroup` reuse panics |
| `KinesisLogger_batches` | lines with own, random and empty key, and a malformed one; 2 writers, writes during `Close` | Order, empty keys, refinement of `BatchLogger` |
| `RollupRouter_rollups` | 2 requests of one operation, 1 of another, 1 slow; fairness | Counting, scheduling, sums, reporting and the end of goroutines |
| `RollupRouter_stop` | the same | Violation: a line is added after the stop |
| `RollupRouter_pairs` | 2 requests with dashes in method and op | Violation: two pairs share a rollup |
| `KayveeLogger_lines` | 3 goroutines, 2 configurations, a key that may be the caller's and a reserved one | One configuration and a context of its time per line, one write at a time per output |
| `KayveeLogger_locks` | 3 goroutines, fairness, unlocked setters, no keys | No starvation |
| `Routing_reload` | 2 goroutines, 2 loads, 2 log calls, 6 files, both routers, rules with and without parsing | Panics, which router is used, completeness of a load, counts |
| `RequestLog_request` | 1 request, 3 calls of the logger's methods, 3 statuses, 2 response times, 3 sets of custom fields | Is the request reported once, with what the client got? Is every line of its call, and does it validate? |

**Bounds and why they are enough.** Three records and a limit of two let a batch fill,
overfill through the gap, and leave a rest for the ticker or `Close`; two writers are
what the gap needs and one closer what the code supports (a second call of `Close`
waits for ever, see below). One retry separates a first request from a repeated one;
the deadline may pass before, between or after requests. Liveness is checked with
serial writes and without that retry: a sender that retries takes a bounded number of
further steps and comes back to the same look at its deadline, and what concurrent
writers add, a batch that others flush first, is safety, which the concurrent run has.
Sizes 1, 3 and 3 with a limit of 3 bytes (a threshold of 2) give a line that fills a
batch on its own and one that leaves room for another; a test made before the append
would send all three lines, and no test of the bytes both long ones. With lines of one
size, where only the number of records counts, the concurrent run has
`FullBatchIsBeingFlushed`. Two requests of a key race for the creation of its rollup;
the third has a key of its own; their times (3, 4, 1 with two units a millisecond) do
not add up to whole milliseconds. In `KayveeLogger` one version per key tells a value
of before the call from one set during it; two configurations, one that lets
everything through and one that lets errors through, are what a mixed line needs. Two
loads and two log calls let a torn store, a failed load over a good one, and a load
between test and use of the router happen. The files of `Routing_reload` are: two good
rules, one of them, a rule with a variable that is not set next to a good one, a rule
with an empty list, one with a number, and a file that cannot be read. In
`RequestLog_request` the statuses are an informational one, one of each level above
Info, and the default; three calls are what it takes to add context, use a map again
and change the context, or the level, in between; the keys are one that the middleware
reads (`op`), one that it writes (`method`), one of the environment (`deploy_env`) and
a reserved one in both cases. One response time is that at which `ShouldRollup` stops
rolling up.

`BatchLogger_record_limit` and `BatchLogger_close_panic` check the specifications of
the passing runs with other usage constants; nothing else differs. Symmetry is used
only where records, writers or callers are interchangeable, and never with
liveness. Deadlock is checked in every run: `Terminating` and `Stopped` name the
states in which the system may stop. Deadlock freedom is therefore a result of the
runs, for `Close` and the mutexes in particular.

**Fairness.** Goroutines that can run do run (weak fairness for each goroutine's
steps, which the Go scheduler gives), timers fire and deadlines pass, and the AWS
client answers or fails; what it answers is not restricted. Strong fairness is
assumed three times: a `select` with two ready branches does not pass over one for
ever (it picks at random); a writer that waits for the write lock, and a caller that
waits for the mutex of a `log.Logger`, are not passed over by others for ever (a
`sync.Mutex`, which `RWMutex.Lock` takes as well, hands itself to a starved waiter). An
output's `Write` returns. Nobody has to call `Write`, `Close`, a log method or
`SetConfig`, or cancel a context.

## 4. What the runs show

Hold:
- A line that `Write` accepted is in the batch, with one sending goroutine,
  acknowledged, or reported as lost, and nowhere else (`Conserved`); duplicates in the
  stream come from ambiguous errors only (`DuplicatesOnlyAfterRequestError`).
- The test `len == max` in `Write` does not miss: a batch at or over a limit has a
  writer on its way (`FullBatchIsBeingFlushed`).
- `Close` settles what had been accepted when it was called (`CloseDrains`). If nothing
  was accepted since, it leaves nothing behind (`QuietAfterClose`), and it panics
  only if something was (`PanicNeedsAWrite`).
- An empty partition key costs its whole batch (`EmptyKeySinksItsBatch`): the client
  validates the request as a whole, and the batch is retried or reported as one.
- Racing requests of a key share one rollup, every line is reported once while the
  context is open, and every rollup's goroutine ends after the cancellation, those
  created after it included.
- A log line mixes no two configurations, and has a context of its time.
- An output sees one `Write` at a time, though `SetConfig` gives it a new mutex
  (`OneWriteAtATime`): `SetConfig` waits for the lines in progress. It is what
  `SerialWrites` of `BatchLogger` rests on.
- A request is reported once, however rollups are enabled and levels set while it is
  being finished (`RequestReportedOnce`), with the status the client got
  (`SentStatusIsLogged`) and with the reserved fields, which neither the application's
  handlers nor its context override (`ReservedFieldsWin`).
- A line of Debug or above with proper data passes the validator (`LineValidates`),
  and has the title, level, data and context of its call (`LineOfItsCall`).
- A logger that has a router of its own never uses the global one (`OwnRouterWins`).
- No configuration that `parse` accepts makes a log call panic in routing
  (`ParsedRulesDoNotPanic`). Two things do: a router that is nil or half stored at
  some time of the call, since a failed load from a file stores nil and an interface
  is two words; and a router of `NewFromRoutes` with an empty list of values, which
  only `SetRouter` takes, so that only the calls of that logger meet it.

Disagreements with the code's comments, each with a run that shows it
(`PROJECT.json`, "findings"):
- `BatchLogger_record_limit`: a second `Write` may append between the unlock and the
  flush, so that a request has more than `FirehosePutRecordBatchMaxRecords` records.
- `BatchLogger_close_panic`: a `Write` during `Close` may start a batch after the
  last sender has woken `Close` and before it runs.
- `RollupRouter_stop`: a request that read `ctxDone` in time adds its line to a rollup,
  an unreachable or a new one, after the router has stopped.
- `RollupRouter_pairs`: there is not one rollup per (status-code, op) pair
  (`rollup.go:34`). The key is joined with dashes, so `M-SEARCH` of `device` and `M`
  of `SEARCH-device` share one; and it has the method, so `GET` and `POST` of one op
  have two. `ReportsOfOneOperation` proves that a report mixes
  operations only if some method has a dash.

Seen while modelling, and not given runs of their own:
- A line may take a request over the byte limit: the test comes after the append
  (`analyticslogger.go:187`). `RequestOverByOneLine` says by how much.
- A second call of `Close` waits for ever on `done` (`:222`): the loop has returned.
- A partition key that is not a string is dropped for a random one
  (`kinesisstreamlogger.go:177`); `NumberKey` in the model.
- The lines a rollup holds when the context is cancelled are never reported
  (`rollup.go:175`); `RolledLinesAreReported` excepts them.
- A data map used for a second log call keeps the context merged by the first
  (`logger.go:324`): the part of `LineOfItsCall` about maps used before. The title and
  the level are always those of the call. `KayveeLogger` makes a map for each call, as
  the methods without data do.
- The level is tested before the lock is taken (`logger.go:316`): with a `SetConfig`
  in between, a line of the new configuration is written that its level should drop.
- `SetOutput` takes no lock, so two lines may be written to one output at once after
  it, and one line may be of two configurations. `KayveeLogger_lines` leaves it out.
- The validator knows no trace level (`validator.go:35`), which a logger writes by
  default; `LineValidates` starts at Debug.
- A handler of the application may set `source`, `type` or `value`
  (`middleware.go:88`): reserved for context, not for data. `Proper` excepts wrong
  types. A gauge whose value is not a number JSON has becomes a text and is refused.
- After a superfluous `WriteHeader` the line has its status and not the one that was
  sent (`middleware.go:129`); a request that ended on an informational status has that
  one, where the client got 200.
- A handler that panics leaves no line and no rollup (`middleware.go:52`).
- Fields of the environment override those of the caller (`kayvee.go:64`).
- The level of a new logger is `Trace` when the environment names none
  (`logger/logger.go:456`), where the comment of line 413 says `Debug`.
- A nested `logger.M` is not looked into by dotted fields, since the assertion to
  `map[string]interface{}` fails for a named type (`match.go:52`); `MCRouting` has it
  among its test cases.
- A failed `SetGlobalRouting` has already replaced the router that worked.

## 5. What is proved

Every safety property that a passing run checks - invariants, type invariants and the two
refinements - is also a theorem, for every value of the constants that the
assumptions of its module allow: any finite sets of records, callers, requests; any
limits, levels, fields, rules, environments; any number of steps. The assumptions
say what the Go types and the code say (sizes are natural numbers, a file of rules has
lists, a name that is not in lower case is no reserved one, the environment of a process has
texts and not templates); TLC evaluates each of them on the runs.

`BatchLoggerProofs`:
- `TypeCorrect`.
- `RecordsConserved`, `WaitGroupExact`: `Conserved` is not inductive alone: that a
  batch or a rest of one goes where nothing else is needs that all of `accepted` is
  accounted for, and that the wait group is exact needs that `senders` is finite and
  that a sender that changes does not become equal to another, which follows from
  their parts being apart and not empty. `Bookkeeping` is the conjunction, kept by
  each action (`BookkeepingStep`); the three ways in which senders change (flush,
  replace, finish) are lemmas.
- `CloseSettlesWhatItOwes`: the strengthening `Owing` says that what a closer is owed
  was accepted, is not in the batch once the closer has flushed, and is settled once
  it has been woken. The step to "woken" needs that a wait group at zero means that
  there are no senders (`Bookkeeping`), so that all that was accepted is in the batch
  or settled.
- `SinkImplemented`: initial states map to initial states and each action of
  `BatchLogger` maps to one of `LogSink` or to a stutter (`SinkStep`), using the
  invariants above.
- `FullBatchFlushed`: for a positive record limit (a negative one never compares
  equal). `Filling` adds that an empty batch has a byte count of zero, for the flush
  that finds the batch gone.
- `RecordLimitKeptWhenSerial`: with serial writes and a positive limit every request
  keeps the record limit (`Bounded`): the counterpart of the run that violates it.
- `ByteCounterIsExact`, for any writers, and `ByteLimitKeptButForOneLine`, with serial
  writes. `ByteBounded` says that a batch over the flushing limit has its writer on
  the way and is within it without some one line; what is left of a request after a
  partial failure inherits that, as a part has no larger sum than the whole.
- `DuplicatesNeedARequestError`: `NothingSentTwice` adds that what a sender has left
  is not in the stream unless a request with it returned a `RequestError`.
- `CloseLeavesNothing` and `CloseIsSafeWhenQuiet`: `Quiescent` says that the ticker
  has stopped once somebody closes, and the loop once a closer is past the hand-over;
  and that, if nothing was accepted since a closer called, it is woken only when there
  are no senders left, and does not panic. That nobody starts one in between is
  because the batch is empty once it has flushed, which `Owing` says
  (`NothingLeftToFlush`). The run `BatchLogger_close_panic` shows that the condition
  is needed, as `BatchLogger_record_limit` does for serial writes.

`KinesisLoggerProofs`:
- `RequestsKeepTheOrder`: every batch, the logger's and those being sent, is a part of
  `accepted` in its order, and no two have a line in common (`Parts`). That `NewBatch`
  keeps the order needs that the positions refused can be enumerated in ascending
  order at all (`PositionsCanBeSorted`).
- `EmptyKeysSink`: that the stream and the error log know only accepted lines that
  have left the batch (`KeysTrue`) keeps a batch with an empty key from starting with
  a stored line.
- `Refinement`: the Kinesis logger implements `BatchLogger`, action by action. The
  mapping forgets order and keys, so it could make one sender of two and the wait
  group wrong; by `Parts` it does not (`AbsIsInjective`).
- `BatchInvariants`, `BatchLimits`, `SinkImplemented`: through the refinement the
  theorems of `BatchLoggerProofs`, instantiated for the mapped variables, hold of the
  Kinesis logger, so that it implements `LogSink` too.

`RollupRouterProofs`:
- `TypeCorrect`; `LinesConserved`: `LineInOnePlace` is inductive relative to types.
- `RollupsUniquePerKey`, `RollupsScheduled`: from `MapOK`: a rollup is of the key of
  the requests it was given to and, while the context is open, is the one the map has
  under that key and has its goroutine.
- `ReportsOfOneOperation`: under the assumption, in its statement, that no method has a
  dash. Only lines with an op reach a rollup (`RollupsHaveOps`), and a method of one
  part is what a joined key begins with (`JoinedOnce`), so equal keys are of one
  status, method and op, whatever dashes the ops have.
- `ReportsAddUp`: the message of a rollup counts and sums the lines it holds
  (`MessageAddsUp`, with `LineInOnePlace`: a line is added once), and a report divides that.

`KayveeLoggerProofs`:
- `TypeCorrect`: the read lock is held by the callers between `RLock` and `RUnlock`.
  `TypeOK` needs that what a caller keeps fits its place in the call, and that the
  `AddContext` calls waiting for the lock do not exceed the bound on versions.
- `LinesShowTheContext`: versions of a key only grow (`ContextsGrow`), so what was
  merged lies between the context of the start and of the end of the call. It holds
  with the unlocked setters too.
- `LinesAreOfOneConfig`, `WritesExclude`: under `~UnlockedSetters`. In `OneConfig` a
  caller that has merged has the one configuration there is in its map, its line and
  its `log.Logger`, which nobody can change while it reads; `LogWritersExclude` is the
  mutex.
- `NewLogWriterIsNew`: there is always an id for a new `log.Logger`, as the callers
  are finitely many.

`RoutingProofs`:
- `ParsedRulesAreSafe`, `OwnRouterIsUsed`: of each router in the variables or on its
  way into them that was parsed, the rules have no empty list, from what reading them
  checks, and only a logger's own was not (`Routers`); a call knows when the router it
  chose has been nil or not parsed (`NilKnown`), and whether its logger had one of its
  own (`OwnSeen`).
- `CountsAreExact`: a line has one output of a rule at the most (`Counting`), and each
  action moves one caller in or out of those that still have to count it.
- `LoadsAreComplete`: a load that has its router to itself has stored the words it
  says it has (`LoadsTrue`), and what it stores is complete: a variable of the
  environment becomes a text without another (`FlattenSeqType` and lemmas about
  substitution).

`RequestLogProofs`:
- `OneReport` is inductive with types. `StatusIsTrue`: until a late or informational
  `WriteHeader`, the status the response writer has is the one sent (`StatusTrue`).
- `ReservedAreLast`, `LinesAreOfTheirCalls`: a line is what `LineFields` makes of its
  data map and the context (`LineMade`); the context has no reserved name but the
  source (`ContextOK`); a data map has what its caller put there and, if it was used
  before, what it got then (`Carries`); the map of the request has what the middleware
  collected, from the time it is collected (`RequestSeen`).
- `LinesValidate`: under the condition that a text that is not JSON is no function,
  which is how the model tells it from a line. `TypeCorrect`.

Two techniques. *Induction*: the induction theorems of the library take an operator
and cannot be used here; `NatsAreReached` does the same for a set of numbers, from the
well-foundedness of the subset ordering. What is defined by recursion - flattening a
sequence (`FlattenSeq`), summing over a set (`SumFunctionOnSet`) - is reached with it:
first that a function as the recursion asks for exists, then what it computes, and,
for sums, that it does not matter which element `CHOOSE` takes (`SumAddsElement`).
*Pointwise*: functions and sequences that actions build are proved equal or in order
element by element.

Only model-checked: all liveness (`EveryRecordSettles`, `CloseReturns`,
`RolledLinesAreReported`, `SchedulesEnd`, `WritersGetTheLock`, `LinesAreWritten`) and
freedom from deadlock, which need fairness and ENABLED; and the examples that
`MCRouting` and `MCRequestLog` take from the repository's tests.

## 6. Plan

Done, in the order of importance: `LogSink` and `BatchLogger`; `RollupRouter`;
`KayveeLogger`; `KinesisLogger`; `RoutingRules` and `Routing`; `LineFormat` and
`RequestLog`; the proofs of all their safety properties, and the transfer of those of
the analytics logger to the Kinesis logger.

Next:
1. What `CloseReturns` and `EveryRecordSettles` rest on and can be proved without
   fairness: that some goroutine can always run while a closer waits.
2. That the choices of `NewBatch` and of an output's substitution are the only ones the
   code could make.
3. An abstract specification of `OwnRouterWins` and `ParsedRulesDoNotPanic`: which
   router a log call may use.

## 7. Not modelled

- `logger/context.go` keeps a logger in a `context.Context`; `endpointresolver.go`
  maps a region to a host; `router/schema_gen.go` is generated. They keep no state.
- Where `getIP` and `HeaderHandler` find their values in a request: what they return
  are values of `Request` and `CustomFields`. Methods of the underlying
  `http.ResponseWriter` other than `WriteHeader` and `Write`.
- Routers of the application's own making: `SetRouter` takes any value with a method
  `Route` (`logger.go:165`), and what such a method does is not this code's. The
  models have the routers this repository can make.
- Construction of AWS clients, names of streams, and the text of errors.
- JSON, YAML and regular expressions: a line is a model value or a record, a
  template a sequence of tokens. Of the routing schema the part on matchers is
  modelled, of outputs only `type` and `value_field`.
- Callbacks into the application: a formatter, an output or a logger that calls back
  into the component that calls it would wait for its own lock. The models take them
  to return.
- `RuleCounts` of the mock logger, which reads its map without the mutex: a data
  race whose outcome is the runtime's.
- `benchmarks/`, tests and shell scripts.
