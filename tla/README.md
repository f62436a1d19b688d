# LogQuill in TLA+

A verification development for LogQuill (`src/`), a structured logger for
Node.js and browsers. It models the parts of the library that keep state across
calls, checks them on small instances with TLC, and proves the main results for
every value of the constants with TLAPS. `PROJECT.json` is the index: which run
checks what, which lines of the source each definition translates, and which
hazards of the code which property is about.

JavaScript runs one turn at a time, so the models have one rule in common: **an
action is what one turn does between two `await`s**, and any other callback may
run between two actions. What the repository does not contain (sockets, clocks,
the event loop, the services behind a transport) is external, and modelled only
by what the code in `src/` can see of it.

## 1. The system

`Logger.dispatch()` builds a record, passes it through the `beforeLog` hooks of
its plugins, and hands a task to the `DispatchQueue`. The queue runs that task
in a later turn: `writeAndNotify()` formats and writes the record to every
transport and calls the `afterLog` hooks. A batching transport buffers it until
a threshold, `flush()` or `close()` sends the batch. `Logger.close()`, the
shutdown handlers and the serverless wrapper empty the queue and then the
transports.

    info() ... -> dispatch() -> beforeLog chain -> DispatchQueue -> writeAndNotify()
                                                                     |-> Transport.write -> batch -> sendBatch()
                                                                     |-> afterLog chain -> alerts
    close() / SIGTERM / beforeExit / withFlush  ->  queue.flush() -> transports' flush() -> close()

| Component (under `src/src`) | State | Operations | What is hard | What makes it correct |
|---|---|---|---|---|
| Dispatch queue, `core/dispatch-queue.ts` | `tasks`, `draining`, `scheduled`, `idleWaiters`, drop count and clock | `enqueue` under three policies, `flush`, `drainAll`, `recordDrop` | two flags set and cleared in different turns; a drain that awaits; `onDrop` that logs | no lost wakeup; each task once; the bound; drops counted; `flush()` keeps its promise |
| Batching base, `transports/batching-transport.ts` (repeated in `http-transport.ts`, `beacon-transport.ts`) | `buffer`, `bufferBytes`, sends in flight | `write`, `flush`, `close`, `sendBatch` settling | conversions and sends that throw; settling in any order | both bounds; exact byte count; each record sent once, in order |
| Logger, `core/logger.ts` | level, plugins, transports, queue, retry counter | `dispatch`, `writeAndNotify`, `flush`, `close`, `child`, `opt`, `span` | hooks and transports that throw; records on their way during `close()` | a failing part costs only itself; what was logged before `close()` has left |
| Shutdown and serverless, `core/shutdown.ts`, `core/serverless.ts` | "already shutting down" | signal and `beforeExit` handlers, `withFlush` | overlap with each other and with `close()`; exit while work is under way | nothing queued is lost; a signal ends the process, if beforeExit came first only with its last request |
| Sampling, `plugins/sampling-plugin.ts` | records buffered by trace, elevated traces | `beforeLog`: keep, buffer, elevate, evict | a count kept beside the lists; a transport that throws during elevation | an elevated trace is complete; both bounds |
| Rate limit, `plugins/rate-limit-plugin.ts` | a window for each key | `beforeLog` | what passes across the end of a window; eviction | a bound on any interval |
| Tamper evidence, `plugins/tamper-evident-plugin.ts` | last hash | `beforeLog`, `verifyChain` | a record that cannot be hashed, or is dropped after it was | the written chain verifies |
| Alerts, `plugins/alerting-plugin.ts` | a dedupe window and timer for each key | `afterLog`, timer, `close` | timers against records; full table | few alerts, and none forgotten |
| Retry counter, `core/retry.ts` | attempts by call, bounded | `opened`, `succeeded` | forgetting the right entry | exact counts unless crowded out |
| File, `transports/file-transport.ts` | descriptor; the files on disk | `write`, rotate, `close` | an error or the death of the process halfway through a rotation | nothing is lost but what rotation is meant to drop |
| SQL, NoSQL, queue transports, `transports/{sql,nosql,queue}` | lazy client, "table exists" | `sendBatch` | state checked before an `await` and used after it; some requests of a batch fail | all of a batch is sent before it resolves; the table is created once; imports come to an end |
| Cloud transports, `transports/cloud` | lazy client, New Relic's pause, syslog's socket | `sendBatch`, `write` | answers that come late; events of a socket that was replaced | a pause is kept; no live socket is forgotten and no failed one written to; a bound on pending bytes |
| Scopes, `core/{context,span}*.ts`, `browser.ts` | current span and context | `runInSpan`, `bindContext` | one stack shared by all async functions in browsers; blocks that return or throw synchronously | a record sees the blocks of its own call chain |
| Runtime level, `runtime-level.ts` | level, timers, the text last seen | watchers, signal handler, `setLevel` | several writers of one level; watchers started and stopped | the level follows its sources |
| Toggles, levels, `core/{toggle,levels}.ts` | rules by name | `enable`, `disable`, lookup | prefixes that overlap | the most specific rule decides |
| OpenTelemetry, `otel/`, `transports/otel/` | the provider, with what it holds and exports | `write`, `flush`, `close`; ids, trace, status and attributes of each record | ids derived record by record, by two transports | spans and lines join in one trace; the flush is waited for |
| LangChain adapter, `adapters/` | start times and chain names by run | a handler for each event of a run | errors; callbacks of one run in different call chains | both maps empty out |
| Content policy and redaction, `core/privacy.ts`, `plugins/{redact,pii-redact,context}-plugin.ts` | none | functions of one record | values that refer to each other; sources of meta that override each other | content that is off tells nothing; secrets are redacted |
| Records, `core/records.ts`, `formatters/` | none | `createRecord`, `parseRecord`, the `llm` block, logfmt both ways | records of version 1; values of the wrong type; nesting | what is written is read back |
| State diffs, `core/state-diff.ts` | snapshots | capture, diff | nesting, additions, removals | applying the diff gives the new state |
| Configuration, `config.ts` | none | `loadConfig`, `loggerFromFile`, `loggerFromEnv` | a failure after some transports are open | all of a configuration or none |
| Bridges, `bridges/` | none | an entry of pino or winston to a record | numeric and custom levels | levels keep their order |
| Alert destinations, `destinations/` | none | one request for each alert | outside the repository | - |

## 2. The modules

| Module | Models |
|---|---|
| `DeliveryContract` | Abstract: what a caller of the queue may rely on. A task goes new, waiting, running, settled, or is dropped before it runs; a flush resolves once all it is owed has ended. |
| `DispatchQueue` | `core/dispatch-queue.ts`, whole. |
| `BatchBuffer` | `batching-transport.ts` as operations on one transport's state. An operation that sends has several outcomes and returns the set of them. |
| `BatchingTransport` | The machine that calls `BatchBuffer` in any order. |
| `Lifecycle` | `Logger.flush`/`close`, `shutdown.ts` and `serverless.ts` over a `DispatchQueue` and a list of transports (batching, HTTP, beacon, file, OpenTelemetry); EXTENDS both. |
| `RecencyMap` | A JavaScript `Map` used as a least-recently-used list, for the three modules that do so. |
| `RateLimitPlugin`, `SamplingPlugin`, `TamperEvidentPlugin`, `AlertingPlugin`, `RetryTracker` | One plugin each (and `core/retry.ts`) as operations on its state. |
| `Pipeline` | `Logger.dispatch` and `writeAndNotify` over those, with the clock and the alert timers. |
| `Backends` | `sendBatch()` of the sixteen transports that extend the batching base: importing a client, `ensureTable`, requests, answers, New Relic's pause. |
| `FileRotation` | `FileTransport`, one system call at a time. |
| `SyslogSocket` | The sockets of `SyslogTransport`. |
| `RuntimeLevel` | `runtime-level.ts`: two watchers, the signal handler, `setLevel`. |
| `Surroundings` | Composes the four above: what a logger deals with outside its process. |
| `Scopes` | The blocks of `bindContext()` and `runInSpan()`, open in several call chains, on Node.js and in a browser. |
| `OTelExport` | The ids, trace, parent and status of the span (`OTLPTransport`) and of the line (`OTelLogsTransport`) of one record. |
| `Tracing` | What is logged in `Scopes`: `span()`, the logging methods, `dispatch()`'s stamps, `RunPlugin`, `TraceContextPlugin`, `LangChainAdapter`, `OtelSpanProcessor`; and `OTelExport` of it all. |
| `RecordMeta` | Functions: the meta of one record (`opt.ts`, `dispatch()`), the content policy, redaction. |
| `Levels`, `Toggles` | Functions: the level table, every map between levels and severities, the bridges; the rule for a name. |
| `StateDiff`, `SemanticConventions` | Functions: the diff of two states; attributes, names and times of a span and a line. |
| `Records`, `Logfmt`, `Configuration` | Functions: records and their reading; logfmt both ways; what is built of a configuration. |
| `MC*` | Values for TLC: they define constants and what TLC needs, and nothing else. `MCPipeline`, `MCSurroundings` and `MCTracing` also EXTEND the modules of functions, whose named ASSUMEs TLC then evaluates. |
| `DispatchQueueProofs`, `BatchBufferProofs`, `BatchingTransportProofs`, `LifecycleProofs`, `BackendsProofs`, `SurroundingsProofs`, `TracingProofs`, `PipelineProofs` | The theorems, each about the module it is named after. `BatchBufferProofs` has the lemmas about operations on one transport that the next two share; `LifecycleProofs` and `SurroundingsProofs` build on the proofs about the parts they compose. |

An operator or action named `...Forgets`, `...Skipped`, `...AtOnce` and the like,
marked *faulty* or standing beside the operator it varies, is the code with a
plausible bug. No specification uses it; `PROJECT.json` ("mutants") names the
property that catches it. The modules of functions check themselves with ASSUMEs
over bounded inputs, listed below with their names.

### How state and actions correspond to the code

**DispatchQueue.** `tasks`, `draining`, `scheduled`, `idleWaiters` and
`droppedSinceWarning` are the fields of the class. `sinceWarn` is
`Date.now() - lastWarnAt`, which stops at `WarnInterval` since only the
comparison matters. `awaiting` is the task `drainAll()` awaits, and `held` holds
the task of an `enqueue()` that has called `onDrop` and not yet pushed: the only
place where a caller's code runs in the middle of an operation. `Enqueue` is
`enqueue()`, one disjunct for each way through it; `Flush` is `flush()`;
`RunScheduled` is the callback of `schedule()`, up to the first `await`;
`ResumeDrain` is the loop after one; `Settle` is the task's own end. The
remaining variables are history, for the properties.

**BatchBuffer.** `Written`, `Flushed` and `Settled` are `write()`, `flush()` (and
`close()`) and the settling of the promise of `sendBatch()`. A record is its
number; what `toItem()` and `sizeOf()` make of it is a size or one of two values
for a throw. A send delivers at once, throws, or stays pending.

**Lifecycle.** A `program` is the queue's policy, the kinds of the transports in
order, the ways the process may end, and a bound on records. `close()`, the
handlers' `close()` and `withFlush` each call the queue's `flush()` and then walk
over the transports, so they are three elements of `Flushes` with a `stage` each.
`Walk` flushes one transport in each turn, since `close()` awaits each. The
transports with a buffer return nothing to wait for; the OpenTelemetry ones return
the promise of the SDK's `forceFlush()`, so that the walk waits until the exports in
`awaited` have settled (`ExportStarts`, `ExportSettles`: the SDK's). `EndWalk` is
the loop of `close()` calls, in the turn of the last flush. `QueueStep` puts a step
of the queue together with the writes of the task it starts: the logger's tasks are
synchronous (`Returned`). `BeforeExit` and `NaturalExit` are Node's: when there is
nothing left to run it emits `beforeExit`, and if that starts nothing the process
ends.

**Pipeline.** A *setup* is a program: its plugins in order, the calls it may make,
and two bounds. `Dispatch` is one call of `dispatch()` with the whole loop over
the plugins: `ThroughChain` takes the state through the chain, so that a hook that
drops the record ends it and one that throws leaves it as it was.
`WriteAndNotify` is the queue's task; `AlertTimer` and `CloseAlerting` are
`AlertingPlugin`'s. The queue is a plain sequence here, never full; what happens
when it is full is in `DispatchQueue`.

**Backends.** The transports differ in few ways, which a record for each names:
whether the client is imported (`lazy`) and opened before it is kept (`opens`),
how many records a request takes (`limit`), when records are converted
(`converts`: beforehand in `toItem()`, all before the first request, or request by
request), when the answer comes (`answer`), whether a table is needed (`sql`),
whether each client has a database of its own (`private`), and whether 429s pause
the transport (`pauses`). Each call of `sendBatch()` is a process with a `stage`,
one for each `await` of `sendBatch`, `importClient`, `ensureTable` and
`insertRows`. `SendBatch` runs a new batch to its first `await`: `Acquire` is
`resolvedClient() ?? (await importClient())`, and `EnsureFirst` is the SQL base
class around it. `Imported` and `Opened` settle an import and a connection,
`Acquired` is the caller going on in a turn of its own, `RequestAnswered` is an
answer to one request, combined with the others as `Promise.all` does.

**FileRotation.** `rotating` is the system call that `rotate()` comes to next and
`index` its loop variable: `CloseForRotation`, `Shift` (one rename), `Retire`,
`Unlink` and `Reopen` are one call each, since each may throw (`CallFails`) and the
process may be killed between any two (`Restart`, which is also the constructor).
`disk` has the lines of the file and of each backup.

**SyslogSocket.** `current` is `this.udp` or `this.tcp`; `sockets` has every socket
ever opened, since the listeners of one that was replaced still run. `Forget` is
`forget()`, with its test that the socket that failed is the current one.

**RuntimeLevel.** `timer` and `lastSeen` are the fields of each watcher. `PollOnce`
is `pollOnce()`, run by the timer (`Poll`), by `start()` and by callers
(`PollByHand`); `Signal` is the handler, which reads the environment whatever the
watcher has seen. `WriteSource` is whoever edits the file or the environment.

**Surroundings.** The four parts share no state, so a behaviour follows one of
them, its `subject`, and leaves the others as they were. The interleavings of
parts that do not touch each other would add states and show nothing.

**Scopes, Tracing.** A *chain* is an async call chain: a request, a callback, one
function of a `Promise.all`. `scope` has, for each, the blocks it is in; the first
`inherited` of them were entered by the chain that started it (`Fork`). On Node.js
`AsyncLocalStorage` hands out exactly that; in a browser `spanStack` and
`contextStack` are shared by all, and `Pop` takes what is on top. `sync` says that a
block's function returns no promise, and then no other chain runs until it is left
(`MayRun`). `OpenSpan` and `BindContext` run up to the call of the function;
`SpanSettles` is its end, with `span()` going on in the same turn if the function
threw before it returned, and in a later one otherwise (`SpanContinues`, which logs
the span's record); `ContextSettles` is the end of a `bindContext()`. `Dispatch`
stamps a record with what the code reads at that moment and keeps, in `last`, what
it should have read. `RunStarts`, `RunEnds` and `AgentEvent` are the handlers of
`LangChainAdapter`, whose maps are `callStarts` and `chainNames`. A *setup* says
which loggers have which plugins, what the host's OpenTelemetry and the request
headers bring, and what is called.

**OTelExport.** An id is a pair of the kind of source it is computed from and what it is
computed from: a digest, a header, an id that was hexadecimal already, or a fresh one. `SpanOf` and `LineOf`
are the two conversions of a record.

**Functions.** Each module names the source of each operator in `PROJECT.json`, and
what TLC evaluates of it:

| Module | ASSUMEs |
|---|---|
| `Levels` | severities and both bridges keep the order of the levels (`SeveritiesKeepOrder`, `BridgesKeepOrder`); which texts are levels (`LevelsAreRead`) |
| `Toggles` | `MostSpecificRuleWins`, against a definition by prefixes; a rule reaches what is below it and nothing else (`RuleReachesItsOwn`) |
| `RecordMeta` | with the policy off a record tells nothing of a content field, from whichever of four sources (`OffTellsNothing`); `DigestsTellApart`; what the call says stands (`CallWins`); `NoFunctionIsLogged`; `SecretsAreRedacted`; redaction of values that refer to each other ends and leaves out only what is too deep or cyclic (`RedactionReachesAll`) |
| `StateDiff` | the diff applied to the old state is the new one (`DiffIsTheChange`); what it cannot see, and a state that cannot be cloned (`UnseenStates`) |
| `SemanticConventions` | one generation of attributes at a time (`OneGeneration`, `OnlyExplicitlyLegacy`); a line and its span agree (`LineAgreesWithSpan`); content only if captured, an error type just if there is an error (`SpansAreLabelled`); `TimesAreExact` |
| `Records` | `RecordsAreReadBack`, `LegacyRecordsAreRead`, `OthersAreRefused`; the `llm` block has what fits and no more (`LlmBlockFits`) |
| `Logfmt` | a text, and the fields of a line, are read back (`TextsAreReadBack`, `FieldsAreReadBack`); nesting is cut (`DepthIsBounded`) |
| `Configuration` | a logger of all entries in their order, or an error and what it leaves open (`WholeConfigOrNone`); `EnvironmentWins`; options come to a constructor by their names (`OptionsAreNamed`) |

## 3. The runs

| Run | Bounds | Shows |
|---|---|---|
| `dispatch_queue` | each policy, `maxSize` 2, 5 `enqueue()`, 2 `flush()`, a warning interval of one tick | type, the bound, no lost wakeup (`NothingStranded`), each task in one place, drops counted, `FlushKeepsPromise`, order, liveness, and refinement of `DeliveryContract` |
| `dispatch_queue_logging_on_drop` | `dropOldest`, an `onDrop` that logs | **violation**: the queue grows past `maxSize` |
| `batching` | `maxRecords` 3, `maxBytes` 5, sizes 1, 3, 5 and a throwing `toItem`, 5 writes | both bounds, `BytesMatch`, `SentInOrder`, `OnePlace` |
| `batching_unsizable` | as above with a `sizeOf` that throws | **violation**: the buffer grows past `maxRecords` |
| `lifecycle` | six programs: a queue of 1 under two policies; one or two transports, each kind in some program; one or two ends of `close()`, the handlers and `withFlush`, 2 or 3 records | `EmptiedOnReturn`, `NothingQueuedAtExit`, `RefusedOnlyLate`; every call comes to an end unless `process.exit()` comes first (`CallsReturn`); a signal ends the process, except after `beforeExit` while a batch is never answered (`SignalEnds`) |
| `lifecycle_in_flight` | `close()` and the handlers | **violation**: `close()` does not wait for a batch in flight |
| `pipeline` | four programs of 4 or 5 records and up to 4 ticks; every table holds 1 or 2 entries | one fate for each record, `TraceComplete`, bounds, `WindowBound`, `ChainVerifies`, alerts and retry counts |
| `pipeline_rate_limit` | the rate limit alone | **violation**: more than `maxRecords` in some `perSeconds` |
| `surroundings` | *batches*: every transport, client injected or imported, with and without `ensureSchema`; three batches of 3, 1 and 2 records (a fourth for New Relic and SQLite), one record that cannot be converted; DynamoDB's and SQS's limits 2; a clock of 5 ticks. *file*: rotation never, at every line or at every second line; 0, 1 or 3 backups, compressed or not; 6 lines. *syslog*: both protocols, messages of 1, 2 and 4 bytes against a bound of 3, 4 sockets. *level*: sources that hold two level names, a number, a blank or nothing | `ResolvedMeansSent`, `CreatedOnce`, `OnlyEarlyBatchesImport`, `PauseKept`; `FileKept`; `SocketsKept`; `LevelApplied`. Evaluates `Configuration`, `Records`, `Logfmt` |
| `backends_table` | PostgreSQL with `ensureSchema` | **violation**: rows are inserted before the table is there |
| `tracing` | two chains, two or three blocks, three records, two loggers, a chain and a call of a framework; eight setups that are `Steady`: every record of a request finds the same trace | `ParentIsEnclosing`, `TreeIsLogged`, the adapter's maps (`TracingTypeOK`). Evaluates `Levels`, `Toggles`, `StateDiff`, `SemanticConventions` |
| `tracing_join` | as above with one logger that has neither a `RunPlugin` nor a `TraceContextPlugin` | **violation**: a line is in another trace than its span |

**Why the bounds are enough to meet the interesting cases.** Five tasks over a
queue of two overflow it while a drain awaits a task and another callback is
already scheduled, with room left for a drop inside and one outside a warning interval.
Sizes 1, 3 and 5 against 5 bytes and 3 records make either threshold come first,
after one, two or three records, and five writes leave two batches in flight
beside a buffer. In `Lifecycle` one record is buffered when the first call comes,
another is queued and a third is logged late; two calls are the least that
overlap, and a walk that waits for an export and one that waits for nothing each
overlap with another end. Tables of one or two entries in `Pipeline` make every
eviction happen with two or three keys; windows of two ticks end, reopen and are
straddled in three or four. In `Backends` a batch of three records needs two
requests against limits of two, so that one can fail and one be pending; three
batches let two import at once and a third find what they kept, and a pause of two
ticks ends within five with answers to earlier requests still to come. Six lines
rotate a file past its oldest of one backup, and of three, with a call that fails or
a restart at each call on the way. Four sockets let an old one close while a second
is in use and a third replaces it. Two chains are the least that overlap, and
symmetric: `Symmetric` permutes them, which only the safety properties of `tracing`
are checked under. Three blocks let two chains interleave and one nest; three
records are a span, its child and a line. Every property has been seen to fail on a
mutated model under the same bounds.

**Deadlock** is not checked where the system may stop: a queue nobody calls, a
process that has exited, batches that have settled.

**Fairness.** `DispatchQueue`: the event loop runs a callback that was scheduled
and a promise's continuation (`RunScheduled`, `ResumeDrain`), a turn ends
(`OnDropReturns`), and a started task settles (`Settle`), which the logger's
tasks do since they are synchronous. A caller of `DispatchQueue` with a task of
its own that never settles, or that awaits this queue's `flush()`, stops the
queue for good: the code has no timeout, and `Progress` is about tasks that
settle. `Lifecycle` adds that a resolved promise continues (`Continue`), that
`process.exit()` is reached in the `finally` (`Exit`), and that an export the SDK was
asked to finish settles, as its own time limit makes it (`ExportSettles`). Node ends
a process that has nothing left to do (`NaturalExit`); `CallsReturn` does not count that
as the end of a call, so a call may not be left pending by it.
`Surroundings` adds that the timer of a watcher fires (`Poll`), as `setInterval()`
does while the process runs. Nothing obliges a caller
to log, flush or close, a signal to come, the clock to move, or a backend ever to
answer; strong fairness is nowhere used.

## 4. Where the code and its words disagree

1. **`onDrop` that logs breaks the bound** (`dispatch_queue_logging_on_drop`).
   Under `dropOldest`, `enqueue()` evicts, calls `onDrop`, and only then pushes
   (`core/dispatch-queue.ts:111-113`); a record logged by `onDrop` takes the place
   just made. Line 85 says "Bounded by `maxSize`".
2. **`close()` does not wait for the last batch** (`lifecycle_in_flight`). It
   awaits `transport.flush()`, but `BatchingTransport.flush()` returns `void` and
   keeps the promise of `sendBatch()`. `core/logger.ts:171` promises to "wait for
   it", because the process may exit right after.
3. **A record that cannot be measured escapes the threshold**
   (`batching_unsizable`). `write()` pushes the item before `sizeOf()` throws
   (`batching-transport.ts:53`), so such records accumulate past `maxRecords`.
4. **The rate limit's window is not rolling** (`pipeline_rate_limit`). A window
   starts with a record and is followed by the next, so almost twice `maxRecords`
   can pass within `perSeconds`. `README.md:775` says "rolling", `:787` "only the
   first 5 in any 60s window ship". What does hold is `WindowBound`: at most
   2 * `maxRecords` - 1.
5. **Rows before their table** (`backends_table`). `sendBatch()` sets
   `schemaEnsured` before it awaits `ensureTable()` (`sql/base-sql-transport.ts:105`),
   so that a second batch does not create the table again (`CreatedOnce` holds).
   But that batch goes straight to its insert, and line 31 says "run
   `createTableSQL()` before the first insert". If `ensureTable()` fails it is
   never tried again, for the same reason.

6. **A root span and its lines in two traces** (`tracing_join`). Without
   `meta.trace_id` and `meta.run_id` `OTLPTransport` gives a root `span()` a random
   trace, while each line logged in it is put into a trace made from its
   `parent_span_id` (`transports/otel/logs-transport.ts:198-200`). Lines 118-119 say a
   collector can join the two. `TreeIsLogged` states where it can: when every record
   of a request finds one trace. From the code alone, without a run: loggers that
   differ in their `RunPlugin` do not join either, nor do the records of a request
   without a header under `TraceContextPlugin`, each of which gets a fresh trace id
   (`plugins/trace-context-plugin.ts:179`).
Other things the code does, which have no run of their own, met while modelling:

- *Backends.* Batches that find no client each import and connect one of their own,
  and those not kept are never closed. With SQLite's default `":memory:"` two such
  clients have two databases, so that the first batch's rows may go where the table
  is not (the exception in `CreatedOnce`). A 429 to an older request that answers late
  replaces New Relic's pause with its own, earlier end (`PauseKept` is about the
  last 429 answered).
- *Signals.* When `beforeExit` has started the shutdown, `shutdown()` returns at once
  for a signal (`core/shutdown.ts:31`) and `process.exit()` is never called. `close()`
  does not wait for the batch it has sent (2.), and the process stays for as long as
  that batch's backend does not answer. Lines 17-21 say that listening opts out of the
  signal's default, "so this function calls `process.exit(0)` itself once `close()`
  settles", and that after `beforeExit` "the process is already on its way out".
  `SignalEnds` names this signal as its one exception.
- *Files.* After an error in a rotation the descriptor stays closed, every later
  write throws, and the number of the descriptor may meanwhile belong to another
  file. Two processes that share a rotated file run into this by themselves: the
  final rename of the second finds no file.
- *Sockets.* A UDP socket that failed is forgotten and not closed.
- *Levels.* `runtime-level.ts:117` allows "a number", but a text of digits is not read
  as one.
- *Spans.* A span whose function rejects with `undefined` is logged as a success. In
  a browser, a chain with no span of its own that logs while another's span awaits
  gets that span as its parent: what `ParentIsEnclosing` excludes with `mixed`.
- *Meta.* Nested values are referred to, not copied, until the deferred write: a
  change meanwhile is what is written, and breaks the hash chain if it was hashed
  before. `ContextPlugin` runs after the content policy, so that what its context
  holds is not governed. All values with a cycle share one digest.
  `PIIRedactPlugin` turns a `Date` or a `Map` into `{}`; a state held in a `Map` shows
  no diff.
- *Texts.* `LogfmtFormatter` "never throws", but an invalid `Date` does in
  `toISOString()`. The maps of names in `records.ts` are looked up with their
  prototypes, so a key `constructor` is renamed although lines 83-84 name every key
  that is, and throws in an `llm` block.
- *Configuration.* When an entry fails, the transports opened for earlier ones are
  not closed. The `backpressure` policy is not validated.
- *OpenTelemetry.* A log line says "chat" of an operation whose span says
  `text_completion`. Negative durations give a time that is a second off.
- *Bridges.* A winston entry with a custom level the bridge does not know throws out
  of `log()`, and its callback is never called.

## 5. What is proved

The theorems hold for every value of the constants that satisfies the named ASSUMEs of
the modules (`QueueAssumption`, `BufferAssumption`, `WritesAssumption`,
`LifecycleAssumption`, `BackendsAssumption`, `FileAssumption`, `SyslogAssumption`,
`LevelAssumption`, `ScopesAssumption`, `TracingAssumption`, `SetupsAssumption`, `NoneAssumption`,
`CallsAssumption`, `PipelineAssumption`, `LimitsAssumption`): any number of calls, records, transports, chains or sockets, any
size, any program. The ASSUMEs say what the constructors insist on and what values the
constants range over, and TLC evaluates each in a run. What a theorem assumes
beyond them is in its statement.

| Theorem | Beyond the assumptions | Argument |
|---|---|---|
| `TypeCorrect` | | inductive by itself |
| `NothingIsStranded` | | inductive by itself: whoever makes the queue non-empty or waits for it sets `scheduled`; the callback clears it only to start a drain or because one is on |
| `SizeIsBounded` | `MaxSize > 0`, `onDrop` does not log | `RoomIsKept`: tasks waiting *and held* fit; `SizeWithinMax` alone is not inductive, since the held task is still to be pushed |
| `EachTaskGoesOnce` | | inductive, from facts about the elements of a queue after a push, an eviction and a shift |
| `DropsAreAccounted` | `MaxSize > 0` | from `EachTaskOnce`: the dropped task was not dropped before, so the set grows by one |
| `FlushPromisesKept` | | `FlushInv`: what a *waiting* flush is owed is over, or still in the queue or awaited, so that nothing is left of it when a drain ends |
| `DrainsInOrder` | `onDrop` does not log | `OrderInv`: the queue is ascending, everything started is below it, the held task is above it |
| `QueueImplementsContract` | | step simulation of `DeliveryContract`, with `EachTaskOnce` (a task's fate is well defined), `RunsInv` (awaited tasks run, waiting flushes are not resolved) and `FlushInv` |
| `TransportTypeCorrect` | | one lemma for each operation: which records it moves where |
| `BufferIsBounded` | no record's `sizeOf` throws | after each operation the buffer is empty or below both bounds; the assumption is exactly what `batching_unsizable` shows to be needed |
| `RecordsInOnePlace` | | the same lemmas, and that two pending batches share no record |
| `BytesAreCounted`, `RecordsGoInOrder` | | the same lemmas over a function that adds up the sizes, and over `FlattenSeq` of one batch more; below |
| `LifecycleTypeCorrect` | | part of `LifecycleInv` |
| `CallsEmptyTheLogger`, `NothingIsQueuedAtExit`, `FilesRefuseOnlyLate` | for the second, that there are shutdown handlers | `LifecycleInv`, below |
| `BackendsTypeCorrect`, `BackendsSendWhatTheyResolve`, `BackendsCreateOnce`, `BackendsImportEarly`, `BackendsKeepThePause` | | `BackendsInv`, below |
| `SurroundingsAreTheirParts` | | a step of the whole is one of a part or leaves it alone |
| `SurroundingsTypeCorrect` | | the parts' types, carried over by the theorem before |
| `SurroundingsSocketsKept` | | `SyslogInv`: `SocketsKept` and types, inductive as it stands since `forget()` tests that the socket that failed is the current one |
| `SurroundingsFileKept` | | `FileInv`, below |
| `TracingTypeCorrect`, `ParentsAreEnclosing` | | `ScopesInv`, below |
| `PipelineTypeCorrect`, `RecordsAreAccounted`, `TracesAreComplete` | | `PipeInv`, below |
| `SamplingIsBounded` | `MaxTraces > 0` | part of `PipeInv` |
| `ChainsVerify` | | `HashInv`, below |
| `TreesAreLogged` | every program among `Setups` is `Steady` | `TreeInv`, below; `tracing_join` shows that the assumption is needed |
| `WindowsAreBounded` | | `WindowInv`, below |
| `RetriesAreExact` | | `RetryInv`, below |
| `AlertsAreAccounted` | | `ToldInv`, below |
| `AlertsAreBounded` | | `OpenedLast`: while a window is open no alert of its key is later than its opening; `OnlyLastRecent`: when none is, only the last alert of a key may be less than a window old |

With `MaxSize = 0` the code evicts from an empty queue and counts a drop that
did not happen, and pushes nevertheless; the two theorems that say `MaxSize > 0`
are false without it.

**Sums and concatenations.** `BytesOf` and `FlattenSeq` are functions defined by
recursion on a length, of which TLA+ says nothing before one knows that such a
function exists. `SumExists` and `FlattenExists` show it by the least length for which
there would be none, `SumsAgree` and `FlattensAgree` that there is but one, by the
least place where two would differ. What one record or one batch more makes of them
(`SummedOneMore`, `FlattenOneMore`) is then arithmetic.

**`LifecycleInv`.** A step of `Lifecycle` is a step of its queue or leaves it as it
was, so that what `DispatchQueueProofs` shows of the queue (`EachTaskOnce`,
`FlushInv`, `RunsInv`) holds in it unproved. `EmptiedOnReturn` speaks of calls that are
over; what is inductive is where a call still on its way stands. `OwedToCalls`: the
queue owes a call all that was logged before it and is not over. `RunIsWritten`: a
record whose task has run is in each transport's buffer or has been through it.
`CallsInStep`: a walk begins when the queue has let its call go on. The three give
`WalkedIsPassed`: a transport a walk has behind it is rid of those records, since
flushing moves all it keeps to what has been through (`Carries`, a lemma for each
operation of each kind of transport, says that nothing moves back). `ClosedByClose`
gives `RefusedOnlyLate`, and `ExitsWhenOver` the exit.

**`BackendsInv`.** `Shapes` has, for each batch, what its stage says of its requests;
that the requests of a batch cover it, each record once, is arithmetic about division
(`ChunksCover`). `Clients` counts: clients made and
imports under way are at most the batches there were before one was kept.
`TableFirst` follows the first batch through its stages, and `PauseKnown` ties New
Relic's field to the last 429. Each action moves one batch on, so a lemma says what
it takes of that batch and what of the state they share.

**`FileInv`.** `FileKept` speaks of lines that are gone and of rotations that began; in
the middle of one, lines stand where neither the last nor this rotation will leave
them. `Place` gives a backup that is still to be moved the place it will have:
`PlacesBounded` and `LinesPresent` are about that, and `RoomToMove` says that the place
the next rename overwrites has been emptied. `BackupsAscend` allows a compressed
backup to hold the beginning of what the file has, which is what a process that dies
before `unlink` leaves.

**`ScopesInv`.** That the one stack of a browser tells a chain where it is when
nothing is *mixed* takes more than the stack: `OpenOnce`, a block is open in one place
of one chain, and `ScopesNested`, blocks stand in the order they were entered.
`StackCounts` holds even when the stacks are mixed: as many entries as open blocks, so
that no `pop()` finds an empty stack and the stacks are empty again when nothing is
open. `StacksMatch`, unless mixed, is what makes the answer right: the stack of spans
is the ids of the open spans in order, and entry number n of the other binds each key as
the newest of the first n open `bindContext()` blocks with that key does. A block that
is entered is newer than all that are open, and when all that is open is around the
chain that leaves, the block it leaves is the newest. Then the entry on top is what the
chain is in (`StacksTell`), which `ParentIsEnclosing` needs of every record dispatched.

**`PipeInv`.** A record is counted by its id wherever it is (`Placed`): the queue, what
was written, the buffer of `SamplingPlugin`, what was refused, evicted or lost, and what
its call's fate says, are apart and together are all calls made. That a place has it but once is
`RecordsOK`: no two records of a list have an id in common, and each says what its call said.
The buffer is reasoned about as the set of its entries (`MapOK`, `Entries`), so that
reordering it, which every touch of a trace does, changes nothing; `Evicts`, `Buffers`
and `Elevates` say what each operation of the plugin moves where, and `Samples` what the
hook as a whole does. The chain of hooks is a run from one of its places to the next
(`RunOf`), and `ChainOK` holds at each: by the least place at which it would not. The
setups have one plugin of a class, because the model keeps one state for each class; a
second `SamplingPlugin` would not see the first one's buffer. With
`MaxTraces = 0` the code finds no trace to evict and buffers one all the same, and
`SamplingIsBounded` is false.

**`HashInv`.** The hash chain is the last hook of the setups `ChainVerifies` is about,
so that the records hashed are queued in the order hashed, and the queue is written in
order: `sink \o queue` without the records that could not be hashed grows at its end only, by a record
whose `prev_hash` is `lastHash`, which is the hash of the last one (`HashesAtTheEnd`).
`OnlyHashed` is one more function by recursion on a length; `KeepsTo` says what it
keeps and `KeptSkips` that a record without a hash is skipped.

**`WindowInv`, `RetryInv`.** Both plugins keep a map of bounded size in the order of last
touch, and what they promise holds as long as an entry is not evicted. The entries of
the map stand in the order in which the log last touched them (`Recent`), so whoever is
evicted makes room for `MaxKeys` others, each touched later: `EvictedByOthers`, shared
by the two. `WindowBound` counts over every interval, while a window counts from the
record that opened it; `Fits` says what the entry tells of the records that passed since any time t: if its window
began before t it counts them all and the record it began with; if not, they are those
it counts and what the window before it let pass but its first. A key without an entry
had none pass. `LimitJudges` says which records reach the limit from its place
in the chain. `WindowBound` is about those only: with a `SamplingPlugin` ahead of
it, a record that is kept back has passed no limit yet. `RetryInv` says of each key what
the next attempt would be given, which is what `RetriesExact` says of the attempts made
(`ExactNext`, `OpenedIs`).

**`ToldInv`.** `Told` adds up what the alerts of a key tell of, one more function by recursion on
a length. `Account` ties it to the window that is open for the key and to the records no
window had room for, after each record written and each timer. It takes that no severe record is kept back by a `SamplingPlugin` (an error
elevates its trace), which `ChainOK` says.

**`TreeInv`.** `TreeIsLogged` relates any two records of the log. A program is *steady* if one
source gives all its records their trace (`OneTrace`: a run, the host's span, the
constructor's option), or each request has one in its header (`TracePerRequest`).
In the second case a function H from blocks to headers says for which request
each block was opened: a chain is only in blocks of its own request (`ScopesRight`), a chain that
is forked works for the request of the one that forks it, a span that was left
is recorded before the header is taken back (`PendingRight`), and a record names only
blocks of the request whose trace it is in (`Placed`). `MCTracing` has ASSUMEs that the
setups of `tracing` are steady and that the one of `tracing_join` is not.

The conjuncts of `LifecycleInv`, `BackendsInv`, `FileInv` and `TreeInv` were checked
with TLC on the runs' instances before they were proved.

**Model-checked only.** Liveness (`Progress`, `CallsReturn`, `SignalEnds`,
`LevelApplied`), which TLAPS cannot prove under fairness; every other property of a
passing run is a theorem. The ASSUMEs of the modules of functions are about
bounded inputs; several are recursive definitions over data. The
library's induction theorems take an operator as a parameter, which the installed
provers cannot instantiate; where the proofs above need a least or greatest number
with a property they take it from the well-foundedness of the naturals instead
(`LeastNatural`, `GreatestOf`).

## 6. What is not modelled

- **Text and layout**: `TextFormatter`, `parse()` (which applies a regular expression
  of the caller's), ECS fields, syslog lines, what the patterns of `PIIRedactPlugin`
  match, how a `traceparent` is taken apart.
- **Cryptography**: Fernet, SHA-256. A digest is what it was computed from.
- **What a backend does with a request**: it accepts it, fails, or does not answer.
  What an answer says of single records (DynamoDB's unprocessed items,
  Elasticsearch's `errors`) the code does not read. Alert destinations are one
  request each.
- **The OpenTelemetry SDK**: loading it, and its batch processor beyond what it
  holds and exports. Exports in flight when `forceFlush()` is called are its own affair.
- **In the modules that exist**: `SamplingPlugin` without transports (a coin toss),
  hooks of a user's own, removing the shutdown handlers, `BeaconTransport`'s
  listeners on the page, the frame `callerInfo()` finds, `child()` sharing its
  parent's queue, the cache of `opt()`, `RunPlugin`'s count of records, a framework's
  payloads in the adapters, the stream interfaces of the bridges.
- **Order across the paths**: `block` runs a task ahead of the queue, and
  elevation writes a trace ahead of what is queued. The code promises no order
  there, and none is checked.
- **Two hazards without a property.** A task given to `DispatchQueue` that awaits this
  queue's own `flush()` stops it for good, and the traces `SamplingPlugin` has
  elevated are remembered for ever: in both the code makes no promise to check.

## 7. Plan

Done, in the order of their importance: `DeliveryContract` and `DispatchQueue`
(every record goes through it), `BatchBuffer` and `BatchingTransport`,
`Lifecycle` (their composition when the process ends), `Pipeline` and its plugins,
`Backends` and the rest of `Surroundings`, `Scopes` and `Tracing`, and the modules of
functions. Every component has its model, as far as section 6 says.

Proved: every safety invariant, every action property and the refinement that the passing
runs check. What could follow: stating the ASSUMEs about functions that are not
recursive (`Toggles`, `StateDiff`) for inputs of any size, and finer models of what
section 6 leaves out.
