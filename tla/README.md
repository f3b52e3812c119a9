# go-goodwe in TLA+

A verification project for go-goodwe: a Go library that talks Modbus to GoodWe
ET inverters, and a daemon that polls one inverter, keeps its readings in
SQLite, analyses and aggregates them, and serves them over HTTP.

Paths are relative to the root of the repository (`src/`). `PROJECT.json` is
the index: which definition models which lines, which run checks which
property, which mutation of the code each property catches, the hazards, the
findings and the theorems.

## 1. The system

| Component | State it keeps | Operations | Module |
|---|---|---|---|
| Modbus transports `et/tcp_transport.go`, `et/dtls_transport.go` | mutex `mu`, connection `conn`, what the socket has queued | Connect, Close, ReadRegisters with one reconnect and retry | Transport, RegisterService |
| ET inverter `et/et.go` | serial of the probe, transport | Connect, GetInfo, GetSensors, ReadSensor, Close | Inverter; its connection in Transport and Daemon |
| Register decoding `et/registry.go`, `et/const.go` | none | tables of sensors, readers, derived sensors | Registry (in part) |
| Discovery `discovery/discover.go` | none | one UDP probe, Discover | Inverter (in part) |
| Command line tool `cmd/goodwe/main.go` | flags, context, connection | -info, -readsensor, -poll, signals | Tool (in part) |
| Library interface `goodwe.go` | none | the interface Inverter | Inverter, Tool |
| Daemon `pkg/daemon/daemon.go` | connection state and error, verification error, backoff, timer | Run, doConnect, verifyIdentity, doPoll, aggregationLoop | Daemon, Aggregation |
| Voltage analysis `pkg/analysis/voltage.go` | events, cursor row | RunVoltageAnalysis | VoltageAnalysis |
| Store `pkg/db/store.go` | samples, hourly and daily rows, events, cursor, identity, schema version | inserts, aggregation, pruning, queries, migration | Aggregation, VoltageAnalysis, EventPages, History, Migration |
| Process `cmd/goodwe-daemon/main.go` | signal channel, context, HTTP server, goroutines | start, one-shot jobs, shutdown | Shutdown; the one-shots in Aggregation and VoltageAnalysis |
| REST API `pkg/api/handler.go` | none of its own | live reads, history, health, voltage events | EventPages, History, Daemon (in part) |
| Dashboard `pkg/dashboard/index.html` | event cursor, has-more flag, loading flag | loadVoltageEvents, loadStatus, graphs, presentation | EventPages, History, Dashboard (in part) |

How they interact:

- The poll goroutine (Run) and every HTTP handler call the **same** transport.
  Its mutex is the only thing between them; it is released between a failed
  read, the reconnect and the retry.
- The transport reconnects by itself. The daemon, which verifies the identity
  of the inverter only in doConnect, is not told.
- doPoll inserts the samples of a poll one by one and then runs the voltage
  analysis in the same goroutine. A second process
  (`goodwe-daemon -offline-analyze-voltage`) may run it on the same database.
- aggregationLoop runs in a goroutine of its own beside polling. The one-shot
  flags `-aggregate`, `-aggregate-backfill` and `-prune` run the same functions
  in another process.
- No database operation uses a transaction: each statement commits by itself,
  so an error, a cancelled context or a crash leaves what came before it.
- main cancels the context, shuts the HTTP server down with a timeout, closes
  the daemon and the store, and exits without waiting for its goroutines.

What is hard to test here: the window in which the transport's mutex is free;
answers that arrive after their deadline; a connection that silently leads to
another device; jobs and analyses that end between two statements; cursors
derived from the newest row of a table; an hour that ends while a poll is under
way; devices that lack a register block or serve it at a shorter length; answers
made of several queries with inserts and pruning in between; the order of shutdown; a migration that is interrupted or half fails. The
full list, with the line where each bites, is `hazards` in `PROJECT.json`.

## 2. Modules

Each component is one module; `MC<module>` is its instance for TLC and the
`.cfg` files fix the constants. Tool extends Inverter, which extends Registry: one
state machine of the program and the library it calls. Dashboard puts EventPages
and History side by side. The other modules do not share variables: where one
component uses another, it uses an abstraction of it, named below. Definitions
called `Mutant of X` are plausible bugs; they are part of no specification and
serve to show that a property can fail. `<module>Proofs` has the theorems about a
module (ToolProofs those about Inverter too, DashboardProofs those about EventPages and
History); section 5 describes them.

### Transport

`mu`, `conn`, the open sockets, what each socket has pending (requests not yet
answered) and in its inbox (answers not yet read), and per client (goroutine)
where it is and what its last call returned. One action per critical section
or blocking call: `CallConnect`, `CallClose`, `CallReadRegisters`, `Close`,
`ConnectLock`, `DialOk`, `DialFail`, `ReadLock`, `Send`, `Recv`, `FailOpen` (an
error that keeps the connection: deadline, bad frame), `FailClosed` (an error
that `isConnClosed` recognises, which starts the reconnect), `RetryLock`.
Environment: `Deliver`, `DeliverHead` (a stream delivers a frame in two
segments), `Lose`, `Drop`.

Both transports have the same control; the constant `Framing` says whether one
`conn.Read` takes all that has arrived (TCP) or one datagram (DTLS).
A frame is reduced to the block it carries, the call that waits for it, and
whether it is whole. `CallReadRegisters` with any block at any time covers every
sequence of reads that GetInfo, GetSensors and ReadSensor make. `Recover` is
net/http's recover around a handler; a panic in the poll goroutine ends the
process (`Crashed`).

### RegisterService

What the interface Transport promises its callers, without sockets, queues or
locks: calls are served one at a time (`Begin`, `Answer`), a served call returns
what it asked for, an exception or an error, and only a connection soiled by a
call that gave up may hand out a left-over answer; `Break`, `Renew` and `Fail` are
what reconnecting looks like from outside. Transport instantiates it as `Service`:
`serving` is the holder of `mu` inside a transaction, `soiled` whether `conn` holds
an answer that nobody waits for. `ImplementsService` is `Service!Spec`.

### Registry, Inverter, Tool

Registry has the readers of `et/registry.go` with their width (`W` bits a register),
their bounds checks, their values for "not there" (all ones), and the sensor tables
with one sensor of each reader, block and place that matters. A block is a
sequence of registers; one that was read short is a shorter sequence.

Inverter has `Discover`, `GetInfo`, `GetSensors` and `ReadSensor`, one action per
transaction (`ReadMain`, `ReadBattery`, `ReadMeter`, `ReadMPPT`, `ReadSensor`), each
of which may succeed, be answered with exception 0x02 (`IllegalDataAddress`), or
fail. `device` is what it talks to: the blocks it serves, their length and contents;
`dongle` what it answers to the probe. `info`, `bulk` and `single` are what the calls
have returned. A transaction is atomic here: Transport has its parts, and
RegisterService says that callers cannot tell on a clean connection.

Tool is the main function of `cmd/goodwe`, from Discover on, with its flags
(`mode`), the loop over the sensor names, the select of the polling loop, the signal
that cancels the context, `os.Exit` and the deferred Close. In mode `library` the user
is any other program that calls GetSensors and ReadSensor in any order.

### Daemon

The loop of Run with its `select`, timer and backoff; doConnect split at
Connect, GetInfo, the statements of verifyIdentity and the check of its result; doPoll
split at the reads of GetSensors (`PollOk`, `PollMore`: later blocks may be read from
another device) and the inserts. verifyIdentity reads the row of the identity (`Verify`),
stores the first one (`StoreIdentity`) or rewrites the one that matches at every
connect (`UpdateIdentity`, whose error is only logged), and then purges
(`PurgeBadSamples`). `identities` is the table, a set of rows, of which the key is the
serial; `Info` keeps apart a serial and the other fields, which are empty when GetInfo
has fallen back to the serial of the probe. The transport appears as `link`, the device
behind the connection; reads over a lost link dial again (`ReadsFrom`).
Environment: the device at the address is replaced, the connection drops, HTTP
handlers read, the context is cancelled, the process ends or dies wherever Run is and is
started again over the same database, with whatever serial discovery then finds
(`Restart`), failures stop (`Calm`, for liveness only). `origins` is the devices that
samples were stored of; `swapped` is a history variable: whether the last GetInfo has reached the device that answers
now.

### VoltageAnalysis

RunVoltageAnalysis statement by statement (`Begin`, `Fetch`, `Scan`,
`NextSensor`, `Save`), interleaved with `InsertSample`, ended early by `Abort`,
and, if `Offline`, run by a second analyser, at any moment of the daemon's poll and
analysis. A row's rowid is its position. The daemon inserts and analyses in one
goroutine: with it alone nothing is inserted between the reads of two sensors.
Averages and durations are left out.

### Aggregation

AggregateHourly, AggregateDaily, PruneSamples and PruneHourly bucket by bucket,
run by the daemon or by a one-shot job, beside a clock and a poll that takes the
time of its samples and inserts them later, maybe after the full hour. Rows are reduced
to the number of samples in them. Samples that have a value are counted (`raw`);
those of text sensors, whose value is NULL, get into no aggregate
(`pkg/db/store.go:397`) but are looked at for the oldest sample and pruned like the
rest (`text`). `kinds` is what kinds of jobs work on this database. `total` and `due`
are history variables: what has ever been inserted with a value, and what of it was
inserted in its own hour. One-shot jobs run while the daemon does not (two jobs at a
time are not modelled), as `README.md` describes.

### Shutdown

main's goroutine step by step from the signal to the exit, the HTTP server with
its handlers, and the goroutines that take the context. `Shutdown` is
`httpServer.Shutdown`: it returns when the handlers have, or on its timeout.

### EventPages

The dashboard's endless list of voltage events: loadVoltageEvents,
handleGridVoltage and the two statements of QueryVoltageEvents, while the
analysis adds events and requests fail. Ids never go back because the column is
AUTOINCREMENT. One request is under way at a time (`voltageLoading`).

### History, Dashboard

handleGetAggregate as loadStatus and the graphs use it: `AskLatest`; `AskSamples`
with its defaults and clamps, then `DeltaReference` (SampleAt) and `QuerySamples`
(QueryRawSamples, downsample, the difference), each a query of its own, while the
daemon inserts (`Tick`) and prunes (`PruneRaw`). The table is a set of rows, which
`Newest` and `Ascending` put in the order that a query asks for. Time is counted in polls and the
counter of the inverter grows with it. Dashboard is EventPages or History: they read
different tables and share nothing, so a behaviour is one of either.

### Migration

Open and migrate as a sequence of statements (`Program`) with the version below
which each runs and the Exec it belongs to. `Execute` and `ExecuteFails` run the
next one; `Stop` ends the process anywhere. `failed` remembers a failed statement for
ever, `failing` until the next start. Starts from an empty file or from a
database of any earlier release, with any of the added columns missing.

## 3. Runs

Passing runs:

| Run | Shows | Bounds |
|---|---|---|
| transport | `NoInterleaving`, `NoUseAfterClose`, `NoLeak` for the poll goroutine and one handler over TCP; `ImplementsService`: Transport refines RegisterService; under fairness `CallsReturn`: the reconnect deadlocks nobody | 2 clients, 2 sockets, 2 blocks, 2 requests or answers per socket |
| tool | `SingleAgreesWithBulk`, `NoBlockLost`: both read paths and their fallbacks find the same sensors; `DerivedAgree`: sums, directions, labels and bitmaps agree with the sensors they are made of; `StatusTruthful`: status 0 means that all sensors asked for were printed with the values of their registers; `PollCloses` and, under fairness, `ToolEnds` | registers of 8 bits; 26 devices: every combination of served blocks, values at the thresholds and absent; 7 dongles; up to 2 names |
| daemon | `StatesAgree`, `BackoffFollowsFailures`, `MismatchIsFinal`, `IdentityKept` (across rewrites, failed writes and restarts), `ForeignOnlyAfterSwap` and, under fairness, `CancelStopsRun`, `PollingResumes` | 2 devices, the serial of one of them reported by the probe, with and without store and polling; 5 s and 300 s as in the code; 8 failures, after which the backoff is at its limit |
| voltage | `IncrementalEqualsBatch`: however samples are divided into runs, the events are those of one pass; `NoSampleSkipped`, `OutOfRangeCovered` also with runs that end early | 2 phases, 4 samples below, on and above the limits or without a value, 2 aborts, one analyser |
| aggregation | `HourlyRowComplete`, `DailyRowComplete`, `PrunedOnlyAggregated`, `DaemonCoversAll` for the daemon's job beside polls that may last into later hours; `BackfillCoversAll` for backfills and prunes; `DailyForever` for all jobs in any order | days of 2 hours, 5 hours, polls in the first 4 of them, 2 samples an hour, text in the first hour, polls of the second hour may last, 1 abort |
| shutdown | `StoreOutlivesHandlers` and, under fairness, `SignalEndsProcess`, `ServerErrorStopsWorkers` | 2 goroutines, 2 requests |
| dashboard | `ListedOnce`, `NoHoles`: the list of events under paging, failures and new events; `DeltaNotNegative`, `AnswerEven`: energy of today and the samples of a graph, with inserts and pruning between the queries | pages of 2, 6 events; 7 polls, a window of 4, limits 1 and 6, at most 3 points |
| migration | `SchemaTruthful`, `CursorKept` with a process that dies anywhere; `StorageReady` when any statement may fail: samples can be stored, and a start without a failure adds the columns of the identity that earlier ones could not | every earlier database, 2 saved cursors |

The runs dashboard and tool do not check for deadlock: once all events and polls of
the bound are there, and once the tool has exited, nothing is left to do.

Runs that find a violation; each is a finding in `PROJECT.json`, with the line of
a document or comment that says otherwise:

| Run | Shows |
|---|---|
| transport_nil_retry | the retry of ReadRegisters uses `conn` without a check; a Close or failed Connect in between left it nil |
| transport_late_answer | an answer that comes after its deadline is returned to the next request (on DTLS) |
| voltage_extremes | a resumed event forgets its earlier extremes |
| shutdown_server_error | after an HTTP server error main still waits for a signal |

Stronger properties that the code does not have. They are no runs of their own;
change the constants or the property as given and TLC shows a counterexample:

| Property | Constants | What happens |
|---|---|---|
| `ConnectedIsVerified` of Daemon | those of Daemon.cfg | the transport's own reconnect reaches an unverified device while the state is Connected |
| `ConnErrorOnlyIfFailed` of Daemon | those of Daemon.cfg | ConnError is set while the state is Disconnected, against the comment at `pkg/api/handler.go:79` |
| `NoFalseMismatch` of Daemon | one device, `ProbeSerials` with another serial | one failed read makes GetInfo answer with the probe's serial, taken for a replaced inverter; with the device's serial alone in `ProbeSerials` it holds |
| `OneOngoingEvent` of VoltageAnalysis | those of Voltage.cfg | an event inserted by a run that ends before the cursor is saved is resumed by no later run and stays ongoing for ever, against `TODO.md:93` |
| `OutOfRangeCovered` of VoltageAnalysis | those of Voltage.cfg with `Offline = TRUE` | the offline analysis that `README.md:118` runs beside the daemon: a poll inserts between the reads of two sensors, and an out-of-range reading falls behind the cursor unseen |
| `BackfillAggregatesAll` of Aggregation | `Uses = {{"aggregate", "backfill"}}`, `Window = 1` | a backfill after `-aggregate` does not reach the hours before its window, against `README.md:168` |
| `HoursReaggregated` of Aggregation | those of Aggregation.cfg | a sample inserted after its hour was aggregated is in no hourly row, and no later run goes back to that hour, against `TODO.md:244` |
| `TablesCreated` of Migration | those of Migration.cfg | a table whose CREATE failed once, or which was dropped because the version could not be read, is made by no later start, against `pkg/db/store.go:810` |
| `DaemonClosedAfterRun` of Shutdown | those of Shutdown.cfg | daemon and store are closed while Run is at work |
| `CursorKept` of Migration without `~failed'` | those of Migration.cfg | a failed read of user_version counts as 0 and drops the recorded events |

Facts of the same kind that are read off the code without a run:

- A failed read in GetInfo, where the serial of the probe is the stored one, rewrites the
  identity's row with an empty model, firmware and rated power
  (`pkg/daemon/daemon.go:366`); `UpdateIdentity` of Daemon does so.
- PruneSamples deletes the samples of text sensors, which no aggregate keeps
  (`pkg/db/store.go:397`).
- A sensor behind the end of a meter block that was read short is reported as 0,
  not left out (`et/registry.go:329` speaks of its availability).
- `-info` and `-readsensor` leave by `os.Exit`, which skips the deferred Close
  (`cmd/goodwe/main.go:190`, `:207`, `:211`); polling does not.
- `int16Reader`, `int32Reader` and `cellVoltageReader` have no value for "not there";
  `ppv` adds in uint32 and wraps, `house_consumption` adds in int64.
- An hour or day answer loses its unit once pruning has emptied the raw table
  (`pkg/api/handler.go:374`).

Why the bounds are enough. Transport: a conflict needs two goroutines, a stale
answer needs two blocks, a leak or a reuse needs two sockets, a leftover beside
a fresh answer needs a pipe of two. Tool: the fallbacks
have three lengths, and each is combined with every presence of the other blocks;
8-bit registers have the same boundaries as 16-bit ones, and the thresholds of
grid_in_out (90) lie within them; a loop over names is decided by two. Daemon: a
replacement needs two devices; the
backoff reaches its limit after seven failures. VoltageAnalysis: an event that
starts, is resumed and ends, next to a reading of another phase, takes four samples.
Aggregation: with days of two hours, raw retention of two and hourly retention
of three hours, at hour 4 the first day has been aggregated, its raw rows pruned
and its hourly rows pruned; an hour needs two samples to be aggregated in part. A poll
that lasts is one of the hour before midnight, and it may last to the end (`SlowHours`); text
matters where it is the oldest of the samples, in the first hour (`TextHours`). The kinds
of jobs that a database sees are chosen at the start (`Uses`): the daemon alone, backfills
and prunes, or all four.
EventPages: three pages, the last of them full, short or empty. History: six
samples are thinned out to three points without a rest, five and four with one, and
the rounding shows from four samples on; a window shorter than the history makes
since and the pruning differ.
Migration has no bound besides the number of saved cursors.

Preconditions of properties, and what the model takes for granted:

- `HourlyRowComplete`, `PrunedOnlyAggregated`, `DailyRowComplete` and `DaemonCoversAll` ask
  for the samples with a value that were inserted in their own hour (`due`), which is
  all of them in an hour without a late poll; `BackfillAggregatesAll` leaves out an hour
  that has a late insert. Text samples are in no aggregate and no property asks for
  them.
- `MismatchIsFinal` is about one process: a restarted one has to find the mismatch
  again. `CancelStopsRun` ends as well when the process dies.
- `StorageReady` promises the columns of the identity only when no statement has failed
  since this start: the errors of their ALTERs are dropped
  (`pkg/db/store.go:837-840`), and without them Get- and SetInverterIdentity fail.
- `HourlyRowComplete` is about hours within the hourly retention; older rows are
  being deleted one by one.
- Properties with `Only(S)` speak of databases on which no other kinds of job run.
- `IncrementalEqualsBatch` speaks of histories without an aborted run, and the properties
  of the run voltage of a single analyser: with two TLC refutes `OutOfRangeCovered`.
- `SchemaTruthful` and `CursorKept` speak of histories in which no statement of a
  migration has failed.
- `SingleAgreesWithBulk` compares a GetSensors and a ReadSensor in which no
  transaction failed: a device does not change between them.
- `DeltaNotNegative` is about `limit=1` without `until`, as loadStatus asks, and a
  delta time that is not ahead of the server's clock; the counter of the inverter
  does not go back.
- Clocks do not go back.
- The ASSUMEs of the modules: a device serves a block at one of the lengths that the
  fallbacks know, or not at all, and its registers fit their width
  (`DeviceAssumption`); a name asked for is a sensor's or unknown
  (`RequestedAssumption`); "no value" is not a reading (`ValueAssumption`); a limit is
  at least 1 (`LimitAssumption`, `HistoryAssumption`; the handler takes no other); the phases differ from each other
  (`PhasesAssumption`, three literals in the code).

## 4. Fairness

- Transport (`FairSpec`): a goroutine that can take a step takes it (WF: the Go
  scheduler; conn.Read and conn.Write have deadlines, a dial has a timeout), and
  one that waits for `mu` gets it if it is free again and again (SF:
  sync.Mutex hands over to a waiter after a millisecond).
- Daemon: WF of Run's steps for the same reason, and SF of the `ctx.Done` branch
  of its select: Go chooses at random between ready branches.
  `PollingResumes` is conditional on failures having stopped, restarts among them, and on a
  configuration that polls.
- Tool (`FairSpec`): WF of main's steps and of a transaction, which ends by its
  deadline, and SF of the `ctx.Done` branch of the polling select, as for Daemon.
- Aggregation, VoltageAnalysis, Dashboard and Migration assume no fairness.
- Shutdown: WF of main's steps (`httpServer.Shutdown` has a timeout), WF of a
  worker's call to the database ending, SF of a worker's `ctx.Done` branch.
  Nothing is assumed of HTTP handlers: a handler may hang.

## 5. Proofs

Eight modules hold theorems, each about one component, checked by TLAPS. They hold
for every value of the constants that the modules' ASSUMEs allow: any number of
clients, sockets and blocks, any devices and intervals, any phases and voltages, any
page size and retention, registers of any (even) width, and any value of the bounds
that TLC needs. Where a theorem has a hypothesis of its own it is named below. Each
argument is an inductive invariant, with one step per action; all of them were
checked by TLC on the instances of section 3 before they were proved.

**TransportProofs.** `NoInterleaving` and the others are not inductive by themselves:
whether a request may be put on a socket depends on what is already in it. The
invariant `IInv` consists of
- `TypeOK`;
- `LockInv`: a client is in a critical section iff it holds `mu`;
- `WantInv`: a read under way has a block;
- `NoLeak` and `ConnInv`: `conn` is the only open socket, and a transaction has
  one;
- `OwedInv`: only a client between Send and the end of its call is owed an
  answer, and only by `conn`. This carries the argument: a call that ends in
  any way disowns its answer (`Forget`), so whatever another client finds in the
  socket belongs to nobody;
- `NoStolenAnswer`.

From `Invariance` follow `TypeCorrect`, `TransactionsExclusive`, `AnswersNotStolen`,
`NoConnectionLeak` and `TransactionsOnOpenConn`. `SoloNeverPanics` adds `SoloInv`:
with a single client, who waits to retry has a connection.

`ServiceImplemented` is the refinement: Transport implements RegisterService.
`RInv` says what `IInv` leaves open: what a socket holds for somebody is one request,
whole or split into a head that has arrived and a tail right behind it (`FrameInv`); a
closed socket is empty; a call that has not returned has no answer yet; a retry finds
`conn` gone only if there is another client. So on a connection without leftovers the
first frame is the caller's own and nothing stays behind it, which is why `Answer`
of a clean service may promise the block that was asked for. Every action is then a step
of the service or a stutter.

**DaemonProofs.** `IInv` is `TypeOK`, `RunInv` (which connection states go with which
place of Run, and that GetInfo has answered where its result is used) and `MismatchInv`
(a mismatch is just being reported, or Run is at
its end in state Failed); for `IdentityStays` also `IdentityInv`: the table has one row at
most, none where Run is about to store the first one, and the row that is about to be
rewritten has the serial that GetInfo read. It holds at every step by itself,
across restarts too, because a Restart puts Run in front of its next look at the
table. For `ForeignSamplesAfterSwap` there is also `SwapInv`: the
link is None or the device at the address; and unless `swapped`, there is a device, the
GetInfo just read named it, the stored identity (when it is a device's) is it once
verified without a mismatch, and the batch under way holds samples of it only. RunInv and
MismatchInv are needed because the verification error is set in one step and looked at
in another. From it: `TypeCorrect` (with it the backoff never leaves its limits),
`HealthAgrees`, `MismatchFinal` (once a mismatch is known nothing is stored),
`IdentityStays` and `ForeignSamplesAfterSwap`. `BackoffDoubles` needs the counter of
failed rounds and the backoff together (`BackoffInv`), and that `2^(n+1)` is twice
`2^n`: the provers know no laws of powers, so the lemma `Powers` takes them from
the library's theorem on the number of subsets.

**VoltageProofs**, for the daemon's own analysis (`Offline = FALSE`; with a second
analyser TLC refutes `OutOfRangeCovered`, see section 3).
- `RunInv`: a run goes through the phases, and through the rows of each in their
  order; `Looked(k)` says of a sample that it lies behind the cursor or that the
  run has been there. Hence `NothingSkipped`.
- `CoverInv`: every out-of-range reading looked at lies in an event. An event that the cursor
  calls ongoing may have been closed by a run that was cut short, but then the reading
  that closed it is still to be looked at (`Resumable`): this is what makes a run that
  is repeated harmless, and `NothingUncovered` follows.
- `BatchInv`: as long as no run was cut short, the table describes what has been looked
  at (`Describes`): events begin where a reading out of range follows one within, end at
  the next one within, each is there once, and the open one is the one the run
  carries. One reading at a time (`OneMore`) keeps that true. The theorem
  `EventsAreThoseOfOneLook` follows at the end of a run: however many samples there
  are and however they are divided into runs, the events are those of one look
  at all of them. Induction is over the steps of the run, not over the samples.

**AggregationProofs.** `TablesInv` and `JobInv` hold whatever jobs run; they give
`TypeCorrect` and, without any hypothesis, `DaysAreForever`: the daily loop begins behind the newest
day there is. The others say something of one kind of job and have the hypotheses they
need:
- `HoursComplete`, `NothingPrunedUnaggregated`, `DaysComplete`, `DaemonLeavesNothing`:
  hourly rows live for at least a day, which the code's 365 days do. The raw retention
  is any number, 0 included, polls may last as long as they like, and text samples may
  be anywhere. `DaemonTables` and `DaemonJob`: of the hours that PruneHourly keeps or that
  no daily row has, none is missing below the newest hourly row or below the place the
  job has got to, and one that has lost a raw sample has the whole of its `due`;
  every day up to the newest daily row has the whole of it. `due[h]` does not
  change once hour h is over, which is when the job first looks at it: that is why late
  inserts do no harm to what is said of it.
- `BackfillLeavesNothing`: `Retention < HourlyRetention`, the
  case of every `-retention-days` below 365. The hypothesis is necessary: with
  `Retention = 3` and `HourlyRetention = 2` TLC shows an hourly row that was pruned
  before its day was aggregated while its raw samples stay: the next backfill begins
  behind the newest hourly row and does not come back to it. `BackfillInv` keeps that below the
  newest hourly row an hour without a late insert has in its row whatever it has.

**ShutdownProofs.** `OrderInv`: behind `httpServer.Shutdown` the server is stopped
and drained, or it timed out; only main stops it; the store is closed at the very
end. From it `StoreClosedAfterHandlers`.

**DashboardProofs.** A behaviour of Dashboard is one of EventPages or of History; each
half has its own invariant.
- `PagesInv`: the events are numbered without a gap, the list shows exactly those from
  the cursor up to some id, once each, and an answer on its way is the page in front of the
  cursor, which does not move while a request is under way. `EventsListedOnce` and
  `EventsWithoutHoles` follow for any page size. The lemma `PageInterval` says what the
  two statements of QueryVoltageEvents answer.
- `ReferenceInv`: between SampleAt and QueryRawSamples, what is left of the samples
  up to the time of the request reaches the reference, because pruning takes the oldest
  first and what is inserted is younger than the request. `TodayNotNegative` follows.
- `AnswerSpansEvenly` is about one step, the answer of QuerySamples. The lemmas before
  it count: as many samples as the place says are earlier than a sample in `Ascending`
  (`Ranks`, by the pigeonhole principle, and `AscendingIs`); what lies between two
  samples is the difference of these numbers (`Gaps`); the places that `downsample`
  picks lie `step` apart and reach from the first to less than `step` before the end
  (`Thinned`). `GraphInv` adds that there is no answer before it is given.

**MigrationProofs.** `StorageInv` holds whatever fails: what the first Exec has to make
is there behind it. `RepairInv` adds that, as long as nothing has failed since this start,
every ALTER that the program has passed has its column; the two give `OpenedCanStore`. `VersionInv` holds as long as no statement has
failed: the version is what it was when migrate began or what it has been raised to
(`Raised`), each part up to the program's place is in its new form, an old form exists
only in a database without a version. From it `VersionTruthful` and `CursorNeverReset`: the
cursor table is dropped only where there was no version, hence no cursor. The
lemmas before it compute `Program` statement by statement and what `Following` leads to.

**ToolProofs**, about `FairSpec` (only its safety part is used).
- `ReadingInv`: the readings gathered so far are whole blocks of true values (`Real`: what
  the calculator makes of all the registers the device serves), no block that is served
  is missing unless a transaction failed, and a length that was refused says how
  short the device's meter block is (`Refused`). A shorter read gives the same values because
  it is as long as what the device serves. `OneSensorAsAmongAll` and `BlocksWhole`
  follow.
- `ToolInv`: what is printed and what is left are together the names asked for (`Shared`), and
  main leaves the polling loop only towards its deferred Close. `PrintedInv`: what has been
  printed without an error is what the calculator makes of the block as the device
  serves it, whichever fallback read it. `ZeroMeansAllPrinted` and `PollingCloses` follow.

What a reader makes of its registers is left closed in these proofs, except that it
is a number or a set of codes: both paths call the same calculator. It is opened in
- `ComputedSensorsAgree`: what GetSensors returns are `Real` values, and with an error
  nothing (`NothingOnError`). That sums, directions and labels agree then follows
  from the rows of the registry (`Rows`). That the bits of a value of two registers are
  the bits of the one and of the other (`Bits`) is arithmetic: powers multiply
  as exponents add (`PowerSum`, counting subsets again), and a multiple of the divisor
  adds to the quotient (`Quotient`).

Only model-checked is liveness (`CallsReturn`, `ToolEnds`, `CancelStopsRun`,
`PollingResumes`, `SignalEndsProcess`, `ServerErrorStopsWorkers`): fairness and
ENABLED are out of the prover's reach. The safety properties of the passing runs are
all theorems; what a theorem assumes of the constants, and the runs with other
constants, is said above.

## 6. Not modelled

- Byte layouts and checksums of frames (parse functions beyond accept, reject,
  exception); timestampReader, floatReader and decodeGoodweString, which are
  conversions the properties do not depend on; sensors beyond one of each kind.
- Values of samples beyond a counter: averages, PurgeBefore, and which samples
  PurgeBadSamples deletes (Daemon leaves that open). The
  hazards that depend on them are listed with a note.
- QueryAggregatedSamples and LastSampleTime, single SELECTs whose answer is passed
  on; the health and info endpoints, reads of the daemon's fields (`StatesAgree`
  says what they find).
- Ping, `-listsensors`, `-version`, flag and DSN parsing, Vacuum, and everything the
  dashboard draws: graphs that are refreshed while an earlier refresh is under way,
  and the status section when one of its requests is refused, are in the list of
  hazards with a note.

## 7. Plan

Order of the modules, the most important behaviour first: Transport and its
proofs, Daemon and its proofs, VoltageAnalysis, Aggregation, Shutdown, EventPages,
Migration, RegisterService as what Transport implements, Registry with Inverter and
Tool, History with Dashboard: done. To come:

1. Proofs: done for the modules there are. New modules bring theirs.
2. Frames: the request and response formats of both transports and CRC16, as
   operators against reference definitions.
3. Composition of Daemon, VoltageAnalysis and Shutdown: a cancel in the middle of a
   poll and of the analysis behind it.
4. The graphs of the dashboard: overlapping refreshes of one graph.
