# skit-x in TLA+

A verification development for skit-x, a Go service that keeps widgets,
products and users in Postgres and carries one event, `widget.created`, through
a transactional outbox, RabbitMQ and a deduplicating consumer into a
partitioned log, behind REST routes with idempotency keys, in processes that
are composed from options. The TLA+ modules are translated from the source; TLC checks
them on small instances, TLAPS proves the safety properties for every instance.

## 1. Inventory

| Component | State | Operations | Interacts with | What is hard |
|---|---|---|---|---|
| Widget core (`core/widget`, `widgetdb`, `api/widget`, `widgetgrpc`) | `widgets` table; per request the row it is about to write | Create, Update, Delete, Query, QueryByCursor, Count | store, queue (in its transaction), settings, in-process bus | names held by open transactions, lost updates, commits without an answer, reruns after a deadlock |
| Widget settings (`settings.go`, `deps/widget.go`, `WithSettings`) | stored document; a copy per replica | Save, periodic reread, read at start | every write and import | a pause against requests in flight, replicas that lag or restart |
| Queue of events and its workers (`deps/store.go`, `deps/broker.go`, `initWorkers`) | tasks | schedule, claim, publish, complete, retry | core, broker | at least once: crash or lost lease between publish and complete |
| Consumers (`initConsumers`, `idempotency.Handler`, `widgetaudit`) | unacked messages, idempotency keys | deliver, take key, record, save key, ack or requeue | broker, key store, `widget_event_log` | redelivery, leases, failing key store |
| Partitions of `widget_event_log` (`widgetaudit.Partitions`) | months with a partition | Maintain | the Recorder's insert | events of a month without a partition, drops past the retention |
| Widget import (`core/widgetimport`, `BulkInsert`) | import tasks | Schedule, Handle | queue, settings, `widgets` | replay over renames and deletes, one bad name fails the batch |
| HTTP idempotency (`internal/app/idempotency`) and products | keys with leases and stored responses; `products` | POST once per key; product CRUD | key store | retry while the first runs, after a failure, after a lapse; two callers with one header |
| Users (`core/user`) | `users` | CRUD, unique email | none | an email taken between the read and the write of an update, races of updates and deletes |
| Listing (`Query`, `QueryByCursor`, `Count` of three stores) | the client's cursor | page, count | writes in between | repeats and gaps, total against items |
| Count poller (`initWidgetCount`) | cached count | poll, read | the workers of its process | staleness, processes without a poller |
| Webhook (`core/widgetwebhook`) | none | deliver | bus | attempts under one deadline |
| Audit log (`deps/auditlog.go`) | versioned snapshots (library) | publish, record | bus | ordering, missing mutations |
| Process composition (`server.New`, options, `internal/cmd`, `deps`) | servers, workers, consumers, cleanups | add option, run, close | all | partial initialization, LIFO release |
| Transports, routes, translations, telemetry, migrations, generated code | none, or the library's | – | – | not modelled, see section 7 |

`PROJECT.json` lists the same components with their sources and every hazard at
its line.

### What makes each component correct

* **Widget core**: unique names; one event per committed widget and none
  without; a definite answer is true; side effects never run ahead of the
  commit and leave out a request whose client heard an error; a deleted widget
  stays deleted; only a raced update undoes a field it
  was not given; a pause holds; every request ends.
* **Pipeline**: an event that reaches a queue is recorded at most once, is never
  lost, is recorded in the end unless its month is over without a partition; a
  key says "handled" only for what was handled.
* **Import**: a completed batch was inserted, whole; a replay does no harm but to
  rows that were deleted in between; only the holder of its lease settles a batch,
  and it settles.
* **Idempotency and products**: a key makes one product, one more per fault; a
  replay is a success of its own caller's key; a refusal left nothing behind.
* **Users**: unique emails; every definite answer was true at one moment of its
  request; only a raced update undoes a field it was not given.
* **Listing**: a scan repeats no row, skips none that stayed, and gets on by a
  full page with every token.
* **Composition**: what was opened is closed, once, in reverse order, and not
  under its users; a start or a shutdown ends; the count follows the table.

## 2. Plan

Order of work, the most important behaviour first. Done: 1 to 10.

1. `WidgetRegistry` (contract of the Core) and `WidgetCore` implementing it;
   proofs in `WidgetCoreProofs`.
2. `EventLog` (promise of the pipeline) and `EventPipeline` implementing it;
   proofs in `EventPipelineProofs`.
3. `Listing`: keyset scans of the three stores under concurrent writes, and
   the offset pages with their total; proofs in `ListingProofs`.
4. `WidgetImport`: the queue of imports over the `widgets` table, replays,
   leases and settling; proofs in `WidgetImportProofs`.
5. `ProductCatalog` (what the product routes promise) and `Products` implementing
   it: POST once per Idempotency-Key over the leases of the Keeper, PUT and DELETE
   beside it; proofs in `ProductsProofs`.
6. `UserDirectory` (contract of the user store) and `Users` implementing it;
   proofs in `UsersProofs`.
7. `Process`: commands, options, initializers, cleanups, shutdown, and the
   poller of the count; proofs in `ProcessProofs`.
8. Theorems for 5 to 7: each safety property their runs check.
9. The answers of the three request models as refinements: `WidgetRegistry`,
   `ProductCatalog` and `UserDirectory` say what a client is told and when it was
   true.
10. Ranks: the safety half of the liveness properties, that a request, an import,
   a start and a shutdown have boundedly many steps.

Left: a rank for the pipeline; the attempts of one webhook delivery under their
deadline; the order of audit snapshots; the import composed with the requests of
`WidgetCore`.

## 3. Modules

| Module | Models | Source |
|---|---|---|
| `WidgetRegistry` | widgets with unique names, each request effective at most once, an announcement in the same step as its widget, answers that were true at one moment of their request | contract `widget.Store`, `core/widget` |
| `WidgetCore` | concurrent Create, Update, Delete on several replicas | `core/widget/widget.go`, `settings.go`, `widgetdb/widgetdb.go`, `deps/widget.go`, `deps/store.go` |
| `MCWidgetCore` | symmetry for TLC | |
| `WidgetCoreProofs` | theorems | |
| `EventLog` | an event is none, pending, recorded, expired, in this order | comments and schema of `widget_event_log` |
| `EventPipeline` | tasks, broker, consumers, keys, table and keeper | `server.go`, `broker.go`, `idempotency.go`, `widgetaudit.go` |
| `MCEventPipeline` | symmetry for TLC | |
| `EventPipelineProofs` | theorems | |
| `Listing` | keyset scans and offset pages under concurrent writes | `widgetdb.go`, `productdb.go`, `userdb.go` and the `query` handlers of `api/` |
| `ListingProofs` | theorems | |
| `WidgetImport` | import tasks, their workers and the table the API writes too | `core/widgetimport`, `BulkInsert`, `api/widget` |
| `WidgetImportProofs` | theorems | |
| `ProductCatalog` | products, one per key and fault, with answers that were true at one moment of their request | `idempotency.go`, `core/product`, `api/product` |
| `Products` | the product routes under the idempotency middleware, several callers and keys | `idempotency.go`, `core/product`, `productdb.go`, `api/product` |
| `MCProducts` | symmetry for TLC | |
| `ProductsProofs` | theorems | |
| `UserDirectory` | users with unique emails, answers that were true at one moment of their request | contract `user.Store`, `core/user` |
| `Users` | the user routes, statement by statement | `core/user`, `userdb.go`, `api/user` |
| `MCUsers` | symmetry for TLC | |
| `UsersProofs` | theorems | |
| `Process` | the life of one process and its count poller | `server.go`, `options.go`, `routes.go`, `deps/`, `cmd/`, `config/opts.go` |
| `MCProcess` | the configurations TLC starts | |
| `ProcessProofs` | theorems | |

A definition whose comment starts with "Mutant" is a plausible bug of the
definition that follows it, no part of the model; `PROJECT.json` says which
property it breaks.

### WidgetCore

A request is a process with a program counter (`phase`), the local variable `w`
of its handler and its answer. A step is one statement, one commit or one call
on the bus; other requests interleave everywhere else.

* `Accept` / `Refuse`: the settings check at the top of Create, Update, Delete.
* `InsertRow`, `ScheduleEvent`, `Commit`: the closure of `Core.insert`. From
  the insert to the commit the name is held (`Held`): another insert or rename
  to it waits, as on a unique index of Postgres; a name in the table fails it
  (`InsertDuplicate`). `Rerun` is the closure starting again after a deadlock;
  `CommitUnknown` a commit whose answer is lost.
* `Notify`, `PublishAudit`: `created.Inc`, the bus, the audit snapshot.
* `ReadRow`, `WriteRow`: the two statements of Update, with the merge of
  `UpdateWidget` between them. `WriteDuplicate`: a rename to a taken name is an
  Internal error, for Update maps only `ErrNotFound`.
* `RemoveRow`: the one statement of Delete. `Missing`: no row, NotFound.
* `StoreFails`, `WriteUnknown`, `RemoveUnknown`: errors without and with effect.
* `Proceed` collects the steps of a handler whose calls succeed, `Falter` the
  failures and reruns; `Handle` is either.
* `Crash`, `Boot`, `SaveSettings`, `Reread`: the life of a replica and its copy
  of the settings.

`applied` and `raced` are history variables: the requests whose write took effect,
and the updates whose row was written by another after they read it.

`WidgetRegistry` has no phases: a request is made (`Ask`), takes effect in one step
at most (`Add`, `Change`, `Remove`), and is answered in that step, in a later one
(`Confirm`), or with a refusal that is true in its step (`Miss`, `Collide`); a
client may be left in doubt (`Lose`, or an effect that is told as "unknown"). Its
`call` and `rows` are those of `WidgetCore`, its `done` is `applied`, its
`announced` is `outbox`, and its `answer` is `Heard`: what the client can
conclude from the reply, by `Understood`. A 500 or a broken connection says
nothing, whatever happened; a create is a success for its client from the end of
its handler, so the steps after a commit are stutters.

Abstracted: identifiers are those of the creating request (`uuid.New` does not
repeat), timestamps and validation are left out, the in-process bus is one
step. The widgets of an import are not in this module: a queued import writes
during a pause, as its comment says.

### EventPipeline

* `Schedule`, `Claim`, `Publish`, `Complete`, `Retry`: a task from the commit
  of its widget to its completion. `Retry` after `Publish` publishes again.
* `Deliver`, then `TakeKey`, `AckRepeat` or `NoKey`: `dedup.Keeper.Do` around the
  handler; `Record`, `Discard`, `RecordFails`: the Recorder; `SaveKey`, `SaveFails`:
  the end of `Do`. Each call of the Keeper may take effect although its answer is
  lost: `NoKey` may leave the key leased, `SaveFails` done. `DiscardNoId`: a message
  without an id goes straight to the Recorder.
* `ConsumerCrash`: a broken connection, the broker redelivers.
* `KeyLapses`: a lease runs out, a TTL ends, the memory of the keys is gone.
* `Maintain`, `NextMonth`: the keeper and the calendar.

* `Declare`, `Route`: the first consumer declares the queue and binds it; what the
  exchange gets before goes nowhere, and the task completes all the same. The
  end-to-end test of the repository waits for the declaration; a process of the
  `worker` command does not.

`expired` and `unrouted` are history variables: rows that went with a dropped
partition, events whose message went nowhere.

### Listing

One module for the three stores, whose `QueryByCursor`, `Query` and `Count`
differ in their columns only.

* `Insert`, `Alter`, `Remove`: a row appears with any `created_at` (the clock is
  read before the commit), moves in or out of the filter, goes.
* `OpenScan`, `FullPage`, `LastPage`: the pages of one client that follows the
  token. `Found` are the rows past the boundary `after`; more than `Limit` of
  them make a full page and a token, the key of its last row.
* `QueryPage`, `QueryTotal`: `Query` and `Count` of an offset listing, two
  statements.

`steady` and `calm` are history variables: the rows that matched the filter from
the first page on, and whether no row was written between a page and its total.
`Visited` are the rows that some page of the scan showed. A row is reduced to its
key and to whether it matches; what a page shows in which order is a matter of its
key.

### WidgetImport

* `Schedule`: `Importer.Schedule` with its settings checks; the identifiers of
  a batch are `<<task, row>>`, fixed here as in the code.
* `Claim`, `InsertRows`, `Complete`, `Fail`: one run of `Importer.Handle`.
  `BulkInsert` sends `Statement` rows per statement; a statement skips the
  identifiers that are there and fails as a whole on a taken name.
* `Lapse`: the lease ends under a worker that goes on, whose outcome no longer
  counts but whose inserts do; `Crash`. Either may take the last run of a task,
  which the queue then gives up (`GiveUp`).
* `Create`, `Rename`, `Delete`, `SaveSettings`: the API over the same table, one
  step each. The interleavings inside those calls are in `WidgetCore`.

`inserted`, `renamed` and `deleted` are history variables: how often a row was
inserted and its widget deleted, and what the API renamed. Assumed of the library: a failed
task is retried and dead-lettered after `MaxRuns` runs, a run counts from its
claim, a task whose last run was lost is given up in the end, the dedup key counts
while its task is queued, and the outcome of a lost lease is ignored. How many
rows the library puts into a statement is open: the properties that hold for
any `Statement` are proved so, `Whole` speaks of batches that fit one.

### Products

* `Arrive`: a call of any of the three routes. Only a POST with the header is
  `Keyed` and goes to `claim`; `httpKey` is its route, owner and header.
* `TakeKey`, `Replay`, `InProgress`, `NoKeeper`, `ClaimUnknown`: the Keeper's `Do`
  before the handler, with the mapping of its errors by `HTTP`: the stored response,
  409, 503 or 500. `ClaimUnknown` is a 503 for a claim that the store took: its
  key stays leased with no handler running, and retries hear 409 until it lapses.
* `Reject`, `Insert`, `InsertUnknown`, `InsertFails`: the handler and
  `Core.Create`. Without a key the response is the answer; with one it is `live`
  in `Do`, and `Save`, `SaveFails`, `FreeKey`, `FreeFails` end it. An error is not
  `Recorded` and frees its key; a handler that ran answers even if the Keeper
  then fails.
* `KeyLapses`: the lease ran out, the record is past its TTL, the memory of a
  `mem://` store is gone.
* `ReadRow`, `Change`, `Missing`, `RejectUpdate`, `StoreFails`: PUT as read, merge
  and write, and DELETE.
* `Crash`: a replica ends under any set of its requests; leases stay.

`ProductCatalog` has neither leases nor stored responses: `Make` is bounded by the
faults of its key (`slack`), `Repeat` answers a create with a product that was made
under its key, and the other answers are as in the two other contracts. A step may
come with a fault (`Fail`). `Products` implements it with `Heard` for the answers
and `Born` for the identifiers ever used.

`applied` and `faults` are history variables. `faults` counts, per key, the events
after which the code runs a handler again although it made a product, the account of
`OncePerKey`. `BusyIsBusy` says what a 409 without such an event means: one handler
runs, or a claim was cut off (`CutOff`) by a crash or by an answer the store lost.
The Keeper and its leases are a library; what it does with the outcome of a request
that lost its lease is left open (both disjuncts of `Save` and `FreeKey`).

### Users

* `Insert`, `QueryByID`, `ReadRow`, `Overwrite`, `Erase`: the statements of the
  store, each one transaction; an update is `ReadRow`, `Merged` and `Overwrite`.
  `Write` is what each write does to the history, `Acknowledge` its answer or the
  loss of it.
* `Duplicate`, `Missing`, `StoreFails`, `Reject`: the mapping of `writeErr`,
  `notFound` and the handlers. `Crash`: the end of a replica.

`applied` and `raced` are history variables; `raced` are the updates whose row was
written after they read it. `UserDirectory` has no phases: an answer comes in the
step in which it is true, or is unknown. `Users` implements it with the answers a
client can rely on (`Heard`).

### Process

One process, from its command line to its exit. `steps` is the list of the
twelve initializers of `deps.Initializers` and the options of the command; `pc` is
the next of them.

* `Launch`: `Validate` refuses production without TLS, or the start begins.
* `Wire`, `WireResource`, `InitEager`, `Dial`, `NewPublisher`, `InitAuditLog`: the
  initializers, by what they do: nothing but setting providers, a cleanup for a
  resource that opens on first use, a resource that opens at once, the two
  halves of the broker, and the audit log, which builds the bus and the store.
  `InitFails` with `Abort`: any of them that can fail does; the broker closes the
  connection it dialled.
* `Skip`, `Mount`, `Refuse`, `Die`: an option that is off, one that builds its
  providers (`Closure` of `Roots`: a provider builds those it calls), one that
  returns an error after building some, and a provider that cannot be built.
* `Run`, `Stop`, `StopPart`, `Release`: `app.Run`, the parts going down, and the end
  of the wait, by success or timeout (`late`).
* `ClosePublisher`, `CloseLast`, `Exit`: the cleanups, last in first out.
* `Write`, `PollRead`, `PollStore`: other processes change the table; the poller
  reads it and stores what it read.

The closer, the container and the supervisor are libraries. Whether `app.InitDeps`
releases what was opened when an initializer fails is left open; `NothingLeaks`
shows that a cleanup is there for all of it. `seen` is a history variable.
`process_count` violates `CountRefreshed`, the same promise as `CountCatchesUp` but
for the processes that serve the count.

## 4. Runs

All runs set `CHECK_DEADLOCK FALSE`: a system whose requests are all answered,
whose events are all recorded in the last month of the calendar, whose listing
was answered, whose batches have settled during a pause, or whose process has
exited, stops.

| Run | Instance | Shows |
|---|---|---|
| `core_races` | 3 requests, 1 replica, 2 names, faults, 1 rerun | names stay unique; table and answers keep the contract, so a request takes effect at most once, deleted widgets stay deleted and every definite answer was true at one moment of its request; only a raced update undoes a field |
| `core_replicas` | 2 requests, 2 replicas, 2 names, faults, 1 rerun | events are atomic with widgets, effects follow commits and leave out requests that were answered with an error, a pause holds over restarts; every request ends, also when it waits for a name and nothing fails |
| `core_lost_update` | 3 requests, no faults | violation: an update undoes a field it was not given |
| `import_batches` | 1 batch of up to 3 rows, 2 per statement, 2 workers, 2 runs, 1 API widget, 2 names | completed is inserted, one insert per run and one more per deletion only, renames stand, batches of one statement are whole, leases are right and only their holder settles a task; a queued batch settles, also when its last run is lost |
| `import_revival` | 1 batch, 1 worker, 2 runs | violation: a replay brings a deleted widget back |
| `listing_scan` | 4 rows, 2 times, keyset pages of 2, the first two offset pages of 2 | a scan is newest first, repeats and skips nothing and shows a full page of new rows with every token; a total fits its page unless a write came in between |
| `pipeline_safety` | 2 events, 2 consumers, retention 1, months 0..2, 2 copies | recorded at most once, lost only to an exchange without a queue, the log keeps its promise |
| `pipeline_live` | 1 event, 2 consumers, retention 1, months 0..2, 2 copies | every event is recorded, but for one published before its queue and one whose month is over without a partition |
| `products_retries` | 3 requests, 2 callers, 1 header, 1 name, 1 price, 2 faults per key | one product per key and fault, replays are the caller's own, a 409 has a reason, which may be a claim that was cut off; table and answers keep the contract, so deleted products stay deleted and every definite answer was true at one moment of its request |
| `users_races` | 3 requests, 2 emails, 2 names, failing store, crashes | the contract is kept: emails unique, every definite answer true at one moment of its request; only races undo a field |
| `process_lifecycle` | 4 commands, 15 configurations, a table of up to 1 widget, 2 writes | nothing is closed under its users, nothing leaks, only the API builds the API; starts and shutdowns end; the count follows the table |
| `process_count` | the same | violation: a process that serves the count and has no poller |

Bounds. Three requests are the least for a create, a rename and a delete of the same
name to interleave; two replicas for one to lag behind the other. `MaxReruns` bounds
the reruns of one transaction (the library limits them as well). Two consumers and
two copies are the least for one message to be handled twice at a time; three months
for a partition to be made, filled and dropped. Four rows of two times are the least
for a page boundary to fall between rows of one time and for a row to be inserted on
each side of it. Two workers and two runs are the least for a lapsed lease to leave
two of them on one task; three rows, two per statement, for one batch to fit a
statement and another to be cut in the middle, and two names for a longer batch to
name a row twice. `MaxRuns` is the limit of the queue; the last run may lapse or
crash as well. `MaxPage` bounds the offset pages; keyset pages need no bound, each
takes a row. `MaxCopies` bounds the copies of a message in the broker, `MaxMonth`
the calendar. Three requests are also the least for a product to be made, retried
and changed under the retry, and for a third user to take the email that an update
read as free; two faults let all three requests make a product under one key. The
configurations of `MCProcess` switch the broker together with authentication, the
workers, and four sets of servers (none, the debug routes, a gateway without its
gRPC server, all): the options test each switch by itself, so the pairs left out
meet no other code, and the proofs cover all of them. A table of one widget and two
writes let the count change under a poll and change back. The symmetry of the runs
without liveness exchanges model values that no definition tells apart.

Fairness. `WidgetCore!FairSpec`: a handler is a goroutine that keeps running and
each of its calls returns unless it waits for a lock (weak fairness of `Proceed`); a
failure or a rerun may happen at every step and is never owed, so no request can
count on one to end. `EventPipeline!FairSpec`: the loops of the workers, the
consumers and the keeper keep running, a consumer connects, and the lease of a key
in progress lapses in the end (weak fairness), and a call that is possible again and
again is not refused for ever (strong fairness of publishing, completing,
delivering, taking a key, recording and saving the key). Without the latter a broker
or a database that is down for ever refutes liveness of any service.
`WidgetImport!FairSpec`: each handler returns and a waiting task is claimed by a
free worker, or given up by the queue after its last run was lost; no success is
assumed. `Process!Fairness`: the start is one goroutine that goes on, and so is the
shutdown, whose timeout makes `Release` possible whether parts stop or not (weak
fairness of `Start` and `Shutdown`); the poller is a ticker whose reads succeed in
the end (weak fairness of `PollRead` and `PollStore`). Nothing is assumed of `Stop`,
`StopPart` or `Write`.

## 5. Proofs

All proofs are for arbitrary constants under `CoreAssumption`,
`PipelineAssumption`, `ListingAssumption`, `ImportAssumption`, `ProductsAssumption`,
`UsersAssumption` and `ProcessAssumption`, which TLC evaluates in the runs. They say
that the markers (no row, no call, nil) are no values of the data, that counted
sets are finite, and that bounds are numbers. Every `IInv` was checked by TLC before
it was proved.

**WidgetCore.** `IInv` adds two things to the properties. `RequestInv` says what
a request in each phase has done and holds: before the commit its write did not
take effect and it is a create with a row; at "commit" exactly one task is
pending if the broker is on. `NameLocks` says that a name held by an open
transaction is nobody else's; without it a commit could break `NamesUnique`.
One lemma per conjunct shows that each action preserves it; `Invariance`
combines them. An answer of "internal" is given only in phases in which the write
had not taken effect, so such a request is in no effect: the second half of
`EffectsFollowCommit`. `MergeInv` says that an update that nobody raced still holds the
merge of its call with the row as it is: `OnlyRacesUndoChanges` follows at its write.

`CoreImplementsRegistry` maps each step to a step of `WidgetRegistry` or a stutter.
`Waiting`, `Telling` and `Meaning` say how a reply of the code changes `Heard`, and
`Losing` what a crash does to a set of them; one lemma per kind of step
(`ArriveRefines`, `CommitRefines`, `WriteRefines`, `RemoveRefines`, `AnswerRefines`,
`CrashRefines`) names the step of the contract it is, and `RegistryStep` collects
them. `RequestInv` carries what this needs: a create at its commit holds the row
of its call, an update at its write holds a row that `Carries` the given fields.
`DeletedIsGone` is then read off the contract, whose only step that makes a row is
`Add`, once per identifier. `PauseIsKept` is an action property of the same
invariant.

`HandlersRunDown` gives each request a rank, its phases still to come plus three
for each rerun it may still have: each of its own steps lowers it and nobody
else's changes it. With the fairness of a handler and the fact that a held name
is given up, this is why `Answered` holds.

**EventPipeline.** `EventInv` relates what the broker holds, the rows and the
partitions: rows lie in existing partitions, an expired row's month has none
and, being past the retention, gets none back. This is why a late redelivery
cannot record an expired event again: `Maintain` makes partitions of the current
and the next month only. `MaintainStep` states the keeper event by event,
`LogStep` the refinement of `EventLog`.

**Listing.** `ScanInv` says that what was served lies up to the boundary of the
open scan and that a steady row not served yet lies past it. The order on keys
is total and transitive (`Order`), so the next page is past everything served:
`NewestFirst`; at the last page nothing steady is left: `NoGap`. Served rows being
behind the boundary, a page adds as many rows as it shows: `ScanProgresses` counts
them, and `ScanIsBounded` concludes that pages with a token times `Limit` are at
most the rows there can be, which bounds a scan under any writes. `PageInv` says that
a page is one of the rows that match until a row is written: `TotalFits`.

**WidgetImport.** `RunsInv` is an account: the inserts of a row and the runs that
still owe it are at most the runs of its task; a claim adds a run that owes, an
insertion moves one from owing to inserted. `WorkerInv` says that what a worker has
sent was inserted, which gives `DoneIsImported` when nothing is left to send, and
that with large statements a worker has sent nothing or all, which gives `Whole`.
`RowInv` is an exact account of a row: its inserts are its deletions, and one more
while it is in the table. `RevivalNeedsDeletion` follows: a replay brings back what
the API deleted and nothing else. `NoSecondBatch` proves `OneQueuedPerKey`, that a
key names one queued task; it needs from `IInv` only that a lease belongs to a
queued task. No run checks it: two tasks take a larger instance than
`import_batches`. `LeasesDecide` says who settles a task: `Report` counts the
outcome of the holder only, and `GiveUp` waits for a task that nobody holds.
`ImportsRunDown` is the safety half of `Settles`: a claim, a failure, a lapse and a
crash each lower the rank of a queued task (`TaskNearer`), on its last run too, and
a run has boundedly many statements that nothing else adds to (`RunNearer`).

**Products.** `KeyInv` is an account again. A key has `Spent` the requests that made
a product under it or still may; those whose insert nobody answered are counted once
more until they free their key (`Unanswered`), for their fault was counted when it
happened and is used only when the next request takes the key. Spent and unanswered
together are at most the faults, and one more while the key is not `Open`. Taking an
open key spends one; each way to open a key, or to leave a second run in it, either
has a fault of its own or gives back what was spent without a product. `OncePerKey`
drops the terms. `RecordInv` says what the handler left in `live`, which is what a
key stores: `ReplaysFaithful`. A handler that runs for a key without a fault holds
its lease (`BusyKeysAreBusy`); a claim whose answer was lost leaves a lease and no
handler, which is the other case of that theorem. Together they give
`RetriesHearOfOneProduct`: while a key has had no fault, all who are told of a
creation under it hear of the same product.

`ProductsImplementCatalog` is proved like the refinement of the Core (`Making`,
`Recording`, `Altering`, then `CreateRefines`, `AlterRefines`, `ArriveRefines`). Its
`Make` needs the account: when a request inserts, `KeyInv` leaves room for one more
product under its key. Its `Repeat` needs `ReplaysFaithful`. A `Fault` of the code
is the `Fail` of the contract in the same step.

**Users.** `MergeInv`: an update that nobody raced still holds the merge of its call
with the row as it is. `OnlyRacesUndo` follows at its write. `UsersImplementDirectory`
maps each step to a step of `UserDirectory`, one lemma per action; a crash maps to
`Lose`. `EmailsUnique` and `ReplyTruthful` follow from the contract; they are proved by
themselves and no run repeats them.

**Process.** `StageInv` is the order of the initializers: at each `pc` of a start,
what is open by then (`OpenedSoFar`) and which cleanups are registered
(`RegisteredSoFar`), with one exception, the connection between `Dial` and
`NewPublisher`. Every part of a mounted option therefore has its `Needs` open, and
keeps them until the closer runs, which happens after the parts are down or `late`.
`CloserInv` puts the telemetry first in the list and so last to close. Coverage by
cleanups is an invariant of every later stage: with an empty list nothing is open
(`NothingLeaks`). `StartsAndShutdownsRunDown` ranks a process by the steps or
cleanups that are left: each step of a start or of a shutdown lowers the rank or
goes to a later stage, which is why `Settles` holds. `CachedWasTrue` is proved and
not run: `CountCatchesUp` says more.

## 6. What the source says otherwise

Shown by runs:

1. `core/widget/model.go:41-42`, "Nil fields are left unchanged": Update reads,
   merges and writes the whole row without a transaction, so two concurrent
   updates of different fields lose one (`core_lost_update`). Products and users
   update the same way; `OnlyRacesUndo` says for widgets and for users that such a
   race is the only way to lose a field.
2. `core/widgetimport/widgetimport.go:11-12`, `ON CONFLICT DO NOTHING` is there
   "to make replays harmless": it skips the identifiers that are in the table
   now, so a replay brings back a widget deleted in between (`import_revival`).
3. `api/widget/widget.go:247-248`, the count "is refreshed in the background by a
   poller": the `http` command serves it without the workers that hold the poller
   (`process_count`).

Seen while modelling, with no run of their own:

* `deps/auditlog.go:14-18`, an audit event "on each mutation": Delete publishes
  none (`Erase` and `RemoveRow` of `WidgetCore` touch no audit).
* `core/widgetaudit/widgetaudit.go:15-16`, an event of a month without a
  partition "is requeued until its partition is made": the keeper makes the
  current and the next month only, so after a month without the keeper the
  event is requeued for ever. `EveryEventRecorded` excepts such events (`Stranded`)
  and no others.
* `api/product/product.go:68-69`, "the total matches the filtered set": page and
  total are two statements, and a write in between makes them disagree.
  `TotalFits` is what does hold.
* `api/widget/model.go:74-75`, "re-posting the same name is a no-op": the name is a
  dedup key, free again once the task left the queue. `NoSecondBatch` is what does
  hold.
* `internal/app/server/routes.go:34-36`, "Only processes whose server lists Install
  resolve the handlers, the translators and the cores behind them": the workers
  (`WidgetCount`) and the gRPC server (`WidgetGRPC`) build the core of the widgets
  too (`Roots`, `UsesOfWidgets`). `InstallOnly` is about the rest.
* `internal/app/idempotency/idempotency.go:43-45`, "a retry while the first request
  runs gets 409": it gets one as well after a claim that was cut off, with nobody
  in progress, until the lease lapses (`ClaimUnknown`, `BusyIsBusy`).

## 7. Not proved, not modelled

Liveness (`Answered`, `EveryEventRecorded`, the `Settles` of imports and of
processes, `CountCatchesUp`) is model-checked only: fairness is out of reach of the
prover. Where a bounded number of steps is the reason, that half is proved
(`HandlersRunDown`, `ImportsRunDown`, `StartsAndShutdownsRunDown`). Everything else
the passing runs check is proved as well.

No property says that a queued import is written during a pause: `Handle` reads no
settings, in the code and in the model, but a run may fail at any time, and a
refusal would look like a failure.

Not modelled:

* gRPC and gateway handlers: they decode, call the operations of `WidgetCore` and
  encode. That they are mounted, and what they build, is in `Process`.
* Request-scoped middleware (locale, actor, access log): no state. Authorization
  is out of scope.
* Translations: one upsert of a library table that nothing else reads or writes.
* Attempts and deadlines of one webhook delivery: the retries are those of the
  library's transport; `WidgetCore` has one delivery that succeeds or fails.
* The order of audit snapshots: the library numbers them.
* Telemetry exporters, durations and defaults; the one-shot commands `migrate` and
  `count`; generated code and documents.
