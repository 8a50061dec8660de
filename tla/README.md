# A TLA+ development of ASql

ASql is an asynchronous SQL library for Qt: C++20 coroutines wait for
connections, queries and cached results. This directory holds TLA+ models of its
concurrent core, the TLC runs that check them, and proofs checked by TLAPS.
`PROJECT.json` ties every definition to the lines it models; paths below are
relative to the repository.

## 1. The system

| Component | Source | State it keeps | Operations | Modules |
|---|---|---|---|---|
| `APool` | `src/apool.cpp` | per thread and name: idle drivers, queue of callers, counter, limits, hooks | `create`, `remove`, `database`, `pushDatabaseBack` (the deleter of every lease), setters; `PoolOpenDelivery` for an open under way; `exec`, `execMulti`, `begin` | `APool`, `APoolExec`, `ATransaction` |
| Coroutine awaitables | `src/acoroexpected.h`, `src/asql_coro_delivery.h` | status, handle and results of one wait | deliver, await, put-off resume, destruction by receiver, by `co_yield` guard, by scope | `ACoroExpected` |
| `ACache` | `src/acache.cpp` | entries per query and arguments: receivers or result and time | `exec`, `execExpiring`, `requestData`, `failRequest`, `clear`, `expire`, `expireAll` | `ACache` |
| `ADriverPg` | `src/adriverpg.cpp`, `.h` | connection state, open waiters, query queue, `m_queryRunning`, pipeline state, prepared statements, subscriptions, `selfDriver` | `open`, `exec`, socket handlers, `nextQuery`, `finishConnection`, pipeline calls, `subscribeToNotification` | `ADriverPg`, `ADriverPgPipeline`, `ADriverPgNotifications` |
| Threaded drivers | `src/ADriverSqlite.cpp`, `src/adrivermysql.cpp`, `src/ADriverOdbc.cpp` | worker thread, queue of results under a mutex, `m_queueSize`, `selfDriver`; in the worker, statements and the connection | `open`, `exec`, the worker's slots, `queryReady`, the destructors | `ADriverThreaded`, `AStatements` |
| `ATransaction` | `src/atransaction.cpp` | shared `running` flag and connection | `begin`, `commit`, `rollback`, copies, rollback in the destructor | `ATransaction` |
| `AMigrations` and its tool | `src/amigrations.cpp`, `src/asql_migration.cpp` | migrations read from a file, version read from the database | `load`, `target`, `migrate`, `sqlListFor` | `AMigrations` |
| `ADatabase` | `src/adatabase.cpp` | a `shared_ptr` to a driver | forwards to the driver; `coOpen`, `begin` | inside `ADriverPg`, `ATransaction`, `ADriverPgNotifications` |
| Driver base, factories, `APreparedQuery`, `AResult` | `src/adriver.cpp`, ... | nothing that changes concurrently | constructors, conversions | none |

How they interact. Everything but the worker threads of the threaded drivers
runs on the thread of an event loop. A pool keeps raw `ADriver*`; each lease
wraps one in a fresh `shared_ptr` whose deleter is `APool::pushDatabaseBack`, so
that giving back is a side effect of the last copy of an `ADatabase` going out
of scope, which may be in a caller, in a hook, in a transaction, or in the
delivery of an open. A driver holds itself (`selfDriver`) while it has work, and
its open waiters hold it too. Results reach a coroutine through a weak reference
to the data of its awaitable; the coroutine runs inside the call that delivers,
or from a timer when another one is running, and calls the library back from
there. A cache sits on a driver or a pool and answers through the event loop. A
transaction holds a lease; migrators compete for a row of the database.

What is hard, and what the properties are about:

* leases end anywhere, in any order with calls, hooks, failures and `remove()`;
* callers, receivers and coroutines go away between a request and its answer;
* callbacks re-enter the driver and the cache in the middle of their work;
* a connection is lost or refused with callers and queries queued behind it;
* answers are matched with requests by nothing but their order (pipeline mode,
  worker queues) or their name (notifications, cache);
* somebody who waits depends on somebody else's handler to look at the queue;
* a version and what it stands for change in two statements, with crashes and
  rivals in between.

`PROJECT.json` lists each hazard at its line with the properties that cover it.

## 2. Modules

| Module | What it is |
|---|---|
| `APool` | the pool, with the calls of `database()` and the connection states of its drivers |
| `APoolExec` | `APool` with the coroutines of `exec()` and `execMulti()` that lease from it |
| `PoolContract`, `APoolRefinement` | what a pool promises, without queue, counter, hooks and driver states; the mapping |
| `ACache` | the cache with its requests and queued answers |
| `ADriverPg` | one PostgreSQL connection outside pipeline mode |
| `ADriverPgPipeline` | its pipeline mode, with libpq and the server |
| `ADriverPgNotifications` | its subscriptions |
| `ADriverThreaded` | one connection of the SQLite, MySQL and ODBC drivers: the driver object and its worker's queue |
| `DriverContract`, `ADriverThreadedRefinement` | what a driver promises the callers of `exec()`; the mapping |
| `AStatements` | the workers of the three: the statements they keep, call by call of the client library |
| `ATransaction` | a transaction on a leased connection |
| `AMigrations` | several migrators of one database |
| `ACoroExpected` | coroutines, their awaitables, deliveries and put-off resumes |
| `APool_proofs`, `ACache_proofs`, `ADriverPg_proofs`, `ADriverPgPipeline_proofs`, `ADriverThreaded_proofs`, `ATransaction_proofs`, `AMigrations_proofs`, `ACoroExpected_proofs` | theorems about the module of the name (section 5) |
| `MC_*` | the instances for TLC: symmetry, and the migration files |

Operators marked "Mutated form" are plausible faulty versions of the definition
that follows them. No specification uses them: `PROJECT.json` lists, for every
property of a passing run, the one that makes TLC find it violated.

Constants whose comments call them circumstances (`DropInBegin`, `OldReceivers`
and so on) let the application or the environment do something that the code
does not withstand. They are `FALSE` in the passing runs; section 4 lists them.

### APool

One pool of one thread. A *call* is one `database()`, from the call to the end
of the lease; its identity is reused. A *driver* is an `ADriver` object; `state`
is its connection state, `"none"` when the object does not exist.

| Variable | Code |
|---|---|
| `registered`, `removals` | the name is a key of `m_connectionPool`; calls of `remove()` |
| `pool`, `connectionQueue`, `connectionCount`, `maximuConnections`, `maxIdleConnections` | the members of `APoolInternal` |
| `opening[c]` | `PoolOpenDelivery::db` of the call |
| `db[c]` | the `ADatabase` delivered to the call |
| `status[c]`, `receiver[c]` | `ACoroData::status` and what became of the coroutine; the `QObject*` receiver |
| `hooks` | drivers of which a setup or reuse hook still holds a copy |
| `setUp` | drivers whose session went through `setupHook` |

`database(c, r)` has one disjunct per outcome of `deliverDatabase()`.
`pushDatabaseBack(d, dbs, held)` is the deleter: it is part of the action that
drops the last reference (`Release`, `ReleaseOpening`, `FinishHook`), and
`dbs`/`held` are the references that remain. `OpenSucceeds` and `OpenFails` are
`deliverOpen()` up to the point where it has resumed the coroutine;
`ReleaseOpening` is its return, where the `PoolOpenDelivery` dies. In between
(`Unwinding`) the application runs but the event loop does not. The order of the
state change and the callback differs: the threaded drivers say Disconnected
before they tell the waiters of a failed open, `ADriverPg` after it
(`DriverKind`). `"Dangling"` marks a call whose destroyed coroutine was resumed.

Constants of the environment: `OpenMayFail`, `MayDrop` (the server closes
connections), `HooksHold`, `ReceiverChoices`, `YieldGuards` (callers name
objects with `co_yield`), the arguments of the setters, and `MaxRemovals`, which
bounds `remove()`.

### APoolExec

A call of `exec()` is a coroutine of the library: it awaits `database()` ("Gets"),
sends the query ("Executes") and hands the results on. The lease outlives it: the
driver's own `exec()` keeps it in `selfDriver` until its queue is empty
(`src/src/adriverpg.cpp:560` and `434-436`, `src/src/ADriverSqlite.cpp:178` and `44-49`). So the
connection goes back to the pool with the last result of the query, whoever has
taken it, and a coroutine that ends before that, since it was destroyed or since
`exec()` takes one result only, leaves the driver to drain the rest ("Drains")
while the callers in the queue wait. The calls take the actions of `APool` for
their lease, and compete with plain callers of `database()`. The text of a query
is a view into the caller's frame, which `TextAlive` follows.

### PoolContract and the refinement

A connection is absent, idle or used; a caller asks, and is given a connection,
refused, or withdraws. A connection becomes present only while there is room,
and is granted only while nobody else has it. `APoolRefinement` maps a driver
that exists and is not idle to "used", and the callers whose awaitable is
waiting to those that ask. `remove()` breaks the promise of the limit on
purpose (connections of the old pool live on outside the new count), so the
refinement is stated for pools that are not removed. It is checked of
`APoolExec`, so with the queries on top.

### ACache

A key is a query with its arguments; the cache keeps several entries per key,
latest first, as `QMultiHash` does. A result is the version of the data that the
query read. `fetch[c]` says where the `requestData()` of call `c` is suspended:
`"pool"` (waiting for a connection), `"exec"` (the query is running), `"done"`
(its result is under way). `posted` is the event queue of
`QMetaObject::invokeMethod(..., Qt::QueuedConnection)`.

The branch of `searchOrQueue()` for a cached error is never taken: errors are
not cached (`Entry` has none, and `TypeOK` would show one).

### ADriverPg

A handler of the event loop delivers results in the middle of its work, and the
coroutines it resumes call the driver again. The model runs a handler in steps:
`todo` holds what it has still to do, and after a step that ran application code
(`callback`) the actions of the application may come before the next one. With
`todo` empty the event loop may start another handler.

| Step | Code |
|---|---|
| `emitOk`, `emitFailed` | the loop of `deliverOpenWaiters()`, then the end of its local vector |
| `nextQuery` | the loop of `nextQuery()` |
| `done` | `query.done()` after `nextQuery()` |
| `finish`, `flush` | `finishConnection()` up to `setState()`, then its loop |
| `tail` | the end of the read handler, where `selfDriver` is reset |

`inFlight` and `results` are the server's side: the query it answers and how many
results were read. A query of kind `"prepared"` is preceded by its PREPARE unless
the statement is known; of kind `"multi"` the caller takes several results; one of
kind `"refused"` libpq never takes.

`open()` has an action for each outcome: it joins (`OpenJoin`), it starts
(`OpenStarts`), `PQconnectStart()` gives no connection and everybody is told at once
(`OpenRefused`), or gives one without a socket and nobody is told (`OpenNoSocket`).
An `open()` of a connected driver, and an `exec()` whose direct send fails, answer
before they return and change nothing, so they are no steps. `NextQueryFails` is the
loop of `nextQuery()` around a query that cannot be sent: it is told and stays in
front, where its caller may have let go of the awaitable (`"answered"`) or still have
it (`"kept"`); the next round drops the one and sends the other again.

### ADriverPgPipeline

`commands` is libpq's queue of what was sent and not yet taken, each with what
the server made of it; `flushed` and `buffered` count from its front what the
server has sent and what libpq has read, so that the server's output buffer, the
socket and libpq are one sequence. `ServerRuns`, `ServerFails`, `ServerSkips` and
`ServerSyncs` are the server, which keeps its output until a sync, an error or a
full buffer. The handler takes one result (`TakeResult`), one null (`TakeEnd`) or
one sync (`TakeSync`) at a time, and callbacks run after a null; `"undefined"`
stands for `front()` of an empty queue and for a null `result` in `done()`.
`endNext` is libpq's state between a result and its null.

### ADriverPgNotifications

The table finds a subscription by the name of its channel; the model knows which
one it was for (`of` in a statement) and what the application has asked for
(`subscribed`). `Subscribe` and `Unsubscribe` go up to the `co_await` of
`listenCoro()` and `unlistenCoro()`, `Answered` is the rest of them; where the
statement cannot be sent the `co_await` is ready and there is no rest. `watched` is
the connections made to `destroyed()`, which nothing removes before the receiver
dies. A `Read` takes what has come: the answer of the first statement, and then
all notifications, those before it included. Its specification is `ListenInit`,
`ListenNext`, `ListenSpec`, since `ADriverPg_proofs` extends it together with `ADriverPg`.

### ADriverThreaded, DriverContract

Two threads. The worker runs its events (`jobs`) in order; each result is first
appended to `ready` under the mutex and then signalled, and the driver's thread
may run in between (`step` is `"more"` or `"last"`). After the signal the worker
may have more to do (`"tail"`: `queryPrepared()` resets its statement, `open()`
sets the busy handler). What it does before that touches nothing that the driver
reads, so an event is one step up to its first stored result. On the driver's
thread a handler goes in steps, as in `ADriverPg`: `queryReady` swaps `ready`
into `batch`, hands over one result at a time (`deliver`) and counts
(`count`); `openned` tells the waiters (`emit`) and counts. `posted` holds the
events of the driver's event loop; there is one `queryReady` for each result,
and those that find nothing are harmless.

`waiting` has the calls whose caller waits. A caller of a query with several
results may stop at any or take them all. An identity is used again when
nothing of the earlier call is left. `life` is `"joining"` while the destructor
waits for the thread. Where the driver belongs to a pool, the end of
`selfDriver` is the end of the lease instead.

The contract is a line of queries: results are handed over for the first one
only, numbered in order, until its last. `lineMap` puts the line together from
the places where a query may be, `batch`, `ready` and `jobs`: `Endings` has one element
for each result and job, which is the query where it is the last result or the job of
one, and `Without` leaves the others out.

### AStatements

The three workers have the same shape: a job is taken, its statement is looked up
or prepared, bound, executed, released or kept, its result is sent, and a kept
statement is reset. An action is one of these, with a disjunct or an operator of
its own for each client library where they differ (`LookupOdbc` unbinds first,
`NextCommand` is SQLite's loop over a text, `ResetMysql` leaves the parameters
bound). Every library call may fail where the code has a branch for it. `status`
and `bound` are what the library knows of a handle: `bound[h] = j` when it points
at the buffers of job `j`. `broken` is SQLite's rule that `sqlite3_reset()`
repeats the error of the last step. The specification is `WorkerInit`, `WorkerNext`,
`WorkerSpec`, as its proofs share a module with those of `ADriverThreaded`.

### ATransaction

The lease of one connection, again and again. `copy[h]` is the `ATransaction` of a
coroutine; all copies share `running` and the count that `commit()` looks at.
`queue` is the driver's, with `live` for a statement somebody waits for: "pg"
skips the others when it sends the next one, "threaded" runs them. `session` and
`aborted` are the transaction of the server. `asked`, `askers` and `failed` are
history for `CommittedIfAllCommit`.

### AMigrations

A migrator is a process of its own with two connections. `pc` is the statement
under way, `seen` the version the loop works with, `tx` its transaction: `"open"`,
`"ending"` when its scope has ended and the ROLLBACK is on its way, `"stuck"` when
a COMMIT failed and left it open. `lock` is the row lock of `FOR UPDATE` and of the
UPDATE; SQLite locks the database at its first write and refuses a transaction
whose snapshot was overwritten (`stale`). A script is +1 or -1 on the schema of its
version, so that a script that runs twice, or not at all, shows; one without a
transaction has its effect once. `Crash` ends a process at any statement. The list
that the tool shows goes from `active`, the version of `load()`, while `migrate()`
reads the version anew; `overtaken` is history, of the migrators for whom the two
differ because a rival or an earlier call has moved the version.

### ACoroExpected

`stack` is the C++ stack of running coroutines, an entry `resumed` where
`resumeCoroHandle()` is below it: a delivery then puts the resume off (`timers`).
`data` is the `ACoroData` of an awaitable; `held` says that the awaitable object
exists, `shared` that a coroutine of the library holds the data as well. Whoever
delivers may do so from the event loop or in the middle of a running coroutine.
`DestroyObject` is the end of a `QObject`, with everything that is connected to it.
The handlers of `destroyed()` store an error and then destroy the frame, so that the
error is seen by coroutines only that did not wait yet. `ResumedOnce` therefore says what
holds while the frame exists; that a destroyed receiver resumes the coroutine with an
error, as `src/README.md` says, is `CancelledResumes`, which fails (section 4).

## 3. Runs

| Run | Shows | Instance | States |
|---|---|---|---|
| `APool_safety` | leases, counter, queue, limit, hooks, order of service | 3 calls, 2 drivers, limit 1 or none, idle limit 1 or 0, one `remove()`, socket driver, everything fails that can | 1.1 million |
| `APool_progress` | queries on top of the pool: text, answers, service of the queue, refinement | 2 calls, 2 drivers, limit 1, hooks, 2 results, callers that go at any time | 19 thousand |
| `ACache_settled` | one request per key, no lost caller, order | 3 calls, 1 key, 3 versions, failures | 58 thousand |
| `Pg_queue` | results, order, re-entrancy, answers | 2 queries, 2 opens, all kinds, also one that is refused, 2 results, connection refused or lost at any time | 60 thousand |
| `Pg_pipeline` | order of results, ends and syncs; the timer | 2 queries, 2 syncs, errors, prepares, connection lost | 118 thousand |
| `Pg_notifications` | table against application and server | 2 channels, 3 subscriptions, 2 receivers, 3 statements, 3 messages on their way | 3.1 million |
| `Threaded` | results, counter, lifetime, refinement, two threads | 2 queries, 2 opens, 2 results, no calls while 2 events wait | 1.1 million |
| `Statements` | handles, parameters, last results, answers | 3 libraries, 2 jobs, 2 prepared queries, 3 handles, texts of 2 commands | 345 thousand |
| `Transaction` | the end of a transaction and of its lease | 3 coroutines, 3 statements, both kinds of driver | 53 thousand |
| `Migrations` | version, schema and lock; steps; success; what is shown | 2 migrators, 5 files, both databases, dry runs, crashes | 841 thousand |
| `Coro` | resumes and results | 3 coroutines, 2 awaitables, 1 object, 2 results | 340 thousand |
| `Coro_dangling` | counterexample: a destroyed coroutine is resumed from a timer | a receiver dies while a resume is put off | |

Properties that name several things are conjunctions of the definitions above
them in the module: `EntriesSound`, `QueueSound`, `HeldWhileNeeded`, `AllAnswered`,
`PipelineSound`, `HeldExactly`, `StatementsSound`, `EndsAsAsked`, `SchemaSound`,
`ResumedOnce`.

Why the bounds are enough. One connection more than the limit, and one caller
more than there are connections, is where the pool queues; a third caller gives
the queue an order, and a caller that comes between a return and a service. Two
drivers let a connection of a removed pool live beside one of the new pool, and
let the limit be lifted while one is out. For the cache one key suffices, as
entries of different keys never meet (a key is what is compared); three calls
are one that fetches, one that joins, and one that comes after. Two queries are
one in flight and one queued, and as identities are reused, runs of any length
are covered; two results tell a result that is not the last from one that is.
In pipeline mode two queries and two syncs already make a batch behind a batch. Three
subscriptions of two channels are one that ends, one that follows it on the same
channel, and one beside them. Two prepared queries and three handles are two
kept statements and one that is made. Three copies of a transaction are the last, one
that asked before, and one that did not. Three coroutines are one that delivers, one
that is put off, and one that both call.

`MaxPosted` bounds the events of `ADriverThreaded`: signals that find nothing
could pile up without end if the application called `exec()` in every callback.
With two, a handler takes the results of several signals, and a signal finds
nothing, in every order. `MaxQueue`, `MaxOnWay`, `MaxSyncs` and `MaxRemovals` bound what the application or the server may pile up in the same way.

Deadlock is checked except in `ACache_settled` and `Pg_queue`. The cache may be
destroyed, after which nothing is left to do, and a driver of PostgreSQL that holds
itself for queries nobody opens a connection for stays as it is for ever.

Symmetry over interchangeable identities is used in runs of safety properties only.

Fairness. `APool`, `APoolExec`: the event loop runs the callback of an open that
ended and the timers, the worker thread answers every open, the server every query
to its last result, and callers and hooks end (a caller that keeps its connection for ever would starve
the queue in any pool). `ACache`: the pool, the database and the event loop answer.
`ADriverThreaded`, `AStatements`: both threads run on. `ADriverPg`: a handler that
started runs on, the server ends the attempts to connect and the queries, and a socket
that was closed becomes readable. `ADriverPgPipeline`: handlers and timers run and the
server works, but nothing makes it send what it holds back before a sync; that is what
the automatic sync is for. `ATransaction`: the server answers. Nothing is assumed of
the application: it need not call, await or release.

## 4. Circumstances left out

Each of these is a constant or an instance of a constant. With it the definition
named in the last column fails in TLC; the passing runs hold in an application
and a server that keep away from it.

| Module | Circumstance | What happens | Fails |
|---|---|---|---|
| `APool` | `OpenMayFail` with callers queued (`src/src/apool.cpp:120`) | a connection that failed to open, or was lost, is deleted without a look at the queue | `QueueHasServer`, `QueuedServed` |
| `APool`, `APoolExec` | a receiver dies while its connection is opened (`src/src/apool.cpp:54`; `OpenOutlived`) | the delivery holds itself, and the connection, for ever | `OpeningEnds` |
| `APool` | `YieldGuards` while opening (`src/src/apool.cpp:77`) | the delivery resumes a destroyed coroutine | `NoDanglingResume` |
| `APoolExec` | `EarlyGuards` (`src/src/apool.cpp:302`) | the text of the query is read after its caller has gone | `TextAlive` |
| `ACache` | `OverlapAtPool` (`src/src/acache.cpp:188`) | calls of one key each make an entry, and all but one wait for ever | `NoLostCaller` |
| `ACache` | `ClearInFlight` | a result goes to the entry of a later request, or to its first caller only | `EntriesSound` |
| `ADriverPg` | `ReopenMidQuery` (`src/src/adriverpg.cpp:814`) | `m_queryRunning` stays, and nothing is sent again | `FrontInFlight` |
| `ADriverPg` | `RetryAtOnce` (`src/src/adriverpg.cpp:280`) | a `coOpen()` in the callback of a failed one is never answered | `AllAnswered` |
| `ADriverPg` | `ReleaseInOpen` (`src/src/adriverpg.cpp:211`) | the driver is deleted in its own handler | `NotDeletedInHandler` |
| `ADriverPgPipeline` | `ExecWhileAborted` (`src/src/adriverpg.cpp:542`) | a prepared query only sends its PREPARE and later answers shift | `ResultsReachTheirQuery`, `SentAtOnce` |
| `ADriverPgPipeline` | `PrepareAtRisk` (`src/src/adriverpg.cpp:851`) | a statement counts as prepared that the server skipped | `ResultsReachTheirQuery` |
| `ADriverPgNotifications` | `OldReceivers` (`src/src/adriverpg.cpp:730`) | the end of an earlier receiver removes the entry of a later one | `SubscriptionKept` |
| `ADriverPgNotifications` | `ListensOverlap` (`src/src/adriverpg.cpp:773`) | the late failure of one LISTEN removes the entry of the next | `SubscriptionKept` |
| `ADriverPgNotifications` | `EndsInCallback` (`src/src/adriverpg.cpp:412`) | the callback is destroyed while it runs | `SubscriptionKept` |
| `ATransaction` | `DropInBegin` (`src/src/adatabase.cpp:95`) | the transaction that was begun belongs to nobody, and its rollback is skipped | `ReturnedClean` |
| `ATransaction` | `DropWhileBusy` (`src/src/atransaction.cpp:28`) | "pg" skips the ROLLBACK that waits behind a statement | `ReturnedClean` |
| `ATransaction` | `KeepAfterCommit` (`src/src/atransaction.cpp:86`) | a copy that was told success works on and is rolled back | `CommittedIfAllCommit` |
| `ATransaction` | `OutliveConnection` | a copy ends a transaction of a session that is gone | `EndedOnce` |
| `ATransaction`, `AMigrations` | `CommitStalls` (`src/src/atransaction.cpp:91`) | a COMMIT that SQLite refuses leaves its transaction open, and nobody rolls it back | `ReturnedClean`, `LockHeldByRunner` |
| `AMigrations` | `FirstTogether` (`src/src/amigrations.cpp:202`) | there is no row to lock, and two migrators run the first script | `VersionMatchesSchema` |
| `AStatements` | `UnpreparedSqlite` (`src/src/ADriverSqlite.cpp:615`) | the scope guard resets and clears a statement that does not exist: one that SQLite refuses to prepare, or any prepared query on a driver that was never opened | `ResetsStatement` |
| `AStatements` | `UnopenedMysql` (`src/src/adrivermysql.cpp:568`) | a query on a driver that was never opened: the library is called with a null connection | `HasConnection` |
| `AStatements` | `OmitParameters` (`src/src/adrivermysql.cpp:676`) | MySQL executes with the freed buffers of an earlier query | `StatementReady` |
| `ACoroExpected` | `DestroyPutOff` (`src/src/acoroexpected.h:29`) | the timer resumes a destroyed coroutine (run `Coro_dangling`) | `ResumesLive` |
| `ACoroExpected` | `DestroyShared` (`src/src/acoroexpected.h:174`) | data shared with a coroutine of the library keeps its handle | `ResumesLive` |
| `ACoroExpected` | `ReceiverGoneFirst` (`src/src/acoroexpected.h:163`) | a coroutine awaits after its receiver was destroyed and nobody delivers | `SuspendedIsAwaited` |

`ADriverThreaded` has no case for `UnpreparedSqlite` and `UnopenedMysql`: there a query on a driver
that was never opened is answered with an error, which is what ODBC and an unprepared
query of SQLite do; where the libraries crash instead there is nothing to state of what
follows. `JobAnswered` is checked with the same exception.

Some of these, and some of what is in every run, contradict the documentation. TLC finds
each of these definitions violated in the instance of the run that is named, with the
constant set to `TRUE` where there is one:

| Definition, run, constant | The code | What is said |
|---|---|---|
| `ResumesLive`, `Coro_dangling`, `DestroyPutOff` | a receiver dies while the resume of its coroutine is put off: the frame is destroyed and the timer resumes it | `src/README.md:233`: "the coroutine receives an error instead of resuming with a dangling pointer" |
| `CancelledResumes`, `Coro` | a receiver dies while its coroutine waits: the handler stores the error and destroys the frame, which never resumes (`src/src/acoroexpected.h:163-166`). The header (`src/src/adatabase.h:117-118`) and `src/tests/sqlite_tst.cpp:269-278` agree with the code | `src/README.md:233`: "the operation is cancelled and the coroutine receives an error"; `:239`: "co_await resumes with an error" |
| `ResumesLive`, `Coro`, `DestroyShared` | a guard destroys a coroutine that waits for `begin()`, `load()` or `migrate()`; the coroutine of the library delivers to its handle (`src/src/acoroexpected.h:174`) | `src/README.md:190`: "the coroutine is destroyed and the function is never resumed — preventing dangling-pointer crashes" |
| `SuspendedIsAwaited`, `Coro`, `ReceiverGoneFirst` | the receiver dies before the `co_await`: the status stays Waiting and the coroutine is suspended for ever (`src/src/acoroexpected.h:163`) | `src/README.md:233`, as above |
| `OpenAnswered`, `Pg_queue` | a connection that has no socket leaves its caller untold (`src/src/adriverpg.cpp:246`) | `src/src/adatabase.h:110-111`: "co_await the returned object to suspend until the connection is established (or fails)" |
| `QueryAnswered`, `Pg_queue` | a refused query whose awaitable lives on is sent and told without end, and those behind it never are (`src/src/adriverpg.cpp:804`) | `src/src/adatabase.h:365-366`: "All calls to exec() methods are queued internally and sent to the database" |
| `FrontInFlight`, `Pg_queue`, `ReopenMidQuery` | `m_queryRunning` survives the connection (`src/src/adriverpg.cpp:814`) | the same |
| `NotDeletedInHandler`, `Pg_queue`, `ReleaseInOpen` | the local vector of waiters holds the last reference to the driver (`src/src/adriverpg.cpp:211`) | `src/src/adriverpg.cpp:432-433`: "it's only safe to release ourself after all connection processing took place" |
| `FromActive`, `Migrations` | `migrate()` reads the version anew and never looks at `active()`: after a rival, an earlier call, or a COMMIT that answered an error and took effect, it runs scripts that are not on the way from there (`src/src/amigrations.cpp:174`) | `src/src/amigrations.h:50`: "migrate from \l active() toward \p targetVersion" |

`Coro_dangling` is kept as a run of its own. `AllAnswered` says what is left of `OpenAnswered`
and `QueryAnswered`, and `ShownIsRun` what is left of `FromActive`.

Met while modelling, and outside of what the modules state: an error of SQLite in the
middle of a text is told in the result of the command before
(`src/src/ADriverSqlite.cpp:697`); ODBC reads only the first result of a text
(`src/src/ADriverOdbc.cpp:858`); going down, migrations stop at the first version
without a script; two migrators with opposite targets may undo each other for ever.

## 5. Proofs

Each theorem holds for every value of the constants; `ConstantsAssumption` of the
module is always assumed, and beyond it only what the last column says: the
circumstances of section 4 are left out, as in the runs.

| Module | Theorem | States | Assumes |
|---|---|---|---|
| `APool_proofs` | `TypeCorrect` | `Spec => []TypeOK` | |
| | `ExclusiveLease` | `Spec => []Exclusive` | |
| | `NeverDeletedInUse` | `Spec => []NoDeletedInUse` | |
| | `CounterExact` | `Spec => []CountExact` | |
| | `LimitHolds` | `Spec => LimitRespected` | |
| | `NoneIdleWhileQueued` | `Spec => []QueuedOnlyIfNoneIdle` | |
| | `SetupAlways` | `Spec => []SetupBeforeUse` | |
| | `ServedInOrder` | `Spec => FifoService` | |
| | `Implements` | `Spec => KeepsContract` | `MaxRemovals = 0` |
| | `ExecTextAlive` | `ExecSpec => []TextAlive` | not `EarlyGuards` |
| | `ExecImplements` | `ExecSpec => KeepsContract` | `MaxRemovals = 0` |
| `ACache_proofs` | `SpecEntriesSound` | `Spec => []EntriesSound` | neither `OverlapAtPool` nor `ClearInFlight` |
| | `SpecAnsweredOnce` | `Spec => []AnsweredOnce` | the same |
| | `SpecReadsInOrder` | `Spec => []ReadsInOrder` | the same |
| `ADriverPg_proofs` | `SpecQueueSound` | `Spec => []QueueSound` | none of `ReopenMidQuery`, `RetryAtOnce`, `ReleaseInOpen` |
| | `SpecHeldWhileNeeded` | `Spec => []HeldWhileNeeded` | the same |
| | `SpecToldInOrder` | `Spec => ToldInOrder` | the same |
| | `SpecSubscriptionKept` | `ListenSpec => []SubscriptionKept` | none of `OldReceivers`, `ListensOverlap`, `EndsInCallback` |
| | `SpecSubscriptionListens` | `ListenSpec => []SubscriptionListens` | the same |
| `ADriverPgPipeline_proofs` | `SpecPipelineSound` | `Spec => []PipelineSound` | neither `ExecWhileAborted` nor `PrepareAtRisk` |
| `ADriverThreaded_proofs` | `SpecHeldExactly` | `Spec => []HeldExactly` | |
| | `SpecOpenedOnce` | `Spec => []OpenedOnce` | |
| | `SpecKeepsContract` | `Spec => KeepsContract` (the refinement of `DriverContract`) | |
| | `SpecStatementsSound` | `WorkerSpec => []StatementsSound` | neither `OmitParameters` nor `UnpreparedSqlite` |
| | `SpecOneLastResult` | `WorkerSpec => []OneLastResult` | the same |
| `ATransaction_proofs` | `SpecReturnedClean` | `Spec => []ReturnedClean` | none of `DropInBegin`, `DropWhileBusy`, `KeepAfterCommit`, `OutliveConnection`, `CommitStalls` |
| | `SpecEndsAsAsked` | `Spec => []EndsAsAsked` | the same |
| `AMigrations_proofs` | `SpecSchemaSound` | `Spec => []SchemaSound` | neither `FirstTogether` nor `CommitStalls` |
| | `SpecStepFromCurrent` | `Spec => StepFromCurrent` | the same |
| | `SpecSuccessReached` | `Spec => SuccessReached` | the same |
| | `SpecShownIsRun` | `Spec => []ShownIsRun` | |
| `ACoroExpected_proofs` | `SpecResumedOnce` | `Spec => []ResumedOnce` | none of `DestroyPutOff`, `DestroyShared`, `ReceiverGoneFirst` |
| | `SpecResultsInOrder` | `Spec => []ResultsInOrder` | the same |

All of them go the same way: an inductive invariant `IInv`, one lemma per action
that it survives the action, `StepIInv` over all of them, and the property from
`IInv`. What makes each `IInv` inductive is the argument for the code:

**APool.** `IInv == TypeOK /\ Apart /\ Ownership`. `Apart` is `Exclusive /\
NoDeletedInUse` restated driver by driver (`ApartIsExclusive`), the form in which a
step can be checked. It is not inductive alone: a queued call that already had a
connection would get a second one, and a new call with the identity of one that
still has an open under way would lose it. `Ownership` says which calls may have
what: a call that has not begun has nothing and is not queued, one that holds a
connection is done and opens none, and one in the queue that still waits opens none.
`PushBackKeeps` is the heart: the deleter keeps the invariant provided that nothing
refers to the driver any more, and each action that calls it establishes that.
`CounterExact` follows from `IInv` and `StepEffect`: a step makes one driver and
counts it while the limit has room, deletes one and discounts it, or does neither.
`LimitHolds` is read off the same lemma. `NoneIdleWhileQueued` is inductive by itself
once the deleter is known to empty the queue before it keeps a driver. `SetupAlways` needs
`AllPrepared`: a connected driver was set up, or its open told nobody, since the
receiver of its caller died, and then a call that is not done and never will be holds it. `ServedInOrder` needs `QueuedOnce`: as a call
is queued once, the first entry that can be served precedes all the others that can.

`Implements` maps each action to a step of `PoolContract` or to a
stutter. `PushBackMaps` is the deleter, which grants the place to the caller that has
waited longest or settles it as idle; a new connection finds room in the contract since
the counter is the number of drivers (`CounterExact`). A removed pool forgets its counter
while drivers live, so the theorem is about a pool that stays.

The same invariant carries over to `APoolExec`, whose steps are those of the pool with
the coroutines of `exec()` around them. `ExecIInv` ties the two: a call whose query runs or
drains still has its connection, and one that waits for a connection was told nothing and
has handed its own receiver on (`Running`), so a receiver that dies takes caller and
coroutine together, and the connection goes back with the last result and not before.
`ExecTextAlive` follows, and `ExecImplements` cites the lemmas of `Implements` step by step.

**ACache.** An entry without a result and the query that fills it come and go together,
and a request that waits for a connection has no entry yet (`Requests`); without the two
circumstances there are entries of which a second request, or none, is under way. A
callback is in one place: with one entry, among the posted answers or nowhere
(`OnePlace`), which is why moving the receivers out of an entry answers each of them
once. Nothing is newer than the data (`NotAhead`), what is posted is not newer than the
entry or the query that comes after it, and the answers are in order (`InOrder`). `Rank`
and the lemmas under it say what the filtered list of receivers is, without induction.

**ADriverPg.** The handlers are nested calls, so the invariant is about what is left of
them: `Todos` lists the fourteen shapes that the rest of a handler can have, and `Handlers`
says which state the connection is in for each. A query that does not run is about to be
looked at by the `nextQuery()` in that rest (`FirstRuns`), who waits is in the queue or is
the one query about to be told (`Waits`), a connection is made for callers that are
recorded or being told, which hold the driver (`OpenWaits`; the converse is false, as the
callers of a connection without a socket are recorded and none is made), and the driver
holds itself for its queries and for the code that their answers run (`Lives`). `Prepares` keeps what is being prepared to
the query in front. Each action is checked against each part on its own. `SpecToldInOrder`
covers the query that was popped and not yet told (`finished`) together with those in the
queue; its one exception is the step of `nextQuery()` before `done`.

**ADriverPgNotifications.** The table is what the application asked for as long as each
entry is watched through its own receiver and no other (`Watched`) and a LISTEN under
way is that of the entry of its channel, if there is one (`OwnListen`): then a late
failure or a dying receiver removes its own entry. The server follows since the last
statement under way for a channel in the table is a LISTEN (`LastIsListen`), one that
was executed and not yet read back is in effect (`Executed`), and the socket holds the
outcome of the first statement at most (`Answering`).

**ADriverPgPipeline.** Results are matched with queries by order alone, so the invariant
lays libpq's commands beside the queue. The commands whose results end a query are those
of the queue, each once and in its order (`InOrder`), but for the query in front between
its result and the null (`Ended`); a PREPARE comes right before the statement of its
query, and the query in front knows whether the result it has is that of a PREPARE
(`Prepares`). `FrontFirst` follows: whatever libpq hands over next is for `queue[1]`. A
PREPARE that was skipped would end its query early and shift all that follow. `Unskipped`
says why none is: between a PREPARE and anything before it that failed, and between it
and the place up to which the server or libpq skips, there is a sync. The step in which
the server fails a command and that in which `exec()` sends a PREPARE are where the two
circumstances are needed.

**ADriverThreaded.** `Unfinished` is a set, and the counter is its size, so a step must
be known to add or remove one query. `InLine` says why: a query is with the worker, or
its last result is in line behind its others and stands there alone; `Promised` is the
same for the result that is being handed over. So handing over a last result leaves
`Unfinished` as it is, and counting it removes one. At zero nobody is expected
(`Nothing`, `Zero`): a caller that waits has its last result to come or is among the
waiters of `open()` (`Expected`), which is why the driver may be destroyed then.
`Opening` follows the one open: with the worker, which then has no database, or
signalled once.

For the contract, `Following` says how the results lie: those of a query next to each
other and numbered in order, and where the last of them is not stored the worker is at
the query and knows how many it stored. So the first result is always the next one of
the first query in line (`FirstInLine`), though that query may still be with the worker.
A stored last result takes the place of its job and the line stays as it is
(`EndsStoredLast`); the other steps of the worker are not seen; handing over is `Answer`,
counting is `Answered`. `Without` is not computed: `Picks` describes it by the positions
of what is left, and `PicksWithout` says that the description determines it.

**AStatements.** `Owned` ties a handle to its place: the statement of a prepared query is
the cache's, that of any other belongs to its job alone. `Clean` says that a free handle
has no parameters and one in the cache is reset unless its job runs; `Hands` lists, step
by step, what the worker holds, so that each error path releases exactly that. For the
answers, `Tallied` bounds the commands of a text that are left and those that were
answered, and `Answers` says that the results of the job in work have no last one, and
those of each job before it end with one.

**ATransaction.** A lease lasts as long as a copy or a statement (`Leased`), and a live
statement is the one that its coroutine waits for (`Awaited`). An open transaction is
held by the copies or ended by one statement in the queue, and if "pg" could skip
that one it is either in front already or somebody waits for it (`Ending`); that is why
the transaction is over when the lease ends. As long as everybody asks for it, the
statement that ends it is a COMMIT (`Asking`). `NextQueryIs` says of `nextQuery()` that it
leaves an end of the queue and skips only what nobody waits for.

**AMigrations.** A transaction is open exactly at the statements that belong to it
(`Scoped`). The lock makes what was read count until the commit (`Held`, `Planned`);
before there is a row to lock, one migrator works (`Alone`). A script without a
transaction has had its effect when its version is committed (`Effect`). `Applied` states
the schema way by way: only a script without a transaction may be ahead of the
version, which is what a crash between the two connections leaves. `SpecShownIsRun`
goes from what was shown at `active()` to what runs, over all rounds of the loop. Its
invariant is `Ongoing`: a migrator that was not overtaken has run the list up to the
version of the database, and the rest is a suffix of what was shown; its plan goes from
there. A commit of its own takes the head off the rest: `Ascending` gives each key its
rank, `AscendingTail` says that the keys above the first one are the tail of the list, and
`DescendingTail` is the same for the way down. No lock is needed for it, as a rival that
moves the version makes the others overtaken. `SpecSuccessReached` is about scripts that
are left and not about the target: going down stops at a version without a script, as
`src/tests/migrations_tst.cpp:94-99` expects.

**ACoroExpected.** Each running coroutine is on the stack once (`Stacked`), an awaitable
that will resume its coroutine is what that one waits for and no timer will
(`Handled`), who is suspended has either a timer, and then its result, or an awaitable
that is still connected (`Waiting`), and a timer is for one suspended frame (`Timed`).
`Sound` is the data of one awaitable: what was delivered and what is to come add up,
its handle goes with its receiver, and the results kept are those after the one taken
last.

Only model-checked is all liveness: it needs `ENABLED` and fairness, which are out of the
prover's reach. So are inductions over data, and no module uses a RECURSIVE operator.

## 6. What the models leave out

* Values, SQL text, conversions, logging, error texts.
* `APool`: `PQconnectStart` returning null or a connection without a socket (`ADriverPg`
  has both); a held pool connection opened again
  by its holder; hooks that call the pool while a reference into the hash is
  held; a hook that is set while connections exist; several pools and threads (a
  pool is `thread_local` and pools share nothing).
* `ADriverPg`: single-row mode, partial flushes of the socket, and which query a
  cancel request reaches (any query may end with an error). In pipeline mode, a
  timer other than that of the first `enterPipelineMode()`, and leaving the mode with
  a batch that failed and was not synced.
* `ADriverThreaded`: application code in slots of the first state change of
  `open()`. An error is a result like others, and a call of `coOpen()` on a connected
  driver returns at once and is no step.
* `AStatements`: the bytes of buffers and rows; a MySQL column of exactly the size
  of the initial buffer (`src/src/adrivermysql.cpp:450`).
* `ACache`: coroutine frames of callers; a caller is a weak reference that is
  alive or not.
* `AMigrations`: two migrators with different files; how a file is cut into scripts.
* `ACoroExpected`: `ATask`, which only a demo uses.
* Driver base, factories, `APreparedQuery`, `AResult`: no state that changes.

## 7. Plan

1. A composition of the pool with the threaded driver, in which the callback of
   the one is the step of the other.
2. Single-row mode and the cancel request of `ADriverPg`.
