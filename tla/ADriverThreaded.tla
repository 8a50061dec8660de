--------------------------- MODULE ADriverThreaded ---------------------------
(***************************************************************************)
(* One connection of a driver that works on a thread of its own            *)
(* (src/src/ADriverSqlite.cpp; adrivermysql.cpp and ADriverOdbc.cpp have   *)
(* the same structure): the calls of open() and exec() posted to the       *)
(* worker, the results it leaves under a mutex and signals, the handlers   *)
(* that hand them to the callers, the counter m_queueSize, and who keeps   *)
(* the driver object alive.                                                *)
(*                                                                         *)
(* Two threads interleave: the worker, and the event loop with the         *)
(* application.  A handler runs in steps (todo); after one that ran code   *)
(* of the application (callback) the application calls the driver again.   *)
(***************************************************************************)
EXTENDS Integers, Sequences, FiniteSets, Functions

CONSTANTS Queries,     \* calls of exec(), reused
          Opens,       \* calls of coOpen(), reused
          OpenJob,     \* the job of the worker that opens the database
          NoQuery,
          MaxResults,  \* bound on the results of one query
          MaxPosted    \* bound on the events that pile up: no calls of exec()
                       \* are made while more of them wait

ASSUME ConstantsAssumption ==
  /\ {OpenJob, NoQuery} \cap Queries = {} /\ Queries \cap Opens = {}
  /\ {MaxResults, MaxPosted} \subseteq Nat \ {0}

VARIABLES
  state,        \* m_state
  openWaiters,  \* m_openWaiters
  waiting,      \* calls of coOpen() and exec() whose caller waits
  listeners,    \* single shot connections to openned()
  queueSize,    \* m_queueSize
  owner,        \* the application holds an ADatabase of the driver
  selfDriver,   \* the driver holds itself
  life,         \* "alive", "joining" (in its destructor), "deleted"
  posted,       \* events of the driver: "queryReady", "opened", "openFailed"
  jobs,         \* events of the worker, queries and opens, from the one it runs
  step,         \* of the worker: "run" the first job, signal that there are
                \* "more" results or that it stored the "last", or "tail"
  stored,       \* results of the first job stored so far
  dbOpen,       \* the worker has a database
  ready,        \* m_promisesReady
  todo,         \* what the running handler does next
  batch,        \* the results it took, not handed over yet
  promise,      \* the result it is handing over
  emitting,     \* the waiters deliverOpenWaiters() still has to call
  callback      \* the last step of the handler ran code of the application

counted == <<queueSize, selfDriver>>
lifetime == <<owner, life>>
worker == <<step, stored, dbOpen, ready>>
handler == <<todo, batch, promise, emitting, callback>>
vars == <<state, openWaiters, waiting, listeners, counted, lifetime, posted, jobs,
          worker, handler>>

Idle == todo = "none"

\* The destructor blocks the thread until the worker has ended.
AppRuns == life = "alive" /\ (Idle \/ callback)

NoResult == [query |-> NoQuery, n |-> 0, last |-> FALSE]

Fresh ==
  /\ state = "Disconnected" /\ openWaiters = <<>> /\ listeners = 0
  /\ queueSize = 0 /\ owner = TRUE /\ selfDriver = FALSE /\ life = "alive"
  /\ posted = <<>> /\ jobs = <<>>
  /\ step = "run" /\ stored = 0 /\ dbOpen = FALSE /\ ready = <<>>
  /\ todo = "none" /\ batch = <<>> /\ promise = NoResult
  /\ emitting = <<>> /\ callback = FALSE

Init ==
  /\ Fresh
  /\ waiting = {}

-----------------------------------------------------------------------------
\* A request for the worker: it is counted, and the driver holds itself.
Post(job) ==
  /\ queueSize' = queueSize + 1
  /\ selfDriver' = TRUE
  /\ jobs' = Append(jobs, job)

\* One request less: with the last one the driver lets go of itself, and is
\* deleted unless an ADatabase has it.
Settled ==
  /\ queueSize' = queueSize - 1
  /\ selfDriver' = (selfDriver /\ queueSize' # 0)
  /\ life' = IF selfDriver' \/ owner THEN life ELSE "joining"

-----------------------------------------------------------------------------
\* open(): every caller is recorded; the first has the worker open the database.
OpenCall(o) ==
  /\ AppRuns /\ owner /\ o \notin Range(openWaiters) \cup Range(emitting)
  /\ UNCHANGED <<lifetime, posted, worker, handler>>

\* Mutated form: a call while connecting opens again.
OpenJoinsAgain(o) ==
  /\ OpenCall(o) /\ state = "Connecting"
  /\ waiting' = waiting \cup {o}
  /\ openWaiters' = Append(openWaiters, o)
  /\ listeners' = listeners + 1
  /\ Post(OpenJob)
  /\ UNCHANGED state

\* A driver that is connected answers at once: such a call changes nothing.
OpenJoins(o) ==
  /\ OpenCall(o) /\ state = "Connecting"
  /\ waiting' = waiting \cup {o}
  /\ openWaiters' = Append(openWaiters, o)
  /\ UNCHANGED <<state, listeners, counted, jobs>>

OpenStarts(o) ==
  /\ OpenCall(o) /\ state = "Disconnected"
  /\ waiting' = waiting \cup {o}
  /\ openWaiters' = Append(openWaiters, o)
  /\ state' = "Connecting"
  /\ listeners' = listeners + 1
  /\ Post(OpenJob)

\* Queries whose last result has not been counted.
Unfinished ==
  (Range(jobs) \ {OpenJob})
  \cup {r.query : r \in {s \in Range(batch \o ready) \cup {promise} : s.last}}

\* exec(), all overloads, begin(), commit() and rollback().
exec(q) ==
  /\ AppRuns /\ owner /\ q \notin Unfinished /\ Len(posted) < MaxPosted
  /\ waiting' = waiting \cup {q}
  /\ Post(q)
  /\ UNCHANGED <<state, openWaiters, listeners, lifetime, posted, worker, handler>>

-----------------------------------------------------------------------------
\* The rest of what the application does.  The coroutine of a caller, or its
\* receiver, is destroyed: the callback has expired.
Drop(c) ==
  /\ AppRuns /\ c \in waiting
  /\ waiting' = waiting \ {c}
  /\ UNCHANGED <<state, openWaiters, listeners, counted, lifetime, posted, jobs,
                 worker, handler>>

\* The last ADatabase of the application goes, anywhere in its code.
Release ==
  /\ AppRuns /\ owner
  /\ owner' = FALSE
  /\ life' = IF selfDriver THEN life ELSE "joining"
  /\ UNCHANGED <<state, openWaiters, waiting, listeners, counted, posted, jobs,
                 worker, handler>>

\* A new ADatabase is made once the driver is gone.
Recreate ==
  /\ life = "deleted" /\ Idle
  /\ state' = "Disconnected" /\ openWaiters' = <<>> /\ listeners' = 0
  /\ queueSize' = 0 /\ owner' = TRUE /\ selfDriver' = FALSE /\ life' = "alive"
  /\ posted' = <<>> /\ jobs' = <<>>
  /\ step' = "run" /\ stored' = 0 /\ dbOpen' = FALSE /\ ready' = <<>>
  /\ UNCHANGED <<waiting, handler>>

-----------------------------------------------------------------------------
\* The worker runs its events in order.  What it does with one is not seen by
\* the other thread before the first signal or stored result.
Runs(job) == step = "run" /\ jobs # <<>> /\ Head(jobs) = job

\* ASqliteThread::open(): the single shot connections end with the signal.
WorkerOpens(ok) ==
  /\ Runs(OpenJob)
  /\ jobs' = Tail(jobs)
  /\ dbOpen' = ok
  /\ posted' = posted \o [i \in 1..listeners |-> IF ok THEN "opened"
                                                       ELSE "openFailed"]
  /\ listeners' = 0
  /\ step' = "tail"
  /\ UNCHANGED <<state, openWaiters, waiting, counted, lifetime, stored, ready,
                 handler>>

\* A result is left for the driver, or an error; queryExec() may have more.
StoreMore(q) ==
  /\ Runs(q) /\ stored + 1 < MaxResults
  /\ ready' = Append(ready, [query |-> q, n |-> stored + 1, last |-> FALSE])
  /\ stored' = stored + 1
  /\ step' = "more"
  /\ UNCHANGED <<state, openWaiters, waiting, listeners, counted, lifetime,
                 posted, jobs, dbOpen, handler>>

StoreLast(q) ==
  /\ Runs(q)
  /\ ready' = Append(ready, [query |-> q, n |-> stored + 1, last |-> TRUE])
  /\ stored' = 0
  /\ jobs' = Tail(jobs)
  /\ step' = "last"
  /\ UNCHANGED <<state, openWaiters, waiting, listeners, counted, lifetime,
                 posted, dbOpen, handler>>

\* It is signalled after the mutex is released.
SignalReady(next) ==
  /\ posted' = Append(posted, "queryReady")
  /\ step' = next
  /\ UNCHANGED <<state, openWaiters, waiting, listeners, counted, lifetime, jobs,
                 stored, dbOpen, ready, handler>>

\* query() and queryExec() are done after the last.
SignalQuery == step \in {"more", "last"} /\ SignalReady("run")

\* queryPrepared() has the statement to reset.
SignalPrepared == step = "last" /\ SignalReady("tail")

WorkerEnds ==
  /\ step = "tail"
  /\ step' = "run"
  /\ UNCHANGED <<state, openWaiters, waiting, listeners, counted, lifetime,
                 posted, jobs, stored, dbOpen, ready, handler>>

-----------------------------------------------------------------------------
\* The events of the driver.
Takes(event) ==
  /\ life = "alive" /\ Idle
  /\ posted # <<>> /\ Head(posted) = event
  /\ posted' = Tail(posted)

\* Mutated form: the results are copied, not taken.
TakeReadyCopy ==
  /\ Takes("queryReady")
  /\ batch' = ready
  /\ todo' = IF ready = <<>> THEN "none" ELSE "deliver"
  /\ callback' = FALSE
  /\ UNCHANGED <<state, openWaiters, waiting, listeners, counted, lifetime, jobs,
                 step, stored, dbOpen, ready, promise, emitting>>

\* The handler of queryReady() takes all there is; an earlier one may have.
TakeReady ==
  /\ Takes("queryReady")
  /\ batch' = ready /\ ready' = <<>>
  /\ todo' = IF ready = <<>> THEN "none" ELSE "deliver"
  /\ callback' = FALSE
  /\ UNCHANGED <<state, openWaiters, waiting, listeners, counted, lifetime, jobs,
                 step, stored, dbOpen, promise, emitting>>

At(next) == life # "joining" /\ todo = next

\* A caller that expects one result is answered by the first.
DeliverNext ==
  /\ At("deliver")
  /\ LET r == Head(batch) IN
     /\ promise' = r
     /\ waiting' \in {waiting \ {r.query}} \cup IF r.last THEN {} ELSE {waiting}
     /\ callback' = (r.query \in waiting)
  /\ batch' = Tail(batch)
  /\ todo' = "count"
  /\ UNCHANGED <<state, openWaiters, listeners, counted, lifetime, posted, jobs,
                 worker, emitting>>

\* Mutated form: every result is counted as a query.
CountEveryResult ==
  /\ At("count")
  /\ Settled
  /\ promise' = NoResult
  /\ todo' = IF batch = <<>> THEN "none" ELSE "deliver"
  /\ callback' = FALSE
  /\ UNCHANGED <<state, openWaiters, waiting, listeners, owner, posted, jobs,
                 worker, batch, emitting>>

CountResult ==
  /\ At("count")
  /\ IF promise.last THEN Settled ELSE UNCHANGED <<counted, life>>
  /\ promise' = NoResult
  /\ todo' = IF batch = <<>> THEN "none" ELSE "deliver"
  /\ callback' = FALSE
  /\ UNCHANGED <<state, openWaiters, waiting, listeners, owner, posted, jobs,
                 worker, batch, emitting>>

\* The handler of openned(): setState() calls the slots of stateChanged().
TakeOpened(event, s) ==
  /\ Takes(event)
  /\ state' = s
  /\ emitting' = openWaiters /\ openWaiters' = <<>>
  /\ todo' = "emit" /\ callback' = TRUE
  /\ UNCHANGED <<waiting, listeners, counted, lifetime, jobs, worker, batch, promise>>

\* deliverOpenWaiters()
EmitNext ==
  /\ At("emit") /\ emitting # <<>>
  /\ waiting' = waiting \ {Head(emitting)}
  /\ callback' = (Head(emitting) \in waiting)
  /\ emitting' = Tail(emitting)
  /\ UNCHANGED <<state, openWaiters, listeners, counted, lifetime, posted, jobs,
                 worker, todo, batch, promise>>

\* Mutated form: the open is not counted down when it failed.
CountOpenIfOpen ==
  /\ At("emit") /\ emitting = <<>>
  /\ IF state = "Connected" THEN Settled ELSE UNCHANGED <<counted, life>>
  /\ todo' = "none" /\ callback' = FALSE
  /\ UNCHANGED <<state, openWaiters, waiting, listeners, owner, posted, jobs,
                 worker, batch, promise, emitting>>

CountOpen ==
  /\ At("emit") /\ emitting = <<>>
  /\ Settled
  /\ todo' = "none" /\ callback' = FALSE
  /\ UNCHANGED <<state, openWaiters, waiting, listeners, owner, posted, jobs,
                 worker, batch, promise, emitting>>

\* ~ADriverSqlite() waits for the thread; events for the driver go with it.
Join ==
  /\ life = "joining" /\ step = "run"
  /\ life' = "deleted" /\ posted' = <<>>
  /\ UNCHANGED <<state, openWaiters, waiting, listeners, counted, owner, jobs,
                 worker, handler>>

-----------------------------------------------------------------------------
Worker ==
  \/ \E ok \in BOOLEAN : WorkerOpens(ok)
  \/ \E q \in Queries : StoreMore(q) \/ StoreLast(q)
  \/ SignalQuery \/ SignalPrepared \/ WorkerEnds

EventLoop ==
  \/ TakeReady \/ DeliverNext \/ CountResult
  \/ TakeOpened("opened", "Connected")
  \/ TakeOpened("openFailed", "Disconnected")
  \/ EmitNext \/ CountOpen
  \/ Join

Application ==
  \/ \E o \in Opens : OpenJoins(o) \/ OpenStarts(o)
  \/ \E q \in Queries : exec(q)
  \/ \E c \in Queries \cup Opens : Drop(c)
  \/ Release \/ Recreate

Next == Worker \/ EventLoop \/ Application

Spec == Init /\ [][Next]_vars

\* Both threads run on; nothing is assumed of the application.
FairSpec == Spec /\ WF_vars(Worker) /\ WF_vars(EventLoop)

-----------------------------------------------------------------------------
Results == [query : Queries, n : 1..MaxResults, last : BOOLEAN]

TypeOK ==
  /\ state \in {"Disconnected", "Connecting", "Connected"}
  /\ openWaiters \in Seq(Opens) /\ emitting \in Seq(Opens)
  /\ waiting \subseteq Queries \cup Opens
  /\ listeners \in Nat /\ queueSize \in Nat
  /\ {owner, selfDriver, dbOpen, callback} \subseteq BOOLEAN
  /\ life \in {"alive", "joining", "deleted"}
  /\ posted \in Seq({"queryReady", "opened", "openFailed"})
  /\ jobs \in Seq(Queries \cup {OpenJob})
  /\ step \in {"run", "more", "last", "tail"}
  /\ stored \in 0..(MaxResults - 1)
  /\ ready \in Seq(Results) /\ batch \in Seq(Results)
  /\ promise \in Results \cup {NoResult}
  /\ todo \in {"none", "deliver", "count", "emit"}

One(condition) == IF condition THEN 1 ELSE 0

\* m_queueSize is the number of opens and queries on their way, whatever their
\* callers did, and the driver holds itself exactly for those.
QueueSizeExact ==
  life = "alive" =>
    /\ queueSize = One(state = "Connecting") + One(todo = "emit")
                   + Cardinality(Unfinished)
    /\ selfDriver <=> queueSize > 0

\* A result never lies unnoticed: the driver was signalled, or is about to be.
ResultNoticed ==
  life = "alive" /\ ready # <<>> =>
    "queryReady" \in Range(posted) \/ step \in {"more", "last"}

\* The destructor finds nothing left to do, and no handler goes on with results
\* of a deleted driver.  The worker, which uses it, has ended by then.
NothingLostWithDriver ==
  /\ life # "alive" =>
       /\ jobs = <<>> /\ ready = <<>> /\ batch = <<>> /\ openWaiters = <<>>
       /\ waiting = {}
  /\ life = "deleted" => step = "run" /\ Idle

\* The driver holds itself for what is on its way and for no longer, and finds it all,
\* though the worker appends and signals while the handlers take and count.
HeldExactly ==
  TypeOK /\ QueueSizeExact /\ ResultNoticed /\ NothingLostWithDriver

\* The worker opens a database only when it has none, for one listener; and the
\* driver is connected only if the worker has one.
OpenedOnce ==
  /\ OpenJob \in Range(jobs) => ~dbOpen /\ listeners = 1
  /\ life = "alive" /\ state = "Connected" => dbOpen

\* A driver the application let go of does not hold itself for ever: everything
\* on its way is answered, also exec() on a driver that is not open, and it is
\* deleted.
DriverFreed == ~owner ~> (life = "deleted")

=============================================================================
