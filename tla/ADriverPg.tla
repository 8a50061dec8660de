------------------------------ MODULE ADriverPg ------------------------------
(***************************************************************************)
(* One connection of the PostgreSQL driver outside pipeline mode           *)
(* (src/src/adriverpg.cpp): open() and its waiters, the queue of queries   *)
(* of which the first is in flight, the socket handlers, and who keeps the *)
(* driver object alive.                                                    *)
(*                                                                         *)
(* A handler resumes coroutines of the application in the middle of its    *)
(* work, and they call the driver again.  What a handler has still to do   *)
(* is in todo: the event loop starts a handler when todo is empty, the     *)
(* application runs when it is empty or just after a callback.             *)
(***************************************************************************)
EXTENDS Integers, Sequences, Functions

CONSTANTS Queries,          \* calls of exec(), reused
          NoQuery,
          Opens,            \* calls of coOpen(), reused
          Kinds,            \* subset of AllKinds
          MaxResults,       \* bound on the results of one query
          ReopenMidQuery,   \* reopening after a loss with a query in flight
          RetryAtOnce,      \* the same call again in the callback of a failed
                            \* coOpen(), or of a query lost with the connection
          ReleaseInOpen     \* the last ADatabase let go during coOpen(), in
                            \* its callback or in a slot of stateChanged()

\* "refused": libpq does not take it, as it has too many parameters.
AllKinds == {"single", "multi", "prepared", "refused"}

ASSUME ConstantsAssumption ==
  /\ NoQuery \notin Queries
  /\ "single" \in Kinds /\ Kinds \subseteq AllKinds
  /\ MaxResults \in Nat \ {0}
  /\ {ReopenMidQuery, RetryAtOnce, ReleaseInOpen} \subseteq BOOLEAN

VARIABLES
  state,         \* m_state
  broken,        \* the server closed the connection, not noticed yet
  openWaiters,   \* m_openWaiters; each holds a shared_ptr to the driver
  opens,         \* of each coOpen(): "none", "waiting", or "gone": dropped
  queue,         \* m_queuedQueries
  queries,       \* of each exec(): as opens, or in the queue although told:
                 \* "answered", or "kept" while the awaitable lives
  kind,          \* of each exec()
  preparing,     \* queries whose PREPARE is what was sent last
  prepared,      \* the statement is in m_preparedQueries
  queryRunning,  \* m_queryRunning
  inFlight,      \* the query the server works on
  results,       \* results of it read so far
  result,        \* APGQuery::result of the first query
  owner,         \* the application holds an ADatabase of the driver
  selfDriver,    \* the driver holds itself
  deleted,       \* the driver object is gone
  todo,          \* what the running handler has still to do
  emitting,      \* the waiters deliverOpenWaiters() still has to call
  finished,      \* the query popped and not yet told
  callback       \* the last step of the handler ran "open" or "query" code

connection == <<state, broken, inFlight, results>>
asked == <<opens, queries, kind>>
queued == <<queue, preparing, prepared, queryRunning, result>>
lifetime == <<owner, selfDriver, deleted>>
handler == <<todo, emitting, finished, callback>>
vars == <<connection, openWaiters, asked, queued, lifetime, handler>>

Connected == state = "Connected"
Idle == todo = <<>>

\* The application runs from the event loop or inside a callback.
AppRuns == ~deleted /\ (Idle \/ callback # "none")

Emitting == todo # <<>> /\ Head(todo) \in {"emitOk", "emitFailed"}

Fresh ==
  /\ state = "Disconnected" /\ broken = FALSE
  /\ openWaiters = <<>> /\ queue = <<>>
  /\ preparing = {} /\ prepared = FALSE /\ queryRunning = FALSE
  /\ inFlight = NoQuery /\ results = 0 /\ result = "none"
  /\ owner = TRUE /\ selfDriver = FALSE /\ deleted = FALSE
  /\ todo = <<>> /\ emitting = <<>> /\ finished = NoQuery
  /\ callback = "none"

Init ==
  /\ Fresh
  /\ opens = [o \in Opens |-> "none"]
  /\ queries = [q \in Queries |-> "none"]
  /\ kind = [q \in Queries |-> "single"]

-----------------------------------------------------------------------------
\* The driver is deleted with the last shared_ptr to it.
Unreferenced(self, waiters) == ~owner /\ ~self /\ waiters = <<>>

\* The handler goes on with the rest after running code of kind cb.
Then(rest, cb) == todo' = rest /\ callback' = cb

\* What the caller has of an answered query: nothing, or still the awaitable.
Answers == {"answered", "kept"}

\* The callback of the query has expired, or its receiver is gone.
Expired(q) == queries[q] \notin {"waiting", "kept"}

\* libpq takes the query or does not; on a closed connection it does either.
Sendable(k) == k # "refused"
Unsendable(k) == k = "refused" \/ broken

\* Only a caller that still waits notices an answer.
Told(q) == [queries EXCEPT ![q] = IF @ = "waiting" THEN "answered" ELSE @]

\* A query leaves the driver: its identity stands for a later call.
Over(q) ==
  /\ queries' = [queries EXCEPT ![q] = "none"]
  /\ kind' = [kind EXCEPT ![q] = "single"]

CallbackOf(q) == IF queries[q] = "waiting" THEN "query" ELSE "none"

\* doExec() and doExecParams(): a statement that is not known is prepared first.
doExec(q, k) ==
  /\ preparing' = IF k = "prepared" /\ ~prepared
                    THEN preparing \cup {q} ELSE preparing \ {q}
  /\ inFlight' = q /\ results' = 0

runQuery(q, k) == doExec(q, k) /\ queryRunning' = TRUE

-----------------------------------------------------------------------------
\* open(): a connected driver answers at once, and nothing changes.  Otherwise
\* the caller is recorded; the first starts the connection, the later ones join.
OpenCall(o) ==
  /\ AppRuns /\ owner /\ opens[o] = "none"
  /\ RetryAtOnce \/ ~(Emitting /\ Head(todo) = "emitFailed")
  /\ ReopenMidQuery \/ ~queryRunning \/ Connected

OpenJoin(o) ==
  /\ OpenCall(o) /\ state = "Connecting"
  /\ opens' = [opens EXCEPT ![o] = "waiting"]
  /\ openWaiters' = Append(openWaiters, o)
  /\ UNCHANGED <<connection, queries, kind, queued, lifetime, handler>>

OpenStarts(o) ==
  /\ OpenCall(o) /\ state = "Disconnected"
  /\ opens' = [opens EXCEPT ![o] = "waiting"]
  /\ openWaiters' = Append(openWaiters, o)
  /\ state' = "Connecting" /\ broken' = FALSE
  /\ inFlight' = NoQuery /\ results' = 0
  /\ UNCHANGED <<queries, kind, queued, lifetime, handler>>

\* The connection has failed already and has no socket (a host that is not
\* found, a bad option): nobody is told, and the caller waits for another open.
OpenNoSocket(o) ==
  /\ OpenCall(o) /\ state = "Disconnected"
  /\ opens' = [opens EXCEPT ![o] = "waiting"]
  /\ openWaiters' = Append(openWaiters, o)
  /\ UNCHANGED <<connection, queries, kind, queued, lifetime, handler>>

\* PQconnectStart() returns null: everybody is told before open() returns, and
\* those who had waited before.
OpenRefused(o) ==
  /\ OpenCall(o) /\ state = "Disconnected"
  /\ opens' = [p \in Opens |-> IF p \in Range(openWaiters) THEN "none" ELSE opens[p]]
  /\ openWaiters' = <<>>
  /\ UNCHANGED <<connection, queries, kind, queued, lifetime, handler>>

-----------------------------------------------------------------------------
\* exec(), all overloads, begin(), commit() and rollback().
queryShouldBeQueued == queryRunning \/ ~Connected \/ queue # <<>>

\* A query was just told that the connection is lost, and others will be.
Failing == /\ todo # <<>> /\ callback = "query"
           /\ Head(todo) \in {"flush", "nextQuery"}

NewQuery(q, k) ==
  /\ AppRuns /\ owner /\ queries[q] = "none"
  /\ RetryAtOnce \/ ~Failing
  /\ queries' = [queries EXCEPT ![q] = "waiting"]
  /\ kind' = [kind EXCEPT ![q] = k]
  /\ UNCHANGED <<opens, openWaiters, owner, deleted, handler>>

Enqueue(q) == queue' = Append(queue, q) /\ selfDriver' = TRUE

ExecQueue(q, k) ==
  /\ queryShouldBeQueued
  /\ NewQuery(q, k)
  /\ Enqueue(q)
  /\ UNCHANGED <<connection, preparing, prepared, queryRunning, result>>

\* Mutated form: sent although another query is running.
ExecSendAlways(q, k) ==
  /\ Connected /\ Sendable(k)
  /\ NewQuery(q, k)
  /\ Enqueue(q)
  /\ runQuery(q, k)
  /\ UNCHANGED <<state, broken, prepared, result>>

ExecSend(q, k) ==
  /\ ~queryShouldBeQueued /\ Sendable(k)
  /\ NewQuery(q, k)
  /\ Enqueue(q)
  /\ runQuery(q, k)
  /\ UNCHANGED <<state, broken, prepared, result>>

\* When sending fails the error is there before the caller awaits it, and
\* nothing changes.
exec(q, k) == ExecQueue(q, k) \/ ExecSend(q, k)

-----------------------------------------------------------------------------
\* The rest of what the application does.  Its coroutine, the receiver or the
\* awaitable is destroyed: the callback has expired.
DropQuery(q) ==
  /\ AppRuns /\ queries[q] \in {"waiting", "kept"}
  /\ queries' = [queries EXCEPT ![q] = "gone"]
  /\ UNCHANGED <<connection, openWaiters, opens, kind, queued, lifetime, handler>>

DropOpen(o) ==
  /\ AppRuns /\ opens[o] = "waiting"
  /\ opens' = [opens EXCEPT ![o] = "gone"]
  /\ UNCHANGED <<connection, openWaiters, queries, kind, queued, lifetime,
                 handler>>

Release ==
  /\ AppRuns /\ owner
  /\ \/ ReleaseInOpen
     \/ openWaiters = <<>> /\ (Idle \/ callback = "query")
  /\ owner' = FALSE
  /\ deleted' = (~selfDriver /\ openWaiters = <<>> /\ ~Emitting)
  /\ UNCHANGED <<connection, openWaiters, asked, queued, selfDriver, handler>>

\* A new ADatabase is made once the driver is gone.
Recreate ==
  /\ deleted /\ Idle
  /\ state' = "Disconnected" /\ broken' = FALSE
  /\ queue' = <<>>
  /\ preparing' = {} /\ prepared' = FALSE /\ queryRunning' = FALSE
  /\ inFlight' = NoQuery /\ results' = 0 /\ result' = "none"
  /\ owner' = TRUE /\ deleted' = FALSE
  /\ UNCHANGED <<openWaiters, asked, selfDriver, handler>>

-----------------------------------------------------------------------------
\* The socket notifiers.
Starts == ~deleted /\ Idle

\* The read handler drops the self reference last, the write handler does not.
Tails == {<<>>, <<"tail">>}

ServerBreaks ==
  /\ ~deleted /\ Connected /\ ~broken /\ broken' = TRUE
  /\ UNCHANGED <<state, inFlight, results, openWaiters, asked, queued,
                 lifetime, handler>>

Deliver(how, tail) ==
  /\ emitting' = openWaiters /\ openWaiters' = <<>>
  /\ todo' = <<how>> \o tail
  /\ UNCHANGED <<asked, queued, lifetime, finished>>

\* PGRES_POLLING_OK: setState() calls the slots of stateChanged().
PollOk(tail) ==
  /\ Starts /\ state = "Connecting"
  /\ state' = "Connected"
  /\ Deliver("emitOk", <<"nextQuery">> \o tail)
  /\ callback' = "open"
  /\ UNCHANGED <<broken, inFlight, results>>

PollFailed(tail) ==
  /\ Starts /\ state = "Connecting"
  /\ Deliver("emitFailed", <<"finish">> \o tail)
  /\ callback' = "none"
  /\ UNCHANGED connection

Reading == Starts /\ Connected /\ inFlight # NoQuery

\* PQgetResult() returns a result: the one before it, if any, was not the last
\* and is delivered now.  A caller that expects one result is answered by it.
ReadResult(r) ==
  /\ Reading /\ results < MaxResults
  /\ ~(inFlight \in preparing /\ results = 1)
  /\ results' = results + 1
  /\ LET q == Head(queue) IN
     IF result = "none"
       THEN UNCHANGED queries /\ Then(<<"tail">>, "none")
       ELSE /\ queries' = IF kind[q] = "multi" THEN queries ELSE Told(q)
            /\ Then(<<"tail">>, CallbackOf(q))
  /\ result' = r
  /\ UNCHANGED <<state, broken, inFlight, openWaiters, opens, kind, queue,
                 preparing, prepared, queryRunning, lifetime, emitting, finished>>

\* PQgetResult() returns null: the query in flight has ended.
EndOfQuery ==
  /\ Reading /\ results > 0
  /\ inFlight' = NoQuery /\ results' = 0
  /\ queryRunning' = FALSE /\ result' = "none"
  /\ UNCHANGED <<state, broken, openWaiters, asked, lifetime, emitting>>

\* Mutated form: the driver lets go of itself first.
QueryEndsTailFirst ==
  /\ EndOfQuery
  /\ ~(Head(queue) \in preparing /\ result = "ok")
  /\ queue' = Tail(queue) /\ finished' = Head(queue)
  /\ preparing' = preparing \ {Head(queue)}
  /\ Then(<<"tail", "nextQuery", "done">>, "none")
  /\ UNCHANGED prepared

QueryEnds ==
  /\ EndOfQuery
  /\ ~(Head(queue) \in preparing /\ result = "ok")
  /\ queue' = Tail(queue) /\ finished' = Head(queue)
  /\ preparing' = preparing \ {Head(queue)}
  /\ Then(<<"nextQuery", "done", "tail">>, "none")
  /\ UNCHANGED prepared

PrepareEnds ==
  /\ EndOfQuery
  /\ Head(queue) \in preparing /\ result = "ok"
  /\ prepared' = TRUE
  /\ preparing' = preparing \ {Head(queue)}
  /\ Then(<<"nextQuery", "tail">>, "none")
  /\ UNCHANGED <<queue, finished>>

\* PQconsumeInput() fails on the closed connection.
ReadBroken ==
  /\ Starts /\ Connected /\ broken
  /\ Then(<<"finish", "tail">>, "none")
  /\ UNCHANGED <<connection, openWaiters, asked, queued, lifetime, emitting,
                 finished>>

-----------------------------------------------------------------------------
\* The steps of a running handler.
At(step) == ~deleted /\ todo # <<>> /\ Head(todo) = step

\* deliverOpenWaiters(): the next waiter, and then the end of the vector that
\* holds the driver.
EmitNext ==
  /\ Emitting /\ ~deleted /\ emitting # <<>>
  /\ LET o == Head(emitting) IN
     /\ opens' = [opens EXCEPT ![o] = "none"]
     /\ callback' = IF opens[o] = "waiting" THEN "open" ELSE "none"
  /\ emitting' = Tail(emitting)
  /\ UNCHANGED <<connection, openWaiters, queries, kind, queued, lifetime,
                 todo, finished>>

EmitEnd ==
  /\ Emitting /\ ~deleted /\ emitting = <<>>
  /\ Then(Tail(todo), "none")
  /\ deleted' = Unreferenced(selfDriver, openWaiters)
  /\ UNCHANGED <<connection, openWaiters, asked, queued, owner, selfDriver,
                 emitting, finished>>

\* nextQuery(): queries whose callback has expired are dropped, and the first
\* other one is sent.  One that cannot be sent is told and stays in front, to be
\* dropped if its caller has let go of the awaitable, and sent again if not.
NextQueryEnds ==
  /\ At("nextQuery")
  /\ queue = <<>> \/ queryRunning
  /\ Then(Tail(todo), "none")
  /\ UNCHANGED <<connection, openWaiters, asked, queued, lifetime, emitting,
                 finished>>

NextQuerySkips ==
  /\ At("nextQuery") /\ queue # <<>> /\ ~queryRunning
  /\ Expired(Head(queue))
  /\ Over(Head(queue))
  /\ queue' = Tail(queue)
  /\ preparing' = preparing \ {Head(queue)}
  /\ callback' = "none"
  /\ UNCHANGED <<connection, openWaiters, opens, prepared, queryRunning,
                 result, lifetime, todo, emitting, finished>>

NextQuerySends ==
  /\ At("nextQuery") /\ queue # <<>> /\ ~queryRunning
  /\ ~Expired(Head(queue)) /\ Sendable(kind[Head(queue)])
  /\ runQuery(Head(queue), kind[Head(queue)])
  /\ callback' = "none"
  /\ UNCHANGED <<state, broken, openWaiters, asked, queue, prepared, result,
                 lifetime, todo, emitting, finished>>

NextQueryFails ==
  /\ At("nextQuery") /\ queue # <<>> /\ ~queryRunning
  /\ ~Expired(Head(queue)) /\ Unsendable(kind[Head(queue)])
  /\ \E answer \in Answers :
       queries' = [queries EXCEPT ![Head(queue)] = IF @ = "waiting" THEN answer ELSE @]
  /\ callback' = CallbackOf(Head(queue))
  /\ UNCHANGED <<connection, openWaiters, opens, kind, queued, lifetime, todo,
                 emitting, finished>>

\* query.done() of the query that was popped.
Done ==
  /\ At("done")
  /\ Over(finished)
  /\ Then(Tail(todo), CallbackOf(finished))
  /\ finished' = NoQuery
  /\ UNCHANGED <<connection, openWaiters, opens, queued, lifetime,
                 emitting>>

\* Mutated form: the queued queries are not told.
FinishUntold ==
  /\ At("finish")
  /\ state' = "Disconnected" /\ broken' = FALSE
  /\ inFlight' = NoQuery /\ results' = 0
  /\ prepared' = FALSE
  /\ Then(Tail(todo), "open")
  /\ UNCHANGED <<openWaiters, asked, queue, preparing, queryRunning, result,
                 lifetime, emitting, finished>>

\* finishConnection(): m_queryRunning keeps its value.
FinishConnection ==
  /\ At("finish")
  /\ state' = "Disconnected" /\ broken' = FALSE
  /\ inFlight' = NoQuery /\ results' = 0
  /\ prepared' = FALSE
  /\ Then(<<"flush">> \o Tail(todo), "open")
  /\ UNCHANGED <<openWaiters, asked, queue, preparing, queryRunning, result,
                 lifetime, emitting, finished>>

\* Mutated form: the last one is told first.
FlushLast ==
  /\ At("flush") /\ queue # <<>>
  /\ LET q == queue[Len(queue)] IN
     /\ Over(q)
     /\ callback' = CallbackOf(q)
     /\ preparing' = preparing \ {q}
  /\ queue' = SubSeq(queue, 1, Len(queue) - 1)
  /\ result' = "none"
  /\ UNCHANGED <<connection, openWaiters, opens, prepared, queryRunning,
                 lifetime, todo, emitting, finished>>

FlushNext ==
  /\ At("flush") /\ queue # <<>>
  /\ Over(Head(queue))
  /\ callback' = CallbackOf(Head(queue))
  /\ queue' = Tail(queue)
  /\ preparing' = preparing \ {Head(queue)}
  /\ result' = "none"
  /\ UNCHANGED <<connection, openWaiters, opens, prepared, queryRunning,
                 lifetime, todo, emitting, finished>>

FlushEnds ==
  /\ At("flush") /\ queue = <<>>
  /\ Then(Tail(todo), "none")
  /\ UNCHANGED <<connection, openWaiters, asked, queued, lifetime, emitting,
                 finished>>

\* The end of the read handler: the driver lets go of itself.
TailOfRead ==
  /\ At("tail")
  /\ Then(Tail(todo), "none")
  /\ selfDriver' = (selfDriver /\ queue # <<>>)
  /\ deleted' = Unreferenced(selfDriver', openWaiters)
  /\ UNCHANGED <<connection, openWaiters, asked, queued, owner, emitting,
                 finished>>

-----------------------------------------------------------------------------
Handle ==
  \/ EmitNext \/ EmitEnd \/ NextQueryEnds \/ NextQuerySkips \/ NextQuerySends
  \/ NextQueryFails \/ Done \/ FinishConnection \/ FlushNext \/ FlushEnds
  \/ TailOfRead

Poll == \E tail \in Tails : PollOk(tail) \/ PollFailed(tail)

ReadServer ==
  (\E r \in {"ok", "error"} : ReadResult(r)) \/ QueryEnds \/ PrepareEnds

Application ==
  \/ \E o \in Opens : \/ OpenJoin(o) \/ OpenStarts(o)
                      \/ OpenNoSocket(o) \/ OpenRefused(o) \/ DropOpen(o)
  \/ \E q \in Queries : (\E k \in Kinds : exec(q, k)) \/ DropQuery(q)
  \/ Release \/ Recreate

Next == Handle \/ Poll \/ ReadServer \/ ReadBroken \/ ServerBreaks \/ Application

Spec == Init /\ [][Next]_vars

\* The event loop runs the handlers, the server ends the connection attempts
\* and the queries, and a closed socket becomes readable.
Fairness == /\ WF_vars(Handle) /\ WF_vars(Poll)
            /\ WF_vars(ReadServer \/ ReadBroken)

FairSpec == Spec /\ Fairness

-----------------------------------------------------------------------------
OpenState == {"none", "waiting", "gone"}
QueryState == OpenState \cup {"answered", "kept"}

TypeOK ==
  /\ state \in {"Disconnected", "Connecting", "Connected"}
  /\ {broken, prepared, queryRunning, owner, selfDriver, deleted} \subseteq BOOLEAN
  /\ openWaiters \in Seq(Opens) /\ emitting \in Seq(Opens)
  /\ opens \in [Opens -> OpenState] /\ queries \in [Queries -> QueryState]
  /\ kind \in [Queries -> Kinds]
  /\ queue \in Seq(Queries) /\ IsInjective(queue) /\ preparing \subseteq Queries
  /\ inFlight \in Queries \cup {NoQuery} /\ finished \in Queries \cup {NoQuery}
  /\ results \in 0..MaxResults /\ result \in {"none", "ok", "error"}
  /\ todo \in Seq({"emitOk", "emitFailed", "nextQuery", "finish", "flush",
                   "done", "tail"})
  /\ callback \in {"none", "open", "query"}

\* What the server answers next belongs to the query at the front of the
\* queue: a result is never given to the caller of another query.
ResultsReachTheirQuery ==
  inFlight # NoQuery => queue # <<>> /\ Head(queue) = inFlight /\ Connected

\* While no handler runs, the queue of an open connection moves: its first
\* query is in flight.  adatabase.h on queueSize(): calls of exec() "are queued
\* internally and sent to the database".
FrontInFlight ==
  Idle /\ ~deleted /\ Connected /\ queue # <<>>
    => queryRunning /\ inFlight = Head(queue)

\* A statement is taken for prepared only in the session that prepared it.
PreparedInSession == prepared \/ preparing # {} => Connected \/ ~Idle

\* A query whose caller waits is queued, or popped and about to be told, and
\* the driver holds itself for it.
NoLostQuery ==
  \A q \in Queries : queries[q] = "waiting" =>
    /\ q \in Range(queue) \/ q = finished
    /\ selfDriver /\ ~deleted

\* The driver is not deleted under a handler that goes on using it.
\* adriverpg.cpp: "it's only safe to release ourself after all connection
\* processing took place".
NotDeletedInHandler == deleted => Idle

\* Queries are told in the order they were sent to the connection: nobody is
\* told while an earlier caller still waits, in the queue or with the query that
\* was just popped.  Except that the handler goes on to the next query before it
\* tells the popped one: the error of one that cannot be sent comes first.
Before(p, q) ==
  \/ p = finished /\ q \in Range(queue)
  \/ \E i, j \in DOMAIN queue : i < j /\ p = queue[i] /\ q = queue[j]

ToldInOrder ==
  [][\A p, q \in Queries :
       /\ Before(p, q) /\ queries[p] = "waiting" /\ queries[q] = "waiting"
       /\ queries'[q] \notin {"waiting", "gone"}
       => \/ queries'[p] # "waiting"
          \/ p = finished /\ At("nextQuery")]_vars

\* A query on a driver that is or is being connected is answered in the end,
\* with a result or with the error of the connection.
QueryAnswered ==
  \A q \in Queries :
    (queries[q] = "waiting" /\ state # "Disconnected") ~> (queries[q] # "waiting")

\* So is a caller of coOpen().
OpenAnswered ==
  \A o \in Opens : (opens[o] = "waiting") ~> (opens[o] # "waiting")

\* The queue follows the server through every session, and moves on whatever the
\* callbacks of its queries and opens do.
QueueSound ==
  /\ TypeOK
  /\ ResultsReachTheirQuery /\ FrontInFlight
  /\ PreparedInSession

\* The driver lives as long as a query or a handler needs it.
HeldWhileNeeded == NoLostQuery /\ NotDeletedInHandler

\* Every caller of exec() is answered unless one that could not be sent is kept
\* in front, and every caller of coOpen() for whom a connection is being made:
\* what is left of QueryAnswered and OpenAnswered.
AllAnswered ==
  /\ \A q \in Queries :
       (queries[q] = "waiting" /\ state # "Disconnected")
         ~> (queries[q] # "waiting" \/ \E p \in Queries : queries[p] = "kept")
  /\ \A o \in Opens :
       (opens[o] = "waiting" /\ state = "Connecting") ~> (opens[o] # "waiting")

=============================================================================
