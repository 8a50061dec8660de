-------------------------------- MODULE APool --------------------------------
(***************************************************************************)
(* One named connection pool of one thread: the entry of m_connectionPool, *)
(* the calls of APool::database() that wait for a connection or hold one,  *)
(* and the drivers the pool's factory made (src/src/apool.cpp).            *)
(*                                                                         *)
(* Everything here runs on one thread.  An action is one call into the     *)
(* pool, or one callback of the event loop, up to the point where it       *)
(* resumes a coroutine of the application: what that coroutine does next   *)
(* is one of the actions of the calls.  A driver is reduced to its         *)
(* connection state; the drivers have modules of their own.                *)
(***************************************************************************)
EXTENDS Integers, Sequences, FiniteSets, Functions

CONSTANTS Calls,        \* identities of the calls of database(), reused
          Drivers,      \* identities of ADriver objects, reused once deleted
          NoDriver,     \* a null ADatabase
          DriverKind,   \* "pg": socket driver, "threaded": worker-thread driver
          InitMaxConnections, InitMaxIdleConnections,
          MaxConnectionsValues, MaxIdleValues,  \* arguments of the setters
          MaxRemovals,     \* bound on the calls of remove()
          OpenMayFail,     \* whether the database may refuse a connection
          MayDrop,         \* whether the server may close a connection
          HooksHold,       \* whether a hook may keep a copy of its ADatabase
          ReceiverChoices, \* receivers passed to database(): "null", "alive"
          YieldGuards      \* whether callers use co_yield obj

ASSUME ConstantsAssumption ==
  /\ IsFiniteSet(Drivers)
  /\ NoDriver \notin Drivers
  /\ DriverKind \in {"pg", "threaded"}
  /\ InitMaxConnections \in Nat /\ InitMaxIdleConnections \in Nat
  /\ MaxConnectionsValues \subseteq Nat /\ MaxIdleValues \subseteq Nat
  /\ MaxRemovals \in Nat
  /\ {OpenMayFail, MayDrop, HooksHold, YieldGuards} \subseteq BOOLEAN
  /\ ReceiverChoices \subseteq {"null", "alive"}

VARIABLES
  registered,         \* the name is a key of m_connectionPool
  removals,           \* calls of remove() so far
  pool,               \* idle drivers; takeLast() and push_back() at the end
  connectionQueue,    \* calls waiting for a connection
  connectionCount,
  maximuConnections, maxIdleConnections,
  state,              \* of each driver, "none" when there is no such object
  setUp,              \* drivers whose session went through setupHook
  hooks,              \* drivers of which a hook coroutine holds a copy
  opening,            \* the driver a call's PoolOpenDelivery keeps alive
  db,                 \* the driver of the ADatabase delivered to a call
  status,             \* of a call's ACoroData, and what became of its owner
  receiver            \* of a call: "null", "alive" or "dead"

poolVars == <<registered, removals, maximuConnections, maxIdleConnections>>
vars == <<poolVars, pool, connectionQueue, connectionCount, state, setUp,
          hooks, opening, db, status, receiver>>

DriverState == {"none", "Disconnected", "Connecting", "Connected"}

\* "Dropped": the awaitable was destroyed before co_await; "Destroyed": the
\* coroutine was destroyed while suspended on it; "Dangling": its handle was
\* resumed after that.
CallStatus == {"none", "Waiting", "Suspended", "Done",
               "Dropped", "Destroyed", "Dangling"}

Idle == Range(pool)
Live == {d \in Drivers : state[d] # "none"}
LeasedTo(c) == {opening[c], db[c]} \ {NoDriver}
Leased == hooks \cup UNION {LeasedTo(c) : c \in Calls}

Awaitable(c) == status[c] \in {"Waiting", "Suspended"}

\* A queued client whose callback has not expired and whose receiver lives.
Servable(c) == receiver[c] # "dead" /\ Awaitable(c)

\* Mutated form: one connection beyond the limit.
AtLimitOffByOne == maximuConnections # 0 /\ connectionCount > maximuConnections

\* The limit applies unless it is zero.
AtLimit == maximuConnections # 0 /\ connectionCount >= maximuConnections

\* A coroutine resumed by PoolOpenDelivery::deliverOpen runs before deliverOpen
\* returns: meanwhile the event loop runs nothing else.
Unwinding == \E c \in Calls : status[c] = "Done" /\ opening[c] # NoDriver

Init ==
  /\ registered = TRUE /\ removals = 0
  /\ pool = <<>> /\ connectionQueue = <<>> /\ connectionCount = 0
  /\ maximuConnections = InitMaxConnections
  /\ maxIdleConnections = InitMaxIdleConnections
  /\ state = [d \in Drivers |-> "none"]
  /\ setUp = {} /\ hooks = {}
  /\ opening = [c \in Calls |-> NoDriver]
  /\ db = [c \in Calls |-> NoDriver]
  /\ status = [c \in Calls |-> "none"]
  /\ receiver = [c \in Calls |-> "null"]

-----------------------------------------------------------------------------
\* setupHook(db) or reuseHook(db): a coroutine that may outlive the call.
RunHook(d, held) ==
  hooks' \in IF HooksHold THEN {held, held \cup {d}} ELSE {held}

\* Mutated form: setupHook forgotten, only reuseHook is left.
SkipSetupHook(d) == setUp' = setUp /\ RunHook(d, hooks)

RunSetupHook(d) == setUp' = setUp \cup {d} /\ RunHook(d, hooks)

\* The driver object is gone; its identity may be used again.
Delete(d) == /\ state' = [state EXCEPT ![d] = "none"]
             /\ setUp' = setUp \ {d}

\* Mutated form: any client that is not gone gets the driver.
AnyServable(i) == i \in DOMAIN connectionQueue /\ Servable(connectionQueue[i])

\* The queue loop of pushDatabaseBack: clients that are gone are discarded,
\* the first that is not gets the driver.
FirstServable(i) ==
  /\ i \in DOMAIN connectionQueue
  /\ Servable(connectionQueue[i])
  /\ \A j \in 1..(i - 1) : ~Servable(connectionQueue[j])

ServeQueued(d, dbs, held) ==
  \E i \in DOMAIN connectionQueue :
    LET c == connectionQueue[i] IN
    /\ FirstServable(i)
    /\ connectionQueue' = SubSeq(connectionQueue, i + 1, Len(connectionQueue))
    /\ db' = [dbs EXCEPT ![c] = d]
    /\ status' = [status EXCEPT ![c] = "Done"]
    /\ RunHook(d, held)
    /\ UNCHANGED <<pool, connectionCount, state, setUp>>

\* Mutated form: the deleted driver stays counted.
DeleteUncounted(d, dbs, held) ==
  /\ ~\E i \in DOMAIN connectionQueue : FirstServable(i)
  /\ connectionQueue' = <<>>
  /\ IF Len(pool) >= maxIdleConnections
       THEN Delete(d) /\ pool' = pool
       ELSE pool' = Append(pool, d) /\ UNCHANGED <<state, setUp>>
  /\ db' = dbs /\ hooks' = held
  /\ UNCHANGED <<connectionCount, status>>

\* Mutated form: the driver becomes idle whoever is queued.
KeepUnserved(d, dbs, held) ==
  /\ pool' = Append(pool, d)
  /\ db' = dbs /\ hooks' = held
  /\ UNCHANGED <<connectionQueue, connectionCount, state, setUp, status>>

KeepOrDelete(d, dbs, held) ==
  /\ ~\E i \in DOMAIN connectionQueue : FirstServable(i)
  /\ connectionQueue' = <<>>
  /\ IF Len(pool) >= maxIdleConnections
       THEN /\ Delete(d)
            /\ connectionCount' = connectionCount - 1
            /\ pool' = pool
       ELSE /\ pool' = Append(pool, d)
            /\ UNCHANGED <<connectionCount, state, setUp>>
  /\ db' = dbs /\ hooks' = held
  /\ status' = status

\* The deleter of the last shared_ptr to d: dbs and held are db and hooks
\* without that reference.
Returned(dbs, held) == db' = dbs /\ hooks' = held /\ status' = status

pushDatabaseBack(d, dbs, held) ==
  \/ /\ ~registered
     /\ Delete(d) /\ Returned(dbs, held)
     /\ UNCHANGED <<pool, connectionQueue, connectionCount>>
  \/ /\ registered /\ state[d] = "Disconnected"
     /\ Delete(d) /\ Returned(dbs, held)
     /\ connectionCount' = connectionCount - 1
     /\ UNCHANGED <<pool, connectionQueue>>
  \/ /\ registered /\ state[d] = "Connecting"
     /\ Returned(dbs, held)
     /\ UNCHANGED <<pool, connectionQueue, connectionCount, state, setUp>>
  \/ /\ registered /\ state[d] = "Connected"
     /\ ServeQueued(d, dbs, held) \/ KeepOrDelete(d, dbs, held)

-----------------------------------------------------------------------------
\* APool::database(), one action per outcome.
NewCall(c, r, s) ==
  /\ status[c] = "none"
  /\ status' = [status EXCEPT ![c] = s]
  /\ receiver' = [receiver EXCEPT ![c] = r]

DatabaseNotFound(c, r) ==
  /\ ~registered
  /\ NewCall(c, r, "Done")
  /\ UNCHANGED <<poolVars, pool, connectionQueue, connectionCount, state,
                 setUp, hooks, opening, db>>

DatabaseQueue(c, r) ==
  /\ registered /\ pool = <<>> /\ AtLimit
  /\ NewCall(c, r, "Waiting")
  /\ connectionQueue' = Append(connectionQueue, c)
  /\ UNCHANGED <<poolVars, pool, connectionCount, state, setUp, hooks,
                 opening, db>>

\* PoolOpenDelivery and ADriver::open(): libpq may hand back a connection
\* without a socket, and then the open never ends.
BeginOpen(c, d) ==
  /\ opening' = [opening EXCEPT ![c] = d]
  /\ state' \in {[state EXCEPT ![d] = s] :
                   s \in IF DriverKind = "pg" /\ OpenMayFail
                           THEN {"Connecting", "Disconnected"}
                           ELSE {"Connecting"}}

DatabaseCreate(c, r) ==
  /\ registered /\ pool = <<>> /\ ~AtLimit
  /\ NewCall(c, r, "Waiting")
  /\ connectionCount' = connectionCount + 1
  /\ \E d \in Drivers \ Live : BeginOpen(c, d)
  /\ UNCHANGED <<poolVars, pool, connectionQueue, setUp, hooks, db>>

\* Mutated form: last() for takeLast().
ReadLast == pool' = pool

TakeLast == pool' = SubSeq(pool, 1, Len(pool) - 1)

DatabaseReuse(c, r) ==
  /\ registered /\ pool # <<>>
  /\ LET d == pool[Len(pool)] IN
     /\ state[d] = "Connected"
     /\ db' = [db EXCEPT ![c] = d]
     /\ RunHook(d, hooks)
  /\ TakeLast
  /\ NewCall(c, r, "Done")
  /\ UNCHANGED <<poolVars, connectionQueue, connectionCount, state, setUp,
                 opening>>

DatabaseReopen(c, r) ==
  /\ registered /\ pool # <<>>
  /\ LET d == pool[Len(pool)] IN
     /\ state[d] # "Connected"
     /\ BeginOpen(c, d)
  /\ TakeLast
  /\ NewCall(c, r, "Waiting")
  /\ UNCHANGED <<poolVars, connectionQueue, connectionCount, setUp, hooks, db>>

database(c, r) ==
  \/ DatabaseNotFound(c, r) \/ DatabaseQueue(c, r) \/ DatabaseCreate(c, r)
  \/ DatabaseReuse(c, r) \/ DatabaseReopen(c, r)

-----------------------------------------------------------------------------
\* What the caller does with its AExpectedDatabase and its ADatabase.
onlyStatus == <<poolVars, pool, connectionQueue, connectionCount, state,
                setUp, hooks, opening, db>>

Await(c) ==
  /\ status[c] = "Waiting"
  /\ status' = [status EXCEPT ![c] = "Suspended"]
  /\ UNCHANGED <<onlyStatus, receiver>>

DropAwaitable(c) ==
  /\ status[c] = "Waiting"
  /\ status' = [status EXCEPT ![c] = "Dropped"]
  /\ UNCHANGED <<onlyStatus, receiver>>

\* An object the coroutine named with co_yield was destroyed.
DestroyCoroutine(c) ==
  /\ YieldGuards
  /\ status[c] = "Suspended"
  /\ status' = [status EXCEPT ![c] = "Destroyed"]
  /\ UNCHANGED <<onlyStatus, receiver>>

\* The lambda on QObject::destroyed destroys a suspended coroutine; it only
\* stores an error when the call was not awaited yet.
DestroyReceiver(c) ==
  /\ receiver[c] = "alive"
  /\ receiver' = [receiver EXCEPT ![c] = "dead"]
  /\ status' = [status EXCEPT ![c] =
                  IF @ = "Suspended" THEN "Destroyed" ELSE @]
  /\ UNCHANGED onlyStatus

\* Mutated form: the copies that hooks hold do not count.
ReleaseShared(c) ==
  /\ db[c] # NoDriver
  /\ pushDatabaseBack(db[c], [db EXCEPT ![c] = NoDriver], hooks)
  /\ UNCHANGED <<poolVars, opening, receiver>>

\* The last copy of the ADatabase of c goes out of scope.
GiveBack(c) ==
  LET d == db[c]
      dbs == [db EXCEPT ![c] = NoDriver]
  IN IF d \in hooks
       THEN /\ db' = dbs
            /\ UNCHANGED <<pool, connectionQueue, connectionCount, state,
                           setUp, status, hooks>>
       ELSE pushDatabaseBack(d, dbs, hooks)

Release(c) ==
  /\ db[c] # NoDriver
  /\ GiveBack(c)
  /\ UNCHANGED <<poolVars, opening, receiver>>

\* A finished call: its identity stands for a later call.
EndCall(c) ==
  /\ status[c] \in {"Done", "Dropped", "Destroyed"}
  /\ LeasedTo(c) = {}
  /\ c \notin Range(connectionQueue)
  /\ status' = [status EXCEPT ![c] = "none"]
  /\ receiver' = [receiver EXCEPT ![c] = "null"]
  /\ UNCHANGED onlyStatus

-----------------------------------------------------------------------------
\* PoolOpenDelivery::deliverOpen().  A waiter whose receiver is dead is
\* skipped by the driver, so that nothing clears PoolOpenDelivery::self.
Skipped(c) == receiver[c] = "dead"

\* coroData->deliver(): a coroutine that no longer exists is resumed all the
\* same, as PoolOpenDelivery keeps its ACoroData alive.
Delivered(c) == [status EXCEPT ![c] =
                   IF @ = "Destroyed" THEN "Dangling" ELSE "Done"]

OpenSucceeds(c) ==
  LET d == opening[c] IN
  /\ ~Unwinding
  /\ d # NoDriver /\ state[d] = "Connecting"
  /\ status[c] \in {"Waiting", "Suspended", "Dropped", "Destroyed"}
  /\ state' = [state EXCEPT ![d] = "Connected"]
  /\ IF Skipped(c)
       THEN UNCHANGED <<setUp, hooks, opening, db, status>>
       ELSE /\ status' = Delivered(c)
            /\ IF registered
                 THEN RunSetupHook(d)
                 ELSE UNCHANGED <<setUp, hooks>>
            /\ IF registered /\ Awaitable(c)
                 THEN /\ db' = [db EXCEPT ![c] = d]
                      /\ opening' = [opening EXCEPT ![c] = NoDriver]
                 ELSE UNCHANGED <<opening, db>>
  /\ UNCHANGED <<poolVars, pool, connectionQueue, connectionCount, receiver>>

\* The threaded drivers change their state before they tell the waiters,
\* ADriverPg after it.
OpenFails(c) ==
  LET d == opening[c] IN
  /\ OpenMayFail /\ ~Unwinding
  /\ d # NoDriver /\ state[d] = "Connecting"
  /\ status[c] \in {"Waiting", "Suspended", "Dropped", "Destroyed"}
  /\ state' = IF DriverKind = "threaded" \/ Skipped(c)
                THEN [state EXCEPT ![d] = "Disconnected"] ELSE state
  /\ status' = IF Skipped(c) THEN status ELSE Delivered(c)
  /\ UNCHANGED <<poolVars, pool, connectionQueue, connectionCount, setUp,
                 hooks, opening, db, receiver>>

\* deliverOpen() and the driver's open handler return: the PoolOpenDelivery is
\* destroyed with the ADatabase it did not deliver.  For ADriverPg
\* pushDatabaseBack comes first and finishConnection() next.
ReleaseOpening(c) ==
  LET d == opening[c] IN
  /\ d # NoDriver /\ status[c] = "Done"
  /\ opening' = [opening EXCEPT ![c] = NoDriver]
  /\ IF d \in hooks
       THEN UNCHANGED <<pool, connectionQueue, connectionCount, state, setUp,
                        db, status, hooks>>
       ELSE IF state[d] = "Connecting" /\ registered
         THEN /\ state' = [state EXCEPT ![d] = "Disconnected"]
              /\ UNCHANGED <<pool, connectionQueue, connectionCount, setUp,
                             db, status, hooks>>
         ELSE pushDatabaseBack(d, db, hooks)
  /\ UNCHANGED <<poolVars, receiver>>

\* A hook coroutine ends; its copy may be the last one.
FinishHook(d) ==
  /\ ~Unwinding
  /\ d \in hooks
  /\ IF \E c \in Calls : d \in LeasedTo(c)
       THEN /\ hooks' = hooks \ {d}
            /\ UNCHANGED <<pool, connectionQueue, connectionCount, state,
                           setUp, db, status>>
       ELSE pushDatabaseBack(d, db, hooks \ {d})
  /\ UNCHANGED <<poolVars, opening, receiver>>

\* ADriverPg::finishConnection() after the server closed the connection; the
\* threaded drivers never leave Connected.
ConnectionLost(d) ==
  /\ MayDrop /\ DriverKind = "pg" /\ ~Unwinding
  /\ state[d] = "Connected"
  /\ state' = [state EXCEPT ![d] = "Disconnected"]
  /\ setUp' = setUp \ {d}
  /\ UNCHANGED <<poolVars, pool, connectionQueue, connectionCount, hooks,
                 opening, db, status, receiver>>

-----------------------------------------------------------------------------
\* The administration of the pool.
notAdministered == <<state, setUp, hooks, opening, db, status, receiver>>

setMaxConnections(max) ==
  /\ registered
  /\ maximuConnections' = max
  /\ UNCHANGED <<registered, removals, maxIdleConnections, pool,
                 connectionQueue, connectionCount, notAdministered>>

\* Mutated form: one idle connection less than asked for.
setMaxIdleOffByOne(max) ==
  /\ registered
  /\ maxIdleConnections' = max - 1
  /\ UNCHANGED <<registered, removals, maximuConnections, pool,
                 connectionQueue, connectionCount, notAdministered>>

setMaxIdleConnections(max) ==
  /\ registered
  /\ maxIdleConnections' = max
  /\ UNCHANGED <<registered, removals, maximuConnections, pool,
                 connectionQueue, connectionCount, notAdministered>>

\* The idle drivers are neither closed nor deleted, the queued callbacks are
\* dropped.
remove ==
  /\ registered /\ removals < MaxRemovals
  /\ registered' = FALSE /\ removals' = removals + 1
  /\ pool' = <<>> /\ connectionQueue' = <<>> /\ connectionCount' = 0
  /\ UNCHANGED <<maximuConnections, maxIdleConnections, notAdministered>>

create ==
  /\ ~registered
  /\ registered' = TRUE
  /\ maximuConnections' = InitMaxConnections
  /\ maxIdleConnections' = InitMaxIdleConnections
  /\ UNCHANGED <<removals, pool, connectionQueue, connectionCount,
                 notAdministered>>

-----------------------------------------------------------------------------
CallStep(c) ==
  \/ \E r \in ReceiverChoices : database(c, r)
  \/ Await(c) \/ DropAwaitable(c) \/ DestroyCoroutine(c)
  \/ DestroyReceiver(c) \/ Release(c) \/ EndCall(c)

DriverStep ==
  \/ \E c \in Calls : OpenSucceeds(c) \/ OpenFails(c) \/ ReleaseOpening(c)
  \/ \E d \in Drivers : FinishHook(d) \/ ConnectionLost(d)

Administer ==
  \/ \E max \in MaxConnectionsValues : setMaxConnections(max)
  \/ \E max \in MaxIdleValues : setMaxIdleConnections(max)
  \/ remove \/ create

Next == (\E c \in Calls : CallStep(c)) \/ DriverStep \/ Administer

Spec == Init /\ [][Next]_vars

\* The event loop runs every handler that is due, a worker thread answers
\* every open(), and the callers and the hooks give back what they hold.
Fairness ==
  /\ \A c \in Calls : /\ WF_vars(OpenSucceeds(c) \/ OpenFails(c))
                      /\ WF_vars(ReleaseOpening(c))
                      /\ WF_vars(Release(c))
  /\ \A d \in Drivers : WF_vars(FinishHook(d))

FairSpec == Spec /\ Fairness

-----------------------------------------------------------------------------
TypeOK ==
  /\ registered \in BOOLEAN /\ removals \in Nat
  /\ pool \in Seq(Drivers) /\ connectionQueue \in Seq(Calls)
  /\ connectionCount \in Int
  /\ maximuConnections \in Nat /\ maxIdleConnections \in Nat
  /\ state \in [Drivers -> DriverState]
  /\ setUp \subseteq Drivers /\ hooks \subseteq Drivers
  /\ opening \in [Calls -> Drivers \cup {NoDriver}]
  /\ db \in [Calls -> Drivers \cup {NoDriver}]
  /\ status \in [Calls -> CallStatus]
  /\ receiver \in [Calls -> {"null", "alive", "dead"}]

\* A connection is in one place: never twice in the idle list, never idle and
\* in use, never handed to two callers of database() at a time
\* (pushDatabaseBack and deliverDatabase wrap the same raw ADriver* in a new
\* shared_ptr for each lease).
Exclusive ==
  /\ IsInjective(pool)
  /\ Idle \cap Leased = {}
  /\ \A c, e \in Calls : LeasedTo(c) \cap LeasedTo(e) # {} => c = e

\* Nobody holds a connection that was deleted (delete and deleteLater() in
\* pushDatabaseBack).
NoDeletedInUse == Idle \cup Leased \subseteq Live

\* Until the pool is removed, connectionCount counts the driver objects that
\* exist, through every path that creates, keeps, hands on or deletes one.
CountExact == removals = 0 => connectionCount = Cardinality(Live)

\* A caller waits in connectionQueue only while there is no idle connection it
\* could have (deliverDatabase, pushDatabaseBack).
QueuedOnlyIfNoneIdle == connectionQueue # <<>> => pool = <<>>

\* Until the pool is removed, every connection handed out in the state Connected
\* went through setupHook since it was last opened, whichever path delivered it
\* (PoolOpenDelivery, takeLast, or the queue in pushDatabaseBack).
SetupBeforeUse ==
  removals = 0 =>
    \A c \in Calls : db[c] # NoDriver /\ state[db[c]] = "Connected"
                       => db[c] \in setUp

\* A caller waiting for a connection to be returned has somebody to return it:
\* a holder, a hook or an open under way (apool.h on setMaxConnections: callers
\* are queued "until a connection is returned").
QueueHasServer ==
  (\E c \in Range(connectionQueue) : Servable(c))
    => Leased # {}

\* No coroutine is resumed after it was destroyed (README, Safe Context
\* Management: co_yield prevents "dangling-pointer crashes").
NoDanglingResume == \A c \in Calls : status[c] # "Dangling"

\* The pool opens no connection beyond the limit, counting the driver objects
\* themselves and not the counter (apool.h, setMaxConnections).
LimitRespected ==
  [][removals = 0 /\ Cardinality(Live') > Cardinality(Live)
       => \/ maximuConnections = 0
          \/ Cardinality(Live') <= maximuConnections]_vars

\* Whoever is served from the queue is served before anybody who queued later.
FifoService ==
  [][\A i, j \in DOMAIN connectionQueue :
       LET c == connectionQueue[i]
           e == connectionQueue[j]
       IN i < j /\ Servable(c) /\ db[e] # db'[e] /\ db'[e] # NoDriver
            => db'[c] # NoDriver]_vars

\* A queued caller that still waits is served in the end.
QueuedServed ==
  \A c \in Calls :
    (c \in Range(connectionQueue) /\ Servable(c)) ~> ~Servable(c)

\* A connection being opened for a caller ends up delivered or given back,
\* also when the caller went away meanwhile.
OpeningEnds ==
  \A c \in Calls : (opening[c] # NoDriver) ~> (opening[c] = NoDriver)

=============================================================================
