---------------------------- MODULE ATransaction ----------------------------
(***************************************************************************)
(* A transaction on a leased connection (src/src/atransaction.cpp, begin(),*)
(* commit() and rollback() of adatabase.cpp, APool::begin() of apool.cpp): *)
(* the copies of the ATransaction in the coroutines that share it, what    *)
(* they send, what the queue of the driver makes of it, the transaction of *)
(* the server, and the end of the lease.                                   *)
(*                                                                         *)
(* The connection is leased again and again; the variables describe the    *)
(* current lease.  "pg" sends one statement at a time and skips queued     *)
(* ones nobody waits for; "threaded" stands for the drivers whose worker   *)
(* runs every statement that was posted.                                   *)
(***************************************************************************)
EXTENDS Integers, FiniteSets, SequencesExt

CONSTANTS
  Drivers,           \* kinds of driver, of {"pg", "threaded"}
  Coroutines,        \* that may hold a copy of the transaction
  MaxQueue,          \* bound on the statements that wait
  DropInBegin,       \* a caller may go away while BEGIN is under way
  DropWhileBusy,     \* the last copy may be dropped while "pg" runs a statement
  KeepAfterCommit,   \* a coroutine may go on after a commit() that was ignored
  OutliveConnection, \* a copy may be kept after its connection was lost
  CommitStalls       \* a COMMIT that fails may leave the transaction open

ASSUME ConstantsAssumption ==
  /\ Drivers \subseteq {"pg", "threaded"}
  /\ IsFiniteSet(Coroutines)
  /\ MaxQueue \in Nat \ {0}
  /\ {DropInBegin, DropWhileBusy, KeepAfterCommit, OutliveConnection, CommitStalls}
       \subseteq BOOLEAN

VARIABLES
  driver,     \* kind of the driver
  connected,  \* isConnected()
  lease,      \* the pool has not got the connection back
  queue,      \* statements in the driver; the first one is with the server
  copy,       \* coroutine -> "none", "begins" (waits for BEGIN), "free", or
              \* "waits" for a statement
  running,    \* ATransactionPrivate::running
  session,    \* the server has a transaction open
  aborted,    \* a statement of it failed
  outcome,    \* "open", "committed" or "rolledBack"
  asked,      \* every coroutine that dropped its copy had called commit()
  askers,     \* coroutines that called commit()
  failed      \* a call failed, or its coroutine was destroyed

server == <<session, aborted, outcome>>
history == <<asked, askers, failed>>
vars == <<driver, connected, lease, queue, copy, running, server, history>>

Statement == [op: {"begin", "work", "commit", "rollback"}, live: BOOLEAN,
              by: Coroutines]

Init ==
  /\ driver \in Drivers
  /\ connected = TRUE /\ lease = FALSE /\ queue = <<>>
  /\ copy = [h \in Coroutines |-> "none"] /\ running = FALSE
  /\ session = FALSE /\ aborted = FALSE /\ outcome = "open"
  /\ asked = FALSE /\ askers = {} /\ failed = FALSE

-----------------------------------------------------------------------------
\* The driver and the lease.

InFlight == connected /\ queue # <<>>

Send(op, h, live) == Append(queue, [op |-> op, by |-> h, live |-> live])

Copies == {h \in Coroutines : copy[h] # "none"}

\* Mutated form: the driver looks at its queue before the statement is popped.
KeepOrReturnLate == lease' = (Copies' # {} \/ queue # <<>>)

\* The connection goes back with its last reference: the copies hold it, and the
\* driver holds itself (selfDriver) while it has statements.
KeepOrReturn == lease' = (Copies' # {} \/ queue' # <<>>)

\* nextQuery() of "pg" pops what nobody waits for and sends the first of the rest.
NextQuery(q) ==
  LET first == SelectInSeq(q, LAMBDA s : s.live)
  IN  IF driver # "pg" THEN q
      ELSE IF first = 0 THEN <<>> ELSE SubSeq(q, first, Len(q))

-----------------------------------------------------------------------------
\* The application.

\* begin(): the pool hands out the connection, and BEGIN is sent on it.
Begin(h) ==
  /\ ~lease /\ connected
  /\ queue' = Send("begin", h, TRUE)
  /\ copy' = [copy EXCEPT ![h] = "begins"]
  /\ lease' = TRUE
  /\ asked' = TRUE /\ askers' = {} /\ failed' = FALSE
  /\ aborted' = FALSE /\ outcome' = "open"
  /\ UNCHANGED <<driver, connected, running, session>>

Free(h) == copy[h] = "free"

Share(h, other) ==
  /\ Free(h) /\ copy[other] = "none"
  /\ copy' = [copy EXCEPT ![other] = "free"]
  /\ askers' = askers \ {other}
  /\ UNCHANGED <<driver, connected, lease, queue, running, server, asked, failed>>

\* The coroutine sends a statement and waits.
Await(h, op) ==
  /\ queue' = Send(op, h, TRUE)
  /\ copy' = [copy EXCEPT ![h] = "waits"]

Work(h) ==
  /\ Free(h) /\ Len(queue) < MaxQueue
  /\ Await(h, "work")
  /\ UNCHANGED <<driver, connected, lease, running, server, history>>

\* commit() or rollback() of a transaction that is over.
NotStarted(h) ==
  /\ Free(h) /\ ~running
  /\ failed' = TRUE
  /\ UNCHANGED <<driver, connected, lease, queue, copy, running, server, asked, askers>>

\* Mutated form: the count of references is off by one.
IsSharedOffByOne == Copies # {}

IsShared == Cardinality(Copies) > 1

\* commit() of one copy among others is answered at once and sends nothing.
CommitIgnored(h) ==
  /\ Free(h) /\ running /\ IsShared
  /\ askers' = askers \cup {h}
  /\ copy' = [copy EXCEPT ![h] = IF KeepAfterCommit THEN "free" ELSE "none"]
  /\ UNCHANGED <<driver, connected, lease, queue, running, server, asked, failed>>

\* commit() of the last copy sends COMMIT; the transaction is over for the copy.
Commit(h) ==
  /\ Free(h) /\ running /\ ~IsShared
  /\ running' = FALSE
  /\ Await(h, "commit")
  /\ askers' = askers \cup {h}
  /\ UNCHANGED <<driver, connected, lease, server, asked, failed>>

\* rollback() ends the transaction for all copies.
Rollback(h) ==
  /\ Free(h) /\ running
  /\ running' = FALSE
  /\ Await(h, "rollback")
  /\ asked' = FALSE
  /\ UNCHANGED <<driver, connected, lease, server, askers, failed>>

\* The coroutine no longer waits: its statements are still in the queue.
Abandon(h) ==
  [i \in DOMAIN queue |->
     [queue[i] EXCEPT !.live = @ /\ queue[i].by # h]]

\* What the application keeps away from unless DropWhileBusy: a copy is not dropped
\* where "pg" would skip the ROLLBACK of its destructor, or a COMMIT or ROLLBACK
\* that waits behind other statements.
Careful(h) ==
  driver = "pg" =>
    \A i \in DOMAIN queue :
      \/ queue[i].by # h /\ Copies # {h}
      \/ i = 1 /\ queue[i].op \in {"commit", "rollback"}
      \/ queue[i].op = "work" /\ Copies # {h}
      \/ queue[i].op = "begin"

\* Mutated form: the destructor does not roll back.
DropSilent(h) ==
  /\ copy[h] # "none"
  /\ copy[h] = "begins" => DropInBegin
  /\ DropWhileBusy \/ Careful(h)
  /\ copy' = [copy EXCEPT ![h] = "none"]
  /\ asked' = (asked /\ h \in askers)
  /\ failed' = (failed \/ copy[h] # "free")
  /\ running' = (running /\ Copies' # {})
  /\ queue' = Abandon(h)
  /\ KeepOrReturn
  /\ UNCHANGED <<driver, connected, server, askers>>

\* A copy goes out of scope, or its coroutine is destroyed while it waits.  The
\* destructor of the last one sends ROLLBACK and drops the awaitable.
Drop(h) ==
  /\ copy[h] # "none"
  /\ copy[h] = "begins" => DropInBegin
  /\ DropWhileBusy \/ Careful(h)
  /\ copy' = [copy EXCEPT ![h] = "none"]
  /\ asked' = (asked /\ h \in askers)
  /\ failed' = (failed \/ copy[h] # "free")
  /\ running' = (running /\ Copies' # {})
  /\ queue' = IF running /\ ~running'
                 THEN Append(Abandon(h), [op |-> "rollback", by |-> h, live |-> FALSE])
                 ELSE Abandon(h)
  /\ KeepOrReturn
  /\ UNCHANGED <<driver, connected, server, askers>>

-----------------------------------------------------------------------------
\* The server and the driver.

\* What the statement does to the transaction of the server.  A failed COMMIT rolls
\* back, except in SQLite, which may answer that the database is busy.
Execute(op, ok) ==
  CASE op = "begin" -> session' = ok /\ aborted' = FALSE /\ outcome' = outcome
    [] op = "work" -> aborted' = (aborted \/ (~ok /\ session)) /\ UNCHANGED <<session, outcome>>
    [] op = "commit" ->
         /\ session' \in IF CommitStalls /\ ~ok THEN {session, FALSE} ELSE {FALSE}
         /\ outcome' = IF session' THEN outcome
                        ELSE IF ok /\ session /\ ~aborted THEN "committed"
                        ELSE "rolledBack"
         /\ aborted' = aborted
    [] op = "rollback" -> session' = FALSE /\ outcome' = "rolledBack" /\ aborted' = aborted

\* Where a coroutine goes on after its statement was answered.
After(op, ok) == IF op = "begin" /\ ~ok THEN "none" ELSE "free"

\* The statement in front is answered and the next one is sent.
Answer(ok) ==
  /\ connected /\ queue # <<>>
  /\ LET s == Head(queue) IN
       /\ Execute(s.op, ok)
       /\ copy' = IF s.live THEN [copy EXCEPT ![s.by] = After(s.op, ok)] ELSE copy
       /\ running' = (running \/ (s.live /\ ok /\ s.op = "begin"))
       /\ failed' = (failed \/ ~ok)
  /\ queue' = NextQuery(Tail(queue))
  /\ KeepOrReturn
  /\ UNCHANGED <<driver, connected, asked, askers>>

\* The first result of several: the coroutine takes it and leaves the others.
AnswerPart ==
  /\ connected /\ queue # <<>> /\ Head(queue).op = "work" /\ Head(queue).live
  /\ copy' = [copy EXCEPT ![Head(queue).by] = "free"]
  /\ queue' = [queue EXCEPT ![1].live = FALSE]
  /\ UNCHANGED <<driver, connected, lease, running, server, history>>

\* finishConnection(): everybody who waits is told, in the middle of it; "gone"
\* drop their copies there, and a ROLLBACK sent by then is thrown away with the rest.
ConnectionLost(gone) ==
  LET told == {h \in Coroutines : copy[h] \in {"begins", "waits"}} IN
  /\ driver = "pg" /\ connected
  /\ gone \subseteq told
  /\ OutliveConnection \/ gone = Copies
  /\ connected' = FALSE /\ session' = FALSE
  /\ outcome' \in {"rolledBack"} \cup
       IF queue # <<>> /\ Head(queue).op = "commit" /\ ~aborted
         THEN {"committed"} ELSE {outcome}
  /\ copy' = [h \in Coroutines |->
                IF h \in gone \/ copy[h] = "begins" THEN "none"
                ELSE IF h \in told THEN "free" ELSE copy[h]]
  /\ running' = (running /\ Copies' # {})
  /\ asked' = (asked /\ gone \subseteq askers)
  /\ failed' = TRUE
  /\ queue' = <<>>
  /\ KeepOrReturn
  /\ UNCHANGED <<driver, aborted, askers>>

\* The pool makes a new connection.
Replace ==
  /\ ~lease /\ ~connected
  /\ connected' = TRUE
  /\ UNCHANGED <<driver, lease, queue, copy, running, server, history>>

Next ==
  \/ \E h \in Coroutines : Begin(h) \/ Work(h) \/ NotStarted(h) \/ CommitIgnored(h)
                             \/ Commit(h) \/ Rollback(h) \/ Drop(h)
  \/ \E h, other \in Coroutines : Share(h, other)
  \/ \E ok \in BOOLEAN : Answer(ok)
  \/ AnswerPart
  \/ \E gone \in SUBSET Coroutines : ConnectionLost(gone)
  \/ Replace

Spec == Init /\ [][Next]_vars

\* The server answers.
FairSpec == Spec /\ WF_vars(\E ok \in BOOLEAN : Answer(ok))

-----------------------------------------------------------------------------
TypeOK ==
  /\ driver \in Drivers
  /\ {connected, lease, running, session, aborted, asked, failed} \subseteq BOOLEAN
  /\ queue \in Seq(Statement)
  /\ copy \in [Coroutines -> {"none", "begins", "free", "waits"}]
  /\ outcome \in {"open", "committed", "rolledBack"}
  /\ askers \subseteq Coroutines

\* A connection goes back to the pool only after its transaction has ended: the
\* next caller does not work in the transaction of the one before.  The destructor
\* of ATransaction promises that, without waiting for the answer to its ROLLBACK.
ReturnedClean == ~lease => ~session

\* A COMMIT or ROLLBACK that reaches the server finds the transaction it belongs to:
\* of all copies, awaited and abandoned, only one ends it.
EndedOnce ==
  InFlight /\ Head(queue).op \in {"commit", "rollback"} => session

\* When each coroutine that had a copy called commit() and nothing failed, the
\* transaction is committed, although all calls but the last were ignored.
CommittedIfAllCommit == ~lease /\ asked /\ ~failed => outcome = "committed"

\* Of all copies of a transaction one ends it, once, and as all of them asked.
EndsAsAsked == TypeOK /\ EndedOnce /\ CommittedIfAllCommit

\* When the last copy is gone the pool gets the connection back.
LeaseEnds == (lease /\ Copies = {}) ~> ~lease
=============================================================================
