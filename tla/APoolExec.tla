------------------------------ MODULE APoolExec ------------------------------
(***************************************************************************)
(* The pool together with the queries it runs for its callers:             *)
(* APool::exec() and APool::execMulti() each start a coroutine that waits  *)
(* for a connection, sends the query on it, hands the results to the       *)
(* caller and ends (src/src/apool.cpp).  They compete for the connections  *)
(* with callers of database().                                             *)
(*                                                                         *)
(* The end of the coroutine does not give the connection back by itself:   *)
(* the driver's exec() keeps the lease in selfDriver until its queue is    *)
(* empty (adriverpg.cpp, ADriverSqlite.cpp).  db[c] stands for the lease,  *)
(* whoever holds it: the coroutine, or the driver while the query runs.    *)
(*                                                                         *)
(* The coroutine awaits database() before exec() returns: its call is      *)
(* suspended from the start, and "Waiting" of APool stands for that.       *)
(***************************************************************************)
EXTENDS APoolRefinement

CONSTANTS ExecReceivers,  \* receivers passed to exec(): "null", "alive"
          MaxResults,     \* bound on the result sets of a query
          \* Circumstances, FALSE in the passing runs:
          EarlyGuards,    \* a co_yield guard may destroy the caller of exec()
                          \* while the call waits for a connection
          OpenOutlived    \* a receiver may die while its connection is opened

ASSUME ExecAssumption ==
  /\ ExecReceivers \subseteq {"null", "alive"}
  /\ MaxResults \in Nat \ {0}
  /\ {EarlyGuards, OpenOutlived} \subseteq BOOLEAN

VARIABLES
  step,     \* of a call of exec(), "none" for database()
  multi,    \* the calls of execMulti()
  owned,    \* the calls of exec() whose receiver lives
  caller,   \* of exec(): it awaits the result or discarded the awaitable
  told      \* results handed to the caller

execVars == <<step, multi, owned, caller, told>>
allVars == <<vars, execVars>>

\* "Executes": the coroutine awaits the query; "Drains": it is gone, and the
\* driver still has results of the query to come.
Step == {"none", "Gets", "Executes", "Drains", "Ended"}

Caller == {"none", "Awaits", "Discarded", "Destroyed", "Answered"}

ExecInit ==
  /\ Init
  /\ step = [c \in Calls |-> "none"]
  /\ multi = {} /\ owned = {}
  /\ caller = [c \in Calls |-> "none"]
  /\ told = [c \in Calls |-> 0]

\* Mutated form: the error of database() is not handed on.
Untold(c, callers) == told' = told /\ caller' = callers

\* The last result of a call, or the error of database(), is handed on.
Tell(c, callers) ==
  /\ told' = [told EXCEPT ![c] = @ + 1]
  /\ caller' = [callers EXCEPT ![c] = IF @ = "Awaits" THEN "Answered" ELSE @]

\* The coroutine runs as far as it can: to the await of database(), or past it
\* to the await of the query, or to its end with the error of database().
Advance(c, st, dbs, callers) ==
  \/ /\ st # "Done"
     /\ step' = [step EXCEPT ![c] = "Gets"]
     /\ caller' = callers
     /\ UNCHANGED told
  \/ /\ st = "Done" /\ dbs[c] # NoDriver
     /\ step' = [step EXCEPT ![c] = "Executes"]
     /\ caller' = callers
     /\ UNCHANGED told
  \/ /\ st = "Done" /\ dbs[c] = NoDriver
     /\ step' = [step EXCEPT ![c] = "Ended"]
     /\ Tell(c, callers)

\* Mutated form: the connection is asked for without the receiver.
NoReceiver(r) == "null"

\* The receiver that exec() passes on to database().
PassedReceiver(r) == r

-----------------------------------------------------------------------------
\* exec() or execMulti() with the name of this pool, or with another that is
\* not a pool.  A caller awaits the result at once, with the text of the query
\* in its frame, or discards it, which it does with a literal only.
NewExec(c, r, m, how) ==
  /\ multi' = IF m THEN multi \cup {c} ELSE multi \ {c}
  /\ owned' = IF r = "alive" THEN owned \cup {c} ELSE owned \ {c}
  /\ Advance(c, status'[c], db', [caller EXCEPT ![c] = how])

execNamed(c, r, m, how) ==
  /\ database(c, PassedReceiver(r))
  /\ NewExec(c, r, m, how)

execUnknown(c, r, m, how) ==
  /\ NewCall(c, PassedReceiver(r), "Done")
  /\ UNCHANGED onlyStatus
  /\ NewExec(c, r, m, how)

exec(c) ==
  \E r \in ExecReceivers, m \in BOOLEAN, how \in {"Awaits", "Discarded"} :
    execNamed(c, r, m, how) \/ execUnknown(c, r, m, how)

\* co_await database() returns: at once when the event loop called, from a
\* timer when another coroutine was running.
Resume(c) ==
  /\ step[c] = "Gets" /\ status[c] = "Done"
  /\ Advance(c, "Done", db, caller)
  /\ UNCHANGED <<vars, multi, owned>>

\* The last result: the caller is resumed from a timer, when the connection is
\* back.
LastResult(c) ==
  /\ Release(c)
  /\ step' = [step EXCEPT ![c] = "Ended"]
  /\ Tell(c, caller)

\* Another one: execMulti() goes on to the last, exec() ends with the first and
\* leaves the others to the driver.
NextResult(c) ==
  /\ told[c] + 1 < MaxResults
  /\ IF c \in multi
       THEN /\ told' = [told EXCEPT ![c] = @ + 1]
            /\ UNCHANGED <<step, caller>>
       ELSE /\ step' = [step EXCEPT ![c] = "Drains"]
            /\ Tell(c, caller)
  /\ UNCHANGED vars

\* The driver has a result for the coroutine; an error is the last one.
ResultArrives(c, last) ==
  /\ step[c] = "Executes"
  /\ IF last THEN LastResult(c) ELSE NextResult(c)
  /\ UNCHANGED <<multi, owned>>

\* Mutated form: the driver keeps itself, as nobody took the result.
DrainKept(c) ==
  /\ step[c] = "Drains"
  /\ step' = [step EXCEPT ![c] = "Ended"]
  /\ UNCHANGED <<vars, multi, owned, caller, told>>

\* The last result of a query nobody waits for: the driver lets go of itself.
Drain(c) ==
  /\ step[c] = "Drains"
  /\ Release(c)
  /\ step' = [step EXCEPT ![c] = "Ended"]
  /\ UNCHANGED <<multi, owned, caller, told>>

-----------------------------------------------------------------------------
\* The frame of the caller goes, and the text of its query with it.
CallerDestroyed(c) ==
  caller' = [caller EXCEPT ![c] = IF @ = "Awaits" THEN "Destroyed" ELSE @]

\* The receiver of exec() dies: it destroys the caller that awaits the result
\* and then the coroutine in its await of database(), if that has it too.  A
\* coroutine whose resume is put off to a timer is left to ACoroExpected.
ReceiverDiesInDatabase(c) ==
  /\ c \in owned /\ step[c] = "Gets" /\ Awaitable(c)
  /\ OpenOutlived \/ opening[c] = NoDriver
  /\ owned' = owned \ {c}
  /\ CallerDestroyed(c)
  /\ IF receiver[c] = "alive"
       THEN /\ receiver' = [receiver EXCEPT ![c] = "dead"]
            /\ status' = [status EXCEPT ![c] = "Destroyed"]
            /\ step' = [step EXCEPT ![c] = "Ended"]
            /\ UNCHANGED onlyStatus
       ELSE UNCHANGED <<vars, step>>
  /\ UNCHANGED <<multi, told>>

\* In its await of the query: the query stays with the driver.
ReceiverDiesInQuery(c) ==
  /\ c \in owned /\ step[c] = "Executes"
  /\ owned' = owned \ {c}
  /\ CallerDestroyed(c)
  /\ step' = [step EXCEPT ![c] = "Drains"]
  /\ UNCHANGED <<vars, multi, told>>

\* The object a caller without a receiver named with co_yield dies.
GuardDies(c) ==
  /\ c \notin owned /\ caller[c] = "Awaits"
  /\ EarlyGuards \/ step[c] = "Executes"
  /\ CallerDestroyed(c)
  /\ UNCHANGED <<vars, step, multi, owned, told>>

\* The identity of a finished call of exec() stands for a later call.
EndExec(c) ==
  /\ step[c] = "Ended"
  /\ EndCall(c)
  /\ step' = [step EXCEPT ![c] = "none"]
  /\ caller' = [caller EXCEPT ![c] = "none"]
  /\ told' = [told EXCEPT ![c] = 0]
  /\ multi' = multi \ {c} /\ owned' = owned \ {c}

-----------------------------------------------------------------------------
ExecStep(c) ==
  \/ exec(c) \/ Resume(c)
  \/ ReceiverDiesInDatabase(c) \/ ReceiverDiesInQuery(c) \/ GuardDies(c)
  \/ EndExec(c)

ServerStep ==
  \E c \in Calls : Drain(c) \/ \E last \in BOOLEAN : ResultArrives(c, last)

\* A call of database() is made, awaited and given back as in APool.
PoolStep ==
  /\ (\E c \in Calls : step[c] = "none" /\ CallStep(c)) \/ DriverStep \/ Administer
  /\ UNCHANGED execVars

ExecNext == PoolStep \/ ServerStep \/ \E c \in Calls : ExecStep(c)

\* As in APool; the server answers every query, and a timer resumes what was
\* put off.
ExecFairness ==
  /\ \A c \in Calls :
       /\ WF_allVars(PoolStep /\ (OpenSucceeds(c) \/ OpenFails(c)))
       /\ WF_allVars(PoolStep /\ ReleaseOpening(c))
       /\ WF_allVars(PoolStep /\ Release(c))
       /\ WF_allVars(Resume(c))
       /\ WF_allVars(Drain(c) \/ ResultArrives(c, TRUE))
  /\ \A d \in Drivers : WF_allVars(PoolStep /\ FinishHook(d))

ExecSpec == ExecInit /\ [][ExecNext]_allVars /\ ExecFairness

-----------------------------------------------------------------------------
ExecTypeOK ==
  /\ step \in [Calls -> Step]
  /\ multi \cup owned \subseteq Calls
  /\ caller \in [Calls -> Caller]
  /\ told \in [Calls -> 0..MaxResults]

\* The text of a query that is still to be sent exists: exec() takes a view and
\* reads it when the connection comes, after its own caller may have gone.
TextAlive ==
  /\ ExecTypeOK
  /\ \A c \in Calls : step[c] = "Gets" => caller[c] # "Destroyed"

\* Whoever awaits exec() is answered or destroyed by its receiver: through the
\* queue, behind connections whose drivers still drain a query nobody waits for,
\* with a pool that does not exist.
ExecAnswered ==
  \A c \in Calls : (caller[c] = "Awaits") ~> (caller[c] # "Awaits")

=============================================================================
