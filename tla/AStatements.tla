----------------------------- MODULE AStatements -----------------------------
(***************************************************************************)
(* The worker of a driver with a thread of its own: ASqliteThread          *)
(* (src/src/ADriverSqlite.cpp), AMysqlThread (src/src/adrivermysql.cpp)    *)
(* and AOdbcThread (src/src/ADriverOdbc.cpp), call by call of the client   *)
(* library.  A handle is a sqlite3_stmt, a MYSQL_STMT or an SQLHSTMT.      *)
(*                                                                         *)
(* The driver's thread posts jobs and takes results; ADriverThreaded has   *)
(* its counters and its lifetime.  A job is a query with parameters, a     *)
(* prepared query, or a text of several commands.                          *)
(***************************************************************************)
EXTENDS Integers, FiniteSets, SequencesExt

CONSTANTS
  Drivers,          \* of {"sqlite", "mysql", "odbc"}
  Jobs,             \* jobs that may be under way together
  Ids,              \* identifications of prepared queries
  Handles,          \* handles of the client library
  None,             \* no handle, no job
  MaxCommands,      \* bound on the commands of a text
  OmitParameters,   \* a prepared query may be given no parameters
  UnpreparedSqlite, \* SQLite may refuse to prepare a prepared query
  UnopenedMysql     \* MySQL may be asked without an open connection

ASSUME WorkerAssumption ==
  /\ Drivers \subseteq {"sqlite", "mysql", "odbc"}
  /\ IsFiniteSet(Handles) /\ IsFiniteSet(Ids)
  /\ Cardinality(Ids) < Cardinality(Handles)
  /\ None \notin Handles \cup Jobs \cup Ids
  /\ MaxCommands \in Nat \ {0}
  /\ {OmitParameters, UnpreparedSqlite, UnopenedMysql} \subseteq BOOLEAN

VARIABLES
  driver,
  connected,  \* the library has an open connection
  links,      \* handles of the connection: "db", or "env" and "dbc" in ODBC
  queue,      \* jobs posted to the worker
  asked,      \* job -> what it asks: its kind, its identification, whether it has
              \* parameters, its commands
  pc,         \* what the worker does next
  job,        \* the promise it has, or None
  stmt,       \* its handle, or None
  left,       \* commands of the text that are left
  held,       \* the promise's result: the command it is of (0 for none) and its error
  cache,      \* m_preparedQueries, m_preparedStmts
  status,     \* handle -> "free", "ready" or "busy" (executed, and not reset)
  bound,      \* handle -> the job whose buffers are bound to it, or None
  broken,     \* sqlite3_reset() will repeat the error of the last step
  sent,       \* m_promisesReady: job -> its results in there
  told        \* job -> the results its caller has got

atWork == <<pc, job, stmt, left, held>>
statements == <<cache, status, bound, broken>>
workerVars == <<driver, connected, links, queue, asked, atWork, statements, sent, told>>

NothingHeld == [of |-> 0, error |-> FALSE]
Result == [of : 0 .. MaxCommands, error : BOOLEAN, last : BOOLEAN]
Ask == [kind : {"query", "prepared", "exec"}, id : Ids \cup {None},
        parameters : BOOLEAN, commands : 0 .. MaxCommands]
NoAsk == [kind |-> "query", id |-> None, parameters |-> FALSE, commands |-> 0]

WorkerInit ==
  /\ driver \in Drivers /\ connected = FALSE /\ links = {}
  /\ queue = <<>> /\ asked = [j \in Jobs |-> NoAsk]
  /\ sent = [j \in Jobs |-> <<>>] /\ told = [j \in Jobs |-> <<>>]
  /\ pc = "idle" /\ job = None /\ stmt = None /\ left = 0 /\ held = NothingHeld
  /\ cache = [i \in Ids |-> None]
  /\ status = [h \in Handles |-> "free"] /\ bound = [h \in Handles |-> None]
  /\ broken = FALSE

Is(name) == driver = name
Kind == asked[job].kind
Cached == {cache[i] : i \in Ids} \ {None}
UnderWay == ToSet(queue) \cup {job} \cup {j \in Jobs : sent[j] # <<>>}

-----------------------------------------------------------------------------
\* Connection.

\* open() gets this far, and frees what it has allocated if that is not the end.
Opened(resources) == connected' = TRUE /\ links' = resources

OpenStopped(allocated, freed) == connected' = FALSE /\ links' = allocated \ freed

\* sqlite3_open_v2() allocates a connection for a failure too.
OpenSqlite ==
  /\ Is("sqlite")
  /\ Opened({"db"}) \/ OpenStopped({"db"}, {"db"})

\* mysql_init() has no memory, or mysql_real_connect() fails.
OpenMysql ==
  /\ Is("mysql")
  /\ Opened({"db"}) \/ OpenStopped({}, {}) \/ OpenStopped({"db"}, {"db"})

\* The environment, its version, the connection handle, its timeout, the connection.
OpenOdbc ==
  /\ Is("odbc")
  /\ \/ Opened({"env", "dbc"})
     \/ OpenStopped({}, {})
     \/ OpenStopped({"env"}, {"env"})
     \/ OpenStopped({"env", "dbc"}, {"env", "dbc"})

Open ==
  /\ ~connected /\ pc = "idle"
  /\ OpenSqlite \/ OpenMysql \/ OpenOdbc
  /\ UNCHANGED <<driver, queue, asked, atWork, statements, sent, told>>

FreeCached ==
  /\ status' = [h \in Handles |-> IF h \in Cached THEN "free" ELSE status[h]]
  /\ bound' = [h \in Handles |-> IF h \in Cached THEN None ELSE bound[h]]

\* The destructors: sqlite3_close_v2() waits for the statements, which the cache
\* frees after it.
CloseSqlite == Is("sqlite") /\ FreeCached
CloseMysql == Is("mysql") /\ FreeCached
CloseOdbc == Is("odbc") /\ FreeCached

\* The driver lives until its last result was taken, and its destructor waits for the
\* worker; a new one takes its place.
Close ==
  /\ connected /\ connected' = FALSE /\ links' = {}
  /\ pc = "idle"
  /\ UnderWay \subseteq {None}
  /\ CloseSqlite \/ CloseMysql \/ CloseOdbc
  /\ cache' = [i \in Ids |-> None]
  /\ UNCHANGED <<driver, queue, asked, atWork, broken, sent, told>>

-----------------------------------------------------------------------------
\* The driver's thread.

\* exec() posts whatever the state is.  Without a connection the libraries of SQLite
\* and ODBC answer with an error, and the others of these jobs crash.
MayPost(ask) ==
  \/ connected \/ Is("odbc")
  \/ Is("sqlite") /\ (ask.kind = "prepared" => UnpreparedSqlite)
  \/ Is("mysql") /\ UnopenedMysql

PostJob(j, ask) ==
  /\ MayPost(ask) /\ j \notin UnderWay
  /\ queue' = Append(queue, j)
  /\ asked' = [asked EXCEPT ![j] = ask]
  /\ told' = [told EXCEPT ![j] = <<>>]
  /\ UNCHANGED <<driver, connected, links, atWork, statements, sent>>

\* A prepared query takes parameters, and the application gives them; a text of
\* commands takes none.
Asks ==
  [kind : {"query"}, id : {None}, parameters : BOOLEAN, commands : {1}] \cup
  [kind : {"prepared"}, id : Ids,
   parameters : IF OmitParameters THEN BOOLEAN ELSE {TRUE}, commands : {1}] \cup
  [kind : {"exec"}, id : {None}, parameters : {FALSE}, commands : 0 .. MaxCommands]

\* queryReady(): the driver takes all results at once.
Deliver ==
  /\ \E j \in Jobs : sent[j] # <<>>
  /\ told' = [j \in Jobs |-> told[j] \o sent[j]]
  /\ sent' = [j \in Jobs |-> <<>>]
  /\ UNCHANGED <<driver, connected, links, queue, asked, atWork, statements>>

-----------------------------------------------------------------------------
\* Handles.

Goto(step) == pc' = step

Fail == held' = [of |-> held.of, error |-> TRUE]

Allocate(h) ==
  /\ connected /\ status[h] = "free"
  /\ \A g \in Handles : status[g] = "free" =>
       h = CHOOSE x \in Handles : status[x] = "free"
  /\ stmt' = h
  /\ status' = [status EXCEPT ![h] = "ready"]

Free(h) ==
  /\ status' = [status EXCEPT ![h] = "free"]
  /\ bound' = [bound EXCEPT ![h] = None]

Enqueue(last) ==
  sent' = [sent EXCEPT ![job] =
              Append(@, [of |-> held.of, error |-> held.error, last |-> last])]

\* The promise is moved into the queue of results, by the scope guard.
Signal ==
  /\ Enqueue(TRUE) /\ job' = None /\ held' = NothingHeld

\* A job that is over leaves no handle of its own.
Rest == Goto("idle") /\ stmt' = None /\ left' = 0

-----------------------------------------------------------------------------
\* A job begins.

Take ==
  /\ pc = "idle" /\ queue # <<>>
  /\ job' = Head(queue) /\ queue' = Tail(queue)
  /\ LET ask == asked[Head(queue)] IN
       /\ Goto(IF ask.kind = "prepared" THEN "lookup" ELSE "prepare")
       /\ left' = ask.commands
       /\ held' = IF ask.kind = "exec" THEN NothingHeld ELSE [of |-> 1, error |-> FALSE]
  /\ UNCHANGED <<driver, connected, links, asked, stmt, statements, sent, told>>

Id == asked[job].id

\* queryPrepared(): the statement of the cache, if it has one.
LookupCached ==
  IF cache[Id] = None THEN Goto("prepare") /\ UNCHANGED stmt
                      ELSE Goto("bind") /\ stmt' = cache[Id]

LookupSqlite == Is("sqlite") /\ LookupCached /\ UNCHANGED statements
LookupMysql == Is("mysql") /\ LookupCached /\ UNCHANGED statements

\* The parameters of the last execution are unbound first.  When that fails the
\* statement is prepared anew.
LookupOdbc ==
  /\ Is("odbc")
  /\ \/ /\ LookupCached
        /\ bound' = IF cache[Id] = None THEN bound ELSE [bound EXCEPT ![cache[Id]] = None]
        /\ UNCHANGED <<cache, status, broken>>
     \/ /\ cache[Id] # None /\ Free(cache[Id])
        /\ cache' = [cache EXCEPT ![Id] = None]
        /\ Goto("prepare") /\ UNCHANGED <<stmt, broken>>

Lookup ==
  /\ pc = "lookup"
  /\ LookupSqlite \/ LookupMysql \/ LookupOdbc
  /\ UNCHANGED <<driver, connected, links, queue, asked, job, left, held, sent, told>>

-----------------------------------------------------------------------------
\* Statements are prepared.

\* The statement is prepared, and kept if the query is a prepared one.
Prepared(h) ==
  /\ Allocate(h)
  /\ cache' = IF Kind = "prepared" THEN [cache EXCEPT ![Id] = h] ELSE cache
  /\ Goto("bind") /\ UNCHANGED <<held, sent>>

\* Mutated form: a query that cannot be prepared is dropped.
NotPreparedSilent ==
  /\ Fail /\ Goto("idle")
  /\ UNCHANGED <<stmt, status, cache, sent>>

NotPrepared ==
  /\ Fail /\ Goto("signal")
  /\ UNCHANGED <<stmt, status, cache, sent>>

\* SQLite prepares each text in one call.
PrepareSqlite ==
  /\ Is("sqlite") /\ Kind # "exec"
  /\ \/ \E h \in Handles : Prepared(h)
     \/ (Kind = "prepared" => UnpreparedSqlite) /\ NotPrepared
  /\ UNCHANGED left

\* MySQL initialises a statement and prepares it; a text of commands has none.
PrepareMysql ==
  /\ Is("mysql") /\ connected
  /\ IF Kind = "exec"
       THEN Goto("execute") /\ UNCHANGED <<stmt, status, cache, held, sent>>
       ELSE (\E h \in Handles : Prepared(h)) \/ NotPrepared
  /\ UNCHANGED left

\* ODBC allocates a handle for each, also for a text.
PrepareOdbc ==
  /\ Is("odbc")
  /\ \/ /\ Kind # "exec" /\ \E h \in Handles : Prepared(h)
     \/ /\ Kind = "exec" /\ \E h \in Handles : Allocate(h)
        /\ Goto("execute") /\ UNCHANGED <<held, cache, sent>>
     \/ NotPrepared
  /\ UNCHANGED left

\* Mutated form: the promise keeps the result that was sent.
NextCommandShared ==
  /\ Is("sqlite") /\ Kind = "exec"
  /\ \/ left = 0 /\ Goto("signal") /\ UNCHANGED <<stmt, left, held, status, cache, sent>>
     \/ left > 0 /\ NotPrepared /\ UNCHANGED left
     \/ /\ connected /\ left > 0 /\ left' = left - 1 /\ Goto("prepare")
        /\ UNCHANGED <<stmt, held, status, cache, sent>>
     \/ \E h \in Handles :
          /\ left > 0 /\ Allocate(h) /\ left' = left - 1 /\ Goto("execute")
          /\ IF held.of = 0 THEN UNCHANGED sent ELSE Enqueue(TRUE)
          /\ held' = [of |-> held.of + 1, error |-> FALSE]
          /\ UNCHANGED cache

\* queryExec() of SQLite, one command of the text: it cannot be prepared, which is the
\* end of the job; or it is blank; or it is prepared, and only now the result of the
\* command before is sent.
NextCommand ==
  /\ Is("sqlite") /\ Kind = "exec"
  /\ \/ left = 0 /\ Goto("signal") /\ UNCHANGED <<stmt, left, held, status, cache, sent>>
     \/ left > 0 /\ NotPrepared /\ UNCHANGED left
     \/ /\ connected /\ left > 0 /\ left' = left - 1 /\ Goto("prepare")
        /\ UNCHANGED <<stmt, held, status, cache, sent>>
     \/ \E h \in Handles :
          /\ left > 0 /\ Allocate(h) /\ left' = left - 1 /\ Goto("execute")
          /\ IF held.of = 0 THEN UNCHANGED sent ELSE Enqueue(FALSE)
          /\ held' = [of |-> held.of + 1, error |-> FALSE]
          /\ UNCHANGED cache

Prepare ==
  /\ pc = "prepare"
  /\ PrepareSqlite \/ PrepareMysql \/ PrepareOdbc \/ NextCommand
  /\ UNCHANGED <<driver, connected, links, queue, asked, job, bound, broken, told>>

-----------------------------------------------------------------------------
\* Parameters are bound.

BindAll ==
  /\ bound' = IF asked[job].parameters THEN [bound EXCEPT ![stmt] = job] ELSE bound
  /\ Goto("execute") /\ UNCHANGED held

\* What one bad parameter leaves bound does not matter: the job is over.
BindFails == asked[job].parameters /\ Fail /\ UNCHANGED bound

\* Where a job goes that stops at its statement.
AfterStatement == IF Kind = "prepared" THEN "signal" ELSE "release"

BindSqlite == Is("sqlite") /\ (BindAll \/ (BindFails /\ Goto(AfterStatement)))
BindMysql == Is("mysql") /\ (BindAll \/ (BindFails /\ Goto(AfterStatement)))
BindOdbc == Is("odbc") /\ (BindAll \/ (BindFails /\ Goto(AfterStatement)))

Bind ==
  /\ pc = "bind"
  /\ BindSqlite \/ BindMysql \/ BindOdbc
  /\ UNCHANGED <<driver, connected, links, queue, asked, job, stmt, left, cache, status, broken,
                 sent, told>>

-----------------------------------------------------------------------------
\* Statements run, and their rows are fetched.

Ran(ok) ==
  /\ held' = [of |-> IF held.of = 0 THEN 1 ELSE held.of, error |-> ~ok]
  /\ status' = [status EXCEPT ![stmt] = "busy"]

\* sqlite3_step() to the last row, or to an error.
ExecuteSqlite(ok) ==
  /\ Is("sqlite") /\ Ran(ok) /\ broken' = ~ok
  /\ Goto(IF Kind = "prepared" THEN "signal" ELSE "release")

\* mysql_stmt_execute() and all fetches; mysql_real_query() of a text, which takes one
\* command.
ExecuteMysql(ok) ==
  /\ Is("mysql") /\ UNCHANGED broken
  /\ IF Kind = "exec"
       THEN /\ asked[job].commands # 1 => ~ok
            /\ held' = [of |-> 1, error |-> ~ok] /\ UNCHANGED status
            /\ Goto("signal")
       ELSE Ran(ok) /\ Goto(AfterStatement)

\* SQLExecute() and all fetches.  queryPrepared() closes the cursor at once; of a text
\* of commands only the first result is read.
ExecuteOdbc(ok) ==
  /\ Is("odbc") /\ UNCHANGED broken
  /\ held' = [of |-> 1, error |-> ~ok]
  /\ status' = [status EXCEPT ![stmt] = IF Kind = "prepared" THEN "ready" ELSE "busy"]
  /\ Goto(AfterStatement)

Execute(ok) ==
  /\ pc = "execute"
  /\ ExecuteSqlite(ok) \/ ExecuteMysql(ok) \/ ExecuteOdbc(ok)
  /\ UNCHANGED <<driver, connected, links, queue, asked, job, stmt, left, cache, bound, sent, told>>

\* The statement of a query or a command is freed before the result is sent; SQLite goes
\* on with the next command.
ReleaseStatement ==
  /\ pc = "release"
  /\ Free(stmt) /\ stmt' = None /\ broken' = FALSE
  /\ Goto(IF Is("sqlite") /\ Kind = "exec" /\ ~held.error THEN "prepare" ELSE "signal")
  /\ UNCHANGED <<driver, connected, links, queue, asked, job, left, held, cache, sent, told>>

-----------------------------------------------------------------------------
\* A job ends.

\* The result is sent; SQLite and MySQL reset the prepared statement after it.
Send ==
  /\ pc = "signal" /\ Signal
  /\ \/ /\ Kind = "prepared"
        /\ Is("sqlite") \/ (Is("mysql") /\ stmt # None)
        /\ Goto("reset") /\ UNCHANGED <<stmt, left>>
     \/ /\ ~(Kind = "prepared" /\ (Is("sqlite") \/ (Is("mysql") /\ stmt # None)))
        /\ Rest
  /\ UNCHANGED <<driver, connected, links, queue, asked, statements, told>>

Uncached == [i \in Ids |-> IF cache[i] = stmt THEN None ELSE cache[i]]

\* sqlite3_reset() repeats the error of the last step, and the statement is dropped.
ResetSqlite ==
  /\ Is("sqlite") /\ stmt # None /\ broken' = FALSE
  /\ IF broken
       THEN cache' = Uncached /\ Free(stmt)
       ELSE /\ status' = [status EXCEPT ![stmt] = "ready"]
            /\ bound' = [bound EXCEPT ![stmt] = None]
            /\ UNCHANGED cache

\* Mutated form: the statement that cannot be reset is closed and stays in the cache.
ResetMysqlKept ==
  /\ Is("mysql") /\ UNCHANGED broken
  /\ \/ status' = [status EXCEPT ![stmt] = "ready"] /\ UNCHANGED <<cache, bound>>
     \/ Free(stmt) /\ UNCHANGED cache

\* The parameters stay bound.
ResetMysql ==
  /\ Is("mysql") /\ UNCHANGED broken
  /\ \/ status' = [status EXCEPT ![stmt] = "ready"] /\ UNCHANGED <<cache, bound>>
     \/ cache' = Uncached /\ Free(stmt)

Reset ==
  /\ pc = "reset"
  /\ ResetSqlite \/ ResetMysql
  /\ Rest
  /\ UNCHANGED <<driver, connected, links, queue, asked, job, held, sent, told>>

Work == Take \/ Lookup \/ Prepare \/ Bind \/ (\E ok \in BOOLEAN : Execute(ok))
          \/ ReleaseStatement \/ Send \/ Reset

WorkerNext ==
  \/ Open \/ Close
  \/ \E j \in Jobs, ask \in Asks : PostJob(j, ask)
  \/ Deliver
  \/ Take \/ Lookup \/ Prepare \/ Bind
  \/ \E ok \in BOOLEAN : Execute(ok)
  \/ ReleaseStatement \/ Send \/ Reset

WorkerSpec == WorkerInit /\ [][WorkerNext]_workerVars

\* Both event loops run.
WorkerFairSpec == WorkerSpec /\ WF_workerVars(Work) /\ WF_workerVars(Deliver)

-----------------------------------------------------------------------------
WorkerTypeOK ==
  /\ driver \in Drivers /\ {connected, broken} \subseteq BOOLEAN
  /\ links \subseteq {"db", "env", "dbc"}
  /\ queue \in Seq(Jobs) /\ asked \in [Jobs -> Ask]
  /\ pc \in {"idle", "lookup", "prepare", "bind", "execute", "release", "signal", "reset"}
  /\ job \in Jobs \cup {None} /\ stmt \in Handles \cup {None}
  /\ left \in 0 .. MaxCommands
  /\ held \in [of : 0 .. MaxCommands, error : BOOLEAN]
  /\ cache \in [Ids -> Handles \cup {None}]
  /\ status \in [Handles -> {"free", "ready", "busy"}]
  /\ bound \in [Handles -> Jobs \cup {None}]
  /\ {sent, told} \subseteq [Jobs -> Seq(Result)]

\* A handle is bound and executed only when it is allocated and the execution before has
\* been reset, whatever error that one stopped at; and what it executes with are the
\* parameters of this job and not the freed ones of another.
StatementReady ==
  /\ pc \in {"bind", "execute"} /\ stmt # None => status[stmt] = "ready"
  /\ pc = "execute" /\ stmt # None =>
       bound[stmt] = IF asked[job].parameters THEN job ELSE None

\* No error path loses a handle, frees it twice or leaves it in the cache: what is
\* allocated is the cache and the statement of the job, no two queries share one, and a
\* connection that is closed, or failed to open, has none and no handle of its own.
NoStatementLost ==
  /\ {h \in Handles : status[h] # "free"} = Cached \cup ({stmt} \ {None})
  /\ \A i, k \in Ids : cache[i] = cache[k] /\ cache[i] # None => i = k
  /\ ~connected => Cached = {} /\ links = {}

\* The statements of a worker are right for the next job whatever became of this one.
StatementsSound == WorkerTypeOK /\ StatementReady /\ NoStatementLost

\* Results of j, those on their way first told.
ResultsOf(j) == told[j] \o sent[j]

\* Each job gets one result that says it is the last, after all others and once it is
\* over; the commands of a text are answered in order, none twice.
OneLastResult ==
  \A j \in Jobs :
    LET results == ResultsOf(j) IN
    /\ \A i \in 1 .. Len(results) - 1 :
         ~results[i].last /\ ~results[i].error /\ results[i].of < results[i + 1].of
    /\ results # <<>> => (Last(results).last <=> j \notin ToSet(queue) \cup {job})

\* A prepared query that the database refuses is answered with an error: the handle that
\* is reset and whose parameters are cleared afterwards exists.
ResetsStatement == pc = "reset" => stmt # None

\* MySQL is called with a connection.
HasConnection == Is("mysql") /\ pc = "prepare" => connected

\* A job that was posted is answered, on a driver that is not open too.
JobAnswered == \A j \in Jobs : j \in ToSet(queue) ~> told[j] # <<>>
=============================================================================
