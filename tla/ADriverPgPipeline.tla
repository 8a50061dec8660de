-------------------------- MODULE ADriverPgPipeline --------------------------
(***************************************************************************)
(* The pipeline mode of the PostgreSQL driver (src/src/adriverpg.cpp):     *)
(* statements go to the server while others are under way, a sync ends     *)
(* each batch of them, and one handler takes results, ends of results and  *)
(* syncs from libpq and matches them with the queue of queries by nothing  *)
(* but their order.                                                        *)
(*                                                                         *)
(* commands is libpq's queue of what was sent and not yet taken; server    *)
(* and socket are counts from its front.  Queries outside of pipeline mode *)
(* are in ADriverPg.                                                       *)
(***************************************************************************)
EXTENDS Integers, Sequences, FiniteSets

CONSTANTS Queries,           \* calls of exec(), reused
          NoResult,
          MaxSyncs,          \* bound on the syncs the application sends ahead
          ExecWhileAborted,  \* exec() between an error and the sync that ends it
          PrepareAtRisk      \* a statement is prepared in a batch that fails

\* What was sent, and what the server made of it.
Commands == [kind : {"plain", "prepared", "prepare", "sync"}, of : Queries \cup {NoResult},
             outcome : {"sent", "ok", "failed", "skipped"}]

ASSUME ConstantsAssumption ==
  /\ NoResult \notin Commands
  /\ MaxSyncs \in Nat \ {0}
  /\ {ExecWhileAborted, PrepareAtRisk} \subseteq BOOLEAN

VARIABLES
  status,        \* pipelineStatus(): "off", "on" or "aborted"
  queue,         \* m_queuedQueries
  unsent,        \* those of the queue that were not sent
  preparing,     \* those with APGQuery::preparing
  result,        \* APGQuery::result, a command or NoResult
  prepared,      \* the statement is in m_preparedQueries
  queryRunning,  \* m_queryRunning
  syncs,         \* m_pipelineSync
  autoSync,      \* m_autoSyncTimer: "none", "idle" or "active"
  commands,      \* sent, and not yet taken from libpq
  endNext,       \* libpq's next result is the null that ends one
  buffered,      \* commands whose outcome libpq has read
  flushed,       \* commands whose outcome the server has sent
  skipping,      \* the server skips everything up to a sync
  known,         \* the statement is prepared at the server
  todo,          \* "idle", or what the running handler does: "reading", "told",
                 \* or "undefined" behaviour
  answer         \* of each query: "none" (or told its own result), "waiting", or
                 \* "wrong", told another

driver == <<queue, unsent, preparing, result, prepared, queryRunning, syncs, autoSync>>
libpq == <<status, commands, endNext, buffered>>
server == <<flushed, skipping, known>>
vars == <<driver, libpq, server, todo, answer>>

Command(kind, q) == [kind |-> kind, of |-> q, outcome |-> "sent"]
SyncCommand == Command("sync", NoResult)

Processed == Cardinality({i \in DOMAIN commands : commands[i].outcome # "sent"})

\* A connection that was just opened.
Fresh ==
  /\ status' = "off" /\ queue' = <<>> /\ unsent' = {} /\ preparing' = {}
  /\ result' = [q \in Queries |-> NoResult]
  /\ prepared' = FALSE /\ known' = FALSE /\ skipping' = FALSE
  /\ syncs' = 0 /\ autoSync' = "none"
  /\ commands' = <<>> /\ endNext' = FALSE /\ buffered' = 0 /\ flushed' = 0
  /\ todo' = "idle"

Init ==
  /\ status = "off" /\ queue = <<>> /\ unsent = {} /\ preparing = {}
  /\ result = [q \in Queries |-> NoResult]
  /\ prepared = FALSE /\ known = FALSE /\ skipping = FALSE
  /\ queryRunning = FALSE /\ syncs = 0 /\ autoSync = "none"
  /\ commands = <<>> /\ endNext = FALSE /\ buffered = 0 /\ flushed = 0
  /\ todo = "idle"
  /\ answer = [q \in Queries |-> "none"]

-----------------------------------------------------------------------------
\* The application runs from the event loop, or in the callback of a query.
AppRuns == todo \in {"idle", "told"}

\* enterPipelineMode(): the timer of the first call that asks for one stays.
Enter(timeout) ==
  /\ AppRuns /\ queue = <<>> /\ (status = "off" => commands = <<>>)
  /\ status' = IF status = "off" THEN "on" ELSE status
  /\ autoSync' = IF timeout > 0 /\ autoSync = "none" THEN "idle" ELSE autoSync
  /\ UNCHANGED <<queue, unsent, preparing, result, prepared, queryRunning, syncs,
                 commands, endNext, buffered, server, todo, answer>>

\* exitPipelineMode(), which libpq refuses while anything is to be taken from it.  The
\* application has ended its last batch before.
Exit ==
  /\ AppRuns /\ status = "on" /\ commands = <<>> /\ ~skipping
  /\ status' = "off"
  /\ UNCHANGED <<driver, commands, endNext, buffered, server, todo, answer>>

queryShouldBeQueued == status # "on" /\ (queryRunning \/ queue # <<>>)

\* doExec(), doExecParams(): a new statement is prepared and run in one go, and counts
\* as prepared from here on; an aborted pipeline only gets to prepare it.
Sent(q, k) ==
  IF k = "plain" THEN <<Command("plain", q)>>
  ELSE IF prepared THEN <<Command("prepared", q)>>
  ELSE IF status = "on" THEN <<Command("prepare", q), Command("prepared", q)>>
  ELSE <<Command("prepare", q)>>

\* The server drops what is sent before the next sync.
BatchFails == skipping /\ \A i \in DOMAIN commands :
                commands[i].kind = "sync" => commands[i].outcome # "sent"

\* Mutated form: no query starts the timer.
StartedNot == autoSync

Started == IF autoSync = "idle" THEN "active" ELSE autoSync

\* exec() in its overloads, and runQuery().
exec(q, k) ==
  /\ AppRuns /\ answer[q] # "waiting" /\ status # "off"
  /\ ExecWhileAborted \/ status = "on"
  /\ PrepareAtRisk \/ k = "plain" \/ prepared \/ ~BatchFails
  /\ answer' = [answer EXCEPT ![q] = "waiting"]
  /\ queue' = Append(queue, q)
  /\ IF queryShouldBeQueued
       THEN /\ unsent' = unsent \cup {q}
            /\ UNCHANGED <<commands, preparing, prepared, queryRunning, autoSync>>
       ELSE /\ commands' = commands \o Sent(q, k)
            /\ preparing' = IF k = "prepared" /\ ~prepared THEN preparing \cup {q} ELSE preparing
            /\ prepared' = (prepared \/ (k = "prepared" /\ status = "on"))
            /\ queryRunning' = TRUE /\ autoSync' = Started
            /\ UNCHANGED unsent
  /\ UNCHANGED <<result, syncs, status, endNext, buffered, server, todo>>

\* pipelineSync()
pipelineSync ==
  /\ commands' = Append(commands, SyncCommand)
  /\ syncs' = syncs + 1
  /\ UNCHANGED <<queue, unsent, preparing, result, prepared, queryRunning,
                 status, endNext, buffered, server, todo, answer>>

Sync ==
  /\ AppRuns /\ status # "off" /\ syncs < MaxSyncs
  /\ pipelineSync /\ UNCHANGED autoSync

TimerFires ==
  /\ todo = "idle" /\ autoSync = "active" /\ autoSync' = "idle"
  /\ IF status # "off"
       THEN pipelineSync
       ELSE UNCHANGED <<queue, unsent, preparing, result, prepared, queryRunning, syncs,
                        libpq, server, todo, answer>>

-----------------------------------------------------------------------------
\* The server takes the commands in turn.  It keeps its output until a sync, an error
\* or a full buffer.
Mark(outcome) == commands' = [commands EXCEPT ![Processed + 1].outcome = outcome]

ToRun == Processed < Len(commands)
NextCommand == commands[Processed + 1]

ServerSyncs ==
  /\ ToRun /\ NextCommand.kind = "sync"
  /\ Mark("ok") /\ skipping' = FALSE /\ flushed' = Processed + 1
  /\ UNCHANGED <<driver, status, endNext, buffered, known, todo, answer>>

ServerSkips ==
  /\ ToRun /\ NextCommand.kind # "sync" /\ skipping
  /\ Mark("skipped")
  /\ UNCHANGED <<driver, status, endNext, buffered, server, todo, answer>>

ServerRuns ==
  /\ ToRun /\ NextCommand.kind # "sync" /\ ~skipping
  /\ NextCommand.kind = "prepared" => known
  /\ NextCommand.kind = "prepare" => ~known
  /\ Mark("ok")
  /\ known' = (known \/ NextCommand.kind = "prepare")
  /\ UNCHANGED <<driver, status, endNext, buffered, flushed, skipping, todo, answer>>

\* A statement is prepared in the part of the batch that is skipped now.
PrepareSkipped ==
  \E i \in Processed + 1 .. Len(commands) :
    /\ commands[i].kind = "prepare"
    /\ \A j \in Processed + 1 .. i : commands[j].kind # "sync"

ServerFails ==
  /\ ToRun /\ NextCommand.kind # "sync" /\ ~skipping
  /\ PrepareAtRisk \/ ~PrepareSkipped
  /\ Mark("failed") /\ skipping' = TRUE /\ flushed' = Processed + 1
  /\ UNCHANGED <<driver, status, endNext, buffered, known, todo, answer>>

ServerFlushes ==
  /\ flushed < Processed /\ flushed' = Processed
  /\ UNCHANGED <<driver, libpq, skipping, known, todo, answer>>

-----------------------------------------------------------------------------
\* The handler of m_readNotify.
Read ==
  /\ todo = "idle" /\ buffered < flushed
  /\ buffered' = flushed /\ todo' = "reading"
  /\ UNCHANGED <<driver, status, commands, endNext, server, answer>>

\* The front of libpq's queue is taken.
Take ==
  /\ commands' = Tail(commands)
  /\ buffered' = IF buffered = 0 THEN 0 ELSE buffered - 1
  /\ flushed' = IF flushed = 0 THEN 0 ELSE flushed - 1

\* PQgetResult() has a null: that of a result, or because nothing is under way.
GivesEnd == endNext \/ commands = <<>>

\* What an aborted pipeline has skipped is answered by libpq itself.
GivesAborted == ~GivesEnd /\ status = "aborted" /\ Head(commands).kind # "sync"
GivesResult == ~GivesEnd /\ (GivesAborted \/ buffered > 0)

\* Mutated form: the syncs that come back are not counted.
TakeSyncUncounted ==
  /\ todo = "reading" /\ GivesResult /\ Head(commands).kind = "sync"
  /\ Take /\ status' = "on"
  /\ UNCHANGED <<driver, endNext, skipping, known, todo, answer>>

TakeSync ==
  /\ todo = "reading" /\ GivesResult /\ Head(commands).kind = "sync"
  /\ Take /\ syncs' = syncs - 1 /\ status' = "on"
  /\ UNCHANGED <<queue, unsent, preparing, result, prepared, queryRunning, autoSync,
                 endNext, skipping, known, todo, answer>>

\* A result belongs to the query in front, and there is no other check of that.
TakeResult ==
  /\ todo = "reading" /\ GivesResult /\ Head(commands).kind # "sync"
  /\ Take /\ endNext' = TRUE
  /\ LET outcome == IF GivesAborted THEN "skipped" ELSE Head(commands).outcome IN
       /\ status' = IF outcome = "failed" THEN "aborted" ELSE status
       /\ IF queue = <<>>
            THEN todo' = "undefined" /\ UNCHANGED result
            ELSE /\ result' = [result EXCEPT
                      ![Head(queue)] = [Head(commands) EXCEPT !.outcome = outcome]]
                 /\ UNCHANGED todo
  /\ UNCHANGED <<queue, unsent, preparing, prepared, queryRunning, syncs, autoSync,
                 skipping, known, answer>>

\* The result that the query has is what it was sent for.
ToldRight(q) ==
  /\ result[q] # NoResult /\ result[q].of = q
  /\ result[q].outcome = "ok" => result[q].kind # "prepare"

\* The statement was prepared; its own result is still to come.
PrepareEnds(q) == q \in preparing /\ result[q] # NoResult /\ result[q].outcome = "ok"

\* A null ends the query in front, whose callback runs, or its PREPARE.
TakeEnd ==
  /\ todo = "reading" /\ GivesEnd /\ endNext' = FALSE
  /\ IF queue = <<>>
       THEN /\ todo' = "told"
            /\ UNCHANGED <<queue, unsent, preparing, result, prepared, queryRunning, answer>>
       ELSE LET q == Head(queue) IN
            /\ queryRunning' = FALSE
            /\ result' = [result EXCEPT ![q] = NoResult]
            /\ preparing' = preparing \ {q} /\ unsent' = unsent \ {q}
            /\ IF PrepareEnds(q)
                 THEN /\ prepared' = TRUE /\ todo' = "told"
                      /\ UNCHANGED <<queue, answer>>
                 ELSE /\ queue' = Tail(queue)
                      /\ todo' = IF result[q] = NoResult THEN "undefined" ELSE "told"
                      /\ answer' = [answer EXCEPT ![q] = IF ToldRight(q) THEN "none" ELSE "wrong"]
                      /\ UNCHANGED prepared
  /\ UNCHANGED <<syncs, autoSync, status, commands, buffered, server>>

\* The rest of the handler: the timer is started for queries that no sync follows.
LeaveLoop ==
  /\ todo' = "idle"
  /\ autoSync' = IF queue # <<>> /\ syncs = 0 /\ status # "off" THEN Started ELSE autoSync
  /\ UNCHANGED <<queue, unsent, preparing, result, prepared, queryRunning, syncs,
                 libpq, server, answer>>

\* After a null the loop goes on only if a sync is to come.
AfterEnd ==
  /\ todo = "told"
  /\ \/ (status = "off" \/ syncs = 0) /\ LeaveLoop
     \/ /\ status # "off" /\ syncs # 0 /\ todo' = "reading"
        /\ UNCHANGED <<driver, libpq, server, answer>>

Busy == todo = "reading" /\ ~GivesEnd /\ ~GivesResult /\ LeaveLoop

\* The connection breaks and every query is told so.  It is opened again.
ConnectionLost ==
  /\ todo = "idle" /\ status # "off" /\ Fresh
  /\ answer' = [q \in Queries |-> "none"]
  /\ UNCHANGED queryRunning

Handler == Read \/ TakeSync \/ TakeResult \/ TakeEnd \/ AfterEnd \/ Busy
Server == ServerSyncs \/ ServerSkips \/ ServerRuns \/ ServerFails

Next ==
  \/ \E timeout \in 0 .. 1 : Enter(timeout)
  \/ Exit
  \/ \E q \in Queries, k \in {"plain", "prepared"} : exec(q, k)
  \/ Sync \/ TimerFires
  \/ Server \/ ServerFlushes
  \/ Handler
  \/ ConnectionLost

Spec == Init /\ [][Next]_vars

\* The event loop calls its handlers and timers, and the server works.  Nothing makes
\* it send what it holds back.
FairSpec == Spec /\ WF_vars(Handler) /\ WF_vars(Server) /\ WF_vars(TimerFires)

-----------------------------------------------------------------------------
TypeOK ==
  /\ status \in {"off", "on", "aborted"}
  /\ queue \in Seq(Queries) /\ unsent \subseteq Queries /\ preparing \subseteq Queries
  /\ commands \in Seq(Commands) /\ result \in [Queries -> Commands \cup {NoResult}]
  /\ {prepared, queryRunning, endNext, skipping, known} \subseteq BOOLEAN
  /\ syncs \in Nat /\ autoSync \in {"none", "idle", "active"}
  /\ buffered \in 0 .. flushed /\ flushed \in 0 .. Processed
  /\ todo \in {"idle", "reading", "told", "undefined"}
  /\ answer \in [Queries -> {"none", "waiting", "wrong"}]

\* With statements, PREPAREs and syncs under way together, errors that skip the rest of
\* a batch, and the callback of one query sending the next, every result goes to
\* the query that was sent for it, and no result finds the queue empty.
ResultsReachTheirQuery ==
  /\ TypeOK
  /\ todo # "undefined"
  /\ \A q \in Queries : answer[q] # "wrong"

\* m_pipelineSync, by which the loop of the handler goes on after a null, counts the
\* syncs under way.  One too many is a loop that never ends; one too few leaves
\* results that libpq has read, and no event announces them again.
SyncsCounted ==
  syncs = Cardinality({i \in DOMAIN commands : commands[i].kind = "sync"})

\* The queue, the syncs and what the server sends stay in step.
PipelineSound == ResultsReachTheirQuery /\ SyncsCounted

\* With the timer, a query in pipeline mode is answered though the application never
\* sends a sync, and however often the connection breaks.
QueryAnswered ==
  \A q \in Queries :
    answer[q] = "waiting" /\ autoSync # "none" ~> answer[q] # "waiting"

\* A query in pipeline mode is sent at once.
SentAtOnce == unsent = {}
=============================================================================
