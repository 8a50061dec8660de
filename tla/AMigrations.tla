----------------------------- MODULE AMigrations -----------------------------
(***************************************************************************)
(* Migrators of one database (src/src/amigrations.cpp, and the tool        *)
(* src/src/asql_migration.cpp that runs one): the parsed file, load(), the *)
(* loop of migrate() statement by statement with its transaction, the row  *)
(* of asql_migrations that holds the version, and what the scripts did to  *)
(* the schema.                                                             *)
(*                                                                         *)
(* A migrator is a process with two connections, one for its transaction   *)
(* and one for the scripts that run without.  A script is a change of the  *)
(* schema of +1 on the way up and -1 on the way down.                      *)
(***************************************************************************)
EXTENDS Integers, FiniteSetsExt, SequencesExt

CONSTANTS
  Migrators,
  Nobody,         \* holds the lock when no migrator does
  Files,          \* migration files: sets of headers
  Drivers,        \* of {"postgres", "sqlite"}
  FirstVersions,  \* versions of the database at first
  Targets,        \* arguments of migrate(), below zero for none
  FirstTogether,  \* a database without a row may get its first migrators together
  CommitStalls    \* a COMMIT of SQLite that fails leaves its transaction open

NoRow == -1  \* the database has no row for the migration

\* A header that no text follows defines no script.
Header == [version : Nat \ {0}, way : {"up", "down", "none"}, noTransaction : BOOLEAN]

ASSUME ConstantsAssumption ==
  /\ Nobody \notin Migrators
  /\ \A f \in Files : f \subseteq Header /\ IsFiniteSet(f)
  /\ \A f \in Files : \A g, h \in f :
       g.version = h.version /\ g.way = h.way => g = h
  /\ Drivers \subseteq {"postgres", "sqlite"}
  /\ FirstVersions \subseteq Nat \cup {NoRow}
  /\ Targets \subseteq Int
  /\ {FirstTogether, CommitStalls} \subseteq BOOLEAN

VARIABLES
  file, driver,
  version,   \* the version in the row, or NoRow
  schema,    \* version -> times its script is in effect
  lock,      \* who has the row (or the database, in SQLite) locked
  tx,        \* migrator -> its transaction: "none", "open", "ending" (the server
             \* has still to roll it back) or "stuck" (open, and given up)
  wrote,     \* migrators whose transaction holds a version and a script
  stale,     \* migrators whose transaction reads what has been overwritten
  pc,        \* migrator -> the statement that runs, or "idle", "loaded"
  active,    \* migrator -> AMigrationsPrivate::active
  target,    \* migrator -> resolvedTarget
  dryRun,    \* migrators in a dry run
  seen,      \* migrator -> active of migrateCoroutine()
  answer,    \* migrator -> "none", "ok" or "error", for the last call
  overtaken  \* history: migrators whose call does not go on from active(), because
             \* the version was another one at its start or has been moved since

database == <<file, driver, version, schema, lock>>
transaction == <<tx, wrote, stale>>
call == <<target, dryRun, seen>>
vars == <<database, transaction, pc, active, call, answer, overtaken>>

-----------------------------------------------------------------------------
\* The file.

Versions == UNION {{h.version : h \in f} : f \in Files}

Way(way) == {h.version : h \in {g \in file : g.way = way}}

\* The latest version of all headers, whichever way.
Latest == Max({-1} \cup {h.version : h \in file})

NoStep == [to |-> NoRow, key |-> 0, way |-> "none"]

\* Mutated form: the last script on the way up.
NextQueryLast(from, to) ==
  IF from < to
    THEN LET keys == {k \in Way("up") : from < k /\ k <= to}
         IN  IF keys = {} THEN NoStep ELSE [to |-> Max(keys), key |-> Max(keys), way |-> "up"]
    ELSE IF from \in Way("down") /\ from > to
      THEN [to |-> from - 1, key |-> from, way |-> "down"]
      ELSE NoStep

\* nextQuery(): up to the next version there is a script for, or down by the script
\* of the version itself.
NextQuery(from, to) ==
  IF from < to
    THEN LET keys == {k \in Way("up") : from < k /\ k <= to}
         IN  IF keys = {} THEN NoStep ELSE [to |-> Min(keys), key |-> Min(keys), way |-> "up"]
    ELSE IF from \in Way("down") /\ from > to
      THEN [to |-> from - 1, key |-> from, way |-> "down"]
      ELSE NoStep

\* The keys of a QMap, in order.
Ascending(keys) ==
  [n \in 1 .. Cardinality(keys) |->
     CHOOSE k \in keys : Cardinality({j \in keys : j <= k}) = n]

\* sqlListFor(): the scripts that are shown before a migration, in order.
SqlListFor(from, to) ==
  IF from < to
    THEN Ascending({k \in Way("up") : from < k /\ k <= to})
    ELSE Reverse(Ascending({k \in Way("down") : to < k /\ k <= from}))

NoTransaction(step) ==
  \E h \in file : h.version = step.key /\ h.way = step.way /\ h.noTransaction

\* The version that a reader sees: no row counts as 0.
Current == IF version = NoRow THEN 0 ELSE version

\* What a script makes of the schema; one without a transaction may run again after
\* a failure, and has its effect once.
Run(step) ==
  IF NoTransaction(step)
    THEN [schema EXCEPT ![step.key] = IF step.way = "up" THEN 1 ELSE 0]
    ELSE [schema EXCEPT ![step.key] = @ + IF step.way = "up" THEN 1 ELSE -1]

Init ==
  /\ file \in Files /\ driver \in Drivers
  /\ version \in FirstVersions
  /\ schema = [v \in Versions |-> IF v \in Way("up") /\ v <= Current THEN 1 ELSE 0]
  /\ lock = Nobody
  /\ tx = [p \in Migrators |-> "none"] /\ wrote = {} /\ stale = {}
  /\ pc = [p \in Migrators |-> "idle"] /\ active = [p \in Migrators |-> NoRow]
  /\ target = [p \in Migrators |-> 0] /\ dryRun = {}
  /\ seen = [p \in Migrators |-> 0]
  /\ answer = [p \in Migrators |-> "none"] /\ overtaken = {}

-----------------------------------------------------------------------------
\* Statements of one connection run in order: the ROLLBACK that an abandoned
\* transaction has sent comes first.
At(p, statement) == pc[p] = statement /\ tx[p] # "ending"

Goto(p, statement) == pc' = [pc EXCEPT ![p] = statement]

\* The end of the scope of t: what is still active is rolled back, unawaited.
EndScope(p) == tx' = [tx EXCEPT ![p] = IF @ = "open" THEN "ending" ELSE @]

\* The variables of migrateCoroutine() are gone.
Forget(p) ==
  /\ target' = [target EXCEPT ![p] = 0] /\ seen' = [seen EXCEPT ![p] = 0]
  /\ dryRun' = dryRun \ {p}

\* migrate() answers its caller.
Answer(p, result) ==
  /\ Goto(p, "loaded") /\ Forget(p)
  /\ answer' = [answer EXCEPT ![p] = result]

\* The process ends.
Gone(p) ==
  /\ Goto(p, "idle") /\ Forget(p)
  /\ active' = [active EXCEPT ![p] = NoRow] /\ answer' = [answer EXCEPT ![p] = "none"]

\* It answers and t goes out of scope.
Return(p, result) == Answer(p, result) /\ EndScope(p)

\* The transaction of p is over in the database.
Over(p) ==
  /\ tx' = [tx EXCEPT ![p] = "none"]
  /\ wrote' = wrote \ {p}
  /\ lock' = IF lock = p THEN Nobody ELSE lock

Step(p) == NextQuery(seen[p], target[p])

-----------------------------------------------------------------------------
\* load()

\* load() sets the search path in postgres, makes the table if there is none and reads
\* the version.
Load(p) ==
  /\ pc[p] = "idle" /\ tx[p] # "ending" /\ Goto(p, "loading")
  /\ UNCHANGED <<database, transaction, active, call, answer, overtaken>>

Loaded(p) ==
  /\ pc[p] = "loading" /\ Goto(p, "loaded")
  /\ active' = [active EXCEPT ![p] = Current]
  /\ UNCHANGED <<database, transaction, call, answer, overtaken>>

LoadFails(p) ==
  /\ pc[p] = "loading" /\ Goto(p, "idle")
  /\ UNCHANGED <<database, transaction, active, call, answer, overtaken>>

\* The tool: it has nothing to do, or is told not to.
Exit(p) ==
  /\ pc[p] = "loaded" /\ tx[p] = "none" /\ Gone(p)
  /\ UNCHANGED <<database, transaction, overtaken>>

\* The version the tool migrates to.
NewVersion(option) == IF option # -1 /\ option <= Latest THEN option ELSE Latest

-----------------------------------------------------------------------------
\* migrate()

Migrating(p) == pc[p] \notin {"idle", "loaded"} \/ tx[p] # "none"

\* What the application keeps away from unless FirstTogether.
AloneAtFirst(p) ==
  driver = "postgres" /\ version = NoRow => \A q \in Migrators \ {p} : ~Migrating(q)

\* A target below zero stands for the latest version; the tool asks for less than
\* that or the latest.
Migrate(p, option, dry) ==
  /\ pc[p] = "loaded"
  /\ FirstTogether \/ AloneAtFirst(p)
  /\ LET resolved == IF option < 0 THEN Latest ELSE option IN
       IF resolved < 0
         THEN Answer(p, "error")
         ELSE /\ Goto(p, "read")
              /\ target' = [target EXCEPT ![p] = resolved]
              /\ dryRun' = IF dry THEN dryRun \cup {p} ELSE dryRun \ {p}
              /\ answer' = [answer EXCEPT ![p] = "none"]
              /\ UNCHANGED seen
  /\ overtaken' = IF active[p] = Current THEN overtaken \ {p} ELSE overtaken \cup {p}
  /\ UNCHANGED <<database, transaction, active>>

\* The version is read without a lock: it is too new, nothing is left to do, or a
\* transaction begins.
VersionRead(p) ==
  /\ At(p, "read")
  /\ \/ Current > Latest /\ Answer(p, "error")
     \/ Current <= Latest /\ NextQuery(Current, target[p]) = NoStep /\ Answer(p, "ok")
     \/ /\ Current <= Latest /\ NextQuery(Current, target[p]) # NoStep
        /\ Goto(p, "begin")
        /\ seen' = [seen EXCEPT ![p] = Current]
        /\ UNCHANGED <<target, dryRun, answer>>
  /\ UNCHANGED <<database, transaction, active, overtaken>>

\* A connection whose transaction was left open cannot begin another one.
Begun(p) ==
  /\ At(p, "begin") /\ tx[p] = "none" /\ Goto(p, "lockedRead")
  /\ tx' = [tx EXCEPT ![p] = "open"]
  /\ stale' = stale \ {p}
  /\ UNCHANGED <<database, wrote, active, call, answer, overtaken>>

\* The version is read again, in postgres with FOR UPDATE: that waits for whoever
\* has the row, and locks it if there is one.
LockRow(p) ==
  IF driver = "postgres" /\ version # NoRow
    THEN lock = Nobody /\ lock' = p
    ELSE UNCHANGED lock

\* Mutated form: the version of the first read counts.
LockedReadFirst(p) ==
  /\ At(p, "lockedRead")
  /\ LockRow(p)
  /\ Goto(p, "update")
  /\ UNCHANGED <<file, driver, version, schema, transaction, active, call, answer, overtaken>>

\* The version that counts: too new, nothing left to do, or a script that no dry
\* run can try; otherwise the row is written first.
LockedRead(p) ==
  /\ At(p, "lockedRead")
  /\ LockRow(p)
  /\ LET step == NextQuery(Current, target[p])
         refused == Current > Latest \/ (NoTransaction(step) /\ p \in dryRun)
     IN \/ refused /\ Return(p, "error")
        \/ /\ ~refused
           /\ Goto(p, IF step = NoStep THEN "rollback" ELSE "update")
           /\ seen' = [seen EXCEPT ![p] = Current]
           /\ UNCHANGED <<target, dryRun, tx, answer>>
  /\ UNCHANGED <<file, driver, version, schema, wrote, stale, active, overtaken>>

RolledBack(p) ==
  /\ At(p, "rollback")
  /\ Over(p) /\ Answer(p, "ok")
  /\ UNCHANGED <<file, driver, version, schema, stale, active, overtaken>>

\* The new version is written in the transaction, which holds the row from here on.
\* SQLite refuses it to a transaction whose snapshot has been overwritten.
UpdateVersion(p) ==
  /\ At(p, "update")
  /\ lock \in {Nobody, p} /\ lock' = p
  /\ p \notin stale
  /\ Goto(p, "script")
  /\ UNCHANGED <<file, driver, version, schema, transaction, active, call, answer, overtaken>>

\* Mutated form: the first result set counts as the last.
ScriptCutShort(p) ==
  /\ At(p, "script") /\ ~NoTransaction(Step(p))
  /\ \/ p \in dryRun /\ Return(p, "ok")
     \/ p \notin dryRun /\ Goto(p, "commit") /\ UNCHANGED <<tx, call, answer>>
  /\ UNCHANGED <<database, wrote, stale, active, overtaken>>

\* The last result set of the script.  A dry run stops here, and its transaction goes
\* out of scope.
ScriptRun(p) ==
  /\ At(p, "script") /\ ~NoTransaction(Step(p))
  /\ wrote' = wrote \cup {p}
  /\ \/ p \in dryRun /\ Return(p, "ok")
     \/ p \notin dryRun /\ Goto(p, "commit") /\ UNCHANGED <<tx, call, answer>>
  /\ UNCHANGED <<database, stale, active, overtaken>>

\* A script of the other connection takes effect at once.  In SQLite the migrator's
\* own transaction has the database locked and it cannot run.
BareScriptRun(p) ==
  /\ At(p, "script") /\ NoTransaction(Step(p)) /\ driver # "sqlite"
  /\ schema' = Run(Step(p))
  /\ Goto(p, "commit")
  /\ UNCHANGED <<file, driver, version, lock, transaction, active, call, answer, overtaken>>

\* COMMIT in the database.
CommitTransaction(p) ==
  /\ version' = Step(p).to
  /\ schema' = IF p \in wrote THEN Run(Step(p)) ELSE schema
  /\ stale' = stale \cup
                {q \in Migrators \ {p} : driver = "sqlite" /\ tx[q] = "open" /\ pc[q] = "update"}
  /\ overtaken' = overtaken \cup (Migrators \ {p})
  /\ Over(p)

\* Mutated form: one script for each call.
CommittedOnce(p) ==
  /\ At(p, "commit")
  /\ CommitTransaction(p) /\ Answer(p, "ok")
  /\ UNCHANGED <<file, driver, active>>

\* commit() succeeds and the loop starts again.
Committed(p) ==
  /\ At(p, "commit")
  /\ CommitTransaction(p) /\ Goto(p, "read")
  /\ UNCHANGED <<file, driver, active, call, answer>>

Statements == {"read", "begin", "lockedRead", "rollback", "update", "script", "commit"}

\* Any statement may fail; t rolls back what it has not given up.
Fails(p) ==
  /\ pc[p] \in Statements \ {"commit"} /\ tx[p] # "ending"
  /\ Return(p, "error")
  /\ UNCHANGED <<database, wrote, stale, active, overtaken>>

\* commit() fails: t has given up the transaction before.  It is rolled back, or it
\* is committed and the answer is lost, or SQLite keeps it open.
CommitFails(p) ==
  /\ At(p, "commit") /\ Answer(p, "error")
  /\ \/ Over(p) /\ UNCHANGED <<version, schema, stale, overtaken>>
     \/ CommitTransaction(p)
     \/ /\ CommitStalls /\ driver = "sqlite"
        /\ tx' = [tx EXCEPT ![p] = "stuck"]
        /\ UNCHANGED <<version, schema, lock, wrote, stale, overtaken>>
  /\ UNCHANGED <<file, driver, active>>

\* The process ends; a COMMIT or a script without a transaction that was under way
\* may have taken effect.
Crash(p) ==
  /\ pc[p] # "idle" /\ Gone(p)
  /\ \/ /\ At(p, "commit") /\ CommitTransaction(p)
     \/ /\ tx' = [tx EXCEPT ![p] = IF @ = "none" THEN "none" ELSE "ending"]
        /\ \/ UNCHANGED schema
           \/ /\ At(p, "script") /\ NoTransaction(Step(p)) /\ driver # "sqlite"
              /\ schema' = Run(Step(p))
        /\ UNCHANGED <<version, lock, wrote, stale, overtaken>>
  /\ UNCHANGED <<file, driver>>

ServerRollsBack(p) ==
  /\ tx[p] = "ending" /\ Over(p)
  /\ UNCHANGED <<file, driver, version, schema, stale, pc, active, call, answer, overtaken>>

Advance(p) ==
  \/ VersionRead(p) \/ Begun(p) \/ LockedRead(p) \/ RolledBack(p) \/ UpdateVersion(p)
  \/ ScriptRun(p) \/ BareScriptRun(p) \/ Committed(p) \/ Fails(p) \/ CommitFails(p)

Next == \E p \in Migrators :
  \/ Load(p) \/ Loaded(p) \/ LoadFails(p)
  \/ Exit(p)
  \/ \E option \in Targets \cup {NewVersion(t) : t \in Targets}, dry \in BOOLEAN :
       Migrate(p, option, dry)
  \/ Advance(p) \/ Crash(p) \/ ServerRollsBack(p)

Spec == Init /\ [][Next]_vars

-----------------------------------------------------------------------------
TypeOK ==
  /\ file \in Files /\ driver \in Drivers
  /\ version \in Nat \cup {NoRow}
  /\ schema \in [Versions -> Int]
  /\ lock \in Migrators \cup {Nobody}
  /\ tx \in [Migrators -> {"none", "open", "ending", "stuck"}]
  /\ wrote \subseteq Migrators /\ stale \subseteq Migrators
  /\ pc \in [Migrators -> Statements \cup
                {"idle", "loading", "loaded"}]
  /\ active \in [Migrators -> Nat \cup {NoRow}]
  /\ target \in [Migrators -> Nat] /\ dryRun \subseteq Migrators
  /\ seen \in [Migrators -> Nat]
  /\ answer \in [Migrators -> {"none", "ok", "error"}]
  /\ overtaken \subseteq Migrators

\* Whatever fails, crashes or runs beside it, the row tells the schema: each script
\* that runs in a transaction is in effect once up to the version, and not at all
\* above.
VersionMatchesSchema ==
  \A v \in Way("up") :
    (\A h \in file : h.version = v => ~h.noTransaction)
      => schema[v] = IF v <= Current THEN 1 ELSE 0

\* The version moves from one script to the next and none is left out: what is
\* committed was planned from the committed version, and its script has had its
\* effect, with a transaction or without (unless it undoes what no script does).  A dry
\* run changes neither the version nor the schema, the schema of a script that runs
\* without a transaction included.
StepFromCurrent ==
  [][/\ version' # version =>
          \E p \in Migrators : LET step == NextQuery(Current, target[p]) IN
            /\ step.to = version'
            /\ step.key \in Way("up") => schema'[step.key] = IF step.way = "up" THEN 1 ELSE 0
     /\ <<version, schema>>' # <<version, schema>> =>
          \E p \in Migrators \ dryRun : pc'[p] # pc[p]]_vars

\* migrate() answers success when no script is left for its target.  In postgres that
\* is still so at the answer.
SuccessReached ==
  [][\A p \in Migrators \ dryRun :
       driver = "postgres" /\ answer[p] = "none" /\ answer'[p] = "ok"
         => NextQuery(Current, target[p]) = NoStep]_vars

\* No return, failure or crash leaves the row of the migration locked: who holds it
\* has a statement under way, or the server is about to roll back.
LockHeldByRunner ==
  \A p \in Migrators : lock = p =>
    tx[p] = "ending" \/ (tx[p] = "open" /\ pc[p] \in Statements)

\* The schema, the row and its lock stay together through failures and crashes.
SchemaSound == TypeOK /\ VersionMatchesSchema /\ LockHeldByRunner

\* The scripts that the tool shows, from the version it has loaded, are those that
\* migrate() runs, unless the version was moved by another migrator or an earlier call:
\* however often the loop reads the version, what is left to run from there is the
\* rest of the list, the script at hand is its first and the rest of it follows.  It
\* ends with the list, or before it on the way down at a version without a script.
ShownIsRun ==
  \A p \in Migrators \ overtaken :
    LET shown == SqlListFor(active[p], target[p])
        rest == SqlListFor(Current, target[p])
    IN
    pc[p] \in Statements =>
      /\ IsSuffix(rest, shown)
      /\ pc[p] \in {"update", "script", "commit"} =>
           /\ rest # <<>> /\ Head(rest) = Step(p).key
           /\ SqlListFor(Step(p).to, target[p]) = Tail(rest)
      /\ pc[p] = "read" /\ NextQuery(Current, target[p]) = NoStep =>
           rest = <<>> \/ (Current > target[p] /\ Current \notin Way("down"))

\* migrate() goes from active() toward its target.
FromActive ==
  \A p \in Migrators :
    pc[p] \in {"update", "script", "commit"} =>
      Step(p).key \in ToSet(SqlListFor(active[p], target[p]))
=============================================================================
