------------------------- MODULE AMigrations_proofs -------------------------
(***************************************************************************)
(* Proofs about AMigrations for any migrators, files and targets, under    *)
(* the circumstances of the passing run (Careful); the last theorem holds  *)
(* in all circumstances.                                                   *)
(***************************************************************************)
EXTENDS AMigrations, FiniteSetTheorems, SequenceTheorems, WellFoundedInduction, TLAPS

Careful == ~FirstTogether /\ ~CommitStalls

-----------------------------------------------------------------------------
(***************************************************************************)
(* The inductive invariant.                                                *)
(***************************************************************************)

InTransaction == {"lockedRead", "rollback", "update", "script", "commit"}

\* A migrator has its transaction open exactly at the statements of it, and has
\* written once its script has run in it.
Scoped ==
  \A p \in Migrators :
    /\ tx[p] # "stuck"
    /\ tx[p] = "open" <=> pc[p] \in InTransaction
    /\ p \in wrote => pc[p] = "commit" \/ tx[p] = "ending"
    /\ pc[p] = "commit" => (p \in wrote <=> ~NoTransaction(Step(p)))

\* Before postgres has a row to lock, one migrator works.
Working(p) == pc[p] \in Statements \/ tx[p] # "none"

Alone ==
  driver = "postgres" /\ version = NoRow =>
    \A p, q \in Migrators : Working(p) /\ Working(q) => p = q

\* What has been read counts for as long as it is used: the lock is held.
Held ==
  \A p \in Migrators :
    /\ lock = p => tx[p] \in {"open", "ending"}
    /\ pc[p] \in {"script", "commit"} => lock = p
    /\ driver = "postgres" /\ version # NoRow /\ pc[p] \in {"update", "rollback"}
         => lock = p

\* SQLite finds out at the first write.
Counts(p) ==
  \/ pc[p] \in {"script", "commit"}
  \/ pc[p] = "update" /\ (driver = "sqlite" => p \notin stale)

Planned ==
  \A p \in Migrators :
    /\ Counts(p) => seen[p] = Current /\ Step(p) # NoStep
    /\ driver = "postgres" /\ pc[p] = "rollback" => seen[p] = Current /\ Step(p) = NoStep
    /\ pc[p] \in {"update", "script", "commit"} /\ p \in dryRun => ~NoTransaction(Step(p))
    /\ pc[p] = "commit" => p \notin dryRun

\* A script without a transaction has had its effect when its version is committed.
Effect ==
  \A p \in Migrators :
    pc[p] = "commit" /\ NoTransaction(Step(p)) =>
      schema[Step(p).key] = IF Step(p).way = "up" THEN 1 ELSE 0

WithoutTransaction(v, way) ==
  \E h \in file : h.version = v /\ h.way = way /\ h.noTransaction

\* The schema, way by way: only a script without a transaction may be ahead of the
\* version.
Applied ==
  \A v \in Way("up") :
    /\ ~WithoutTransaction(v, "up") /\ v > Current => schema[v] = 0
    /\ ~WithoutTransaction(v, "down") /\ v <= Current => schema[v] = 1

IInv ==
  TypeOK /\ Scoped /\ Alone /\ Held /\ Planned /\ Effect /\ Applied

-----------------------------------------------------------------------------
(***************************************************************************)
(* The file and its next script.                                           *)
(***************************************************************************)

LEMMA Least ==
  ASSUME NEW S \in SUBSET Nat, S # {}
  PROVE  Min(S) \in S /\ \A k \in S : Min(S) <= k
  <1> DEFINE below == {pair \in Nat \X Nat : pair[1] < pair[2]}
  <1>1. IsWellFoundedOn(below, Nat)
    BY NatLessThanWellFounded DEF OpToRel
  <1>2. PICK n \in S : \A m \in S : ~(<<m, n>> \in below)
    <2> HIDE DEF below
    <2> QED
      BY <1>1, WFMin
  <1>3. \A m \in S : n <= m
    <2> SUFFICES ASSUME NEW m \in S, ~(n <= m) PROVE FALSE
      OBVIOUS
    <2>1. m \in Nat /\ n \in Nat /\ m < n
      OBVIOUS
    <2>2. <<m, n>> \in Nat \X Nat /\ <<m, n>>[1] = m /\ <<m, n>>[2] = n
      BY <2>1
    <2> QED
      BY <1>2, <2>1, <2>2
  <1> QED
    BY <1>3 DEF Min

\* A smallest set of integers without a greatest would lose that by one element less.
LEMMA Greatest ==
  ASSUME NEW S, S \subseteq Int, IsFiniteSet(S), S # {}
  PROVE  Max(S) \in S
  <1> DEFINE Topped(T) == \E x \in T : \A y \in T : x >= y
             Sizes == {n \in Nat : \E T \in SUBSET Int :
                         /\ IsFiniteSet(T) /\ T # {} /\ Cardinality(T) = n /\ ~Topped(T)}
  <1>1. ASSUME ~Topped(S) PROVE FALSE
    <2>1. Cardinality(S) \in Sizes
      BY <1>1, FS_CardinalityType
    <2>2. PICK n \in Sizes : \A m \in Sizes : n <= m
      <3>1. Sizes \in SUBSET Nat /\ Sizes # {}
        BY <2>1
      <3> QED
        BY <3>1, Least
    <2>3. PICK T \in SUBSET Int :
            IsFiniteSet(T) /\ T # {} /\ Cardinality(T) = n /\ ~Topped(T)
      BY <2>2
    <2>4. PICK x \in T : TRUE
      BY <2>3
    <2>5. IsFiniteSet(T \ {x}) /\ Cardinality(T \ {x}) = n - 1 /\ n - 1 \in Nat
      <3>1. IsFiniteSet(T \ {x}) /\ Cardinality(T \ {x}) = Cardinality(T) - 1
        BY <2>3, <2>4, FS_RemoveElement
      <3>2. Cardinality(T \ {x}) \in Nat
        BY <3>1, FS_CardinalityType
      <3> QED
        BY <2>3, <3>1, <3>2
    <2>6. CASE T \ {x} = {}
      <3>1. T = {x}
        BY <2>4, <2>6
      <3> QED
        BY <2>3, <2>4, <3>1
    <2>7. CASE T \ {x} # {}
      <3>1. Topped(T \ {x})
        <4>1. ~Topped(T \ {x}) => n - 1 \in Sizes
          BY <2>3, <2>5, <2>7
        <4> QED
          BY <2>2, <2>5, <4>1
      <3>2. PICK y \in T \ {x} : \A z \in T \ {x} : y >= z
        BY <3>1
      <3>3. y \in Int /\ x \in Int
        BY <2>3, <2>4, <3>2
      <3>4. CASE y >= x
        <4>1. \A z \in T : y >= z
          BY <3>2, <3>4
        <4> QED
          BY <2>3, <3>2, <4>1
      <3>5. CASE x >= y
        <4>1. \A z \in T : x >= z
          BY <2>3, <3>2, <3>3, <3>5
        <4> QED
          BY <2>3, <2>4, <4>1
      <3> QED
        BY <3>3, <3>4, <3>5
    <2> QED
      BY <2>6, <2>7
  <1> QED
    BY <1>1 DEF Max

LEMMA FileOK ==
  ASSUME TypeOK
  PROVE  /\ \A h \in file : h \in Header /\ h.version \in Nat \ {0} /\ h.version \in Versions
         /\ Latest \in Int
         /\ \A way : Way(way) \subseteq Versions /\ Way(way) \subseteq Nat \ {0}
  <1>1. file \in Files /\ file \subseteq Header /\ IsFiniteSet(file)
    BY ConstantsAssumption DEF TypeOK
  <1>2. \A h \in file : h.version \in Nat \ {0} /\ h.version \in Versions
    BY <1>1 DEF Header, Versions
  <1>3. Latest \in Int
    <2> DEFINE versions == {h.version : h \in file}
    <2>1. IsFiniteSet(versions)
      <3>1. [h \in file |-> h.version] \in Surjection(file, versions)
        BY DEF Surjection
      <3> QED
        BY <1>1, <3>1, FS_Surjection
    <2>2. IsFiniteSet({-1} \cup versions)
      BY <2>1, FS_Singleton, FS_Union
    <2>3. {-1} \cup versions \subseteq Int
      BY <1>2
    <2>4. Max({-1} \cup versions) \in {-1} \cup versions
      BY <2>2, <2>3, Greatest
    <2> QED
      BY <2>3, <2>4 DEF Latest
  <1> QED
    BY <1>1, <1>2, <1>3 DEF Way

\* The next script is the first above the version, or that of the version itself.
Upward(step, from, to) ==
  /\ step.way = "up" /\ step.key \in Way("up") /\ step.to = step.key
  /\ from < step.key /\ step.key <= to
  /\ \A k \in Way("up") : k <= from \/ k >= step.key

Downward(step, from, to) ==
  /\ step.way = "down" /\ step.key \in Way("down") /\ step.key = from
  /\ step.to = from - 1 /\ from > to

LEMMA NextScript ==
  ASSUME TypeOK, NEW from \in Nat, NEW to \in Nat, NEW step,
         step = NextQuery(from, to), step # NoStep
  PROVE  /\ Upward(step, from, to) \/ Downward(step, from, to)
         /\ step.to \in Nat /\ step.key \in Nat \ {0} /\ step.key \in Versions
         /\ NoTransaction(step) <=> WithoutTransaction(step.key, step.way)
  <1> DEFINE keys == {k \in Way("up") : from < k /\ k <= to}
  <1>1. Way("up") \subseteq Nat \ {0} /\ Way("down") \subseteq Nat \ {0}
        /\ Way("up") \subseteq Versions /\ Way("down") \subseteq Versions
    BY FileOK
  <1>2. CASE from < to
    <2>1. keys # {} /\ step = [to |-> Min(keys), key |-> Min(keys), way |-> "up"]
      BY <1>2 DEF NextQuery
    <2>2. Min(keys) \in keys /\ \A k \in keys : Min(keys) <= k
      BY <1>1, <2>1, Least
    <2>3. \A k \in Way("up") : k <= from \/ k >= Min(keys)
      BY <1>1, <1>2, <2>2
    <2> QED
      BY <1>1, <2>1, <2>2, <2>3 DEF Upward, NoTransaction, WithoutTransaction
  <1>3. CASE ~(from < to)
    <2>1. /\ step = [to |-> from - 1, key |-> from, way |-> "down"]
          /\ from \in Way("down") /\ from > to
      BY <1>3 DEF NextQuery
    <2> QED
      BY <1>1, <2>1 DEF Downward, NoTransaction, WithoutTransaction
  <1> QED
    BY <1>2, <1>3

\* What the migrator p has planned.
LEMMA Plan ==
  ASSUME TypeOK, Planned, NEW p \in Migrators, Counts(p)
  PROVE  /\ Upward(Step(p), Current, target[p]) \/ Downward(Step(p), Current, target[p])
         /\ Step(p).to \in Nat /\ Step(p).key \in Nat \ {0} /\ Step(p).key \in Versions
         /\ NoTransaction(Step(p)) <=> WithoutTransaction(Step(p).key, Step(p).way)
  <1>1. seen[p] = Current /\ Step(p) # NoStep /\ seen[p] \in Nat /\ target[p] \in Nat
    BY DEF Planned, TypeOK
  <1> QED
    BY <1>1, NextScript DEF Step

-----------------------------------------------------------------------------
(***************************************************************************)
(* The invariant holds of every reachable state.                           *)
(***************************************************************************)

\* Who is overtaken is a migrator.
LEMMA OvertakenStep ==
  ASSUME overtaken \subseteq Migrators, [Next]_vars
  PROVE  overtaken' \subseteq Migrators
  <1>1. ASSUME NEW p \in Migrators, Advance(p)
        PROVE  overtaken' \subseteq Migrators
    BY <1>1 DEF Advance, VersionRead, Begun, LockedRead, RolledBack, UpdateVersion, ScriptRun,
       BareScriptRun, Committed, Fails, CommitFails, CommitTransaction
  <1>2. ASSUME NEW p \in Migrators, NEW option, NEW dry, Migrate(p, option, dry)
        PROVE  overtaken' \subseteq Migrators
    BY <1>2 DEF Migrate
  <1>3. ASSUME NEW p \in Migrators,
               \/ Load(p) \/ Loaded(p) \/ LoadFails(p) \/ Exit(p)
               \/ Crash(p) \/ ServerRollsBack(p)
        PROVE  overtaken' \subseteq Migrators
    BY <1>3 DEF Load, Loaded, LoadFails, Exit, Crash, CommitTransaction, ServerRollsBack
  <1> QED
    BY <1>1, <1>2, <1>3 DEF Next, vars

LEMMA InitIInv == Init => IInv
  <1> SUFFICES ASSUME Init PROVE IInv
    OBVIOUS
  <1> USE ConstantsAssumption DEF Init
  <1>1. Current \in Nat
    BY DEF Current, NoRow
  <1>2. TypeOK
    BY DEF TypeOK, NoRow, Statements
  <1>3. Applied
    <2>1. \A v \in Way("up") : v \in Nat /\ v \in Versions
      BY <1>2, FileOK
    <2>2. \A v \in Way("up") : v > Current => ~(v <= Current)
      BY <1>1, <2>1
    <2> QED
      BY <2>1, <2>2 DEF Applied
  <1>4. Scoped /\ Alone
    BY DEF Scoped, Alone, Working, InTransaction, Statements
  <1>5. Held /\ Planned /\ Effect
    BY DEF Held, Planned, Counts, Effect
  <1> QED
    BY <1>2, <1>3, <1>4, <1>5 DEF IInv

\* The effect of a script on the schema.
LEMMA RunEffect ==
  ASSUME IInv, NEW p \in Migrators, pc[p] \in {"script", "commit"}
  PROVE  /\ Run(Step(p)) \in [Versions -> Int]
         /\ \A v \in Versions : v # Step(p).key => Run(Step(p))[v] = schema[v]
         /\ NoTransaction(Step(p)) \/ Step(p).key \in Way("up") =>
              Run(Step(p))[Step(p).key] = IF Step(p).way = "up" THEN 1 ELSE 0
  <1> DEFINE step == Step(p)
  <1>1. Counts(p)
    BY DEF Counts
  <1>2. /\ Upward(step, Current, target[p]) \/ Downward(step, Current, target[p])
        /\ step.key \in Nat \ {0} /\ step.key \in Versions
        /\ NoTransaction(step) <=> WithoutTransaction(step.key, step.way)
    BY <1>1, Plan DEF IInv
  <1>3. schema \in [Versions -> Int] /\ schema[step.key] \in Int
    BY <1>2 DEF IInv, TypeOK
  <1>4. Current \in Nat
    BY DEF IInv, TypeOK, Current, NoRow
  <1> HIDE DEF step
  <1>5. CASE NoTransaction(step)
    BY <1>2, <1>3, <1>5 DEF Run, step
  <1>6. CASE ~NoTransaction(step)
    <2>1. /\ Run(step) = [schema EXCEPT ![step.key] = @ + IF step.way = "up" THEN 1 ELSE -1]
          /\ Run(step) \in [Versions -> Int]
      BY <1>2, <1>3, <1>6 DEF Run
    <2>2. /\ Run(step)[step.key] = schema[step.key] + (IF step.way = "up" THEN 1 ELSE -1)
          /\ \A v \in Versions : v # step.key => Run(step)[v] = schema[v]
      BY <1>2, <1>3, <2>1
    <2>3. ASSUME step.key \in Way("up")
          PROVE  schema[step.key] = IF step.way = "up" THEN 0 ELSE 1
      <3>1. CASE step.way = "up"
        <4>1. ~WithoutTransaction(step.key, "up") /\ step.key > Current
          BY <1>2, <1>4, <1>6, <3>1 DEF Upward, Downward
        <4> QED
          BY <2>3, <3>1, <4>1 DEF IInv, Applied
      <3>2. CASE step.way = "down"
        <4>1. ~WithoutTransaction(step.key, "down") /\ step.key <= Current
          BY <1>2, <1>4, <1>6, <3>2 DEF Upward, Downward
        <4> QED
          BY <2>3, <3>2, <4>1 DEF IInv, Applied
      <3> QED
        BY <1>2, <3>1, <3>2 DEF Upward, Downward
    <2> QED
      BY <1>2, <1>6, <2>1, <2>2, <2>3 DEF Upward, Downward, step
  <1> QED
    BY <1>5, <1>6

\* A script that runs without a transaction, and a COMMIT, keep the schema in step.
LEMMA BareApplied ==
  ASSUME IInv, NEW p \in Migrators, pc[p] = "script", NoTransaction(Step(p)),
         file' = file, version' = version, schema' = Run(Step(p))
  PROVE  /\ schema' \in [Versions -> Int] /\ Applied'
         /\ schema'[Step(p).key] = IF Step(p).way = "up" THEN 1 ELSE 0
  <1> DEFINE step == Step(p)
  <1>1. /\ schema' \in [Versions -> Int]
        /\ \A v \in Versions : v # step.key => schema'[v] = schema[v]
        /\ schema'[step.key] = IF step.way = "up" THEN 1 ELSE 0
    BY RunEffect
  <1>2. /\ Upward(step, Current, target[p]) \/ Downward(step, Current, target[p])
        /\ step.key \in Nat \ {0} /\ WithoutTransaction(step.key, step.way)
    BY Plan DEF IInv, Counts
  <1>3. Current \in Nat /\ Current' = Current
    BY DEF IInv, TypeOK, Current, NoRow
  <1>4. \A v \in Way("up") : v \in Versions /\ v \in Nat
    BY FileOK DEF IInv
  <1> HIDE DEF step
  <1>5. ASSUME NEW v \in Way("up")
        PROVE  /\ ~WithoutTransaction(v, "up") /\ v > Current => schema'[v] = 0
               /\ ~WithoutTransaction(v, "down") /\ v <= Current => schema'[v] = 1
    <2>1. CASE v = step.key
      BY <1>1, <1>2, <1>3, <2>1 DEF Upward, Downward
    <2>2. CASE v # step.key
      BY <1>1, <1>4, <2>2 DEF IInv, Applied
    <2> QED
      BY <2>1, <2>2
  <1>6. Applied'
    BY <1>3, <1>5 DEF Applied, Way, WithoutTransaction
  <1> QED
    BY <1>1, <1>6 DEF step

LEMMA CommitApplied ==
  ASSUME IInv, NEW p \in Migrators, pc[p] = "commit", file' = file,
         version' = Step(p).to, schema' = IF p \in wrote THEN Run(Step(p)) ELSE schema
  PROVE  /\ schema' \in [Versions -> Int] /\ version' \in Nat /\ Applied'
         /\ Step(p).key \in Way("up") =>
              schema'[Step(p).key] = IF Step(p).way = "up" THEN 1 ELSE 0
  <1> DEFINE step == Step(p)
  <1>1. /\ Upward(step, Current, target[p]) \/ Downward(step, Current, target[p])
        /\ step.key \in Nat \ {0} /\ step.key \in Versions /\ step.to \in Nat
    BY Plan DEF IInv, Counts
  <1>2. p \in wrote <=> ~NoTransaction(step)
    BY DEF IInv, Scoped
  <1>3. /\ schema' \in [Versions -> Int]
        /\ \A v \in Versions : v # step.key => schema'[v] = schema[v]
        /\ step.key \in Way("up") => schema'[step.key] = IF step.way = "up" THEN 1 ELSE 0
    <2>1. CASE p \in wrote
      BY <2>1, RunEffect
    <2>2. CASE p \notin wrote
      BY <1>2, <2>2 DEF IInv, Effect, TypeOK
    <2> QED
      BY <2>1, <2>2
  <1>4. Current \in Nat /\ Current' = step.to
    BY <1>1 DEF IInv, TypeOK, Current, NoRow
  <1>5. \A v \in Way("up") : v \in Versions /\ v \in Nat
    BY FileOK DEF IInv
  <1> HIDE DEF step
  <1>6. ASSUME NEW v \in Way("up")
        PROVE  /\ ~WithoutTransaction(v, "up") /\ v > step.to => schema'[v] = 0
               /\ ~WithoutTransaction(v, "down") /\ v <= step.to => schema'[v] = 1
    <2>1. CASE v = step.key
      BY <1>1, <1>3, <1>4, <1>5, <2>1 DEF Upward, Downward
    <2>2. CASE v # step.key
      <3>1. /\ schema'[v] = schema[v] /\ v \in Nat
            /\ v > step.to => v > Current
            /\ v <= step.to => v <= Current
        BY <1>1, <1>3, <1>4, <1>5, <2>2 DEF Upward, Downward
      <3> QED
        BY <3>1 DEF IInv, Applied
    <2> QED
      BY <2>1, <2>2
  <1>7. Applied'
    BY <1>4, <1>6 DEF Applied, Way, WithoutTransaction
  <1> QED
    BY <1>1, <1>3, <1>7 DEF step

\* What a statement of p leaves alone.
Others(p) ==
  /\ file' = file /\ driver' = driver
  /\ \A q \in Migrators \ {p} :
       /\ tx'[q] = tx[q] /\ pc'[q] = pc[q] /\ seen'[q] = seen[q] /\ target'[q] = target[q]
       /\ q \in wrote' <=> q \in wrote
       /\ q \in dryRun' <=> q \in dryRun

\* A statement by which p is out of its transaction.
LEMMA Outside ==
  ASSUME IInv, NEW p \in Migrators, TypeOK', Others(p),
         version' = version, schema' = schema, stale' = stale,
         pc'[p] \notin InTransaction, tx'[p] \in {"none", "ending"},
         p \in wrote' => tx'[p] = "ending",
         lock' = lock \/ (lock \in {p, Nobody} /\ lock' \in {p, Nobody}),
         lock' = p => tx'[p] = "ending",
         Working(p)' => Working(p) \/ \A q \in Migrators \ {p} :
                          driver = "postgres" /\ version = NoRow => ~Working(q)
  PROVE  IInv'
  <1>1. \A q \in Migrators \ {p} : Step(q)' = Step(q) /\ (Working(q)' <=> Working(q))
    BY DEF Step, NextQuery, Way, Working, Others
  <1>2. \A step : NoTransaction(step)' = NoTransaction(step)
    BY DEF NoTransaction, Others
  <1>3. Current' = Current
    BY DEF Current
  <1>4. Scoped'
    BY <1>1, <1>2 DEF IInv, Scoped, Others, InTransaction
  <1>5. Alone'
    BY <1>1 DEF IInv, Alone, Others
  <1>6. Held'
    BY ConstantsAssumption DEF IInv, Held, Others, InTransaction
  <1>7. Planned'
    BY <1>1, <1>2, <1>3 DEF IInv, Planned, Others, InTransaction, Counts
  <1>8. Effect'
    BY <1>1, <1>2 DEF IInv, Effect, Others, InTransaction
  <1>9. Applied'
    BY <1>3 DEF IInv, Applied, Others, Way, WithoutTransaction
  <1> QED
    BY <1>4, <1>5, <1>6, <1>7, <1>8, <1>9 DEF IInv

\* A COMMIT that takes effect.
LEMMA Commits ==
  ASSUME IInv, NEW p \in Migrators, pc[p] = "commit", CommitTransaction(p), Others(p),
         active' \in [Migrators -> Nat \cup {NoRow}], target' \in [Migrators -> Nat],
         dryRun' \subseteq Migrators, seen' \in [Migrators -> Nat],
         answer' \in [Migrators -> {"none", "ok", "error"}],
         pc' \in [Migrators -> Statements \cup {"idle", "loading", "loaded"}],
         pc'[p] \notin InTransaction
  PROVE  IInv'
  <1>1. \A q \in Migrators \ {p} : Step(q)' = Step(q) /\ (Working(q)' <=> Working(q))
    BY DEF Step, NextQuery, Way, Working, Others
  <1>2. \A step : NoTransaction(step)' = NoTransaction(step)
    BY DEF NoTransaction, Others
  <1>3. schema' \in [Versions -> Int] /\ version' \in Nat /\ Applied'
    BY CommitApplied DEF CommitTransaction, Others
  <1>4. /\ lock = p /\ lock' = Nobody /\ Nobody # p /\ Nobody \notin Migrators
        /\ tx' = [tx EXCEPT ![p] = "none"] /\ wrote' = wrote \ {p}
    BY ConstantsAssumption DEF IInv, Held, CommitTransaction, Over
  <1>5. ASSUME NEW q \in Migrators \ {p}, pc[q] \in {"script", "commit", "update", "rollback"}
        PROVE  driver = "sqlite" /\ pc[q] \in {"update", "rollback"} /\ tx[q] = "open"
    <2>1. pc[q] \notin {"script", "commit"}
      BY <1>4 DEF IInv, Held
    <2>2. tx[q] = "open"
      BY <1>5 DEF IInv, Scoped, InTransaction
    <2>3. driver # "postgres"
      BY <1>4, <1>5, <2>1 DEF IInv, Held, Alone, Working, Statements
    <2>4. driver \in {"postgres", "sqlite"}
      BY ConstantsAssumption DEF IInv, TypeOK
    <2> QED
      BY <1>5, <2>1, <2>2, <2>3, <2>4
  <1>6. TypeOK'
    BY <1>3, <1>4 DEF IInv, TypeOK, Others, CommitTransaction
  <1>7. Scoped'
    BY <1>1, <1>2, <1>4 DEF IInv, TypeOK, Scoped, Others, InTransaction
  <1>8. Alone'
    BY <1>3 DEF Alone, NoRow
  <1>9. Held'
    BY <1>4, <1>5 DEF IInv, TypeOK, Held, Others, InTransaction
  <1>10. Planned'
    <2>1. \A q \in Migrators \ {p} : pc[q] = "update" => q \in stale'
      BY <1>5 DEF CommitTransaction
    <2> QED
      BY <1>1, <1>2, <1>5, <2>1 DEF IInv, Planned, Others, InTransaction, Counts
  <1>11. Effect'
    BY <1>5 DEF Effect, Others, InTransaction
  <1> QED
    BY <1>3, <1>6, <1>7, <1>8, <1>9, <1>10, <1>11 DEF IInv

LEMMA LoadStep ==
  ASSUME IInv, overtaken' \subseteq Migrators, NEW p \in Migrators,
         Load(p) \/ Loaded(p) \/ LoadFails(p) \/ Exit(p)
  PROVE  IInv'
  <1>1. pc[p] \in {"idle", "loading", "loaded"} /\ tx[p] \in {"none", "ending"}
    BY DEF IInv, TypeOK, Scoped, InTransaction, Load, Loaded, LoadFails, Exit
  <1>2. /\ UNCHANGED <<database, transaction>>
        /\ pc' = [pc EXCEPT ![p] = pc'[p]] /\ pc'[p] \in {"idle", "loading", "loaded"}
        /\ active' \in [Migrators -> Nat \cup {NoRow}]
        /\ target' = [target EXCEPT ![p] = target'[p]] /\ target'[p] \in Nat
        /\ seen' = [seen EXCEPT ![p] = seen'[p]] /\ seen'[p] \in Nat
        /\ dryRun' \in {dryRun, dryRun \ {p}}
        /\ answer' \in [Migrators -> {"none", "ok", "error"}]
    BY DEF IInv, TypeOK, Current, NoRow, Load, Loaded, LoadFails, Exit, Gone, Forget, Goto, call
  <1>3. TypeOK' /\ Others(p)
    BY <1>2 DEF IInv, TypeOK, Others, database, transaction
  <1>4. p \in wrote' => tx'[p] = "ending"
    BY <1>1, <1>2 DEF IInv, Scoped, transaction
  <1>5. lock' = p => tx'[p] = "ending"
    BY <1>1, <1>2 DEF IInv, Held, database, transaction
  <1>6. Working(p)' => Working(p)
    BY <1>2 DEF Working, Statements, transaction
  <1> QED
    BY <1>1, <1>2, <1>3, <1>4, <1>5, <1>6, Outside DEF InTransaction, database, transaction

LEMMA MigrateStep ==
  ASSUME Careful, IInv, overtaken' \subseteq Migrators, NEW p \in Migrators,
         NEW option \in Int, NEW dry \in BOOLEAN,
         Migrate(p, option, dry)
  PROVE  IInv'
  <1> DEFINE resolved == IF option < 0 THEN Latest ELSE option
  <1>1. /\ pc[p] = "loaded" /\ tx[p] \in {"none", "ending"}
        /\ UNCHANGED <<database, transaction, active>>
    BY DEF IInv, TypeOK, Scoped, InTransaction, Migrate
  <1>2. resolved \in Int
    BY FileOK DEF IInv
  <1>3. /\ pc' = [pc EXCEPT ![p] = pc'[p]] /\ pc'[p] \in {"loaded", "read"}
        /\ target' = [target EXCEPT ![p] = target'[p]] /\ target'[p] \in Nat
        /\ seen' = [seen EXCEPT ![p] = seen'[p]] /\ seen'[p] \in Nat
        /\ dryRun' \in {dryRun \cup {p}, dryRun \ {p}}
        /\ answer' \in [Migrators -> {"none", "ok", "error"}]
    <2> HIDE DEF resolved
    <2>1. CASE resolved < 0
      BY <2>1 DEF IInv, TypeOK, Migrate, Answer, Forget, Goto, resolved
    <2>2. CASE ~(resolved < 0)
      BY <1>2, <2>2 DEF IInv, TypeOK, Migrate, Goto, resolved
    <2> QED
      BY <2>1, <2>2
  <1>4. TypeOK' /\ Others(p)
    BY <1>1, <1>3 DEF IInv, TypeOK, Statements, Others, database, transaction
  <1>5. p \in wrote' => tx'[p] = "ending"
    BY <1>1 DEF IInv, Scoped, transaction
  <1>6. lock' = p => tx'[p] = "ending"
    BY <1>1 DEF IInv, Held, database, transaction
  <1>7. driver = "postgres" /\ version = NoRow => \A q \in Migrators \ {p} : ~Working(q)
    BY DEF Careful, Migrate, AloneAtFirst, Migrating, Working, Statements
  <1> QED
    BY <1>1, <1>3, <1>4, <1>5, <1>6, <1>7, Outside DEF InTransaction, database, transaction

LEMMA VersionReadStep ==
  ASSUME IInv, overtaken' \subseteq Migrators, NEW p \in Migrators, VersionRead(p)
  PROVE  IInv'
  <1>1. /\ pc[p] = "read" /\ tx[p] = "none"
        /\ UNCHANGED <<database, transaction, active>>
    BY DEF IInv, TypeOK, Scoped, InTransaction, VersionRead, At
  <1>2. /\ pc' = [pc EXCEPT ![p] = pc'[p]] /\ pc'[p] \in {"loaded", "begin"}
        /\ target' = [target EXCEPT ![p] = target'[p]] /\ target'[p] \in Nat
        /\ seen' = [seen EXCEPT ![p] = seen'[p]] /\ seen'[p] \in Nat
        /\ dryRun' \in {dryRun, dryRun \ {p}}
        /\ answer' \in [Migrators -> {"none", "ok", "error"}]
    BY DEF IInv, TypeOK, Current, NoRow, VersionRead, Answer, Forget, Goto
  <1>3. TypeOK' /\ Others(p)
    BY <1>1, <1>2 DEF IInv, TypeOK, Statements, Others, database, transaction
  <1>4. p \notin wrote'
    BY <1>1 DEF IInv, Scoped, transaction
  <1>5. lock' # p
    BY <1>1 DEF IInv, Held, database, transaction
  <1>6. Working(p)
    BY <1>1 DEF Working, Statements
  <1> QED
    BY <1>1, <1>2, <1>3, <1>4, <1>5, <1>6, Outside DEF InTransaction, database, transaction

\* A statement fails or a dry run ends: t goes out of scope.
LEMMA ReturnStep ==
  ASSUME IInv, overtaken' \subseteq Migrators, NEW p \in Migrators,
         pc[p] \in Statements \ {"commit"}, tx[p] # "ending",
         NEW result \in {"ok", "error"}, Return(p, result),
         version' = version, schema' = schema, file' = file, driver' = driver, stale' = stale,
         active' = active, lock' = lock \/ (lock = Nobody /\ lock' = p),
         wrote' \in {wrote, wrote \cup {p}},
         wrote' # wrote \/ lock' # lock => tx[p] = "open"
  PROVE  IInv'
  <1>1. /\ tx' = [tx EXCEPT ![p] = IF @ = "open" THEN "ending" ELSE @]
        /\ tx[p] \in {"none", "open"} /\ tx'[p] \in {"none", "ending"}
        /\ tx[p] = "open" => tx'[p] = "ending"
    BY DEF IInv, TypeOK, Scoped, Return, EndScope
  <1>2. /\ pc' = [pc EXCEPT ![p] = "loaded"]
        /\ target' = [target EXCEPT ![p] = 0] /\ seen' = [seen EXCEPT ![p] = 0]
        /\ dryRun' = dryRun \ {p} /\ answer' = [answer EXCEPT ![p] = result]
    BY DEF Return, Answer, Forget, Goto
  <1>3. TypeOK' /\ Others(p)
    BY <1>1, <1>2 DEF IInv, TypeOK, Statements, Others
  <1>4. p \in wrote' => tx'[p] = "ending"
    BY <1>1 DEF IInv, Scoped
  <1>5. lock' = p => tx'[p] = "ending"
    BY <1>1 DEF IInv, Held
  <1>6. pc'[p] = "loaded" /\ Working(p)
    BY <1>2 DEF IInv, TypeOK, Working
  <1> QED
    BY <1>1, <1>2, <1>3, <1>4, <1>5, <1>6, Outside DEF InTransaction

LEMMA FailsStep ==
  ASSUME IInv, overtaken' \subseteq Migrators, NEW p \in Migrators, Fails(p)
  PROVE  IInv'
  BY ReturnStep DEF Fails, database

LEMMA BegunStep ==
  ASSUME IInv, overtaken' \subseteq Migrators, NEW p \in Migrators, Begun(p)
  PROVE  IInv'
  <1>1. /\ pc[p] = "begin" /\ pc' = [pc EXCEPT ![p] = "lockedRead"]
        /\ tx' = [tx EXCEPT ![p] = "open"] /\ tx[p] = "none" /\ stale' = stale \ {p}
        /\ UNCHANGED <<database, wrote, active, call, answer>>
    BY DEF Begun, At, Goto
  <1>2. TypeOK' /\ Others(p)
    BY <1>1 DEF IInv, TypeOK, Statements, Others, database, call
  <1>3. \A q \in Migrators : Step(q)' = Step(q)
    BY <1>1 DEF Step, NextQuery, Way, database, call
  <1>4. \A step : NoTransaction(step)' = NoTransaction(step)
    BY <1>1 DEF NoTransaction, database
  <1>5. pc'[p] = "lockedRead" /\ tx'[p] = "open" /\ p \notin wrote /\ lock # p
    BY <1>1 DEF IInv, TypeOK, Scoped, Held
  <1>6. Scoped'
    BY <1>1, <1>2, <1>3, <1>4, <1>5 DEF IInv, Scoped, Others, InTransaction
  <1>7. Alone'
    BY <1>1, <1>2 DEF IInv, Alone, Working, Others, Statements, database
  <1>8. Held'
    BY <1>1, <1>2, <1>5 DEF IInv, Held, Others, database
  <1>9. Planned' /\ Effect'
    BY <1>1, <1>2, <1>3, <1>4, <1>5
       DEF IInv, Planned, Effect, Counts, Others, Current, database, call
  <1>10. Applied'
    BY <1>1 DEF IInv, Applied, Way, WithoutTransaction, Current, database
  <1> QED
    BY <1>2, <1>6, <1>7, <1>8, <1>9, <1>10 DEF IInv

LEMMA LockedReadStep ==
  ASSUME IInv, overtaken' \subseteq Migrators, NEW p \in Migrators, LockedRead(p)
  PROVE  IInv'
  <1> DEFINE step == NextQuery(Current, target[p])
  <1>1. /\ pc[p] = "lockedRead" /\ tx[p] = "open"
        /\ UNCHANGED <<file, driver, version, schema, wrote, stale, active>>
        /\ lock' = lock \/ (lock = Nobody /\ lock' = p)
        /\ driver = "postgres" /\ version # NoRow => lock' = p
    BY DEF IInv, Scoped, InTransaction, LockedRead, At, LockRow
  <1>2. CASE Return(p, "error")
    BY <1>1, <1>2, ReturnStep DEF Statements
  <1>3. CASE /\ ~(Current > Latest \/ (NoTransaction(step) /\ p \in dryRun))
             /\ Goto(p, IF step = NoStep THEN "rollback" ELSE "update")
             /\ seen' = [seen EXCEPT ![p] = Current]
             /\ UNCHANGED <<target, dryRun, tx, answer>>
    <2>1. Current \in Nat /\ Current' = Current
      BY <1>1 DEF IInv, TypeOK, Current, NoRow
    <2>2. /\ pc' = [pc EXCEPT ![p] = pc'[p]] /\ pc'[p] \in {"rollback", "update"}
          /\ pc'[p] = "rollback" <=> step = NoStep
      BY <1>3 DEF IInv, TypeOK, Goto
    <2>3. TypeOK' /\ Others(p)
      BY <1>1, <1>3, <2>1, <2>2 DEF IInv, TypeOK, Statements, Others
    <2>4. /\ \A q \in Migrators \ {p} : Step(q)' = Step(q)
          /\ Step(p)' = step /\ seen'[p] = Current
      BY <1>1, <1>3 DEF IInv, TypeOK, Step, NextQuery, Way
    <2>5. \A s : NoTransaction(s)' = NoTransaction(s)
      BY <1>1 DEF NoTransaction
    <2>6. p \notin wrote
      BY <1>1 DEF IInv, Scoped
    <2> HIDE DEF step
    <2>7. Scoped'
      BY <1>1, <1>3, <2>2, <2>3, <2>4, <2>5, <2>6 DEF IInv, Scoped, Others, InTransaction
    <2>8. Alone'
      BY <1>1, <1>3, <2>3 DEF IInv, Alone, Working, Others, Statements
    <2>9. Held'
      BY ConstantsAssumption, <1>1, <1>3, <2>2, <2>3 DEF IInv, Held, Others
    <2>10. Planned'
      BY <1>1, <1>3, <2>1, <2>2, <2>3, <2>4, <2>5 DEF IInv, Planned, Counts, Others, step
    <2>11. Effect' /\ Applied'
      BY <1>1, <2>1, <2>2, <2>3, <2>4, <2>5
         DEF IInv, Effect, Others, Applied, Way, WithoutTransaction
    <2> QED
      BY <2>3, <2>7, <2>8, <2>9, <2>10, <2>11 DEF IInv
  <1> QED
    BY <1>2, <1>3 DEF LockedRead

LEMMA RolledBackStep ==
  ASSUME IInv, overtaken' \subseteq Migrators, NEW p \in Migrators, RolledBack(p)
  PROVE  IInv'
  <1>1. /\ UNCHANGED <<file, driver, version, schema, stale, active>>
        /\ tx' = [tx EXCEPT ![p] = "none"] /\ wrote' = wrote \ {p}
        /\ lock' = IF lock = p THEN Nobody ELSE lock
        /\ pc[p] = "rollback" /\ pc' = [pc EXCEPT ![p] = "loaded"]
        /\ target' = [target EXCEPT ![p] = 0] /\ seen' = [seen EXCEPT ![p] = 0]
        /\ dryRun' = dryRun \ {p} /\ answer' = [answer EXCEPT ![p] = "ok"]
    BY DEF RolledBack, At, Over, Answer, Forget, Goto
  <1>2. TypeOK' /\ Others(p)
    BY <1>1 DEF IInv, TypeOK, Statements, Others
  <1>3. /\ pc'[p] = "loaded" /\ tx'[p] = "none" /\ p \notin wrote' /\ Working(p)
        /\ lock' # p
    BY ConstantsAssumption, <1>1 DEF IInv, TypeOK, Working, Statements
  <1> QED
    BY <1>1, <1>2, <1>3, Outside DEF InTransaction

LEMMA ServerRollsBackStep ==
  ASSUME IInv, overtaken' \subseteq Migrators, NEW p \in Migrators, ServerRollsBack(p)
  PROVE  IInv'
  <1>1. /\ UNCHANGED <<file, driver, version, schema, stale, pc, active, call, answer>>
        /\ tx' = [tx EXCEPT ![p] = "none"] /\ wrote' = wrote \ {p} /\ tx[p] = "ending"
        /\ lock' = IF lock = p THEN Nobody ELSE lock
    BY DEF ServerRollsBack, Over
  <1>2. TypeOK' /\ Others(p)
    BY <1>1 DEF IInv, TypeOK, Others, call
  <1>3. /\ pc'[p] \notin InTransaction /\ tx'[p] = "none" /\ p \notin wrote' /\ Working(p)
        /\ lock' # p
    BY ConstantsAssumption, <1>1 DEF IInv, TypeOK, Scoped, Working
  <1> QED
    BY <1>1, <1>2, <1>3, Outside

LEMMA UpdateVersionStep ==
  ASSUME IInv, overtaken' \subseteq Migrators, NEW p \in Migrators, UpdateVersion(p)
  PROVE  IInv'
  <1>1. /\ pc[p] = "update" /\ tx[p] = "open" /\ p \notin stale
        /\ UNCHANGED <<file, driver, version, schema, transaction, active, call, answer>>
        /\ lock \in {Nobody, p} /\ lock' = p
        /\ pc' = [pc EXCEPT ![p] = "script"]
    BY DEF IInv, Scoped, InTransaction, UpdateVersion, At, Goto
  <1>2. TypeOK' /\ Others(p) /\ pc'[p] = "script"
    BY <1>1 DEF IInv, TypeOK, Statements, Others, transaction, call
  <1>3. \A q \in Migrators : Step(q)' = Step(q)
    BY <1>1 DEF Step, NextQuery, Way, call
  <1>4. \A step : NoTransaction(step)' = NoTransaction(step)
    BY <1>1 DEF NoTransaction
  <1>5. Scoped'
    BY <1>1, <1>2, <1>3, <1>4 DEF IInv, Scoped, Others, InTransaction, transaction
  <1>6. Alone'
    BY <1>1, <1>2 DEF IInv, Alone, Working, Others, Statements, transaction
  <1>7. Held'
    <2>1. \A q \in Migrators \ {p} :
            /\ pc[q] \notin {"script", "commit"}
            /\ ~(driver = "postgres" /\ version # NoRow /\ pc[q] \in {"update", "rollback"})
      BY ConstantsAssumption, <1>1 DEF IInv, Held
    <2> QED
      BY <1>1, <1>2, <2>1 DEF Held, Others, transaction
  <1>8. Planned'
    BY <1>1, <1>2, <1>3, <1>4 DEF IInv, Planned, Counts, Others, Current, transaction, call
  <1>9. Effect' /\ Applied'
    BY <1>1, <1>2, <1>3, <1>4 DEF IInv, Effect, Others, Applied, Way, WithoutTransaction, Current
  <1> QED
    BY <1>2, <1>5, <1>6, <1>7, <1>8, <1>9 DEF IInv

LEMMA ScriptRunStep ==
  ASSUME IInv, overtaken' \subseteq Migrators, NEW p \in Migrators, ScriptRun(p)
  PROVE  IInv'
  <1>1. /\ pc[p] = "script" /\ tx[p] = "open" /\ lock = p /\ ~NoTransaction(Step(p))
        /\ wrote' = wrote \cup {p}
        /\ UNCHANGED <<database, stale, active>>
    BY DEF IInv, Scoped, Held, InTransaction, ScriptRun, At
  <1>2. CASE Return(p, "ok")
    BY <1>1, <1>2, ReturnStep DEF Statements, database
  <1>3. CASE p \notin dryRun /\ Goto(p, "commit") /\ UNCHANGED <<tx, call, answer>>
    <2>1. pc' = [pc EXCEPT ![p] = "commit"]
      BY <1>3 DEF Goto
    <2>2. TypeOK' /\ Others(p) /\ pc'[p] = "commit"
      BY <1>1, <1>3, <2>1 DEF IInv, TypeOK, Statements, Others, database, call
    <2>3. \A q \in Migrators : Step(q)' = Step(q)
      BY <1>1, <1>3 DEF Step, NextQuery, Way, database, call
    <2>4. \A step : NoTransaction(step)' = NoTransaction(step)
      BY <1>1 DEF NoTransaction, database
    <2>5. Scoped'
      BY <1>1, <1>3, <2>2, <2>3, <2>4 DEF IInv, Scoped, Others, InTransaction
    <2>6. Alone' /\ Held'
      BY <1>1, <1>3, <2>2 DEF IInv, Alone, Held, Working, Others, Statements, database
    <2>7. Planned'
      BY <1>1, <1>3, <2>2, <2>3, <2>4
         DEF IInv, Planned, Counts, Others, Current, database, call
    <2>8. Effect' /\ Applied'
      BY <1>1, <2>2, <2>3, <2>4
         DEF IInv, Effect, Others, Applied, Way, WithoutTransaction, Current, database
    <2> QED
      BY <2>2, <2>5, <2>6, <2>7, <2>8 DEF IInv
  <1> QED
    BY <1>2, <1>3 DEF ScriptRun

LEMMA BareScriptRunStep ==
  ASSUME IInv, overtaken' \subseteq Migrators, NEW p \in Migrators, BareScriptRun(p)
  PROVE  IInv'
  <1>1. /\ pc[p] = "script" /\ tx[p] = "open" /\ lock = p /\ NoTransaction(Step(p))
        /\ schema' = Run(Step(p)) /\ pc' = [pc EXCEPT ![p] = "commit"]
        /\ UNCHANGED <<file, driver, version, lock, transaction, active, call, answer>>
    BY DEF IInv, Scoped, Held, InTransaction, BareScriptRun, At, Goto
  <1>2. /\ schema' \in [Versions -> Int] /\ Applied'
        /\ schema'[Step(p).key] = IF Step(p).way = "up" THEN 1 ELSE 0
    BY <1>1, BareApplied
  <1>3. TypeOK' /\ Others(p) /\ pc'[p] = "commit"
    BY <1>1, <1>2 DEF IInv, TypeOK, Statements, Others, transaction, call
  <1>4. \A q \in Migrators : Step(q)' = Step(q)
    BY <1>1 DEF Step, NextQuery, Way, call
  <1>5. \A step : NoTransaction(step)' = NoTransaction(step)
    BY <1>1 DEF NoTransaction
  <1>6. p \notin wrote
    BY <1>1 DEF IInv, Scoped
  <1>7. Scoped'
    BY <1>1, <1>3, <1>4, <1>5, <1>6 DEF IInv, Scoped, Others, InTransaction, transaction
  <1>8. Alone' /\ Held'
    BY <1>1, <1>3 DEF IInv, Alone, Held, Working, Others, Statements, transaction
  <1>9. Planned'
    BY <1>1, <1>3, <1>4, <1>5 DEF IInv, Planned, Counts, Others, Current, transaction, call
  <1>10. Effect'
    <2>1. \A q \in Migrators \ {p} : pc'[q] # "commit"
      BY <1>1, <1>3 DEF IInv, Held, Others
    <2> QED
      BY <1>2, <1>4, <2>1 DEF Effect
  <1> QED
    BY <1>2, <1>3, <1>7, <1>8, <1>9, <1>10 DEF IInv

LEMMA CommitStep ==
  ASSUME Careful, IInv, overtaken' \subseteq Migrators, NEW p \in Migrators,
         Committed(p) \/ CommitFails(p)
  PROVE  IInv'
  <1>1. pc[p] = "commit" /\ lock = p /\ UNCHANGED <<file, driver, active>>
    BY DEF IInv, Held, Committed, CommitFails, At
  <1>2. /\ pc' = [pc EXCEPT ![p] = pc'[p]] /\ pc'[p] \in {"loaded", "read"}
        /\ target' = [target EXCEPT ![p] = target'[p]] /\ target'[p] \in Nat
        /\ seen' = [seen EXCEPT ![p] = seen'[p]] /\ seen'[p] \in Nat
        /\ dryRun' \in {dryRun, dryRun \ {p}}
        /\ answer' \in [Migrators -> {"none", "ok", "error"}]
    BY DEF IInv, TypeOK, Committed, CommitFails, Answer, Forget, Goto, call
  <1>3. CASE Over(p) /\ UNCHANGED <<version, schema, stale>>
    <2>1. /\ tx' = [tx EXCEPT ![p] = "none"] /\ wrote' = wrote \ {p} /\ lock' = Nobody
      BY <1>1, <1>3 DEF Over
    <2>2. TypeOK' /\ Others(p)
      BY <1>1, <1>2, <1>3, <2>1 DEF IInv, TypeOK, Statements, Others
    <2>3. tx'[p] = "none" /\ p \notin wrote' /\ lock' # p /\ Working(p)
      BY ConstantsAssumption, <1>1, <2>1 DEF IInv, TypeOK, Working, Statements
    <2> QED
      BY <1>1, <1>2, <1>3, <2>1, <2>2, <2>3, Outside DEF InTransaction
  <1>4. CASE CommitTransaction(p)
    <2>1. Others(p)
      BY <1>1, <1>2, <1>4 DEF IInv, TypeOK, Others, CommitTransaction, Over
    <2> QED
      BY <1>1, <1>2, <1>4, <2>1, Commits DEF IInv, TypeOK, Statements, InTransaction
  <1> QED
    BY <1>3, <1>4 DEF Committed, CommitFails, Careful

LEMMA CrashStep ==
  ASSUME IInv, overtaken' \subseteq Migrators, NEW p \in Migrators, Crash(p)
  PROVE  IInv'
  <1>1. /\ pc' = [pc EXCEPT ![p] = "idle"] /\ active' = [active EXCEPT ![p] = NoRow]
        /\ target' = [target EXCEPT ![p] = 0] /\ seen' = [seen EXCEPT ![p] = 0]
        /\ dryRun' = dryRun \ {p} /\ answer' = [answer EXCEPT ![p] = "none"]
        /\ UNCHANGED <<file, driver>> /\ pc'[p] = "idle"
    BY DEF IInv, TypeOK, Crash, Gone, Forget, Goto
  <1>2. CASE At(p, "commit") /\ CommitTransaction(p)
    <2>1. Others(p)
      BY <1>1, <1>2 DEF IInv, TypeOK, Others, CommitTransaction, Over
    <2> QED
      BY <1>1, <1>2, <2>1, Commits DEF IInv, TypeOK, Statements, InTransaction, At, NoRow
  <1>3. CASE /\ tx' = [tx EXCEPT ![p] = IF @ = "none" THEN "none" ELSE "ending"]
             /\ UNCHANGED <<version, lock, wrote, stale>>
             /\ UNCHANGED schema \/ (At(p, "script") /\ NoTransaction(Step(p)) /\ schema' = Run(Step(p)))
    <2>1. tx'[p] \in {"none", "ending"} /\ (tx[p] # "none" => tx'[p] = "ending")
      BY <1>3 DEF IInv, TypeOK
    <2>2. p \in wrote' => tx'[p] = "ending"
      BY <1>3, <2>1 DEF IInv, Scoped, InTransaction
    <2>3. lock' = p => tx'[p] = "ending"
      BY <1>3, <2>1 DEF IInv, Held
    <2>4. Working(p)' => Working(p)
      BY <1>1, <1>3, <2>1 DEF IInv, TypeOK, Working, Statements
    <2>5. CASE UNCHANGED schema
      <3>1. TypeOK' /\ Others(p)
        BY <1>1, <1>3, <2>5 DEF IInv, TypeOK, NoRow, Statements, Others
      <3> QED
        BY <1>1, <1>3, <2>1, <2>2, <2>3, <2>4, <2>5, <3>1, Outside DEF InTransaction
    <2>6. CASE At(p, "script") /\ NoTransaction(Step(p)) /\ schema' = Run(Step(p))
      <3>1. schema' \in [Versions -> Int] /\ Applied'
        BY <1>1, <1>3, <2>6, BareApplied DEF At
      <3>2. TypeOK' /\ Others(p)
        BY <1>1, <1>3, <3>1 DEF IInv, TypeOK, NoRow, Statements, Others
      <3>3. \A q \in Migrators \ {p} : Step(q)' = Step(q)
        BY <3>2 DEF Step, NextQuery, Way, Others
      <3>4. \A step : NoTransaction(step)' = NoTransaction(step)
        BY <1>1 DEF NoTransaction
      <3>5. Scoped'
        BY <1>1, <1>3, <2>1, <2>2, <3>2, <3>3, <3>4 DEF IInv, Scoped, Others, InTransaction
      <3>6. Alone' /\ Held'
        BY <1>1, <1>3, <2>3, <2>4, <3>2 DEF IInv, Alone, Held, Working, Others
      <3>7. Planned'
        BY <1>1, <1>3, <3>2, <3>3, <3>4 DEF IInv, Planned, Counts, Others, Current
      <3>8. Effect'
        <4>1. \A q \in Migrators : pc'[q] # "commit"
          BY <1>1, <2>6, <3>2 DEF IInv, Held, Others, At
        <4> QED
          BY <4>1 DEF Effect
      <3> QED
        BY <3>1, <3>2, <3>5, <3>6, <3>7, <3>8 DEF IInv
    <2> QED
      BY <1>3, <2>5, <2>6
  <1> QED
    BY <1>2, <1>3 DEF Crash

LEMMA StepIInv ==
  ASSUME Careful, IInv, [Next]_vars
  PROVE  IInv'
  <1>1. CASE UNCHANGED vars
    <2> USE <1>1 DEF vars, database, transaction, call
    <2>1. (\A p \in Migrators : Step(p)' = Step(p)) /\ Current' = Current
      BY DEF Step, NextQuery, Way, Current
    <2>2. \A step : NoTransaction(step)' = NoTransaction(step)
      BY DEF NoTransaction
    <2>3. TypeOK'
      BY DEF IInv, TypeOK
    <2>4. Scoped' /\ Effect'
      BY <2>1, <2>2 DEF IInv, Scoped, Effect
    <2>5. Alone' /\ Held'
      BY DEF IInv, Alone, Working, Held
    <2>6. Planned'
      BY <2>1, <2>2 DEF IInv, Planned, Counts
    <2>7. Applied'
      BY <2>1 DEF IInv, Applied, Way, WithoutTransaction
    <2> QED
      BY <2>3, <2>4, <2>5, <2>6, <2>7 DEF IInv
  <1>5. overtaken' \subseteq Migrators
    BY OvertakenStep DEF IInv, TypeOK
  <1>2. ASSUME NEW p \in Migrators, NEW t \in Targets
        PROVE  t \in Int /\ NewVersion(t) \in Int
    BY <1>2, ConstantsAssumption, FileOK DEF IInv, NewVersion
  <1>3. ASSUME NEW p \in Migrators, Advance(p)
        PROVE  IInv'
    BY <1>3, <1>5, VersionReadStep, BegunStep, LockedReadStep, RolledBackStep, UpdateVersionStep,
       ScriptRunStep, BareScriptRunStep, CommitStep, FailsStep DEF Advance
  <1>4. ASSUME NEW p \in Migrators, NEW dry \in BOOLEAN,
               NEW option \in Targets \cup {NewVersion(t) : t \in Targets},
               Migrate(p, option, dry)
        PROVE  IInv'
    BY <1>2, <1>4, <1>5, MigrateStep
  <1> QED
    BY <1>1, <1>3, <1>4, <1>5, LoadStep, CrashStep, ServerRollsBackStep DEF Next

LEMMA Inductive ==
  ASSUME Careful
  PROVE  Spec => []IInv
  BY InitIInv, StepIInv, PTL DEF Spec

-----------------------------------------------------------------------------
(***************************************************************************)
(* The theorems.                                                           *)
(***************************************************************************)

\* Whatever fails or crashes and however many migrators run, the row of
\* asql_migrations tells the schema and its lock has an owner who will give it up
\* (src/src/amigrations.cpp:144-320), as long as a database of postgres without a row
\* has one first migrator and SQLite ends a transaction whose COMMIT fails.
THEOREM SpecSchemaSound ==
  ASSUME Careful
  PROVE  Spec => []SchemaSound
  <1>1. ASSUME IInv PROVE SchemaSound
    <2>1. VersionMatchesSchema
      <3> SUFFICES ASSUME NEW v \in Way("up"), \A h \in file : h.version = v => ~h.noTransaction
                   PROVE  schema[v] = IF v <= Current THEN 1 ELSE 0
        BY DEF VersionMatchesSchema
      <3>1. ~WithoutTransaction(v, "up") /\ ~WithoutTransaction(v, "down")
        BY DEF WithoutTransaction
      <3>2. v \in Nat /\ Current \in Nat
        BY <1>1, FileOK DEF IInv, TypeOK, Current, NoRow
      <3> QED
        BY <1>1, <3>1, <3>2 DEF IInv, Applied
    <2>2. LockHeldByRunner
      BY <1>1 DEF IInv, Held, Scoped, InTransaction, Statements, LockHeldByRunner
    <2> QED
      BY <1>1, <2>1, <2>2 DEF IInv, SchemaSound
  <1> QED
    BY <1>1, Inductive, PTL

\* What p commits, or runs without a transaction, is its next script.
LEMMA CommitEffect ==
  ASSUME IInv, NEW p \in Migrators, pc[p] = "commit", CommitTransaction(p),
         file' = file, pc'[p] # "commit"
  PROVE  /\ LET step == NextQuery(Current, target[p]) IN
              /\ step.to = version'
              /\ step.key \in Way("up") => schema'[step.key] = IF step.way = "up" THEN 1 ELSE 0
         /\ p \in Migrators \ dryRun /\ pc'[p] # pc[p]
  <1>1. seen[p] = Current /\ p \notin dryRun
    BY DEF IInv, Planned, Counts
  <1> QED
    BY <1>1, CommitApplied DEF CommitTransaction, Step

LEMMA Effects ==
  ASSUME Careful, IInv, NEW p \in Migrators,
         \/ Advance(p) \/ Crash(p) \/ ServerRollsBack(p)
         \/ Load(p) \/ Loaded(p) \/ LoadFails(p) \/ Exit(p)
         \/ \E option \in Int, dry \in BOOLEAN : Migrate(p, option, dry)
  PROVE  \/ UNCHANGED <<version, schema>>
         \/ version' = version /\ p \in Migrators \ dryRun /\ pc'[p] # pc[p]
         \/ pc[p] = "commit" /\ CommitTransaction(p) /\ file' = file /\ pc'[p] # "commit"
  <1>1. pc \in [Migrators -> Statements \cup {"idle", "loading", "loaded"}]
    BY DEF IInv, TypeOK
  <1>2. ASSUME pc[p] = "script", NoTransaction(Step(p))
        PROVE  p \notin dryRun
    BY <1>2 DEF IInv, Planned
  <1>3. CASE BareScriptRun(p)
    BY <1>1, <1>2, <1>3 DEF BareScriptRun, At, Goto
  <1>4. CASE Crash(p)
    BY <1>1, <1>2, <1>4 DEF Crash, At, Gone, Goto
  <1>5. CASE Committed(p) \/ CommitFails(p)
    BY <1>1, <1>5 DEF Committed, CommitFails, Careful, At, Answer, Goto
  <1>6. CASE \/ VersionRead(p) \/ Begun(p) \/ LockedRead(p) \/ RolledBack(p)
             \/ UpdateVersion(p) \/ ScriptRun(p) \/ Fails(p)
    BY <1>6 DEF VersionRead, Begun, LockedRead, RolledBack, UpdateVersion, ScriptRun, Fails,
         database
  <1>7. CASE \/ ServerRollsBack(p) \/ Load(p) \/ Loaded(p) \/ LoadFails(p) \/ Exit(p)
             \/ \E option \in Int, dry \in BOOLEAN : Migrate(p, option, dry)
    BY <1>7 DEF ServerRollsBack, Load, Loaded, LoadFails, Exit, Migrate, database
  <1> QED
    BY <1>3, <1>4, <1>5, <1>6, <1>7 DEF Advance

\* In the same circumstances, the version moves from one script to the next and none is
\* left out, and a dry run changes nothing (src/src/amigrations.cpp:144-320, 449-476).
THEOREM SpecStepFromCurrent ==
  ASSUME Careful
  PROVE  Spec => StepFromCurrent
  <1> DEFINE Steps ==
        /\ version' # version =>
             \E p \in Migrators : LET step == NextQuery(Current, target[p]) IN
               /\ step.to = version'
               /\ step.key \in Way("up") => schema'[step.key] = IF step.way = "up" THEN 1 ELSE 0
        /\ <<version, schema>>' # <<version, schema>> =>
             \E p \in Migrators \ dryRun : pc'[p] # pc[p]
  <1>1. ASSUME IInv, Next
        PROVE  Steps
    <2>1. \A t \in Targets : t \in Int /\ NewVersion(t) \in Int
      BY <1>1, ConstantsAssumption, FileOK DEF IInv, NewVersion
    <2>2. PICK p \in Migrators :
            \/ Advance(p) \/ Crash(p) \/ ServerRollsBack(p)
            \/ Load(p) \/ Loaded(p) \/ LoadFails(p) \/ Exit(p)
            \/ \E option \in Int, dry \in BOOLEAN : Migrate(p, option, dry)
      BY <1>1, <2>1 DEF Next
    <2>3. CASE UNCHANGED <<version, schema>>
      BY <2>3
    <2>4. CASE version' = version /\ p \in Migrators \ dryRun /\ pc'[p] # pc[p]
      BY <2>4
    <2>5. CASE pc[p] = "commit" /\ CommitTransaction(p) /\ file' = file /\ pc'[p] # "commit"
      BY <1>1, <2>5, CommitEffect
    <2> QED
      BY <1>1, <2>2, <2>3, <2>4, <2>5, Effects
  <1>2. ASSUME IInv, [Next]_vars
        PROVE  [Steps]_vars
    BY <1>1, <1>2
  <1> QED
    BY <1>2, Inductive, PTL DEF Spec, StepFromCurrent

\* In the same circumstances, success of a migration in postgres means that no script is
\* left for its target (src/src/amigrations.cpp:144-320).
THEOREM SpecSuccessReached ==
  ASSUME Careful
  PROVE  Spec => SuccessReached
  <1> DEFINE Reached ==
        \A p \in Migrators \ dryRun :
          driver = "postgres" /\ answer[p] = "none" /\ answer'[p] = "ok"
            => NextQuery(Current, target[p]) = NoStep
  <1>1. ASSUME IInv, Next, NEW p \in Migrators \ dryRun,
               driver = "postgres", answer[p] = "none", answer'[p] = "ok"
        PROVE  NextQuery(Current, target[p]) = NoStep
    <2>1. answer \in [Migrators -> {"none", "ok", "error"}]
      BY <1>1 DEF IInv, TypeOK
    <2>2. PICK q \in Migrators :
            \/ Advance(q) \/ Crash(q) \/ ServerRollsBack(q)
            \/ Load(q) \/ Loaded(q) \/ LoadFails(q) \/ Exit(q)
            \/ \E option, dry : Migrate(q, option, dry)
      BY <1>1 DEF Next
    <2>3. CASE VersionRead(q)
      BY <1>1, <2>1, <2>3 DEF VersionRead, Answer
    <2>4. CASE RolledBack(q)
      BY <1>1, <2>1, <2>4 DEF RolledBack, At, Answer, IInv, Planned, Step
    <2>5. CASE LockedRead(q) \/ ScriptRun(q) \/ Fails(q)
      BY <1>1, <2>1, <2>5 DEF LockedRead, ScriptRun, Fails, Return, Answer, call
    <2>6. CASE Begun(q) \/ UpdateVersion(q) \/ BareScriptRun(q) \/ Committed(q) \/ CommitFails(q)
      BY <1>1, <2>1, <2>6
         DEF Begun, UpdateVersion, BareScriptRun, Committed, CommitFails, Answer
    <2>7. CASE Crash(q) \/ Exit(q)
      BY <1>1, <2>1, <2>7 DEF Crash, Exit, Gone
    <2>8. CASE \/ ServerRollsBack(q) \/ Load(q) \/ Loaded(q) \/ LoadFails(q)
               \/ \E option, dry : Migrate(q, option, dry)
      BY <1>1, <2>1, <2>8 DEF ServerRollsBack, Load, Loaded, LoadFails, Migrate, Answer
    <2> QED
      BY <2>2, <2>3, <2>4, <2>5, <2>6, <2>7, <2>8 DEF Advance
  <1>2. ASSUME IInv, [Next]_vars
        PROVE  [Reached]_vars
    BY <1>1, <1>2
  <1> QED
    BY <1>2, Inductive, PTL DEF Spec, SuccessReached

-----------------------------------------------------------------------------
(***************************************************************************)
(* Keys in order.                                                          *)
(***************************************************************************)

Rank(P, i) == Cardinality({j \in P : j <= i})

\* Ranks count the keys from one.
LEMMA RankBijective ==
  ASSUME NEW P \in SUBSET Nat, IsFiniteSet(P)
  PROVE  /\ Cardinality(P) \in Nat
         /\ \A i \in P : Rank(P, i) \in 1 .. Cardinality(P)
         /\ \A i, k \in P : i < k => Rank(P, i) < Rank(P, k)
         /\ \A n \in 1 .. Cardinality(P) : \E i \in P : Rank(P, i) = n
  <1> DEFINE upTo(i) == {j \in P : j <= i}
             n == Cardinality(P)
             f == [i \in P |-> Rank(P, i)]
  <1>1. n \in Nat
    BY FS_CardinalityType
  <1>2. \A i \in P : IsFiniteSet(upTo(i)) /\ Rank(P, i) \in Nat /\ Rank(P, i) <= n
    <2> SUFFICES ASSUME NEW i \in P
                 PROVE  IsFiniteSet(upTo(i)) /\ Rank(P, i) \in Nat /\ Rank(P, i) <= n
      OBVIOUS
    <2>1. upTo(i) \in SUBSET P
      OBVIOUS
    <2>2. IsFiniteSet(upTo(i)) /\ Cardinality(upTo(i)) <= n
      BY <2>1, FS_Subset
    <2> QED
      BY <2>2, FS_CardinalityType DEF Rank
  <1>3. \A i \in P : Rank(P, i) # 0
    <2> SUFFICES ASSUME NEW i \in P PROVE Rank(P, i) # 0
      OBVIOUS
    <2>1. i \in upTo(i)
      OBVIOUS
    <2> QED
      BY <1>2, <2>1, FS_EmptySet DEF Rank
  <1>4. ASSUME NEW i \in P, NEW k \in P, i < k PROVE Rank(P, i) < Rank(P, k)
    <2>1. upTo(i) \in SUBSET upTo(k)
      <3> SUFFICES ASSUME NEW j \in P, j <= i PROVE j <= k
        OBVIOUS
      <3>1. i \in Nat /\ j \in Nat /\ k \in Nat
        OBVIOUS
      <3> QED
        BY <1>4, <3>1
    <2>2. k \in upTo(k) /\ k \notin upTo(i)
      BY <1>4
    <2>3. Cardinality(upTo(i)) <= Cardinality(upTo(k))
          /\ Cardinality(upTo(k)) # Cardinality(upTo(i))
      BY <1>2, <2>1, <2>2, FS_Subset
    <2> QED
      BY <1>2, <2>3 DEF Rank
  <1>5. \A i \in P : Rank(P, i) \in 1 .. n
    <2> SUFFICES ASSUME NEW i \in P PROVE Rank(P, i) \in 1 .. n
      OBVIOUS
    <2>1. Rank(P, i) \in Nat /\ Rank(P, i) <= n /\ Rank(P, i) # 0
      BY <1>2, <1>3
    <2> HIDE DEF n
    <2> QED
      BY <1>1, <2>1
  <1>6. f \in Injection(P, 1 .. n)
    <2>1. f \in [P -> 1 .. n]
      BY <1>5
    <2>2. \A i, k \in P : f[i] = f[k] => i = k
      <3> SUFFICES ASSUME NEW i \in P, NEW k \in P, f[i] = f[k], i # k PROVE FALSE
        OBVIOUS
      <3>1. i < k \/ k < i
        OBVIOUS
      <3>2. Rank(P, i) = Rank(P, k)
        OBVIOUS
      <3>3. Rank(P, i) \in Nat /\ Rank(P, k) \in Nat
        BY <1>2
      <3>4. Rank(P, i) < Rank(P, k) \/ Rank(P, k) < Rank(P, i)
        BY <1>4, <3>1
      <3> QED
        BY <3>2, <3>3, <3>4
    <2> QED
      BY <2>1, <2>2 DEF Injection, IsInjective
  <1>7. IsFiniteSet(1 .. n) /\ Cardinality(1 .. n) = n
    BY <1>1, FS_Interval
  <1>8. f \in Surjection(P, 1 .. n)
    BY <1>6, <1>7, FS_Injection
  <1>9. \A m \in 1 .. n : \E i \in P : Rank(P, i) = m
    BY <1>8 DEF Surjection
  <1> QED
    BY <1>1, <1>4, <1>5, <1>9

\* Ascending has each key at its rank.
LEMMA AscendingProperties ==
  ASSUME NEW S \in SUBSET Nat, IsFiniteSet(S)
  PROVE  /\ Ascending(S) \in Seq(S)
         /\ Cardinality(S) \in Nat /\ Len(Ascending(S)) = Cardinality(S)
         /\ \A n \in 1 .. Cardinality(S) : Ascending(S)[n] \in S /\ Rank(S, Ascending(S)[n]) = n
         /\ \A k \in S : Rank(S, k) \in 1 .. Cardinality(S) /\ Ascending(S)[Rank(S, k)] = k
  <1> DEFINE N == Cardinality(S)
             at(n) == CHOOSE k \in S : Rank(S, k) = n
             r == Ascending(S)
  <1>1. /\ N \in Nat
        /\ \A i \in S : Rank(S, i) \in 1 .. N
        /\ \A i, k \in S : i < k => Rank(S, i) < Rank(S, k)
        /\ \A n \in 1 .. N : \E i \in S : Rank(S, i) = n
    BY RankBijective
  <1>2. \A n \in 1 .. N : at(n) \in S /\ Rank(S, at(n)) = n
    BY <1>1
  <1>3. r = [n \in 1 .. N |-> at(n)]
    BY DEF Ascending, Rank
  <1>4. \A i, k \in S : Rank(S, i) = Rank(S, k) => i = k
    <2> SUFFICES ASSUME NEW i \in S, NEW k \in S, Rank(S, i) = Rank(S, k), i # k PROVE FALSE
      OBVIOUS
    <2>1. i < k \/ k < i
      OBVIOUS
    <2> QED
      BY <1>1, <2>1
  <1> HIDE DEF at, r, N
  <1>5. r \in [1 .. N -> S] /\ \A n \in 1 .. N : r[n] \in S /\ Rank(S, r[n]) = n
    BY <1>2, <1>3
  <1>6. r \in Seq(S) /\ Len(r) = N
    <2>1. r \in Seq(S)
      BY <1>1, <1>5, SeqDef
    <2> QED
      BY <1>1, <1>5, <2>1, LenProperties
  <1>7. \A k \in S : Rank(S, k) \in 1 .. N /\ r[Rank(S, k)] = k
    BY <1>1, <1>4, <1>5
  <1> QED
    BY <1>1, <1>5, <1>6, <1>7 DEF N, r

\* Without the first key, the others have one rank less.
LEMMA RankAfter ==
  ASSUME NEW S \in SUBSET Nat, IsFiniteSet(S), NEW m \in S, \A k \in S : m <= k
  PROVE  /\ Rank(S, m) = 1
         /\ \A k \in S \ {m} : Rank(S \ {m}, k) = Rank(S, k) - 1
  <1> DEFINE upTo(k) == {j \in S : j <= k}
  <1>1. \A k \in S : IsFiniteSet(upTo(k))
    <2> SUFFICES ASSUME NEW k \in S PROVE IsFiniteSet(upTo(k))
      OBVIOUS
    <2>1. upTo(k) \in SUBSET S
      OBVIOUS
    <2> QED
      BY <2>1, FS_Subset
  <1>2. upTo(m) = {m}
    <2>1. \A j \in S : j <= m => j = m
      <3> SUFFICES ASSUME NEW j \in S, j <= m PROVE j = m
        OBVIOUS
      <3>1. j \in Nat /\ m \in Nat /\ m <= j
        OBVIOUS
      <3> QED
        BY <3>1
    <2> QED
      BY <2>1
  <1>3. Rank(S, m) = 1
    BY <1>2, FS_Singleton DEF Rank
  <1>4. ASSUME NEW k \in S \ {m} PROVE Rank(S \ {m}, k) = Rank(S, k) - 1
    <2>1. {j \in S \ {m} : j <= k} = upTo(k) \ {m}
      OBVIOUS
    <2>2. m \in upTo(k)
      OBVIOUS
    <2> HIDE DEF upTo
    <2>3. Cardinality(upTo(k) \ {m}) = Cardinality(upTo(k)) - 1
      BY <1>1, <2>2, FS_RemoveElement
    <2> QED
      BY <2>1, <2>3 DEF Rank, upTo
  <1> QED
    BY <1>3, <1>4

\* The keys after the first one are the rest of the sequence.
LEMMA AscendingTail ==
  ASSUME NEW S \in SUBSET Nat, IsFiniteSet(S), NEW m \in S, \A k \in S : m <= k
  PROVE  /\ Ascending(S) # <<>> /\ Head(Ascending(S)) = m
         /\ Ascending(S \ {m}) = Tail(Ascending(S))
  <1> DEFINE R == S \ {m}
             N == Cardinality(S)
             s == Ascending(S)
             r == Ascending(R)
  <1>1. IsFiniteSet(R) /\ Cardinality(R) = N - 1 /\ R \in SUBSET Nat
    BY FS_RemoveElement
  <1>2. /\ s \in Seq(S) /\ N \in Nat /\ Len(s) = N
        /\ \A n \in 1 .. N : s[n] \in S /\ Rank(S, s[n]) = n
        /\ \A k \in S : Rank(S, k) \in 1 .. N /\ s[Rank(S, k)] = k
    BY AscendingProperties
  <1>3. /\ r \in Seq(R) /\ N - 1 \in Nat /\ Len(r) = N - 1
        /\ \A n \in 1 .. N - 1 : r[n] \in R /\ Rank(R, r[n]) = n
    BY <1>1, AscendingProperties
  <1>4. Rank(S, m) = 1 /\ \A k \in R : Rank(R, k) = Rank(S, k) - 1
    BY RankAfter
  <1> HIDE DEF s, r, R, N
  <1>5. s # <<>> /\ Head(s) = m
    BY <1>2, <1>4, HeadTailProperties
  <1>6. Tail(s) \in Seq(S) /\ Len(Tail(s)) = N - 1 /\ \A n \in 1 .. N - 1 : Tail(s)[n] = s[n + 1]
    BY <1>2, <1>5, HeadTailProperties
  <1>7. r \in Seq(S)
    BY <1>3, SeqDef DEF R
  <1>8. ASSUME NEW n \in 1 .. N - 1 PROVE r[n] = Tail(s)[n]
    <2>1. r[n] \in R /\ r[n] \in S /\ Rank(R, r[n]) = n
      BY <1>3 DEF R
    <2>2. Rank(S, r[n]) = n + 1
      <3>1. Rank(S, r[n]) \in 1 .. N /\ n = Rank(S, r[n]) - 1
        BY <1>2, <1>4, <2>1
      <3> QED
        BY <1>2, <3>1
    <2> QED
      BY <1>2, <1>6, <2>1, <2>2
  <1>9. r = Tail(s)
    BY <1>3, <1>6, <1>7, <1>8, SeqEqual
  <1> QED
    BY <1>5, <1>9 DEF r, s, R

\* Without the last key, the others keep their rank.
LEMMA RankBefore ==
  ASSUME NEW S \in SUBSET Nat, IsFiniteSet(S), NEW m \in S, \A k \in S : k <= m
  PROVE  /\ Rank(S, m) = Cardinality(S)
         /\ \A k \in S \ {m} : Rank(S \ {m}, k) = Rank(S, k)
  <1>1. {j \in S : j <= m} = S
    OBVIOUS
  <1>2. ASSUME NEW k \in S \ {m} PROVE {j \in S \ {m} : j <= k} = {j \in S : j <= k}
    <2>1. k \in Nat /\ m \in Nat /\ ~(m <= k)
      <3>1. k \in Nat /\ m \in Nat /\ k <= m /\ k # m
        BY <1>2
      <3> QED
        BY <3>1
    <2> QED
      BY <2>1
  <1> QED
    BY <1>1, <1>2 DEF Rank

\* The same on the way down: after the last key the rest comes in reverse.
LEMMA DescendingTail ==
  ASSUME NEW S \in SUBSET Nat, IsFiniteSet(S), NEW m \in S, \A k \in S : k <= m
  PROVE  /\ Reverse(Ascending(S)) # <<>> /\ Head(Reverse(Ascending(S))) = m
         /\ Reverse(Ascending(S \ {m})) = Tail(Reverse(Ascending(S)))
  <1> DEFINE R == S \ {m}
             N == Cardinality(S)
             s == Ascending(S)
             r == Ascending(R)
             d == Reverse(s)
             e == Reverse(r)
  <1>1. IsFiniteSet(R) /\ Cardinality(R) = N - 1 /\ R \in SUBSET Nat
    BY FS_RemoveElement
  <1>2. /\ s \in Seq(S) /\ N \in Nat /\ Len(s) = N
        /\ \A n \in 1 .. N : s[n] \in S /\ Rank(S, s[n]) = n
        /\ \A k \in S : Rank(S, k) \in 1 .. N /\ s[Rank(S, k)] = k
    BY AscendingProperties
  <1>3. /\ r \in Seq(R) /\ N - 1 \in Nat /\ Len(r) = N - 1
        /\ \A n \in 1 .. N - 1 : r[n] \in R /\ Rank(R, r[n]) = n
    BY <1>1, AscendingProperties
  <1>4. Rank(S, m) = N /\ \A k \in R : Rank(R, k) = Rank(S, k)
    BY RankBefore
  <1>5. /\ d = [n \in 1 .. N |-> s[(N - n) + 1]]
        /\ e = [n \in 1 .. N - 1 |-> r[(N - 1 - n) + 1]]
    BY <1>2, <1>3 DEF Reverse
  <1> HIDE DEF s, r, d, e, R, N
  <1>6. d \in Seq(S) /\ Len(d) = N
    <2>1. d \in [1 .. N -> S]
      <3>1. \A n \in 1 .. N : (N - n) + 1 \in 1 .. N
        BY <1>2
      <3> QED
        BY <1>2, <1>5, <3>1
    <2>2. d \in Seq(S)
      BY <1>2, <2>1, SeqDef
    <2> QED
      BY <1>2, <2>1, <2>2, LenProperties
  <1>7. e \in Seq(S) /\ Len(e) = N - 1
    <2>1. e \in [1 .. N - 1 -> S]
      <3>1. \A n \in 1 .. N - 1 : (N - 1 - n) + 1 \in 1 .. N - 1
        BY <1>3
      <3>2. \A n \in 1 .. N - 1 : r[n] \in S
        BY <1>3 DEF R
      <3> QED
        BY <1>5, <3>1, <3>2
    <2>2. e \in Seq(S)
      BY <1>3, <2>1, SeqDef
    <2> QED
      BY <1>3, <2>1, <2>2, LenProperties
  <1>8. N \in 1 .. N
    BY <1>2, <1>4
  <1>9. d # <<>> /\ Head(d) = m
    <2>1. d # <<>> /\ Head(d) = d[1]
      BY <1>6, <1>8, HeadTailProperties
    <2>2. d[1] = s[N]
      BY <1>5, <1>8
    <2> QED
      BY <1>2, <1>4, <2>1, <2>2
  <1>10. Tail(d) \in Seq(S) /\ Len(Tail(d)) = N - 1 /\ \A n \in 1 .. N - 1 : Tail(d)[n] = d[n + 1]
    BY <1>6, <1>9, HeadTailProperties
  <1>11. ASSUME NEW n \in 1 .. N - 1 PROVE r[n] = s[n]
    <2>1. r[n] \in S /\ Rank(S, r[n]) = n
      BY <1>3, <1>4 DEF R
    <2> QED
      BY <1>2, <2>1
  <1>12. ASSUME NEW n \in 1 .. N - 1 PROVE e[n] = Tail(d)[n]
    <2>1. N - n \in 1 .. N - 1 /\ n + 1 \in 1 .. N
          /\ (N - 1 - n) + 1 = N - n /\ (N - (n + 1)) + 1 = N - n
      BY <1>2
    <2>2. e[n] = r[N - n]
      BY <1>5, <2>1
    <2>3. Tail(d)[n] = s[N - n]
      BY <1>5, <1>10, <2>1
    <2> QED
      BY <1>11, <2>1, <2>2, <2>3
  <1>13. e = Tail(d)
    BY <1>7, <1>10, <1>12, SeqEqual
  <1> QED
    BY <1>9, <1>13 DEF e, d, r, s, R

\* No keys, no scripts.
LEMMA AscendingNone == Ascending({}) = <<>> /\ Reverse(Ascending({})) = <<>>
  <1>1. {} \in SUBSET Nat /\ IsFiniteSet({}) /\ Cardinality({}) = 0
    BY FS_EmptySet
  <1>2. Ascending({}) \in Seq({}) /\ Len(Ascending({})) = 0
    BY <1>1, AscendingProperties
  <1>3. Ascending({}) = <<>>
    BY <1>2, EmptySeq
  <1>4. Reverse(<<>>) = <<>>
    BY DEF Reverse
  <1> QED
    BY <1>3, <1>4

\* The scripts of a way are finitely many.
LEMMA FiniteWays ==
  ASSUME TypeOK
  PROVE  \A way : Way(way) \in SUBSET Nat /\ IsFiniteSet(Way(way))
  <1> SUFFICES ASSUME NEW way PROVE Way(way) \in SUBSET Nat /\ IsFiniteSet(Way(way))
    OBVIOUS
  <1> DEFINE headers == {g \in file : g.way = way}
  <1>1. IsFiniteSet(file)
    BY ConstantsAssumption DEF TypeOK
  <1>2. IsFiniteSet(headers)
    BY <1>1, FS_Subset
  <1>3. [h \in headers |-> h.version] \in Surjection(headers, Way(way))
    BY DEF Surjection, Way
  <1> QED
    BY <1>2, <1>3, FS_Surjection, FileOK

\* One script after the other, the list is gone through.
LEMMA ListedScripts ==
  ASSUME TypeOK, NEW from \in Nat, NEW to \in Nat, NEW step,
         step = NextQuery(from, to), step # NoStep
  PROVE  /\ SqlListFor(from, to) # <<>> /\ Head(SqlListFor(from, to)) = step.key
         /\ SqlListFor(step.to, to) = Tail(SqlListFor(from, to))
  <1> DEFINE up(k) == {j \in Way("up") : k < j /\ j <= to}
             down(k) == {j \in Way("down") : to < j /\ j <= k}
  <1>1. \A way : Way(way) \in SUBSET Nat /\ IsFiniteSet(Way(way))
    BY FiniteWays
  <1>2. \A k : /\ up(k) \in SUBSET Nat /\ IsFiniteSet(up(k))
               /\ down(k) \in SUBSET Nat /\ IsFiniteSet(down(k))
    <2> SUFFICES ASSUME NEW k
                 PROVE  /\ up(k) \in SUBSET Nat /\ IsFiniteSet(up(k))
                        /\ down(k) \in SUBSET Nat /\ IsFiniteSet(down(k))
      OBVIOUS
    <2>1. up(k) \in SUBSET Way("up") /\ down(k) \in SUBSET Way("down")
      OBVIOUS
    <2> QED
      BY <1>1, <2>1, FS_Subset
  <1>3. Upward(step, from, to) \/ Downward(step, from, to)
    BY NextScript
  <1>4. CASE from < to
    <2> DEFINE m == step.key
    <2>1. Upward(step, from, to)
      BY <1>3, <1>4 DEF Downward
    <2>2. m \in up(from) /\ m \in Nat /\ step.to = m
      BY <1>1, <2>1 DEF Upward
    <2>3. \A k \in up(from) : m <= k
      BY <1>1, <2>1 DEF Upward
    <2>4. up(m) = up(from) \ {m}
      BY <1>1, <2>2, <2>3
    <2>5. SqlListFor(from, to) = Ascending(up(from))
      BY <1>4 DEF SqlListFor
    <2>6. SqlListFor(m, to) = Ascending(up(m))
      <3>1. CASE m < to
        BY <3>1 DEF SqlListFor
      <3>2. CASE ~(m < to)
        <4>1. up(m) = {} /\ down(m) = {}
          BY <1>1, <2>2, <3>2
        <4>2. SqlListFor(m, to) = Reverse(Ascending(down(m)))
          BY <3>2 DEF SqlListFor
        <4> HIDE DEF up, down
        <4> QED
          BY <4>1, <4>2, AscendingNone
      <3> QED
        BY <3>1, <3>2
    <2> HIDE DEF up, m
    <2>7. /\ Ascending(up(from)) # <<>> /\ Head(Ascending(up(from))) = m
          /\ Ascending(up(from) \ {m}) = Tail(Ascending(up(from)))
      BY <1>2, <2>2, <2>3, AscendingTail
    <2> QED
      BY <2>2, <2>4, <2>5, <2>6, <2>7 DEF m
  <1>5. CASE ~(from < to)
    <2>1. Downward(step, from, to)
      <3>1. ~Upward(step, from, to)
        <4> SUFFICES ASSUME Upward(step, from, to) PROVE FALSE
          OBVIOUS
        <4>1. from < step.key /\ step.key <= to /\ step.key \in Nat
          BY <1>1 DEF Upward
        <4> QED
          BY <1>5, <4>1
      <3> QED
        BY <1>3, <3>1
    <2>2. from \in down(from) /\ step.to = from - 1 /\ step.key = from
          /\ from - 1 \in Nat /\ ~(from - 1 < to)
      BY <2>1 DEF Downward
    <2>3. \A k \in down(from) : k <= from
      OBVIOUS
    <2>4. down(from - 1) = down(from) \ {from}
      BY <1>1, <2>2
    <2>5. SqlListFor(from, to) = Reverse(Ascending(down(from)))
      BY <1>5 DEF SqlListFor
    <2>6. SqlListFor(from - 1, to) = Reverse(Ascending(down(from - 1)))
      BY <2>2 DEF SqlListFor
    <2> HIDE DEF down
    <2>7. /\ Reverse(Ascending(down(from))) # <<>>
          /\ Head(Reverse(Ascending(down(from)))) = from
          /\ Reverse(Ascending(down(from) \ {from})) = Tail(Reverse(Ascending(down(from))))
      BY <1>2, <2>2, <2>3, DescendingTail
    <2> QED
      BY <2>2, <2>4, <2>5, <2>6, <2>7
  <1> QED
    BY <1>4, <1>5

\* With no script left, there is none on the list, or the way down has a gap.
LEMMA NothingListed ==
  ASSUME TypeOK, NEW from \in Nat, NEW to \in Nat, NextQuery(from, to) = NoStep
  PROVE  SqlListFor(from, to) = <<>> \/ (from > to /\ from \notin Way("down"))
  <1> DEFINE up == {j \in Way("up") : from < j /\ j <= to}
             down == {j \in Way("down") : to < j /\ j <= from}
  <1>1. CASE from < to
    <2>1. up = {}
      <3> SUFFICES ASSUME up # {} PROVE FALSE
        OBVIOUS
      <3>1. NextQuery(from, to).way = "up"
        BY <1>1 DEF NextQuery
      <3> QED
        BY <3>1 DEF NoStep
    <2>2. SqlListFor(from, to) = Ascending(up)
      BY <1>1 DEF SqlListFor
    <2> HIDE DEF up
    <2> QED
      BY <2>1, <2>2, AscendingNone
  <1>2. CASE from = to
    <2>1. down = {}
      BY <1>2, FileOK
    <2>2. SqlListFor(from, to) = Reverse(Ascending(down))
      BY <1>2 DEF SqlListFor
    <2> HIDE DEF down
    <2> QED
      BY <2>1, <2>2, AscendingNone
  <1>3. CASE from > to /\ from \in Way("down")
    <2>1. NextQuery(from, to).way = "down"
      BY <1>3 DEF NextQuery
    <2> QED
      BY <2>1 DEF NoStep
  <1> QED
    BY <1>1, <1>2, <1>3

LEMMA InitType == Init => TypeOK
  <1> SUFFICES ASSUME Init PROVE TypeOK
    OBVIOUS
  <1> QED
    BY ConstantsAssumption DEF Init, TypeOK, NoRow, Statements

\* A next script leads to a version.
LEMMA ScriptType ==
  ASSUME TypeOK, NEW p \in Migrators
  PROVE  Step(p).to \in Nat \cup {NoRow} /\ Run(Step(p)) \in [Versions -> Int]
  <1>1. seen[p] \in Nat /\ target[p] \in Nat /\ schema \in [Versions -> Int]
    BY DEF TypeOK
  <1>2. Step(p).to \in Nat \cup {NoRow}
    <2>1. CASE Step(p) = NoStep
      BY <2>1 DEF NoStep
    <2>2. CASE Step(p) # NoStep
      BY <1>1, <2>2, NextScript DEF Step
    <2> QED
      BY <2>1, <2>2
  <1>3. Run(Step(p)) \in [Versions -> Int]
    <2> DEFINE step == Step(p)
    <2>1. \A e : (step.key \in Versions => e \in Int) =>
             [schema EXCEPT ![step.key] = e] \in [Versions -> Int]
      BY <1>1
    <2>2. step.key \in Versions => schema[step.key] + (IF step.way = "up" THEN 1 ELSE -1) \in Int
      BY <1>1
    <2>3. (IF step.way = "up" THEN 1 ELSE 0) \in Int
      OBVIOUS
    <2> HIDE DEF step
    <2> QED
      BY <2>1, <2>2, <2>3 DEF Run, step
  <1> QED
    BY <1>2, <1>3

\* Every step keeps the types, in all circumstances.
LEMMA StepType ==
  ASSUME TypeOK, [Next]_vars
  PROVE  TypeOK'
  <1>0. overtaken' \subseteq Migrators
    BY OvertakenStep DEF TypeOK
  <1>1. CASE UNCHANGED vars
    BY <1>1 DEF TypeOK, vars, database, transaction, call
  <1>2. Current \in Nat
    BY DEF TypeOK, Current, NoRow
  <1>3. ASSUME NEW p \in Migrators, Load(p) \/ Loaded(p) \/ LoadFails(p) \/ Exit(p)
        PROVE  TypeOK'
    BY <1>2, <1>3 DEF Load, Loaded, LoadFails, Exit, Gone, Forget, Goto, TypeOK, database,
       transaction, call, Statements
  <1>4. ASSUME NEW p \in Migrators, NEW dry \in BOOLEAN,
               NEW option \in Targets \cup {NewVersion(t) : t \in Targets},
               Migrate(p, option, dry)
        PROVE  TypeOK'
    <2>1. option \in Int /\ Latest \in Int
      BY ConstantsAssumption, FileOK DEF NewVersion
    <2> QED
      BY <1>4, <2>1
         DEF Migrate, Answer, Forget, Goto, TypeOK, database, transaction, call, Statements
  <1>5. ASSUME NEW p \in Migrators, VersionRead(p) \/ Begun(p) \/ LockedRead(p) \/ UpdateVersion(p)
        PROVE  TypeOK'
    <2>1. CASE VersionRead(p)
      BY <1>2, <2>1 DEF VersionRead, At, Answer, Forget, Goto, TypeOK, database, transaction,
         call, Statements
    <2>2. CASE Begun(p)
      BY <2>2 DEF Begun, At, Goto, TypeOK, database, transaction, call, Statements
    <2>3. CASE LockedRead(p)
      BY <1>2, <2>3 DEF LockedRead, LockRow, Return, EndScope, At, Answer, Forget, Goto, TypeOK,
         database, transaction, call, Statements
    <2>4. CASE UpdateVersion(p)
      BY <2>4 DEF UpdateVersion, At, Goto, TypeOK, database, transaction, call, Statements
    <2> QED
      BY <1>5, <2>1, <2>2, <2>3, <2>4
  <1>6. ASSUME NEW p \in Migrators, RolledBack(p) \/ ServerRollsBack(p) \/ Fails(p)
        PROVE  TypeOK'
    BY <1>6 DEF RolledBack, ServerRollsBack, Fails, Over, Return, EndScope, At, Answer, Forget,
       Goto, TypeOK, database, transaction, call, Statements
  <1>7. ASSUME NEW p \in Migrators, ScriptRun(p) \/ BareScriptRun(p)
        PROVE  TypeOK'
    <2>1. CASE ScriptRun(p)
      BY <2>1 DEF ScriptRun, Return, EndScope, At, Answer, Forget, Goto, TypeOK, database,
         transaction, call, Statements
    <2>2. CASE BareScriptRun(p)
      BY <2>2, ScriptType DEF BareScriptRun, At, Goto, TypeOK, transaction, call, Statements
    <2> QED
      BY <1>7, <2>1, <2>2
  <1>8. ASSUME NEW p \in Migrators, CommitTransaction(p)
        PROVE  /\ version' \in Nat \cup {NoRow} /\ schema' \in [Versions -> Int]
               /\ stale' \subseteq Migrators /\ wrote' \subseteq Migrators
               /\ tx' \in [Migrators -> {"none", "open", "ending", "stuck"}]
               /\ lock' \in Migrators \cup {Nobody}
    BY <1>8, ScriptType DEF CommitTransaction, Over, TypeOK
  <1>9. ASSUME NEW p \in Migrators, Committed(p) \/ CommitFails(p)
        PROVE  TypeOK'
    <2>1. CASE CommitTransaction(p)
      BY <1>0, <1>8, <1>9, <2>1
         DEF Committed, CommitFails, At, Answer, Forget, Goto, TypeOK, call,
         Statements
    <2>2. CASE ~CommitTransaction(p)
      BY <1>0, <1>9, <2>2
         DEF Committed, CommitFails, Over, At, Answer, Forget, Goto, TypeOK, call,
         Statements
    <2> QED
      BY <2>1, <2>2
  <1>10. ASSUME NEW p \in Migrators, Crash(p)
         PROVE  TypeOK'
    <2>1. CASE CommitTransaction(p)
      BY <1>0, <1>8, <1>10, <2>1 DEF Crash, Gone, Forget, Goto, TypeOK, Statements
    <2>2. CASE ~CommitTransaction(p)
      <3>1. /\ pc' = [pc EXCEPT ![p] = "idle"] /\ active' = [active EXCEPT ![p] = NoRow]
            /\ target' = [target EXCEPT ![p] = 0] /\ seen' = [seen EXCEPT ![p] = 0]
            /\ dryRun' = dryRun \ {p} /\ answer' = [answer EXCEPT ![p] = "none"]
            /\ overtaken' = overtaken
        BY <1>10, <2>2 DEF Crash, Gone, Forget, Goto
      <3>2. /\ tx' = [tx EXCEPT ![p] = IF @ = "none" THEN "none" ELSE "ending"]
            /\ UNCHANGED <<file, driver, version, lock, wrote, stale>>
        BY <1>10, <2>2 DEF Crash
      <3>3. schema' \in [Versions -> Int]
        <4>1. CASE schema' = schema
          BY <4>1 DEF TypeOK
        <4>2. CASE schema' = Run(Step(p))
          BY <4>2, ScriptType DEF TypeOK
        <4> QED
          BY <1>10, <2>2, <4>1, <4>2 DEF Crash
      <3>4. /\ pc' \in [Migrators -> Statements \cup {"idle", "loading", "loaded"}]
            /\ active' \in [Migrators -> Nat \cup {NoRow}]
            /\ target' \in [Migrators -> Nat] /\ dryRun' \subseteq Migrators
            /\ seen' \in [Migrators -> Nat]
            /\ answer' \in [Migrators -> {"none", "ok", "error"}]
        BY <3>1 DEF TypeOK
      <3>5. /\ tx' \in [Migrators -> {"none", "open", "ending", "stuck"}]
            /\ file' \in Files /\ driver' \in Drivers /\ version' \in Nat \cup {NoRow}
            /\ lock' \in Migrators \cup {Nobody}
            /\ wrote' \subseteq Migrators /\ stale' \subseteq Migrators
            /\ overtaken' \subseteq Migrators
        BY <3>1, <3>2 DEF TypeOK
      <3> QED
        BY <3>3, <3>4, <3>5 DEF TypeOK
    <2> QED
      BY <2>1, <2>2
  <1>11. ASSUME NEW p \in Migrators, Advance(p)
         PROVE  TypeOK'
    BY <1>5, <1>6, <1>7, <1>9, <1>11 DEF Advance
  <1> QED
    BY <1>1, <1>3, <1>4, <1>6, <1>10, <1>11 DEF Next

-----------------------------------------------------------------------------
(***************************************************************************)
(* The list that is shown, and what is left of it.                         *)
(***************************************************************************)

Shown(p) == SqlListFor(active[p], target[p])

Rest(p) == SqlListFor(Current, target[p])

\* A migrator that is not overtaken has run the list up to the database's version, and
\* plans from there.
Ongoing ==
  \A p \in Migrators \ overtaken :
    /\ pc[p] \in Statements => active[p] \in Nat /\ IsSuffix(Rest(p), Shown(p))
    /\ pc[p] \in Statements \ {"read"} => seen[p] = Current
    /\ pc[p] \in {"update", "script", "commit"} => Step(p) # NoStep

\* A sequence in reverse.
LEMMA Reversed ==
  ASSUME NEW S, NEW s \in Seq(S)
  PROVE  /\ Reverse(s) \in Seq(S) /\ Len(Reverse(s)) = Len(s) /\ Len(s) \in Nat
         /\ \A i \in 1 .. Len(s) : Reverse(s)[i] = s[(Len(s) - i) + 1]
  <1>1. Len(s) \in Nat /\ \A i \in 1 .. Len(s) : s[i] \in S
    BY LenProperties, ElementOfSeq
  <1>2. \A i \in 1 .. Len(s) : (Len(s) - i) + 1 \in 1 .. Len(s)
    BY <1>1
  <1>3. Reverse(s) \in [1 .. Len(s) -> S]
    BY <1>1, <1>2 DEF Reverse
  <1>4. Reverse(s) \in Seq(S)
    BY <1>1, <1>3, SeqDef
  <1> QED
    BY <1>1, <1>3, <1>4, LenProperties DEF Reverse

\* A suffix, element by element.
LEMMA SuffixElements ==
  ASSUME NEW S, NEW s \in Seq(S), NEW t \in Seq(S)
  PROVE  IsSuffix(s, t) <=>
           /\ Len(s) <= Len(t)
           /\ \A i \in 1 .. Len(s) : s[(Len(s) - i) + 1] = t[(Len(t) - i) + 1]
  <1> DEFINE a == Reverse(s)
             b == Reverse(t)
             c == SubSeq(a, 1, Len(a))
             d == SubSeq(b, 1, Len(a))
             m == Len(s)
             n == Len(t)
  <1>1. /\ a \in Seq(S) /\ Len(a) = m /\ m \in Nat
        /\ \A i \in 1 .. m : a[i] = s[(m - i) + 1]
    BY Reversed
  <1>2. /\ b \in Seq(S) /\ Len(b) = n /\ n \in Nat
        /\ \A i \in 1 .. n : b[i] = t[(n - i) + 1]
    BY Reversed
  <1>3. c = a
    BY <1>1, SubSeqFull
  <1>4. IsSuffix(s, t) <=> m <= n /\ c = d
    BY <1>1, <1>2 DEF IsSuffix, IsPrefix
  <1> HIDE DEF a, b, m, n, c
  <1> SUFFICES ASSUME m <= n
               PROVE  a = d <=> \A i \in 1 .. m : s[(m - i) + 1] = t[(n - i) + 1]
    BY <1>3, <1>4 DEF m, n
  <1>5. d \in Seq(S) /\ Len(d) = m /\ \A i \in 1 .. m : d[i] = b[i]
    <2>1. \A i \in 1 .. m : i \in 1 .. n
      BY <1>1, <1>2
    <2>2. 1 .. m \subseteq 1 .. n
      BY <2>1
    <2>3. \A i \in 1 .. m : b[i] \in S
      BY <1>2, <2>1, ElementOfSeq
    <2>4. d \in [1 .. m -> S] /\ \A i \in 1 .. m : d[i] = b[i]
      <3>1. d = [i \in 1 .. m |-> b[i]]
        BY <1>1, <1>2
      <3> QED
        BY <2>3, <3>1
    <2>5. d \in Seq(S)
      BY <1>1, <2>4, SeqDef
    <2> QED
      BY <1>1, <2>4, <2>5, LenProperties
  <1> HIDE DEF d
  <1>6. \A i \in 1 .. m : d[i] = t[(n - i) + 1]
    BY <1>1, <1>2, <1>5
  <1>7. a = d <=> \A i \in 1 .. m : a[i] = d[i]
    BY <1>1, <1>5, SeqEqual
  <1> QED
    BY <1>1, <1>6, <1>7

\* What follows the first of a suffix is a suffix.
LEMMA SuffixTail ==
  ASSUME NEW S, NEW s \in Seq(S), NEW t \in Seq(S), IsSuffix(s, t), s # <<>>
  PROVE  IsSuffix(Tail(s), t)
  <1> DEFINE r == Tail(s)
  <1>1. /\ r \in Seq(S) /\ Len(r) = Len(s) - 1 /\ Len(s) \in Nat /\ Len(t) \in Nat
        /\ \A i \in 1 .. Len(r) : r[i] = s[i + 1]
        /\ Len(r) \in Nat
    BY HeadTailProperties, LenProperties
  <1>2. /\ Len(s) <= Len(t)
        /\ \A i \in 1 .. Len(s) : s[(Len(s) - i) + 1] = t[(Len(t) - i) + 1]
    BY SuffixElements
  <1> HIDE DEF r
  <1>3. Len(r) <= Len(t)
    BY <1>1, <1>2
  <1>4. ASSUME NEW i \in 1 .. Len(r)
        PROVE  r[(Len(r) - i) + 1] = t[(Len(t) - i) + 1]
    <2>1. /\ (Len(r) - i) + 1 \in 1 .. Len(r) /\ i \in 1 .. Len(s)
          /\ ((Len(r) - i) + 1) + 1 = (Len(s) - i) + 1
      BY <1>1
    <2>2. r[(Len(r) - i) + 1] = s[((Len(r) - i) + 1) + 1]
      BY <1>1, <2>1
    <2>3. s[(Len(s) - i) + 1] = t[(Len(t) - i) + 1]
      BY <1>2, <2>1
    <2> QED
      BY <2>1, <2>2, <2>3
  <1>5. IsSuffix(r, t)
    BY <1>1, <1>3, <1>4, SuffixElements
  <1> QED
    BY <1>5 DEF r

LEMMA SuffixSelf ==
  ASSUME NEW S, NEW s \in Seq(S)
  PROVE  IsSuffix(s, s)
  <1>1. Len(s) \in Nat
    BY LenProperties
  <1> QED
    BY <1>1, SuffixElements

\* The list is one of versions.
LEMMA Listed ==
  ASSUME TypeOK, NEW from \in Nat, NEW to \in Nat
  PROVE  SqlListFor(from, to) \in Seq(Nat)
  <1> DEFINE up == {j \in Way("up") : from < j /\ j <= to}
             down == {j \in Way("down") : to < j /\ j <= from}
  <1>1. \A way : Way(way) \in SUBSET Nat /\ IsFiniteSet(Way(way))
    BY FiniteWays
  <1>2. up \in SUBSET Nat /\ IsFiniteSet(up) /\ down \in SUBSET Nat /\ IsFiniteSet(down)
    <2>1. up \in SUBSET Way("up") /\ down \in SUBSET Way("down")
      OBVIOUS
    <2> QED
      BY <1>1, <2>1, FS_Subset
  <1> HIDE DEF up, down
  <1>3. \A S \in SUBSET Nat : Seq(S) \subseteq Seq(Nat)
    <2> SUFFICES ASSUME NEW S \in SUBSET Nat, NEW s \in Seq(S) PROVE s \in Seq(Nat)
      OBVIOUS
    <2>1. Len(s) \in Nat /\ s \in [1 .. Len(s) -> Nat]
      BY LenProperties
    <2> QED
      BY <2>1, SeqDef
  <1>4. Ascending(up) \in Seq(Nat) /\ Ascending(down) \in Seq(Nat)
    BY <1>2, <1>3, AscendingProperties
  <1>5. Reverse(Ascending(down)) \in Seq(Nat)
    BY <1>4, Reversed
  <1> QED
    BY <1>4, <1>5 DEF SqlListFor, up, down

LEMMA InitOngoing == Init => Ongoing
  BY DEF Init, Ongoing, Statements

\* The list of another migrator, and what is left of it, stay what they are while the
\* version does.
LEMMA KeptLists ==
  ASSUME NEW p, NEW q, file' = file, version' = version,
         target'[q] = target[q], seen'[q] = seen[q], active'[q] = active[q]
  PROVE  Shown(q)' = Shown(q) /\ Rest(q)' = Rest(q) /\ Step(q)' = Step(q)
  BY DEF Shown, Rest, Step, SqlListFor, NextQuery, Way, Current

\* A step that leaves the version: it begins a call, goes on with one, or ends it.
LEMMA OngoingKept ==
  ASSUME TypeOK, Ongoing, NEW p \in Migrators, file' = file, version' = version,
         \A q \in Migrators \ {p} :
           /\ target'[q] = target[q] /\ seen'[q] = seen[q] /\ active'[q] = active[q]
           /\ pc'[q] = pc[q] /\ (q \in overtaken <=> q \in overtaken'),
         p \notin overtaken' =>
           \/ pc'[p] \notin Statements
           \/ /\ pc[p] = "loaded" /\ pc'[p] = "read"
              /\ active'[p] = Current /\ target'[p] \in Nat
           \/ /\ pc[p] \in Statements /\ p \notin overtaken
              /\ active'[p] = active[p] /\ target'[p] = target[p]
              /\ seen'[p] \in {seen[p], Current} /\ pc'[p] # "read"
              /\ pc[p] = "read" => seen'[p] = Current
              /\ pc'[p] \in {"update", "script", "commit"} =>
                   \/ pc[p] \in {"update", "script", "commit"} /\ seen'[p] = seen[p]
                   \/ seen'[p] = Current /\ NextQuery(Current, target[p]) # NoStep
  PROVE  Ongoing'
  <1>1. Current' = Current /\ Current \in Nat
    BY DEF Current, TypeOK, NoRow
  <1> SUFFICES ASSUME NEW q \in Migrators, q \notin overtaken'
               PROVE  /\ pc'[q] \in Statements =>
                           active'[q] \in Nat /\ IsSuffix(Rest(q)', Shown(q)')
                      /\ pc'[q] \in Statements \ {"read"} => seen'[q] = Current'
                      /\ pc'[q] \in {"update", "script", "commit"} => Step(q)' # NoStep
    BY DEF Ongoing, Statements
  <1>2. CASE q # p
    BY <1>1, <1>2, KeptLists DEF Ongoing
  <1>3. CASE q = p /\ pc'[p] \notin Statements
    BY <1>3 DEF Statements
  <1>4. CASE /\ q = p /\ pc'[p] = "read" /\ active'[p] = Current /\ target'[p] \in Nat
    <2>1. Rest(p)' = SqlListFor(Current, target'[p]) /\ Shown(p)' = Rest(p)'
      BY <1>4 DEF Rest, Shown, SqlListFor, Way, Current
    <2>2. Rest(p)' \in Seq(Nat)
      BY <1>1, <1>4, <2>1, Listed
    <2>3. IsSuffix(Rest(p)', Shown(p)')
      BY <2>1, <2>2, SuffixSelf
    <2> QED
      BY <1>1, <1>4, <2>3
  <1>5. CASE /\ q = p /\ pc[p] \in Statements /\ p \notin overtaken
             /\ active'[p] = active[p] /\ target'[p] = target[p]
             /\ seen'[p] \in {seen[p], Current} /\ pc'[p] # "read"
             /\ pc[p] = "read" => seen'[p] = Current
             /\ pc'[p] \in {"update", "script", "commit"} =>
                  \/ pc[p] \in {"update", "script", "commit"} /\ seen'[p] = seen[p]
                  \/ seen'[p] = Current /\ NextQuery(Current, target[p]) # NoStep
    <2>1. Rest(p)' = Rest(p) /\ Shown(p)' = Shown(p)
      BY <1>5 DEF Shown, Rest, SqlListFor, Way, Current
    <2>2. active[p] \in Nat /\ IsSuffix(Rest(p), Shown(p))
      BY <1>5 DEF Ongoing
    <2>3. seen'[p] = Current
      BY <1>5 DEF Ongoing
    <2>4. pc'[p] \in {"update", "script", "commit"} => NextQuery(Current, target[p]) # NoStep
      BY <1>5 DEF Ongoing, Step, Statements
    <2>5. Step(p)' = NextQuery(Current, target[p])
      BY <1>5, <2>3 DEF Step, NextQuery, Way
    <2> QED
      BY <1>1, <1>5, <2>1, <2>2, <2>3, <2>4, <2>5
  <1> QED
    BY <1>2, <1>3, <1>4, <1>5

\* The version moves by the script at hand, the first of the rest.
LEMMA OngoingCommit ==
  ASSUME TypeOK, Ongoing, NEW p \in Migrators, Committed(p) \/ CommitFails(p) \/ Crash(p),
         CommitTransaction(p)
  PROVE  Ongoing'
  <1>1. /\ file' = file /\ version' = Step(p).to
        /\ overtaken' = overtaken \cup (Migrators \ {p})
        /\ pc[p] = "commit" \/ pc'[p] \notin Statements
    BY DEF Committed, CommitFails, Crash, CommitTransaction, At, Gone, Goto, TypeOK, Statements
  <1> SUFFICES ASSUME p \notin overtaken, pc'[p] \in Statements
               PROVE  /\ active'[p] \in Nat /\ IsSuffix(Rest(p)', Shown(p)')
                      /\ pc'[p] = "read"
    BY <1>1 DEF Ongoing, Statements
  <1>2. /\ pc[p] = "commit" /\ pc'[p] = "read"
        /\ active' = active /\ target' = target
    BY DEF Committed, CommitFails, Crash, Answer, Gone, Goto, TypeOK, Statements, At, call
  <1>3. /\ Step(p) = NextQuery(Current, target[p]) /\ Step(p) # NoStep
        /\ active[p] \in Nat /\ IsSuffix(Rest(p), Shown(p))
    BY <1>2 DEF Ongoing, Step, Statements
  <1>4. Current \in Nat /\ target[p] \in Nat
    BY DEF TypeOK, Current, NoRow
  <1>5. /\ Rest(p) # <<>>
        /\ SqlListFor(Step(p).to, target[p]) = Tail(Rest(p)) /\ Step(p).to \in Nat
    BY <1>3, <1>4, ListedScripts, NextScript DEF Rest
  <1>6. Rest(p) \in Seq(Nat) /\ Shown(p) \in Seq(Nat)
    BY <1>3, <1>4, Listed DEF Rest, Shown
  <1>7. IsSuffix(Tail(Rest(p)), Shown(p))
    BY <1>3, <1>5, <1>6, SuffixTail
  <1>8. Current' = Step(p).to
    BY <1>1, <1>5 DEF Current, NoRow
  <1>9. Rest(p)' = SqlListFor(Step(p).to, target[p])
    BY <1>1, <1>2, <1>8 DEF Rest, SqlListFor, Way
  <1>10. Shown(p)' = Shown(p)
    BY <1>1, <1>2 DEF Shown, SqlListFor, Way
  <1> QED
    BY <1>2, <1>3, <1>5, <1>7, <1>9, <1>10

LEMMA OngoingStep ==
  ASSUME TypeOK, Ongoing, [Next]_vars
  PROVE  Ongoing'
  <1>0. Current \in Nat
    BY DEF TypeOK, Current, NoRow
  <1>1. CASE UNCHANGED vars
    <2>1. /\ UNCHANGED <<file, version, active, overtaken, pc>>
          /\ UNCHANGED <<target, seen>>
      BY <1>1 DEF vars, database, transaction, call
    <2>2. Current' = Current
      BY <2>1 DEF Current
    <2>3. ASSUME NEW p \in Migrators
          PROVE  Shown(p)' = Shown(p) /\ Rest(p)' = Rest(p)
      BY <2>1, <2>2 DEF Shown, Rest, SqlListFor, Way
    <2>4. ASSUME NEW p \in Migrators
          PROVE  Step(p)' = Step(p)
      BY <2>1 DEF Step, NextQuery, Way
    <2> QED
      BY <2>1, <2>2, <2>3, <2>4 DEF Ongoing
  <1>2. ASSUME NEW p \in Migrators, NEW dry \in BOOLEAN,
               NEW option \in Targets \cup {NewVersion(t) : t \in Targets},
               Migrate(p, option, dry)
        PROVE  Ongoing'
    <2>1. /\ UNCHANGED <<file, version, active>>
          /\ overtaken' = IF active[p] = Current THEN overtaken \ {p} ELSE overtaken \cup {p}
          /\ pc[p] = "loaded"
      BY <1>2 DEF Migrate, database
    <2>2. \A q \in Migrators \ {p} :
            target'[q] = target[q] /\ seen'[q] = seen[q] /\ pc'[q] = pc[q]
      BY <1>2 DEF Migrate, Answer, Forget, Goto, TypeOK
    <2>3. pc'[p] \notin Statements \/ (pc'[p] = "read" /\ target'[p] \in Nat)
      <3>1. option \in Int /\ Latest \in Int
        BY ConstantsAssumption, FileOK DEF NewVersion
      <3> QED
        BY <1>2, <3>1 DEF Migrate, Answer, Forget, Goto, TypeOK, Statements
    <2> QED
      BY <2>1, <2>2, <2>3, OngoingKept
  <1>3. ASSUME NEW p \in Migrators, Load(p) \/ Loaded(p) \/ LoadFails(p) \/ Exit(p)
        PROVE  Ongoing'
    <2>1. /\ UNCHANGED <<file, version, overtaken>> /\ pc'[p] \notin Statements
          /\ \A q \in Migrators \ {p} :
               /\ target'[q] = target[q] /\ seen'[q] = seen[q] /\ pc'[q] = pc[q]
               /\ active'[q] = active[q]
      BY <1>3
         DEF Load, Loaded, LoadFails, Exit, Gone, Forget, Goto, TypeOK, Statements, database,
         call
    <2> QED
      BY <2>1, OngoingKept
  <1>4. ASSUME NEW p \in Migrators,
               \/ VersionRead(p) \/ Begun(p) \/ LockedRead(p) \/ RolledBack(p)
               \/ UpdateVersion(p) \/ ScriptRun(p) \/ BareScriptRun(p) \/ Fails(p)
        PROVE  Ongoing'
    <2>1. /\ UNCHANGED <<file, version, active, overtaken>> /\ pc[p] \in Statements
          /\ \A q \in Migrators \ {p} :
               target'[q] = target[q] /\ seen'[q] = seen[q] /\ pc'[q] = pc[q]
      BY <1>4 DEF VersionRead, Begun, LockedRead, RolledBack, UpdateVersion, ScriptRun,
         BareScriptRun, Fails, Return, Answer, Forget, Goto, At, TypeOK, Statements, database, call
    <2>2. \/ pc'[p] \notin Statements
          \/ /\ target'[p] = target[p]
             /\ seen'[p] \in {seen[p], Current} /\ pc'[p] # "read"
             /\ pc[p] = "read" => seen'[p] = Current
             /\ pc'[p] \in {"update", "script", "commit"} =>
                  \/ pc[p] \in {"update", "script", "commit"} /\ seen'[p] = seen[p]
                  \/ seen'[p] = Current /\ NextQuery(Current, target[p]) # NoStep
      <3>1. CASE VersionRead(p) \/ LockedRead(p)
        BY <3>1 DEF VersionRead, LockedRead, Return, Answer, Forget, Goto, At, TypeOK, Statements
      <3>2. CASE Begun(p) \/ UpdateVersion(p) \/ BareScriptRun(p)
        BY <3>2 DEF Begun, UpdateVersion, BareScriptRun, Goto, At, TypeOK, call
      <3>3. CASE RolledBack(p) \/ ScriptRun(p) \/ Fails(p)
        BY <3>3 DEF RolledBack, ScriptRun, Fails, Return, Answer, Forget, Goto, At, TypeOK,
           Statements, call
      <3> QED
        BY <1>4, <3>1, <3>2, <3>3
    <2> QED
      BY <2>1, <2>2, OngoingKept
  <1>5. ASSUME NEW p \in Migrators, Committed(p) \/ CommitFails(p) \/ Crash(p)
        PROVE  Ongoing'
    <2>1. CASE CommitTransaction(p)
      BY <1>5, <2>1, OngoingCommit
    <2>2. CASE ~CommitTransaction(p)
      <3>1. /\ UNCHANGED <<file, version, overtaken>> /\ pc'[p] \notin Statements
            /\ \A q \in Migrators \ {p} :
                 /\ target'[q] = target[q] /\ seen'[q] = seen[q] /\ pc'[q] = pc[q]
                 /\ active'[q] = active[q]
        BY <1>5, <2>2 DEF Committed, CommitFails, Crash, Gone, Answer, Forget, Goto, TypeOK,
           Statements
      <3> QED
        BY <3>1, OngoingKept
    <2> QED
      BY <2>1, <2>2
  <1>6. ASSUME NEW p \in Migrators, ServerRollsBack(p)
        PROVE  Ongoing'
    <2>1. UNCHANGED <<file, version, pc, active, target, seen, overtaken>>
      BY <1>6 DEF ServerRollsBack, call
    <2> QED
      BY <2>1 DEF Ongoing, Shown, Rest, Step, SqlListFor, NextQuery, Way, Current
  <1> QED
    BY <1>1, <1>2, <1>3, <1>4, <1>5, <1>6 DEF Next, Advance

\* The scripts that asql_migration shows before it asks, from the version it has loaded
\* (src/src/asql_migration.cpp:208-212, src/src/amigrations.cpp:414-440), are those that
\* migrate() then runs, one by one and none left out, for any file, versions and targets
\* and in all circumstances, unless the version was moved between the load and a step of
\* the call by another migrator or an earlier call.
THEOREM SpecShownIsRun == Spec => []ShownIsRun
  <1>1. ASSUME TypeOK, Ongoing PROVE ShownIsRun
    <2> SUFFICES ASSUME NEW p \in Migrators \ overtaken, pc[p] \in Statements
                 PROVE  /\ IsSuffix(Rest(p), Shown(p))
                        /\ pc[p] \in {"update", "script", "commit"} =>
                             /\ Rest(p) # <<>> /\ Head(Rest(p)) = Step(p).key
                             /\ SqlListFor(Step(p).to, target[p]) = Tail(Rest(p))
                        /\ pc[p] = "read" /\ NextQuery(Current, target[p]) = NoStep =>
                             \/ Rest(p) = <<>>
                             \/ Current > target[p] /\ Current \notin Way("down")
      BY DEF ShownIsRun, Rest, Shown
    <2>1. Current \in Nat /\ target[p] \in Nat
      BY <1>1 DEF TypeOK, Current, NoRow
    <2>2. pc[p] \in {"update", "script", "commit"} =>
            Step(p) = NextQuery(Current, target[p]) /\ Step(p) # NoStep
      BY <1>1 DEF Ongoing, Step, Statements
    <2>3. pc[p] \in {"update", "script", "commit"} =>
             /\ Rest(p) # <<>> /\ Head(Rest(p)) = Step(p).key
             /\ SqlListFor(Step(p).to, target[p]) = Tail(Rest(p))
      BY <1>1, <2>1, <2>2, ListedScripts DEF Rest
    <2>4. NextQuery(Current, target[p]) = NoStep =>
            Rest(p) = <<>> \/ (Current > target[p] /\ Current \notin Way("down"))
      BY <1>1, <2>1, NothingListed DEF Rest
    <2> QED
      BY <1>1, <2>3, <2>4 DEF Ongoing
  <1>2. ASSUME TypeOK, Ongoing, [Next]_vars PROVE TypeOK' /\ Ongoing'
    BY <1>2, StepType, OngoingStep
  <1> QED
    BY <1>1, <1>2, InitType, InitOngoing, PTL DEF Spec
=============================================================================
