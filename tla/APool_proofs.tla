---------------------------- MODULE APool_proofs ----------------------------
(***************************************************************************)
(* Proofs about APool, its refinement of PoolContract and APoolExec, for   *)
(* every set of calls and drivers, every limit and every kind of driver.   *)
(***************************************************************************)
EXTENDS APoolExec, SequenceTheorems, FiniteSetTheorems, TLAPS

-----------------------------------------------------------------------------
(***************************************************************************)
(* Sequences.                                                              *)
(***************************************************************************)

\* takeLast() removes the last element and nothing else.
LEMMA FrontOfSeq ==
  ASSUME NEW S, NEW s \in Seq(S), s # <<>>, IsInjective(s)
  PROVE  LET front == SubSeq(s, 1, Len(s) - 1)
             last == s[Len(s)]
         IN  /\ front \in Seq(S) /\ IsInjective(front)
             /\ last \in Range(s) /\ last \in S
             /\ Range(front) = Range(s) \ {last}
  <1>1. PICK n \in Nat : n = Len(s) /\ n >= 1
    BY LenProperties, EmptySeq
  <1>2. DOMAIN s = 1..n /\ \A i \in 1..n : s[i] \in S
    BY <1>1, LenProperties, ElementOfSeq
  <1> DEFINE front == SubSeq(s, 1, n - 1)
  <1>3. /\ front \in Seq(S) /\ Len(front) = n - 1
        /\ \A i \in 1..(n - 1) : front[i] = s[i]
    BY <1>1, <1>2, SubSeqProperties
  <1>4. DOMAIN front = 1..(n - 1)
    BY <1>3, LenProperties
  <1> HIDE DEF front
  <1>5. IsInjective(front)
    BY <1>2, <1>3, <1>4 DEF IsInjective
  <1>6. ASSUME NEW i \in 1..(n - 1)
        PROVE  s[i] \in Range(s) \ {s[n]}
    BY <1>1, <1>2 DEF IsInjective, Range
  <1>7. ASSUME NEW i \in 1..n, s[i] # s[n]
        PROVE  s[i] \in Range(front)
    <2>1. i \in 1..(n - 1)
      BY <1>7
    <2> QED
      BY <2>1, <1>3, <1>4 DEF Range
  <1>8. Range(front) = Range(s) \ {s[n]}
    <2>1. ASSUME NEW x \in Range(front) PROVE x \in Range(s) \ {s[n]}
      BY <1>3, <1>4, <1>6 DEF Range
    <2>2. ASSUME NEW x \in Range(s) \ {s[n]} PROVE x \in Range(front)
      BY <1>2, <1>7 DEF Range
    <2> QED
      BY <2>1, <2>2
  <1>9. s[n] \in Range(s) /\ s[n] \in S
    BY <1>1, <1>2 DEF Range
  <1> QED
    BY <1>1, <1>3, <1>5, <1>8, <1>9 DEF front

\* The queue loop leaves the clients after the one it served.
LEMMA RestOfSeq ==
  ASSUME NEW S, NEW s \in Seq(S), NEW i \in DOMAIN s
  PROVE  LET rest == SubSeq(s, i + 1, Len(s))
         IN  rest \in Seq(S) /\ Range(rest) \subseteq Range(s)
  <1> DEFINE rest == SubSeq(s, i + 1, Len(s))
  <1>1. /\ Len(s) \in Nat /\ DOMAIN s = 1..Len(s)
        /\ \A k \in 1..Len(s) : s[k] \in S
    BY LenProperties, ElementOfSeq
  <1>2. i \in 1..Len(s) /\ i \in Int /\ i + 1 \in Int
    BY <1>1
  <1>3. /\ rest \in Seq(S)
        /\ Len(rest) = IF i + 1 <= Len(s) THEN Len(s) - (i + 1) + 1 ELSE 0
        /\ \A j \in 1..(Len(s) - (i + 1) + 1) : rest[j] = s[i + 1 + j - 1]
    <2>1. \A k \in (i + 1)..Len(s) : s[k] \in S
      BY <1>1, <1>2
    <2> QED
      BY <1>1, <1>2, <2>1, SubSeqProperties
  <1>4. DOMAIN rest = 1..Len(rest)
    BY <1>3, LenProperties
  <1>5. \A j \in DOMAIN rest : rest[j] = s[i + j] /\ i + j \in DOMAIN s
    BY <1>1, <1>2, <1>3, <1>4
  <1> QED
    BY <1>3, <1>5 DEF Range

\* push_back() adds its argument and nothing else.
LEMMA AppendToSeq ==
  ASSUME NEW S, NEW s \in Seq(S), NEW e \in S
  PROVE  /\ Append(s, e) \in Seq(S)
         /\ Range(Append(s, e)) = Range(s) \cup {e}
         /\ IsInjective(s) /\ e \notin Range(s) => IsInjective(Append(s, e))
  <1>1. Len(s) \in Nat /\ DOMAIN s = 1..Len(s)
    BY LenProperties
  <1>2. /\ Append(s, e) \in Seq(S) /\ Len(Append(s, e)) = Len(s) + 1
        /\ \A i \in 1..Len(s) : Append(s, e)[i] = s[i]
        /\ Append(s, e)[Len(s) + 1] = e
    BY AppendProperties
  <1>3. DOMAIN Append(s, e) = 1..(Len(s) + 1)
    BY <1>2, LenProperties
  <1>4. \A i \in 1..(Len(s) + 1) : i \in 1..Len(s) \/ i = Len(s) + 1
    BY <1>1
  <1> QED
    BY <1>1, <1>2, <1>3, <1>4 DEF Range, IsInjective

-----------------------------------------------------------------------------
(***************************************************************************)
(* The inductive invariant: where a driver may be, as Exclusive and        *)
(* NoDeletedInUse say it, and which calls may hold one or wait.            *)
(***************************************************************************)
Ownership ==
  /\ removals = 0 => registered
  /\ \A c \in Calls : status[c] = "none"
       => opening[c] = NoDriver /\ c \notin Range(connectionQueue)
  /\ \A c \in Calls : db[c] # NoDriver
       => status[c] = "Done" /\ opening[c] = NoDriver
  /\ \A c \in Range(connectionQueue) : Awaitable(c) => opening[c] = NoDriver

\* Exclusive and NoDeletedInUse, driver by driver.
Uses(c, d) == opening[c] = d \/ db[c] = d

Apart ==
  /\ IsInjective(pool)
  /\ \A d \in Drivers : d \in Idle => /\ d \notin hooks
                                      /\ \A c \in Calls : ~Uses(c, d)
                                      /\ d \in Live
  /\ \A d \in Drivers : \A c, e \in Calls : Uses(c, d) /\ Uses(e, d) => c = e
  /\ \A d \in Drivers : \A c \in Calls : Uses(c, d) => d \in Live
  /\ \A d \in hooks : d \in Live

IInv == TypeOK /\ Apart /\ Ownership

\* The form of the invariant that the steps below use says what the two
\* properties say.
LEMMA ApartIsExclusive ==
  ASSUME TypeOK
  PROVE  Apart <=> Exclusive /\ NoDeletedInUse
  <1>1. \A c \in Calls : \A d \in Drivers : d \in LeasedTo(c) <=> Uses(c, d)
    BY ConstantsAssumption DEF LeasedTo, Uses
  <1>2. \A c \in Calls : LeasedTo(c) \subseteq Drivers
    BY DEF TypeOK, LeasedTo
  <1>3. Idle \subseteq Drivers
    BY RangeOfSeq DEF TypeOK, Idle
  <1>4. \A d \in Drivers :
          d \in Leased <=> d \in hooks \/ \E c \in Calls : Uses(c, d)
    BY <1>1 DEF Leased
  <1>5. Leased \subseteq Drivers
    BY <1>2 DEF Leased, TypeOK
  <1>6. (\A c, e \in Calls : LeasedTo(c) \cap LeasedTo(e) # {} => c = e)
          <=> \A d \in Drivers : \A c, e \in Calls :
                Uses(c, d) /\ Uses(e, d) => c = e
    BY <1>1, <1>2
  <1>7. Live \subseteq Drivers
    BY DEF Live
  <1>8. Idle \cap Leased = {}
          <=> \A d \in Drivers : d \in Idle => /\ d \notin hooks
                                             /\ \A c \in Calls : ~Uses(c, d)
    BY <1>3, <1>4
  <1>9. Idle \cup Leased \subseteq Live
          <=> /\ \A d \in Drivers : d \in Idle => d \in Live
              /\ \A d \in hooks : d \in Live
              /\ \A d \in Drivers : \A c \in Calls : Uses(c, d) => d \in Live
    BY <1>3, <1>4, <1>5 DEF TypeOK
  <1> QED
    BY <1>6, <1>8, <1>9 DEF Apart, Exclusive, NoDeletedInUse

-----------------------------------------------------------------------------
(***************************************************************************)
(* pushDatabaseBack of a driver nobody uses keeps the invariant.           *)
(***************************************************************************)
\* Whichever branch of pushDatabaseBack is taken, the driver ends in one place
\* or is deleted, provided that nobody refers to it any more.
LEMMA PushBackKeeps ==
  ASSUME IInv,
         NEW d \in Live, d \notin Idle,
         NEW dbs \in [Calls -> Drivers \cup {NoDriver}],
         NEW held \in SUBSET hooks, d \notin held,
         opening' \in [Calls -> Drivers \cup {NoDriver}],
         \A c \in Calls : opening'[c] \in {opening[c], NoDriver} \ {d},
         \A c \in Calls : dbs[c] \in {db[c], NoDriver} \ {d},
         pushDatabaseBack(d, dbs, held),
         UNCHANGED <<poolVars, receiver>>
  PROVE  IInv'
  <1> USE DEF IInv
  <1>0. d \in Drivers /\ d # NoDriver
    BY ConstantsAssumption DEF Live
  <1>a. \A c \in Calls : \A x \in Drivers :
          /\ dbs[c] = x => db[c] = x /\ x # d
          /\ opening'[c] = x => opening[c] = x /\ x # d
    BY ConstantsAssumption
  <1>b. \A c \in Calls : /\ dbs[c] # NoDriver => db[c] # NoDriver
                        /\ opening[c] = NoDriver => opening'[c] = NoDriver
    OBVIOUS
  <1>c. Range(connectionQueue) \subseteq Calls
    BY RangeOfSeq DEF TypeOK
  <1>1. CASE Delete(d) /\ Returned(dbs, held) /\ UNCHANGED <<pool, connectionQueue>>
             /\ connectionCount' \in {connectionCount, connectionCount - 1}
    <2>1. TypeOK'
      BY <1>0, <1>1 DEF TypeOK, Delete, Returned, poolVars, DriverState
    <2>2. Live' = Live \ {d} /\ Idle' = Idle
      BY <1>1, <2>1 DEF Live, Idle, Delete, TypeOK
    <2>3. Apart'
      BY <1>0, <1>a, <1>1, <2>2 DEF Apart, Uses, Returned, Idle
    <2>4. Ownership'
      BY <1>b, <1>c, <1>1 DEF Ownership, Returned, poolVars, Awaitable, TypeOK
    <2> QED
      BY <2>1, <2>3, <2>4
  <1>2. CASE Returned(dbs, held)
             /\ UNCHANGED <<pool, connectionQueue, connectionCount, state, setUp>>
    <2>1. TypeOK'
      BY <1>2 DEF TypeOK, Returned, poolVars
    <2>2. Live' = Live /\ Idle' = Idle
      BY <1>2 DEF Live, Idle
    <2>3. Apart'
      BY <1>0, <1>a, <1>2, <2>2 DEF Apart, Uses, Returned, Idle
    <2>4. Ownership'
      BY <1>b, <1>c, <1>2 DEF Ownership, Returned, poolVars, Awaitable, TypeOK
    <2> QED
      BY <2>1, <2>3, <2>4
  <1>3. CASE ServeQueued(d, dbs, held)
    <2>1. PICK i \in DOMAIN connectionQueue :
            /\ Servable(connectionQueue[i])
            /\ connectionQueue' = SubSeq(connectionQueue, i + 1,
                                         Len(connectionQueue))
            /\ db' = [dbs EXCEPT ![connectionQueue[i]] = d]
            /\ status' = [status EXCEPT ![connectionQueue[i]] = "Done"]
            /\ hooks' \in {held, held \cup {d}}
            /\ UNCHANGED <<pool, connectionCount, state, setUp>>
      BY <1>3 DEF ServeQueued, FirstServable, RunHook
    <2>2. PICK c \in Calls : c = connectionQueue[i] /\ c \in Range(connectionQueue)
      BY <1>c DEF Range
    <2>3. /\ connectionQueue' \in Seq(Calls)
          /\ Range(connectionQueue') \subseteq Range(connectionQueue)
      BY <2>1, RestOfSeq DEF TypeOK
    <2>4. Awaitable(c) /\ opening[c] = NoDriver /\ opening'[c] = NoDriver
      BY <2>1, <2>2 DEF Servable, Ownership
    <2>5. TypeOK'
      BY <1>0, <2>1, <2>2, <2>3 DEF TypeOK, poolVars, CallStatus
    <2>6. Live' = Live /\ Idle' = Idle
      BY <2>1 DEF Live, Idle
    <2>7. \A e \in Calls : db'[e] = IF e = c THEN d ELSE dbs[e]
      BY <2>1, <2>2 DEF TypeOK
    <2>8. Apart'
      <3>1. \A x \in Drivers : \A e \in Calls :
              Uses(e, x)' => Uses(e, x) \/ (e = c /\ x = d)
        BY <1>a, <2>7 DEF Uses
      <3>2. \A e \in Calls : e # c => ~Uses(e, d)'
        BY <1>0, <1>a, <2>7 DEF Uses
      <3>3. \A x \in Drivers : Uses(c, x)' => x = d
        BY <2>2, <2>4, <2>7, ConstantsAssumption DEF Uses
      <3>4. hooks' \subseteq hooks \cup {d}
        BY <2>1
      <3>5. IsInjective(pool')
        BY <2>1 DEF Apart
      <3>6. \A x \in Drivers : x \in Idle' =>
              x \notin hooks' /\ (\A e \in Calls : ~Uses(e, x)') /\ x \in Live'
        BY <2>6, <3>1, <3>4 DEF Apart
      <3>7. \A x \in Drivers : \A e, f \in Calls :
              Uses(e, x)' /\ Uses(f, x)' => e = f
        BY <3>1, <3>2 DEF Apart
      <3>8. \A x \in Drivers : \A e \in Calls : Uses(e, x)' => x \in Live'
        BY <2>6, <3>1 DEF Apart
      <3>9. \A x \in hooks' : x \in Live'
        BY <2>6, <3>4 DEF Apart
      <3> QED
        BY <3>5, <3>6, <3>7, <3>8, <3>9 DEF Apart
    <2>9. Ownership'
      BY <1>b, <1>c, <2>1, <2>2, <2>3, <2>4, <2>7
         DEF Ownership, poolVars, Awaitable, TypeOK
    <2> QED
      BY <2>5, <2>8, <2>9
  <1>4. CASE KeepOrDelete(d, dbs, held) /\ Len(pool) >= maxIdleConnections
    <2>1. /\ connectionQueue' = <<>> /\ pool' = pool /\ Delete(d)
          /\ connectionCount' = connectionCount - 1 /\ Returned(dbs, held)
      BY <1>4 DEF KeepOrDelete, Returned
    <2>2. TypeOK'
      BY <1>0, <2>1 DEF TypeOK, Delete, Returned, poolVars, DriverState
    <2>3. Live' = Live \ {d} /\ Idle' = Idle
      BY <2>1, <2>2 DEF Live, Idle, Delete, TypeOK
    <2>4. Apart'
      BY <1>0, <1>a, <2>1, <2>3 DEF Apart, Uses, Returned, Idle
    <2>5. Ownership'
      BY <1>b, <1>c, <2>1 DEF Ownership, Returned, poolVars, Awaitable, Range
    <2> QED
      BY <2>2, <2>4, <2>5
  <1>5. CASE KeepOrDelete(d, dbs, held) /\ ~(Len(pool) >= maxIdleConnections)
    <2>1. /\ connectionQueue' = <<>> /\ pool' = Append(pool, d)
          /\ UNCHANGED <<connectionCount, state, setUp>> /\ Returned(dbs, held)
      BY <1>5 DEF KeepOrDelete, Returned
    <2>2. /\ pool' \in Seq(Drivers) /\ Idle' = Idle \cup {d}
          /\ IsInjective(pool')
      BY <1>0, <2>1, AppendToSeq DEF TypeOK, Apart, Idle
    <2>3. TypeOK'
      BY <2>1, <2>2 DEF TypeOK, Returned, poolVars
    <2>4. Live' = Live
      BY <2>1 DEF Live
    <2>5. Apart'
      BY <1>0, <1>a, <2>1, <2>2, <2>4 DEF Apart, Uses, Returned, Idle
    <2>6. Ownership'
      BY <1>b, <1>c, <2>1 DEF Ownership, Returned, poolVars, Awaitable, Range
    <2> QED
      BY <2>3, <2>5, <2>6
  <1> QED
    BY <1>1, <1>2, <1>3, <1>4, <1>5 DEF pushDatabaseBack

-----------------------------------------------------------------------------
(***************************************************************************)
(* Every action keeps the invariant.                                       *)
(***************************************************************************)
\* The invariant holds of the pool APool::create() makes.
LEMMA InitIInv == Init => IInv
  <1> SUFFICES ASSUME Init PROVE IInv
    OBVIOUS
  <1> USE ConstantsAssumption DEF Init
  <1>1. pool \in Seq(Drivers) /\ connectionQueue \in Seq(Calls)
    BY EmptySeq
  <1>2. Range(pool) = {} /\ Range(connectionQueue) = {} /\ IsInjective(pool)
    BY DEF Range, IsInjective
  <1>3. TypeOK
    BY <1>1 DEF TypeOK, DriverState, CallStatus
  <1>4. Apart
    BY <1>2 DEF Apart, Idle, Uses
  <1>5. Ownership
    BY <1>2 DEF Ownership
  <1> QED
    BY <1>3, <1>4, <1>5 DEF IInv

\* What a driver being opened for a new call does not disturb.
LEMMA BeginOpenKeeps ==
  ASSUME IInv, NEW c \in Calls, NEW d \in Drivers,
         status[c] = "none",
         d \notin hooks, \A e \in Calls : ~Uses(e, d),
         BeginOpen(c, d), db' = db, hooks' = hooks
  PROVE  /\ opening' \in [Calls -> Drivers \cup {NoDriver}]
         /\ state' \in [Drivers -> DriverState]
         /\ Live' = Live \cup {d}
         /\ \A e \in Calls : \A x \in Drivers :
              Uses(e, x)' <=> Uses(e, x) \/ (e = c /\ x = d)
  <1> USE DEF IInv, BeginOpen
  <1>1. opening[c] = NoDriver
    BY DEF Ownership
  <1>2. PICK s \in {"Connecting", "Disconnected"} : state' = [state EXCEPT ![d] = s]
    OBVIOUS
  <1>3. state' \in [Drivers -> DriverState]
    BY <1>2 DEF TypeOK, DriverState
  <1>4. \A x \in Drivers : state'[x] = IF x = d THEN s ELSE state[x]
    BY <1>2 DEF TypeOK
  <1>5. Live' = Live \cup {d}
    BY <1>4 DEF Live
  <1> QED
    BY <1>1, <1>3, <1>5, ConstantsAssumption DEF TypeOK, Uses

\* Callers of database() pass no receiver or one that lives.
LEMMA ReceiversPassed == ReceiverChoices \subseteq {"null", "alive"}
  BY ConstantsAssumption

\* APool::database() keeps the invariant, whichever way it answers.
LEMMA DatabaseKeeps ==
  ASSUME IInv, NEW c \in Calls, NEW r \in {"null", "alive"}, database(c, r)
  PROVE  IInv'
  <1> USE DEF IInv
  <1>0. /\ status[c] = "none" /\ opening[c] = NoDriver /\ db[c] = NoDriver
        /\ c \notin Range(connectionQueue)
    BY DEF database, DatabaseNotFound, DatabaseQueue, DatabaseCreate,
           DatabaseReuse, DatabaseReopen, NewCall, Ownership
  <1>1. /\ receiver' \in [Calls -> {"null", "alive", "dead"}]
        /\ status' \in [Calls -> CallStatus]
        /\ \A e \in Calls : e # c => status'[e] = status[e]
        /\ status'[c] \in {"Waiting", "Done"}
    BY ConstantsAssumption
       DEF database, DatabaseNotFound, DatabaseQueue, DatabaseCreate,
           DatabaseReuse, DatabaseReopen, NewCall, TypeOK, CallStatus
  <1>2. Range(connectionQueue) \subseteq Calls
    BY RangeOfSeq DEF TypeOK
  <1>3. CASE DatabaseNotFound(c, r)
    <2> USE <1>3 DEF DatabaseNotFound, poolVars
    <2>1. TypeOK'
      BY <1>1 DEF TypeOK
    <2>2. Apart'
      BY DEF Apart, Uses, Idle, Live
    <2>3. Ownership'
      BY <1>0, <1>1, <1>2 DEF Ownership, Awaitable
    <2> QED
      BY <2>1, <2>2, <2>3
  <1>4. CASE DatabaseQueue(c, r)
    <2> USE <1>4 DEF DatabaseQueue, poolVars
    <2>1. /\ connectionQueue' \in Seq(Calls)
          /\ Range(connectionQueue') = Range(connectionQueue) \cup {c}
      BY AppendToSeq DEF TypeOK
    <2>2. TypeOK'
      BY <1>1, <2>1 DEF TypeOK
    <2>3. Apart'
      BY DEF Apart, Uses, Idle, Live
    <2>4. Ownership'
      BY <1>0, <1>1, <1>2, <2>1 DEF Ownership, Awaitable
    <2> QED
      BY <2>2, <2>3, <2>4
  <1>5. CASE DatabaseCreate(c, r)
    <2> USE DEF DatabaseCreate, poolVars
    <2>1. PICK d \in Drivers \ Live : BeginOpen(c, d)
      BY <1>5
    <2>2. d \notin Idle /\ d \notin hooks /\ \A e \in Calls : ~Uses(e, d)
      BY <2>1 DEF Apart
    <2>3. /\ opening' \in [Calls -> Drivers \cup {NoDriver}]
          /\ state' \in [Drivers -> DriverState]
          /\ Live' = Live \cup {d}
          /\ \A e \in Calls : \A x \in Drivers :
               Uses(e, x)' <=> Uses(e, x) \/ (e = c /\ x = d)
      BY <1>0, <1>5, <2>1, <2>2, BeginOpenKeeps
    <2>4. TypeOK'
      BY <1>1, <1>5, <2>3 DEF TypeOK
    <2>5. Apart'
      BY <1>5, <2>2, <2>3 DEF Apart, Idle
    <2>6. Ownership'
      BY <1>0, <1>1, <1>2, <1>5, <2>1 DEF Ownership, Awaitable, BeginOpen, TypeOK
    <2> QED
      BY <2>4, <2>5, <2>6
  <1>6. CASE DatabaseReuse(c, r) \/ DatabaseReopen(c, r)
    <2>1. PICK d \in Drivers :
            /\ d = pool[Len(pool)] /\ d \in Idle
            /\ pool' \in Seq(Drivers) /\ IsInjective(pool')
            /\ Idle' = Idle \ {d}
      <3>1. /\ pool \in Seq(Drivers) /\ pool # <<>> /\ IsInjective(pool)
            /\ pool' = SubSeq(pool, 1, Len(pool) - 1)
        BY <1>6 DEF DatabaseReuse, DatabaseReopen, TakeLast, TypeOK, Apart
      <3>2. /\ pool' \in Seq(Drivers) /\ IsInjective(pool')
            /\ pool[Len(pool)] \in Range(pool) /\ pool[Len(pool)] \in Drivers
            /\ Range(pool') = Range(pool) \ {pool[Len(pool)]}
        BY <3>1, FrontOfSeq
      <3> QED
        BY <3>2 DEF Idle
    <2>2. d \notin hooks /\ (\A e \in Calls : ~Uses(e, d)) /\ d \in Live
      BY <2>1 DEF Apart
    <2>3. CASE DatabaseReuse(c, r)
      <3>1. /\ db' = [db EXCEPT ![c] = d] /\ hooks' \in {hooks, hooks \cup {d}}
            /\ UNCHANGED <<poolVars, connectionQueue, connectionCount, state,
                           setUp, opening>>
            /\ status' = [status EXCEPT ![c] = "Done"]
        BY <2>1, <2>3 DEF DatabaseReuse, RunHook, NewCall
      <3>2. TypeOK'
        BY <1>1, <2>1, <3>1 DEF TypeOK, poolVars
      <3>3. Live' = Live
        BY <3>1 DEF Live
      <3>4. \A e \in Calls : \A x \in Drivers :
              Uses(e, x)' <=> Uses(e, x) \/ (e = c /\ x = d)
        BY <1>0, <3>1, ConstantsAssumption DEF TypeOK, Uses
      <3>5. Apart'
        BY <2>1, <2>2, <3>1, <3>3, <3>4 DEF Apart
      <3>6. Ownership'
        BY <1>0, <1>2, <3>1 DEF Ownership, Awaitable, TypeOK, poolVars
      <3> QED
        BY <3>2, <3>5, <3>6
    <2>4. CASE DatabaseReopen(c, r)
      <3>1. /\ BeginOpen(c, d)
            /\ UNCHANGED <<poolVars, connectionQueue, connectionCount, setUp,
                           hooks, db>>
        BY <2>1, <2>4 DEF DatabaseReopen
      <3>2. /\ opening' \in [Calls -> Drivers \cup {NoDriver}]
            /\ state' \in [Drivers -> DriverState]
            /\ Live' = Live \cup {d}
            /\ \A e \in Calls : \A x \in Drivers :
                 Uses(e, x)' <=> Uses(e, x) \/ (e = c /\ x = d)
        BY <1>0, <2>2, <3>1, BeginOpenKeeps
      <3>3. TypeOK'
        BY <1>1, <2>1, <3>1, <3>2 DEF TypeOK, poolVars
      <3>4. Apart'
        BY <2>1, <2>2, <3>1, <3>2 DEF Apart
      <3>5. Ownership'
        BY <1>0, <1>1, <1>2, <3>1 DEF Ownership, Awaitable, BeginOpen, TypeOK, poolVars
      <3> QED
        BY <3>3, <3>4, <3>5
    <2> QED
      BY <1>6, <2>3, <2>4
  <1> QED
    BY <1>3, <1>4, <1>5, <1>6 DEF database

\* The steps of a caller that only change what became of its call.
LEMMA CallerKeeps ==
  ASSUME IInv, NEW c \in Calls,
         Await(c) \/ DropAwaitable(c) \/ DestroyCoroutine(c)
           \/ DestroyReceiver(c) \/ EndCall(c)
  PROVE  IInv'
  <1> USE DEF IInv, onlyStatus, poolVars
  <1>1. UNCHANGED onlyStatus
    BY DEF Await, DropAwaitable, DestroyCoroutine, DestroyReceiver, EndCall
  <1>2. Apart'
    BY <1>1 DEF Apart, Uses, Idle, Live
  <1>3. CASE EndCall(c)
    <2>1. TypeOK'
      BY <1>1, <1>3 DEF EndCall, TypeOK, CallStatus
    <2>2. opening[c] = NoDriver /\ db[c] = NoDriver /\ c \notin Range(connectionQueue)
      BY <1>3 DEF EndCall, LeasedTo
    <2>3. Ownership'
      BY <1>1, <1>3, <2>2, RangeOfSeq DEF EndCall, Ownership, Awaitable, TypeOK
    <2> QED
      BY <1>2, <2>1, <2>3
  <1>4. CASE Await(c) \/ DropAwaitable(c) \/ DestroyCoroutine(c) \/ DestroyReceiver(c)
    <2>1. TypeOK'
      BY <1>1, <1>4 DEF Await, DropAwaitable, DestroyCoroutine, DestroyReceiver,
                        TypeOK, CallStatus
    <2>2. \A e \in Calls : /\ (status'[e] = "none") <=> (status[e] = "none")
                           /\ (status[e] = "Done") => (status'[e] = "Done")
                           /\ Awaitable(e)' => Awaitable(e)
      BY <1>4 DEF Await, DropAwaitable, DestroyCoroutine, DestroyReceiver,
                  TypeOK, Awaitable
    <2>3. Ownership'
      BY <1>1, <2>2, RangeOfSeq DEF Ownership, TypeOK
    <2> QED
      BY <1>2, <2>1, <2>3
  <1> QED
    BY <1>3, <1>4

\* The end of a lease keeps the invariant: the driver goes back only when no
\* hook has a copy.
LEMMA ReleaseKeeps ==
  ASSUME IInv, NEW c \in Calls, Release(c)
  PROVE  IInv'
  <1> USE DEF IInv
  <1>0. PICK d \in Drivers : d = db[c] /\ d # NoDriver
    BY DEF Release, GiveBack, TypeOK
  <1>d. PICK dbs \in [Calls -> Drivers \cup {NoDriver}] :
          dbs = [db EXCEPT ![c] = NoDriver]
    BY DEF TypeOK
  <1>1. Uses(c, d) /\ UNCHANGED <<poolVars, opening, receiver>>
    BY <1>0 DEF Release, GiveBack, Uses
  <1>2. CASE d \in hooks
    <2>1. /\ db' = dbs
          /\ UNCHANGED <<pool, connectionQueue, connectionCount, state, setUp,
                         status, hooks>>
      BY <1>0, <1>d, <1>2 DEF Release, GiveBack
    <2>2. TypeOK'
      BY <1>1, <2>1 DEF TypeOK, poolVars
    <2>3. \A e \in Calls : \A x \in Drivers : Uses(e, x)' => Uses(e, x)
      BY <1>d, <1>1, <2>1, ConstantsAssumption DEF Uses, TypeOK
    <2>4. Apart'
      BY <1>1, <2>1, <2>3 DEF Apart, Idle, Live
    <2>5. Ownership'
      BY <1>d, <1>1, <2>1 DEF Ownership, Awaitable, poolVars, TypeOK
    <2> QED
      BY <2>2, <2>4, <2>5
  <1>3. CASE d \notin hooks
    <2>1. pushDatabaseBack(d, dbs, hooks)
      BY <1>0, <1>d, <1>3 DEF Release, GiveBack
    <2>2. d \in Live /\ d \notin Idle
      BY <1>1 DEF Apart
    <2>3. \A e \in Calls : e # c => ~Uses(e, d)
      BY <1>1 DEF Apart
    <2>4. opening[c] = NoDriver
      BY <1>0 DEF Ownership
    <2>5. \A e \in Calls : opening'[e] \in {opening[e], NoDriver} \ {d}
      BY <1>0, <1>1, <2>3, <2>4 DEF Uses
    <2>6. \A e \in Calls : dbs[e] \in {db[e], NoDriver} \ {d}
      BY <1>0, <1>d, <2>3 DEF Uses, TypeOK
    <2>7. opening' \in [Calls -> Drivers \cup {NoDriver}]
      BY <1>1 DEF TypeOK
    <2>8. hooks \in SUBSET hooks /\ d \notin hooks /\ UNCHANGED <<poolVars, receiver>>
      BY <1>1, <1>3
    <2> QED
      BY <1>1, <2>1, <2>2, <2>5, <2>6, <2>7, <2>8, PushBackKeeps
  <1> QED
    BY <1>2, <1>3

\* The end of an open keeps the invariant: the driver moves from the
\* PoolOpenDelivery to the call, or stays with it.
LEMMA OpenKeeps ==
  ASSUME IInv, NEW c \in Calls, OpenSucceeds(c) \/ OpenFails(c)
  PROVE  IInv'
  <1> USE DEF IInv
  <1>1. PICK d \in Drivers : d = opening[c] /\ d # NoDriver /\ state[d] = "Connecting"
    BY DEF OpenSucceeds, OpenFails, TypeOK
  <1>2. /\ d \in Live /\ Uses(c, d) /\ d \notin Idle
        /\ status[c] \notin {"none", "Done"} /\ db[c] = NoDriver
    BY <1>1 DEF OpenSucceeds, OpenFails, Live, Uses, Apart, Ownership
  <1>3. /\ state' \in [Drivers -> DriverState]
        /\ Live' = Live
    <2>1. \E s \in {"Connecting", "Connected", "Disconnected"} :
            state' = [state EXCEPT ![d] = s]
      BY <1>1 DEF OpenSucceeds, OpenFails, TypeOK
    <2> QED
      BY <1>1, <2>1 DEF Live, TypeOK, DriverState
  <1>4. /\ status' \in [Calls -> CallStatus]
        /\ \A e \in Calls : e # c => status'[e] = status[e]
        /\ status'[c] # "none"
        /\ Awaitable(c)' => Awaitable(c)
    BY <1>2 DEF OpenSucceeds, OpenFails, Delivered, Awaitable, TypeOK, CallStatus
  <1>5. Range(connectionQueue) \subseteq Calls
    BY RangeOfSeq DEF TypeOK
  <1>6. UNCHANGED <<poolVars, pool, connectionQueue, connectionCount, receiver>>
    BY DEF OpenSucceeds, OpenFails
  <1>7. CASE UNCHANGED <<opening, db, hooks>> /\ setUp' \subseteq Drivers
    <2>1. TypeOK'
      BY <1>3, <1>4, <1>6, <1>7 DEF TypeOK, poolVars
    <2>2. Apart'
      BY <1>3, <1>6, <1>7 DEF Apart, Uses, Idle
    <2>3. Ownership'
      BY <1>2, <1>4, <1>5, <1>6, <1>7 DEF Ownership, poolVars, Awaitable
    <2> QED
      BY <2>1, <2>2, <2>3
  <1>8. CASE /\ UNCHANGED <<opening, db>> /\ setUp' \subseteq Drivers
             /\ hooks' = hooks \cup {d}
    <2>1. TypeOK'
      BY <1>3, <1>4, <1>6, <1>8 DEF TypeOK, poolVars
    <2>2. Apart'
      BY <1>2, <1>3, <1>6, <1>8 DEF Apart, Uses, Idle
    <2>3. Ownership'
      BY <1>2, <1>4, <1>5, <1>6, <1>8 DEF Ownership, poolVars, Awaitable
    <2> QED
      BY <2>1, <2>2, <2>3
  <1>9. CASE /\ db' = [db EXCEPT ![c] = d]
             /\ opening' = [opening EXCEPT ![c] = NoDriver]
             /\ setUp' \subseteq Drivers /\ hooks' \in {hooks, hooks \cup {d}}
             /\ status'[c] = "Done"
    <2>1. TypeOK'
      BY <1>3, <1>4, <1>6, <1>9 DEF TypeOK, poolVars
    <2>2. \A e \in Calls : \A x \in Drivers : Uses(e, x)' => Uses(e, x)
      BY <1>2, <1>9, ConstantsAssumption DEF Uses, TypeOK
    <2>3. Apart'
      BY <1>2, <1>3, <1>6, <1>9, <2>2 DEF Apart, Idle
    <2>4. Ownership'
      BY <1>2, <1>4, <1>5, <1>6, <1>9 DEF Ownership, poolVars, Awaitable, TypeOK
    <2> QED
      BY <2>1, <2>3, <2>4
  <1>10. CASE OpenFails(c)
    BY <1>7, <1>10 DEF OpenFails, TypeOK
  <1>11. CASE OpenSucceeds(c)
    <2>1. setUp' \subseteq Drivers /\ hooks' \in {hooks, hooks \cup {d}}
      BY <1>1, <1>11 DEF OpenSucceeds, RunSetupHook, RunHook, TypeOK
    <2>2. CASE UNCHANGED <<opening, db>>
      BY <1>7, <1>8, <2>1, <2>2
    <2>3. CASE registered /\ Awaitable(c) /\ ~Skipped(c)
      BY <1>1, <1>9, <1>11, <2>1, <2>3
         DEF OpenSucceeds, Delivered, Awaitable, TypeOK
    <2> QED
      BY <1>11, <2>2, <2>3 DEF OpenSucceeds
  <1> QED
    BY <1>10, <1>11

\* The end of a PoolOpenDelivery keeps the invariant.
LEMMA ReleaseOpeningKeeps ==
  ASSUME IInv, NEW c \in Calls, ReleaseOpening(c)
  PROVE  IInv'
  <1> USE DEF IInv
  <1>1. PICK d \in Drivers : d = opening[c] /\ d # NoDriver
    BY DEF ReleaseOpening, TypeOK
  <1>2. /\ status[c] = "Done" /\ opening' = [opening EXCEPT ![c] = NoDriver]
        /\ UNCHANGED <<poolVars, receiver>>
    BY DEF ReleaseOpening
  <1>3. Uses(c, d) /\ d \in Live /\ d \notin Idle /\ db[c] = NoDriver
    BY <1>1 DEF Uses, Apart, Ownership
  <1>4. \A e \in Calls : e # c => ~Uses(e, d)
    BY <1>3 DEF Apart
  <1>5. opening' \in [Calls -> Drivers \cup {NoDriver}]
    BY <1>2 DEF TypeOK
  <1>6. CASE /\ \/ state' = state
                \/ state' = [state EXCEPT ![d] = "Disconnected"]
             /\ UNCHANGED <<pool, connectionQueue, connectionCount, setUp, db,
                            status, hooks>>
    <2>1. state' \in [Drivers -> DriverState] /\ Live' = Live
      BY <1>3, <1>6 DEF Live, TypeOK, DriverState
    <2>2. TypeOK'
      BY <1>2, <1>5, <1>6, <2>1 DEF TypeOK, poolVars
    <2>3. \A e \in Calls : \A x \in Drivers : Uses(e, x)' => Uses(e, x)
      BY <1>2, <1>6, ConstantsAssumption DEF Uses, TypeOK
    <2>4. Apart'
      BY <1>6, <2>1, <2>3 DEF Apart, Idle
    <2>5. Ownership'
      BY <1>2, <1>6, RangeOfSeq DEF Ownership, Awaitable, poolVars, TypeOK
    <2> QED
      BY <2>2, <2>4, <2>5
  <1>7. CASE d \notin hooks /\ pushDatabaseBack(d, db, hooks)
    <2>1. PICK dbs \in [Calls -> Drivers \cup {NoDriver}] : dbs = db
      BY DEF TypeOK
    <2>2. PICK held \in SUBSET hooks : held = hooks /\ d \notin held
      BY <1>7
    <2>3. pushDatabaseBack(d, dbs, held)
      BY <1>7, <2>1, <2>2
    <2>4. \A e \in Calls : opening'[e] \in {opening[e], NoDriver} \ {d}
      BY <1>1, <1>2, <1>4 DEF Uses, TypeOK
    <2>5. \A e \in Calls : dbs[e] \in {db[e], NoDriver} \ {d}
      BY <1>1, <1>3, <1>4, <2>1 DEF Uses, TypeOK
    <2> QED
      BY <1>2, <1>3, <1>5, <2>2, <2>3, <2>4, <2>5, PushBackKeeps
  <1> QED
    BY <1>1, <1>6, <1>7 DEF ReleaseOpening

\* The end of a hook coroutine keeps the invariant.
LEMMA FinishHookKeeps ==
  ASSUME IInv, NEW d \in Drivers, FinishHook(d)
  PROVE  IInv'
  <1> USE DEF IInv
  <1>1. d \in hooks /\ UNCHANGED <<poolVars, opening, receiver>>
    BY DEF FinishHook
  <1>2. d \in Live /\ d \notin Idle /\ d # NoDriver
    BY <1>1, ConstantsAssumption DEF Apart
  <1>3. CASE /\ hooks' = hooks \ {d}
             /\ UNCHANGED <<pool, connectionQueue, connectionCount, state, setUp,
                            db, status>>
    <2>1. TypeOK'
      BY <1>1, <1>3 DEF TypeOK, poolVars
    <2>2. Apart'
      BY <1>1, <1>3 DEF Apart, Uses, Idle, Live
    <2>3. Ownership'
      BY <1>1, <1>3 DEF Ownership, Awaitable, poolVars
    <2> QED
      BY <2>1, <2>2, <2>3
  <1>4. CASE /\ \A c \in Calls : d \notin LeasedTo(c)
             /\ pushDatabaseBack(d, db, hooks \ {d})
    <2>1. PICK dbs \in [Calls -> Drivers \cup {NoDriver}] : dbs = db
      BY DEF TypeOK
    <2>2. PICK held \in SUBSET hooks : held = hooks \ {d} /\ d \notin held
      <3>1. hooks \ {d} \in SUBSET hooks /\ d \notin hooks \ {d}
        OBVIOUS
      <3> QED
        BY <3>1
    <2>3. pushDatabaseBack(d, dbs, held)
      BY <1>4, <2>1, <2>2
    <2>4. \A c \in Calls : ~Uses(c, d)
      BY <1>2, <1>4 DEF LeasedTo, Uses
    <2>5. \A c \in Calls : opening'[c] \in {opening[c], NoDriver} \ {d}
      BY <1>1, <2>4 DEF Uses
    <2>6. \A c \in Calls : dbs[c] \in {db[c], NoDriver} \ {d}
      BY <2>1, <2>4 DEF Uses
    <2>7. opening' \in [Calls -> Drivers \cup {NoDriver}]
      BY <1>1 DEF TypeOK
    <2> QED
      BY <1>1, <1>2, <2>2, <2>3, <2>5, <2>6, <2>7, PushBackKeeps
  <1> QED
    BY <1>3, <1>4 DEF FinishHook

\* The loss of a connection keeps the invariant: nothing changes hands.
LEMMA ConnectionLostKeeps ==
  ASSUME IInv, NEW d \in Drivers, ConnectionLost(d)
  PROVE  IInv'
  <1> USE DEF IInv, ConnectionLost
  <1>1. TypeOK'
    BY DEF TypeOK, DriverState, poolVars
  <1>2. Live' = Live
    BY DEF Live, TypeOK
  <1>3. Apart'
    BY <1>2 DEF Apart, Uses, Idle
  <1>4. Ownership'
    BY DEF Ownership, Awaitable, poolVars
  <1> QED
    BY <1>1, <1>3, <1>4

\* The setters, remove() and create() keep the invariant.
LEMMA AdministerKeeps ==
  ASSUME IInv, Administer
  PROVE  IInv'
  <1> USE DEF IInv, notAdministered
  <1>1. UNCHANGED notAdministered
    BY DEF Administer, setMaxConnections, setMaxIdleConnections, remove, create
  <1>2. /\ \/ UNCHANGED <<pool, connectionQueue>>
           \/ pool' = <<>> /\ connectionQueue' = <<>>
        /\ removals' = 0 => removals = 0 /\ registered' = registered
    BY DEF Administer, setMaxConnections, setMaxIdleConnections, remove, create,
           Ownership, TypeOK
  <1>3. TypeOK'
    <2>1. /\ pool' \in Seq(Drivers) /\ connectionQueue' \in Seq(Calls)
          /\ state' \in [Drivers -> DriverState]
          /\ setUp' \subseteq Drivers /\ hooks' \subseteq Drivers
          /\ opening' \in [Calls -> Drivers \cup {NoDriver}]
          /\ db' \in [Calls -> Drivers \cup {NoDriver}]
          /\ status' \in [Calls -> CallStatus]
          /\ receiver' \in [Calls -> {"null", "alive", "dead"}]
      BY <1>1, <1>2, EmptySeq DEF TypeOK
    <2>2. /\ registered' \in BOOLEAN /\ removals' \in Nat
          /\ connectionCount' \in Int
          /\ maximuConnections' \in Nat /\ maxIdleConnections' \in Nat
      <3>1. ASSUME NEW max \in Nat,
                   setMaxConnections(max) \/ setMaxIdleConnections(max)
            PROVE  /\ registered' \in BOOLEAN /\ removals' \in Nat
                   /\ connectionCount' \in Int
                   /\ maximuConnections' \in Nat /\ maxIdleConnections' \in Nat
        BY <3>1 DEF setMaxConnections, setMaxIdleConnections, TypeOK
      <3>2. CASE remove
        <4>1. removals' \in Nat /\ connectionCount' \in Int
          BY <3>2 DEF remove, TypeOK
        <4>2. registered' \in BOOLEAN
          BY <3>2 DEF remove
        <4>3. maximuConnections' \in Nat /\ maxIdleConnections' \in Nat
          BY <3>2 DEF remove, TypeOK
        <4> QED
          BY <4>1, <4>2, <4>3
      <3>3. CASE create
        BY <3>3, ConstantsAssumption DEF create, TypeOK
      <3> QED
        BY <3>1, <3>2, <3>3, ConstantsAssumption DEF Administer
    <2> QED
      BY <2>1, <2>2 DEF TypeOK
  <1>4. /\ IsInjective(pool') /\ Range(pool') \subseteq Range(pool)
        /\ Range(connectionQueue') \subseteq Range(connectionQueue)
    BY <1>2 DEF Apart, IsInjective, Range
  <1>5. Apart'
    BY <1>1, <1>4 DEF Apart, Uses, Idle, Live
  <1>6. Ownership'
    BY <1>1, <1>2, <1>4 DEF Ownership, Awaitable
  <1> QED
    BY <1>3, <1>5, <1>6

\* Every step keeps the invariant.
LEMMA NextIInv == IInv /\ [Next]_vars => IInv'
  <1> SUFFICES ASSUME IInv, [Next]_vars PROVE IInv'
    OBVIOUS
  <1>1. ASSUME NEW c \in Calls, CallStep(c) PROVE IInv'
    BY <1>1, ReceiversPassed, DatabaseKeeps, CallerKeeps, ReleaseKeeps DEF CallStep
  <1>2. CASE DriverStep
    BY <1>2, OpenKeeps, ReleaseOpeningKeeps, FinishHookKeeps, ConnectionLostKeeps
       DEF DriverStep
  <1>3. CASE Administer
    BY <1>3, AdministerKeeps
  <1>4. CASE UNCHANGED vars
    <2>1. TypeOK'
      BY <1>4 DEF IInv, TypeOK, vars, poolVars
    <2>2. Apart'
      BY <1>4 DEF IInv, Apart, Uses, Idle, Live, vars
    <2>3. Ownership'
      BY <1>4 DEF IInv, Ownership, Awaitable, vars, poolVars
    <2> QED
      BY <2>1, <2>2, <2>3 DEF IInv
  <1> QED
    BY <1>1, <1>2, <1>3, <1>4 DEF Next

\* The inductive invariant holds in every reachable state.
LEMMA Invariance == Spec => []IInv
  BY InitIInv, NextIInv, PTL DEF Spec

\* Every variable keeps its type: connectionCount may be any integer, since
\* remove() resets it while connections are out.
THEOREM TypeCorrect == Spec => []TypeOK
  BY Invariance, PTL DEF IInv

\* Through every order of database(), pushDatabaseBack(), open results, hooks,
\* lost connections, remove() and create(), no raw ADriver* is in the idle
\* list and in use, or in use by two callers.
THEOREM ExclusiveLease == Spec => []Exclusive
  <1>1. IInv => Exclusive
    BY ApartIsExclusive DEF IInv
  <1> QED
    BY <1>1, Invariance, PTL

\* No driver is deleted while the idle list, a caller, an open under way or a
\* hook still refers to it.
THEOREM NeverDeletedInUse == Spec => []NoDeletedInUse
  <1>1. IInv => NoDeletedInUse
    BY ApartIsExclusive DEF IInv
  <1> QED
    BY <1>1, Invariance, PTL

-----------------------------------------------------------------------------
(***************************************************************************)
(* The counter and the limit.                                              *)
(***************************************************************************)

\* What a step does to the set of driver objects and to the counter, as long
\* as the pool has not been removed.
Grows  == \E d \in Drivers \ Live : /\ Live' = Live \cup {d} /\ ~AtLimit
                                   /\ connectionCount' = connectionCount + 1
Shrinks == \E d \in Live : /\ Live' = Live \ {d}
                          /\ connectionCount' = connectionCount - 1
Same == Live' = Live /\ connectionCount' = connectionCount

\* A deleted driver is the only one that goes.
LEMMA DeleteShrinks ==
  ASSUME TypeOK, NEW d \in Live, Delete(d)
  PROVE  Live' = Live \ {d}
  BY DEF TypeOK, Live, Delete

\* pushDatabaseBack deletes a driver exactly when it takes one from the
\* counter.
LEMMA PushBackEffect ==
  ASSUME TypeOK, registered, NEW d \in Live, NEW dbs, NEW held,
         pushDatabaseBack(d, dbs, held)
  PROVE  Same \/ Shrinks
  <1>1. CASE Delete(d) /\ connectionCount' = connectionCount - 1
    BY <1>1, DeleteShrinks DEF Shrinks
  <1>2. CASE UNCHANGED <<connectionCount, state>>
    BY <1>2 DEF Same, Live
  <1> QED
    BY <1>1, <1>2 DEF pushDatabaseBack, ServeQueued, KeepOrDelete

\* A connection given back is kept, granted or deleted.
LEMMA ReleaseEffect ==
  ASSUME IInv, registered, NEW c \in Calls, Release(c)
  PROVE  Same \/ Shrinks
  <1>1. PICK d \in Live : d = db[c]
    BY DEF Release, GiveBack, IInv, Apart, Uses, TypeOK
  <1>2. CASE d \in hooks
    BY <1>1, <1>2 DEF Release, GiveBack, Same, Live
  <1>3. CASE d \notin hooks
    <2>1. PICK dbs, held : held = hooks /\ pushDatabaseBack(d, dbs, held)
      <3>1. PICK held : held = hooks
        OBVIOUS
      <3> QED
        BY <1>1, <1>3, <3>1 DEF Release, GiveBack
    <2> QED
      BY <1>1, <2>1, PushBackEffect DEF IInv
  <1> QED
    BY <1>2, <1>3

\* database() makes a driver and counts it, or makes none.
LEMMA DatabaseEffect ==
  ASSUME IInv, NEW c \in Calls, NEW r \in {"null", "alive"}, database(c, r)
  PROVE  Same \/ Grows
  <1> USE DEF IInv
  <1>1. CASE DatabaseCreate(c, r)
    <2>1. PICK d \in Drivers \ Live : BeginOpen(c, d)
      BY <1>1 DEF DatabaseCreate
    <2>2. Live' = Live \cup {d}
      BY <2>1 DEF BeginOpen, Live, TypeOK
    <2> QED
      BY <1>1, <2>2 DEF DatabaseCreate, Grows
  <1>2. CASE DatabaseReopen(c, r)
    <2>1. pool[Len(pool)] \in Idle /\ pool[Len(pool)] \in Drivers
      BY <1>2, FrontOfSeq DEF DatabaseReopen, TypeOK, Apart, Idle
    <2>2. pool[Len(pool)] \in Live
      BY <2>1 DEF Apart
    <2>3. Live' = Live
      BY <1>2, <2>2 DEF DatabaseReopen, BeginOpen, Live, TypeOK
    <2> QED
      BY <1>2, <2>3 DEF DatabaseReopen, Same
  <1>3. CASE DatabaseNotFound(c, r) \/ DatabaseQueue(c, r) \/ DatabaseReuse(c, r)
    BY <1>3 DEF DatabaseNotFound, DatabaseQueue, DatabaseReuse, Same, Live
  <1> QED
    BY <1>1, <1>2, <1>3 DEF database

\* A step of the pool makes one driver and counts it, deletes one and takes it
\* from the counter, or does neither.
LEMMA StepEffect ==
  ASSUME IInv, Next, removals' = 0
  PROVE  removals = 0 /\ (Same \/ Shrinks \/ Grows)
  <1> USE DEF IInv
  <1>1. removals = 0 /\ registered
    <2>1. removals' \in {removals, removals + 1}
      BY DEF Next, CallStep, DriverStep, Administer, database, DatabaseNotFound,
             DatabaseQueue, DatabaseCreate, DatabaseReuse, DatabaseReopen, Await,
             DropAwaitable, DestroyCoroutine, DestroyReceiver, Release, EndCall,
             OpenSucceeds, OpenFails, ReleaseOpening, FinishHook, ConnectionLost,
             setMaxConnections, setMaxIdleConnections, remove, create,
             onlyStatus, poolVars
    <2> QED
      BY <2>1 DEF TypeOK, Ownership
  <1>2. CASE UNCHANGED <<connectionCount, state>>
    BY <1>1, <1>2 DEF Same, Live
  <1>3. ASSUME NEW c \in Calls, CallStep(c)
        PROVE  Same \/ Shrinks \/ Grows
    <2>1. CASE Release(c)
      BY <1>1, <2>1, ReleaseEffect
    <2>2. CASE \E r \in ReceiverChoices : database(c, r)
      BY <2>2, ReceiversPassed, DatabaseEffect
    <2>3. CASE Await(c) \/ DropAwaitable(c) \/ DestroyCoroutine(c)
               \/ DestroyReceiver(c) \/ EndCall(c)
      BY <1>2, <2>3
         DEF Await, DropAwaitable, DestroyCoroutine, DestroyReceiver, EndCall, onlyStatus
    <2> QED
      BY <1>3, <2>1, <2>2, <2>3 DEF CallStep
  <1>4. ASSUME NEW c \in Calls, OpenSucceeds(c) \/ OpenFails(c)
        PROVE  Same
    <2>1. opening[c] \in Drivers /\ state[opening[c]] # "none"
      BY <1>4 DEF OpenSucceeds, OpenFails, TypeOK
    <2>2. Live' = Live
      BY <1>4, <2>1 DEF OpenSucceeds, OpenFails, Live, TypeOK
    <2> QED
      BY <1>4, <2>2 DEF OpenSucceeds, OpenFails, Same
  <1>5. ASSUME NEW c \in Calls, ReleaseOpening(c)
        PROVE  Same \/ Shrinks
    <2>1. PICK d \in Live : d = opening[c]
      BY <1>5 DEF ReleaseOpening, Apart, Uses, TypeOK
    <2>2. CASE /\ state' \in {state, [state EXCEPT ![d] = "Disconnected"]}
               /\ connectionCount' = connectionCount
      BY <2>1, <2>2 DEF Same, Live, TypeOK
    <2>3. CASE pushDatabaseBack(d, db, hooks)
      <3>1. PICK dbs, held : pushDatabaseBack(d, dbs, held)
        BY <2>3
      <3> QED
        BY <1>1, <3>1, PushBackEffect
    <2> QED
      BY <1>5, <2>1, <2>2, <2>3 DEF ReleaseOpening
  <1>6. ASSUME NEW d \in Drivers, FinishHook(d)
        PROVE  Same \/ Shrinks
    <2>1. d \in Live
      BY <1>6 DEF FinishHook, Apart
    <2>2. CASE pushDatabaseBack(d, db, hooks \ {d})
      <3>1. PICK dbs, held : pushDatabaseBack(d, dbs, held)
        BY <2>2
      <3> QED
        BY <1>1, <2>1, <3>1, PushBackEffect
    <2> QED
      BY <1>2, <1>6, <2>2 DEF FinishHook, Same, Live
  <1>7. ASSUME NEW d \in Drivers, ConnectionLost(d)
        PROVE  Same
    BY <1>7 DEF ConnectionLost, Same, Live, TypeOK
  <1>8. CASE Administer
    <2>1. ASSUME NEW max, setMaxConnections(max) \/ setMaxIdleConnections(max)
          PROVE  UNCHANGED <<connectionCount, state>>
      BY <2>1 DEF setMaxConnections, setMaxIdleConnections, notAdministered
    <2>2. ~remove /\ ~create
      BY <1>1 DEF remove, create
    <2> QED
      BY <1>2, <1>8, <2>1, <2>2 DEF Administer
  <1> QED
    <2>1. CASE DriverStep
      <3>1. CASE \E c \in Calls : OpenSucceeds(c) \/ OpenFails(c) \/ ReleaseOpening(c)
        BY <1>1, <1>4, <1>5, <3>1
      <3>2. CASE \E d \in Drivers : FinishHook(d) \/ ConnectionLost(d)
        BY <1>1, <1>6, <1>7, <3>2
      <3> QED
        BY <2>1, <3>1, <3>2 DEF DriverStep
    <2>2. CASE \E c \in Calls : CallStep(c)
      BY <1>1, <1>3, <2>2
    <2> QED
      BY <1>8, <2>1, <2>2 DEF Next

\* The drivers that exist are finitely many.
LEMMA LiveIsFinite == /\ IsFiniteSet(Live) /\ IsFiniteSet(Live)'
                      /\ Cardinality(Live) \in Nat
  <1>1. Live \subseteq Drivers /\ Live' \subseteq Drivers
    BY DEF Live
  <1> QED
    BY <1>1, FS_Subset, FS_CardinalityType, ConstantsAssumption

\* Every step keeps the counter exact.
LEMMA CountStep ==
  ASSUME IInv, CountExact, [Next]_vars
  PROVE  CountExact'
  <1> SUFFICES ASSUME removals' = 0
               PROVE  connectionCount' = Cardinality(Live')
    BY DEF CountExact
  <1>1. CASE UNCHANGED vars
    BY <1>1 DEF CountExact, vars, poolVars, Live
  <1>2. CASE Next
    <2>1. /\ connectionCount = Cardinality(Live)
          /\ Same \/ Shrinks \/ Grows
      BY <1>2, StepEffect DEF CountExact
    <2>2. CASE Same
      BY <2>1, <2>2 DEF Same
    <2>3. CASE Shrinks
      BY <2>1, <2>3, LiveIsFinite, FS_RemoveElement DEF Shrinks
    <2>4. CASE Grows
      BY <2>1, <2>4, LiveIsFinite, FS_AddElement DEF Grows
    <2> QED
      BY <2>1, <2>2, <2>3, <2>4
  <1> QED
    BY <1>1, <1>2

\* Until remove(), connectionCount is the number of driver objects that exist,
\* on every path of deliverDatabase, deliverOpen and pushDatabaseBack.
THEOREM CounterExact == Spec => []CountExact
  <1>1. Init => CountExact
    <2>1. Init => Live = {}
      BY DEF Init, Live
    <2> QED
      BY <2>1, FS_EmptySet DEF Init, CountExact
  <1> QED
    BY <1>1, CountStep, Invariance, PTL DEF Spec

\* The pool never makes a driver beyond the limit that is set at that moment,
\* whatever is idle, in use, being opened or lost.
THEOREM LimitHolds == Spec => LimitRespected
  <1> DEFINE Within == \/ maximuConnections = 0
                       \/ Cardinality(Live') <= maximuConnections
  <1>1. ASSUME IInv, CountExact, [Next]_vars
        PROVE  [removals = 0 /\ Cardinality(Live') > Cardinality(Live)
                  => Within]_vars
    <2> SUFFICES ASSUME Next, removals = 0, Cardinality(Live') > Cardinality(Live)
                 PROVE  Within
      BY <1>1 DEF vars, poolVars, Live
    <2>1. Cardinality(Live) \in Nat /\ connectionCount = Cardinality(Live)
      BY <1>1, LiveIsFinite DEF CountExact
    <2>2. CASE removals' = 0
      <3>1. Same \/ Shrinks \/ Grows
        BY <1>1, <2>2, StepEffect
      <3>2. ~Same
        BY <2>1 DEF Same
      <3>3. ~Shrinks
        BY <2>1, LiveIsFinite, FS_RemoveElement DEF Shrinks
      <3>4. Grows /\ Cardinality(Live') = Cardinality(Live) + 1
        BY <3>1, <3>2, <3>3, LiveIsFinite, FS_AddElement DEF Grows
      <3> QED
        BY <1>1, <2>1, <3>4 DEF Grows, AtLimit, IInv, TypeOK
    <2>3. CASE removals' # 0
      <3>1. state' = state
        BY <2>3
           DEF Next, CallStep, DriverStep, Administer, database, DatabaseNotFound,
               DatabaseQueue, DatabaseCreate, DatabaseReuse, DatabaseReopen, Await,
               DropAwaitable, DestroyCoroutine, DestroyReceiver, Release, EndCall,
               OpenSucceeds, OpenFails, ReleaseOpening, FinishHook, ConnectionLost,
               setMaxConnections, setMaxIdleConnections, remove, create,
               onlyStatus, poolVars, notAdministered
      <3> QED
        BY <2>1, <3>1 DEF Live
    <2> QED
      BY <2>2, <2>3
  <1> QED
    BY <1>1, Invariance, CounterExact, PTL DEF Spec, LimitRespected

-----------------------------------------------------------------------------
(***************************************************************************)
(* The queue and the idle list.                                            *)
(***************************************************************************)

\* pushDatabaseBack keeps a driver only after the queue was emptied, and
\* serves the queue only while there is one.
LEMMA PushBackNoneIdle ==
  ASSUME IInv, QueuedOnlyIfNoneIdle, NEW d, NEW dbs, NEW held,
         pushDatabaseBack(d, dbs, held)
  PROVE  QueuedOnlyIfNoneIdle'
  <1>1. CASE UNCHANGED <<pool, connectionQueue>>
    BY <1>1 DEF QueuedOnlyIfNoneIdle
  <1>2. CASE ServeQueued(d, dbs, held)
    <2>1. PICK i \in DOMAIN connectionQueue : pool' = pool
      BY <1>2 DEF ServeQueued
    <2>2. connectionQueue # <<>>
      BY <2>1, EmptySeq, LenProperties DEF IInv, TypeOK
    <2> QED
      BY <2>1, <2>2 DEF QueuedOnlyIfNoneIdle
  <1>3. CASE KeepOrDelete(d, dbs, held)
    BY <1>3 DEF KeepOrDelete, QueuedOnlyIfNoneIdle
  <1> QED
    BY <1>1, <1>2, <1>3 DEF pushDatabaseBack

\* Nobody waits for a connection while one is idle, whatever the limits are
\* set to and however the connections come back.
THEOREM NoneIdleWhileQueued == Spec => []QueuedOnlyIfNoneIdle
  <1>1. Init => QueuedOnlyIfNoneIdle
    BY DEF Init, QueuedOnlyIfNoneIdle
  <1>2. ASSUME IInv, QueuedOnlyIfNoneIdle, [Next]_vars
        PROVE  QueuedOnlyIfNoneIdle'
    <2>1. CASE UNCHANGED <<pool, connectionQueue>>
      BY <1>2, <2>1 DEF QueuedOnlyIfNoneIdle
    <2>2. ASSUME NEW d, NEW dbs, NEW held, pushDatabaseBack(d, dbs, held)
          PROVE  QueuedOnlyIfNoneIdle'
      BY <1>2, <2>2, PushBackNoneIdle
    <2>3. ASSUME NEW c \in Calls, NEW r \in {"null", "alive"}, database(c, r)
          PROVE  QueuedOnlyIfNoneIdle'
      BY <1>2, <2>1, <2>3
         DEF QueuedOnlyIfNoneIdle, database, DatabaseNotFound, DatabaseQueue,
             DatabaseCreate, DatabaseReuse, DatabaseReopen
    <2>4. ASSUME NEW c \in Calls, CallStep(c)
          PROVE  QueuedOnlyIfNoneIdle'
      <3>1. CASE Release(c)
        <4>1. CASE \E dbs, held : pushDatabaseBack(db[c], dbs, held)
          BY <2>2, <4>1
        <4> QED
          BY <2>1, <3>1, <4>1 DEF Release, GiveBack
      <3> QED
        BY <2>1, <2>3, <2>4, <3>1, ReceiversPassed
           DEF CallStep, Await, DropAwaitable, DestroyCoroutine,
               DestroyReceiver, EndCall, onlyStatus
    <2>5. CASE DriverStep
      <3>1. ASSUME NEW c \in Calls, ReleaseOpening(c)
            PROVE  QueuedOnlyIfNoneIdle'
        <4>1. CASE \E d, dbs, held : pushDatabaseBack(d, dbs, held)
          BY <2>2, <4>1
        <4> QED
          BY <2>1, <3>1, <4>1 DEF ReleaseOpening
      <3>2. ASSUME NEW d \in Drivers, FinishHook(d)
            PROVE  QueuedOnlyIfNoneIdle'
        <4>1. CASE \E e, dbs, held : pushDatabaseBack(e, dbs, held)
          BY <2>2, <4>1
        <4> QED
          BY <2>1, <3>2, <4>1 DEF FinishHook
      <3> QED
        BY <2>1, <2>5, <3>1, <3>2
           DEF DriverStep, OpenSucceeds, OpenFails, ConnectionLost
    <2>6. CASE Administer
      BY <2>1, <2>6
         DEF Administer, setMaxConnections, setMaxIdleConnections, remove,
             create, QueuedOnlyIfNoneIdle
    <2>7. CASE UNCHANGED vars
      BY <2>1, <2>7 DEF vars
    <2> QED
      BY <1>2, <2>4, <2>5, <2>6, <2>7 DEF Next
  <1> QED
    BY <1>1, <1>2, Invariance, PTL DEF Spec

-----------------------------------------------------------------------------
(***************************************************************************)
(* The setup hook.                                                         *)
(***************************************************************************)

\* A connected driver went through setupHook, or its open told nobody: the delivery
\* of a caller whose receiver died holds it and is never resumed.
Prepared(d) == d \in setUp \/ \E c \in Calls : opening[c] = d /\ status[c] # "Done"

AllPrepared ==
  removals = 0 => \A d \in Drivers : state[d] = "Connected" => Prepared(d)

\* pushDatabaseBack resumes a queued caller, and that one has no open under way.
LEMMA PushBackPrepared ==
  ASSUME IInv, AllPrepared, removals = 0, removals' = 0,
         NEW d \in Drivers, NEW dbs, NEW held, NEW c \in Calls,
         pushDatabaseBack(d, dbs, held),
         opening' = opening \/ (opening' = [opening EXCEPT ![c] = NoDriver] /\ status[c] = "Done")
  PROVE  AllPrepared'
  <1>1. \A x \in Drivers : state'[x] = "Connected" =>
          state[x] = "Connected" /\ (x \in setUp => x \in setUp')
    BY DEF pushDatabaseBack, ServeQueued, KeepOrDelete, Delete, IInv, TypeOK
  <1>2. \A e \in Calls : status[e] # "Done" => opening'[e] = opening[e]
    BY DEF IInv, TypeOK
  <1>3. \A e \in Calls : status'[e] = "Done" => status[e] = "Done" \/ opening[e] = NoDriver
    <2>1. CASE status' = status
      BY <2>1
    <2>2. CASE ServeQueued(d, dbs, held)
      <3>1. PICK i \in DOMAIN connectionQueue :
              /\ Servable(connectionQueue[i])
              /\ status' = [status EXCEPT ![connectionQueue[i]] = "Done"]
        BY <2>2 DEF ServeQueued, FirstServable
      <3>2. connectionQueue[i] \in Range(connectionQueue)
        BY DEF Range
      <3>3. opening[connectionQueue[i]] = NoDriver
        BY <3>1, <3>2 DEF IInv, Ownership, Servable
      <3> QED
        BY <3>1, <3>3 DEF IInv, TypeOK
    <2> QED
      BY <2>1, <2>2 DEF pushDatabaseBack, KeepOrDelete, Returned
  <1> SUFFICES ASSUME NEW x \in Drivers, state'[x] = "Connected" PROVE Prepared(x)'
    BY DEF AllPrepared
  <1>4. state[x] = "Connected" /\ (x \in setUp => x \in setUp') /\ x # NoDriver
    BY <1>1, ConstantsAssumption
  <1>5. ASSUME NEW e \in Calls, opening[e] = x, status[e] # "Done" PROVE Prepared(x)'
    BY <1>2, <1>3, <1>4, <1>5 DEF Prepared
  <1> QED
    BY <1>4, <1>5 DEF AllPrepared, Prepared

\* The calls that keep their open keep what it prepares.
LEMMA StaysPrepared ==
  ASSUME AllPrepared, removals = 0,
         \A d \in Drivers : state'[d] = "Connected" =>
           state[d] = "Connected" /\ (d \in setUp => d \in setUp'),
         \A c \in Calls : opening[c] # NoDriver /\ status[c] # "Done" =>
           opening'[c] = opening[c] /\ status'[c] # "Done"
  PROVE  AllPrepared'
  <1> SUFFICES ASSUME NEW d \in Drivers, state'[d] = "Connected" PROVE Prepared(d)'
    BY DEF AllPrepared
  <1>1. state[d] = "Connected" /\ (d \in setUp => d \in setUp') /\ d # NoDriver
    BY ConstantsAssumption
  <1> QED
    BY <1>1 DEF AllPrepared, Prepared

LEMMA PreparedStep ==
  ASSUME IInv, AllPrepared, [Next]_vars
  PROVE  AllPrepared'
  <1> SUFFICES ASSUME removals' = 0 PROVE AllPrepared'
    BY DEF AllPrepared
  <1>1. removals = 0 /\ registered
    <2>1. removals' \in {removals, removals + 1}
      BY DEF Next, CallStep, DriverStep, Administer, database, DatabaseNotFound,
             DatabaseQueue, DatabaseCreate, DatabaseReuse, DatabaseReopen, Await,
             DropAwaitable, DestroyCoroutine, DestroyReceiver, Release, EndCall,
             OpenSucceeds, OpenFails, ReleaseOpening, FinishHook, ConnectionLost,
             setMaxConnections, setMaxIdleConnections, remove, create,
             onlyStatus, poolVars, vars
    <2> QED
      BY <2>1 DEF IInv, TypeOK, Ownership
  <1>2. CASE UNCHANGED <<state, setUp, opening, status>>
    BY <1>1, <1>2, StaysPrepared
  <1>3. ASSUME NEW c \in Calls, NEW r \in {"null", "alive"}, database(c, r)
        PROVE  AllPrepared'
    <2>1. status[c] = "none" /\ opening[c] = NoDriver
      BY <1>1, <1>3 DEF database, DatabaseNotFound, DatabaseQueue, DatabaseCreate,
             DatabaseReuse, DatabaseReopen, NewCall, IInv, Ownership
    <2>2. \A e \in Calls : e # c => status'[e] = status[e] /\ opening'[e] = opening[e]
      BY <1>1, <1>3 DEF database, DatabaseNotFound, DatabaseQueue, DatabaseCreate, BeginOpen,
             DatabaseReuse, DatabaseReopen, NewCall, IInv, TypeOK
    <2>3. setUp' = setUp
      BY <1>1, <1>3 DEF database, DatabaseNotFound, DatabaseQueue, DatabaseCreate,
             DatabaseReuse, DatabaseReopen
    <2>4. \A d \in Drivers : state'[d] = "Connected" => state[d] = "Connected"
      BY <1>1, <1>3 DEF database, DatabaseNotFound, DatabaseQueue, DatabaseCreate, BeginOpen,
             DatabaseReuse, DatabaseReopen, NewCall, IInv, TypeOK
    <2> QED
      BY <1>1, <2>1, <2>2, <2>3, <2>4, StaysPrepared
  <1>4. ASSUME NEW c \in Calls,
               Await(c) \/ DropAwaitable(c) \/ DestroyCoroutine(c) \/ DestroyReceiver(c)
        PROVE  AllPrepared'
    <2>1. \A e \in Calls : status'[e] = "Done" => status[e] = "Done"
      BY <1>4 DEF Await, DropAwaitable, DestroyCoroutine, DestroyReceiver, IInv, TypeOK
    <2>2. UNCHANGED <<state, setUp, opening>>
      BY <1>4 DEF Await, DropAwaitable, DestroyCoroutine, DestroyReceiver, onlyStatus
    <2> QED
      BY <1>1, <2>1, <2>2, StaysPrepared
  <1>5. ASSUME NEW c \in Calls, EndCall(c)
        PROVE  AllPrepared'
    <2>1. \A e \in Calls : status'[e] = "Done" => status[e] = "Done"
      BY <1>5 DEF EndCall, IInv, TypeOK
    <2>2. UNCHANGED <<state, setUp, opening>>
      BY <1>5 DEF EndCall, onlyStatus
    <2> QED
      BY <1>1, <2>1, <2>2, StaysPrepared
  <1>6. ASSUME NEW c \in Calls, Release(c)
        PROVE  AllPrepared'
    <2>1. db[c] \in Drivers /\ opening' = opening
      BY <1>6 DEF Release, IInv, TypeOK
    <2>2. CASE UNCHANGED <<state, setUp, status>>
      BY <1>2, <2>1, <2>2
    <2>3. CASE pushDatabaseBack(db[c], [db EXCEPT ![c] = NoDriver], hooks)
      <3>1. PICK dbs, held : pushDatabaseBack(db[c], dbs, held)
        BY <2>3
      <3> QED
        BY <1>1, <2>1, <3>1, PushBackPrepared
    <2> QED
      BY <1>6, <2>2, <2>3 DEF Release, GiveBack
  <1>7. ASSUME NEW c \in Calls, OpenSucceeds(c)
        PROVE  AllPrepared'
    <2> DEFINE d == opening[c]
    <2>1. /\ d \in Drivers /\ state' = [state EXCEPT ![d] = "Connected"]
          /\ status[c] \in {"Waiting", "Suspended", "Dropped", "Destroyed"}
      BY <1>7 DEF OpenSucceeds, IInv, TypeOK
    <2>2. CASE Skipped(c)
      <3>1. UNCHANGED <<setUp, opening, status>>
        BY <1>7, <2>2 DEF OpenSucceeds
      <3>2. Prepared(d)'
        BY <2>1, <3>1 DEF Prepared
      <3> QED
        BY <1>1, <2>1, <3>1, <3>2 DEF AllPrepared, Prepared, IInv, TypeOK
    <2>3. CASE ~Skipped(c)
      <3>1. /\ setUp' = setUp \cup {d}
            /\ \A e \in Calls : e # c => opening'[e] = opening[e] /\ status'[e] = status[e]
        BY <1>1, <1>7, <2>3 DEF OpenSucceeds, RunSetupHook, Delivered, IInv, TypeOK
      <3> SUFFICES ASSUME NEW x \in Drivers, state'[x] = "Connected", x # d PROVE Prepared(x)'
        BY <3>1 DEF AllPrepared, Prepared
      <3>2. state[x] = "Connected"
        BY <2>1 DEF IInv, TypeOK
      <3> QED
        BY <1>1, <3>1, <3>2 DEF AllPrepared, Prepared
    <2> QED
      BY <2>2, <2>3
  <1>8. ASSUME NEW c \in Calls, OpenFails(c)
        PROVE  AllPrepared'
    <2> DEFINE d == opening[c]
    <2>1. /\ d \in Drivers /\ state[d] = "Connecting" /\ UNCHANGED <<setUp, opening>>
          /\ state' \in {state, [state EXCEPT ![d] = "Disconnected"]}
          /\ \A e \in Calls : e # c => status'[e] = status[e]
      BY <1>8 DEF OpenFails, Delivered, IInv, TypeOK
    <2> SUFFICES ASSUME NEW x \in Drivers, state'[x] = "Connected" PROVE Prepared(x)'
      BY DEF AllPrepared
    <2>2. state[x] = "Connected" /\ x # d
      BY <2>1 DEF IInv, TypeOK
    <2> QED
      BY <1>1, <2>1, <2>2 DEF AllPrepared, Prepared
  <1>9. ASSUME NEW c \in Calls, ReleaseOpening(c)
        PROVE  AllPrepared'
    <2> DEFINE d == opening[c]
    <2>1. /\ d \in Drivers /\ status[c] = "Done"
          /\ opening' = [opening EXCEPT ![c] = NoDriver]
      BY <1>9 DEF ReleaseOpening, IInv, TypeOK
    <2>2. CASE state' \in {state, [state EXCEPT ![d] = "Disconnected"]} /\ UNCHANGED <<setUp, status>>
      <3>1. \A x \in Drivers : state'[x] = "Connected" => state[x] = "Connected"
        BY <2>2 DEF IInv, TypeOK
      <3>2. \A e \in Calls : status[e] # "Done" => opening'[e] = opening[e]
        BY <2>1 DEF IInv, TypeOK
      <3> QED
        BY <1>1, <2>2, <3>1, <3>2, StaysPrepared
    <2>3. CASE pushDatabaseBack(d, db, hooks)
      <3>1. PICK dbs, held : pushDatabaseBack(d, dbs, held)
        BY <2>3
      <3> QED
        BY <1>1, <2>1, <3>1, PushBackPrepared
    <2> QED
      BY <1>9, <2>2, <2>3 DEF ReleaseOpening
  <1>10. ASSUME NEW d \in Drivers, FinishHook(d)
         PROVE  AllPrepared'
    <2>1. opening' = opening
      BY <1>10 DEF FinishHook
    <2>2. CASE UNCHANGED <<state, setUp, status>>
      BY <1>2, <2>1, <2>2
    <2>3. CASE pushDatabaseBack(d, db, hooks \ {d})
      <3>1. PICK dbs, held : pushDatabaseBack(d, dbs, held)
        BY <2>3
      <3>2. CASE Calls = {}
        BY <1>1, <3>1, <3>2 DEF AllPrepared, Prepared, pushDatabaseBack, ServeQueued, KeepOrDelete,
               Delete, Returned, IInv, TypeOK
      <3>3. ASSUME NEW c \in Calls PROVE AllPrepared'
        BY <1>1, <2>1, <3>1, PushBackPrepared
      <3> QED
        BY <3>2, <3>3
    <2> QED
      BY <1>10, <2>2, <2>3 DEF FinishHook
  <1>11. ASSUME NEW d \in Drivers, ConnectionLost(d)
         PROVE  AllPrepared'
    <2>1. \A x \in Drivers : state'[x] = "Connected" =>
            state[x] = "Connected" /\ (x \in setUp => x \in setUp')
      BY <1>11 DEF ConnectionLost, IInv, TypeOK
    <2> QED
      BY <1>1, <1>11, <2>1, StaysPrepared DEF ConnectionLost
  <1>12. CASE Administer
    <2>1. UNCHANGED <<state, setUp, opening, status>>
      BY <1>12 DEF Administer, setMaxConnections, setMaxIdleConnections, remove, create,
             notAdministered
    <2> QED
      BY <1>2, <2>1
  <1> QED
    BY <1>2, <1>3, <1>4, <1>5, <1>6, <1>7, <1>8, <1>9, <1>10, <1>11, <1>12, ReceiversPassed
       DEF Next, CallStep, DriverStep, vars

\* Until remove(), no caller has a connected driver whose session did not go through
\* setupHook since it was last opened, on whichever path it was delivered.
THEOREM SetupAlways == Spec => []SetupBeforeUse
  <1>1. Init => AllPrepared
    BY DEF Init, AllPrepared
  <1>2. IInv /\ AllPrepared => SetupBeforeUse
    <2> SUFFICES ASSUME IInv, AllPrepared, removals = 0, NEW c \in Calls,
                        db[c] # NoDriver, state[db[c]] = "Connected"
                 PROVE  db[c] \in setUp
      BY DEF SetupBeforeUse
    <2>1. db[c] \in Drivers /\ opening[c] = NoDriver
      BY DEF IInv, TypeOK, Ownership
    <2>2. \A e \in Calls : opening[e] = db[c] => e = c
      BY <2>1 DEF IInv, Apart, Uses
    <2> QED
      BY <2>1, <2>2 DEF AllPrepared, Prepared
  <1>3. IInv /\ AllPrepared /\ [Next]_vars => AllPrepared'
    BY PreparedStep
  <1> QED
    BY <1>1, <1>2, <1>3, Invariance, PTL DEF Spec

-----------------------------------------------------------------------------
(***************************************************************************)
(* The order of service.                                                   *)
(***************************************************************************)

\* A call is queued once: it ends only when the queue has dropped it.
QueuedOnce == IsInjective(connectionQueue)

\* What the queue loop leaves has no entry twice either.
LEMMA RestInjective ==
  ASSUME NEW S, NEW s \in Seq(S), NEW i \in DOMAIN s, IsInjective(s)
  PROVE  IsInjective(SubSeq(s, i + 1, Len(s)))
  <1> DEFINE rest == SubSeq(s, i + 1, Len(s))
  <1>1. Len(s) \in Nat /\ DOMAIN s = 1..Len(s) /\ \A k \in 1..Len(s) : s[k] \in S
    BY LenProperties, ElementOfSeq
  <1>2. /\ rest \in Seq(S)
        /\ Len(rest) = IF i + 1 <= Len(s) THEN Len(s) - (i + 1) + 1 ELSE 0
        /\ \A j \in 1..(Len(s) - (i + 1) + 1) : rest[j] = s[i + 1 + j - 1]
    <2>1. \A k \in (i + 1)..Len(s) : s[k] \in S
      BY <1>1
    <2> QED
      BY <1>1, <2>1, SubSeqProperties
  <1>3. DOMAIN rest = 1..Len(rest)
    BY <1>2, LenProperties
  <1> HIDE DEF rest
  <1>4. \A j \in DOMAIN rest : rest[j] = s[i + j] /\ i + j \in DOMAIN s /\ j \in Nat
    BY <1>1, <1>2, <1>3
  <1>5. \A j, k \in DOMAIN rest : rest[j] = rest[k] => i + j = i + k
    BY <1>4 DEF IsInjective
  <1>6. \A j, k \in DOMAIN rest : rest[j] = rest[k] => j = k
    BY <1>1, <1>4, <1>5
  <1> QED
    BY <1>6 DEF IsInjective, rest

LEMMA PushBackQueue ==
  ASSUME IInv, QueuedOnce, NEW d, NEW dbs, NEW held, pushDatabaseBack(d, dbs, held)
  PROVE  QueuedOnce'
  <1>1. IsInjective(<<>>)
    BY DEF IsInjective
  <1>2. CASE ServeQueued(d, dbs, held)
    BY <1>2, RestInjective DEF ServeQueued, QueuedOnce, IInv, TypeOK
  <1> QED
    BY <1>1, <1>2 DEF pushDatabaseBack, KeepOrDelete, QueuedOnce

LEMMA QueueStep ==
  ASSUME IInv, QueuedOnce, [Next]_vars
  PROVE  QueuedOnce'
  <1>1. CASE UNCHANGED connectionQueue
    BY <1>1 DEF QueuedOnce
  <1>2. CASE connectionQueue' = <<>>
    BY <1>2 DEF QueuedOnce, IsInjective
  <1>3. ASSUME NEW d, NEW dbs, NEW held, pushDatabaseBack(d, dbs, held)
        PROVE  QueuedOnce'
    BY <1>3, PushBackQueue
  <1>4. ASSUME NEW c \in Calls, NEW r \in ReceiverChoices, DatabaseQueue(c, r)
        PROVE  QueuedOnce'
    <2>1. c \notin Range(connectionQueue) /\ connectionQueue' = Append(connectionQueue, c)
      BY <1>4 DEF DatabaseQueue, NewCall, IInv, Ownership
    <2> QED
      BY <2>1, AppendToSeq DEF QueuedOnce, IInv, TypeOK
  <1>5. ASSUME NEW c \in Calls, CallStep(c)
        PROVE  QueuedOnce'
    <2>1. CASE Release(c)
      <3>1. CASE \E dbs, held : pushDatabaseBack(db[c], dbs, held)
        BY <1>3, <3>1
      <3> QED
        BY <1>1, <2>1, <3>1 DEF Release, GiveBack
    <2> QED
      BY <1>1, <1>4, <1>5, <2>1
         DEF CallStep, database, DatabaseNotFound, DatabaseCreate, DatabaseReuse, DatabaseReopen,
             Await, DropAwaitable, DestroyCoroutine, DestroyReceiver, EndCall, onlyStatus
  <1>6. ASSUME NEW c \in Calls, ReleaseOpening(c)
        PROVE  QueuedOnce'
    <2>1. CASE \E d, dbs, held : pushDatabaseBack(d, dbs, held)
      BY <1>3, <2>1
    <2> QED
      BY <1>1, <1>6, <2>1 DEF ReleaseOpening
  <1>7. ASSUME NEW d \in Drivers, FinishHook(d)
        PROVE  QueuedOnce'
    <2>1. CASE \E e, dbs, held : pushDatabaseBack(e, dbs, held)
      BY <1>3, <2>1
    <2> QED
      BY <1>1, <1>7, <2>1 DEF FinishHook
  <1>8. CASE DriverStep
    BY <1>1, <1>6, <1>7, <1>8 DEF DriverStep, OpenSucceeds, OpenFails, ConnectionLost
  <1>9. CASE Administer
    BY <1>1, <1>2, <1>9 DEF Administer, setMaxConnections, setMaxIdleConnections, remove, create
  <1> QED
    BY <1>1, <1>5, <1>8, <1>9 DEF Next, vars

\* Whoever got a connection of those that were queued stood in front of all others
\* that still wait.
Served ==
  \A i, j \in DOMAIN connectionQueue :
    LET c == connectionQueue[i]
        e == connectionQueue[j]
    IN i < j /\ Servable(c) /\ db[e] # db'[e] /\ db'[e] # NoDriver => db'[c] # NoDriver

LEMMA PushBackServes ==
  ASSUME IInv, QueuedOnce, NEW d \in Drivers,
         NEW dbs \in [Calls -> Drivers \cup {NoDriver}], NEW held,
         \A c \in Calls : dbs[c] \in {db[c], NoDriver},
         pushDatabaseBack(d, dbs, held)
  PROVE  Served
  <1>0. \A i \in DOMAIN connectionQueue : connectionQueue[i] \in Calls
    BY LenProperties, ElementOfSeq DEF IInv, TypeOK
  <1>1. CASE db' = dbs
    BY <1>0, <1>1 DEF Served
  <1>2. CASE ServeQueued(d, dbs, held)
    <2>1. PICK k \in DOMAIN connectionQueue :
            FirstServable(k) /\ db' = [dbs EXCEPT ![connectionQueue[k]] = d]
      BY <1>2 DEF ServeQueued
    <2> SUFFICES ASSUME NEW i \in DOMAIN connectionQueue, NEW j \in DOMAIN connectionQueue,
                        i < j, Servable(connectionQueue[i]),
                        db[connectionQueue[j]] # db'[connectionQueue[j]],
                        db'[connectionQueue[j]] # NoDriver
                 PROVE  db'[connectionQueue[i]] # NoDriver
      BY DEF Served
    <2>2. connectionQueue[j] = connectionQueue[k]
      BY <1>0, <2>1
    <2>3. j = k
      BY <2>2 DEF QueuedOnce, IsInjective
    <2>4. i \in 1..(k - 1)
      BY <2>3, LenProperties DEF IInv, TypeOK
    <2> QED
      BY <2>1, <2>4 DEF FirstServable
  <1> QED
    BY <1>1, <1>2 DEF pushDatabaseBack, Returned, KeepOrDelete

LEMMA ServeStep ==
  ASSUME IInv, QueuedOnce, [Next]_vars
  PROVE  Served
  <1>0. \A i \in DOMAIN connectionQueue :
          connectionQueue[i] \in Calls /\ connectionQueue[i] \in Range(connectionQueue)
    BY LenProperties, ElementOfSeq DEF IInv, TypeOK, Range
  <1>1. CASE UNCHANGED db
    BY <1>1 DEF Served
  <1>2. ASSUME NEW c \in Calls, NEW d, c \notin Range(connectionQueue) \/ ~Servable(c),
               db' = [db EXCEPT ![c] = d],
               \A i \in DOMAIN connectionQueue : connectionQueue[i] # c
        PROVE  Served
    BY <1>0, <1>2 DEF Served, IInv, TypeOK
  <1>3. ASSUME NEW c \in Calls, NEW r \in {"null", "alive"}, database(c, r)
        PROVE  Served
    <2>1. CASE DatabaseReuse(c, r)
      <3>1. c \notin Range(connectionQueue)
        BY <2>1 DEF DatabaseReuse, NewCall, IInv, Ownership
      <3>2. PICK d : db' = [db EXCEPT ![c] = d]
        BY <2>1 DEF DatabaseReuse
      <3> QED
        BY <1>0, <1>2, <3>1, <3>2
    <2> QED
      BY <1>1, <1>3, <2>1
         DEF database, DatabaseNotFound, DatabaseQueue, DatabaseCreate, DatabaseReopen
  <1>4. ASSUME NEW c \in Calls, Release(c)
        PROVE  Served
    <2>1. /\ db[c] \in Drivers
          /\ [db EXCEPT ![c] = NoDriver] \in [Calls -> Drivers \cup {NoDriver}]
          /\ \A e \in Calls : [db EXCEPT ![c] = NoDriver][e] \in {db[e], NoDriver}
      BY <1>4 DEF Release, IInv, TypeOK
    <2>2. CASE db' = [db EXCEPT ![c] = NoDriver]
      BY <1>0, <2>1, <2>2 DEF Served
    <2>3. CASE pushDatabaseBack(db[c], [db EXCEPT ![c] = NoDriver], hooks)
      <3>1. PICK dbs, held :
              /\ dbs \in [Calls -> Drivers \cup {NoDriver}]
              /\ dbs = [db EXCEPT ![c] = NoDriver] /\ held = hooks
        BY <2>1
      <3> QED
        BY <2>1, <2>3, <3>1, PushBackServes
    <2> QED
      BY <1>4, <2>2, <2>3 DEF Release, GiveBack
  <1>5. ASSUME NEW c \in Calls, OpenSucceeds(c)
        PROVE  Served
    <2>1. CASE db' = [db EXCEPT ![c] = opening[c]] /\ Awaitable(c)
      <3>1. c \notin Range(connectionQueue)
        BY <1>5, <2>1 DEF OpenSucceeds, IInv, Ownership
      <3> QED
        BY <1>0, <1>2, <2>1, <3>1
    <2> QED
      BY <1>1, <1>5, <2>1 DEF OpenSucceeds
  <1>6. ASSUME NEW d \in Drivers, NEW held, pushDatabaseBack(d, db, held)
        PROVE  Served
    <2>1. PICK dbs \in [Calls -> Drivers \cup {NoDriver}] : dbs = db
      BY DEF IInv, TypeOK
    <2> QED
      BY <1>6, <2>1, PushBackServes
  <1>7. ASSUME NEW c \in Calls, ReleaseOpening(c)
        PROVE  Served
    <2>1. opening[c] \in Drivers
      BY <1>7 DEF ReleaseOpening, IInv, TypeOK
    <2>2. CASE pushDatabaseBack(opening[c], db, hooks)
      <3>1. PICK held : pushDatabaseBack(opening[c], db, held)
        BY <2>2
      <3> QED
        BY <1>6, <2>1, <3>1
    <2> QED
      BY <1>1, <1>7, <2>2 DEF ReleaseOpening
  <1>8. ASSUME NEW d \in Drivers, FinishHook(d)
        PROVE  Served
    <2>1. CASE pushDatabaseBack(d, db, hooks \ {d})
      <3>1. PICK held : pushDatabaseBack(d, db, held)
        BY <2>1
      <3> QED
        BY <1>6, <3>1
    <2> QED
      BY <1>1, <1>8, <2>1 DEF FinishHook
  <1>9. CASE DriverStep
    BY <1>1, <1>5, <1>7, <1>8, <1>9 DEF DriverStep, OpenFails, ConnectionLost
  <1>10. CASE Administer
    BY <1>1, <1>10
       DEF Administer, setMaxConnections, setMaxIdleConnections, remove, create, notAdministered
  <1>11. ASSUME NEW c \in Calls, CallStep(c)
         PROVE  Served
    BY <1>1, <1>3, <1>4, <1>11, ReceiversPassed
       DEF CallStep, Await, DropAwaitable, DestroyCoroutine, DestroyReceiver, EndCall, onlyStatus
  <1> QED
    BY <1>1, <1>9, <1>10, <1>11 DEF Next, vars

\* A connection that comes back goes to the caller that has waited longest, of those
\* that still wait.
THEOREM ServedInOrder == Spec => FifoService
  <1>1. Init => QueuedOnce
    BY DEF Init, QueuedOnce, IsInjective
  <1>2. IInv /\ QueuedOnce /\ [Next]_vars => QueuedOnce'
    BY QueueStep
  <1>3. IInv /\ QueuedOnce /\ [Next]_vars => [Served]_vars
    BY ServeStep
  <1> QED
    BY <1>1, <1>2, <1>3, Invariance, PTL DEF Spec, FifoService, Served

-----------------------------------------------------------------------------
(***************************************************************************)
(* APool implements PoolContract, as long as the pool is not removed.      *)
(***************************************************************************)
Kept == removals = 0

\* remove() is never called.
LEMMA KeptStep ==
  ASSUME MaxRemovals = 0, Kept, [Next]_vars
  PROVE  Kept'
  <1>1. ~remove /\ removals = 0
    BY DEF remove, Kept
  <1> QED
    BY <1>1 DEF Kept, vars, Next, CallStep, DriverStep, Administer, database,
         DatabaseNotFound, DatabaseQueue, DatabaseCreate, DatabaseReuse, DatabaseReopen,
         Await, DropAwaitable, DestroyCoroutine, DestroyReceiver, Release, EndCall,
         OpenSucceeds, OpenFails, ReleaseOpening, FinishHook, ConnectionLost,
         setMaxConnections, setMaxIdleConnections, create, onlyStatus, poolVars

LEMMA NotRemoved ==
  ASSUME MaxRemovals = 0
  PROVE  Spec => []Kept
  <1>1. Init => Kept
    BY DEF Init, Kept
  <1> QED
    BY <1>1, KeptStep, PTL DEF Spec

-----------------------------------------------------------------------------
(***************************************************************************)
(* The mapping.                                                            *)
(***************************************************************************)

\* A driver that exists and is not idle is in use.
LEMMA Places ==
  ASSUME IInv
  PROVE  /\ \A d \in Drivers : placeMap[d] = IF d \notin Live THEN "absent"
                                            ELSE IF d \in Idle THEN "idle" ELSE "used"
         /\ placeMap \in [Drivers -> {"absent", "idle", "used"}]
         /\ Contract!Present = Live
  <1>1. \A d \in Drivers : placeMap[d] = IF d \notin Live THEN "absent"
                                         ELSE IF d \in Idle THEN "idle" ELSE "used"
    BY DEF placeMap, Live
  <1>2. placeMap \in [Drivers -> {"absent", "idle", "used"}]
    BY DEF placeMap
  <1>3. Contract!Present = Live
    BY <1>1 DEF Contract!Present, Live
  <1> QED
    BY <1>1, <1>2, <1>3

\* A step moves the drivers that it takes from the objects or from the idle list, or
\* puts there.
LEMMA PlacesMove ==
  ASSUME NEW d \in Drivers, NEW p \in {"absent", "idle", "used"},
         \A e \in Drivers \ {d} : /\ e \in Live' <=> e \in Live
                                  /\ e \in Idle' <=> e \in Idle,
         p = "absent" => d \notin Live',
         p = "idle" => d \in Live' /\ d \in Idle',
         p = "used" => d \in Live' /\ d \notin Idle'
  PROVE  placeMap' = [placeMap EXCEPT ![d] = p]
  BY DEF placeMap, Live

LEMMA PlacesStay ==
  ASSUME Live' = Live, Idle' = Idle
  PROVE  placeMap' = placeMap
  <1>1. \A d \in Drivers : state'[d] = "none" <=> state[d] = "none"
    BY DEF Live
  <1> QED
    BY <1>1 DEF placeMap

LEMMA Stutters ==
  ASSUME UNCHANGED <<maximuConnections, db>>, Live' = Live, Idle' = Idle,
         asksMap' = asksMap
  PROVE  UNCHANGED Contract!vars
  BY PlacesStay DEF Contract!vars

\* Whatever the deleter does with a driver is a return or a grant of the contract.
LEMMA PushBackMaps ==
  ASSUME IInv, registered,
         NEW d \in Live, d \notin Idle,
         NEW dbs \in [Calls -> Drivers \cup {NoDriver}], NEW held,
         \A e \in Calls : dbs[e] # d,
         pushDatabaseBack(d, dbs, held),
         UNCHANGED maximuConnections
  PROVE  \/ Contract!Settle(d, dbs)
         \/ \E c \in Calls : Contract!Grant(c, d, dbs)
  <1>1. d \in Drivers /\ placeMap[d] = "used"
    BY Places DEF Live
  <1>2. CASE Delete(d) /\ db' = dbs /\ status' = status /\ pool' = pool
    <2>1. Live' = Live \ {d} /\ Idle' = Idle
      BY <1>2, DeleteShrinks DEF IInv, Idle
    <2>2. placeMap' = [placeMap EXCEPT ![d] = "absent"]
      BY <1>1, <2>1, PlacesMove
    <2>3. asksMap' = asksMap
      BY <1>2 DEF asksMap, Awaitable
    <2> QED
      BY <1>1, <1>2, <2>2, <2>3 DEF Contract!Settle
  <1>3. CASE db' = dbs /\ status' = status /\ UNCHANGED <<pool, state>>
    <2>1. Live' = Live /\ Idle' = Idle
      BY <1>3 DEF Live, Idle
    <2>2. placeMap' = [placeMap EXCEPT ![d] = "used"]
      BY <1>1, <2>1, PlacesMove
    <2>3. asksMap' = asksMap
      BY <1>3 DEF asksMap, Awaitable
    <2> QED
      BY <1>1, <1>3, <2>2, <2>3 DEF Contract!Settle
  <1>4. CASE db' = dbs /\ status' = status /\ pool' = Append(pool, d) /\ state' = state
    <2>1. Live' = Live /\ Idle' = Idle \cup {d}
      BY <1>1, <1>4, AppendToSeq DEF Live, Idle, IInv, TypeOK
    <2>2. placeMap' = [placeMap EXCEPT ![d] = "idle"]
      BY <1>1, <2>1, PlacesMove
    <2>3. asksMap' = asksMap
      BY <1>4 DEF asksMap, Awaitable
    <2> QED
      BY <1>1, <1>4, <2>2, <2>3 DEF Contract!Settle
  <1>5. CASE ServeQueued(d, dbs, held)
    <2>1. PICK i \in DOMAIN connectionQueue :
            /\ Servable(connectionQueue[i])
            /\ db' = [dbs EXCEPT ![connectionQueue[i]] = d]
            /\ status' = [status EXCEPT ![connectionQueue[i]] = "Done"]
            /\ UNCHANGED <<pool, state>>
      BY <1>5 DEF ServeQueued, FirstServable
    <2> DEFINE c == connectionQueue[i]
    <2>2. c \in Calls /\ Awaitable(c)
      <3>1. c \in Calls
        BY <2>1, LenProperties, ElementOfSeq DEF IInv, TypeOK
      <3> QED
        BY <2>1, <3>1 DEF Servable
    <2>3. /\ db' = [dbs EXCEPT ![c] = d]
          /\ status' = [status EXCEPT ![c] = "Done"]
      BY <2>1
    <2> HIDE DEF c
    <2>4. Live' = Live /\ Idle' = Idle
      BY <2>1 DEF Live, Idle
    <2>5. placeMap' = placeMap
      BY <2>4, PlacesStay
    <2>6. c \in asksMap /\ asksMap' = asksMap \ {c}
      BY <2>2, <2>3 DEF asksMap, Awaitable, IInv, TypeOK
    <2> QED
      BY <1>1, <2>2, <2>3, <2>5, <2>6 DEF Contract!Grant
  <1> QED
    BY <1>2, <1>3, <1>4, <1>5 DEF pushDatabaseBack, KeepOrDelete, Returned

-----------------------------------------------------------------------------
(***************************************************************************)
(* The steps of the pool.                                                  *)
(***************************************************************************)

LEMMA DatabaseMaps ==
  ASSUME IInv, CountExact, Kept,
         NEW c \in Calls, NEW r \in {"null", "alive"}, database(c, r)
  PROVE  Contract!Ask(c) \/ \E d \in Drivers : Contract!AskAndGet(c, d)
  <1>1. registered /\ connectionCount = Cardinality(Live)
    BY DEF IInv, Ownership, CountExact, Kept
  <1>2. status[c] = "none" /\ c \notin asksMap /\ db[c] = NoDriver
    BY DEF database, DatabaseNotFound, DatabaseQueue, DatabaseCreate, DatabaseReuse,
           DatabaseReopen, NewCall, asksMap, Awaitable, IInv, Ownership
  <1>3. status' = [status EXCEPT ![c] = "Waiting"] => asksMap' = asksMap \cup {c}
    BY DEF asksMap, Awaitable, IInv, TypeOK
  <1>4. status' = [status EXCEPT ![c] = "Done"] => asksMap' = asksMap
    BY <1>2 DEF asksMap, Awaitable, IInv, TypeOK
  <1>5. CASE DatabaseQueue(c, r)
    <2>1. Live' = Live /\ Idle' = Idle /\ UNCHANGED <<maximuConnections, db>>
          /\ status' = [status EXCEPT ![c] = "Waiting"]
      BY <1>5 DEF DatabaseQueue, NewCall, Live, Idle, poolVars
    <2> QED
      BY <1>2, <1>3, <2>1, PlacesStay DEF Contract!Ask
  <1>6. CASE DatabaseCreate(c, r)
    <2>1. PICK d \in Drivers \ Live : BeginOpen(c, d)
      BY <1>6 DEF DatabaseCreate
    <2>2. UNCHANGED <<maximuConnections, db, pool>>
          /\ status' = [status EXCEPT ![c] = "Waiting"]
      BY <1>6 DEF DatabaseCreate, NewCall, poolVars, vars
    <2>3. pool' = pool /\ pool = <<>> /\ ~AtLimit
      BY <1>6 DEF DatabaseCreate
    <2>4. Live' = Live \cup {d} /\ Idle' = Idle /\ d \notin Idle
      <3>1. Live' = Live \cup {d}
        BY <2>1 DEF BeginOpen, Live, IInv, TypeOK
      <3>2. Idle = {} /\ Idle' = {}
        BY <2>3 DEF Idle, Range
      <3> QED
        BY <3>1, <3>2
    <2>5. placeMap' = [placeMap EXCEPT ![d] = "used"]
      BY <2>1, <2>4, PlacesMove
    <2>6. placeMap[d] = "absent"
      BY <2>1, Places
    <2>7. maximuConnections = 0 \/ Cardinality(Contract!Present) < maximuConnections
      BY <1>1, <2>3, Places, LiveIsFinite DEF AtLimit, IInv, TypeOK
    <2>8. Contract!Fetch(d)
      <3>1. Contract!Cardinality(Live) = Cardinality(Live)
        BY DEF Contract!Cardinality, Cardinality
      <3> QED
        BY <2>5, <2>6, <2>7, <3>1, Places DEF Contract!Fetch
    <2> QED
      BY <1>2, <1>3, <2>1, <2>2, <2>8 DEF Contract!Ask
  <1>7. ASSUME registered, pool # <<>>, TakeLast
        PROVE  /\ pool[Len(pool)] \in Idle /\ pool[Len(pool)] \in Live
               /\ Idle' = Idle \ {pool[Len(pool)]}
               /\ placeMap[pool[Len(pool)]] = "idle"
    <2>1. pool[Len(pool)] \in Idle /\ pool[Len(pool)] \in Drivers
          /\ Idle' = Idle \ {pool[Len(pool)]}
      BY <1>7, FrontOfSeq DEF TakeLast, IInv, TypeOK, Apart, Idle
    <2>2. pool[Len(pool)] \in Live
      BY <2>1 DEF IInv, Apart
    <2> QED
      BY <2>1, <2>2, Places
  <1>8. CASE DatabaseReuse(c, r)
    <2> DEFINE d == pool[Len(pool)]
    <2>1. /\ registered /\ pool # <<>> /\ TakeLast
          /\ db' = [db EXCEPT ![c] = d] /\ state' = state
          /\ status' = [status EXCEPT ![c] = "Done"]
          /\ UNCHANGED maximuConnections
      BY <1>8 DEF DatabaseReuse, NewCall, poolVars
    <2>2. d \in Idle /\ d \in Live /\ Idle' = Idle \ {d} /\ placeMap[d] = "idle"
      BY <1>7, <2>1
    <2> HIDE DEF d
    <2>3. Live' = Live /\ d \in Drivers
      BY <2>1, <2>2 DEF Live
    <2>4. placeMap' = [placeMap EXCEPT ![d] = "used"]
      BY <2>2, <2>3, PlacesMove
    <2>5. Contract!AskAndGet(c, d)
      BY <1>2, <1>4, <2>1, <2>2, <2>4 DEF Contract!AskAndGet
    <2> QED
      BY <2>3, <2>5
  <1>9. CASE DatabaseReopen(c, r)
    <2> DEFINE d == pool[Len(pool)]
    <2>1. /\ registered /\ pool # <<>> /\ TakeLast
          /\ BeginOpen(c, d) /\ db' = db
          /\ status' = [status EXCEPT ![c] = "Waiting"]
          /\ UNCHANGED maximuConnections
      BY <1>9 DEF DatabaseReopen, NewCall, poolVars
    <2>2. d \in Idle /\ d \in Live /\ Idle' = Idle \ {d} /\ placeMap[d] = "idle"
      BY <1>7, <2>1
    <2> HIDE DEF d
    <2>3. Live' = Live /\ d \in Drivers
      BY <2>1, <2>2 DEF BeginOpen, Live, IInv, TypeOK
    <2>4. placeMap' = [placeMap EXCEPT ![d] = "used"]
      BY <2>2, <2>3, PlacesMove
    <2>5. Contract!Fetch(d)
      BY <2>2, <2>4 DEF Contract!Fetch
    <2> QED
      BY <1>2, <1>3, <2>1, <2>3, <2>5 DEF Contract!Ask
  <1> QED
    BY <1>1, <1>5, <1>6, <1>8, <1>9 DEF database, DatabaseNotFound

LEMMA CallerMaps ==
  ASSUME IInv, NEW c \in Calls,
         Await(c) \/ DropAwaitable(c) \/ DestroyCoroutine(c) \/ DestroyReceiver(c) \/ EndCall(c)
  PROVE  Contract!EndAsking(c) \/ UNCHANGED Contract!vars
  <1>1. UNCHANGED <<maximuConnections, db, pool, state>>
    BY DEF Await, DropAwaitable, DestroyCoroutine, DestroyReceiver, EndCall, onlyStatus, poolVars
  <1>2. Live' = Live /\ Idle' = Idle
    BY <1>1 DEF Live, Idle
  <1>3. asksMap' \in {asksMap, asksMap \ {c}}
    <2>1. \A e \in Calls : e # c => status'[e] = status[e]
      BY DEF Await, DropAwaitable, DestroyCoroutine, DestroyReceiver, EndCall, IInv, TypeOK
    <2>2. status'[c] \in {"Waiting", "Suspended"} => status[c] \in {"Waiting", "Suspended"}
      BY DEF Await, DropAwaitable, DestroyCoroutine, DestroyReceiver, EndCall, IInv, TypeOK
    <2> QED
      BY <2>1, <2>2 DEF asksMap, Awaitable
  <1>4. CASE asksMap' = asksMap
    BY <1>1, <1>2, <1>4, Stutters
  <1>5. CASE asksMap' = asksMap \ {c}
    BY <1>1, <1>2, <1>5, PlacesStay DEF Contract!EndAsking
  <1> QED
    BY <1>3, <1>4, <1>5

LEMMA ReleaseMaps ==
  ASSUME IInv, registered, NEW c \in Calls, Release(c)
  PROVE  Contract!GiveBack(c)
  <1> DEFINE d == db[c]
             dbs == [db EXCEPT ![c] = NoDriver]
  <1>1. /\ d \in Drivers /\ d # NoDriver /\ d \in Live /\ d \notin Idle
        /\ placeMap[d] = "used"
        /\ dbs \in [Calls -> Drivers \cup {NoDriver}]
        /\ \A e \in Calls : dbs[e] # d
    <2>1. d \in Drivers /\ d # NoDriver
      BY ConstantsAssumption DEF Release, IInv, TypeOK
    <2>2. d \in Live /\ d \notin Idle
      BY <2>1 DEF IInv, Apart, Uses
    <2>3. \A e \in Calls : db[e] = d => e = c
      BY <2>1 DEF IInv, Apart, Uses
    <2> QED
      BY <2>1, <2>2, <2>3, Places DEF IInv, TypeOK
  <1>2. UNCHANGED maximuConnections
    BY DEF Release, poolVars
  <1>3. \/ d \in hooks /\ db' = dbs /\ UNCHANGED <<pool, state, status>>
        \/ pushDatabaseBack(d, dbs, hooks)
    BY DEF Release, GiveBack
  <1> HIDE DEF d, dbs
  <1>4. CASE db' = dbs /\ UNCHANGED <<pool, state, status>>
    <2>1. Live' = Live /\ Idle' = Idle /\ asksMap' = asksMap
      BY <1>4 DEF Live, Idle, asksMap, Awaitable
    <2>2. placeMap' = [placeMap EXCEPT ![d] = "used"]
      BY <1>1, <2>1, PlacesMove
    <2>3. Contract!Settle(d, dbs)
      BY <1>1, <1>2, <1>4, <2>1, <2>2 DEF Contract!Settle
    <2> QED
      BY <1>1, <2>3 DEF Contract!GiveBack, d, dbs
  <1>5. CASE pushDatabaseBack(d, dbs, hooks)
    <2>1. \/ Contract!Settle(d, dbs)
          \/ \E e \in Calls : Contract!Grant(e, d, dbs)
      <3>1. PICK held : held = hooks
        OBVIOUS
      <3> QED
        BY <1>1, <1>2, <1>5, <3>1, PushBackMaps
    <2> QED
      BY <1>1, <2>1 DEF Contract!GiveBack, d, dbs
  <1> QED
    BY <1>3, <1>4, <1>5

LEMMA OpenMaps ==
  ASSUME IInv, NEW c \in Calls, OpenSucceeds(c) \/ OpenFails(c)
  PROVE  \/ \E d \in Drivers : Contract!Grant(c, d, db)
         \/ Contract!EndAsking(c) \/ UNCHANGED Contract!vars
  <1> DEFINE d == opening[c]
  <1>1. /\ d \in Drivers /\ state[d] = "Connecting" /\ Uses(c, d)
        /\ UNCHANGED <<maximuConnections, pool>>
        /\ state' \in {state, [state EXCEPT ![d] = "Connected"], [state EXCEPT ![d] = "Disconnected"]}
    BY DEF OpenSucceeds, OpenFails, IInv, TypeOK, Uses, poolVars
  <1>2. /\ d \in Live /\ d \notin Idle
        /\ \A e \in Calls : db[e] = d => e = c
    BY <1>1 DEF IInv, Apart, Uses
  <1>3. /\ \/ UNCHANGED <<db, status>>
           \/ db' = db /\ status' = Delivered(c)
           \/ db' = [db EXCEPT ![c] = d] /\ status' = Delivered(c) /\ Awaitable(c)
    BY DEF OpenSucceeds, OpenFails
  <1>4. db[c] = NoDriver
    BY <1>1, ConstantsAssumption DEF IInv, Ownership
  <1> HIDE DEF d
  <1>5. Live' = Live /\ Idle' = Idle
    BY <1>1 DEF Live, Idle, IInv, TypeOK
  <1>6. status' = Delivered(c) => asksMap' = asksMap \ {c}
    BY DEF Delivered, asksMap, Awaitable, IInv, TypeOK
  <1>7. CASE UNCHANGED <<db, status>>
    <2>1. asksMap' = asksMap
      BY <1>7 DEF asksMap, Awaitable
    <2> QED
      BY <1>1, <1>5, <1>7, <2>1, Stutters
  <1>8. CASE db' = db /\ status' = Delivered(c)
    BY <1>1, <1>5, <1>6, <1>8, PlacesStay DEF Contract!EndAsking
  <1>9. CASE db' = [db EXCEPT ![c] = d] /\ status' = Delivered(c) /\ Awaitable(c)
    <2>1. c \in asksMap /\ placeMap[d] = "used" /\ placeMap' = placeMap
      BY <1>1, <1>2, <1>5, <1>9, Places, PlacesStay DEF asksMap
    <2>2. \A e \in Calls : db[e] # d
      BY <1>1, <1>2, <1>4, ConstantsAssumption
    <2> QED
      BY <1>1, <1>6, <1>9, <2>1, <2>2 DEF Contract!Grant
  <1> QED
    BY <1>3, <1>7, <1>8, <1>9

LEMMA ReleaseOpeningMaps ==
  ASSUME IInv, registered, NEW c \in Calls, ReleaseOpening(c)
  PROVE  \/ \E d \in Drivers : \/ Contract!Settle(d, db)
                               \/ \E e \in Calls : Contract!Grant(e, d, db)
         \/ UNCHANGED Contract!vars
  <1> DEFINE d == opening[c]
  <1>1. d \in Drivers /\ Uses(c, d) /\ UNCHANGED maximuConnections
    BY DEF ReleaseOpening, IInv, TypeOK, Uses, poolVars
  <1>2. /\ d \in Live /\ d \notin Idle
        /\ \A e \in Calls : db[e] # d
    <2>1. d \in Live /\ d \notin Idle /\ \A e \in Calls : db[e] = d => e = c
      BY <1>1 DEF IInv, Apart, Uses
    <2>2. db[c] = NoDriver
      BY <1>1, ConstantsAssumption DEF IInv, Ownership
    <2> QED
      BY <1>1, <2>1, <2>2, ConstantsAssumption
  <1>3. \/ /\ state' \in {state, [state EXCEPT ![d] = "Disconnected"]}
           /\ UNCHANGED <<pool, db, status>>
        \/ pushDatabaseBack(d, db, hooks)
    BY DEF ReleaseOpening
  <1> HIDE DEF d
  <1>4. CASE /\ state' \in {state, [state EXCEPT ![d] = "Disconnected"]}
             /\ UNCHANGED <<pool, db, status>>
    <2>1. Live' = Live
      BY <1>2, <1>4 DEF Live, IInv, TypeOK
    <2>2. Idle' = Idle /\ asksMap' = asksMap
      BY <1>4 DEF Idle, asksMap, Awaitable
    <2> QED
      BY <1>1, <1>4, <2>1, <2>2, Stutters
  <1>5. CASE pushDatabaseBack(d, db, hooks)
    <2>1. PICK dbs, held :
            /\ dbs \in [Calls -> Drivers \cup {NoDriver}]
            /\ dbs = db /\ held = hooks
      BY DEF IInv, TypeOK
    <2>2. \/ Contract!Settle(d, dbs)
          \/ \E e \in Calls : Contract!Grant(e, d, dbs)
      BY <1>1, <1>2, <1>5, <2>1, PushBackMaps
    <2> QED
      BY <1>1, <2>1, <2>2
  <1> QED
    BY <1>3, <1>4, <1>5

LEMMA FinishHookMaps ==
  ASSUME IInv, registered, NEW d \in Drivers, FinishHook(d)
  PROVE  \/ Contract!Settle(d, db)
         \/ \E e \in Calls : Contract!Grant(e, d, db)
         \/ UNCHANGED Contract!vars
  <1>1. d \in hooks /\ d \in Live /\ d \notin Idle /\ UNCHANGED maximuConnections
    BY DEF FinishHook, IInv, Apart, poolVars
  <1>2. CASE \E c \in Calls : d \in LeasedTo(c)
    <2>1. UNCHANGED <<pool, state, db, status>>
      BY <1>2 DEF FinishHook
    <2>2. Live' = Live /\ Idle' = Idle /\ asksMap' = asksMap
      BY <2>1 DEF Live, Idle, asksMap, Awaitable
    <2> QED
      BY <1>1, <2>1, <2>2, Stutters
  <1>3. CASE ~\E c \in Calls : d \in LeasedTo(c)
    <2>1. pushDatabaseBack(d, db, hooks \ {d})
      BY <1>3 DEF FinishHook
    <2>2. \A e \in Calls : db[e] # d
      BY <1>3, ConstantsAssumption DEF LeasedTo
    <2>3. PICK dbs, held :
            /\ dbs \in [Calls -> Drivers \cup {NoDriver}]
            /\ dbs = db /\ held = hooks \ {d}
      BY DEF IInv, TypeOK
    <2>4. \/ Contract!Settle(d, dbs)
          \/ \E e \in Calls : Contract!Grant(e, d, dbs)
      BY <1>1, <2>1, <2>2, <2>3, PushBackMaps
    <2> QED
      BY <2>3, <2>4
  <1> QED
    BY <1>2, <1>3

LEMMA RestMaps ==
  ASSUME IInv, Kept, MaxRemovals = 0,
         (\E d \in Drivers : ConnectionLost(d)) \/ Administer
  PROVE  Contract!SetLimit \/ UNCHANGED Contract!vars
  <1>1. ASSUME NEW d \in Drivers, ConnectionLost(d)
        PROVE  UNCHANGED Contract!vars
    <2>1. Live' = Live /\ Idle' = Idle /\ asksMap' = asksMap
          /\ UNCHANGED <<maximuConnections, db>>
      BY <1>1 DEF ConnectionLost, Live, Idle, asksMap, Awaitable, IInv, TypeOK, poolVars
    <2> QED
      BY <2>1, Stutters
  <1>2. ASSUME UNCHANGED <<pool, notAdministered>>
        PROVE  Live' = Live /\ Idle' = Idle /\ asksMap' = asksMap /\ db' = db
    BY <1>2 DEF notAdministered, Live, Idle, asksMap, Awaitable
  <1>3. ASSUME NEW max \in MaxConnectionsValues, setMaxConnections(max)
        PROVE  Contract!SetLimit
    <2>1. UNCHANGED <<pool, notAdministered>> /\ maximuConnections' \in Nat
      BY <1>3, ConstantsAssumption DEF setMaxConnections
    <2> QED
      BY <1>2, <2>1, PlacesStay DEF Contract!SetLimit
  <1>4. ASSUME NEW max \in MaxIdleValues, setMaxIdleConnections(max)
        PROVE  UNCHANGED Contract!vars
    <2>1. UNCHANGED <<pool, notAdministered>> /\ UNCHANGED maximuConnections
      BY <1>4 DEF setMaxIdleConnections
    <2> QED
      BY <1>2, <2>1, Stutters
  <1>5. ~remove /\ ~create
    BY DEF remove, create, IInv, Ownership, Kept
  <1> QED
    BY <1>1, <1>3, <1>4, <1>5 DEF Administer

\* Each step of the pool is a step of the contract.
LEMMA StepMaps ==
  ASSUME IInv, CountExact, Kept, MaxRemovals = 0, [Next]_vars
  PROVE  [Contract!Next]_Contract!vars
  <1>1. registered
    BY DEF IInv, Ownership, Kept
  <1>2. ASSUME NEW c \in Calls, CallStep(c)
        PROVE  Contract!Next \/ UNCHANGED Contract!vars
    <2>1. CASE \E r \in ReceiverChoices : database(c, r)
      BY <2>1, ReceiversPassed, DatabaseMaps DEF Contract!Next
    <2>2. CASE Release(c)
      BY <1>1, <2>2, ReleaseMaps DEF Contract!Next
    <2>3. CASE Await(c) \/ DropAwaitable(c) \/ DestroyCoroutine(c) \/ DestroyReceiver(c) \/ EndCall(c)
      BY <2>3, CallerMaps DEF Contract!Next
    <2> QED
      BY <1>2, <2>1, <2>2, <2>3 DEF CallStep
  <1>3. ASSUME NEW c \in Calls, OpenSucceeds(c) \/ OpenFails(c)
        PROVE  Contract!Next \/ UNCHANGED Contract!vars
    BY <1>3, OpenMaps DEF Contract!Next
  <1>4. ASSUME NEW c \in Calls, ReleaseOpening(c)
        PROVE  Contract!Next \/ UNCHANGED Contract!vars
    BY <1>1, <1>4, ReleaseOpeningMaps DEF Contract!Next
  <1>5. ASSUME NEW d \in Drivers, FinishHook(d)
        PROVE  Contract!Next \/ UNCHANGED Contract!vars
    BY <1>1, <1>5, FinishHookMaps DEF Contract!Next
  <1>6. CASE (\E d \in Drivers : ConnectionLost(d)) \/ Administer
    BY <1>6, RestMaps DEF Contract!Next
  <1>7. CASE UNCHANGED vars
    <2>1. Live' = Live /\ Idle' = Idle /\ asksMap' = asksMap
          /\ UNCHANGED <<maximuConnections, db>>
      BY <1>7 DEF vars, poolVars, Live, Idle, asksMap, Awaitable
    <2> QED
      BY <2>1, Stutters
  <1> QED
    BY <1>2, <1>3, <1>4, <1>5, <1>6, <1>7 DEF Next, DriverStep

LEMMA InitMaps == Init => Contract!Init
  <1> SUFFICES ASSUME Init PROVE Contract!Init
    OBVIOUS
  <1>1. placeMap = [d \in Drivers |-> "absent"] /\ asksMap = {}
    BY DEF Init, placeMap, asksMap, Awaitable
  <1> QED
    BY <1>1, ConstantsAssumption DEF Init, Contract!Init

\* A pool that is not removed keeps the promise of PoolContract: connections beyond
\* the limit are not opened, and each goes to one caller that asked, whatever queue,
\* counter, hooks, opens and failures do meanwhile.
THEOREM Implements ==
  ASSUME MaxRemovals = 0
  PROVE  Spec => KeepsContract
  <1>1. IInv /\ CountExact /\ Kept /\ [Next]_vars => [Contract!Next]_Contract!vars
    BY StepMaps
  <1> QED
    BY <1>1, InitMaps, Invariance, CounterExact, NotRemoved, PTL
       DEF Spec, KeepsContract, Contract!Spec

-----------------------------------------------------------------------------
(***************************************************************************)
(* The queries of exec() and execMulti() (APoolExec): what a step of a     *)
(* query does to the pool underneath.                                      *)
(***************************************************************************)

\* exec() with the name of no pool: database() answers with an error at once.
Refused(c) ==
  \E r \in {"null", "alive"} : NewCall(c, r, "Done") /\ UNCHANGED onlyStatus

\* The coroutine of exec() is destroyed in its await of database().
Torn(c) ==
  /\ Awaitable(c)
  /\ receiver' = [receiver EXCEPT ![c] = "dead"]
  /\ status' = [status EXCEPT ![c] = "Destroyed"]
  /\ UNCHANGED onlyStatus

\* The pool under a step of exec(): a step of its own, or one of a call that exec()
\* makes, whatever receivers the callers of database() pass.
PoolView ==
  \/ [Next]_vars
  \/ \E c \in Calls : \/ Refused(c) \/ Torn(c)
                      \/ \E r \in {"null", "alive"} : database(c, r)

LEMMA RefusedKeeps ==
  ASSUME IInv, NEW c \in Calls, Refused(c)
  PROVE  IInv'
  <1> USE DEF IInv, onlyStatus, poolVars
  <1>1. PICK r \in {"null", "alive"} :
          /\ status[c] = "none"
          /\ status' = [status EXCEPT ![c] = "Done"]
          /\ receiver' = [receiver EXCEPT ![c] = r]
          /\ UNCHANGED onlyStatus
    BY DEF Refused, NewCall
  <1>2. TypeOK'
    BY <1>1 DEF TypeOK, CallStatus
  <1>3. Apart'
    BY <1>1 DEF Apart, Uses, Idle, Live
  <1>4. opening[c] = NoDriver /\ db[c] = NoDriver /\ c \notin Range(connectionQueue)
    BY <1>1 DEF Ownership
  <1>5. Ownership'
    BY <1>1, <1>4, RangeOfSeq DEF Ownership, Awaitable, TypeOK
  <1> QED
    BY <1>2, <1>3, <1>5

LEMMA TornKeeps ==
  ASSUME IInv, NEW c \in Calls, Torn(c)
  PROVE  IInv'
  <1> USE DEF IInv, Torn, onlyStatus, poolVars
  <1>1. TypeOK'
    BY DEF TypeOK, CallStatus
  <1>2. Apart'
    BY DEF Apart, Uses, Idle, Live
  <1>3. \A e \in Calls : /\ (status'[e] = "none") <=> (status[e] = "none")
                         /\ (status[e] = "Done") => (status'[e] = "Done")
                         /\ Awaitable(e)' => Awaitable(e)
    BY DEF TypeOK, Awaitable
  <1>4. Ownership'
    BY <1>3, RangeOfSeq DEF Ownership, TypeOK
  <1> QED
    BY <1>1, <1>2, <1>4

LEMMA ViewKeeps ==
  ASSUME IInv, PoolView
  PROVE  IInv'
  BY NextIInv, RefusedKeeps, TornKeeps, DatabaseKeeps DEF PoolView

LEMMA ViewCounts ==
  ASSUME IInv, CountExact, PoolView
  PROVE  CountExact'
  <1>1. ASSUME NEW c \in Calls, Refused(c) \/ Torn(c)
        PROVE  CountExact'
    BY <1>1 DEF Refused, Torn, onlyStatus, poolVars, CountExact, Live
  <1>2. ASSUME NEW c \in Calls, NEW r \in {"null", "alive"}, database(c, r)
        PROVE  CountExact'
    <2>1. removals' = removals
      BY <1>2 DEF database, DatabaseNotFound, DatabaseQueue, DatabaseCreate,
                  DatabaseReuse, DatabaseReopen, poolVars
    <2>2. CASE Same
      BY <2>1, <2>2 DEF Same, CountExact
    <2>3. CASE Grows
      BY <2>1, <2>3, LiveIsFinite, FS_AddElement DEF Grows, CountExact
    <2> QED
      BY <1>2, <2>2, <2>3, DatabaseEffect
  <1> QED
    BY <1>1, <1>2, CountStep DEF PoolView

LEMMA ViewMaps ==
  ASSUME IInv, CountExact, Kept, MaxRemovals = 0, PoolView
  PROVE  Kept' /\ [Contract!Next]_Contract!vars
  <1>1. CASE [Next]_vars
    BY <1>1, StepMaps, KeptStep
  <1>2. ASSUME NEW c \in Calls, Refused(c)
        PROVE  Kept' /\ UNCHANGED Contract!vars
    <2>1. status[c] = "none" /\ status' = [status EXCEPT ![c] = "Done"] /\ UNCHANGED onlyStatus
      BY <1>2 DEF Refused, NewCall
    <2>2. UNCHANGED <<maximuConnections, db>> /\ Live' = Live /\ Idle' = Idle
      BY <2>1 DEF onlyStatus, poolVars, Live, Idle
    <2>3. asksMap' = asksMap
      BY <2>1 DEF asksMap, Awaitable, IInv, TypeOK
    <2>4. Kept'
      BY <2>1 DEF onlyStatus, poolVars, Kept
    <2> QED
      BY <2>2, <2>3, <2>4, Stutters
  <1>3. ASSUME NEW c \in Calls, Torn(c)
        PROVE  Kept' /\ Contract!EndAsking(c)
    <2>1. UNCHANGED <<maximuConnections, db>> /\ Live' = Live /\ Idle' = Idle /\ Kept'
      BY <1>3 DEF Torn, onlyStatus, poolVars, Live, Idle, Kept
    <2>2. asksMap' = asksMap \ {c}
      BY <1>3 DEF Torn, asksMap, Awaitable, IInv, TypeOK
    <2> QED
      BY <2>1, <2>2, PlacesStay DEF Contract!EndAsking
  <1>4. ASSUME NEW c \in Calls, NEW r \in {"null", "alive"}, database(c, r)
        PROVE  Kept' /\ Contract!Next
    <2>1. Kept'
      BY <1>4 DEF database, DatabaseNotFound, DatabaseQueue, DatabaseCreate,
                  DatabaseReuse, DatabaseReopen, poolVars, Kept
    <2> QED
      BY <1>4, <2>1, DatabaseMaps DEF Contract!Next
  <1> QED
    BY <1>1, <1>2, <1>3, <1>4 DEF PoolView, Contract!Next

-----------------------------------------------------------------------------
(***************************************************************************)
(* A step of one call leaves the connections of the others with them.      *)
(***************************************************************************)

\* A call that was answered keeps its connection, and nothing ends or loses its
\* receiver but a step of its own.
Untouched(c) ==
  /\ receiver'[c] = receiver[c]
  /\ status[c] # "none" => status'[c] # "none"
  /\ db[c] # NoDriver => db'[c] = db[c]

\* pushDatabaseBack serves a queued caller that was given nothing yet.
LEMMA PushBackSpares ==
  ASSUME IInv, NEW d, NEW dbs \in [Calls -> Drivers \cup {NoDriver}], NEW held,
         \A e \in Calls : dbs[e] \in {db[e], NoDriver},
         pushDatabaseBack(d, dbs, held), UNCHANGED receiver
  PROVE  \A e \in Calls : /\ status[e] # "none" => status'[e] # "none"
                          /\ dbs[e] # NoDriver => db'[e] = dbs[e]
  <1>1. CASE db' = dbs /\ status' = status
    BY <1>1
  <1>2. CASE ServeQueued(d, dbs, held)
    <2>1. PICK i \in DOMAIN connectionQueue :
            /\ Servable(connectionQueue[i])
            /\ db' = [dbs EXCEPT ![connectionQueue[i]] = d]
            /\ status' = [status EXCEPT ![connectionQueue[i]] = "Done"]
      BY <1>2 DEF ServeQueued, FirstServable
    <2>2. PICK c \in Calls : c = connectionQueue[i]
      BY LenProperties, ElementOfSeq DEF IInv, TypeOK
    <2>3. db[c] = NoDriver
      BY <2>1, <2>2 DEF Servable, Awaitable, IInv, Ownership
    <2> QED
      BY <2>1, <2>2, <2>3 DEF IInv, TypeOK
  <1> QED
    BY <1>1, <1>2 DEF pushDatabaseBack, KeepOrDelete, Returned

LEMMA DatabaseSpares ==
  ASSUME IInv, NEW c \in Calls, NEW r \in {"null", "alive"}, database(c, r)
  PROVE  /\ \A e \in Calls \ {c} : Untouched(e)
         /\ status[c] = "none" /\ status'[c] # "none" /\ receiver'[c] = r
  BY DEF database, DatabaseNotFound, DatabaseQueue, DatabaseCreate, DatabaseReuse,
         DatabaseReopen, NewCall, Untouched, IInv, TypeOK

LEMMA CallerSpares ==
  ASSUME IInv, NEW c \in Calls,
         \/ Await(c) \/ DropAwaitable(c) \/ DestroyCoroutine(c) \/ DestroyReceiver(c)
         \/ EndCall(c) \/ Refused(c) \/ Torn(c)
  PROVE  \A e \in Calls \ {c} : Untouched(e)
  BY DEF Await, DropAwaitable, DestroyCoroutine, DestroyReceiver, EndCall, Refused, Torn,
         NewCall, onlyStatus, Untouched, IInv, TypeOK

LEMMA ReleaseSpares ==
  ASSUME IInv, NEW c \in Calls, Release(c)
  PROVE  /\ \A e \in Calls \ {c} : Untouched(e)
         /\ status[c] # "none" /\ status'[c] # "none" /\ receiver' = receiver
  <1>1. status[c] # "none" /\ receiver' = receiver
    BY DEF Release, IInv, Ownership
  <1>2. PICK dbs \in [Calls -> Drivers \cup {NoDriver}] : dbs = [db EXCEPT ![c] = NoDriver]
    BY DEF IInv, TypeOK
  <1>3. \A e \in Calls : dbs[e] = IF e = c THEN NoDriver ELSE db[e]
    BY <1>2 DEF IInv, TypeOK
  <1>4. CASE db' = dbs /\ status' = status
    BY <1>1, <1>3, <1>4 DEF Untouched
  <1>5. CASE pushDatabaseBack(db[c], dbs, hooks)
    <2>1. PICK d, held : d = db[c] /\ held = hooks
      OBVIOUS
    <2>2. \A e \in Calls : /\ status[e] # "none" => status'[e] # "none"
                           /\ dbs[e] # NoDriver => db'[e] = dbs[e]
      BY <1>1, <1>3, <1>5, <2>1, PushBackSpares
    <2> QED
      BY <1>1, <1>3, <2>2 DEF Untouched
  <1> QED
    BY <1>2, <1>4, <1>5 DEF Release, GiveBack

LEMMA DriverSpares ==
  ASSUME IInv, DriverStep
  PROVE  \A e \in Calls : Untouched(e)
  <1>1. ASSUME NEW c \in Calls, OpenSucceeds(c) \/ OpenFails(c)
        PROVE  \A e \in Calls : Untouched(e)
    <2>1. db[c] = NoDriver
      BY <1>1 DEF OpenSucceeds, OpenFails, IInv, Ownership
    <2>2. receiver' = receiver /\ \A e \in Calls : status[e] # "none" => status'[e] # "none"
      BY <1>1 DEF OpenSucceeds, OpenFails, Delivered, IInv, TypeOK
    <2>3. \A e \in Calls : db[e] # NoDriver => db'[e] = db[e]
      BY <1>1, <2>1 DEF OpenSucceeds, OpenFails, IInv, TypeOK
    <2> QED
      BY <2>2, <2>3 DEF Untouched
  <1>2. ASSUME NEW d, NEW held, pushDatabaseBack(d, db, held), UNCHANGED receiver
        PROVE  \A e \in Calls : Untouched(e)
    <2>1. PICK dbs \in [Calls -> Drivers \cup {NoDriver}] : dbs = db
      BY DEF IInv, TypeOK
    <2> QED
      BY <1>2, <2>1, PushBackSpares DEF Untouched
  <1>3. ASSUME UNCHANGED <<db, status, receiver>>
        PROVE  \A e \in Calls : Untouched(e)
    BY <1>3 DEF Untouched
  <1>4. ASSUME NEW c \in Calls, ReleaseOpening(c)
        PROVE  \A e \in Calls : Untouched(e)
    <2>1. CASE pushDatabaseBack(opening[c], db, hooks)
      <3>1. PICK d, held : d = opening[c] /\ held = hooks
        OBVIOUS
      <3> QED
        BY <1>2, <1>4, <2>1, <3>1 DEF ReleaseOpening
    <2> QED
      BY <1>3, <1>4, <2>1 DEF ReleaseOpening
  <1>5. ASSUME NEW d \in Drivers, FinishHook(d)
        PROVE  \A e \in Calls : Untouched(e)
    <2>1. CASE pushDatabaseBack(d, db, hooks \ {d})
      <3>1. PICK held : held = hooks \ {d}
        OBVIOUS
      <3> QED
        BY <1>2, <1>5, <2>1, <3>1 DEF FinishHook
    <2> QED
      BY <1>3, <1>5, <2>1 DEF FinishHook
  <1> QED
    BY <1>1, <1>3, <1>4, <1>5 DEF DriverStep, ConnectionLost

\* A step of database()'s callers, of the drivers or of the administration spares
\* every call of exec().
LEMMA PoolSpares ==
  ASSUME IInv, PoolStep
  PROVE  \A e \in Calls : step[e] # "none" => Untouched(e)
  <1>1. ASSUME NEW c \in Calls, step[c] = "none", CallStep(c)
        PROVE  \A e \in Calls : step[e] # "none" => Untouched(e)
    BY <1>1, ReceiversPassed, DatabaseSpares, CallerSpares, ReleaseSpares DEF CallStep
  <1>2. CASE Administer
    BY <1>2 DEF Administer, setMaxConnections, setMaxIdleConnections, remove, create,
                notAdministered, Untouched
  <1> QED
    BY <1>1, <1>2, DriverSpares DEF PoolStep

-----------------------------------------------------------------------------
(***************************************************************************)
(* The inductive invariant of the queries.                                 *)
(***************************************************************************)

\* Of a call of exec(): a coroutine that runs its query holds a connection and may be
\* told of one more result, and while the driver drains the rest the connection is not
\* back; while it waits for the connection nothing was told, and database() has the
\* receiver that it was given.
Running(c) ==
  /\ status[c] = "none" => step[c] = "none"
  /\ step[c] \in {"none", "Gets"} => told[c] = 0
  /\ step[c] = "Gets" /\ c \in owned => receiver[c] = "alive"
  /\ step[c] \in {"Executes", "Drains"} => db[c] # NoDriver
  /\ step[c] = "Executes" => told[c] < MaxResults

ExecIInv == ExecTypeOK /\ \A c \in Calls : Running(c)

LEMMA InitExecIInv == ExecInit => ExecIInv
  <1> SUFFICES ASSUME ExecInit PROVE ExecIInv
    OBVIOUS
  <1> USE DEF ExecInit
  <1>1. ExecTypeOK
    BY ExecAssumption DEF ExecTypeOK, Step, Caller
  <1>2. \A c \in Calls : Running(c)
    BY DEF Running, Init
  <1> QED
    BY <1>1, <1>2 DEF ExecIInv

-----------------------------------------------------------------------------
(***************************************************************************)
(* The steps of the queries.                                               *)
(***************************************************************************)

\* A call whose own part does not change was given what Untouched keeps.
LEMMA UntouchedRuns ==
  ASSUME NEW c \in Calls, Running(c), Untouched(c),
         step'[c] = step[c], told'[c] = told[c], c \in owned' => c \in owned,
         status[c] = "none" => status'[c] = "none" \/ step'[c] = "none"
  PROVE  Running(c)'
  BY DEF Running, Untouched

LEMMA PoolStepRuns ==
  ASSUME IInv, ExecIInv, PoolStep
  PROVE  ExecIInv'
  <1>1. UNCHANGED execVars
    BY DEF PoolStep
  <1>2. \A e \in Calls : Running(e)'
    <2> SUFFICES ASSUME NEW e \in Calls
                 PROVE  Running(e)'
      OBVIOUS
    <2>1. CASE step[e] = "none"
      BY <1>1, <2>1 DEF ExecIInv, Running, execVars
    <2>2. CASE step[e] # "none"
      BY <1>1, <2>2, PoolSpares DEF ExecIInv, Running, Untouched, execVars
    <2> QED
      BY <2>1, <2>2
  <1>3. ExecTypeOK'
    BY <1>1 DEF ExecIInv, ExecTypeOK, execVars
  <1> QED
    BY <1>2, <1>3 DEF ExecIInv

\* How the coroutine runs on when its call of database() is answered, or awaits it.
LEMMA AdvanceRuns ==
  ASSUME ExecIInv, NEW c \in Calls, told[c] = 0,
         NEW st, NEW callers \in [Calls -> Caller], Advance(c, st, db', callers)
  PROVE  /\ step' \in [Calls -> Step] /\ caller' \in [Calls -> Caller]
         /\ told' \in [Calls -> 0..MaxResults]
         /\ \A e \in Calls \ {c} : step'[e] = step[e] /\ told'[e] = told[e]
         /\ step'[c] \in {"Gets", "Executes", "Ended"}
         /\ step'[c] \in {"Gets", "Executes"} => told'[c] = 0
         /\ step'[c] = "Gets" => st # "Done"
         /\ step'[c] = "Executes" => db'[c] # NoDriver
  <1> USE DEF ExecIInv, ExecTypeOK
  <1>1. MaxResults \in Nat \ {0}
    BY ExecAssumption
  <1>2. CASE /\ st # "Done" /\ step' = [step EXCEPT ![c] = "Gets"] /\ caller' = callers
             /\ UNCHANGED told
    BY <1>2 DEF Step
  <1>3. CASE /\ st = "Done" /\ db'[c] # NoDriver /\ step' = [step EXCEPT ![c] = "Executes"]
             /\ caller' = callers /\ UNCHANGED told
    BY <1>3 DEF Step
  <1>4. CASE /\ st = "Done" /\ step' = [step EXCEPT ![c] = "Ended"] /\ Tell(c, callers)
    <2>1. told' \in [Calls -> 0..MaxResults] /\ \A e \in Calls \ {c} : told'[e] = told[e]
      BY <1>1, <1>4 DEF Tell
    <2>2. caller' \in [Calls -> Caller]
      BY <1>4 DEF Tell, Caller
    <2> QED
      BY <1>4, <2>1, <2>2 DEF Step
  <1> QED
    BY <1>2, <1>3, <1>4 DEF Advance

\* exec() starts a call that was free.
LEMMA ExecView ==
  ASSUME NEW c \in Calls, exec(c)
  PROVE  \E r \in {"null", "alive"} :
           /\ database(c, r) \/ (NewCall(c, r, "Done") /\ UNCHANGED onlyStatus)
           /\ owned' = IF r = "alive" THEN owned \cup {c} ELSE owned \ {c}
           /\ multi' \in {multi \cup {c}, multi \ {c}}
           /\ \E how \in {"Awaits", "Discarded"} :
                Advance(c, status'[c], db', [caller EXCEPT ![c] = how])
  <1>1. PICK r \in ExecReceivers, m \in BOOLEAN, how \in {"Awaits", "Discarded"} :
          execNamed(c, r, m, how) \/ execUnknown(c, r, m, how)
    BY DEF exec
  <1>2. r \in {"null", "alive"}
    BY ExecAssumption
  <1> QED
    BY <1>1, <1>2 DEF execNamed, execUnknown, NewExec, PassedReceiver

LEMMA ExecRuns ==
  ASSUME IInv, ExecIInv, NEW c \in Calls, exec(c)
  PROVE  ExecIInv'
  <1>1. PICK r \in {"null", "alive"}, how \in {"Awaits", "Discarded"} :
          /\ database(c, r) \/ (NewCall(c, r, "Done") /\ UNCHANGED onlyStatus)
          /\ owned' = IF r = "alive" THEN owned \cup {c} ELSE owned \ {c}
          /\ multi' \in {multi \cup {c}, multi \ {c}}
          /\ Advance(c, status'[c], db', [caller EXCEPT ![c] = how])
    BY ExecView
  <1>2. /\ status[c] = "none" /\ status'[c] # "none" /\ receiver'[c] = r
        /\ \A e \in Calls \ {c} : Untouched(e)
    <2>1. CASE database(c, r)
      BY <2>1, DatabaseSpares
    <2>2. CASE NewCall(c, r, "Done") /\ UNCHANGED onlyStatus
      <3>1. Refused(c)
        BY <2>2 DEF Refused
      <3> QED
        BY <2>2, <3>1, CallerSpares DEF NewCall, IInv, TypeOK
    <2> QED
      BY <1>1, <2>1, <2>2
  <1>3. told[c] = 0
    BY <1>2 DEF ExecIInv, Running
  <1>4. [caller EXCEPT ![c] = how] \in [Calls -> Caller]
    BY DEF ExecIInv, ExecTypeOK, Caller
  <1>5. PICK st : \E callers \in [Calls -> Caller] : Advance(c, st, db', callers)
    BY <1>1, <1>4
  <1>6. /\ step' \in [Calls -> Step] /\ caller' \in [Calls -> Caller]
        /\ told' \in [Calls -> 0..MaxResults]
        /\ \A e \in Calls \ {c} : step'[e] = step[e] /\ told'[e] = told[e]
        /\ step'[c] \in {"Gets", "Executes", "Ended"}
        /\ step'[c] \in {"Gets", "Executes"} => told'[c] = 0
        /\ step'[c] = "Executes" => db'[c] # NoDriver
    BY <1>3, <1>5, AdvanceRuns
  <1>7. ExecTypeOK'
    BY <1>1, <1>6 DEF ExecIInv, ExecTypeOK
  <1>8. Running(c)'
    BY <1>1, <1>2, <1>6, ExecAssumption DEF Running
  <1>9. ASSUME NEW e \in Calls \ {c} PROVE Running(e)'
    <2>1. Running(e) /\ Untouched(e) /\ (e \in owned' => e \in owned)
      BY <1>1, <1>2 DEF ExecIInv
    <2>2. status[e] = "none" => step[e] = "none"
      BY <2>1 DEF Running
    <2> QED
      BY <1>6, <2>1, <2>2, UntouchedRuns
  <1> QED
    BY <1>7, <1>8, <1>9 DEF ExecIInv

LEMMA ResumeRuns ==
  ASSUME IInv, ExecIInv, NEW c \in Calls, Resume(c)
  PROVE  ExecIInv'
  <1>1. step[c] = "Gets" /\ status[c] = "Done" /\ Advance(c, "Done", db', caller)
        /\ UNCHANGED <<vars, multi, owned>>
    BY DEF Resume, vars
  <1>2. told[c] = 0 /\ caller \in [Calls -> Caller]
    BY <1>1 DEF ExecIInv, ExecTypeOK, Running
  <1>3. PICK st, callers : st = "Done" /\ callers = caller
    OBVIOUS
  <1>4. /\ step' \in [Calls -> Step] /\ caller' \in [Calls -> Caller]
        /\ told' \in [Calls -> 0..MaxResults]
        /\ \A e \in Calls \ {c} : step'[e] = step[e] /\ told'[e] = told[e]
        /\ step'[c] \in {"Executes", "Ended"}
        /\ step'[c] = "Executes" => told'[c] = 0 /\ db'[c] # NoDriver
    BY <1>1, <1>2, <1>3, AdvanceRuns
  <1>5. ExecTypeOK'
    BY <1>1, <1>4 DEF ExecIInv, ExecTypeOK
  <1>6. Running(c)'
    BY <1>1, <1>4, ExecAssumption DEF Running, vars
  <1>7. \A e \in Calls \ {c} : Running(e)'
    BY <1>1, <1>4 DEF ExecIInv, Running, vars
  <1> QED
    BY <1>5, <1>6, <1>7 DEF ExecIInv

\* The query ends, and the lease with it.
LEMMA QueryEnds ==
  ASSUME IInv, ExecIInv, NEW c \in Calls, Release(c),
         step' = [step EXCEPT ![c] = "Ended"],
         told' \in [Calls -> 0..MaxResults],
         \A e \in Calls \ {c} : told'[e] = told[e],
         caller' \in [Calls -> Caller],
         multi' = multi, owned' = owned
  PROVE  ExecIInv'
  <1>1. (\A e \in Calls \ {c} : Untouched(e)) /\ status'[c] # "none"
    BY ReleaseSpares
  <1>2. step'[c] = "Ended" /\ step' \in [Calls -> Step]
        /\ \A e \in Calls \ {c} : step'[e] = step[e]
    BY DEF ExecIInv, ExecTypeOK, Step
  <1>3. ExecTypeOK'
    BY <1>2 DEF ExecIInv, ExecTypeOK
  <1>4. Running(c)'
    BY <1>1, <1>2 DEF Running
  <1>5. ASSUME NEW e \in Calls \ {c} PROVE Running(e)'
    <2>1. Running(e) /\ Untouched(e)
      BY <1>1 DEF ExecIInv
    <2>2. status[e] = "none" => step[e] = "none"
      BY <2>1 DEF Running
    <2> QED
      BY <1>2, <2>1, <2>2, UntouchedRuns
  <1> QED
    BY <1>3, <1>4, <1>5 DEF ExecIInv

\* A result is told to the coroutine whose query it answers, and to no other; only the
\* last one ends the lease.
LEMMA ResultRuns ==
  ASSUME IInv, ExecIInv, NEW c \in Calls, NEW last \in BOOLEAN, ResultArrives(c, last)
  PROVE  /\ ExecIInv'
         /\ UNCHANGED vars \/ Release(c)
  <1>1. step[c] = "Executes" /\ multi' = multi /\ owned' = owned
    BY DEF ResultArrives
  <1>2. /\ told[c] \in 0..MaxResults /\ MaxResults \in Nat
        /\ told[c] + 1 \in 0..MaxResults /\ db[c] # NoDriver
    <2>1. told[c] \in 0..MaxResults /\ told[c] < MaxResults /\ MaxResults \in Nat
      BY <1>1, ExecAssumption DEF ExecIInv, ExecTypeOK, Running
    <2>2. db[c] # NoDriver
      BY <1>1 DEF ExecIInv, Running
    <2> QED
      BY <2>1, <2>2
  <1>3. ASSUME Tell(c, caller)
        PROVE  /\ told' \in [Calls -> 0..MaxResults] /\ caller' \in [Calls -> Caller]
               /\ \A e \in Calls \ {c} : told'[e] = told[e]
    BY <1>2, <1>3 DEF Tell, Caller, ExecIInv, ExecTypeOK
  <1>4. CASE LastResult(c)
    <2>1. Release(c) /\ Tell(c, caller) /\ step' = [step EXCEPT ![c] = "Ended"]
      BY <1>4 DEF LastResult
    <2> QED
      BY <1>1, <1>3, <2>1, QueryEnds
  <1>5. CASE NextResult(c)
    <2>1. UNCHANGED vars /\ told[c] + 1 < MaxResults
      BY <1>5 DEF NextResult
    <2>2. CASE /\ told' = [told EXCEPT ![c] = @ + 1]
               /\ UNCHANGED <<step, caller>>
      <3>1. told' \in [Calls -> 0..MaxResults] /\ told'[c] < MaxResults
            /\ \A e \in Calls \ {c} : told'[e] = told[e]
        BY <1>2, <2>1, <2>2 DEF ExecIInv, ExecTypeOK
      <3>2. ExecTypeOK'
        BY <1>1, <2>2, <3>1 DEF ExecIInv, ExecTypeOK
      <3>3. \A e \in Calls : Running(e)'
        BY <1>1, <2>1, <2>2, <3>1 DEF ExecIInv, Running, vars
      <3> QED
        BY <2>1, <3>2, <3>3 DEF ExecIInv
    <2>3. CASE /\ step' = [step EXCEPT ![c] = "Drains"]
               /\ Tell(c, caller)
      <3>1. /\ step'[c] = "Drains" /\ step' \in [Calls -> Step]
            /\ \A e \in Calls \ {c} : step'[e] = step[e]
        BY <2>3 DEF ExecIInv, ExecTypeOK, Step
      <3>2. ExecTypeOK'
        BY <1>1, <1>3, <2>3, <3>1 DEF ExecIInv, ExecTypeOK
      <3>3. Running(c)'
        BY <1>1, <1>2, <2>1, <3>1 DEF ExecIInv, Running, vars
      <3>4. \A e \in Calls \ {c} : Running(e)'
        BY <1>1, <1>3, <2>1, <2>3, <3>1 DEF ExecIInv, Running, vars
      <3> QED
        BY <2>1, <3>2, <3>3, <3>4 DEF ExecIInv
    <2> QED
      BY <1>5, <2>2, <2>3 DEF NextResult
  <1> QED
    BY <1>4, <1>5 DEF ResultArrives, LastResult, NextResult

LEMMA DrainRuns ==
  ASSUME IInv, ExecIInv, NEW c \in Calls, Drain(c)
  PROVE  ExecIInv'
  BY QueryEnds DEF Drain, ExecIInv, ExecTypeOK

LEMMA InDatabaseRuns ==
  ASSUME IInv, ExecIInv, NEW c \in Calls, ReceiverDiesInDatabase(c)
  PROVE  ExecIInv' /\ Torn(c)
  <1>1. /\ c \in owned /\ step[c] = "Gets" /\ Awaitable(c)
        /\ owned' = owned \ {c} /\ CallerDestroyed(c)
        /\ UNCHANGED <<multi, told>>
    BY DEF ReceiverDiesInDatabase
  <1>2. receiver[c] = "alive"
    BY <1>1 DEF ExecIInv, Running
  <1>3. /\ Torn(c) /\ step' = [step EXCEPT ![c] = "Ended"]
    BY <1>1, <1>2 DEF ReceiverDiesInDatabase, Torn
  <1>4. \A e \in Calls \ {c} : Untouched(e)
    BY <1>3, CallerSpares
  <1>5. status'[c] = "Destroyed" /\ step'[c] = "Ended" /\ step' \in [Calls -> Step]
        /\ \A e \in Calls \ {c} : step'[e] = step[e]
    BY <1>3 DEF Torn, IInv, TypeOK, ExecIInv, ExecTypeOK, Step
  <1>6. caller' \in [Calls -> Caller]
    BY <1>1 DEF CallerDestroyed, ExecIInv, ExecTypeOK, Caller
  <1>7. ExecTypeOK'
    BY <1>1, <1>5, <1>6 DEF ExecIInv, ExecTypeOK
  <1>8. Running(c)'
    BY <1>5 DEF Running
  <1>9. ASSUME NEW e \in Calls \ {c} PROVE Running(e)'
    <2>1. Running(e) /\ Untouched(e) /\ (e \in owned' => e \in owned) /\ told'[e] = told[e]
      BY <1>1, <1>4 DEF ExecIInv
    <2>2. status[e] = "none" => step[e] = "none"
      BY <2>1 DEF Running
    <2> QED
      BY <1>5, <2>1, <2>2, UntouchedRuns
  <1> QED
    BY <1>3, <1>7, <1>8, <1>9 DEF ExecIInv

\* The receiver takes the coroutine, and leaves the pool as it is.
LEMMA InQueryRuns ==
  ASSUME ExecIInv, NEW c \in Calls, ReceiverDiesInQuery(c)
  PROVE  ExecIInv'
  <1>1. /\ step[c] = "Executes" /\ owned' = owned \ {c} /\ CallerDestroyed(c)
        /\ step' = [step EXCEPT ![c] = "Drains"]
        /\ UNCHANGED <<vars, multi, told>>
    BY DEF ReceiverDiesInQuery
  <1>2. /\ step'[c] = "Drains" /\ step' \in [Calls -> Step]
        /\ \A e \in Calls \ {c} : step'[e] = step[e]
    BY <1>1 DEF ExecIInv, ExecTypeOK, Step
  <1>3. ExecTypeOK'
    BY <1>1, <1>2 DEF CallerDestroyed, ExecIInv, ExecTypeOK, Caller
  <1>4. \A e \in Calls : Running(e)'
    BY <1>1, <1>2 DEF ExecIInv, Running, vars
  <1> QED
    BY <1>3, <1>4 DEF ExecIInv

LEMMA GuardRuns ==
  ASSUME ExecIInv, NEW c \in Calls, GuardDies(c)
  PROVE  ExecIInv'
  <1>1. CallerDestroyed(c) /\ UNCHANGED <<vars, step, multi, owned, told>>
    BY DEF GuardDies
  <1>2. ExecTypeOK'
    BY <1>1 DEF CallerDestroyed, ExecIInv, ExecTypeOK, Caller
  <1>3. \A e \in Calls : Running(e)'
    BY <1>1 DEF ExecIInv, Running, vars
  <1> QED
    BY <1>2, <1>3 DEF ExecIInv

LEMMA EndRuns ==
  ASSUME IInv, ExecIInv, NEW c \in Calls, EndExec(c)
  PROVE  ExecIInv'
  <1>1. /\ step[c] = "Ended" /\ EndCall(c) /\ step' = [step EXCEPT ![c] = "none"]
        /\ caller' = [caller EXCEPT ![c] = "none"] /\ told' = [told EXCEPT ![c] = 0]
        /\ multi' = multi \ {c} /\ owned' = owned \ {c}
    BY DEF EndExec
  <1>2. \A e \in Calls \ {c} : Untouched(e)
    BY <1>1, CallerSpares
  <1>3. /\ step' \in [Calls -> Step] /\ step'[c] = "none" /\ told'[c] = 0
        /\ told' \in [Calls -> 0..MaxResults]
        /\ \A e \in Calls \ {c} : step'[e] = step[e] /\ told'[e] = told[e]
    BY <1>1, ExecAssumption DEF ExecIInv, ExecTypeOK, Step
  <1>4. ExecTypeOK'
    BY <1>1, <1>3 DEF ExecIInv, ExecTypeOK, Caller
  <1>5. Running(c)'
    BY <1>3 DEF Running
  <1>6. ASSUME NEW e \in Calls \ {c} PROVE Running(e)'
    <2>1. Running(e) /\ Untouched(e) /\ (e \in owned' => e \in owned)
      BY <1>1, <1>2 DEF ExecIInv
    <2>2. status[e] = "none" => step[e] = "none"
      BY <2>1 DEF Running
    <2> QED
      BY <1>3, <2>1, <2>2, UntouchedRuns
  <1> QED
    BY <1>4, <1>5, <1>6 DEF ExecIInv

\* What a step of exec() is to the pool underneath.
LEMMA ExecIsView ==
  ASSUME IInv, ExecIInv, [ExecNext]_allVars
  PROVE  PoolView
  <1>1. CASE PoolStep
    BY <1>1 DEF PoolStep, PoolView, Next
  <1>2. CASE ServerStep
    <2>1. ASSUME NEW c \in Calls, Drain(c) PROVE PoolView
      BY <2>1 DEF Drain, PoolView, Next, CallStep
    <2>2. ASSUME NEW c \in Calls, NEW last \in BOOLEAN, ResultArrives(c, last) PROVE PoolView
      BY <2>2, ResultRuns DEF PoolView, Next, CallStep
    <2> QED
      BY <1>2, <2>1, <2>2 DEF ServerStep
  <1>3. ASSUME NEW c \in Calls, ExecStep(c) PROVE PoolView
    <2>1. CASE exec(c)
      BY <2>1, ExecView DEF PoolView, Refused
    <2>2. CASE Resume(c) \/ GuardDies(c) \/ ReceiverDiesInQuery(c)
      BY <2>2 DEF Resume, GuardDies, ReceiverDiesInQuery, PoolView
    <2>3. CASE ReceiverDiesInDatabase(c)
      BY <2>3, InDatabaseRuns DEF PoolView
    <2>4. CASE EndExec(c)
      BY <2>4 DEF EndExec, PoolView, Next, CallStep
    <2> QED
      BY <1>3, <2>1, <2>2, <2>3, <2>4 DEF ExecStep
  <1>4. CASE UNCHANGED allVars
    BY <1>4 DEF allVars, PoolView
  <1> QED
    BY <1>1, <1>2, <1>3, <1>4 DEF ExecNext

LEMMA ExecNextIInv ==
  ASSUME IInv, ExecIInv, [ExecNext]_allVars
  PROVE  IInv' /\ ExecIInv'
  <1>1. IInv'
    BY ExecIsView, ViewKeeps
  <1>2. CASE PoolStep
    BY <1>1, <1>2, PoolStepRuns
  <1>3. CASE ServerStep
    <2>1. ASSUME NEW c \in Calls, Drain(c) PROVE ExecIInv'
      BY <2>1, DrainRuns
    <2>2. ASSUME NEW c \in Calls, NEW last \in BOOLEAN, ResultArrives(c, last)
          PROVE  ExecIInv'
      BY <2>2, ResultRuns
    <2> QED
      BY <1>1, <1>3, <2>1, <2>2 DEF ServerStep
  <1>4. ASSUME NEW c \in Calls, ExecStep(c) PROVE ExecIInv'
    BY <1>4, ExecRuns, ResumeRuns, InDatabaseRuns, InQueryRuns, GuardRuns, EndRuns
       DEF ExecStep
  <1>5. CASE UNCHANGED allVars
    BY <1>1, <1>5 DEF allVars, execVars, vars, ExecIInv, ExecTypeOK, Running
  <1> QED
    BY <1>1, <1>2, <1>3, <1>4, <1>5 DEF ExecNext

LEMMA ExecInvariance == ExecSpec => [](IInv /\ ExecIInv)
  <1>1. ExecInit => IInv /\ ExecIInv
    BY InitIInv, InitExecIInv DEF ExecInit
  <1>2. IInv /\ ExecIInv /\ [ExecNext]_allVars => (IInv /\ ExecIInv)'
    BY ExecNextIInv
  <1> QED
    BY <1>1, <1>2, PTL DEF ExecSpec

\* While no guard destroys the caller of exec() before its connection came, the text of
\* every query still to be sent exists: the one other thing that destroys the caller, its
\* receiver, destroys the coroutine that waits for the connection with it.
THEOREM ExecTextAlive ==
  ASSUME ~EarlyGuards
  PROVE  ExecSpec => []TextAlive
  <1> DEFINE Alive == \A c \in Calls : step[c] = "Gets" => caller[c] # "Destroyed"
  <1>1. ExecInit => Alive
    BY DEF ExecInit
  <1>2. ASSUME IInv, ExecIInv, Alive, [ExecNext]_allVars
        PROVE  Alive'
    <2> USE <1>2 DEF ExecIInv, ExecTypeOK
    <2>1. CASE UNCHANGED <<step, caller>>
      BY <2>1
    <2>2. ASSUME NEW c \in Calls, NEW st, NEW dbs, NEW callers \in [Calls -> Caller],
                 Advance(c, st, dbs, callers),
                 \A e \in Calls \ {c} : callers[e] = caller[e],
                 callers[c] # "Destroyed"
          PROVE  Alive'
      <3>1. \A e \in Calls \ {c} : step'[e] = step[e] /\ caller'[e] = caller[e]
        BY <2>2 DEF Advance, Tell
      <3>2. caller'[c] # "Destroyed"
        BY <2>2 DEF Advance, Tell
      <3> QED
        BY <3>1, <3>2
    <2>3. ASSUME NEW c \in Calls, exec(c)
          PROVE  Alive'
      <3>1. PICK how \in {"Awaits", "Discarded"} :
              Advance(c, status'[c], db', [caller EXCEPT ![c] = how])
        BY <2>3, ExecView
      <3>2. PICK st, dbs : st = status'[c] /\ dbs = db'
        OBVIOUS
      <3>3. PICK callers \in [Calls -> Caller] : callers = [caller EXCEPT ![c] = how]
        BY DEF Caller
      <3> QED
        BY <2>2, <3>1, <3>2, <3>3
    <2>4. ASSUME NEW c \in Calls, Resume(c)
          PROVE  Alive'
      <3>1. /\ step[c] = "Gets" /\ caller[c] # "Destroyed" /\ Advance(c, "Done", db, caller)
        BY <2>4 DEF Resume
      <3>2. PICK st, dbs : st = "Done" /\ dbs = db
        OBVIOUS
      <3>3. PICK callers \in [Calls -> Caller] : callers = caller
        OBVIOUS
      <3> QED
        BY <2>2, <3>1, <3>2, <3>3
    <2>5. ASSUME NEW c \in Calls, CallerDestroyed(c), step'[c] # "Gets",
                 \A e \in Calls \ {c} : step'[e] = step[e]
          PROVE  Alive'
      BY <2>5 DEF CallerDestroyed
    <2>6. ASSUME NEW c \in Calls, ReceiverDiesInDatabase(c) \/ ReceiverDiesInQuery(c) \/ GuardDies(c)
          PROVE  Alive'
      <3>1. CallerDestroyed(c)
        BY <2>6 DEF ReceiverDiesInDatabase, ReceiverDiesInQuery, GuardDies
      <3>2. ReceiverDiesInDatabase(c) => step' = [step EXCEPT ![c] = "Ended"]
        BY DEF ReceiverDiesInDatabase, Running
      <3>3. /\ ReceiverDiesInQuery(c) => step' = [step EXCEPT ![c] = "Drains"]
            /\ GuardDies(c) => step' = step /\ step[c] = "Executes"
        BY DEF ReceiverDiesInQuery, GuardDies
      <3> QED
        BY <2>5, <2>6, <3>1, <3>2, <3>3
    <2>7. ASSUME NEW c \in Calls, EndExec(c)
          PROVE  Alive'
      BY <2>7 DEF EndExec
    <2>8. ASSUME NEW c \in Calls, Drain(c) \/ \E last \in BOOLEAN : ResultArrives(c, last)
          PROVE  Alive'
      <3>1. \A e \in Calls : /\ step'[e] = "Gets" => step[e] = "Gets"
                             /\ caller'[e] = "Destroyed" => caller[e] = "Destroyed"
        BY <2>8 DEF ResultArrives, LastResult, NextResult, Drain, Tell
      <3> QED
        BY <3>1
    <2> QED
      BY <2>1, <2>3, <2>4, <2>6, <2>7, <2>8
         DEF ExecNext, ExecStep, ServerStep, PoolStep, execVars, allVars
  <1>3. ExecIInv /\ Alive => TextAlive
    BY DEF ExecIInv, TextAlive
  <1> QED
    BY <1>1, <1>2, <1>3, ExecInvariance, PTL DEF ExecSpec

\* With the queries of exec() and execMulti() on its connections the pool keeps its
\* promise too: each connection stays with the call that has it until the last result of
\* its query, also when the caller or its receiver went away before.
THEOREM ExecImplements ==
  ASSUME MaxRemovals = 0
  PROVE  ExecSpec => KeepsContract
  <1>1. ExecInit => Contract!Init /\ CountExact /\ Kept
    <2>1. Init => CountExact
      <3>1. Init => Live = {}
        BY DEF Init, Live
      <3> QED
        BY <3>1, FS_EmptySet DEF Init, CountExact
    <2> QED
      BY <2>1, InitMaps DEF ExecInit, Init, Kept
  <1>2. IInv /\ ExecIInv /\ CountExact /\ Kept /\ [ExecNext]_allVars
          => CountExact' /\ Kept' /\ [Contract!Next]_Contract!vars
    BY ExecIsView, ViewCounts, ViewMaps
  <1> QED
    BY <1>1, <1>2, ExecInvariance, PTL DEF ExecSpec, KeepsContract, Contract!Spec

=============================================================================
