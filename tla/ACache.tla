------------------------------- MODULE ACache -------------------------------
(***************************************************************************)
(* The query cache (src/src/acache.cpp): calls of exec() that find, join   *)
(* or start a request, the requestData() coroutines that fetch results     *)
(* over a database connection or a pool, the answers queued to the event   *)
(* loop, and clear() and expire() in between.                              *)
(*                                                                         *)
(* A key is a query with its arguments: the entries of other arguments     *)
(* under the same query are stepped over by every loop.  Results are the   *)
(* version of the data the query read.                                     *)
(***************************************************************************)
EXTENDS Integers, Sequences, FiniteSets

CONSTANTS Callers,        \* calls of exec() and execExpiring(), reused
          Keys,
          MaxVersion,     \* bound on the writes to the database
          Failures,       \* whether the pool and the queries may fail
          OverlapAtPool,  \* exec() while a request of the key is at the pool
          ClearInFlight   \* clear() while a request of the key is under way

ASSUME ConstantsAssumption ==
  /\ MaxVersion \in Nat
  /\ {Failures, OverlapAtPool, ClearInFlight} \subseteq BOOLEAN

VARIABLES
  alive,     \* the ACache object exists
  dbSource,
  cache,     \* the entries of each key, the latest inserted first
  fetch,     \* of the requestData() of a call: where it is suspended
  read,      \* what the query of a call read
  posted,    \* queued invocations of the callbacks, in order
  caller,    \* of each call: "none", "pending", "answered" or "gone"
  asked,     \* the key of a call
  version    \* of the data in the database

cacheVars == <<alive, dbSource, cache, fetch, read, posted>>
vars == <<cacheVars, caller, asked, version>>

Error == -1
Pending == -2      \* hasResultTP is not set
Result == {Error} \cup (0..MaxVersion)

Entry == [receivers : Seq(Callers), result : {Pending} \cup (0..MaxVersion),
          old : BOOLEAN]

\* The calls whose requestData() coroutine works on k.
Fetching(k) == {c \in Callers : fetch[c] # "none" /\ asked[c] = k}

AtPool(k) == {c \in Fetching(k) : fetch[c] = "pool"}

\* The callback of c is among the receivers of an entry of k.
Waiting(c, k) == \E i \in DOMAIN cache[k] :
                   \E j \in DOMAIN cache[k][i].receivers :
                     cache[k][i].receivers[j] = c

Init ==
  /\ alive = TRUE /\ dbSource = "Unset"
  /\ cache = [k \in Keys |-> <<>>]
  /\ fetch = [c \in Callers |-> "none"]
  /\ read = [c \in Callers |-> Error]
  /\ posted = <<>>
  /\ caller = [c \in Callers |-> "none"]
  /\ asked \in [Callers -> Keys]
  /\ version = 0

-----------------------------------------------------------------------------
\* The elements of s at some of its positions, in their order.
ElementsAt(s, positions) ==
  [n \in 1 .. Cardinality(positions) |->
     s[CHOOSE i \in positions : Cardinality({j \in positions : j <= i}) = n]]

\* scheduleResult(), for one callback and for those of an entry.  A callback
\* that has expired by now is left out; one that expires later does nothing.
Event(c, v) == [to |-> c, value |-> v]

Interested(receivers) ==
  ElementsAt(receivers, {i \in DOMAIN receivers : caller[receivers[i]] # "gone"})

\* Mutated form: the last ones queued are called first.
scheduleFirst(receivers, v) ==
  posted' = [i \in DOMAIN Interested(receivers) |-> Event(Interested(receivers)[i], v)]
            \o posted

schedule(receivers, v) ==
  posted' = posted
            \o [i \in DOMAIN Interested(receivers) |-> Event(Interested(receivers)[i], v)]

Rest(k) == [cache EXCEPT ![k] = Tail(@)]

\* Mutated form: only the call itself is told, and its entry stays.
failAlone(c, k, entries) ==
  /\ cache' = entries
  /\ schedule(<<c>>, Error)

\* The first entry of the key is erased and its receivers are told; the call
\* itself when there is none.  entries is the cache it runs on.
failRequest(c, k, entries) ==
  IF entries[k] = <<>>
    THEN cache' = entries /\ schedule(<<c>>, Error)
    ELSE /\ cache' = [entries EXCEPT ![k] = Tail(@)]
         /\ schedule(Head(entries[k]).receivers, Error)

\* The entry is inserted in front and the query sent.
emplace(c, k, entries) ==
  /\ cache' = [entries EXCEPT ![k] =
       <<[receivers |-> <<c>>, result |-> Pending, old |-> FALSE]>> \o @]
  /\ fetch' = [fetch EXCEPT ![c] = "exec"]
  /\ UNCHANGED posted

\* The pool gave no connection.
RefusedByPool(c, k, entries) ==
  /\ failRequest(c, k, entries)
  /\ fetch' = [fetch EXCEPT ![c] = "none"]

\* requestData() up to its first suspension.
requestData(c, k, entries) ==
  \/ dbSource = "Unset" /\ RefusedByPool(c, k, entries)
  \/ dbSource = "Database" /\ emplace(c, k, entries)
  \/ /\ dbSource = "Pool"
     /\ \/ Failures /\ RefusedByPool(c, k, entries)
        \/ emplace(c, k, entries)
        \/ /\ fetch' = [fetch EXCEPT ![c] = "pool"]
           /\ cache' = entries /\ UNCHANGED posted

-----------------------------------------------------------------------------
\* exec() and execExpiring(): searchOrQueue(), then requestData() on a miss.
NewCall(c, k) ==
  /\ alive /\ caller[c] = "none" /\ fetch[c] = "none"
  /\ OverlapAtPool \/ AtPool(k) = {}
  /\ caller' = [caller EXCEPT ![c] = "pending"]
  /\ asked' = [asked EXCEPT ![c] = k]
  /\ UNCHANGED <<alive, dbSource, read, version>>

Expired(e, expiring) == e.result # Pending /\ expiring /\ e.old

ExecHit(c, k, expiring) ==
  /\ cache[k] # <<>>
  /\ Head(cache[k]).result # Pending
  /\ ~Expired(Head(cache[k]), expiring)
  /\ NewCall(c, k)
  /\ posted' = Append(posted, Event(c, Head(cache[k]).result))
  /\ UNCHANGED <<cache, fetch>>

\* Mutated form: a waiting entry is no reason not to send the query.
ExecJoinAndFetch(c, k) ==
  /\ cache[k] # <<>>
  /\ Head(cache[k]).result = Pending
  /\ NewCall(c, k)
  /\ requestData(c, k, cache)

ExecJoin(c, k) ==
  /\ cache[k] # <<>>
  /\ Head(cache[k]).result = Pending
  /\ NewCall(c, k)
  /\ cache' = [cache EXCEPT ![k][1].receivers = Append(@, c)]
  /\ UNCHANGED <<fetch, posted>>

ExecMiss(c, k, expiring) ==
  /\ NewCall(c, k)
  /\ \/ cache[k] = <<>> /\ requestData(c, k, cache)
     \/ /\ cache[k] # <<>> /\ Expired(Head(cache[k]), expiring)
        /\ requestData(c, k, Rest(k))

exec(c, k, expiring) ==
  ExecHit(c, k, expiring) \/ ExecJoin(c, k) \/ ExecMiss(c, k, expiring)

-----------------------------------------------------------------------------
\* requestData() resumes with the answer of the pool.
PoolAnswers(c) ==
  /\ fetch[c] = "pool"
  /\ \/ emplace(c, asked[c], cache)
     \/ Failures /\ RefusedByPool(c, asked[c], cache)
  /\ UNCHANGED <<alive, dbSource, read, caller, asked, version>>

\* The database runs the query; the result is under way.
QueryRuns(c) ==
  /\ fetch[c] = "exec"
  /\ fetch' = [fetch EXCEPT ![c] = "done"]
  /\ read' \in {[read EXCEPT ![c] = v] :
                  v \in {version} \cup (IF Failures THEN {Error} ELSE {})}
  /\ UNCHANGED <<alive, dbSource, cache, posted, caller, asked, version>>

\* Mutated form: the waiting receivers are not moved out of the entry.
StoreAndKeep(k, v) ==
  /\ cache' = [cache EXCEPT ![k][1].result = v, ![k][1].old = FALSE]
  /\ schedule(Head(cache[k]).receivers, v)

\* Whichever entry of the key comes first gets the result.
Store(k, v) ==
  /\ cache' = [cache EXCEPT ![k][1] =
                 [receivers |-> <<>>, result |-> v, old |-> FALSE]]
  /\ schedule(Head(cache[k]).receivers, v)

\* requestData() resumes with the result.
ResultArrives(c) ==
  LET k == asked[c] IN
  /\ fetch[c] = "done"
  /\ fetch' = [fetch EXCEPT ![c] = "none"]
  /\ IF read[c] = Error
       THEN failRequest(c, k, cache)
       ELSE IF cache[k] # <<>>
         THEN Store(k, read[c])
         ELSE schedule(<<c>>, Error) /\ cache' = cache
  /\ read' = [read EXCEPT ![c] = Error]
  /\ UNCHANGED <<alive, dbSource, caller, asked, version>>

\* The event loop runs the next queued invocation.
Deliver ==
  /\ posted # <<>>
  /\ posted' = Tail(posted)
  /\ LET c == Head(posted).to
     IN caller' = [caller EXCEPT ![c] = IF @ = "pending" THEN "answered" ELSE @]
  /\ UNCHANGED <<alive, dbSource, cache, fetch, read, asked, version>>

-----------------------------------------------------------------------------
\* The application.  The coroutine of a call, or its receiver, is destroyed.
Drop(c) ==
  /\ caller[c] = "pending"
  /\ caller' = [caller EXCEPT ![c] = "gone"]
  /\ UNCHANGED <<cacheVars, asked, version>>

Referenced(c) ==
  \/ fetch[c] # "none"
  \/ \E i \in DOMAIN posted : posted[i].to = c
  \/ \E k \in Keys : Waiting(c, k)

\* A call nothing refers to any more: its identity stands for a later one.
Forget(c) ==
  /\ caller[c] \in {"answered", "gone"} /\ ~Referenced(c)
  /\ caller' = [caller EXCEPT ![c] = "none"]
  /\ UNCHANGED <<cacheVars, asked, version>>

setSource(s) ==
  /\ alive /\ dbSource' = s
  /\ UNCHANGED <<alive, cache, fetch, read, posted, caller, asked, version>>

onlyCache == <<alive, dbSource, fetch, read, posted, caller, asked, version>>

clear(k) ==
  /\ alive /\ cache[k] # <<>>
  /\ ClearInFlight \/ Fetching(k) = {}
  /\ cache' = Rest(k)
  /\ UNCHANGED onlyCache

\* hasResultTP is set and lies before the cut.
IsOld(e) == e.result # Pending /\ e.old

expire(k) ==
  /\ alive /\ cache[k] # <<>> /\ IsOld(Head(cache[k]))
  /\ cache' = Rest(k)
  /\ UNCHANGED onlyCache

expireAll ==
  /\ alive
  /\ cache' = [k \in Keys |->
       ElementsAt(cache[k], {i \in DOMAIN cache[k] : ~IsOld(cache[k][i])})]
  /\ UNCHANGED onlyCache

\* Time passes: the result of k is now older than the age asked for.
Age(k) ==
  /\ \E i \in DOMAIN cache[k] : cache[k][i].result # Pending
  /\ cache' = [cache EXCEPT ![k] = [i \in DOMAIN @ |->
                 [@[i] EXCEPT !.old = cache[k][i].result # Pending]]]
  /\ UNCHANGED onlyCache

\* The coroutines named the cache with co_yield, and it is the context of the
\* queued invocations: all are gone with it.
DestroyCache ==
  /\ alive /\ alive' = FALSE
  /\ cache' = [k \in Keys |-> <<>>]
  /\ fetch' = [c \in Callers |-> "none"]
  /\ read' = [c \in Callers |-> Error]
  /\ posted' = <<>>
  /\ UNCHANGED <<dbSource, caller, asked, version>>

\* Somebody changes the data.
Write ==
  /\ version < MaxVersion
  /\ version' = version + 1
  /\ UNCHANGED <<cacheVars, caller, asked>>

-----------------------------------------------------------------------------
Next ==
  \/ \E c \in Callers, k \in Keys, expiring \in BOOLEAN : exec(c, k, expiring)
  \/ \E c \in Callers : \/ PoolAnswers(c) \/ QueryRuns(c) \/ ResultArrives(c)
                        \/ Drop(c) \/ Forget(c)
  \/ \E k \in Keys : clear(k) \/ expire(k) \/ Age(k)
  \/ \E s \in {"Database", "Pool"} : setSource(s)
  \/ Deliver \/ expireAll \/ DestroyCache \/ Write

Spec == Init /\ [][Next]_vars

\* The pool, the database and the event loop do their work.
Fairness ==
  /\ WF_vars(Deliver)
  /\ \A c \in Callers : WF_vars(PoolAnswers(c) \/ QueryRuns(c) \/ ResultArrives(c))

FairSpec == Spec /\ Fairness

-----------------------------------------------------------------------------
TypeOK ==
  /\ alive \in BOOLEAN
  /\ dbSource \in {"Unset", "Database", "Pool"}
  /\ cache \in [Keys -> Seq(Entry)]
  /\ fetch \in [Callers -> {"none", "pool", "exec", "done"}]
  /\ read \in [Callers -> Result]
  /\ posted \in Seq([to : Callers, value : Result])
  /\ caller \in [Callers -> {"none", "pending", "answered", "gone"}]
  /\ asked \in [Callers -> Keys]
  /\ version \in 0..MaxVersion

\* Concurrent calls of one key share one query and one entry, and an entry
\* without a result has a query that will fill or erase it
\* (cache_tst.cpp, testCacheConcurrentWaiters).
OneRequest ==
  \A k \in Keys :
    /\ Cardinality(Fetching(k)) <= 1
    /\ Len(cache[k]) <= 1
    /\ cache[k] # <<>> /\ Head(cache[k]).result = Pending
         <=> \E c \in Fetching(k) : fetch[c] \in {"exec", "done"}

\* A call that waits has somebody to answer it: its own request at the pool, an
\* entry that waits for a result, or a queued invocation.  The comment above
\* ACachePrivate::cache says that no caller is stuck.
NoLostCaller ==
  \A c \in Callers :
    alive /\ caller[c] = "pending" =>
      \/ fetch[c] = "pool"
      \/ \E i \in DOMAIN posted : posted[i].to = c
      \/ Waiting(c, asked[c]) /\ Fetching(asked[c]) # {}

\* However requests fail, expire and are abandoned, each entry has its one request and
\* each caller something that will answer it.
EntriesSound == TypeOK /\ OneRequest /\ NoLostCaller

\* No callback is invoked a second time.
AnsweredOnce ==
  /\ \A i, j \in DOMAIN posted : posted[i].to = posted[j].to => i = j
  /\ \A c \in Callers :
       caller[c] = "answered" \/ (\E i \in DOMAIN posted : posted[i].to = c)
         => ~Waiting(c, asked[c])
  /\ \A i \in DOMAIN posted : caller[posted[i].to] # "answered"

\* Callers of one key see the data move forward only: the queued answers in
\* order, then what is cached, then what is about to arrive.
ReadsInOrder ==
  \A k \in Keys :
    LET ofKey(i) == asked[posted[i].to] = k /\ posted[i].value # Error
        cached == {e \in {cache[k][i] : i \in DOMAIN cache[k]} :
                     e.result # Pending}
        coming == {c \in Fetching(k) : fetch[c] = "done" /\ read[c] # Error}
    IN /\ \A i, j \in DOMAIN posted :
            i < j /\ ofKey(i) /\ ofKey(j) => posted[i].value <= posted[j].value
       /\ \A i \in DOMAIN posted : ofKey(i) =>
            \A e \in cached : posted[i].value <= e.result
       /\ \A c \in coming :
            /\ \A e \in cached : e.result <= read[c]
            /\ \A i \in DOMAIN posted : ofKey(i) => posted[i].value <= read[c]

\* A call is answered in the end, unless it or the cache goes away.
CallAnswered ==
  \A c \in Callers : (caller[c] = "pending") ~> (caller[c] # "pending" \/ ~alive)

=============================================================================
