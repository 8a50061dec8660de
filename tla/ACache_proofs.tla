---------------------------- MODULE ACache_proofs ----------------------------
(***************************************************************************)
(* For any number of calls and keys: each entry of the cache has its one   *)
(* request, each caller is answered once, and with data that moves forward *)
(* only.                                                                   *)
(***************************************************************************)
EXTENDS ACache, FiniteSetTheorems, SequenceTheorems, TLAPS

-----------------------------------------------------------------------------
(***************************************************************************)
(* The inductive invariant.                                                *)
(***************************************************************************)

\* The circumstances of the run.
Settled == ~OverlapAtPool /\ ~ClearInFlight

\* The query of a call is sent and its result has not come.
InQuery(c) == fetch[c] \in {"exec", "done"}

PostedTo(c) == \E i \in DOMAIN posted : posted[i].to = c

\* Calls that were not answered.
Open(c) == caller[c] \in {"pending", "gone"}

\* An entry without a result and the query that fills it come and go together; the
\* request that the pool holds has no entry yet.
Requests ==
  /\ \A c, d \in Callers :
       fetch[c] # "none" /\ fetch[d] # "none" /\ asked[c] = asked[d] => c = d
  /\ \A k \in Keys :
       /\ Len(cache[k]) <= 1
       /\ cache[k] # <<>> /\ cache[k][1].result = Pending
            <=> \E c \in Callers : InQuery(c) /\ asked[c] = k
  /\ \A c \in Callers :
       fetch[c] = "pool" => cache[asked[c]] = <<>> /\ Open(c) /\ ~PostedTo(c)

\* Receivers are moved out of an entry that gets its result.
Receivers ==
  \A k \in Keys : cache[k] # <<>> =>
    /\ IsInjective(cache[k][1].receivers)
    /\ cache[k][1].result # Pending => cache[k][1].receivers = <<>>

\* A callback is in one place.
OnePlace ==
  /\ \A k \in Keys, c \in Callers :
       Waiting(c, k) => asked[c] = k /\ Open(c) /\ ~PostedTo(c)
  /\ \A i \in DOMAIN posted : Open(posted[i].to)
  /\ \A i, j \in DOMAIN posted : posted[i].to = posted[j].to => i = j

\* Nothing is newer than the data.
NotAhead ==
  /\ \A k \in Keys : \A i \in DOMAIN cache[k] : cache[k][i].result <= version
  /\ \A c \in Callers : read[c] <= version
  /\ \A i \in DOMAIN posted : posted[i].value <= version

Answer(i, k) == asked[posted[i].to] = k /\ posted[i].value # Error

InOrder ==
  /\ \A i, j \in DOMAIN posted : \A k \in Keys :
       i < j /\ Answer(i, k) /\ Answer(j, k) => posted[i].value <= posted[j].value
  /\ \A i \in DOMAIN posted : \A k \in Keys : Answer(i, k) =>
       /\ cache[k] # <<>> /\ cache[k][1].result # Pending
            => posted[i].value <= cache[k][1].result
       /\ \A c \in Callers : fetch[c] = "done" /\ asked[c] = k /\ read[c] # Error
            => posted[i].value <= read[c]

IInv ==
  /\ TypeOK /\ Requests /\ Receivers /\ OnePlace /\ NotAhead /\ InOrder /\ NoLostCaller

-----------------------------------------------------------------------------
(***************************************************************************)
(* The elements at some positions of a sequence.                           *)
(***************************************************************************)

Rank(P, i) == Cardinality({j \in P : j <= i})

\* Ranks count the positions from one.
LEMMA RankBijective ==
  ASSUME NEW P \in SUBSET Nat, IsFiniteSet(P)
  PROVE  /\ Cardinality(P) \in Nat
         /\ \A i \in P : Rank(P, i) \in 1 .. Cardinality(P)
         /\ \A i, k \in P : i < k => Rank(P, i) < Rank(P, k)
         /\ \A n \in 1 .. Cardinality(P) : \E i \in P : Rank(P, i) = n
  <1> DEFINE upTo(i) == {j \in P : j <= i}
             n == Cardinality(P)
             f == [i \in P |-> Rank(P, i)]
  <1>1. n \in Nat
    BY FS_CardinalityType
  <1>2. \A i \in P : IsFiniteSet(upTo(i)) /\ Rank(P, i) \in Nat /\ Rank(P, i) <= n
    <2> SUFFICES ASSUME NEW i \in P
                 PROVE  IsFiniteSet(upTo(i)) /\ Rank(P, i) \in Nat /\ Rank(P, i) <= n
      OBVIOUS
    <2>1. upTo(i) \in SUBSET P
      OBVIOUS
    <2>2. IsFiniteSet(upTo(i)) /\ Cardinality(upTo(i)) <= n
      BY <2>1, FS_Subset
    <2> QED
      BY <2>2, FS_CardinalityType DEF Rank
  <1>3. \A i \in P : Rank(P, i) # 0
    <2> SUFFICES ASSUME NEW i \in P PROVE Rank(P, i) # 0
      OBVIOUS
    <2>1. i \in upTo(i)
      OBVIOUS
    <2> QED
      BY <1>2, <2>1, FS_EmptySet DEF Rank
  <1>4. ASSUME NEW i \in P, NEW k \in P, i < k PROVE Rank(P, i) < Rank(P, k)
    <2>1. upTo(i) \in SUBSET upTo(k)
      <3> SUFFICES ASSUME NEW j \in P, j <= i PROVE j <= k
        OBVIOUS
      <3>1. i \in Nat /\ j \in Nat /\ k \in Nat
        OBVIOUS
      <3> QED
        BY <1>4, <3>1
    <2>2. k \in upTo(k) /\ k \notin upTo(i)
      BY <1>4
    <2>3. Cardinality(upTo(i)) <= Cardinality(upTo(k))
          /\ Cardinality(upTo(k)) # Cardinality(upTo(i))
      BY <1>2, <2>1, <2>2, FS_Subset
    <2> QED
      BY <1>2, <2>3 DEF Rank
  <1>5. \A i \in P : Rank(P, i) \in 1 .. n
    <2> SUFFICES ASSUME NEW i \in P PROVE Rank(P, i) \in 1 .. n
      OBVIOUS
    <2>1. Rank(P, i) \in Nat /\ Rank(P, i) <= n /\ Rank(P, i) # 0
      BY <1>2, <1>3
    <2> HIDE DEF n
    <2> QED
      BY <1>1, <2>1
  <1>6. f \in Injection(P, 1 .. n)
    <2>1. f \in [P -> 1 .. n]
      BY <1>5
    <2>2. \A i, k \in P : f[i] = f[k] => i = k
      <3> SUFFICES ASSUME NEW i \in P, NEW k \in P, f[i] = f[k], i # k PROVE FALSE
        OBVIOUS
      <3>1. i < k \/ k < i
        OBVIOUS
      <3>2. Rank(P, i) = Rank(P, k)
        OBVIOUS
      <3>3. Rank(P, i) \in Nat /\ Rank(P, k) \in Nat
        BY <1>2
      <3>4. Rank(P, i) < Rank(P, k) \/ Rank(P, k) < Rank(P, i)
        BY <1>4, <3>1
      <3> QED
        BY <3>2, <3>3, <3>4
    <2> QED
      BY <2>1, <2>2 DEF Injection, IsInjective
  <1>7. IsFiniteSet(1 .. n) /\ Cardinality(1 .. n) = n
    BY <1>1, FS_Interval
  <1>8. f \in Surjection(P, 1 .. n)
    BY <1>6, <1>7, FS_Injection
  <1>9. \A m \in 1 .. n : \E i \in P : Rank(P, i) = m
    BY <1>8 DEF Surjection
  <1> QED
    BY <1>1, <1>4, <1>5, <1>9

\* ElementsAt is a sequence of the elements at the positions, each once.
LEMMA ElementsAtProperties ==
  ASSUME NEW S, NEW s \in Seq(S), NEW P \in SUBSET DOMAIN s
  PROVE  /\ ElementsAt(s, P) \in Seq(S)
         /\ Len(ElementsAt(s, P)) = Cardinality(P)
         /\ IsFiniteSet(P) /\ Cardinality(P) \in Nat
         /\ \A n \in 1 .. Cardinality(P) : \E i \in P : ElementsAt(s, P)[n] = s[i]
         /\ \A i \in P : \E n \in 1 .. Cardinality(P) : ElementsAt(s, P)[n] = s[i]
         /\ IsInjective(s) => IsInjective(ElementsAt(s, P))
  <1> DEFINE N == Cardinality(P)
             at(n) == CHOOSE i \in P : Rank(P, i) = n
             r == ElementsAt(s, P)
  <1>1. DOMAIN s = 1 .. Len(s) /\ Len(s) \in Nat /\ P \in SUBSET Nat /\ IsFiniteSet(P)
    <2>1. DOMAIN s = 1 .. Len(s) /\ Len(s) \in Nat
      BY LenProperties
    <2>2. IsFiniteSet(1 .. Len(s))
      BY <2>1, FS_Interval
    <2> QED
      BY <2>1, <2>2, FS_Subset
  <1>2. /\ N \in Nat
        /\ \A i \in P : Rank(P, i) \in 1 .. N
        /\ \A i, k \in P : i < k => Rank(P, i) < Rank(P, k)
        /\ \A n \in 1 .. N : \E i \in P : Rank(P, i) = n
    BY <1>1, RankBijective
  <1>3. \A n \in 1 .. N : at(n) \in P /\ Rank(P, at(n)) = n
    BY <1>2
  <1>4. r = [n \in 1 .. N |-> s[at(n)]]
    BY DEF ElementsAt, Rank
  <1>5. \A i, k \in P : Rank(P, i) = Rank(P, k) => i = k
    <2> SUFFICES ASSUME NEW i \in P, NEW k \in P, Rank(P, i) = Rank(P, k), i # k PROVE FALSE
      OBVIOUS
    <2>1. i < k \/ k < i
      BY <1>1
    <2> QED
      BY <1>2, <2>1
  <1>6. \A i \in DOMAIN s : s[i] \in S
    BY <1>1, ElementOfSeq
  <1> HIDE DEF at, r, N
  <1>7. r \in Seq(S) /\ Len(r) = N /\ DOMAIN r = 1 .. N
    <2>1. r \in [1 .. N -> S]
      BY <1>3, <1>4, <1>6
    <2>2. r \in Seq(S)
      BY <1>2, <2>1, SeqDef
    <2> QED
      BY <1>2, <2>1, <2>2, LenProperties
  <1>8. \A i \in P : \E n \in 1 .. N : r[n] = s[i]
    <2> SUFFICES ASSUME NEW i \in P PROVE r[Rank(P, i)] = s[i] /\ Rank(P, i) \in 1 .. N
      OBVIOUS
    <2>1. at(Rank(P, i)) = i
      BY <1>2, <1>3, <1>5
    <2> QED
      BY <1>2, <1>4, <2>1
  <1>9. ASSUME IsInjective(s) PROVE IsInjective(r)
    <2> SUFFICES ASSUME NEW a \in 1 .. N, NEW b \in 1 .. N, r[a] = r[b] PROVE a = b
      BY <1>7 DEF IsInjective
    <2>1. s[at(a)] = s[at(b)] /\ at(a) \in DOMAIN s /\ at(b) \in DOMAIN s
      BY <1>3, <1>4
    <2>2. at(a) = at(b)
      BY <1>9, <2>1 DEF IsInjective
    <2> QED
      BY <1>3, <2>2
  <1> QED
    BY <1>1, <1>2, <1>3, <1>4, <1>7, <1>8, <1>9 DEF r, N

-----------------------------------------------------------------------------
(***************************************************************************)
(* What a step adds to the queued invocations.                             *)
(***************************************************************************)

Events == [to : Callers, value : Result]

\* The calls of R are told v, each once, after what is queued.
Tells(R, v) ==
  /\ posted' \in Seq(Events)
  /\ Len(posted) <= Len(posted')
  /\ \A i \in DOMAIN posted : posted'[i] = posted[i]
  /\ \A i \in DOMAIN posted' :
       i \in DOMAIN posted \/ (posted'[i].to \in R /\ posted'[i].value = v)
  /\ \A c \in R : \E i \in DOMAIN posted' : i \notin DOMAIN posted /\ posted'[i].to = c
  /\ \A i, j \in DOMAIN posted' \ DOMAIN posted : posted'[i].to = posted'[j].to => i = j

LEMMA TellsConcat ==
  ASSUME TypeOK, NEW rs \in Seq(Callers), IsInjective(rs), NEW v \in Result,
         posted' = posted \o [i \in DOMAIN rs |-> Event(rs[i], v)]
  PROVE  Tells(Range(rs), v)
  <1> DEFINE new == [i \in DOMAIN rs |-> Event(rs[i], v)]
             n == Len(posted)
  <1>1. posted \in Seq(Events) /\ n \in Nat /\ DOMAIN posted = 1 .. n
    BY LenProperties DEF TypeOK, Events
  <1>2. /\ Len(rs) \in Nat /\ DOMAIN rs = 1 .. Len(rs)
        /\ \A i \in DOMAIN rs : rs[i] \in Callers
    BY LenProperties, ElementOfSeq
  <1>3. new \in Seq(Events) /\ Len(new) = Len(rs)
    <2>1. new \in [1 .. Len(rs) -> Events]
      BY <1>2 DEF Event, Events
    <2>2. new \in Seq(Events)
      BY <1>2, <2>1, SeqDef
    <2> QED
      BY <1>2, <2>1, <2>2, LenProperties
  <1>4. \A i \in DOMAIN rs : new[i].to = rs[i] /\ new[i].value = v
    BY DEF Event
  <1>5a. posted' = posted \o new
    OBVIOUS
  <1> HIDE DEF new
  <1>5. /\ posted' \in Seq(Events) /\ Len(posted') = n + Len(rs)
        /\ \A i \in 1 .. n + Len(rs) : posted'[i] = IF i <= n THEN posted[i] ELSE new[i - n]
    <2>1. /\ posted \o new \in Seq(Events) /\ Len(posted \o new) = Len(posted) + Len(new)
          /\ \A i \in 1 .. Len(posted) + Len(new) :
               (posted \o new)[i] = IF i <= Len(posted) THEN posted[i] ELSE new[i - Len(posted)]
      BY <1>1, <1>3, ConcatProperties
    <2> QED
      BY <1>3, <1>5a, <2>1
  <1> HIDE DEF n
  <1>6. DOMAIN posted' = 1 .. n + Len(rs)
    BY <1>5, LenProperties
  <1>7. \A i \in DOMAIN posted : posted'[i] = posted[i]
    BY <1>1, <1>2, <1>5
  <1>8. \A i \in DOMAIN posted' \ DOMAIN posted :
          i - n \in DOMAIN rs /\ posted'[i].to = rs[i - n] /\ posted'[i].value = v
    <2> SUFFICES ASSUME NEW i \in DOMAIN posted' \ DOMAIN posted
                 PROVE  i - n \in DOMAIN rs /\ posted'[i] = new[i - n]
      BY <1>4
    <2>1. i \in 1 .. n + Len(rs) /\ ~(i <= n) /\ i - n \in 1 .. Len(rs)
      BY <1>1, <1>2, <1>6
    <2>2. posted'[i] = new[i - n]
      BY <1>5, <2>1
    <2> QED
      BY <1>2, <2>1, <2>2
  <1>9. \A c \in Range(rs) : \E i \in DOMAIN posted' : i \notin DOMAIN posted /\ posted'[i].to = c
    <2> SUFFICES ASSUME NEW k \in DOMAIN rs
                 PROVE  n + k \in DOMAIN posted' \ DOMAIN posted /\ posted'[n + k].to = rs[k]
      BY DEF Range
    <2>1. n + k \in DOMAIN posted' \ DOMAIN posted /\ (n + k) - n = k
      BY <1>1, <1>2, <1>6
    <2> QED
      BY <1>8, <2>1
  <1>10. \A i, j \in DOMAIN posted' \ DOMAIN posted : posted'[i].to = posted'[j].to => i = j
    <2> SUFFICES ASSUME NEW i \in DOMAIN posted' \ DOMAIN posted,
                        NEW j \in DOMAIN posted' \ DOMAIN posted, posted'[i].to = posted'[j].to
                 PROVE  i = j
      OBVIOUS
    <2>1. i - n = j - n
      BY <1>8 DEF IsInjective
    <2> QED
      BY <1>1, <1>2, <1>6, <2>1
  <1>11. \A i \in DOMAIN posted' :
           i \in DOMAIN posted \/ (posted'[i].to \in Range(rs) /\ posted'[i].value = v)
    BY <1>8 DEF Range
  <1>12. n <= Len(posted')
    BY <1>1, <1>2, <1>5
  <1> QED
    BY <1>5, <1>7, <1>9, <1>10, <1>11, <1>12 DEF Tells, n

LEMMA TellsScheduled ==
  ASSUME TypeOK, NEW rs \in Seq(Callers), IsInjective(rs), NEW v \in Result,
         schedule(rs, v)
  PROVE  Tells({c \in Range(rs) : caller[c] # "gone"}, v)
  <1> DEFINE P == {i \in DOMAIN rs : caller[rs[i]] # "gone"}
             told == Interested(rs)
  <1>1. /\ told \in Seq(Callers) /\ Len(told) = Cardinality(P) /\ IsInjective(told)
        /\ \A n \in 1 .. Cardinality(P) : \E i \in P : told[n] = rs[i]
        /\ \A i \in P : \E n \in 1 .. Cardinality(P) : told[n] = rs[i]
    <2>1. told = ElementsAt(rs, P)
      BY DEF Interested
    <2>2. P \in SUBSET DOMAIN rs
      OBVIOUS
    <2> HIDE DEF told, P
    <2> QED
      BY <2>1, <2>2, ElementsAtProperties
  <1>2. DOMAIN told = 1 .. Cardinality(P)
    BY <1>1, LenProperties
  <1>3. posted' = posted \o [i \in DOMAIN told |-> Event(told[i], v)]
    BY DEF schedule
  <1>3a. \A c : (\E i \in P : c = rs[i]) <=> c \in Range(rs) /\ caller[c] # "gone"
    BY DEF Range
  <1> HIDE DEF told, P
  <1>4. Range(told) = {c \in Range(rs) : caller[c] # "gone"}
    <2>1. \A c : c \in Range(told) <=> \E i \in P : c = rs[i]
      <3>1. ASSUME NEW n \in DOMAIN told PROVE \E i \in P : told[n] = rs[i]
        BY <1>1, <1>2
      <3>2. ASSUME NEW i \in P PROVE \E n \in DOMAIN told : told[n] = rs[i]
        BY <1>1, <1>2
      <3> QED
        BY <3>1, <3>2 DEF Range
    <2> QED
      BY <1>3a, <2>1
  <1>5. Tells(Range(told), v)
    BY <1>1, <1>3, TellsConcat
  <1> QED
    BY <1>4, <1>5

LEMMA TellsItself ==
  ASSUME TypeOK, NEW c \in Callers, NEW v \in Result, schedule(<<c>>, v)
  PROVE  Tells({d \in {c} : caller[d] # "gone"}, v)
  <1>1. /\ <<c>> \in Seq(Callers) /\ IsInjective(<<c>>) /\ Range(<<c>>) = {c}
    BY DEF IsInjective, Range
  <1> QED
    BY <1>1, TellsScheduled

LEMMA TellsOne ==
  ASSUME TypeOK, NEW c \in Callers, NEW v \in Result,
         posted' = Append(posted, Event(c, v))
  PROVE  Tells({c}, v)
  <1> DEFINE rs == <<c>>
  <1>1. rs \in Seq(Callers) /\ IsInjective(rs) /\ Range(rs) = {c}
    BY DEF IsInjective, Range
  <1>2. [i \in DOMAIN rs |-> Event(rs[i], v)] = <<Event(c, v)>>
    OBVIOUS
  <1>3. posted \in Seq(Events) /\ Event(c, v) \in Events
    BY DEF TypeOK, Events, Event
  <1>4. posted' = posted \o [i \in DOMAIN rs |-> Event(rs[i], v)]
    BY <1>2, <1>3, AppendIsConcat
  <1> HIDE DEF rs
  <1> QED
    BY <1>1, <1>4, TellsConcat

LEMMA TellsNobody ==
  ASSUME TypeOK, UNCHANGED posted
  PROVE  Tells({}, Error)
  BY LenProperties DEF Tells, TypeOK, Events

\* What the invariant says of the queued invocations, after a step that tells v to the
\* calls R of the key K.
QueueAfter(R, v, K) ==
  /\ posted' \in Seq(Events)
  /\ \A c : PostedTo(c)' <=> PostedTo(c) \/ c \in R
  /\ \A i \in DOMAIN posted' : Open(posted[i].to)' /\ posted'[i].value <= version'
  /\ \A i, j \in DOMAIN posted' : posted'[i].to = posted'[j].to => i = j
  /\ \A i, j \in DOMAIN posted' : \A k \in Keys :
       i < j /\ Answer(i, k)' /\ Answer(j, k)' => posted'[i].value <= posted'[j].value
  /\ \A i \in DOMAIN posted' : \A k \in Keys : Answer(i, k)' =>
       \/ i \in DOMAIN posted /\ posted'[i] = posted[i] /\ Answer(i, k)
       \/ k = K /\ v # Error /\ posted'[i].value = v

LEMMA Told ==
  ASSUME IInv, NEW R \in SUBSET Callers, NEW v \in Result, NEW K \in Keys, Tells(R, v),
         asked' \in [Callers -> Keys],
         \A c \in R : ~PostedTo(c) /\ Open(c)' /\ asked'[c] = K,
         \A c \in Callers : PostedTo(c) => Open(c)' /\ asked'[c] = asked[c],
         version' \in Nat, version <= version', v <= version',
         v # Error => \A i \in DOMAIN posted : Answer(i, K) => posted[i].value <= v
  PROVE  QueueAfter(R, v, K)
  <1>1. /\ posted \in Seq(Events) /\ Len(posted) \in Nat /\ DOMAIN posted = 1 .. Len(posted)
        /\ version \in Nat
    BY LenProperties DEF IInv, TypeOK, Events
  <1>2. /\ posted' \in Seq(Events) /\ Len(posted') \in Nat /\ DOMAIN posted' = 1 .. Len(posted')
        /\ Len(posted) <= Len(posted')
    BY LenProperties DEF Tells
  <1>3. \A i \in DOMAIN posted : i \in DOMAIN posted' /\ posted'[i] = posted[i]
    BY <1>1, <1>2 DEF Tells
  <1>4. \A i \in DOMAIN posted' \ DOMAIN posted :
          posted'[i].to \in R /\ posted'[i].value = v
    BY DEF Tells
  <1>5. \A i \in DOMAIN posted' \ DOMAIN posted, j \in DOMAIN posted : j < i
    BY <1>1, <1>2
  <1>6. \A i \in DOMAIN posted : posted[i].to \in Callers /\ posted[i].value \in Int
    <2>1. \A i \in DOMAIN posted : posted[i] \in Events
      BY <1>1, ElementOfSeq
    <2> QED
      BY <2>1, ConstantsAssumption DEF Events, Result, Error
  <1>7. v \in Int
    BY ConstantsAssumption DEF Result, Error
  <1>8. \A c : PostedTo(c)' <=> PostedTo(c) \/ c \in R
    <2>1. ASSUME NEW c, PostedTo(c)' PROVE PostedTo(c) \/ c \in R
      BY <1>3, <1>4, <2>1 DEF PostedTo
    <2>2. ASSUME NEW c, PostedTo(c) PROVE PostedTo(c)'
      BY <1>3, <2>2 DEF PostedTo
    <2>3. ASSUME NEW c \in R PROVE PostedTo(c)'
      BY DEF Tells, PostedTo
    <2> QED
      BY <2>1, <2>2, <2>3
  <1>9. \A i \in DOMAIN posted' : Open(posted[i].to)' /\ posted'[i].value <= version'
    <2> SUFFICES ASSUME NEW i \in DOMAIN posted'
                 PROVE  Open(posted[i].to)' /\ posted'[i].value <= version'
      OBVIOUS
    <2>1. CASE i \in DOMAIN posted
      <3>1. PostedTo(posted[i].to) /\ posted[i].to \in Callers
        BY <1>6, <2>1 DEF PostedTo
      <3>2. posted[i].value <= version
        BY <2>1 DEF IInv, NotAhead
      <3>3. posted'[i].value \in Int /\ posted'[i].value <= version
        BY <1>3, <1>6, <2>1, <3>2
      <3>4. posted'[i].value <= version'
        BY <1>1, <3>3
      <3> QED
        BY <1>3, <2>1, <3>1, <3>4 DEF Open
    <2>2. CASE i \notin DOMAIN posted
      BY <1>4, <2>2 DEF Open
    <2> QED
      BY <2>1, <2>2
  <1>10. ASSUME NEW i \in DOMAIN posted', NEW j \in DOMAIN posted', posted'[i].to = posted'[j].to
         PROVE  i = j
    <2>1. CASE i \in DOMAIN posted /\ j \in DOMAIN posted
      BY <1>3, <1>10, <2>1 DEF IInv, OnePlace
    <2>2. CASE i \in DOMAIN posted /\ j \notin DOMAIN posted
      BY <1>3, <1>4, <1>10, <2>2 DEF PostedTo
    <2>3. CASE i \notin DOMAIN posted /\ j \in DOMAIN posted
      BY <1>3, <1>4, <1>10, <2>3 DEF PostedTo
    <2>4. CASE i \notin DOMAIN posted /\ j \notin DOMAIN posted
      BY <1>10, <2>4 DEF Tells
    <2> QED
      BY <2>1, <2>2, <2>3, <2>4
  <1>11. ASSUME NEW i \in DOMAIN posted', NEW k \in Keys, Answer(i, k)'
         PROVE  \/ i \in DOMAIN posted /\ posted'[i] = posted[i] /\ Answer(i, k)
                \/ i \notin DOMAIN posted /\ k = K /\ v # Error /\ posted'[i].value = v
    <2>1. CASE i \in DOMAIN posted
      <3>1. PostedTo(posted[i].to) /\ posted[i].to \in Callers
        BY <1>6, <2>1 DEF PostedTo
      <3> QED
        BY <1>3, <1>11, <2>1, <3>1 DEF Answer
    <2>2. CASE i \notin DOMAIN posted
      BY <1>4, <1>11, <2>2 DEF Answer
    <2> QED
      BY <2>1, <2>2
  <1>12. ASSUME NEW i \in DOMAIN posted', NEW j \in DOMAIN posted', NEW k \in Keys,
                i < j, Answer(i, k)', Answer(j, k)'
         PROVE  posted'[i].value <= posted'[j].value
    <2>1. CASE i \in DOMAIN posted /\ j \in DOMAIN posted
      <3>1. posted'[i] = posted[i] /\ posted'[j] = posted[j] /\ Answer(i, k) /\ Answer(j, k)
        BY <1>11, <1>12, <2>1
      <3> QED
        BY <1>12, <2>1, <3>1 DEF IInv, InOrder
    <2>2. CASE i \in DOMAIN posted /\ j \notin DOMAIN posted
      <3>1. posted'[i] = posted[i] /\ Answer(i, k) /\ k = K /\ v # Error /\ posted'[j].value = v
        BY <1>11, <1>12, <2>2
      <3> QED
        BY <2>2, <3>1
    <2>3. CASE i \notin DOMAIN posted /\ j \in DOMAIN posted
      BY <1>1, <1>2, <1>5, <1>12, <2>3
    <2>4. CASE i \notin DOMAIN posted /\ j \notin DOMAIN posted
      BY <1>4, <1>7, <2>4
    <2> QED
      BY <2>1, <2>2, <2>3, <2>4
  <1> QED
    BY <1>2, <1>8, <1>9, <1>10, <1>11, <1>12 DEF QueueAfter

-----------------------------------------------------------------------------
(***************************************************************************)
(* Entries.                                                                *)
(***************************************************************************)

LEMMA Single ==
  ASSUME NEW S, NEW s \in Seq(S), Len(s) <= 1, s # <<>>
  PROVE  Len(s) = 1 /\ DOMAIN s = {1} /\ s[1] \in S /\ Head(s) = s[1] /\ Tail(s) = <<>>
  <1>1. Len(s) \in Nat /\ DOMAIN s = 1 .. Len(s) /\ Len(s) # 0
    BY LenProperties, EmptySeq
  <1>2. Len(s) = 1
    BY <1>1
  <1>3. DOMAIN s = {1}
    BY <1>1, <1>2
  <1>4. Tail(s) \in Seq(S) /\ Len(Tail(s)) = 0
    BY <1>2, HeadTailProperties
  <1> QED
    BY <1>2, <1>3, <1>4, ElementOfSeq, EmptySeq

\* What the steps use of the types.
LEMMA Types ==
  ASSUME IInv
  PROVE  /\ \A k \in Keys :
              /\ cache[k] \in Seq(Entry)
              /\ cache[k] # <<>> =>
                   /\ Len(cache[k]) = 1 /\ DOMAIN cache[k] = {1} /\ cache[k][1] \in Entry
                   /\ Head(cache[k]) = cache[k][1] /\ Tail(cache[k]) = <<>>
                   /\ cache[k][1].receivers \in Seq(Callers)
                   /\ Range(cache[k][1].receivers) \subseteq Callers
                   /\ cache[k][1].result \in {Pending} \cup (0..MaxVersion)
                   /\ cache[k][1].result <= version
         /\ \A i \in DOMAIN posted :
              /\ posted[i].to \in Callers /\ posted[i].value \in Result
              /\ PostedTo(posted[i].to)
         /\ \A k \in Keys : \A c :
              Waiting(c, k) <=> cache[k] # <<>> /\ c \in Range(cache[k][1].receivers)
         /\ version \in Nat /\ version \in 0..MaxVersion /\ {Error, Pending} \subseteq Int
         /\ Pending # Error /\ Pending \notin Nat /\ Error \notin Nat
         /\ Error \in Result /\ Error <= version
  <1>1. \A k \in Keys : cache[k] \in Seq(Entry) /\ Len(cache[k]) <= 1
    BY DEF IInv, TypeOK, Requests
  <1>2. version \in Nat /\ version \in 0..MaxVersion
    BY ConstantsAssumption DEF IInv, TypeOK
  <1>3. \A e \in Entry : /\ e.receivers \in Seq(Callers)
                         /\ e.result \in {Pending} \cup (0..MaxVersion)
    BY DEF Entry
  <1>4. ASSUME NEW k \in Keys, cache[k] # <<>>
        PROVE  /\ Len(cache[k]) = 1 /\ DOMAIN cache[k] = {1} /\ cache[k][1] \in Entry
               /\ Head(cache[k]) = cache[k][1] /\ Tail(cache[k]) = <<>>
    BY <1>1, <1>4, Single
  <1>5. ASSUME NEW k \in Keys, cache[k] # <<>>
        PROVE  cache[k][1].result <= version
    BY <1>4, <1>5 DEF IInv, NotAhead
  <1>6. \A e \in Entry : Range(e.receivers) \subseteq Callers
    BY <1>3, ElementOfSeq, LenProperties DEF Range
  <1>7. ASSUME NEW k \in Keys, NEW c
        PROVE  Waiting(c, k) <=> cache[k] # <<>> /\ c \in Range(cache[k][1].receivers)
    <2>1. CASE cache[k] = <<>>
      BY <2>1 DEF Waiting
    <2>2. CASE cache[k] # <<>>
      BY <1>4, <2>2 DEF Waiting, Range
    <2> QED
      BY <2>1, <2>2
  <1>8. \A i \in DOMAIN posted : /\ posted[i].to \in Callers /\ posted[i].value \in Result
                                 /\ PostedTo(posted[i].to)
    <2>1. posted \in Seq([to : Callers, value : Result])
      BY DEF IInv, TypeOK
    <2>2. \A i \in DOMAIN posted : posted[i] \in [to : Callers, value : Result]
      BY <2>1, ElementOfSeq, LenProperties
    <2> QED
      BY <2>2 DEF PostedTo
  <1> QED
    BY <1>1, <1>2, <1>3, <1>4, <1>5, <1>6, <1>7, <1>8 DEF Error, Pending, Result

LEMMA WaitingNext ==
  ASSUME NEW k, cache'[k] \in Seq(Entry), Len(cache'[k]) <= 1
  PROVE  \A c : Waiting(c, k)' <=> cache'[k] # <<>> /\ c \in Range(cache'[k][1].receivers)
  <1>1. CASE cache'[k] = <<>>
    BY <1>1 DEF Waiting
  <1>2. CASE cache'[k] # <<>>
    <2>1. DOMAIN cache'[k] = {1}
      BY <1>2, Single
    <2> QED
      BY <1>2, <2>1 DEF Waiting, Range
  <1> QED
    BY <1>1, <1>2

-----------------------------------------------------------------------------
(***************************************************************************)
(* A request starts, for a new call or with the answer of the pool.        *)
(***************************************************************************)

\* The call c asks for k and is nowhere; the key has no entry that waits and no request.
Starting(c, k, entries) ==
  /\ entries \in [Keys -> Seq(Entry)] /\ entries[k] = <<>>
  /\ \A j \in Keys : j # k => entries[j] = cache[j]
  /\ caller' \in [Callers -> {"none", "pending", "answered", "gone"}]
  /\ asked' \in [Callers -> Keys]
  /\ asked'[c] = k /\ Open(c)'
  /\ caller'[c] = "pending" => caller[c] # "gone"
  /\ \A d \in Callers : d # c => caller'[d] = caller[d] /\ asked'[d] = asked[d]
  /\ ~InQuery(c) /\ ~PostedTo(c) /\ \A j \in Keys : ~Waiting(c, j)
  /\ \A d \in Callers : ~Waiting(d, k)
  /\ \A d \in Callers : fetch[d] # "none" /\ asked[d] = k => d = c
  /\ UNCHANGED <<alive, dbSource, read, version>>

LEMMA ToldStarting ==
  ASSUME IInv, NEW c \in Callers, NEW k \in Keys, NEW entries, Starting(c, k, entries),
         NEW R \in SUBSET {c}, Tells(R, Error)
  PROVE  QueueAfter(R, Error, k)
  <1>1. \A d \in Callers : PostedTo(d) => Open(d)' /\ asked'[d] = asked[d]
    <2> SUFFICES ASSUME NEW d \in Callers, PostedTo(d)
                 PROVE  Open(d)' /\ asked'[d] = asked[d]
      OBVIOUS
    <2>1. d # c /\ Open(d)
      BY DEF Starting, IInv, OnePlace, PostedTo
    <2> QED
      BY <2>1 DEF Starting, Open
  <1>2. asked' \in [Callers -> Keys] /\ version' = version
        /\ \A d \in R : ~PostedTo(d) /\ Open(d)' /\ asked'[d] = k
    BY DEF Starting
  <1>3. version' \in Nat /\ version <= version' /\ Error <= version' /\ Error \in Result
    BY <1>2, Types
  <1>4. R \in SUBSET Callers /\ Error = Error
    OBVIOUS
  <1> QED
    BY <1>1, <1>2, <1>3, <1>4, Told

\* Keys and calls that the request is not about.
LEMMA OtherEntries ==
  ASSUME IInv, NEW c \in Callers, NEW k \in Keys, NEW entries, Starting(c, k, entries),
         NEW j \in Keys, j # k, cache'[j] = entries[j]
  PROVE  /\ cache'[j] = cache[j] /\ Len(cache'[j]) <= 1
         /\ \A d : Waiting(d, j)' <=> Waiting(d, j)
         /\ \A d \in Callers : Waiting(d, j) => d # c
  <1>1. cache'[j] = cache[j]
    BY DEF Starting
  <1> QED
    BY <1>1 DEF Starting, IInv, Requests, Waiting

LEMMA AppendFresh ==
  ASSUME NEW S, NEW s \in Seq(S), NEW c \in S, c \notin Range(s), IsInjective(s)
  PROVE  /\ Append(s, c) \in Seq(S) /\ Range(Append(s, c)) = Range(s) \cup {c}
         /\ IsInjective(Append(s, c))
  <1> DEFINE t == Append(s, c)
  <1>1. /\ t \in Seq(S) /\ Len(t) = Len(s) + 1 /\ t[Len(s) + 1] = c
        /\ \A i \in 1 .. Len(s) : t[i] = s[i]
    BY AppendProperties
  <1> HIDE DEF t
  <1>2. Len(s) \in Nat /\ DOMAIN s = 1 .. Len(s) /\ DOMAIN t = 1 .. Len(s) + 1
    BY <1>1, LenProperties
  <1>3. \A i \in DOMAIN t : (i \in DOMAIN s /\ t[i] = s[i]) \/ (i = Len(s) + 1 /\ t[i] = c)
    BY <1>1, <1>2
  <1>4. DOMAIN s \subseteq DOMAIN t /\ Len(s) + 1 \in DOMAIN t
    BY <1>2
  <1>5. Range(t) = Range(s) \cup {c}
    BY <1>1, <1>2, <1>3, <1>4 DEF Range
  <1>6. \A i \in DOMAIN s : s[i] # c
    BY DEF Range
  <1>7. IsInjective(t)
    BY <1>3, <1>6 DEF IsInjective
  <1> QED
    BY <1>1, <1>5, <1>7 DEF t

\* The three ways: refused, at the pool, and sent with an entry that waits for it.
LEMMA StartedStep ==
  ASSUME IInv, NEW c \in Callers, NEW k \in Keys, NEW entries, Starting(c, k, entries),
         NEW f \in {"none", "pool", "exec"}, fetch' = [fetch EXCEPT ![c] = f],
         NEW R \in SUBSET {c}, Tells(R, Error), f # "none" => R = {},
         f = "none" /\ caller[c] # "gone" => c \in R,
         cache' \in [Keys -> Seq(Entry)], \A j \in Keys : j # k => cache'[j] = entries[j],
         f = "exec" =>
           cache'[k] = <<[receivers |-> <<c>>, result |-> Pending, old |-> FALSE]>>,
         f # "exec" => cache'[k] = <<>>
  PROVE  IInv'
  <1>1. QueueAfter(R, Error, k)
    BY ToldStarting
  <1>2. TypeOK'
    BY <1>1 DEF TypeOK, IInv, Starting, Events, QueueAfter
  <1>3. \A j \in Keys \ {k} : /\ cache'[j] = cache[j] /\ Len(cache'[j]) <= 1
                              /\ \A d : Waiting(d, j)' <=> Waiting(d, j)
    BY OtherEntries
  <1>4. /\ Len(cache'[k]) <= 1 /\ (cache'[k] # <<>> <=> f = "exec")
        /\ f = "exec" => /\ cache'[k][1].result = Pending /\ DOMAIN cache'[k] = {1}
                         /\ IsInjective(cache'[k][1].receivers)
                         /\ Range(cache'[k][1].receivers) = {c}
    <2>1. CASE f = "exec"
      <3>1. IsInjective(<<c>>) /\ Range(<<c>>) = {c}
        BY DEF IsInjective, Range
      <3>2. PICK e : e = [receivers |-> <<c>>, result |-> Pending, old |-> FALSE]
        OBVIOUS
      <3>3. e.receivers = <<c>> /\ e.result = Pending
        BY <3>2
      <3>4. cache'[k] = <<e>>
        BY <2>1, <3>2
      <3>5. /\ Len(cache'[k]) = 1 /\ cache'[k] # <<>> /\ cache'[k][1] = e
            /\ DOMAIN cache'[k] = {1}
        BY <3>4
      <3> QED
        BY <2>1, <3>1, <3>3, <3>5
    <2>2. CASE f # "exec"
      BY <2>2
    <2> QED
      BY <2>1, <2>2
  <1>5. \A d : Waiting(d, k)' <=> f = "exec" /\ d = c
    <2>1. cache'[k] \in Seq(Entry)
      OBVIOUS
    <2> QED
      BY <1>4, <2>1, WaitingNext
  <1>6. /\ fetch'[c] = f /\ asked'[c] = k /\ Open(c)' /\ ~InQuery(c)
        /\ \A d \in Callers \ {c} : /\ fetch'[d] = fetch[d] /\ (InQuery(d)' <=> InQuery(d))
                                    /\ asked'[d] = asked[d] /\ caller'[d] = caller[d]
                                    /\ (Open(d)' <=> Open(d)) /\ (PostedTo(d)' <=> PostedTo(d))
                                    /\ (fetch[d] # "none" => asked[d] # k)
    BY <1>1 DEF IInv, TypeOK, Starting, InQuery, Open, QueueAfter
  <1>7. Requests'
    <2>1. ASSUME NEW j \in Keys
          PROVE  /\ Len(cache'[j]) <= 1
                 /\ cache'[j] # <<>> /\ cache'[j][1].result = Pending
                      <=> \E d \in Callers : InQuery(d)' /\ asked'[d] = j
      <3>1. CASE j = k
        <4>1. f = "exec" <=> InQuery(c)'
          BY <1>6 DEF InQuery
        <4>2. \A d \in Callers : InQuery(d)' /\ asked'[d] = j => d = c
          BY <1>6, <3>1 DEF InQuery
        <4> QED
          BY <1>4, <1>6, <3>1, <4>1, <4>2
      <3>2. CASE j # k
        <4>1. \A d \in Callers : InQuery(d)' /\ asked'[d] = j <=> InQuery(d) /\ asked[d] = j
          BY <1>6, <3>2
        <4> QED
          BY <1>3, <3>2, <4>1 DEF IInv, Requests
      <3> QED
        BY <3>1, <3>2
    <2>2. ASSUME NEW d \in Callers, fetch'[d] = "pool"
          PROVE  cache'[asked'[d]] = <<>> /\ Open(d)' /\ ~PostedTo(d)'
      <3>1. CASE d = c
        BY <1>1, <1>4, <1>6, <2>2, <3>1 DEF Starting, QueueAfter
      <3>2. CASE d # c
        <4>1. fetch[d] = "pool" /\ asked'[d] = asked[d] /\ asked[d] \in Keys \ {k}
          BY <1>6, <2>2, <3>2 DEF IInv, TypeOK
        <4> QED
          BY <1>3, <1>6, <3>2, <4>1 DEF IInv, Requests
      <3> QED
        BY <3>1, <3>2
    <2>3. ASSUME NEW d \in Callers, NEW e \in Callers, fetch'[d] # "none", fetch'[e] # "none",
                 asked'[d] = asked'[e]
          PROVE  d = e
      BY <1>6, <2>3 DEF IInv, Requests
    <2> QED
      BY <2>1, <2>2, <2>3 DEF Requests, InQuery
  <1>8. Receivers'
    BY <1>3, <1>4 DEF IInv, Receivers
  <1>9. OnePlace'
    <2>1. ASSUME NEW j \in Keys, NEW d \in Callers, Waiting(d, j)'
          PROVE  asked'[d] = j /\ Open(d)' /\ ~PostedTo(d)'
      <3>1. CASE j = k
        BY <1>1, <1>5, <1>6, <2>1, <3>1 DEF Starting, QueueAfter
      <3>2. CASE j # k
        <4>1. Waiting(d, j) /\ d # c
          BY <1>3, <2>1, <3>2 DEF Starting
        <4> QED
          BY <1>6, <4>1 DEF IInv, OnePlace
      <3> QED
        BY <3>1, <3>2
    <2> QED
      BY <1>1, <2>1 DEF OnePlace, Open, QueueAfter
  <1>10. NotAhead'
    <2>1. version' = version /\ read' = read
      BY DEF Starting
    <2>2. \A j \in Keys : \A i \in DOMAIN cache'[j] : cache'[j][i].result <= version'
      <3> SUFFICES ASSUME NEW j \in Keys, NEW i \in DOMAIN cache'[j]
                   PROVE  cache'[j][i].result <= version
        BY <2>1
      <3>1. CASE j = k
        <4>1. i = 1 /\ cache'[j][1].result = Pending
          BY <1>4, <3>1
        <4>2. Pending <= version
          BY Types DEF Pending
        <4> QED
          BY <4>1, <4>2
      <3>2. CASE j # k
        BY <1>3, <3>2 DEF IInv, NotAhead
      <3> QED
        BY <3>1, <3>2
    <2> QED
      BY <1>1, <2>1, <2>2 DEF IInv, NotAhead, QueueAfter
  <1>11. InOrder'
    <2>1. ASSUME NEW i \in DOMAIN posted', NEW j \in Keys, Answer(i, j)'
          PROVE  /\ cache'[j] # <<>> /\ cache'[j][1].result # Pending
                      => posted'[i].value <= cache'[j][1].result
                 /\ \A d \in Callers : fetch'[d] = "done" /\ asked'[d] = j /\ read'[d] # Error
                      => posted'[i].value <= read'[d]
      <3>1. i \in DOMAIN posted /\ posted'[i] = posted[i] /\ Answer(i, j)
        BY <1>1, <2>1 DEF QueueAfter
      <3>2. cache'[j] # <<>> /\ cache'[j][1].result # Pending => cache'[j] = cache[j]
        BY <1>3, <1>4
      <3>3. \A d \in Callers : fetch'[d] = "done" => fetch[d] = "done" /\ asked'[d] = asked[d]
        BY <1>6
      <3>4. read' = read
        BY DEF Starting
      <3> QED
        BY <3>1, <3>2, <3>3, <3>4 DEF IInv, InOrder
    <2> QED
      BY <1>1, <2>1 DEF InOrder, Answer, QueueAfter
  <1>12. NoLostCaller'
    <2> SUFFICES ASSUME NEW d \in Callers, alive', caller'[d] = "pending"
                 PROVE  \/ fetch'[d] = "pool"
                        \/ PostedTo(d)'
                        \/ Waiting(d, asked[d])' /\ Fetching(asked[d])' # {}
      BY DEF NoLostCaller, PostedTo
    <2>1. CASE d = c
      <3>1. caller[c] # "gone"
        BY <2>1 DEF Starting
      <3>2. CASE f = "none"
        BY <1>1, <2>1, <3>1, <3>2 DEF QueueAfter
      <3>3. CASE f = "pool"
        BY <1>6, <2>1, <3>3
      <3>4. CASE f = "exec"
        BY <1>5, <1>6, <2>1, <3>4 DEF Fetching, Waiting
      <3> QED
        BY <3>2, <3>3, <3>4
    <2>2. CASE d # c
      <3>1. alive /\ caller[d] = "pending" /\ asked'[d] = asked[d] /\ asked[d] \in Keys
        BY <1>6, <2>2 DEF Starting, IInv, TypeOK
      <3>2. \/ fetch[d] = "pool" \/ PostedTo(d)
            \/ Waiting(d, asked[d]) /\ Fetching(asked[d]) # {}
        BY <3>1 DEF IInv, NoLostCaller, PostedTo
      <3>3. ASSUME Waiting(d, asked[d]), Fetching(asked[d]) # {}
            PROVE  Waiting(d, asked[d])' /\ Fetching(asked[d])' # {}
        <4>1. asked[d] # k
          BY <3>3 DEF Starting
        <4>2. PICK e \in Callers : fetch[e] # "none" /\ asked[e] = asked[d]
          BY <3>3 DEF Fetching
        <4>3. cache[asked[d]] # <<>>
          BY <3>3 DEF Waiting
        <4>4. InQuery(e)
          BY <4>2, <4>3 DEF IInv, TypeOK, Requests, InQuery
        <4>5. e # c
          BY <1>6, <4>4
        <4>6. Waiting(d, asked[d])'
          BY <1>3, <3>1, <3>3, <4>1 DEF Waiting
        <4>7. e \in Fetching(asked[d])'
          BY <1>6, <3>1, <4>2, <4>5 DEF Fetching
        <4> QED
          BY <4>6, <4>7
      <3> QED
        BY <1>6, <2>2, <3>2, <3>3
    <2> QED
      BY <2>1, <2>2
  <1> QED
    BY <1>2, <1>7, <1>8, <1>9, <1>10, <1>11, <1>12 DEF IInv

LEMMA RefusedStep ==
  ASSUME IInv, NEW c \in Callers, NEW k \in Keys, NEW entries, Starting(c, k, entries),
         RefusedByPool(c, k, entries)
  PROVE  IInv'
  <1> DEFINE R == {d \in {c} : caller[d] # "gone"}
  <1>1. /\ cache' = entries /\ schedule(<<c>>, Error) /\ fetch' = [fetch EXCEPT ![c] = "none"]
    BY DEF RefusedByPool, failRequest, Starting
  <1>2. Tells(R, Error) /\ R \in SUBSET {c}
    BY <1>1, Types, TellsItself DEF IInv
  <1>3. /\ cache' \in [Keys -> Seq(Entry)] /\ cache'[k] = <<>>
        /\ \A j \in Keys : j # k => cache'[j] = entries[j]
    BY <1>1 DEF Starting
  <1>4. caller[c] # "gone" => c \in R
    OBVIOUS
  <1> HIDE DEF R
  <1> QED
    BY <1>1, <1>2, <1>3, <1>4, StartedStep

LEMMA AtPoolStep ==
  ASSUME IInv, NEW c \in Callers, NEW k \in Keys, NEW entries, Starting(c, k, entries),
         fetch' = [fetch EXCEPT ![c] = "pool"], cache' = entries, UNCHANGED posted
  PROVE  IInv'
  <1>1. Tells({}, Error)
    BY TellsNobody DEF IInv
  <1>2. /\ cache' \in [Keys -> Seq(Entry)] /\ cache'[k] = <<>>
        /\ \A j \in Keys : j # k => cache'[j] = entries[j]
    BY DEF Starting
  <1>3. {} \in SUBSET {c} /\ "pool" \in {"none", "pool", "exec"}
    OBVIOUS
  <1> QED
    BY <1>1, <1>2, <1>3, StartedStep

LEMMA SentStep ==
  ASSUME IInv, NEW c \in Callers, NEW k \in Keys, NEW entries, Starting(c, k, entries),
         emplace(c, k, entries)
  PROVE  IInv'
  <1> DEFINE e == [receivers |-> <<c>>, result |-> Pending, old |-> FALSE]
  <1>1. Tells({}, Error)
    BY TellsNobody DEF emplace, IInv
  <1>2. e \in Entry
    BY DEF Entry
  <1>3. /\ entries \in [Keys -> Seq(Entry)] /\ entries[k] = <<>>
        /\ cache' = [entries EXCEPT ![k] = <<e>> \o @]
        /\ fetch' = [fetch EXCEPT ![c] = "exec"]
    BY DEF emplace, Starting
  <1>4. <<e>> \in Seq(Entry) /\ <<e>> \o <<>> = <<e>>
    BY <1>2
  <1>5. /\ cache' \in [Keys -> Seq(Entry)] /\ cache'[k] = <<e>>
        /\ \A j \in Keys : j # k => cache'[j] = entries[j]
    BY <1>3, <1>4
  <1>6. {} \in SUBSET {c} /\ "exec" \in {"none", "pool", "exec"}
    OBVIOUS
  <1> QED
    BY <1>1, <1>3, <1>5, <1>6, StartedStep

LEMMA RequestStep ==
  ASSUME IInv, NEW c \in Callers, NEW k \in Keys, NEW entries, Starting(c, k, entries),
         requestData(c, k, entries)
  PROVE  IInv'
  <1>1. CASE RefusedByPool(c, k, entries)
    BY <1>1, RefusedStep
  <1>2. CASE emplace(c, k, entries)
    BY <1>2, SentStep
  <1>3. CASE /\ fetch' = [fetch EXCEPT ![c] = "pool"] /\ cache' = entries /\ UNCHANGED posted
    BY <1>3, AtPoolStep
  <1> QED
    BY <1>1, <1>2, <1>3 DEF requestData

-----------------------------------------------------------------------------
(***************************************************************************)
(* Calls.                                                                  *)
(***************************************************************************)

LEMMA NewCallIs ==
  ASSUME IInv, Settled, NEW c \in Callers, NEW k \in Keys, NewCall(c, k)
  PROVE  /\ alive /\ caller[c] = "none" /\ fetch[c] = "none"
         /\ caller' = [caller EXCEPT ![c] = "pending"] /\ asked' = [asked EXCEPT ![c] = k]
         /\ caller'[c] = "pending" /\ asked'[c] = k /\ ~Open(c)
         /\ \A d \in Callers : d # c => caller'[d] = caller[d] /\ asked'[d] = asked[d]
         /\ \A d \in Callers : fetch[d] # "none" /\ asked[d] = k => InQuery(d)
         /\ ~PostedTo(c) /\ \A j \in Keys : ~Waiting(c, j)
         /\ UNCHANGED <<alive, dbSource, read, version>>
  <1>1. /\ alive /\ caller[c] = "none" /\ fetch[c] = "none" /\ AtPool(k) = {}
        /\ caller' = [caller EXCEPT ![c] = "pending"] /\ asked' = [asked EXCEPT ![c] = k]
        /\ UNCHANGED <<alive, dbSource, read, version>>
    BY DEF NewCall, Settled
  <1>2. ~Open(c)
    BY <1>1 DEF Open
  <1>3. ~PostedTo(c) /\ \A j \in Keys : ~Waiting(c, j)
    BY <1>2 DEF IInv, OnePlace, PostedTo
  <1>4. \A d \in Callers : fetch[d] # "none" /\ asked[d] = k => InQuery(d)
    BY <1>1 DEF AtPool, Fetching, InQuery, IInv, TypeOK
  <1>5. \A d \in Callers : d # c => caller'[d] = caller[d] /\ asked'[d] = asked[d]
    BY <1>1 DEF IInv, TypeOK
  <1> QED
    BY <1>1, <1>2, <1>3, <1>4, <1>5 DEF IInv, TypeOK

LEMMA MissStep ==
  ASSUME IInv, Settled, NEW c \in Callers, NEW k \in Keys, NEW expiring,
         ExecMiss(c, k, expiring)
  PROVE  IInv'
  <1>1. NewCall(c, k)
    BY DEF ExecMiss
  <1>2. PICK entries : /\ requestData(c, k, entries)
                       /\ \/ cache[k] = <<>> /\ entries = cache
                          \/ /\ cache[k] # <<>> /\ Expired(Head(cache[k]), expiring)
                             /\ entries = Rest(k)
    BY DEF ExecMiss
  <1>3. /\ entries \in [Keys -> Seq(Entry)] /\ entries[k] = <<>>
        /\ \A j \in Keys : j # k => entries[j] = cache[j]
    <2>1. CASE cache[k] = <<>> /\ entries = cache
      BY <2>1 DEF IInv, TypeOK
    <2>2. CASE cache[k] # <<>> /\ entries = Rest(k)
      <3>1. Tail(cache[k]) = <<>> /\ cache \in [Keys -> Seq(Entry)]
        BY <2>2, Types DEF IInv, TypeOK
      <3> QED
        BY <2>2, <3>1 DEF Rest
    <2> QED
      BY <1>2, <2>1, <2>2
  <1>4. cache[k] = <<>> \/ cache[k][1].result # Pending
    BY <1>2, Types DEF Expired
  <1>5. \A d \in Callers : ~(InQuery(d) /\ asked[d] = k)
    BY <1>4 DEF IInv, Requests
  <1>6. \A d \in Callers : ~Waiting(d, k)
    <2>1. cache[k] # <<>> => Range(cache[k][1].receivers) = {}
      BY <1>4 DEF IInv, Receivers, Range
    <2> QED
      BY <2>1, Types
  <1>7. Starting(c, k, entries)
    <2>1. caller' \in [Callers -> {"none", "pending", "answered", "gone"}]
          /\ asked' \in [Callers -> Keys]
      <3>1. caller' = [caller EXCEPT ![c] = "pending"] /\ asked' = [asked EXCEPT ![c] = k]
        BY <1>1, NewCallIs
      <3> QED
        BY <3>1 DEF IInv, TypeOK
    <2>2. ~InQuery(c)
      BY <1>1, NewCallIs DEF InQuery
    <2>3. Open(c)'
      BY <1>1, NewCallIs DEF Open
    <2> QED
      BY <1>1, <1>3, <1>5, <1>6, <2>1, <2>2, <2>3, NewCallIs DEF Starting
  <1> QED
    BY <1>2, <1>7, RequestStep

LEMMA PoolAnswersStep ==
  ASSUME IInv, NEW c \in Callers, PoolAnswers(c)
  PROVE  IInv'
  <1> DEFINE k == asked[c]
  <1>1. /\ fetch[c] = "pool" /\ UNCHANGED <<alive, dbSource, read, caller, asked, version>>
        /\ emplace(c, k, cache) \/ RefusedByPool(c, k, cache)
    BY DEF PoolAnswers
  <1>2. k \in Keys /\ cache[k] = <<>> /\ Open(c) /\ ~PostedTo(c)
    BY <1>1 DEF IInv, TypeOK, Requests
  <1>3. \A d \in Callers : ~Waiting(d, k)
    BY <1>2, Types
  <1>4. \A j \in Keys : ~Waiting(c, j)
    BY <1>3 DEF IInv, OnePlace
  <1>5. \A d \in Callers : fetch[d] # "none" /\ asked[d] = k => d = c
    BY <1>1 DEF IInv, Requests
  <1>6. Starting(c, k, cache)
    BY <1>1, <1>2, <1>3, <1>4, <1>5 DEF Starting, IInv, TypeOK, InQuery, Open
  <1> QED
    BY <1>1, <1>2, <1>6, SentStep, RefusedStep

LEMMA HitStep ==
  ASSUME IInv, Settled, NEW c \in Callers, NEW k \in Keys, NEW expiring,
         ExecHit(c, k, expiring)
  PROVE  IInv'
  <1> DEFINE v == cache[k][1].result
  <1>1. /\ cache[k] # <<>> /\ v # Pending /\ NewCall(c, k)
        /\ posted' = Append(posted, Event(c, v)) /\ UNCHANGED <<cache, fetch>>
    BY Types DEF ExecHit
  <1>2. v \in Nat /\ v \in Result /\ v <= version /\ v # Error
    BY <1>1, Types, ConstantsAssumption DEF Result
  <1>3. /\ caller' = [caller EXCEPT ![c] = "pending"] /\ asked' = [asked EXCEPT ![c] = k]
        /\ fetch[c] = "none" /\ ~Open(c) /\ ~PostedTo(c) /\ \A j \in Keys : ~Waiting(c, j)
        /\ UNCHANGED <<alive, dbSource, read, version>>
        /\ \A d \in Callers : d # c => caller'[d] = caller[d] /\ asked'[d] = asked[d]
        /\ caller'[c] = "pending" /\ asked'[c] = k
    BY <1>1, NewCallIs
  <1> HIDE DEF v
  <1>4. Tells({c}, v)
    BY <1>1, <1>2, TellsOne DEF IInv
  <1>5. asked' \in [Callers -> Keys]
        /\ caller' \in [Callers -> {"none", "pending", "answered", "gone"}]
    BY <1>3 DEF IInv, TypeOK
  <1>6. \A d \in Callers : PostedTo(d) => Open(d)' /\ asked'[d] = asked[d]
    <2> SUFFICES ASSUME NEW d \in Callers, PostedTo(d)
                 PROVE  Open(d)' /\ asked'[d] = asked[d]
      OBVIOUS
    <2>1. d # c /\ Open(d)
      BY <1>3 DEF IInv, OnePlace, PostedTo
    <2> QED
      BY <1>3, <2>1 DEF Open
  <1>7. \A i \in DOMAIN posted : Answer(i, k) => posted[i].value <= v
    BY <1>1 DEF IInv, InOrder, v
  <1>8. version' \in Nat /\ version <= version' /\ v <= version' /\ {c} \in SUBSET Callers
        /\ \A d \in {c} : ~PostedTo(d) /\ Open(d)' /\ asked'[d] = k
    BY <1>2, <1>3, Types DEF Open
  <1>9. QueueAfter({c}, v, k)
    <2>1. PICK R \in SUBSET Callers : R = {c}
      OBVIOUS
    <2>2. Tells(R, v) /\ \A d \in R : ~PostedTo(d) /\ Open(d)' /\ asked'[d] = k
      BY <1>4, <1>8, <2>1
    <2>3. v # Error => \A i \in DOMAIN posted : Answer(i, k) => posted[i].value <= v
      BY <1>7
    <2>4. version' \in Nat /\ version <= version' /\ v <= version'
      BY <1>8
    <2> QED
      BY <1>2, <1>5, <1>6, <2>1, <2>2, <2>3, <2>4, Told
  <1>10. /\ cache' = cache /\ fetch' = fetch /\ read' = read /\ version' = version
         /\ \A d, j : Waiting(d, j)' <=> Waiting(d, j)
         /\ \A d : InQuery(d)' <=> InQuery(d)
         /\ \A d \in Callers : fetch[d] # "none" => d # c
    BY <1>1, <1>3 DEF Waiting, InQuery
  <1>11. TypeOK'
    BY <1>3, <1>5, <1>9, <1>10 DEF IInv, TypeOK, Events, QueueAfter
  <1>12. \A d \in Callers : fetch[d] = "done" => asked[d] # k
    BY <1>1 DEF IInv, Requests, InQuery, v
  <1>13. Requests'
    <2>1. \A d \in Callers : InQuery(d) => asked'[d] = asked[d]
      BY <1>3, <1>10 DEF InQuery
    <2>2. \A j \in Keys : Len(cache[j]) <= 1
            /\ (cache[j] # <<>> /\ cache[j][1].result = Pending
                  <=> \E d \in Callers : InQuery(d) /\ asked'[d] = j)
      BY <2>1 DEF IInv, Requests
    <2>3. ASSUME NEW d \in Callers, fetch[d] = "pool"
          PROVE  cache[asked'[d]] = <<>> /\ Open(d)' /\ ~PostedTo(d)'
      <3>1. d # c
        BY <1>10, <2>3
      <3> QED
        BY <1>3, <1>9, <2>3, <3>1 DEF IInv, Requests, Open, QueueAfter
    <2>4. ASSUME NEW d \in Callers, NEW e \in Callers, fetch[d] # "none", fetch[e] # "none",
                 asked'[d] = asked'[e]
          PROVE  d = e
      BY <1>3, <1>10, <2>4 DEF IInv, Requests
    <2> QED
      BY <1>10, <2>2, <2>3, <2>4 DEF Requests, InQuery
  <1>14. Receivers'
    BY <1>10 DEF IInv, Receivers
  <1>15. OnePlace'
    <2>1. ASSUME NEW j \in Keys, NEW d \in Callers, Waiting(d, j)
          PROVE  asked'[d] = j /\ Open(d)' /\ ~PostedTo(d)'
      <3>1. d # c
        BY <1>3, <2>1
      <3> QED
        BY <1>3, <1>9, <2>1, <3>1 DEF IInv, OnePlace, Open, QueueAfter
    <2> QED
      BY <1>9, <1>10, <2>1 DEF OnePlace, Open, QueueAfter
  <1>16. NotAhead'
    BY <1>9, <1>10 DEF IInv, NotAhead, QueueAfter
  <1>17. InOrder'
    <2>1. ASSUME NEW i \in DOMAIN posted', NEW j \in Keys, Answer(i, j)'
          PROVE  /\ cache[j] # <<>> /\ cache[j][1].result # Pending
                      => posted'[i].value <= cache[j][1].result
                 /\ \A d \in Callers : fetch[d] = "done" /\ asked'[d] = j /\ read[d] # Error
                      => posted'[i].value <= read[d]
      <3>1. \A d \in Callers : fetch[d] = "done" => asked'[d] = asked[d]
        BY <1>3, <1>10
      <3>2. CASE i \in DOMAIN posted /\ posted'[i] = posted[i] /\ Answer(i, j)
        BY <3>1, <3>2 DEF IInv, InOrder
      <3>3. CASE j = k /\ posted'[i].value = v
        BY <1>2, <1>12, <3>1, <3>3 DEF v
      <3> QED
        BY <1>9, <2>1, <3>2, <3>3 DEF QueueAfter
    <2> QED
      BY <1>9, <1>10, <2>1 DEF InOrder, Answer, QueueAfter
  <1>18. NoLostCaller'
    <2> SUFFICES ASSUME NEW d \in Callers, alive', caller'[d] = "pending"
                 PROVE  \/ fetch'[d] = "pool"
                        \/ PostedTo(d)'
                        \/ Waiting(d, asked[d])' /\ Fetching(asked[d])' # {}
      BY DEF NoLostCaller, PostedTo
    <2>1. CASE d = c
      BY <1>9, <2>1 DEF QueueAfter
    <2>2. CASE d # c
      <3>1. alive /\ caller[d] = "pending" /\ asked'[d] = asked[d]
        BY <1>3, <2>2
      <3>2. \/ fetch[d] = "pool" \/ PostedTo(d)
            \/ Waiting(d, asked[d]) /\ Fetching(asked[d]) # {}
        BY <3>1 DEF IInv, NoLostCaller, PostedTo
      <3>3. ASSUME Fetching(asked[d]) # {} PROVE Fetching(asked[d])' # {}
        <4>1. PICK e \in Callers : fetch[e] # "none" /\ asked[e] = asked[d]
          BY <3>3 DEF Fetching
        <4>2. e \in Fetching(asked[d])'
          BY <1>3, <1>10, <3>1, <4>1 DEF Fetching
        <4> QED
          BY <4>2
      <3>4. Waiting(d, asked[d]) => Waiting(d, asked[d])'
        BY <1>10, <3>1 DEF Waiting
      <3> QED
        BY <1>9, <1>10, <3>2, <3>3, <3>4 DEF QueueAfter
    <2> QED
      BY <2>1, <2>2
  <1> QED
    BY <1>11, <1>13, <1>14, <1>15, <1>16, <1>17, <1>18 DEF IInv

LEMMA JoinStep ==
  ASSUME IInv, Settled, NEW c \in Callers, NEW k \in Keys, ExecJoin(c, k)
  PROVE  IInv'
  <1> DEFINE e == cache[k][1]
             e2 == cache'[k][1]
  <1>1. /\ cache[k] # <<>> /\ cache[k][1].result = Pending /\ NewCall(c, k)
        /\ cache' = [cache EXCEPT ![k][1].receivers = Append(@, c)]
        /\ UNCHANGED <<fetch, posted>>
    BY Types DEF ExecJoin
  <1>2. /\ caller' = [caller EXCEPT ![c] = "pending"] /\ asked' = [asked EXCEPT ![c] = k]
        /\ fetch[c] = "none" /\ ~Open(c) /\ ~PostedTo(c) /\ \A j \in Keys : ~Waiting(c, j)
        /\ UNCHANGED <<alive, dbSource, read, version>>
        /\ \A d \in Callers : d # c => caller'[d] = caller[d] /\ asked'[d] = asked[d]
        /\ caller'[c] = "pending" /\ asked'[c] = k
    BY <1>1, NewCallIs
  <1>3. /\ cache[k] \in Seq(Entry) /\ DOMAIN cache[k] = {1} /\ e \in Entry
        /\ e.receivers \in Seq(Callers) /\ c \notin Range(e.receivers)
        /\ IsInjective(e.receivers)
    BY <1>1, <1>2, Types DEF IInv, Receivers
  <1>4. /\ Append(e.receivers, c) \in Seq(Callers)
        /\ Range(Append(e.receivers, c)) = Range(e.receivers) \cup {c}
        /\ IsInjective(Append(e.receivers, c))
    <2>1. PICK s : s = e.receivers
      OBVIOUS
    <2>2. /\ Append(s, c) \in Seq(Callers) /\ Range(Append(s, c)) = Range(s) \cup {c}
          /\ IsInjective(Append(s, c))
      BY <1>3, <2>1, AppendFresh
    <2> QED
      BY <2>1, <2>2
  <1>5. /\ cache'[k] = [cache[k] EXCEPT ![1].receivers = Append(@, c)]
        /\ \A j \in Keys : j # k => cache'[j] = cache[j]
    BY <1>1 DEF IInv, TypeOK
  <1>6. e2 = [e EXCEPT !.receivers = Append(@, c)] /\ DOMAIN cache'[k] = {1}
    BY <1>3, <1>5
  <1>7. /\ e2.receivers = Append(e.receivers, c) /\ e2.result = e.result /\ e2.old = e.old
        /\ e2 \in Entry
    BY <1>3, <1>4, <1>6 DEF Entry
  <1>8. cache'[k] \in Seq(Entry) /\ Len(cache'[k]) = 1 /\ cache'[k] # <<>>
    <2>1. cache'[k] = [i \in {1} |-> e2]
      BY <1>3, <1>5, <1>6
    <2>2. {1} = 1 .. 1
      OBVIOUS
    <2>3. cache'[k] \in [1 .. 1 -> Entry]
      BY <1>7, <2>1, <2>2
    <2>4. cache'[k] \in Seq(Entry)
      BY <2>3, SeqDef
    <2>5. Len(cache'[k]) = 1
      BY <2>3, <2>4, LenProperties
    <2>6. cache'[k] # <<>>
      BY <2>5
    <2> QED
      BY <2>4, <2>5, <2>6
  <1> HIDE DEF e, e2
  <1>9. \A d : Waiting(d, k)' <=> d = c \/ Waiting(d, k)
    <2>1. \A d : Waiting(d, k)' <=> d \in Range(e2.receivers)
      <3>1. cache'[k] \in Seq(Entry) /\ Len(cache'[k]) <= 1
        BY <1>8
      <3> QED
        BY <1>8, <3>1, WaitingNext DEF e2
    <2>2. \A d : Waiting(d, k) <=> d \in Range(e.receivers)
      BY <1>1, Types DEF e
    <2> QED
      BY <1>4, <1>7, <2>1, <2>2
  <1>10. \A j \in Keys : j # k => \A d : Waiting(d, j)' <=> Waiting(d, j)
    BY <1>5 DEF Waiting
  <1>11. /\ fetch' = fetch /\ posted' = posted /\ read' = read /\ version' = version
         /\ \A d : InQuery(d)' <=> InQuery(d)
         /\ \A d : PostedTo(d)' <=> PostedTo(d)
         /\ \A d \in Callers : fetch[d] # "none" => asked'[d] = asked[d] /\ caller'[d] = caller[d]
    BY <1>1, <1>2 DEF InQuery, PostedTo
  <1>12. TypeOK'
    <2>1. cache' \in [Keys -> Seq(Entry)]
      BY <1>1, <1>5, <1>8 DEF IInv, TypeOK
    <2> QED
      BY <1>2, <1>11, <2>1 DEF IInv, TypeOK
  <1>13. \A j \in Keys : /\ Len(cache'[j]) <= 1 /\ (cache'[j] = <<>> <=> cache[j] = <<>>)
                         /\ cache'[j] # <<>> => cache'[j][1].result = cache[j][1].result
    BY <1>1, <1>5, <1>7, <1>8 DEF e, e2, IInv, Requests
  <1>14. Requests'
    <2>1. \A j \in Keys :
            cache'[j] # <<>> /\ cache'[j][1].result = Pending
              <=> \E d \in Callers : InQuery(d) /\ asked'[d] = j
      <3>1. \A d \in Callers : InQuery(d) => asked'[d] = asked[d]
        BY <1>11 DEF InQuery
      <3> QED
        BY <1>13, <3>1 DEF IInv, Requests
    <2>2. ASSUME NEW d \in Callers, fetch[d] = "pool"
          PROVE  cache'[asked'[d]] = <<>> /\ Open(d)' /\ ~PostedTo(d)
      BY <1>11, <1>13, <2>2 DEF IInv, TypeOK, Requests, Open
    <2>3. ASSUME NEW d \in Callers, NEW f \in Callers, fetch[d] # "none", fetch[f] # "none",
                 asked'[d] = asked'[f]
          PROVE  d = f
      BY <1>11, <2>3 DEF IInv, Requests
    <2> QED
      BY <1>11, <1>13, <2>1, <2>2, <2>3 DEF Requests
  <1>15. Receivers'
    <2>1. ASSUME NEW j \in Keys, cache'[j] # <<>>
          PROVE  /\ IsInjective(cache'[j][1].receivers)
                 /\ cache'[j][1].result # Pending => cache'[j][1].receivers = <<>>
      <3>1. CASE j = k
        BY <1>1, <1>4, <1>7, <3>1 DEF e, e2
      <3>2. CASE j # k
        BY <1>5, <2>1, <3>2 DEF IInv, Receivers
      <3> QED
        BY <3>1, <3>2
    <2> QED
      BY <2>1 DEF Receivers
  <1>16. OnePlace'
    <2>1. ASSUME NEW j \in Keys, NEW d \in Callers, Waiting(d, j)'
          PROVE  asked'[d] = j /\ Open(d)' /\ ~PostedTo(d)'
      <3>1. CASE d = c
        BY <1>2, <1>9, <1>10, <1>11, <2>1, <3>1 DEF Open
      <3>2. CASE d # c
        <4>1. Waiting(d, j)
          BY <1>9, <1>10, <2>1, <3>2
        <4> QED
          BY <1>2, <1>11, <3>2, <4>1 DEF IInv, OnePlace, Open
      <3> QED
        BY <3>1, <3>2
    <2>2. ASSUME NEW i \in DOMAIN posted PROVE Open(posted[i].to)'
      <3>1. Open(posted[i].to) /\ posted[i].to \in Callers /\ posted[i].to # c
        BY <1>2, Types DEF IInv, OnePlace
      <3> QED
        BY <1>2, <1>11, <3>1 DEF Open
    <2> QED
      BY <1>11, <2>1, <2>2 DEF IInv, OnePlace
  <1>17. NotAhead'
    <2>1. ASSUME NEW j \in Keys, NEW i \in DOMAIN cache'[j]
          PROVE  cache'[j][i].result <= version
      <3>1. CASE j = k
        BY <1>3, <1>6, <1>7, <3>1 DEF e, e2, IInv, NotAhead
      <3>2. CASE j # k
        BY <1>5, <3>2 DEF IInv, NotAhead
      <3> QED
        BY <3>1, <3>2
    <2> QED
      BY <1>11, <2>1 DEF IInv, NotAhead
  <1>18. InOrder'
    <2>1. ASSUME NEW i \in DOMAIN posted, NEW j \in Keys
          PROVE  Answer(i, j)' <=> Answer(i, j)
      <3>1. posted[i].to \in Callers /\ posted[i].to # c
        BY <1>2, Types
      <3> QED
        BY <1>2, <1>11, <3>1 DEF Answer
    <2> QED
      BY <1>11, <1>13, <2>1 DEF IInv, InOrder
  <1>19. NoLostCaller'
    <2> SUFFICES ASSUME NEW d \in Callers, alive', caller'[d] = "pending"
                 PROVE  \/ fetch'[d] = "pool"
                        \/ PostedTo(d)'
                        \/ Waiting(d, asked[d])' /\ Fetching(asked[d])' # {}
      BY DEF NoLostCaller, PostedTo
    <2>1. CASE d = c
      <3>1. PICK f \in Callers : InQuery(f) /\ asked[f] = k
        BY <1>1 DEF IInv, Requests
      <3>2. f \in Fetching(k)'
        BY <1>11, <3>1 DEF Fetching, InQuery
      <3>3. Waiting(c, k)'
        BY <1>9
      <3> QED
        BY <1>2, <2>1, <3>2, <3>3 DEF Waiting, Fetching
    <2>2. CASE d # c
      <3>1. /\ alive /\ caller[d] = "pending" /\ asked'[d] = asked[d] /\ asked[d] \in Keys
        BY <1>2, <2>2 DEF IInv, TypeOK
      <3>2. \/ fetch[d] = "pool" \/ PostedTo(d)
            \/ Waiting(d, asked[d]) /\ Fetching(asked[d]) # {}
        BY <3>1 DEF IInv, NoLostCaller, PostedTo
      <3>3. ASSUME Fetching(asked[d]) # {} PROVE Fetching(asked[d])' # {}
        <4>1. PICK f \in Callers : fetch[f] # "none" /\ asked[f] = asked[d]
          BY <3>3 DEF Fetching
        <4>2. f \in Fetching(asked[d])'
          BY <1>11, <3>1, <4>1 DEF Fetching
        <4> QED
          BY <4>2
      <3>4. Waiting(d, asked[d]) => Waiting(d, asked[d])'
        <4>1. \A j \in Keys : Waiting(d, j) => Waiting(d, j)'
          BY <1>9, <1>10
        <4> QED
          BY <3>1, <4>1 DEF Waiting
      <3> QED
        BY <1>11, <3>1, <3>2, <3>3, <3>4
    <2> QED
      BY <2>1, <2>2
  <1> QED
    BY <1>12, <1>14, <1>15, <1>16, <1>17, <1>18, <1>19 DEF IInv

\* The result of c arrives and the entry of its key is erased or filled with v.
LEMMA ArrivedStep ==
  ASSUME IInv, NEW c \in Callers, fetch[c] = "done", NEW k \in Keys, k = asked[c],
         NEW v, v = read[c],
         fetch' = [fetch EXCEPT ![c] = "none"], read' = [read EXCEPT ![c] = Error],
         UNCHANGED <<alive, dbSource, caller, asked, version>>,
         schedule(cache[k][1].receivers, v),
         cache' \in [Keys -> Seq(Entry)], \A j \in Keys : j # k => cache'[j] = cache[j],
         \/ cache'[k] = <<>>
         \/ /\ cache'[k] = <<[receivers |-> <<>>, result |-> v, old |-> FALSE]>>
            /\ v # Error
  PROVE  IInv'
  <1> DEFINE rs == cache[k][1].receivers
             R == {d \in Range(rs) : caller[d] # "gone"}
  <1>1. InQuery(c) /\ cache[k] # <<>> /\ cache[k][1].result = Pending
    BY DEF IInv, Requests, InQuery
  <1>2. /\ rs \in Seq(Callers) /\ Range(rs) \subseteq Callers /\ IsInjective(rs)
        /\ \A d : Waiting(d, k) <=> d \in Range(rs)
    BY <1>1, Types DEF IInv, Receivers
  <1>3. v \in Result /\ v <= version /\ version' \in Nat /\ version' = version
        /\ v \in Int /\ v # Pending
    <2>1. v \in Result /\ v <= version
      BY DEF IInv, TypeOK, NotAhead
    <2> QED
      BY <2>1, Types, ConstantsAssumption DEF Result, Error, Pending
  <1>4. Tells(R, v)
    BY <1>2, <1>3, TellsScheduled DEF IInv
  <1>5. \A d \in R : ~PostedTo(d) /\ Open(d)' /\ asked'[d] = k
    BY <1>2 DEF IInv, OnePlace, Open
  <1>6. \A d \in Callers : PostedTo(d) => Open(d)' /\ asked'[d] = asked[d]
    BY DEF IInv, OnePlace, PostedTo, Open
  <1>7. v # Error => \A i \in DOMAIN posted : Answer(i, k) => posted[i].value <= v
    BY DEF IInv, InOrder
  <1>8. \A d \in Callers : Waiting(d, k) /\ caller[d] = "pending" => d \in R
    BY <1>2
  <1>9. R \in SUBSET Callers /\ asked' \in [Callers -> Keys] /\ version <= version'
        /\ v <= version' /\ k \in Keys
    BY <1>2, <1>3 DEF IInv, TypeOK
  <1> HIDE DEF R
  <1>10. QueueAfter(R, v, k)
    BY <1>3, <1>4, <1>5, <1>6, <1>7, <1>9, Told
  <1>11. /\ fetch'[c] = "none" /\ read'[c] = Error
         /\ \A d \in Callers : d # c => fetch'[d] = fetch[d] /\ read'[d] = read[d]
         /\ \A d \in Callers : d # c => (InQuery(d)' <=> InQuery(d))
         /\ \A d \in Callers : fetch[d] # "none" /\ asked[d] = k => d = c
    BY DEF IInv, TypeOK, Requests, InQuery
  <1>12. /\ Len(cache'[k]) <= 1
         /\ cache'[k] # <<>> =>
              /\ DOMAIN cache'[k] = {1} /\ cache'[k][1].receivers = <<>>
              /\ cache'[k][1].result = v /\ v # Error
    <2>1. CASE cache'[k] = <<>>
      BY <2>1
    <2>2. CASE /\ cache'[k] = <<[receivers |-> <<>>, result |-> v, old |-> FALSE]>>
               /\ v # Error
      <3>1. PICK e : e = [receivers |-> <<>>, result |-> v, old |-> FALSE]
        OBVIOUS
      <3>2. e.receivers = <<>> /\ e.result = v
        BY <3>1
      <3>3. cache'[k] = <<e>>
        BY <2>2, <3>1
      <3>4. Len(cache'[k]) = 1 /\ cache'[k][1] = e /\ DOMAIN cache'[k] = {1}
        BY <3>3
      <3> QED
        BY <2>2, <3>2, <3>4
    <2> QED
      BY <2>1, <2>2
  <1>13. \A d : ~Waiting(d, k)'
    <2>1. cache'[k] \in Seq(Entry)
      OBVIOUS
    <2>2. \A d : d \notin Range(<<>>)
      BY DEF Range
    <2> QED
      BY <1>12, <2>1, <2>2, WaitingNext
  <1>14. \A j \in Keys : j # k => \A d : Waiting(d, j)' <=> Waiting(d, j)
    BY DEF Waiting
  <1>15. TypeOK'
    BY <1>10, Types DEF IInv, TypeOK, Events, QueueAfter
  <1>16. Requests'
    <2>1. ASSUME NEW j \in Keys
          PROVE  /\ Len(cache'[j]) <= 1
                 /\ cache'[j] # <<>> /\ cache'[j][1].result = Pending
                      <=> \E d \in Callers : InQuery(d)' /\ asked[d] = j
      <3>1. CASE j = k
        <4>1. \A d \in Callers : asked[d] = k => ~InQuery(d)'
          BY <1>11 DEF InQuery
        <4> QED
          BY <1>3, <1>12, <3>1, <4>1
      <3>2. CASE j # k
        <4>1. \A d \in Callers : asked[d] = j => (InQuery(d)' <=> InQuery(d))
          BY <1>11, <3>2
        <4> QED
          BY <3>2, <4>1 DEF IInv, Requests
      <3> QED
        BY <3>1, <3>2
    <2>2. ASSUME NEW d \in Callers, fetch'[d] = "pool"
          PROVE  cache'[asked[d]] = <<>> /\ Open(d)' /\ ~PostedTo(d)'
      <3>1. d # c /\ fetch[d] = "pool"
        BY <1>11, <2>2
      <3>2. asked[d] # k /\ asked[d] \in Keys
        BY <1>11, <3>1 DEF IInv, TypeOK
      <3>3. d \notin R
        BY <1>5, <3>2
      <3> QED
        BY <1>10, <3>1, <3>2, <3>3 DEF IInv, Requests, Open, QueueAfter
    <2>3. ASSUME NEW d \in Callers, NEW e \in Callers, fetch'[d] # "none", fetch'[e] # "none",
                 asked[d] = asked[e]
          PROVE  d = e
      BY <1>11, <2>3 DEF IInv, Requests
    <2> QED
      BY <2>1, <2>2, <2>3 DEF Requests
  <1>17. Receivers'
    <2>1. IsInjective(<<>>)
      BY DEF IsInjective
    <2> QED
      BY <1>12, <2>1 DEF IInv, Receivers
  <1>18. OnePlace'
    <2>1. ASSUME NEW j \in Keys, NEW d \in Callers, Waiting(d, j)'
          PROVE  asked[d] = j /\ Open(d)' /\ ~PostedTo(d)'
      <3>1. j # k /\ Waiting(d, j)
        BY <1>13, <1>14, <2>1
      <3>2. d \notin R
        BY <1>5, <3>1 DEF IInv, OnePlace
      <3> QED
        BY <1>10, <3>1, <3>2 DEF IInv, OnePlace, Open, QueueAfter
    <2> QED
      BY <1>10, <2>1 DEF OnePlace, QueueAfter
  <1>19. NotAhead'
    <2>1. ASSUME NEW j \in Keys, NEW i \in DOMAIN cache'[j]
          PROVE  cache'[j][i].result <= version
      <3>1. CASE j = k
        <4>1. cache'[k] # <<>>
          BY <3>1
        <4> QED
          BY <1>3, <1>12, <3>1, <4>1
      <3>2. CASE j # k
        BY <3>2 DEF IInv, NotAhead
      <3> QED
        BY <3>1, <3>2
    <2>2. \A d \in Callers : read'[d] <= version
      BY <1>11, Types DEF IInv, NotAhead
    <2> QED
      BY <1>3, <1>10, <2>1, <2>2 DEF NotAhead, QueueAfter
  <1>20. InOrder'
    <2>1. ASSUME NEW i \in DOMAIN posted', NEW j \in Keys, Answer(i, j)'
          PROVE  /\ cache'[j] # <<>> /\ cache'[j][1].result # Pending
                      => posted'[i].value <= cache'[j][1].result
                 /\ \A d \in Callers : fetch'[d] = "done" /\ asked[d] = j /\ read'[d] # Error
                      => posted'[i].value <= read'[d]
      <3>1. CASE j = k
        <4>1. posted'[i].value <= v \/ v = Error
          <5>1. CASE i \in DOMAIN posted /\ posted'[i] = posted[i] /\ Answer(i, j)
            BY <1>7, <3>1, <5>1
          <5>2. CASE posted'[i].value = v
            BY <1>3, <5>2
          <5> QED
            BY <1>10, <2>1, <5>1, <5>2 DEF QueueAfter
        <4> QED
          BY <1>11, <1>12, <3>1, <4>1
      <3>2. CASE j # k
        <4>1. i \in DOMAIN posted /\ posted'[i] = posted[i] /\ Answer(i, j)
          BY <1>10, <2>1, <3>2 DEF QueueAfter
        <4> QED
          BY <1>11, <3>2, <4>1 DEF IInv, InOrder
      <3> QED
        BY <3>1, <3>2
    <2> QED
      BY <1>10, <2>1 DEF InOrder, QueueAfter
  <1>21. NoLostCaller'
    <2> SUFFICES ASSUME NEW d \in Callers, alive', caller'[d] = "pending"
                 PROVE  \/ fetch'[d] = "pool"
                        \/ PostedTo(d)'
                        \/ Waiting(d, asked[d])' /\ Fetching(asked[d])' # {}
      BY DEF NoLostCaller, PostedTo
    <2>1. /\ alive /\ caller[d] = "pending" /\ asked'[d] = asked[d] /\ asked[d] \in Keys
      BY DEF IInv, TypeOK
    <2>2. \/ fetch[d] = "pool" \/ PostedTo(d)
          \/ Waiting(d, asked[d]) /\ Fetching(asked[d]) # {}
      BY <2>1 DEF IInv, NoLostCaller, PostedTo
    <2>3. CASE fetch[d] = "pool" \/ PostedTo(d)
      BY <1>10, <1>11, <2>3 DEF QueueAfter
    <2>4. CASE Waiting(d, asked[d]) /\ Fetching(asked[d]) # {} /\ asked[d] = k
      BY <1>8, <1>10, <2>1, <2>4 DEF QueueAfter
    <2>5. CASE Waiting(d, asked[d]) /\ Fetching(asked[d]) # {} /\ asked[d] # k
      <3>1. PICK f \in Callers : fetch[f] # "none" /\ asked[f] = asked[d]
        BY <2>5 DEF Fetching
      <3>2. f # c
        BY <2>5, <3>1
      <3>3. f \in Fetching(asked[d])'
        BY <1>11, <3>1, <3>2 DEF Fetching
      <3>4. Waiting(d, asked[d])'
        BY <2>1, <2>5 DEF Waiting
      <3> QED
        BY <3>3, <3>4
    <2> QED
      BY <2>2, <2>3, <2>4, <2>5
  <1> QED
    BY <1>15, <1>16, <1>17, <1>18, <1>19, <1>20, <1>21 DEF IInv

LEMMA ResultArrivesStep ==
  ASSUME IInv, NEW c \in Callers, ResultArrives(c)
  PROVE  IInv'
  <1> DEFINE k == asked[c]
             v == read[c]
  <1>1. /\ fetch[c] = "done" /\ k \in Keys
        /\ fetch' = [fetch EXCEPT ![c] = "none"] /\ read' = [read EXCEPT ![c] = Error]
        /\ UNCHANGED <<alive, dbSource, caller, asked, version>>
    BY DEF ResultArrives, IInv, TypeOK
  <1>2. cache[k] # <<>>
    BY <1>1 DEF IInv, Requests, InQuery
  <1>3. /\ cache \in [Keys -> Seq(Entry)] /\ DOMAIN cache[k] = {1} /\ Len(cache[k]) = 1
        /\ Head(cache[k]) = cache[k][1] /\ Tail(cache[k]) = <<>> /\ cache[k] \in Seq(Entry)
    BY <1>1, <1>2, Types DEF IInv, TypeOK
  <1>4. /\ schedule(cache[k][1].receivers, v)
        /\ \/ cache' = [cache EXCEPT ![k] = Tail(@)]
           \/ /\ cache' = [cache EXCEPT ![k][1] =
                             [receivers |-> <<>>, result |-> v, old |-> FALSE]]
              /\ v # Error
    <2>1. CASE v = Error
      BY <1>2, <1>3, <2>1 DEF ResultArrives, failRequest
    <2>2. CASE v # Error
      BY <1>2, <1>3, <2>2 DEF ResultArrives, Store
    <2> QED
      BY <2>1, <2>2
  <1>5. k = asked[c] /\ v = read[c] /\ (v # Error => v \in 0..MaxVersion)
    BY DEF IInv, TypeOK, Result
  <1> HIDE DEF k, v
  <1>6. /\ cache' \in [Keys -> Seq(Entry)] /\ \A j \in Keys : j # k => cache'[j] = cache[j]
        /\ \/ cache'[k] = <<>>
           \/ /\ cache'[k] = <<[receivers |-> <<>>, result |-> v, old |-> FALSE]>>
              /\ v # Error
    <2>1. CASE cache' = [cache EXCEPT ![k] = Tail(@)]
      <3>1. Tail(cache[k]) = <<>> /\ <<>> \in Seq(Entry)
        BY <1>3
      <3>2. cache' = [cache EXCEPT ![k] = <<>>]
        BY <2>1, <3>1
      <3>3. cache'[k] = <<>> /\ \A j \in Keys : j # k => cache'[j] = cache[j]
        BY <1>1, <1>3, <3>2
      <3>4. cache' \in [Keys -> Seq(Entry)]
        BY <1>1, <1>3, <3>1, <3>2
      <3> QED
        BY <3>3, <3>4
    <2>2. CASE /\ cache' = [cache EXCEPT ![k][1] =
                             [receivers |-> <<>>, result |-> v, old |-> FALSE]]
               /\ v # Error
      <3>1. PICK e : e = [receivers |-> <<>>, result |-> v, old |-> FALSE]
        OBVIOUS
      <3>2. e \in Entry
        <4>1. v \in 0..MaxVersion
          BY <1>5, <2>2
        <4>2. <<>> \in Seq(Callers)
          OBVIOUS
        <4> QED
          BY <3>1, <4>1, <4>2 DEF Entry
      <3>3. cache' = [cache EXCEPT ![k] = [@ EXCEPT ![1] = e]]
        BY <2>2, <3>1
      <3>4. [cache[k] EXCEPT ![1] = e] = <<e>>
        BY <1>3
      <3>5. <<e>> \in Seq(Entry)
        BY <3>2
      <3>6. cache' = [cache EXCEPT ![k] = <<e>>]
        BY <1>3, <3>3, <3>4
      <3>7. cache'[k] = <<e>> /\ \A j \in Keys : j # k => cache'[j] = cache[j]
        BY <1>1, <1>3, <3>6
      <3>8. cache' \in [Keys -> Seq(Entry)]
        BY <1>1, <1>3, <3>5, <3>6
      <3> QED
        BY <2>2, <3>1, <3>7, <3>8
    <2> QED
      BY <1>4, <2>1, <2>2
  <1> QED
    BY <1>1, <1>4, <1>5, <1>6, ArrivedStep

LEMMA QueryRunsStep ==
  ASSUME IInv, NEW c \in Callers, QueryRuns(c)
  PROVE  IInv'
  <1> PICK v \in {version, Error} : read' = [read EXCEPT ![c] = v]
    BY DEF QueryRuns
  <1>1. /\ fetch[c] = "exec" /\ fetch' = [fetch EXCEPT ![c] = "done"]
        /\ UNCHANGED <<alive, dbSource, cache, posted, caller, asked, version>>
    BY DEF QueryRuns
  <1>2. /\ fetch'[c] = "done" /\ read'[c] = v
        /\ \A d \in Callers : d # c => fetch'[d] = fetch[d] /\ read'[d] = read[d]
    BY <1>1 DEF IInv, TypeOK
  <1>3. /\ \A d \in Callers : /\ InQuery(d)' <=> InQuery(d)
                              /\ fetch'[d] = "pool" <=> fetch[d] = "pool"
                              /\ fetch'[d] = "none" <=> fetch[d] = "none"
        /\ \A d : (Open(d)' <=> Open(d)) /\ (PostedTo(d)' <=> PostedTo(d))
        /\ \A d, j : Waiting(d, j)' <=> Waiting(d, j)
        /\ \A i, j : Answer(i, j)' <=> Answer(i, j)
    BY <1>1, <1>2 DEF InQuery, Open, PostedTo, Waiting, Answer
  <1>4. TypeOK'
    BY <1>1, Types DEF IInv, TypeOK, Result
  <1>5. Requests' /\ Receivers' /\ OnePlace'
    BY <1>1, <1>3 DEF IInv, Requests, Receivers, OnePlace
  <1>6. NotAhead'
    <2>1. v <= version
      BY Types
    <2> QED
      BY <1>1, <1>2, <2>1 DEF IInv, NotAhead
  <1>7. InOrder'
    <2>1. ASSUME NEW i \in DOMAIN posted, NEW j \in Keys, NEW d \in Callers,
                 Answer(i, j), fetch'[d] = "done", asked[d] = j, read'[d] # Error
          PROVE  posted[i].value <= read'[d]
      <3>1. CASE d = c
        BY <1>2, <2>1, <3>1 DEF IInv, NotAhead
      <3>2. CASE d # c
        BY <1>2, <2>1, <3>2 DEF IInv, InOrder
      <3> QED
        BY <3>1, <3>2
    <2> QED
      BY <1>1, <1>3, <2>1 DEF IInv, InOrder
  <1>8. NoLostCaller'
    BY <1>1, <1>3 DEF IInv, NoLostCaller, Fetching, Waiting
  <1> QED
    BY <1>4, <1>5, <1>6, <1>7, <1>8 DEF IInv

-----------------------------------------------------------------------------
(***************************************************************************)
(* The event loop and the application.                                     *)
(***************************************************************************)

LEMMA DeliverStep ==
  ASSUME IInv, Deliver
  PROVE  IInv'
  <1> DEFINE c == posted[1].to
  <1>1. /\ posted # <<>> /\ posted' = Tail(posted)
        /\ caller' = [caller EXCEPT ![c] = IF @ = "pending" THEN "answered" ELSE @]
        /\ UNCHANGED <<alive, dbSource, cache, fetch, read, asked, version>>
    <2>1. Head(posted) = posted[1]
      OBVIOUS
    <2> QED
      BY <2>1 DEF Deliver
  <1>2. /\ posted \in Seq(Events) /\ Len(posted) \in Nat \ {0} /\ DOMAIN posted = 1 .. Len(posted)
    BY <1>1, LenProperties, EmptySeq DEF IInv, TypeOK, Events
  <1>3. /\ posted' \in Seq(Events) /\ Len(posted') = Len(posted) - 1
        /\ \A i \in 1 .. Len(posted') : posted'[i] = posted[i + 1]
    BY <1>1, <1>2, HeadTailProperties
  <1>4. DOMAIN posted' = 1 .. Len(posted) - 1
    BY <1>3, LenProperties
  <1>5. \A i \in DOMAIN posted' : i + 1 \in DOMAIN posted /\ posted'[i] = posted[i + 1]
    BY <1>2, <1>3, <1>4
  <1>6. /\ 1 \in DOMAIN posted /\ c \in Callers /\ Open(c) /\ PostedTo(c)
        /\ \A i \in DOMAIN posted : i # 1 => posted[i].to # c
    BY <1>2, Types DEF IInv, OnePlace
  <1> HIDE DEF c
  <1>7. /\ \A d : PostedTo(d)' => PostedTo(d) /\ d # c
        /\ \A d : PostedTo(d) /\ d # c => PostedTo(d)'
    <2>1. ASSUME NEW d, PostedTo(d)' PROVE PostedTo(d) /\ d # c
      <3>1. PICK i \in DOMAIN posted' : posted'[i].to = d
        BY <2>1 DEF PostedTo
      <3>2. i + 1 \in DOMAIN posted /\ posted[i + 1].to = d /\ i + 1 # 1
        BY <1>4, <1>5, <3>1
      <3> QED
        BY <1>6, <3>2 DEF PostedTo
    <2>2. ASSUME NEW d, PostedTo(d), d # c PROVE PostedTo(d)'
      <3>1. PICK i \in DOMAIN posted : posted[i].to = d
        BY <2>2 DEF PostedTo
      <3>2. i # 1
        BY <2>2, <3>1 DEF c
      <3>3. i - 1 \in DOMAIN posted' /\ (i - 1) + 1 = i
        BY <1>2, <1>4, <3>2
      <3>4. posted'[i - 1] = posted[i]
        BY <1>5, <3>3
      <3> QED
        BY <3>1, <3>3, <3>4 DEF PostedTo
    <2> QED
      BY <2>1, <2>2
  <1>8. /\ \A d \in Callers : d # c => caller'[d] = caller[d]
        /\ caller'[c] \in {"answered", "gone"}
        /\ caller' \in [Callers -> {"none", "pending", "answered", "gone"}]
    BY <1>1, <1>6 DEF IInv, TypeOK, Open
  <1>9. /\ cache' = cache /\ fetch' = fetch /\ asked' = asked /\ read' = read
        /\ version' = version
        /\ \A d, j : Waiting(d, j)' <=> Waiting(d, j)
        /\ \A d : InQuery(d)' <=> InQuery(d)
        /\ \A d \in Callers : d # c => (Open(d)' <=> Open(d))
    BY <1>1, <1>8 DEF Waiting, InQuery, Open
  <1>10. TypeOK'
    BY <1>1, <1>3, <1>8 DEF IInv, TypeOK, Events
  <1>11. Requests'
    <2>1. ASSUME NEW d \in Callers, fetch[d] = "pool"
          PROVE  cache[asked[d]] = <<>> /\ Open(d)' /\ ~PostedTo(d)'
      <3>1. cache[asked[d]] = <<>> /\ Open(d) /\ ~PostedTo(d)
        BY <2>1 DEF IInv, Requests
      <3> QED
        BY <1>6, <1>7, <1>9, <3>1
    <2> QED
      BY <1>9, <2>1 DEF IInv, Requests
  <1>12. Receivers'
    BY <1>9 DEF IInv, Receivers
  <1>13. OnePlace'
    <2>1. ASSUME NEW j \in Keys, NEW d \in Callers, Waiting(d, j)
          PROVE  asked[d] = j /\ Open(d)' /\ ~PostedTo(d)'
      <3>1. asked[d] = j /\ Open(d) /\ ~PostedTo(d)
        BY <2>1 DEF IInv, OnePlace
      <3> QED
        BY <1>6, <1>7, <1>9, <3>1
    <2>2. ASSUME NEW i \in DOMAIN posted' PROVE Open(posted[i].to)'
      <3>1. i + 1 \in DOMAIN posted /\ i + 1 # 1 /\ posted'[i] = posted[i + 1]
        BY <1>4, <1>5
      <3>2. posted[i + 1].to \in Callers /\ Open(posted[i + 1].to) /\ posted[i + 1].to # c
        BY <1>6, <3>1, Types DEF IInv, OnePlace
      <3> QED
        BY <1>8, <3>1, <3>2 DEF Open
    <2>3. ASSUME NEW a \in DOMAIN posted', NEW b \in DOMAIN posted', posted'[a].to = posted'[b].to
          PROVE  a = b
      <3>1. a + 1 = b + 1
        BY <1>5, <2>3 DEF IInv, OnePlace
      <3> QED
        BY <1>4, <3>1
    <2> QED
      BY <1>9, <2>1, <2>2, <2>3 DEF OnePlace
  <1>14. NotAhead'
    BY <1>5, <1>9 DEF IInv, NotAhead
  <1>15. InOrder'
    <2>1. \A i \in DOMAIN posted' : \A k \in Keys : Answer(i, k)' <=> Answer(i + 1, k)
      BY <1>5, <1>9 DEF Answer
    <2>2. \A a, b \in DOMAIN posted' : a < b => a + 1 < b + 1
      BY <1>4
    <2>3. ASSUME NEW a \in DOMAIN posted', NEW b \in DOMAIN posted', NEW k \in Keys,
                 a < b, Answer(a, k)', Answer(b, k)'
          PROVE  posted'[a].value <= posted'[b].value
      BY <1>5, <2>1, <2>2, <2>3 DEF IInv, InOrder
    <2>4. ASSUME NEW i \in DOMAIN posted', NEW k \in Keys, Answer(i, k)'
          PROVE  /\ cache[k] # <<>> /\ cache[k][1].result # Pending
                      => posted'[i].value <= cache[k][1].result
                 /\ \A d \in Callers : fetch[d] = "done" /\ asked[d] = k /\ read[d] # Error
                      => posted'[i].value <= read[d]
      BY <1>5, <2>1, <2>4 DEF IInv, InOrder
    <2> QED
      BY <1>9, <2>3, <2>4 DEF InOrder, Answer
  <1>16. NoLostCaller'
    <2> SUFFICES ASSUME NEW d \in Callers, alive', caller'[d] = "pending"
                 PROVE  \/ fetch'[d] = "pool"
                        \/ PostedTo(d)'
                        \/ Waiting(d, asked[d])' /\ Fetching(asked[d])' # {}
      BY DEF NoLostCaller, PostedTo
    <2>1. d # c
      BY <1>8
    <2>2. \/ fetch[d] = "pool" \/ PostedTo(d)
          \/ Waiting(d, asked[d]) /\ Fetching(asked[d]) # {}
      BY <1>1, <1>8, <2>1 DEF IInv, NoLostCaller, PostedTo
    <2> QED
      BY <1>7, <1>9, <2>1, <2>2 DEF Waiting, Fetching
  <1> QED
    BY <1>10, <1>11, <1>12, <1>13, <1>14, <1>15, <1>16 DEF IInv

LEMMA DropStep ==
  ASSUME IInv, NEW c \in Callers, Drop(c)
  PROVE  IInv'
  <1>1. /\ caller[c] = "pending" /\ caller' = [caller EXCEPT ![c] = "gone"]
        /\ UNCHANGED <<cacheVars, asked, version>>
    BY DEF Drop
  <1>2. /\ \A d : Open(d) /\ d \in Callers => Open(d)'
        /\ \A d \in Callers : caller'[d] = "pending" => caller[d] = "pending"
        /\ \A d : PostedTo(d)' <=> PostedTo(d)
        /\ \A d, j : Waiting(d, j)' <=> Waiting(d, j)
        /\ \A d : InQuery(d)' <=> InQuery(d)
        /\ \A i, j : Answer(i, j)' <=> Answer(i, j)
        /\ \A j : Fetching(j)' = Fetching(j)
    BY <1>1 DEF IInv, TypeOK, Open, PostedTo, Waiting, InQuery, Answer, Fetching, cacheVars
  <1>3. TypeOK'
    BY <1>1 DEF IInv, TypeOK, cacheVars
  <1>4. Requests' /\ Receivers' /\ NotAhead' /\ InOrder'
    BY <1>1, <1>2 DEF IInv, Requests, Receivers, NotAhead, InOrder, cacheVars
  <1>5. OnePlace'
    <2>1. \A i \in DOMAIN posted : Open(posted[i].to)'
      <3> SUFFICES ASSUME NEW i \in DOMAIN posted PROVE Open(posted[i].to)'
        OBVIOUS
      <3>1. Open(posted[i].to) /\ posted[i].to \in Callers
        BY Types DEF IInv, OnePlace
      <3> QED
        BY <1>1, <3>1 DEF Open, IInv, TypeOK, cacheVars
    <2> QED
      BY <1>1, <1>2, <2>1 DEF IInv, OnePlace, cacheVars
  <1>6. NoLostCaller'
    BY <1>1, <1>2 DEF IInv, NoLostCaller, cacheVars, Waiting, Fetching
  <1> QED
    BY <1>3, <1>4, <1>5, <1>6 DEF IInv

LEMMA ForgetStep ==
  ASSUME IInv, NEW c \in Callers, Forget(c)
  PROVE  IInv'
  <1>1. /\ caller' = [caller EXCEPT ![c] = "none"] /\ ~Referenced(c)
        /\ UNCHANGED <<cacheVars, asked, version>>
    BY DEF Forget
  <1>2. fetch[c] = "none" /\ ~PostedTo(c) /\ \A j \in Keys : ~Waiting(c, j)
    BY <1>1 DEF Referenced, PostedTo
  <1>3. /\ \A d \in Callers : d # c => caller'[d] = caller[d] /\ (Open(d) => Open(d)')
        /\ \A d \in Callers : caller'[d] = "pending" => caller[d] = "pending"
        /\ \A d : PostedTo(d)' <=> PostedTo(d)
        /\ \A d, j : Waiting(d, j)' <=> Waiting(d, j)
        /\ \A d : InQuery(d)' <=> InQuery(d)
        /\ \A i, j : Answer(i, j)' <=> Answer(i, j)
    BY <1>1 DEF IInv, TypeOK, Open, PostedTo, Waiting, InQuery, Answer, cacheVars
  <1>4. TypeOK'
    BY <1>1 DEF IInv, TypeOK, cacheVars
  <1>5. Requests' /\ Receivers' /\ NotAhead' /\ InOrder'
    BY <1>1, <1>2, <1>3 DEF IInv, Requests, Receivers, NotAhead, InOrder, cacheVars
  <1>6. OnePlace'
    <2>1. \A i \in DOMAIN posted : Open(posted[i].to)'
      <3> SUFFICES ASSUME NEW i \in DOMAIN posted PROVE Open(posted[i].to)'
        OBVIOUS
      <3>1. Open(posted[i].to) /\ posted[i].to \in Callers /\ posted[i].to # c
        BY <1>2, Types DEF IInv, OnePlace
      <3> QED
        BY <1>1, <3>1 DEF Open, IInv, TypeOK, cacheVars
    <2> QED
      BY <1>1, <1>2, <1>3, <2>1 DEF IInv, OnePlace, cacheVars
  <1>7. NoLostCaller'
    BY <1>1, <1>3 DEF IInv, NoLostCaller, cacheVars, Waiting, Fetching
  <1> QED
    BY <1>4, <1>5, <1>6, <1>7 DEF IInv

\* Entries that have their result are removed or grow old.
LEMMA EntriesStep ==
  ASSUME IInv, UNCHANGED onlyCache, cache' \in [Keys -> Seq(Entry)],
         \A k \in Keys :
           \/ cache'[k] = cache[k]
           \/ /\ cache[k] # <<>> /\ cache[k][1].result # Pending
              /\ \/ cache'[k] = <<>>
                 \/ /\ Len(cache'[k]) = 1 /\ DOMAIN cache'[k] = {1}
                    /\ cache'[k][1].receivers = cache[k][1].receivers
                    /\ cache'[k][1].result = cache[k][1].result
  PROVE  IInv'
  <1>1. /\ UNCHANGED <<alive, dbSource, fetch, read, posted, caller, asked, version>>
        /\ \A d : (InQuery(d)' <=> InQuery(d)) /\ (Open(d)' <=> Open(d))
        /\ \A d : PostedTo(d)' <=> PostedTo(d)
        /\ \A i, j : Answer(i, j)' <=> Answer(i, j)
        /\ \A j : Fetching(j)' = Fetching(j)
    BY DEF onlyCache, InQuery, Open, PostedTo, Answer, Fetching
  <1>2. \A k \in Keys : /\ cache[k] \in Seq(Entry) /\ Len(cache[k]) <= 1
                        /\ cache[k] # <<>> => DOMAIN cache[k] = {1}
    BY Types DEF IInv, Requests
  <1>3. \A k \in Keys :
          /\ Len(cache'[k]) <= 1
          /\ cache'[k] # <<>> => /\ cache[k] # <<>> /\ DOMAIN cache'[k] = {1}
                                 /\ cache'[k][1].receivers = cache[k][1].receivers
                                 /\ cache'[k][1].result = cache[k][1].result
          /\ cache[k] # <<>> /\ cache[k][1].result = Pending => cache'[k] # <<>>
    BY <1>2
  <1>4. \A k \in Keys : \A d : Waiting(d, k)' <=> Waiting(d, k)
    <2> SUFFICES ASSUME NEW k \in Keys PROVE \A d : Waiting(d, k)' <=> Waiting(d, k)
      OBVIOUS
    <2>1. /\ cache'[k] \in Seq(Entry) /\ Len(cache'[k]) <= 1
      BY <1>3
    <2>2. \A d : Waiting(d, k)' <=> cache'[k] # <<>> /\ d \in Range(cache'[k][1].receivers)
      BY <2>1, WaitingNext
    <2>3. CASE cache'[k] # <<>>
      BY <1>3, <2>2, <2>3, Types
    <2>4. CASE cache'[k] = <<>>
      <3>1. cache[k] # <<>> => Range(cache[k][1].receivers) = {}
        BY <1>3, <2>4 DEF IInv, Receivers, Range
      <3> QED
        BY <2>2, <2>4, <3>1, Types
    <2> QED
      BY <2>3, <2>4
  <1>5. TypeOK'
    BY <1>1 DEF IInv, TypeOK
  <1>6. Requests'
    <2>1. \A c \in Callers : fetch[c] = "pool" => cache'[asked[c]] = <<>>
      BY <1>3 DEF IInv, Requests, TypeOK
    <2>2. \A k \in Keys : cache'[k] # <<>> /\ cache'[k][1].result = Pending
                            <=> cache[k] # <<>> /\ cache[k][1].result = Pending
      BY <1>3
    <2> QED
      BY <1>1, <1>3, <2>1, <2>2 DEF IInv, Requests
  <1>7. Receivers'
    BY <1>3 DEF IInv, Receivers
  <1>8. OnePlace'
    BY <1>1, <1>4 DEF IInv, OnePlace, Open
  <1>9. NotAhead'
    <2>1. ASSUME NEW k \in Keys, NEW i \in DOMAIN cache'[k]
          PROVE  cache'[k][i].result <= version
      <3>1. cache'[k] # <<>>
        OBVIOUS
      <3> QED
        BY <1>2, <1>3, <3>1 DEF IInv, NotAhead
    <2> QED
      BY <1>1, <2>1 DEF IInv, NotAhead
  <1>10. InOrder'
    BY <1>1, <1>3 DEF IInv, InOrder
  <1>11. NoLostCaller'
    <2> SUFFICES ASSUME NEW d \in Callers, alive', caller'[d] = "pending"
                 PROVE  \/ fetch'[d] = "pool"
                        \/ PostedTo(d)'
                        \/ Waiting(d, asked[d])' /\ Fetching(asked[d])' # {}
      BY DEF NoLostCaller, PostedTo
    <2>1. \/ fetch[d] = "pool" \/ PostedTo(d)
          \/ Waiting(d, asked[d]) /\ Fetching(asked[d]) # {}
      BY <1>1 DEF IInv, NoLostCaller, PostedTo
    <2>2. asked[d] \in Keys
      BY DEF IInv, TypeOK
    <2>3. Waiting(d, asked[d]) => Waiting(d, asked[d])'
      BY <1>1, <1>4, <2>2 DEF Waiting
    <2>4. Fetching(asked[d])' = Fetching(asked[d])
      BY <1>1 DEF Fetching
    <2> QED
      BY <1>1, <2>1, <2>3, <2>4
  <1> QED
    BY <1>5, <1>6, <1>7, <1>8, <1>9, <1>10, <1>11 DEF IInv

LEMMA RestStep ==
  ASSUME IInv, NEW k \in Keys, cache[k] # <<>>, cache[k][1].result # Pending,
         cache' = Rest(k), UNCHANGED onlyCache
  PROVE  IInv'
  <1>1. Tail(cache[k]) = <<>> /\ cache \in [Keys -> Seq(Entry)]
    BY Types DEF IInv, TypeOK
  <1>2. cache' = [cache EXCEPT ![k] = <<>>]
    BY <1>1 DEF Rest
  <1>3. cache'[k] = <<>> /\ \A j \in Keys : j # k => cache'[j] = cache[j]
    BY <1>1, <1>2
  <1>4. cache' \in [Keys -> Seq(Entry)]
    BY <1>1, <1>2
  <1> QED
    BY <1>3, <1>4, EntriesStep

LEMMA ClearStep ==
  ASSUME IInv, Settled, NEW k \in Keys, clear(k)
  PROVE  IInv'
  <1>1. /\ cache[k] # <<>> /\ Fetching(k) = {} /\ cache' = Rest(k) /\ UNCHANGED onlyCache
    BY DEF clear, Settled
  <1>2. \A c \in Callers : asked[c] = k => ~InQuery(c)
    BY <1>1 DEF Fetching, InQuery
  <1>3. cache[k][1].result # Pending
    BY <1>1, <1>2 DEF IInv, Requests
  <1> QED
    BY <1>1, <1>3, RestStep

LEMMA ExpireStep ==
  ASSUME IInv, NEW k \in Keys, expire(k)
  PROVE  IInv'
  <1>1. /\ cache[k] # <<>> /\ IsOld(Head(cache[k])) /\ cache' = Rest(k) /\ UNCHANGED onlyCache
    BY DEF expire
  <1>2. cache[k][1].result # Pending
    BY <1>1, Types DEF IsOld
  <1> QED
    BY <1>1, <1>2, RestStep

LEMMA ExpireAllStep ==
  ASSUME IInv, expireAll
  PROVE  IInv'
  <1> DEFINE kept(k) == {i \in DOMAIN cache[k] : ~IsOld(cache[k][i])}
  <1>1. /\ cache' = [k \in Keys |-> ElementsAt(cache[k], kept(k))] /\ UNCHANGED onlyCache
    BY DEF expireAll
  <1>2. ASSUME NEW k \in Keys
        PROVE  /\ cache'[k] \in Seq(Entry)
               /\ \/ cache'[k] = cache[k]
                  \/ /\ cache[k] # <<>> /\ cache[k][1].result # Pending /\ cache'[k] = <<>>
    <2>1. cache[k] \in Seq(Entry) /\ kept(k) \in SUBSET DOMAIN cache[k]
      BY Types
    <2>2. /\ cache'[k] \in Seq(Entry) /\ Len(cache'[k]) = Cardinality(kept(k))
          /\ IsFiniteSet(kept(k)) /\ Cardinality(kept(k)) \in Nat
          /\ \A n \in 1 .. Cardinality(kept(k)) : \E i \in kept(k) : cache'[k][n] = cache[k][i]
      <3>1. PICK P : P = kept(k)
        OBVIOUS
      <3>2. cache'[k] = ElementsAt(cache[k], P) /\ P \in SUBSET DOMAIN cache[k]
        BY <1>1, <2>1, <3>1
      <3>3. /\ cache'[k] \in Seq(Entry) /\ Len(cache'[k]) = Cardinality(P)
            /\ IsFiniteSet(P) /\ Cardinality(P) \in Nat
            /\ \A n \in 1 .. Cardinality(P) : \E i \in P : cache'[k][n] = cache[k][i]
        BY <2>1, <3>2, ElementsAtProperties
      <3> QED
        BY <3>1, <3>3
    <2>3. CASE kept(k) = {}
      <3>1. cache'[k] = <<>>
        BY <2>2, <2>3, FS_EmptySet, EmptySeq
      <3>2. cache[k] # <<>> => cache[k][1].result # Pending
        BY <2>3, Types DEF IsOld
      <3> QED
        BY <2>2, <3>1, <3>2
    <2>4. CASE kept(k) # {}
      <3>1. cache[k] # <<>>
        BY <2>4
      <3>2. kept(k) = {1} /\ DOMAIN cache[k] = {1} /\ Len(cache[k]) = 1
        BY <2>4, <3>1, Types
      <3>3. Cardinality(kept(k)) = 1
        BY <3>2, FS_Singleton
      <3>4. Len(cache'[k]) = 1 /\ cache'[k][1] = cache[k][1]
        BY <2>2, <3>2, <3>3
      <3>5. cache'[k] = cache[k]
        BY <2>1, <2>2, <3>2, <3>4, SeqEqual
      <3> QED
        BY <2>2, <3>5
    <2> QED
      BY <2>3, <2>4
  <1>3. cache' \in [Keys -> Seq(Entry)]
    <2>1. DOMAIN cache' = Keys /\ cache' = [k \in Keys |-> cache'[k]]
      BY <1>1
    <2> QED
      BY <1>2, <2>1
  <1> QED
    BY <1>1, <1>2, <1>3, EntriesStep

LEMMA AgeStep ==
  ASSUME IInv, NEW k \in Keys, Age(k)
  PROVE  IInv'
  <1>1. /\ cache' = [cache EXCEPT ![k] = [i \in DOMAIN @ |->
                       [@[i] EXCEPT !.old = cache[k][i].result # Pending]]]
        /\ UNCHANGED onlyCache
        /\ \E i \in DOMAIN cache[k] : cache[k][i].result # Pending
    BY DEF Age
  <1>2. /\ cache \in [Keys -> Seq(Entry)] /\ cache[k] # <<>> /\ DOMAIN cache[k] = {1}
        /\ cache[k][1] \in Entry
    <2>1. cache[k] # <<>>
      BY <1>1
    <2> QED
      BY <2>1, Types DEF IInv, TypeOK
  <1>3. PICK e : e = [cache[k][1] EXCEPT !.old = cache[k][1].result # Pending]
    OBVIOUS
  <1>4. /\ e \in Entry /\ e.receivers = cache[k][1].receivers
        /\ e.result = cache[k][1].result
    BY <1>2, <1>3 DEF Entry
  <1>5. cache[k][1].result # Pending
    BY <1>1, <1>2
  <1>6. cache'[k] = [i \in {1} |-> e] /\ \A j \in Keys : j # k => cache'[j] = cache[j]
    BY <1>1, <1>2, <1>3
  <1>7. /\ cache'[k] \in Seq(Entry) /\ Len(cache'[k]) = 1 /\ DOMAIN cache'[k] = {1}
        /\ cache'[k][1] = e
    <2>1. {1} = 1 .. 1
      OBVIOUS
    <2>2. cache'[k] \in [1 .. 1 -> Entry]
      BY <1>4, <1>6, <2>1
    <2>3. cache'[k] \in Seq(Entry)
      BY <2>2, SeqDef
    <2> QED
      BY <1>6, <2>2, <2>3, LenProperties
  <1>8. cache' \in [Keys -> Seq(Entry)]
    <2>1. DOMAIN cache' = Keys /\ cache' = [j \in Keys |-> cache'[j]]
      BY <1>1, <1>2
    <2> QED
      BY <1>2, <1>6, <1>7, <2>1
  <1>9. \A j \in Keys :
          \/ cache'[j] = cache[j]
          \/ /\ cache[j] # <<>> /\ cache[j][1].result # Pending
             /\ \/ cache'[j] = <<>>
                \/ /\ Len(cache'[j]) = 1 /\ DOMAIN cache'[j] = {1}
                   /\ cache'[j][1].receivers = cache[j][1].receivers
                   /\ cache'[j][1].result = cache[j][1].result
    BY <1>2, <1>4, <1>5, <1>6, <1>7
  <1> QED
    BY <1>1, <1>8, <1>9, EntriesStep

LEMMA DestroyCacheStep ==
  ASSUME IInv, DestroyCache
  PROVE  IInv'
  <1>1. /\ alive' = FALSE /\ cache' = [k \in Keys |-> <<>>]
        /\ fetch' = [c \in Callers |-> "none"] /\ read' = [c \in Callers |-> Error]
        /\ posted' = <<>> /\ UNCHANGED <<dbSource, caller, asked, version>>
    BY DEF DestroyCache
  <1>2. /\ \A k \in Keys : cache'[k] = <<>> /\ \A d : ~Waiting(d, k)'
        /\ \A c \in Callers : ~InQuery(c)' /\ fetch'[c] = "none"
        /\ \A i : i \notin DOMAIN posted' /\ \A d : ~PostedTo(d)'
    BY <1>1 DEF Waiting, InQuery, PostedTo
  <1>3. TypeOK'
    <2>1. <<>> \in Seq(Entry) /\ <<>> \in Seq([to : Callers, value : Result])
      OBVIOUS
    <2> QED
      BY <1>1, <2>1, Types DEF IInv, TypeOK
  <1>4. Requests' /\ Receivers' /\ OnePlace' /\ InOrder'
    BY <1>2 DEF Requests, Receivers, OnePlace, InOrder
  <1>5. NotAhead'
    BY <1>1, <1>2, Types DEF NotAhead
  <1>6. NoLostCaller'
    BY <1>1 DEF NoLostCaller
  <1> QED
    BY <1>3, <1>4, <1>5, <1>6 DEF IInv

LEMMA OtherStep ==
  ASSUME IInv, Write \/ (\E s \in {"Database", "Pool"} : setSource(s)) \/ UNCHANGED vars
  PROVE  IInv'
  <1>1. /\ UNCHANGED <<alive, cache, fetch, read, posted, caller, asked>>
        /\ version' \in 0..MaxVersion /\ version <= version'
        /\ dbSource' \in {"Unset", "Database", "Pool"}
    <2>1. version \in 0..MaxVersion /\ version \in Nat
      BY Types
    <2>2. CASE Write
      BY <2>1, <2>2, ConstantsAssumption DEF Write, cacheVars, IInv, TypeOK
    <2>3. CASE \E s \in {"Database", "Pool"} : setSource(s)
      BY <2>1, <2>3 DEF setSource
    <2>4. CASE UNCHANGED vars
      BY <2>1, <2>4 DEF vars, cacheVars, IInv, TypeOK
    <2> QED
      BY <2>2, <2>3, <2>4
  <1>2. /\ \A d : (InQuery(d)' <=> InQuery(d)) /\ (Open(d)' <=> Open(d))
        /\ \A d : PostedTo(d)' <=> PostedTo(d)
        /\ \A d, k : Waiting(d, k)' <=> Waiting(d, k)
        /\ \A i, j : Answer(i, j)' <=> Answer(i, j)
    BY <1>1 DEF InQuery, Open, PostedTo, Answer, Waiting
  <1>3. TypeOK'
    BY <1>1 DEF IInv, TypeOK
  <1>4. Requests' /\ Receivers' /\ OnePlace'
    BY <1>1, <1>2 DEF IInv, Requests, Receivers, OnePlace
  <1>5. InOrder' /\ NoLostCaller'
    BY <1>1, <1>2 DEF IInv, InOrder, NoLostCaller, Fetching, Waiting
  <1>6. NotAhead'
    <2>1. \A x \in Int : x <= version => x <= version'
      BY <1>1, Types
    <2>2. /\ \A k \in Keys : \A i \in DOMAIN cache[k] : cache[k][i].result \in Int
          /\ \A c \in Callers : read[c] \in Int
          /\ \A i \in DOMAIN posted : posted[i].value \in Int
      <3>1. Result \subseteq Int /\ {Pending} \cup (0..MaxVersion) \subseteq Int
        BY ConstantsAssumption DEF Result, Error, Pending
      <3>2. \A k \in Keys : \A i \in DOMAIN cache[k] : cache[k][i].result \in Int
        <4> SUFFICES ASSUME NEW k \in Keys, NEW i \in DOMAIN cache[k]
                     PROVE  cache[k][i].result \in Int
          OBVIOUS
        <4>1. cache[k] # <<>>
          OBVIOUS
        <4> QED
          BY <3>1, <4>1, Types
      <3> QED
        BY <3>1, <3>2, Types DEF IInv, TypeOK
    <2> QED
      BY <1>1, <2>1, <2>2 DEF IInv, NotAhead
  <1> QED
    BY <1>3, <1>4, <1>5, <1>6 DEF IInv

-----------------------------------------------------------------------------
(***************************************************************************)
(* The theorems.                                                           *)
(***************************************************************************)

LEMMA InitIInv == Init => IInv
  <1> SUFFICES ASSUME Init PROVE IInv
    OBVIOUS
  <1>1. /\ \A k \in Keys : cache[k] = <<>> /\ \A d : ~Waiting(d, k)
        /\ \A c \in Callers : ~InQuery(c) /\ fetch[c] = "none" /\ caller[c] = "none"
        /\ \A i : i \notin DOMAIN posted /\ \A d : ~PostedTo(d)
    BY DEF Init, Waiting, InQuery, PostedTo
  <1>2. TypeOK
    <2>1. <<>> \in Seq(Entry) /\ <<>> \in Seq([to : Callers, value : Result])
      OBVIOUS
    <2>2. 0 \in 0..MaxVersion /\ Error \in Result
      BY ConstantsAssumption DEF Result
    <2> QED
      BY <2>1, <2>2 DEF Init, TypeOK
  <1>3. Requests /\ Receivers /\ OnePlace /\ InOrder
    BY <1>1 DEF Requests, Receivers, OnePlace, InOrder
  <1>4. NotAhead
    BY <1>1 DEF Init, NotAhead, Error
  <1>5. NoLostCaller
    BY <1>1 DEF NoLostCaller
  <1> QED
    BY <1>2, <1>3, <1>4, <1>5 DEF IInv

LEMMA StepIInv ==
  ASSUME Settled, IInv, [Next]_vars
  PROVE  IInv'
  <1>1. ASSUME NEW c \in Callers, NEW k \in Keys, NEW expiring \in BOOLEAN,
               exec(c, k, expiring)
        PROVE  IInv'
    BY <1>1, HitStep, JoinStep, MissStep DEF exec
  <1>2. ASSUME NEW c \in Callers, \/ PoolAnswers(c) \/ QueryRuns(c) \/ ResultArrives(c)
                                  \/ Drop(c) \/ Forget(c)
        PROVE  IInv'
    BY <1>2, PoolAnswersStep, QueryRunsStep, ResultArrivesStep, DropStep, ForgetStep
  <1>3. ASSUME NEW k \in Keys, clear(k) \/ expire(k) \/ Age(k)
        PROVE  IInv'
    BY <1>3, ClearStep, ExpireStep, AgeStep
  <1>4. CASE Deliver \/ expireAll \/ DestroyCache
    BY <1>4, DeliverStep, ExpireAllStep, DestroyCacheStep
  <1>5. CASE Write \/ (\E s \in {"Database", "Pool"} : setSource(s)) \/ UNCHANGED vars
    BY <1>5, OtherStep
  <1> QED
    BY <1>1, <1>2, <1>3, <1>4, <1>5 DEF Next

LEMMA SpecIInv == Settled /\ Spec => []IInv
  <1> SUFFICES ASSUME Settled PROVE Spec => []IInv
    OBVIOUS
  <1>1. IInv /\ [Next]_vars => IInv'
    BY StepIInv
  <1> QED
    BY <1>1, InitIInv, PTL DEF Spec

LEMMA SingleFetch ==
  ASSUME IInv, NEW k \in Keys
  PROVE  Cardinality(Fetching(k)) <= 1
  <1>1. CASE Fetching(k) = {}
    BY <1>1, FS_EmptySet
  <1>2. CASE Fetching(k) # {}
    <2>1. PICK c : c \in Fetching(k)
      BY <1>2
    <2>2. Fetching(k) = {c}
      BY <2>1 DEF IInv, Requests, Fetching
    <2>3. Cardinality({c}) = 1
      BY FS_Singleton
    <2> QED
      BY <2>2, <2>3
  <1> QED
    BY <1>1, <1>2

\* For any number of calls and keys: each entry without a result has its one request,
\* and each caller that waits has something that will answer it, however requests fail,
\* expire and are abandoned; unless exec() comes while a request of the key is at the
\* pool or clear() while one is under way.
THEOREM SpecEntriesSound == Settled /\ Spec => []EntriesSound
  <1>1. ASSUME IInv PROVE EntriesSound
    <2>1. ASSUME NEW k \in Keys
          PROVE  /\ Cardinality(Fetching(k)) <= 1 /\ Len(cache[k]) <= 1
                 /\ cache[k] # <<>> /\ Head(cache[k]).result = Pending
                      <=> \E c \in Fetching(k) : fetch[c] \in {"exec", "done"}
      <3>1. cache[k] # <<>> => Head(cache[k]) = cache[k][1]
        BY <1>1, Types
      <3>2. (\E c \in Fetching(k) : fetch[c] \in {"exec", "done"})
              <=> \E c \in Callers : InQuery(c) /\ asked[c] = k
        BY DEF Fetching, InQuery
      <3>3. Cardinality(Fetching(k)) <= 1
        BY <1>1, SingleFetch
      <3> QED
        BY <1>1, <3>1, <3>2, <3>3 DEF IInv, Requests
    <2> QED
      BY <1>1, <2>1 DEF EntriesSound, OneRequest, IInv
  <1> QED
    BY <1>1, SpecIInv, PTL

\* In the same circumstances a callback is queued at most once and is nowhere else
\* then, and none is queued that was invoked.
THEOREM SpecAnsweredOnce == Settled /\ Spec => []AnsweredOnce
  <1>1. ASSUME IInv PROVE AnsweredOnce
    <2>1. \A c \in Callers :
            caller[c] = "answered" \/ (\E i \in DOMAIN posted : posted[i].to = c)
              => ~Waiting(c, asked[c])
      BY <1>1 DEF IInv, TypeOK, OnePlace, Open, PostedTo
    <2>2. \A i \in DOMAIN posted : caller[posted[i].to] # "answered"
      BY <1>1 DEF IInv, OnePlace, Open
    <2> QED
      BY <1>1, <2>1, <2>2 DEF AnsweredOnce, IInv, OnePlace
  <1> QED
    BY <1>1, SpecIInv, PTL

\* In the same circumstances the callers of a key see its data move forward only.
THEOREM SpecReadsInOrder == Settled /\ Spec => []ReadsInOrder
  <1>1. ASSUME IInv PROVE ReadsInOrder
    <2> SUFFICES ASSUME NEW k \in Keys
                 PROVE  LET ofKey(i) == asked[posted[i].to] = k /\ posted[i].value # Error
                            cached == {e \in {cache[k][i] : i \in DOMAIN cache[k]} :
                                         e.result # Pending}
                            coming == {c \in Fetching(k) : fetch[c] = "done" /\ read[c] # Error}
                        IN /\ \A i, j \in DOMAIN posted :
                                i < j /\ ofKey(i) /\ ofKey(j)
                                  => posted[i].value <= posted[j].value
                           /\ \A i \in DOMAIN posted : ofKey(i) =>
                                \A e \in cached : posted[i].value <= e.result
                           /\ \A c \in coming :
                                /\ \A e \in cached : e.result <= read[c]
                                /\ \A i \in DOMAIN posted : ofKey(i)
                                     => posted[i].value <= read[c]
      BY DEF ReadsInOrder
    <2> DEFINE cached == {e \in {cache[k][i] : i \in DOMAIN cache[k]} : e.result # Pending}
               coming == {c \in Fetching(k) : fetch[c] = "done" /\ read[c] # Error}
    <2>1. \A e \in cached : cache[k] # <<>> /\ e = cache[k][1] /\ cache[k][1].result # Pending
      <3> SUFFICES ASSUME NEW i \in DOMAIN cache[k], cache[k][i].result # Pending
                   PROVE  /\ cache[k] # <<>> /\ cache[k][i] = cache[k][1]
                          /\ cache[k][1].result # Pending
        OBVIOUS
      <3>1. cache[k] # <<>>
        OBVIOUS
      <3>2. i = 1
        BY <1>1, <3>1, Types
      <3> QED
        BY <3>1, <3>2
    <2>2. \A c \in coming : /\ c \in Callers /\ fetch[c] = "done" /\ asked[c] = k
                            /\ read[c] # Error /\ InQuery(c)
      BY DEF Fetching, InQuery
    <2> HIDE DEF cached, coming
    <2>3. \A c \in coming : cached = {}
      BY <1>1, <2>1, <2>2 DEF IInv, Requests
    <2>4. /\ \A i, j \in DOMAIN posted :
               i < j /\ Answer(i, k) /\ Answer(j, k) => posted[i].value <= posted[j].value
          /\ \A i \in DOMAIN posted : Answer(i, k) =>
               \A e \in cached : posted[i].value <= e.result
          /\ \A c \in coming : \A i \in DOMAIN posted : Answer(i, k)
               => posted[i].value <= read[c]
      BY <1>1, <2>1, <2>2 DEF IInv, InOrder
    <2> QED
      BY <2>3, <2>4 DEF Answer, cached, coming
  <1> QED
    BY <1>1, SpecIInv, PTL

=============================================================================
