----------------------- MODULE ADriverThreaded_proofs -----------------------
(***************************************************************************)
(* A driver with a thread of its own, for any calls and any interleaving:  *)
(* the driver object (ADriverThreaded) is held for what is on its way and  *)
(* no longer, and opens once; its steps are those of DriverContract; and   *)
(* the statements of its worker (AStatements) are right whatever the jobs  *)
(* come to.                                                                *)
(***************************************************************************)
EXTENDS ADriverThreadedRefinement, AStatements, FiniteSetTheorems, SequenceTheorems, TLAPS

-----------------------------------------------------------------------------
(***************************************************************************)
(* The inductive invariant.                                                *)
(***************************************************************************)

\* A last result of q is to come, or in line.
Due(q) ==
  q \in Range(jobs) \/ \E k \in DOMAIN Line : Line[k].last /\ Line[k].query = q

\* A query is with the worker, or its last result is behind all its others; until then
\* each of its results has the last one to come.
InLine ==
  /\ IsInjective(jobs)
  /\ \A i \in DOMAIN Line :
       /\ Line[i].last =>
            /\ Line[i].query \notin Range(jobs)
            /\ \A k \in DOMAIN Line : i < k => Line[k].query # Line[i].query
       /\ ~Line[i].last => Due(Line[i].query)

\* The same for the result that is being handed over.
Promised ==
  /\ todo = "count" <=> promise # NoResult
  /\ promise.last =>
       /\ promise.query \notin Range(jobs)
       /\ \A k \in DOMAIN Line : Line[k].query # promise.query
  /\ todo = "count" /\ ~promise.last => Due(promise.query)

\* A caller that waits has its query on its way, or is among the waiters of open().
Expected ==
  \A c \in waiting :
    IF c \in Queries THEN Due(c) ELSE c \in Range(openWaiters) \cup Range(emitting)

OpenEvents == {"opened", "openFailed"}

\* One open is on its way while the driver is connecting: with the worker, or signalled.
Opening ==
  /\ OpenJob \in Range(jobs) =>
       state = "Connecting" /\ ~dbOpen /\ listeners = 1 /\ Range(posted) \cap OpenEvents = {}
  /\ OpenJob \notin Range(jobs) =>
       listeners = 0 /\ (state = "Connecting" <=> Range(posted) \cap OpenEvents # {})
  /\ \A i, k \in DOMAIN posted : posted[i] \in OpenEvents /\ posted[k] \in OpenEvents => i = k
  /\ "opened" \in Range(posted) => dbOpen
  /\ "openFailed" \in Range(posted) => ~dbOpen
  /\ state = "Connected" => dbOpen
  /\ state = "Disconnected" => ~dbOpen
  /\ openWaiters # <<>> => state = "Connecting"

\* The handler has the results and the waiters that it took.
Handling ==
  /\ todo = "deliver" => batch # <<>>
  /\ batch # <<>> => todo \in {"deliver", "count"}
  /\ emitting # <<>> => todo = "emit"

\* A driver that is destroyed has nothing on its way.
Ended ==
  life # "alive" =>
    /\ jobs = <<>> /\ batch = <<>> /\ ready = <<>> /\ todo = "none"
    /\ openWaiters = <<>> /\ waiting = {} /\ ~owner /\ state # "Connecting"
    /\ life = "deleted" => step = "run"

Counted == IsFiniteSet(Unfinished) /\ QueueSizeExact

IInv ==
  /\ TypeOK /\ InLine /\ Promised /\ Expected /\ Opening /\ Handling /\ Ended /\ Counted
  /\ ResultNoticed

-----------------------------------------------------------------------------
(***************************************************************************)
(* Sequences by their members.                                             *)
(***************************************************************************)

LEMMA RangeAppend ==
  ASSUME NEW S, NEW s \in Seq(S), NEW e \in S
  PROVE  /\ Append(s, e) \in Seq(S) /\ Range(Append(s, e)) = Range(s) \cup {e}
         /\ Len(s) \in Nat /\ DOMAIN s = 1 .. Len(s)
         /\ DOMAIN Append(s, e) = 1 .. Len(s) + 1 /\ Append(s, e)[Len(s) + 1] = e
         /\ \A i \in DOMAIN s : Append(s, e)[i] = s[i]
         /\ \A i \in DOMAIN Append(s, e) : i \in DOMAIN s \/ i = Len(s) + 1
         /\ IsInjective(s) /\ e \notin Range(s) => IsInjective(Append(s, e))
  <1> DEFINE t == Append(s, e)
  <1>1. /\ t \in Seq(S) /\ Len(t) = Len(s) + 1 /\ t[Len(s) + 1] = e
        /\ \A i \in 1 .. Len(s) : t[i] = s[i]
    BY AppendProperties
  <1> HIDE DEF t
  <1>2. Len(s) \in Nat /\ DOMAIN s = 1 .. Len(s) /\ DOMAIN t = 1 .. Len(s) + 1
    BY <1>1, LenProperties
  <1>3. \A i \in DOMAIN t : (i \in DOMAIN s /\ t[i] = s[i]) \/ (i = Len(s) + 1 /\ t[i] = e)
    BY <1>1, <1>2
  <1>4. DOMAIN s \subseteq DOMAIN t /\ Len(s) + 1 \in DOMAIN t
    BY <1>2
  <1>5. Range(t) = Range(s) \cup {e}
    BY <1>1, <1>2, <1>3, <1>4 DEF Range
  <1>6. e \notin Range(s) => \A i \in DOMAIN s : s[i] # e
    BY DEF Range
  <1>7. IsInjective(s) /\ e \notin Range(s) => IsInjective(t)
    BY <1>3, <1>6 DEF IsInjective
  <1> QED
    BY <1>1, <1>2, <1>3, <1>5, <1>7 DEF t

LEMMA RangeTail ==
  ASSUME NEW S, NEW s \in Seq(S), s # <<>>
  PROVE  /\ Head(s) \in S /\ Tail(s) \in Seq(S) /\ Head(s) = s[1]
         /\ Range(s) = Range(Tail(s)) \cup {Head(s)}
         /\ 1 \in DOMAIN s /\ DOMAIN s \subseteq Nat
         /\ \A i \in DOMAIN Tail(s) : i + 1 \in DOMAIN s /\ 1 < i + 1 /\ Tail(s)[i] = s[i + 1]
         /\ \A i \in DOMAIN s : i # 1 => i - 1 \in DOMAIN Tail(s) /\ s[i] = Tail(s)[i - 1]
         /\ IsInjective(s) => IsInjective(Tail(s)) /\ Head(s) \notin Range(Tail(s))
  <1>1. /\ Len(s) \in Nat /\ DOMAIN s = 1 .. Len(s) /\ Len(s) >= 1
    BY LenProperties, EmptySeq
  <1>2. /\ Head(s) \in S /\ Tail(s) \in Seq(S) /\ Len(Tail(s)) = Len(s) - 1
        /\ \A i \in 1 .. Len(Tail(s)) : Tail(s)[i] = s[i + 1]
    BY HeadTailProperties
  <1>3. Head(s) = s[1]
    OBVIOUS
  <1>4. DOMAIN Tail(s) = 1 .. (Len(s) - 1)
    BY <1>2, LenProperties
  <1>5. \A i \in DOMAIN Tail(s) : i + 1 \in DOMAIN s /\ 1 < i + 1 /\ Tail(s)[i] = s[i + 1]
    BY <1>1, <1>2, <1>4
  <1>6. \A i \in DOMAIN s : i # 1 => i - 1 \in DOMAIN Tail(s) /\ s[i] = Tail(s)[i - 1]
    BY <1>1, <1>2, <1>4
  <1>7. 1 \in DOMAIN s /\ DOMAIN s \subseteq Nat
    BY <1>1
  <1>8. \A x : x \in Range(s) <=> x = Head(s) \/ x \in Range(Tail(s))
    <2>1. ASSUME NEW i \in DOMAIN s PROVE s[i] = Head(s) \/ s[i] \in Range(Tail(s))
      BY <1>3, <1>6 DEF Range
    <2>2. ASSUME NEW i \in DOMAIN Tail(s) PROVE Tail(s)[i] \in Range(s)
      BY <1>5 DEF Range
    <2>3. Head(s) \in Range(s)
      BY <1>3, <1>7 DEF Range
    <2> QED
      BY <2>1, <2>2, <2>3 DEF Range
  <1>9. ASSUME IsInjective(s) PROVE IsInjective(Tail(s)) /\ Head(s) \notin Range(Tail(s))
    <2>1. ASSUME NEW a \in DOMAIN Tail(s), NEW b \in DOMAIN Tail(s), Tail(s)[a] = Tail(s)[b]
          PROVE  a = b
      <3>1. a + 1 = b + 1
        BY <1>5, <1>9, <2>1 DEF IsInjective
      <3> QED
        BY <1>1, <1>4, <3>1
    <2>2. ASSUME NEW a \in DOMAIN Tail(s) PROVE Tail(s)[a] # Head(s)
      <3>1. s[a + 1] # s[1]
        BY <1>4, <1>5, <1>7, <1>9 DEF IsInjective
      <3> QED
        BY <1>3, <1>5, <3>1
    <2> QED
      BY <2>1, <2>2 DEF IsInjective, Range
  <1>10. Range(s) = Range(Tail(s)) \cup {Head(s)}
    BY <1>8
  <1> QED
    BY <1>2, <1>3, <1>5, <1>6, <1>7, <1>9, <1>10

LEMMA AppendConcat ==
  ASSUME NEW S, NEW s \in Seq(S), NEW t \in Seq(S), NEW e \in S
  PROVE  s \o Append(t, e) = Append(s \o t, e)
  <1>1. <<e>> \in Seq(S) /\ s \o t \in Seq(S)
    BY ConcatProperties
  <1>2. (s \o t) \o <<e>> = s \o (t \o <<e>>)
    BY <1>1, ConcatAssociative
  <1>3. Append(s \o t, e) = (s \o t) \o <<e>>
    BY <1>1, AppendIsConcat
  <1>4. Append(t, e) = t \o <<e>>
    BY AppendIsConcat
  <1> QED
    BY <1>2, <1>3, <1>4

LEMMA TailConcat ==
  ASSUME NEW S, NEW s \in Seq(S), NEW t \in Seq(S), s # <<>>
  PROVE  /\ s \o t \in Seq(S) /\ s \o t # <<>>
         /\ Head(s \o t) = Head(s) /\ Tail(s \o t) = Tail(s) \o t
  <1> DEFINE u == s \o t
             h == Head(s)
             r == Tail(s)
  <1>1. /\ Len(s) \in Nat /\ Len(t) \in Nat /\ Len(s) >= 1
    BY LenProperties, EmptySeq
  <1>2. /\ u \in Seq(S) /\ Len(u) = Len(s) + Len(t)
        /\ \A i \in 1 .. Len(s) + Len(t) : u[i] = IF i <= Len(s) THEN s[i] ELSE t[i - Len(s)]
    BY ConcatProperties
  <1>3. /\ h = s[1] /\ r \in Seq(S) /\ Len(r) = Len(s) - 1
        /\ \A i \in 1 .. Len(r) : r[i] = s[i + 1]
    BY HeadTailProperties
  <1>4. u # <<>>
    BY <1>1, <1>2, EmptySeq
  <1>5. /\ Head(u) = u[1] /\ Tail(u) \in Seq(S) /\ Len(Tail(u)) = Len(u) - 1
        /\ \A i \in 1 .. Len(Tail(u)) : Tail(u)[i] = u[i + 1]
    BY <1>2, <1>4, HeadTailProperties
  <1>6. /\ r \o t \in Seq(S) /\ Len(r \o t) = Len(r) + Len(t)
        /\ \A i \in 1 .. Len(r) + Len(t) : (r \o t)[i] = IF i <= Len(r) THEN r[i]
                                                                        ELSE t[i - Len(r)]
    BY <1>3, ConcatProperties
  <1> HIDE DEF u, r, h
  <1>7. Head(u) = h
    BY <1>1, <1>2, <1>3, <1>5
  <1>8. Len(Tail(u)) = Len(r \o t)
    BY <1>1, <1>2, <1>3, <1>5, <1>6
  <1>9. \A i \in 1 .. Len(Tail(u)) : Tail(u)[i] = (r \o t)[i]
    <2> SUFFICES ASSUME NEW i \in 1 .. Len(Tail(u)) PROVE Tail(u)[i] = (r \o t)[i]
      OBVIOUS
    <2>1. CASE i <= Len(r)
      BY <1>1, <1>2, <1>3, <1>5, <1>6, <2>1
    <2>2. CASE ~(i <= Len(r))
      <3>1. i + 1 \in 1 .. Len(s) + Len(t) /\ ~(i + 1 <= Len(s)) /\ i + 1 - Len(s) = i - Len(r)
        BY <1>1, <1>2, <1>3, <1>5, <2>2
      <3>2. Tail(u)[i] = t[i + 1 - Len(s)]
        BY <1>2, <1>5, <3>1
      <3>3. (r \o t)[i] = t[i - Len(r)]
        BY <1>6, <1>8, <2>2
      <3> QED
        BY <3>1, <3>2, <3>3
    <2> QED
      BY <2>1, <2>2
  <1>10. Tail(u) = r \o t
    BY <1>5, <1>6, <1>8, <1>9, SeqEqual
  <1> QED
    BY <1>2, <1>4, <1>7, <1>10 DEF u, r, h

-----------------------------------------------------------------------------
(***************************************************************************)
(* What is on its way.                                                     *)
(***************************************************************************)

\* What the steps use of the types.
LEMMA Types ==
  ASSUME IInv
  PROVE  /\ batch \in Seq(Results) /\ ready \in Seq(Results) /\ Line \in Seq(Results)
         /\ jobs \in Seq(Queries \cup {OpenJob}) /\ Range(jobs) \subseteq Queries \cup {OpenJob}
         /\ posted \in Seq({"queryReady", "opened", "openFailed"})
         /\ openWaiters \in Seq(Opens) /\ emitting \in Seq(Opens)
         /\ \A i \in DOMAIN Line : Line[i].query \in Queries /\ Line[i].last \in BOOLEAN
         /\ DOMAIN Line \subseteq Nat
         /\ promise \in Results \cup {NoResult}
         /\ promise.last => promise.query \in Queries
         /\ promise # NoResult => promise.query \in Queries /\ promise.last \in BOOLEAN
         /\ queueSize \in Nat /\ listeners \in Nat
         /\ OpenJob \notin Queries /\ NoQuery \notin Queries /\ Queries \cap Opens = {}
  <1>1. batch \in Seq(Results) /\ ready \in Seq(Results) /\ Line \in Seq(Results)
    BY ConcatProperties DEF IInv, TypeOK, Line
  <1>2. \A i \in DOMAIN Line : Line[i] \in Results
    BY <1>1, ElementOfSeq, LenProperties
  <1>3. \A x \in Results : x.query \in Queries /\ x.last \in BOOLEAN
    BY DEF Results
  <1>4. jobs \in Seq(Queries \cup {OpenJob})
    BY DEF IInv, TypeOK
  <1>5. Range(jobs) \subseteq Queries \cup {OpenJob}
    BY <1>4, ElementOfSeq, LenProperties DEF Range
  <1>6. DOMAIN Line \subseteq Nat
    BY <1>1, LenProperties
  <1>7. promise \in Results \cup {NoResult} /\ NoResult.last = FALSE
    BY DEF IInv, TypeOK, NoResult
  <1>8. /\ posted \in Seq({"queryReady", "opened", "openFailed"})
        /\ openWaiters \in Seq(Opens) /\ emitting \in Seq(Opens)
        /\ queueSize \in Nat /\ listeners \in Nat
    BY DEF IInv, TypeOK
  <1> QED
    BY <1>1, <1>2, <1>3, <1>4, <1>5, <1>6, <1>7, <1>8, ConstantsAssumption

\* Unfinished by its members.
LEMMA Members ==
  ASSUME NEW js, Range(js) \subseteq Queries \cup {OpenJob},
         NEW line, \A i \in DOMAIN line : line[i].query \in Queries,
         NEW p, p.last => p.query \in Queries
  PROVE  (Range(js) \ {OpenJob}) \cup {r.query : r \in {x \in Range(line) \cup {p} : x.last}}
         = {q \in Queries : \/ q \in Range(js)
                            \/ \E k \in DOMAIN line : line[k].last /\ line[k].query = q
                            \/ p.last /\ p.query = q}
  <1>1. \A r \in Range(line) : r.query \in Queries
    BY DEF Range
  <1>2. \A q : q \in {r.query : r \in {x \in Range(line) \cup {p} : x.last}} <=>
               \/ \E k \in DOMAIN line : line[k].last /\ line[k].query = q
               \/ p.last /\ p.query = q
    BY DEF Range
  <1> QED
    BY <1>1, <1>2, ConstantsAssumption

LEMMA UnfinishedIs ==
  ASSUME IInv
  PROVE  Unfinished = {q \in Queries : Due(q) \/ (promise.last /\ promise.query = q)}
  <1>1. Unfinished = {q \in Queries : \/ q \in Range(jobs)
                                      \/ \E k \in DOMAIN Line : Line[k].last /\ Line[k].query = q
                                      \/ promise.last /\ promise.query = q}
    <2>1. PICK js, line, p : js = jobs /\ line = Line /\ p = promise
      OBVIOUS
    <2>2. (Range(js) \ {OpenJob}) \cup {r.query : r \in {x \in Range(line) \cup {p} : x.last}}
          = {q \in Queries : \/ q \in Range(js)
                             \/ \E k \in DOMAIN line : line[k].last /\ line[k].query = q
                             \/ p.last /\ p.query = q}
      <3>1. /\ Range(js) \subseteq Queries \cup {OpenJob}
            /\ \A i \in DOMAIN line : line[i].query \in Queries
            /\ p.last => p.query \in Queries
        BY <2>1, Types
      <3> QED
        BY <3>1, Members
    <2> QED
      BY <2>1, <2>2 DEF Unfinished, Line
  <1> QED
    BY <1>1 DEF Due

LEMMA UnfinishedNext ==
  ASSUME Range(jobs)' \subseteq Queries \cup {OpenJob},
         \A i \in DOMAIN Line' : Line'[i].query \in Queries,
         promise'.last => promise'.query \in Queries
  PROVE  Unfinished' = {q \in Queries : Due(q)' \/ (promise'.last /\ promise'.query = q)}
  <1>1. Unfinished' = {q \in Queries : \/ q \in Range(jobs)'
                                       \/ \E k \in DOMAIN Line' : Line'[k].last /\ Line'[k].query = q
                                       \/ promise'.last /\ promise'.query = q}
    <2>1. PICK js, line, p : js = jobs' /\ line = Line' /\ p = promise'
      OBVIOUS
    <2>2. (Range(js) \ {OpenJob}) \cup {r.query : r \in {x \in Range(line) \cup {p} : x.last}}
          = {q \in Queries : \/ q \in Range(js)
                             \/ \E k \in DOMAIN line : line[k].last /\ line[k].query = q
                             \/ p.last /\ p.query = q}
      BY <2>1, Members
    <2> QED
      BY <2>1, <2>2 DEF Unfinished, Line
  <1> QED
    BY <1>1 DEF Due

\* A step that leaves the worker's jobs and the results.
LEMMA SameLine ==
  ASSUME IInv, UNCHANGED <<jobs, batch, ready>>
  PROVE  /\ InLine' /\ Line' = Line /\ \A q : Due(q)' = Due(q)
         /\ promise' = promise => Unfinished' = Unfinished
  <1>1. Line' = Line
    BY DEF Line
  <1>2. \A q : Due(q)' = Due(q)
    BY <1>1 DEF Due
  <1> QED
    BY <1>1, <1>2 DEF IInv, InLine, Unfinished

LEMMA SameOpening ==
  ASSUME IInv, UNCHANGED <<state, jobs, posted, listeners, dbOpen, openWaiters>>
  PROVE  Opening'
  BY DEF IInv, Opening

\* When nothing is counted, nothing is left.
LEMMA Nothing ==
  ASSUME IInv, \A q \in Queries : ~Due(q), state # "Connecting", emitting = <<>>
  PROVE  jobs = <<>> /\ batch = <<>> /\ ready = <<>> /\ openWaiters = <<>> /\ waiting = {}
  <1>1. Range(jobs) = {}
    BY Types DEF IInv, Opening, Due
  <1>2. DOMAIN Line = {}
    BY Types DEF IInv, InLine, Due
  <1>3. jobs = <<>> /\ Line = <<>>
    <2>1. DOMAIN jobs = {}
      BY <1>1 DEF Range
    <2> QED
      BY <1>2, <2>1, Types, LenProperties, EmptySeq
  <1>4. batch = <<>> /\ ready = <<>>
    BY <1>3, Types, ConcatEqualIffEmpty DEF Line
  <1>5. openWaiters = <<>>
    BY DEF IInv, Opening
  <1>6. Range(openWaiters) = {} /\ Range(emitting) = {}
    BY <1>5 DEF Range
  <1>7. waiting = {}
    BY <1>6 DEF IInv, Expected
  <1> QED
    BY <1>3, <1>4, <1>5, <1>7

LEMMA InitIInv == ASSUME Init PROVE IInv
  <1>1. /\ Range(jobs) = {} /\ Line = <<>> /\ DOMAIN Line = {} /\ Range(posted) = {}
        /\ DOMAIN posted = {} /\ promise.last = FALSE
    BY DEF Init, Fresh, Range, Line, NoResult
  <1>2. Unfinished = {}
    <2>1. Unfinished = {q \in Queries : \/ q \in Range(jobs)
                                        \/ \E k \in DOMAIN Line : Line[k].last /\ Line[k].query = q
                                        \/ promise.last /\ promise.query = q}
      BY <1>1, Members DEF Unfinished, Line
    <2> QED
      BY <1>1, <2>1
  <1>3. TypeOK
    <2>1. /\ openWaiters \in Seq(Opens) /\ emitting \in Seq(Opens)
          /\ posted \in Seq({"queryReady", "opened", "openFailed"})
          /\ jobs \in Seq(Queries \cup {OpenJob})
          /\ ready \in Seq(Results) /\ batch \in Seq(Results)
      BY EmptySeq DEF Init, Fresh
    <2>2. stored \in 0 .. (MaxResults - 1) /\ listeners \in Nat /\ queueSize \in Nat
      BY ConstantsAssumption DEF Init, Fresh
    <2> QED
      BY <2>1, <2>2 DEF Init, Fresh, TypeOK
  <1>4. Counted
    BY <1>2, FS_EmptySet DEF Init, Fresh, Counted, QueueSizeExact, One
  <1>5. InLine /\ Promised /\ Expected /\ Opening /\ Handling /\ Ended /\ ResultNoticed
    BY <1>1 DEF Init, Fresh, InLine, Promised, Expected, Opening, Handling, Ended, ResultNoticed,
                IsInjective, NoResult, OpenEvents
  <1> QED
    BY <1>3, <1>4, <1>5 DEF IInv

\* A request for the worker.
LEMMA JobsAppend ==
  ASSUME IInv, NEW j \in Queries \cup {OpenJob}, j \notin Range(jobs),
         jobs' = Append(jobs, j), UNCHANGED <<batch, ready>>
  PROVE  /\ Range(jobs)' = Range(jobs) \cup {j} /\ IsInjective(jobs)' /\ Line' = Line
         /\ jobs' \in Seq(Queries \cup {OpenJob})
         /\ \A q : Due(q)' <=> Due(q) \/ q = j
  <1>1. /\ Range(jobs)' = Range(jobs) \cup {j} /\ IsInjective(jobs)'
        /\ jobs' \in Seq(Queries \cup {OpenJob})
    BY Types, RangeAppend DEF IInv, InLine
  <1>2. Line' = Line
    BY DEF Line
  <1> QED
    BY <1>1, <1>2 DEF Due

\* A signal of the worker.
LEMMA PostedAppend ==
  ASSUME IInv, NEW e \in {"queryReady", "opened", "openFailed"}, posted' = Append(posted, e),
         e \in OpenEvents => Range(posted) \cap OpenEvents = {}
  PROVE  /\ Range(posted)' = Range(posted) \cup {e}
         /\ posted' \in Seq({"queryReady", "opened", "openFailed"})
         /\ \A i, k \in DOMAIN posted' :
              posted'[i] \in OpenEvents /\ posted'[k] \in OpenEvents => i = k
  <1>1. /\ Range(posted)' = Range(posted) \cup {e} /\ posted' \in Seq({"queryReady", "opened", "openFailed"})
        /\ posted'[Len(posted) + 1] = e
        /\ \A i \in DOMAIN posted : posted'[i] = posted[i]
        /\ \A i \in DOMAIN posted' : i \in DOMAIN posted \/ i = Len(posted) + 1
    <2> DEFINE S == {"queryReady", "opened", "openFailed"}
    <2>1. posted \in Seq(S) /\ e \in S
      BY Types
    <2> HIDE DEF S
    <2>2. /\ Range(Append(posted, e)) = Range(posted) \cup {e} /\ Append(posted, e) \in Seq(S)
          /\ Append(posted, e)[Len(posted) + 1] = e
          /\ \A i \in DOMAIN posted : Append(posted, e)[i] = posted[i]
          /\ \A i \in DOMAIN Append(posted, e) : i \in DOMAIN posted \/ i = Len(posted) + 1
      BY <2>1, RangeAppend
    <2> QED
      BY <2>2 DEF S
  <1>2. \A i \in DOMAIN posted : posted[i] \in Range(posted)
    BY DEF Range
  <1> QED
    BY <1>1, <1>2 DEF IInv, Opening

\* An event of the driver.
LEMMA PostedTail ==
  ASSUME IInv, posted # <<>>, posted' = Tail(posted)
  PROVE  /\ Range(posted) = Range(posted)' \cup {Head(posted)}
         /\ posted' \in Seq({"queryReady", "opened", "openFailed"})
         /\ \A i, k \in DOMAIN posted' :
              posted'[i] \in OpenEvents /\ posted'[k] \in OpenEvents => i = k
         /\ Head(posted) \in OpenEvents => Range(posted)' \cap OpenEvents = {}
  <1>1. /\ Range(posted) = Range(posted)' \cup {Head(posted)}
        /\ posted' \in Seq({"queryReady", "opened", "openFailed"})
        /\ Head(posted) = posted[1] /\ 1 \in DOMAIN posted
        /\ \A i \in DOMAIN posted' :
             i + 1 \in DOMAIN posted /\ 1 < i + 1 /\ posted'[i] = posted[i + 1]
    BY Types, RangeTail
  <1>2. DOMAIN posted' \subseteq Nat
    BY <1>1, LenProperties
  <1>3. ASSUME NEW i \in DOMAIN posted', NEW k \in DOMAIN posted',
               posted'[i] \in OpenEvents, posted'[k] \in OpenEvents
        PROVE  i = k
    <2>1. i + 1 = k + 1
      BY <1>1, <1>3 DEF IInv, Opening
    <2> QED
      BY <1>2, <2>1
  <1>4. ASSUME Head(posted) \in OpenEvents, NEW i \in DOMAIN posted', posted'[i] \in OpenEvents
        PROVE  FALSE
    <2>1. i + 1 = 1
      BY <1>1, <1>4 DEF IInv, Opening
    <2> QED
      BY <1>1, <1>2, <2>1
  <1>5. Head(posted) \in OpenEvents => Range(posted)' \cap OpenEvents = {}
    BY <1>4 DEF Range
  <1> QED
    BY <1>1, <1>3, <1>5

LEMMA Idles ==
  ASSUME IInv, Idle
  PROVE  batch = <<>> /\ emitting = <<>> /\ promise = NoResult /\ promise.last = FALSE
  BY DEF IInv, Idle, Handling, Promised, NoResult

-----------------------------------------------------------------------------
(***************************************************************************)
(* One lemma for each action of the application.                           *)
(***************************************************************************)

LEMMA OpenJoinsStep ==
  ASSUME IInv, NEW o \in Opens, OpenJoins(o)
  PROVE  IInv'
  <1>1. /\ life = "alive" /\ state = "Connecting" /\ waiting' = waiting \cup {o}
        /\ openWaiters' = Append(openWaiters, o)
        /\ UNCHANGED <<state, listeners, queueSize, selfDriver, owner, life, posted, jobs, step,
                       stored, dbOpen, ready, todo, batch, promise, emitting, callback>>
    BY DEF OpenJoins, OpenCall, AppRuns, counted, lifetime, worker, handler
  <1>2. openWaiters' \in Seq(Opens) /\ Range(openWaiters)' = Range(openWaiters) \cup {o}
    BY <1>1, Types, RangeAppend
  <1>3. TypeOK'
    BY <1>1, <1>2 DEF IInv, TypeOK
  <1>4. InLine' /\ Line' = Line /\ Unfinished' = Unfinished /\ \A q : Due(q)' = Due(q)
    BY <1>1, SameLine
  <1>5. Promised' /\ Handling' /\ Ended' /\ ResultNoticed'
    BY <1>1, <1>4 DEF IInv, Promised, Handling, Ended, ResultNoticed
  <1>6. Counted'
    BY <1>1, <1>4 DEF IInv, Counted, QueueSizeExact
  <1>7. Expected'
    BY <1>1, <1>2, <1>4, Types DEF IInv, Expected
  <1>8. Opening'
    BY <1>1 DEF IInv, Opening
  <1> QED
    BY <1>3, <1>4, <1>5, <1>6, <1>7, <1>8 DEF IInv

LEMMA OpenStartsStep ==
  ASSUME IInv, NEW o \in Opens, OpenStarts(o)
  PROVE  IInv'
  <1>1. /\ life = "alive" /\ state = "Disconnected" /\ state' = "Connecting"
        /\ waiting' = waiting \cup {o} /\ openWaiters' = Append(openWaiters, o)
        /\ listeners' = listeners + 1 /\ queueSize' = queueSize + 1 /\ selfDriver' = TRUE
        /\ jobs' = Append(jobs, OpenJob)
        /\ UNCHANGED <<owner, life, posted, step, stored, dbOpen, ready, todo, batch, promise,
                       emitting, callback>>
    BY DEF OpenStarts, OpenCall, AppRuns, Post, lifetime, worker, handler
  <1>2. /\ openWaiters' \in Seq(Opens) /\ Range(openWaiters)' = Range(openWaiters) \cup {o}
    BY <1>1, Types, RangeAppend
  <1>3. OpenJob \notin Range(jobs) /\ listeners = 0 /\ Range(posted) \cap OpenEvents = {} /\ ~dbOpen
    BY <1>1 DEF IInv, Opening
  <1>4. /\ Range(jobs)' = Range(jobs) \cup {OpenJob} /\ IsInjective(jobs)' /\ Line' = Line
        /\ jobs' \in Seq(Queries \cup {OpenJob})
        /\ \A q \in Queries : Due(q)' <=> Due(q)
    BY <1>1, <1>3, JobsAppend, ConstantsAssumption
  <1>5. TypeOK'
    BY <1>1, <1>2, <1>3, <1>4, Types DEF IInv, TypeOK
  <1>6. InLine'
    BY <1>4, Types DEF IInv, InLine
  <1>7. Promised' /\ Handling' /\ Ended' /\ ResultNoticed'
    BY <1>1, <1>4, Types DEF IInv, Promised, Handling, Ended, ResultNoticed
  <1>8. Unfinished' = Unfinished
    BY <1>1, <1>4, Types, UnfinishedIs, UnfinishedNext
  <1>9. Counted'
    BY <1>1, <1>8, Types, FS_CardinalityType DEF IInv, Counted, QueueSizeExact, One
  <1>10. Expected'
    BY <1>1, <1>2, <1>4, Types DEF IInv, Expected
  <1>11. Opening'
    BY <1>1, <1>3, <1>4 DEF IInv, Opening
  <1> QED
    BY <1>5, <1>6, <1>7, <1>9, <1>10, <1>11 DEF IInv

LEMMA ExecStep ==
  ASSUME IInv, NEW q \in Queries, exec(q)
  PROVE  IInv'
  <1>1. /\ life = "alive" /\ q \notin Unfinished
        /\ waiting' = waiting \cup {q} /\ queueSize' = queueSize + 1 /\ selfDriver' = TRUE
        /\ jobs' = Append(jobs, q)
        /\ UNCHANGED <<state, openWaiters, listeners, owner, life, posted, step, stored, dbOpen,
                       ready, todo, batch, promise, emitting, callback>>
    BY DEF exec, AppRuns, Post, lifetime, worker, handler
  <1>2. ~Due(q) /\ (promise.last => promise.query # q)
    BY <1>1, UnfinishedIs
  <1>3. q \notin Range(jobs) /\ (\A i \in DOMAIN Line : Line[i].query # q)
    <2>1. q \notin Range(jobs)
      BY <1>2 DEF Due
    <2>2. ASSUME NEW i \in DOMAIN Line, Line[i].query = q PROVE FALSE
      BY <1>2, <2>2, Types DEF IInv, InLine, Due
    <2> QED
      BY <2>1, <2>2
  <1>4. /\ Range(jobs)' = Range(jobs) \cup {q} /\ IsInjective(jobs)' /\ Line' = Line
        /\ jobs' \in Seq(Queries \cup {OpenJob})
        /\ \A x : Due(x)' <=> Due(x) \/ x = q
    BY <1>1, <1>3, JobsAppend
  <1>5. TypeOK'
    BY <1>1, <1>4, Types DEF IInv, TypeOK
  <1>6. InLine'
    BY <1>3, <1>4, Types DEF IInv, InLine
  <1>7. Promised' /\ Handling' /\ Ended' /\ ResultNoticed'
    BY <1>1, <1>2, <1>4, Types DEF IInv, Promised, Handling, Ended, ResultNoticed
  <1>8. Unfinished' = Unfinished \cup {q}
    BY <1>1, <1>4, Types, UnfinishedIs, UnfinishedNext
  <1>9. IsFiniteSet(Unfinished') /\ Cardinality(Unfinished') = Cardinality(Unfinished) + 1
    BY <1>1, <1>8, FS_AddElement DEF IInv, Counted
  <1>10. Counted'
    BY <1>1, <1>9, Types, FS_CardinalityType DEF IInv, Counted, QueueSizeExact, One
  <1>11. Expected'
    BY <1>1, <1>4, Types DEF IInv, Expected
  <1>12. Opening'
    BY <1>1, <1>4, Types DEF IInv, Opening
  <1> QED
    BY <1>5, <1>6, <1>7, <1>10, <1>11, <1>12 DEF IInv

LEMMA DropStep ==
  ASSUME IInv, NEW c, Drop(c)
  PROVE  IInv'
  <1>1. /\ life = "alive" /\ waiting' = waiting \ {c}
        /\ UNCHANGED <<state, openWaiters, listeners, queueSize, selfDriver, owner, life, posted,
                       jobs, step, stored, dbOpen, ready, todo, batch, promise, emitting, callback>>
    BY DEF Drop, AppRuns, counted, lifetime, worker, handler
  <1>2. TypeOK'
    BY <1>1 DEF IInv, TypeOK
  <1>3. InLine' /\ Line' = Line /\ Unfinished' = Unfinished /\ \A q : Due(q)' = Due(q)
    BY <1>1, SameLine
  <1>4. Promised' /\ Handling' /\ Ended' /\ ResultNoticed' /\ Expected' /\ Opening'
    BY <1>1, <1>3, SameOpening
       DEF IInv, Promised, Handling, Ended, ResultNoticed, Expected
  <1>5. Counted'
    BY <1>1, <1>3 DEF IInv, Counted, QueueSizeExact
  <1> QED
    BY <1>2, <1>3, <1>4, <1>5 DEF IInv

\* The counter is zero when nothing is on its way.
LEMMA Zero ==
  ASSUME IInv, life = "alive", queueSize = 0
  PROVE  /\ jobs = <<>> /\ batch = <<>> /\ ready = <<>> /\ openWaiters = <<>> /\ waiting = {}
         /\ state # "Connecting" /\ todo = "none"
  <1>1. IsFiniteSet(Unfinished) /\ Cardinality(Unfinished) \in Nat
    BY FS_CardinalityType DEF IInv, Counted
  <1>2. state # "Connecting" /\ todo # "emit" /\ Cardinality(Unfinished) = 0
    BY <1>1 DEF IInv, Counted, QueueSizeExact, One
  <1>3. Unfinished = {}
    BY <1>1, <1>2, FS_EmptySet
  <1>4. (\A q \in Queries : ~Due(q)) /\ ~promise.last
    BY <1>3, UnfinishedIs, Types
  <1>5. emitting = <<>>
    BY <1>2 DEF IInv, Handling
  <1>6. todo # "count"
    BY <1>4, Types DEF IInv, Promised
  <1>7. jobs = <<>> /\ batch = <<>> /\ ready = <<>> /\ openWaiters = <<>> /\ waiting = {}
    BY <1>2, <1>4, <1>5, Nothing
  <1>8. todo # "deliver"
    BY <1>7 DEF IInv, Handling
  <1> QED
    BY <1>2, <1>6, <1>7, <1>8 DEF IInv, TypeOK

LEMMA ReleaseStep ==
  ASSUME IInv, Release
  PROVE  IInv'
  <1>1. /\ life = "alive" /\ owner' = FALSE /\ life' = IF selfDriver THEN life ELSE "joining"
        /\ UNCHANGED <<state, openWaiters, waiting, listeners, queueSize, selfDriver, posted,
                       jobs, step, stored, dbOpen, ready, todo, batch, promise, emitting, callback>>
    BY DEF Release, AppRuns, counted, worker, handler
  <1>2. TypeOK'
    BY <1>1 DEF IInv, TypeOK
  <1>3. InLine' /\ Line' = Line /\ Unfinished' = Unfinished /\ \A q : Due(q)' = Due(q)
    BY <1>1, SameLine
  <1>4. Promised' /\ Handling' /\ ResultNoticed' /\ Expected' /\ Opening'
    BY <1>1, <1>3, SameOpening
       DEF IInv, Promised, Handling, ResultNoticed, Expected
  <1>5. Counted'
    BY <1>1, <1>3 DEF IInv, Counted, QueueSizeExact
  <1>6. Ended'
    <2>1. ~selfDriver => queueSize = 0
      BY <1>1, Types DEF IInv, Counted, QueueSizeExact
    <2> QED
      BY <1>1, <2>1, Zero DEF Ended
  <1> QED
    BY <1>2, <1>3, <1>4, <1>5, <1>6 DEF IInv

LEMMA RecreateStep ==
  ASSUME IInv, Recreate
  PROVE  IInv'
  <1>1. /\ life = "deleted" /\ life' = "alive" /\ Idle
        /\ state' = "Disconnected" /\ openWaiters' = <<>> /\ listeners' = 0
        /\ queueSize' = 0 /\ owner' = TRUE /\ selfDriver' = FALSE /\ posted' = <<>> /\ jobs' = <<>>
        /\ step' = "run" /\ stored' = 0 /\ dbOpen' = FALSE /\ ready' = <<>>
        /\ UNCHANGED <<waiting, todo, batch, promise, emitting, callback>>
    BY DEF Recreate, handler
  <1>2. /\ batch = <<>> /\ emitting = <<>> /\ promise = NoResult /\ promise.last = FALSE
        /\ waiting = {} /\ ready = <<>> /\ jobs = <<>>
    BY <1>1, Idles DEF IInv, Ended
  <1>3. TypeOK'
    <2>1. /\ openWaiters' \in Seq(Opens)
          /\ posted' \in Seq({"queryReady", "opened", "openFailed"})
          /\ jobs' \in Seq(Queries \cup {OpenJob}) /\ ready' \in Seq(Results)
      BY <1>1, EmptySeq
    <2>2. stored' \in 0 .. (MaxResults - 1) /\ listeners' \in Nat /\ queueSize' \in Nat
      BY <1>1, ConstantsAssumption
    <2> QED
      BY <1>1, <2>1, <2>2 DEF IInv, TypeOK
  <1>4. /\ InLine' /\ Line' = Line /\ Unfinished' = Unfinished /\ \A q : Due(q)' = Due(q)
    BY <1>1, <1>2, SameLine
  <1>5. Unfinished = {}
    <2>1. Range(jobs) = {}
      BY <1>2 DEF Range
    <2>2. DOMAIN Line = {}
      BY <1>2, ConcatEmptySeq, EmptySeq DEF Line
    <2>3. \A q \in Queries : ~Due(q)
      BY <2>1, <2>2 DEF Due
    <2> QED
      BY <1>2, <2>3, UnfinishedIs
  <1>6. Counted'
    BY <1>1, <1>4, <1>5, FS_EmptySet DEF Counted, QueueSizeExact, One, Idle
  <1>7. Range(jobs)' = {} /\ Range(posted)' = {} /\ DOMAIN posted' = {}
    BY <1>1 DEF Range
  <1>8. Promised' /\ Handling' /\ ResultNoticed' /\ Expected' /\ Opening' /\ Ended'
    BY <1>1, <1>2, <1>7
       DEF Idle, Promised, Handling, ResultNoticed, Expected, Opening, Ended, NoResult
  <1> QED
    BY <1>3, <1>4, <1>6, <1>8 DEF IInv

-----------------------------------------------------------------------------
(***************************************************************************)
(* One lemma for each action of the worker.                                *)
(***************************************************************************)

\* The job that is over, or is dropped, is the first.
LEMMA JobsTail ==
  ASSUME IInv, NEW j, Runs(j)
  PROVE  /\ life = "alive" /\ j \in Range(jobs) /\ j \in Queries \cup {OpenJob} /\ step = "run"
         /\ Tail(jobs) \in Seq(Queries \cup {OpenJob}) /\ IsInjective(Tail(jobs))
         /\ Range(Tail(jobs)) = Range(jobs) \ {j}
  <1>1. jobs # <<>> /\ Head(jobs) = j /\ step = "run" /\ IsInjective(jobs)
    BY DEF Runs, IInv, InLine
  <1> QED
    BY <1>1, Types, RangeTail DEF IInv, Ended

LEMMA WorkerOpensStep ==
  ASSUME IInv, NEW ok \in BOOLEAN, WorkerOpens(ok)
  PROVE  IInv'
  <1> DEFINE e == IF ok THEN "opened" ELSE "openFailed"
  <1>1. /\ Runs(OpenJob) /\ jobs' = Tail(jobs) /\ dbOpen' = ok
        /\ posted' = posted \o [i \in 1..listeners |-> e]
        /\ listeners' = 0 /\ step' = "tail"
        /\ UNCHANGED <<state, openWaiters, waiting, queueSize, selfDriver, owner, life, stored,
                       ready, todo, batch, promise, emitting, callback>>
    BY DEF WorkerOpens, counted, lifetime, handler
  <1>2. e \in OpenEvents /\ (e = "opened" <=> ok)
    BY DEF OpenEvents
  <1> HIDE DEF e
  <1>3. /\ life = "alive" /\ OpenJob \in Range(jobs)
        /\ jobs' \in Seq(Queries \cup {OpenJob}) /\ IsInjective(jobs')
        /\ Range(jobs)' = Range(jobs) \ {OpenJob}
    BY <1>1, JobsTail
  <1>4. state = "Connecting" /\ listeners = 1 /\ Range(posted) \cap OpenEvents = {}
    BY <1>3 DEF IInv, Opening
  <1>5. posted' = Append(posted, e)
    <2>1. [i \in 1 .. 1 |-> e] = <<e>>
      OBVIOUS
    <2>2. e \in {"queryReady", "opened", "openFailed"}
      BY <1>2 DEF OpenEvents
    <2>3. Append(posted, e) = posted \o <<e>>
      <3> DEFINE S == {"queryReady", "opened", "openFailed"}
      <3>1. posted \in Seq(S) /\ e \in S
        BY <2>2, Types
      <3> HIDE DEF S
      <3> QED
        BY <3>1, AppendIsConcat
    <2> QED
      BY <1>1, <1>4, <2>1, <2>3
  <1>6. /\ Range(posted)' = Range(posted) \cup {e}
        /\ posted' \in Seq({"queryReady", "opened", "openFailed"})
        /\ \A i, k \in DOMAIN posted' :
             posted'[i] \in OpenEvents /\ posted'[k] \in OpenEvents => i = k
    BY <1>2, <1>4, <1>5, PostedAppend DEF OpenEvents
  <1>7. TypeOK'
    BY <1>1, <1>3, <1>6 DEF IInv, TypeOK
  <1>8. Line' = Line
    BY <1>1 DEF Line
  <1>9. \A q \in Queries : Due(q)' <=> Due(q)
    BY <1>3, <1>8, Types DEF Due
  <1>10. InLine'
    BY <1>3, <1>8, <1>9, Types DEF IInv, InLine
  <1>11. Promised' /\ Handling' /\ Ended'
    BY <1>1, <1>3, <1>8, <1>9, Types DEF IInv, Promised, Handling, Ended
  <1>12. ResultNoticed'
    BY <1>1, <1>3, <1>6 DEF IInv, ResultNoticed, Runs
  <1>13. Unfinished' = Unfinished
    BY <1>1, <1>3, <1>8, <1>9, Types, UnfinishedIs, UnfinishedNext
  <1>14. Counted' /\ Expected'
    BY <1>1, <1>9, <1>13 DEF IInv, Counted, QueueSizeExact, Expected
  <1>15. Opening'
    <2>1. OpenJob \notin Range(jobs)' /\ Range(posted)' \cap OpenEvents = {e}
      BY <1>2, <1>3, <1>4, <1>6
    <2>2. "opened" \in Range(posted)' => ok
      BY <1>2, <2>1 DEF OpenEvents
    <2>3. "openFailed" \in Range(posted)' => ~ok
      BY <1>2, <2>1 DEF OpenEvents
    <2> QED
      BY <1>1, <1>4, <1>6, <2>1, <2>2, <2>3 DEF Opening
  <1> QED
    BY <1>7, <1>10, <1>11, <1>12, <1>14, <1>15 DEF IInv

\* A result is stored behind the others.
LEMMA LineAppend ==
  ASSUME IInv, NEW r \in Results, ready' = Append(ready, r), batch' = batch
  PROVE  /\ ready' \in Seq(Results) /\ Line' = Append(Line, r) /\ ready' # <<>>
         /\ Len(Line) + 1 \in DOMAIN Line' /\ Line'[Len(Line) + 1] = r
         /\ \A i \in DOMAIN Line :
              i \in DOMAIN Line' /\ Line'[i] = Line[i] /\ i < Len(Line) + 1
         /\ \A i \in DOMAIN Line' : i \in DOMAIN Line \/ i = Len(Line) + 1
  <1>1. ready' \in Seq(Results) /\ ready' # <<>>
    BY Types, AppendProperties
  <1>2. Line' = Append(Line, r)
    BY Types, AppendConcat DEF Line
  <1>3. /\ Len(Line) \in Nat /\ DOMAIN Line = 1 .. Len(Line)
        /\ DOMAIN Append(Line, r) = 1 .. Len(Line) + 1 /\ Append(Line, r)[Len(Line) + 1] = r
        /\ \A i \in DOMAIN Line : Append(Line, r)[i] = Line[i]
    BY Types, RangeAppend
  <1> QED
    BY <1>1, <1>2, <1>3

LEMMA StoreMoreStep ==
  ASSUME IInv, NEW q \in Queries, StoreMore(q)
  PROVE  IInv'
  <1> DEFINE r == [query |-> q, n |-> stored + 1, last |-> FALSE]
  <1>1. /\ Runs(q) /\ stored + 1 < MaxResults /\ stored' = stored + 1 /\ step' = "more"
        /\ ready' = Append(ready, r)
        /\ UNCHANGED <<state, openWaiters, waiting, listeners, queueSize, selfDriver, owner, life,
                       posted, jobs, dbOpen, todo, batch, promise, emitting, callback>>
    BY DEF StoreMore, counted, lifetime, handler
  <1>2. stored \in 0 .. (MaxResults - 1) /\ MaxResults \in Nat \ {0}
    BY ConstantsAssumption DEF IInv, TypeOK
  <1>3. r \in Results /\ r.query = q /\ r.last = FALSE
    BY <1>1, <1>2 DEF Results
  <1> HIDE DEF r
  <1>4. life = "alive" /\ q \in Range(jobs)
    BY <1>1, JobsTail
  <1>5. /\ ready' \in Seq(Results) /\ Line' = Append(Line, r) /\ ready' # <<>>
        /\ Len(Line) + 1 \in DOMAIN Line' /\ Line'[Len(Line) + 1] = r
        /\ \A i \in DOMAIN Line :
             i \in DOMAIN Line' /\ Line'[i] = Line[i] /\ i < Len(Line) + 1
        /\ \A i \in DOMAIN Line' : i \in DOMAIN Line \/ i = Len(Line) + 1
    BY <1>1, <1>3, LineAppend
  <1>6. TypeOK'
    <2>1. stored' \in 0 .. (MaxResults - 1)
      BY <1>1, <1>2
    <2> QED
      BY <1>1, <1>5, <2>1 DEF IInv, TypeOK
  <1>7. \A x : Due(x)' <=> Due(x)
    BY <1>1, <1>3, <1>5 DEF Due
  <1>8. InLine'
    <2>1. Due(q)
      BY <1>4 DEF Due
    <2>2. \A i \in DOMAIN Line : Line[i].last => Line[i].query # q
      BY <1>4 DEF IInv, InLine
    <2>3. ASSUME NEW i \in DOMAIN Line'
          PROVE  /\ Line'[i].last =>
                      /\ Line'[i].query \notin Range(jobs)
                      /\ \A k \in DOMAIN Line' : i < k => Line'[k].query # Line'[i].query
                 /\ ~Line'[i].last => Due(Line'[i].query)
      <3>1. CASE i \in DOMAIN Line
        BY <1>3, <1>5, <2>2, <3>1 DEF IInv, InLine
      <3>2. CASE i = Len(Line) + 1
        BY <1>3, <1>5, <2>1, <3>2
      <3> QED
        BY <1>5, <3>1, <3>2
    <2> QED
      BY <1>1, <1>7, <2>3 DEF IInv, InLine
  <1>9. Promised'
    <2>1. promise.last => promise.query # q
      BY <1>4 DEF IInv, Promised
    <2> QED
      BY <1>1, <1>3, <1>5, <1>7, <2>1 DEF IInv, Promised
  <1>10. Handling' /\ Ended' /\ ResultNoticed' /\ Opening' /\ Expected'
    BY <1>1, <1>4, <1>7, SameOpening DEF IInv, Handling, Ended, ResultNoticed, Expected
  <1>11. Unfinished' = Unfinished
    <2>1. \A i \in DOMAIN Line' : Line'[i].query \in Queries
      BY <1>3, <1>5, Types
    <2> QED
      BY <1>1, <1>7, <2>1, Types, UnfinishedIs, UnfinishedNext
  <1>12. Counted'
    BY <1>1, <1>11 DEF IInv, Counted, QueueSizeExact
  <1> QED
    BY <1>6, <1>8, <1>9, <1>10, <1>12 DEF IInv

LEMMA StoreLastStep ==
  ASSUME IInv, NEW q \in Queries, StoreLast(q)
  PROVE  IInv'
  <1> DEFINE r == [query |-> q, n |-> stored + 1, last |-> TRUE]
  <1>1. /\ Runs(q) /\ stored' = 0 /\ step' = "last" /\ jobs' = Tail(jobs)
        /\ ready' = Append(ready, r)
        /\ UNCHANGED <<state, openWaiters, waiting, listeners, queueSize, selfDriver, owner, life,
                       posted, dbOpen, todo, batch, promise, emitting, callback>>
    BY DEF StoreLast, counted, lifetime, handler
  <1>2. stored \in 0 .. (MaxResults - 1) /\ MaxResults \in Nat \ {0}
    BY ConstantsAssumption DEF IInv, TypeOK
  <1>3. r \in Results /\ r.query = q /\ r.last = TRUE
    BY <1>1, <1>2 DEF Results
  <1> HIDE DEF r
  <1>4. /\ life = "alive" /\ q \in Range(jobs)
        /\ jobs' \in Seq(Queries \cup {OpenJob}) /\ IsInjective(jobs')
        /\ Range(jobs)' = Range(jobs) \ {q}
    BY <1>1, JobsTail
  <1>5. /\ ready' \in Seq(Results) /\ Line' = Append(Line, r) /\ ready' # <<>>
        /\ Len(Line) + 1 \in DOMAIN Line' /\ Line'[Len(Line) + 1] = r
        /\ \A i \in DOMAIN Line :
             i \in DOMAIN Line' /\ Line'[i] = Line[i] /\ i < Len(Line) + 1
        /\ \A i \in DOMAIN Line' : i \in DOMAIN Line \/ i = Len(Line) + 1
    BY <1>1, <1>3, LineAppend
  <1>6. TypeOK'
    <2>1. stored' \in 0 .. (MaxResults - 1)
      BY <1>1, <1>2
    <2> QED
      BY <1>1, <1>4, <1>5, <2>1 DEF IInv, TypeOK
  <1>7. \A x : Due(x)' <=> Due(x)
    <2>1. ASSUME NEW x, Due(x)' PROVE Due(x)
      BY <1>3, <1>4, <1>5, <2>1 DEF Due
    <2>2. ASSUME NEW x, Due(x) PROVE Due(x)'
      BY <1>3, <1>4, <1>5, <2>2 DEF Due
    <2> QED
      BY <2>1, <2>2
  <1>8. InLine'
    <2>1. \A i \in DOMAIN Line : Line[i].last => Line[i].query # q
      BY <1>4 DEF IInv, InLine
    <2>2. \A k \in DOMAIN Line' : ~(Len(Line) + 1 < k)
      <3>1. Len(Line) \in Nat /\ DOMAIN Line' \subseteq Int
        BY <1>5, Types, LenProperties
      <3> QED
        BY <1>5, <3>1
    <2>3. ASSUME NEW i \in DOMAIN Line'
          PROVE  /\ Line'[i].last =>
                      /\ Line'[i].query \notin Range(jobs)'
                      /\ \A k \in DOMAIN Line' : i < k => Line'[k].query # Line'[i].query
                 /\ ~Line'[i].last => Due(Line'[i].query)
      <3>1. CASE i \in DOMAIN Line
        BY <1>3, <1>4, <1>5, <2>1, <3>1 DEF IInv, InLine
      <3>2. CASE i = Len(Line) + 1
        BY <1>3, <1>4, <1>5, <2>2, <3>2
      <3> QED
        BY <1>5, <3>1, <3>2
    <2> QED
      BY <1>1, <1>4, <1>7, <2>3 DEF InLine
  <1>9. Promised'
    <2>1. promise.last => promise.query # q
      BY <1>4 DEF IInv, Promised
    <2> QED
      BY <1>1, <1>3, <1>4, <1>5, <1>7, <2>1 DEF IInv, Promised
  <1>10. Handling' /\ Ended' /\ ResultNoticed' /\ Expected'
    BY <1>1, <1>4, <1>7 DEF IInv, Handling, Ended, ResultNoticed, Expected
  <1>11. Opening'
    BY <1>1, <1>4, Types DEF IInv, Opening
  <1>12. Unfinished' = Unfinished
    <2>1. \A i \in DOMAIN Line' : Line'[i].query \in Queries
      BY <1>3, <1>5, Types
    <2> QED
      BY <1>1, <1>4, <1>7, <2>1, Types, UnfinishedIs, UnfinishedNext
  <1>13. Counted'
    BY <1>1, <1>12 DEF IInv, Counted, QueueSizeExact
  <1> QED
    BY <1>6, <1>8, <1>9, <1>10, <1>11, <1>13 DEF IInv

LEMMA SignalStep ==
  ASSUME IInv, NEW next \in {"run", "tail"}, step \in {"more", "last"}, SignalReady(next)
  PROVE  IInv'
  <1>1. /\ posted' = Append(posted, "queryReady") /\ step' = next
        /\ UNCHANGED <<state, openWaiters, waiting, listeners, queueSize, selfDriver, owner, life,
                       jobs, stored, dbOpen, ready, todo, batch, promise, emitting, callback>>
    BY DEF SignalReady, counted, lifetime, handler
  <1>2. /\ Range(posted)' = Range(posted) \cup {"queryReady"}
        /\ posted' \in Seq({"queryReady", "opened", "openFailed"})
        /\ \A i, k \in DOMAIN posted' :
             posted'[i] \in OpenEvents /\ posted'[k] \in OpenEvents => i = k
    BY <1>1, PostedAppend DEF OpenEvents
  <1>3. TypeOK'
    BY <1>1, <1>2 DEF IInv, TypeOK
  <1>4. InLine' /\ Line' = Line /\ Unfinished' = Unfinished /\ \A q : Due(q)' = Due(q)
    BY <1>1, SameLine
  <1>5. Promised' /\ Handling' /\ Expected' /\ Ended'
    BY <1>1, <1>4 DEF IInv, Promised, Handling, Expected, Ended
  <1>6. Counted'
    BY <1>1, <1>4 DEF IInv, Counted, QueueSizeExact
  <1>7. ResultNoticed'
    BY <1>2 DEF ResultNoticed
  <1>8. Opening'
    <2>1. Range(posted)' \cap OpenEvents = Range(posted) \cap OpenEvents
      BY <1>2 DEF OpenEvents
    <2> QED
      BY <1>1, <1>2, <2>1 DEF IInv, Opening
  <1> QED
    BY <1>3, <1>4, <1>5, <1>6, <1>7, <1>8 DEF IInv

LEMMA WorkerEndsStep ==
  ASSUME IInv, WorkerEnds
  PROVE  IInv'
  <1>1. /\ step = "tail" /\ step' = "run"
        /\ UNCHANGED <<state, openWaiters, waiting, listeners, queueSize, selfDriver, owner, life,
                       posted, jobs, stored, dbOpen, ready, todo, batch, promise, emitting,
                       callback>>
    BY DEF WorkerEnds, counted, lifetime, handler
  <1>2. TypeOK'
    BY <1>1 DEF IInv, TypeOK
  <1>3. InLine' /\ Line' = Line /\ Unfinished' = Unfinished /\ \A q : Due(q)' = Due(q)
    BY <1>1, SameLine
  <1>4. Promised' /\ Handling' /\ Expected' /\ Ended' /\ ResultNoticed' /\ Opening'
    BY <1>1, <1>3, SameOpening
       DEF IInv, Promised, Handling, Expected, Ended, ResultNoticed
  <1>5. Counted'
    BY <1>1, <1>3 DEF IInv, Counted, QueueSizeExact
  <1> QED
    BY <1>2, <1>3, <1>4, <1>5 DEF IInv

-----------------------------------------------------------------------------
(***************************************************************************)
(* One lemma for each step of the handlers.                                *)
(***************************************************************************)

\* A handler that begins.
LEMMA TakesEvent ==
  ASSUME IInv, NEW e, Takes(e)
  PROVE  /\ life = "alive" /\ Idle /\ e = Head(posted) /\ e \in Range(posted)
         /\ batch = <<>> /\ emitting = <<>> /\ promise = NoResult
         /\ Range(posted) = Range(posted)' \cup {e}
         /\ posted' \in Seq({"queryReady", "opened", "openFailed"})
         /\ \A i, k \in DOMAIN posted' :
              posted'[i] \in OpenEvents /\ posted'[k] \in OpenEvents => i = k
         /\ e \in OpenEvents => Range(posted)' \cap OpenEvents = {}
  <1>1. /\ life = "alive" /\ Idle /\ posted # <<>> /\ Head(posted) = e /\ posted' = Tail(posted)
    BY DEF Takes
  <1> QED
    BY <1>1, PostedTail, Idles

LEMMA TakeReadyStep ==
  ASSUME IInv, TakeReady
  PROVE  IInv'
  <1>1. /\ Takes("queryReady") /\ batch' = ready /\ ready' = <<>>
        /\ todo' = IF ready = <<>> THEN "none" ELSE "deliver"
        /\ UNCHANGED <<state, openWaiters, waiting, listeners, queueSize, selfDriver, owner, life,
                       jobs, step, stored, dbOpen, promise, emitting>>
        /\ callback' = FALSE
    BY DEF TakeReady, counted, lifetime
  <1>2. /\ life = "alive" /\ Idle /\ batch = <<>> /\ emitting = <<>> /\ promise = NoResult
        /\ Range(posted) = Range(posted)' \cup {"queryReady"}
        /\ posted' \in Seq({"queryReady", "opened", "openFailed"})
        /\ \A i, k \in DOMAIN posted' :
             posted'[i] \in OpenEvents /\ posted'[k] \in OpenEvents => i = k
    BY <1>1, TakesEvent
  <1>3. Line' = Line
    BY <1>1, <1>2, Types, ConcatEmptySeq DEF Line
  <1>4. \A q : Due(q)' = Due(q)
    BY <1>1, <1>3 DEF Due
  <1>5. InLine' /\ Unfinished' = Unfinished
    <2>1. Unfinished' = Unfinished
      BY <1>1, <1>3, <1>4, Types, UnfinishedIs, UnfinishedNext
    <2> QED
      BY <1>1, <1>3, <1>4, <2>1 DEF IInv, InLine
  <1>6. TypeOK'
    <2>1. ready' \in Seq(Results) /\ batch' \in Seq(Results)
      BY <1>1, Types, EmptySeq
    <2> QED
      BY <1>1, <1>2, <2>1 DEF IInv, TypeOK
  <1>7. Promised' /\ Expected' /\ Ended' /\ Handling' /\ ResultNoticed'
    BY <1>1, <1>2, <1>3, <1>4
       DEF IInv, Promised, Expected, Ended, Handling, ResultNoticed, Idle
  <1>8. Counted'
    BY <1>1, <1>2, <1>5 DEF IInv, Counted, QueueSizeExact, One, Idle
  <1>9. Opening'
    <2>1. Range(posted)' \cap OpenEvents = Range(posted) \cap OpenEvents
      BY <1>2 DEF OpenEvents
    <2> QED
      BY <1>1, <1>2, <2>1 DEF IInv, Opening
  <1> QED
    BY <1>5, <1>6, <1>7, <1>8, <1>9 DEF IInv

LEMMA DeliverNextStep ==
  ASSUME IInv, DeliverNext
  PROVE  IInv'
  <1> DEFINE r == Head(batch)
  <1>1. /\ todo = "deliver" /\ promise' = r
        /\ waiting' \in {waiting \ {r.query}} \cup IF r.last THEN {} ELSE {waiting}
        /\ callback' = (r.query \in waiting)
        /\ batch' = Tail(batch) /\ todo' = "count"
        /\ UNCHANGED <<state, openWaiters, listeners, queueSize, selfDriver, owner, life, posted,
                       jobs, step, stored, dbOpen, ready, emitting>>
    BY DEF DeliverNext, At, counted, lifetime, worker
  <1>2. batch # <<>> /\ life = "alive" /\ emitting = <<>> /\ promise = NoResult
    BY <1>1 DEF IInv, Handling, Ended, Promised
  <1>3. /\ batch' \in Seq(Results) /\ r \in Results
        /\ Line # <<>> /\ Head(Line) = r /\ Line' = Tail(Line)
    <2>1. batch \in Seq(Results) /\ ready \in Seq(Results)
      BY Types
    <2>2. r \in Results /\ Tail(batch) \in Seq(Results)
      BY <1>2, <2>1, HeadTailProperties
    <2>3. /\ batch \o ready # <<>> /\ Head(batch \o ready) = r
          /\ Tail(batch \o ready) = Tail(batch) \o ready
      BY <1>2, <2>1, TailConcat
    <2>4. Line' = Tail(batch) \o ready
      BY <1>1 DEF Line
    <2> QED
      BY <1>1, <2>2, <2>3, <2>4 DEF Line
  <1>4. /\ r.query \in Queries /\ r.last \in BOOLEAN /\ r # NoResult /\ promise.last = FALSE
    BY <1>2, <1>3, Types DEF Results, NoResult
  <1>5. /\ 1 \in DOMAIN Line /\ Line[1] = r /\ DOMAIN Line \subseteq Nat
        /\ \A i \in DOMAIN Line' : i + 1 \in DOMAIN Line /\ 1 < i + 1 /\ Line'[i] = Line[i + 1]
        /\ \A i \in DOMAIN Line : i # 1 => i - 1 \in DOMAIN Line' /\ Line[i] = Line'[i - 1]
    BY <1>3, Types, RangeTail
  <1>6. DOMAIN Line' \subseteq Nat
    BY <1>3, Types, HeadTailProperties, LenProperties
  <1> HIDE DEF r
  \* What was due is due, but for the query whose last result is handed over.
  <1>7. \A q : Due(q) <=> Due(q)' \/ (r.last /\ q = r.query)
    <2>1. ASSUME NEW q, Due(q)' PROVE Due(q)
      BY <1>1, <1>5, <2>1 DEF Due
    <2>2. ASSUME NEW q, Due(q), ~(r.last /\ q = r.query) PROVE Due(q)'
      <3>1. CASE q \in Range(jobs)
        BY <1>1, <3>1 DEF Due
      <3>2. CASE q \notin Range(jobs)
        <4>1. PICK k \in DOMAIN Line : Line[k].last /\ Line[k].query = q
          BY <2>2, <3>2 DEF Due
        <4>2. k # 1
          BY <1>5, <2>2, <4>1
        <4> QED
          BY <1>5, <4>1, <4>2 DEF Due
      <3> QED
        BY <3>1, <3>2
    <2>3. ASSUME r.last PROVE Due(r.query)
      BY <1>5, <2>3 DEF Due
    <2> QED
      BY <2>1, <2>2, <2>3
  <1>8. r.last => r.query \notin Range(jobs) /\ \A k \in DOMAIN Line' : Line'[k].query # r.query
    BY <1>5, Types DEF IInv, InLine
  <1>9. \A q : r.last /\ q = r.query => ~Due(q)'
    BY <1>1, <1>8 DEF Due
  <1>10. InLine'
    <2>1. ASSUME NEW i \in DOMAIN Line'
          PROVE  /\ Line'[i].last =>
                      /\ Line'[i].query \notin Range(jobs)'
                      /\ \A k \in DOMAIN Line' : i < k => Line'[k].query # Line'[i].query
                 /\ ~Line'[i].last => Due(Line[i].query)'
      <3>1. /\ Line[i + 1].last =>
                 /\ Line[i + 1].query \notin Range(jobs)
                 /\ \A k \in DOMAIN Line : i + 1 < k => Line[k].query # Line[i + 1].query
            /\ ~Line[i + 1].last => Due(Line[i + 1].query)
        BY <1>5 DEF IInv, InLine
      <3>2. ~Line'[i].last => Due(Line[i].query)'
        BY <1>5, <1>7, <1>8, <3>1
      <3>3. ASSUME Line'[i].last, NEW k \in DOMAIN Line', i < k
            PROVE  Line'[k].query # Line'[i].query
        <4>1. i + 1 < k + 1
          BY <1>6, <3>3
        <4> QED
          BY <1>5, <3>1, <3>3, <4>1
      <3> QED
        BY <1>1, <1>5, <3>1, <3>2, <3>3
    <2> QED
      BY <1>1, <2>1 DEF IInv, InLine
  <1>11. TypeOK'
    BY <1>1, <1>3 DEF IInv, TypeOK
  <1>12. Promised'
    <2>1. ~r.last => Due(promise.query)'
      <3>1. ~r.last => Due(r.query)
        BY <1>5 DEF IInv, InLine
      <3> QED
        BY <1>1, <1>7, <3>1
    <2> QED
      BY <1>1, <1>4, <1>8, <2>1 DEF Promised
  <1>13. Expected'
    <2>1. waiting' \subseteq waiting /\ (r.last => r.query \notin waiting')
      BY <1>1, <1>4
    <2> QED
      BY <1>1, <1>7, <2>1 DEF IInv, Expected
  <1>14. Unfinished' = Unfinished
    <2>1. \A i \in DOMAIN Line' : Line'[i].query \in Queries
      BY <1>5, Types
    <2>2. Unfinished' = {q \in Queries : Due(q)' \/ (promise'.last /\ promise'.query = q)}
      BY <1>1, <1>4, <2>1, Types, UnfinishedNext
    <2> QED
      BY <1>1, <1>4, <1>7, <2>2, UnfinishedIs
  <1>15. Counted'
    BY <1>1, <1>2, <1>14 DEF IInv, Counted, QueueSizeExact, One
  <1>16. Handling' /\ Ended' /\ ResultNoticed' /\ Opening'
    BY <1>1, <1>2, SameOpening DEF IInv, Handling, Ended, ResultNoticed
  <1> QED
    BY <1>10, <1>11, <1>12, <1>13, <1>15, <1>16 DEF IInv

LEMMA CountResultStep ==
  ASSUME IInv, CountResult
  PROVE  IInv'
  <1>1. /\ todo = "count" /\ promise' = NoResult
        /\ todo' = IF batch = <<>> THEN "none" ELSE "deliver"
        /\ IF promise.last THEN Settled ELSE UNCHANGED <<counted, life>>
        /\ UNCHANGED <<state, openWaiters, waiting, listeners, owner, posted, jobs, step, stored,
                       dbOpen, ready, batch, emitting>>
        /\ callback' = FALSE
    BY DEF CountResult, At, worker
  <1>2. life = "alive" /\ emitting = <<>> /\ promise # NoResult
    BY <1>1 DEF IInv, Handling, Ended, Promised
  <1>3. promise \in Results /\ promise.query \in Queries /\ promise.last \in BOOLEAN
    BY <1>2, Types
  <1>4. InLine' /\ Line' = Line /\ \A q : Due(q)' = Due(q)
    BY <1>1, SameLine
  <1>5. promise'.last = FALSE
    BY <1>1 DEF NoResult
  <1>6. promise.last => ~Due(promise.query)
    BY DEF IInv, Promised, Due
  <1>7. Unfinished' = IF promise.last THEN Unfinished \ {promise.query} ELSE Unfinished
    BY <1>1, <1>3, <1>4, <1>5, <1>6, Types, UnfinishedIs, UnfinishedNext
  <1>8. promise.last => promise.query \in Unfinished
    BY <1>3, UnfinishedIs
  <1>9. /\ IsFiniteSet(Unfinished') /\ Cardinality(Unfinished') \in Nat
        /\ Cardinality(Unfinished) \in Nat
        /\ Cardinality(Unfinished') = Cardinality(Unfinished) - One(promise.last)
    <2>1. IsFiniteSet(Unfinished) /\ Cardinality(Unfinished) \in Nat
      BY FS_CardinalityType DEF IInv, Counted
    <2>2. CASE promise.last
      <3>1. /\ IsFiniteSet(Unfinished')
            /\ Cardinality(Unfinished') = Cardinality(Unfinished) - 1
        BY <1>7, <1>8, <2>1, <2>2, FS_RemoveElement
      <3> QED
        BY <2>1, <2>2, <3>1, FS_CardinalityType DEF One
    <2>3. CASE ~promise.last
      BY <1>7, <2>1, <2>3 DEF One
    <2> QED
      BY <2>2, <2>3
  <1>10. /\ queueSize = One(state = "Connecting") + Cardinality(Unfinished)
         /\ selfDriver <=> queueSize > 0
    BY <1>1, <1>2, <1>9 DEF IInv, Counted, QueueSizeExact, One
  <1>11. /\ queueSize' = One(state = "Connecting") + Cardinality(Unfinished')
         /\ queueSize' \in Nat /\ selfDriver' \in BOOLEAN /\ (selfDriver' <=> queueSize' > 0)
         /\ life' = "alive" \/ (life' = "joining" /\ ~owner /\ queueSize' = 0)
    <2>1. CASE promise.last
      <3>1. /\ queueSize' = queueSize - 1 /\ selfDriver' = (selfDriver /\ queueSize' # 0)
            /\ life' = IF selfDriver' \/ owner THEN life ELSE "joining"
        BY <1>1, <2>1 DEF Settled
      <3>2. One(promise.last) = 1 /\ One(state = "Connecting") \in {0, 1}
        BY <2>1 DEF One
      <3>3. queueSize' = One(state = "Connecting") + Cardinality(Unfinished') /\ queueSize' \in Nat
        BY <1>9, <1>10, <3>1, <3>2
      <3>4. queueSize > 0
        BY <1>9, <1>10, <3>2
      <3> QED
        <4>1. selfDriver' = (queueSize' # 0)
          BY <1>10, <3>1, <3>4
        <4>2. life' = "alive" \/ (life' = "joining" /\ ~owner /\ queueSize' = 0)
          BY <1>2, <3>1, <4>1
        <4>3. queueSize' # 0 <=> queueSize' > 0
          BY <3>3
        <4>4. selfDriver' \in BOOLEAN /\ (selfDriver' <=> queueSize' > 0)
          BY <4>1, <4>3, Zenon
        <4> QED
          BY <3>3, <4>2, <4>4
    <2>2. CASE ~promise.last
      <3>1. UNCHANGED <<queueSize, selfDriver, life>> /\ Unfinished' = Unfinished
        BY <1>1, <1>7, <2>2 DEF counted
      <3> QED
        BY <1>2, <1>10, <3>1, Types DEF IInv, TypeOK
    <2> QED
      BY <2>1, <2>2
  <1>12. TypeOK'
    BY <1>1, <1>2, <1>11 DEF IInv, TypeOK
  <1>13. Counted'
    <2>1. One(todo' = "emit") = 0
      BY <1>1 DEF One
    <2>2. One(state = "Connecting") \in {0, 1}
      BY DEF One
    <2> QED
      BY <1>1, <1>9, <1>11, <2>1, <2>2 DEF Counted, QueueSizeExact, One
  <1>14. Promised' /\ Expected' /\ Handling' /\ ResultNoticed' /\ Opening'
    BY <1>1, <1>2, <1>4, <1>5, SameOpening
       DEF IInv, Promised, Expected, Handling, ResultNoticed
  <1>15. Ended'
    <2> SUFFICES ASSUME life' = "joining", ~owner, queueSize' = 0 PROVE Ended'
      BY <1>11 DEF Ended
    <2>1. state # "Connecting" /\ Cardinality(Unfinished') = 0
      BY <1>9, <1>11 DEF One
    <2>2. Unfinished' = {}
      BY <1>9, <2>1, FS_EmptySet
    <2>3. \A q \in Queries : ~Due(q)
      BY <1>1, <1>3, <1>4, <1>5, <2>2, Types, UnfinishedNext
    <2>4. jobs = <<>> /\ batch = <<>> /\ ready = <<>> /\ openWaiters = <<>> /\ waiting = {}
      BY <1>2, <2>1, <2>3, Nothing
    <2> QED
      BY <1>1, <2>1, <2>4 DEF Ended
  <1> QED
    BY <1>4, <1>12, <1>13, <1>14, <1>15 DEF IInv

LEMMA TakeOpenedStep ==
  ASSUME IInv, NEW e, NEW s, TakeOpened(e, s),
         \/ e = "opened" /\ s = "Connected"
         \/ e = "openFailed" /\ s = "Disconnected"
  PROVE  IInv'
  <1>1. /\ Takes(e) /\ state' = s /\ emitting' = openWaiters /\ openWaiters' = <<>>
        /\ todo' = "emit" /\ callback' = TRUE
        /\ UNCHANGED <<waiting, listeners, queueSize, selfDriver, owner, life, jobs, step, stored,
                       dbOpen, ready, batch, promise>>
    BY DEF TakeOpened, counted, lifetime, worker
  <1>2. e \in OpenEvents
    BY DEF OpenEvents
  <1>3. /\ life = "alive" /\ Idle /\ batch = <<>> /\ emitting = <<>> /\ promise = NoResult
        /\ e \in Range(posted) /\ Range(posted) = Range(posted)' \cup {e}
        /\ posted' \in Seq({"queryReady", "opened", "openFailed"})
        /\ \A i, k \in DOMAIN posted' :
             posted'[i] \in OpenEvents /\ posted'[k] \in OpenEvents => i = k
        /\ Range(posted)' \cap OpenEvents = {}
    BY <1>1, <1>2, TakesEvent
  <1>4. /\ state = "Connecting" /\ OpenJob \notin Range(jobs) /\ listeners = 0
        /\ e = "opened" => dbOpen
        /\ e = "openFailed" => ~dbOpen
    <2>1. Range(posted) \cap OpenEvents # {}
      BY <1>2, <1>3
    <2>2. OpenJob \notin Range(jobs)
      BY <2>1 DEF IInv, Opening
    <2> QED
      BY <1>3, <2>1, <2>2 DEF IInv, Opening
  <1>5. InLine' /\ Line' = Line /\ Unfinished' = Unfinished /\ \A q : Due(q)' = Due(q)
    BY <1>1, SameLine
  <1>6. TypeOK'
    <2>1. openWaiters' \in Seq(Opens) /\ emitting' \in Seq(Opens)
      BY <1>1, Types, EmptySeq
    <2> QED
      BY <1>1, <1>3, <2>1 DEF IInv, TypeOK
  <1>7. Promised' /\ Handling' /\ Ended'
    BY <1>1, <1>3, <1>5 DEF IInv, Promised, Handling, Ended
  <1>8. ResultNoticed'
    <2>1. e # "queryReady"
      OBVIOUS
    <2>2. "queryReady" \in Range(posted) => "queryReady" \in Range(posted)'
      BY <1>3, <2>1
    <2> QED
      BY <1>1, <2>2 DEF IInv, ResultNoticed
  <1>9. Expected'
    <2>1. Range(openWaiters) \cup Range(emitting) = Range(openWaiters)' \cup Range(emitting)'
      BY <1>1, <1>3 DEF Range
    <2> QED
      BY <1>1, <1>5, <2>1 DEF IInv, Expected
  <1>10. Counted'
    BY <1>1, <1>3, <1>4, <1>5 DEF IInv, Counted, QueueSizeExact, One, Idle
  <1>11. Opening'
    <2>1. "opened" \notin Range(posted)' /\ "openFailed" \notin Range(posted)'
      BY <1>3 DEF OpenEvents
    <2> QED
      BY <1>1, <1>3, <1>4, <2>1 DEF IInv, Opening
  <1> QED
    BY <1>5, <1>6, <1>7, <1>8, <1>9, <1>10, <1>11 DEF IInv

LEMMA EmitNextStep ==
  ASSUME IInv, EmitNext
  PROVE  IInv'
  <1>1. /\ todo = "emit" /\ emitting # <<>> /\ waiting' = waiting \ {Head(emitting)}
        /\ callback' = (Head(emitting) \in waiting) /\ emitting' = Tail(emitting)
        /\ UNCHANGED <<state, openWaiters, listeners, queueSize, selfDriver, owner, life, posted,
                       jobs, step, stored, dbOpen, ready, todo, batch, promise>>
    BY DEF EmitNext, At, counted, lifetime, worker
  <1>2. emitting' \in Seq(Opens) /\ Range(emitting) = Range(emitting)' \cup {Head(emitting)}
    BY <1>1, Types, RangeTail
  <1>3. TypeOK'
    BY <1>1, <1>2 DEF IInv, TypeOK
  <1>4. InLine' /\ Line' = Line /\ Unfinished' = Unfinished /\ \A q : Due(q)' = Due(q)
    BY <1>1, SameLine
  <1>5. Promised' /\ Handling' /\ Ended' /\ ResultNoticed' /\ Opening'
    BY <1>1, <1>4, SameOpening
       DEF IInv, Promised, Handling, Ended, ResultNoticed
  <1>6. Expected'
    BY <1>1, <1>2, <1>4 DEF IInv, Expected
  <1>7. Counted'
    BY <1>1, <1>4 DEF IInv, Counted, QueueSizeExact
  <1> QED
    BY <1>3, <1>4, <1>5, <1>6, <1>7 DEF IInv

LEMMA CountOpenStep ==
  ASSUME IInv, CountOpen
  PROVE  IInv'
  <1>1. /\ todo = "emit" /\ emitting = <<>> /\ todo' = "none" /\ callback' = FALSE
        /\ queueSize' = queueSize - 1 /\ selfDriver' = (selfDriver /\ queueSize' # 0)
        /\ life' = IF selfDriver' \/ owner THEN life ELSE "joining"
        /\ UNCHANGED <<state, openWaiters, waiting, listeners, owner, posted, jobs, step, stored,
                       dbOpen, ready, batch, promise, emitting>>
    BY DEF CountOpen, At, Settled, worker
  <1>2. life = "alive" /\ batch = <<>> /\ promise = NoResult /\ promise.last = FALSE
    BY <1>1 DEF IInv, Handling, Ended, Promised, NoResult
  <1>3. InLine' /\ Line' = Line /\ Unfinished' = Unfinished /\ \A q : Due(q)' = Due(q)
    BY <1>1, SameLine
  <1>4. IsFiniteSet(Unfinished) /\ Cardinality(Unfinished) \in Nat
    BY FS_CardinalityType DEF IInv, Counted
  <1>5. /\ queueSize = One(state = "Connecting") + 1 + Cardinality(Unfinished)
        /\ selfDriver <=> queueSize > 0
    BY <1>1, <1>2 DEF IInv, Counted, QueueSizeExact, One
  <1>6. One(state = "Connecting") \in {0, 1}
    BY DEF One
  <1>7. /\ queueSize' = One(state = "Connecting") + Cardinality(Unfinished)
        /\ queueSize' \in Nat /\ queueSize > 0
    BY <1>1, <1>4, <1>5, <1>6
  <1>8. selfDriver' = (queueSize' # 0)
    BY <1>1, <1>5, <1>7
  <1>9. queueSize' # 0 <=> queueSize' > 0
    BY <1>7
  <1>10. selfDriver' \in BOOLEAN /\ (selfDriver' <=> queueSize' > 0)
    BY <1>8, <1>9, Zenon
  <1>11. life' = "alive" \/ (life' = "joining" /\ ~owner /\ queueSize' = 0)
    BY <1>1, <1>2, <1>8
  <1>12. TypeOK'
    BY <1>1, <1>7, <1>10, <1>11 DEF IInv, TypeOK
  <1>13. Counted'
    <2>1. One(todo' = "emit") = 0
      BY <1>1 DEF One
    <2> QED
      BY <1>1, <1>3, <1>4, <1>6, <1>7, <1>10, <2>1 DEF Counted, QueueSizeExact, One
  <1>14. Promised' /\ Expected' /\ Handling' /\ ResultNoticed' /\ Opening'
    BY <1>1, <1>2, <1>3, SameOpening
       DEF IInv, Promised, Expected, Handling, ResultNoticed
  <1>15. Ended'
    <2> SUFFICES ASSUME life' = "joining", ~owner, queueSize' = 0 PROVE Ended'
      BY <1>11 DEF Ended
    <2>1. state # "Connecting" /\ Cardinality(Unfinished) = 0
      BY <1>4, <1>7 DEF One
    <2>2. Unfinished = {}
      BY <1>4, <2>1, FS_EmptySet
    <2>3. \A q \in Queries : ~Due(q)
      BY <2>2, UnfinishedIs
    <2>4. jobs = <<>> /\ batch = <<>> /\ ready = <<>> /\ openWaiters = <<>> /\ waiting = {}
      BY <1>1, <2>1, <2>3, Nothing
    <2> QED
      BY <1>1, <2>1, <2>4 DEF Ended
  <1> QED
    BY <1>3, <1>12, <1>13, <1>14, <1>15 DEF IInv

LEMMA JoinStep ==
  ASSUME IInv, Join
  PROVE  IInv'
  <1>1. /\ life = "joining" /\ step = "run" /\ life' = "deleted" /\ posted' = <<>>
        /\ UNCHANGED <<state, openWaiters, waiting, listeners, queueSize, selfDriver, owner, jobs,
                       step, stored, dbOpen, ready, todo, batch, promise, emitting, callback>>
    BY DEF Join, counted, worker, handler
  <1>2. jobs = <<>> /\ ready = <<>> /\ state # "Connecting" /\ openWaiters = <<>>
    BY <1>1 DEF IInv, Ended
  <1>3. Range(jobs) = {} /\ Range(posted)' = {} /\ DOMAIN posted' = {}
    BY <1>1, <1>2 DEF Range
  <1>4. TypeOK'
    <2>1. posted' \in Seq({"queryReady", "opened", "openFailed"})
      BY <1>1, EmptySeq
    <2> QED
      BY <1>1, <2>1 DEF IInv, TypeOK
  <1>5. InLine' /\ Line' = Line /\ Unfinished' = Unfinished /\ \A q : Due(q)' = Due(q)
    BY <1>1, SameLine
  <1>6. Promised' /\ Handling' /\ Ended' /\ ResultNoticed' /\ Expected'
    BY <1>1, <1>5 DEF IInv, Promised, Handling, Ended, ResultNoticed, Expected
  <1>7. Counted'
    BY <1>1, <1>5 DEF IInv, Counted, QueueSizeExact
  <1>8. Opening'
    BY <1>1, <1>2, <1>3 DEF IInv, Opening
  <1> QED
    BY <1>4, <1>5, <1>6, <1>7, <1>8 DEF IInv

-----------------------------------------------------------------------------
(***************************************************************************)
(* The theorems.                                                           *)
(***************************************************************************)

LEMMA StepIInv == ASSUME IInv, [Next]_vars PROVE IInv'
  <1>1. CASE Worker
    <2>1. CASE \E ok \in BOOLEAN : WorkerOpens(ok)
      BY <2>1, WorkerOpensStep
    <2>2. CASE \E q \in Queries : StoreMore(q) \/ StoreLast(q)
      BY <2>2, StoreMoreStep, StoreLastStep
    <2>3. CASE SignalQuery
      BY <2>3, SignalStep DEF SignalQuery
    <2>4. CASE SignalPrepared
      BY <2>4, SignalStep DEF SignalPrepared
    <2>5. CASE WorkerEnds
      BY <2>5, WorkerEndsStep
    <2> QED
      BY <1>1, <2>1, <2>2, <2>3, <2>4, <2>5 DEF Worker
  <1>2. CASE EventLoop
    <2>1. CASE TakeReady
      BY <2>1, TakeReadyStep
    <2>2. CASE DeliverNext
      BY <2>2, DeliverNextStep
    <2>3. CASE CountResult
      BY <2>3, CountResultStep
    <2>4. CASE TakeOpened("opened", "Connected") \/ TakeOpened("openFailed", "Disconnected")
      BY <2>4, TakeOpenedStep
    <2>5. CASE EmitNext
      BY <2>5, EmitNextStep
    <2>6. CASE CountOpen
      BY <2>6, CountOpenStep
    <2>7. CASE Join
      BY <2>7, JoinStep
    <2> QED
      BY <1>2, <2>1, <2>2, <2>3, <2>4, <2>5, <2>6, <2>7 DEF EventLoop
  <1>3. CASE Application
    <2>1. CASE \E o \in Opens : OpenJoins(o) \/ OpenStarts(o)
      BY <2>1, OpenJoinsStep, OpenStartsStep
    <2>2. CASE \E q \in Queries : exec(q)
      BY <2>2, ExecStep
    <2>3. CASE \E c \in Queries \cup Opens : Drop(c)
      BY <2>3, DropStep
    <2>4. CASE Release
      BY <2>4, ReleaseStep
    <2>5. CASE Recreate
      BY <2>5, RecreateStep
    <2> QED
      BY <1>3, <2>1, <2>2, <2>3, <2>4, <2>5 DEF Application
  <1>4. CASE UNCHANGED vars
    <2>1. UNCHANGED <<state, openWaiters, waiting, listeners, queueSize, selfDriver, owner, life,
                      posted, jobs, step, stored, dbOpen, ready, todo, batch, promise, emitting,
                      callback>>
      BY <1>4 DEF vars, counted, lifetime, worker, handler
    <2>2. TypeOK'
      BY <2>1 DEF IInv, TypeOK
    <2>3. InLine' /\ Line' = Line /\ Unfinished' = Unfinished /\ \A q : Due(q)' = Due(q)
      BY <2>1, SameLine
    <2>4. Promised' /\ Handling' /\ Ended' /\ ResultNoticed' /\ Expected' /\ Opening'
      BY <2>1, <2>3, SameOpening
         DEF IInv, Promised, Handling, Ended, ResultNoticed, Expected
    <2>5. Counted'
      BY <2>1, <2>3 DEF IInv, Counted, QueueSizeExact
    <2> QED
      BY <2>2, <2>3, <2>4, <2>5 DEF IInv
  <1> QED
    BY <1>1, <1>2, <1>3, <1>4 DEF Next

LEMMA Invariant == Spec => []IInv
  <1>1. Init => IInv
    BY InitIInv
  <1>2. IInv /\ [Next]_vars => IInv'
    BY StepIInv
  <1> QED
    BY <1>1, <1>2, PTL DEF Spec

\* The driver holds itself exactly while an open or a query is on its way: its
\* counter never misses one that is posted, stored, taken or handed over, so it is
\* neither deleted under its own handlers nor kept for ever; and a stored result is
\* always signalled.  Whatever the calls are, the application drops, and the threads
\* interleave (exec(), open() and the handlers of queryReady() and openned()).
THEOREM SpecHeldExactly == Spec => []HeldExactly
  <1>1. ASSUME IInv PROVE HeldExactly
    <2>1. TypeOK /\ QueueSizeExact /\ ResultNoticed
      BY <1>1 DEF IInv, Counted
    <2>2. NothingLostWithDriver
      BY <1>1 DEF IInv, Ended, NothingLostWithDriver, Idle
    <2> QED
      BY <2>1, <2>2 DEF HeldExactly
  <1> QED
    BY <1>1, Invariant, PTL

\* However many callers open() has, and whenever they call, the worker is asked to
\* open a database once, never while it has one; and a driver that says it is
\* connected has one.
THEOREM SpecOpenedOnce == Spec => []OpenedOnce
  <1>1. ASSUME IInv PROVE OpenedOnce
    BY <1>1 DEF IInv, Opening, OpenedOnce
  <1> QED
    BY <1>1, Invariant, PTL

-----------------------------------------------------------------------------
(***************************************************************************)
(* A sequence without one element.                                         *)
(***************************************************************************)

Rank(P, i) == Cardinality({j \in P : j <= i})

\* f leads from the elements of r to the ones of s that are not e, in order.
Picks(f, r, s, e) ==
  /\ f \in [DOMAIN r -> DOMAIN s]
  /\ \A m, n \in DOMAIN r : m < n => f[m] < f[n]
  /\ \A n \in DOMAIN r : r[n] = s[f[n]] /\ r[n] # e
  /\ \A i \in DOMAIN s : s[i] # e => \E n \in DOMAIN r : f[n] = i

LEMMA RankBijective ==
  ASSUME NEW P \in SUBSET Nat, IsFiniteSet(P)
  PROVE  /\ Cardinality(P) \in Nat
         /\ \A i \in P : Rank(P, i) \in 1 .. Cardinality(P)
         /\ \A i, k \in P : i < k => Rank(P, i) < Rank(P, k)
         /\ \A n \in 1 .. Cardinality(P) : \E i \in P : Rank(P, i) = n
  <1> DEFINE upTo(i) == {j \in P : j <= i}
             n == Cardinality(P)
             f == [i \in P |-> Rank(P, i)]
  <1>1. n \in Nat
    BY FS_CardinalityType
  <1>2. \A i \in P : IsFiniteSet(upTo(i)) /\ Rank(P, i) \in Nat /\ Rank(P, i) <= n
    <2> SUFFICES ASSUME NEW i \in P
                 PROVE  IsFiniteSet(upTo(i)) /\ Rank(P, i) \in Nat /\ Rank(P, i) <= n
      OBVIOUS
    <2>1. upTo(i) \in SUBSET P
      OBVIOUS
    <2>2. IsFiniteSet(upTo(i)) /\ Cardinality(upTo(i)) <= n
      BY <2>1, FS_Subset
    <2> QED
      BY <2>2, FS_CardinalityType DEF Rank
  <1>3. \A i \in P : Rank(P, i) # 0
    <2> SUFFICES ASSUME NEW i \in P PROVE Rank(P, i) # 0
      OBVIOUS
    <2>1. i \in upTo(i)
      OBVIOUS
    <2> QED
      BY <1>2, <2>1, FS_EmptySet DEF Rank
  <1>4. ASSUME NEW i \in P, NEW k \in P, i < k PROVE Rank(P, i) < Rank(P, k)
    <2>1. upTo(i) \in SUBSET upTo(k)
      <3> SUFFICES ASSUME NEW j \in P, j <= i PROVE j <= k
        OBVIOUS
      <3>1. i \in Nat /\ j \in Nat /\ k \in Nat
        OBVIOUS
      <3> QED
        BY <1>4, <3>1
    <2>2. k \in upTo(k) /\ k \notin upTo(i)
      BY <1>4
    <2>3. Cardinality(upTo(i)) <= Cardinality(upTo(k))
          /\ Cardinality(upTo(k)) # Cardinality(upTo(i))
      BY <1>2, <2>1, <2>2, FS_Subset
    <2> QED
      BY <1>2, <2>3 DEF Rank
  <1>5. \A i \in P : Rank(P, i) \in 1 .. n
    <2> SUFFICES ASSUME NEW i \in P PROVE Rank(P, i) \in 1 .. n
      OBVIOUS
    <2>1. Rank(P, i) \in Nat /\ Rank(P, i) <= n /\ Rank(P, i) # 0
      BY <1>2, <1>3
    <2> HIDE DEF n
    <2> QED
      BY <1>1, <2>1
  <1>6. f \in Injection(P, 1 .. n)
    <2>1. f \in [P -> 1 .. n]
      BY <1>5
    <2>2. \A i, k \in P : f[i] = f[k] => i = k
      <3> SUFFICES ASSUME NEW i \in P, NEW k \in P, f[i] = f[k], i # k PROVE FALSE
        OBVIOUS
      <3>1. i < k \/ k < i
        OBVIOUS
      <3>2. Rank(P, i) = Rank(P, k)
        OBVIOUS
      <3>3. Rank(P, i) \in Nat /\ Rank(P, k) \in Nat
        BY <1>2
      <3>4. Rank(P, i) < Rank(P, k) \/ Rank(P, k) < Rank(P, i)
        BY <1>4, <3>1
      <3> QED
        BY <3>2, <3>3, <3>4
    <2> QED
      BY <2>1, <2>2 DEF Injection, IsInjective
  <1>7. IsFiniteSet(1 .. n) /\ Cardinality(1 .. n) = n
    BY <1>1, FS_Interval
  <1>8. f \in Surjection(P, 1 .. n)
    BY <1>6, <1>7, FS_Injection
  <1>9. \A m \in 1 .. n : \E i \in P : Rank(P, i) = m
    BY <1>8 DEF Surjection
  <1> QED
    BY <1>1, <1>4, <1>5, <1>9

\* Without picks the others.
LEMMA WithoutPicks ==
  ASSUME NEW S, NEW s \in Seq(S), NEW e
  PROVE  Without(s, e) \in Seq(S) /\ \E f : Picks(f, Without(s, e), s, e)
  <1> DEFINE P == {i \in DOMAIN s : s[i] # e}
             N == Cardinality(P)
             at(n) == CHOOSE i \in P : Rank(P, i) = n
             r == Without(s, e)
             f == [n \in 1 .. N |-> at(n)]
  <1>1. DOMAIN s = 1 .. Len(s) /\ Len(s) \in Nat /\ P \in SUBSET Nat /\ IsFiniteSet(P)
    <2>1. DOMAIN s = 1 .. Len(s) /\ Len(s) \in Nat
      BY LenProperties
    <2>2. IsFiniteSet(1 .. Len(s)) /\ P \in SUBSET (1 .. Len(s))
      BY <2>1, FS_Interval
    <2> QED
      BY <2>1, <2>2, FS_Subset
  <1>2. /\ N \in Nat
        /\ \A i \in P : Rank(P, i) \in 1 .. N
        /\ \A i, k \in P : i < k => Rank(P, i) < Rank(P, k)
        /\ \A n \in 1 .. N : \E i \in P : Rank(P, i) = n
    BY <1>1, RankBijective
  <1>3. \A n \in 1 .. N : at(n) \in P /\ Rank(P, at(n)) = n
    BY <1>2
  <1>4. r = [n \in 1 .. N |-> s[at(n)]]
    BY DEF Without, Rank
  <1>5. \A i \in DOMAIN s : s[i] \in S
    BY <1>1, ElementOfSeq
  <1>6. /\ \A i \in P : i \in DOMAIN s /\ s[i] # e
        /\ \A i \in DOMAIN s : s[i] # e => i \in P
    OBVIOUS
  <1>7. f = [n \in 1 .. N |-> at(n)]
    OBVIOUS
  <1> HIDE DEF at, r, N, f, P
  <1>8. r \in Seq(S) /\ DOMAIN r = 1 .. N
    <2>1. r \in [1 .. N -> S]
      BY <1>3, <1>4, <1>5, <1>6
    <2> QED
      BY <1>2, <2>1, SeqDef
  <1>9. \A m, n \in 1 .. N : m < n => f[m] < f[n]
    <2> SUFFICES ASSUME NEW m \in 1 .. N, NEW n \in 1 .. N, m < n PROVE f[m] < f[n]
      OBVIOUS
    <2>1. f[m] \in P /\ f[n] \in P /\ Rank(P, f[m]) = m /\ Rank(P, f[n]) = n
      BY <1>3, <1>7
    <2>2. f[m] \in Nat /\ f[n] \in Nat
      BY <1>1, <2>1
    <2>3. f[n] < f[m] => n < m
      BY <1>2, <2>1
    <2>4. f[m] # f[n] /\ ~(f[n] < f[m])
      BY <1>2, <2>1, <2>3
    <2> QED
      BY <2>2, <2>4
  <1>10. \A i \in P : \E n \in 1 .. N : f[n] = i
    <2> SUFFICES ASSUME NEW i \in P PROVE Rank(P, i) \in 1 .. N /\ f[Rank(P, i)] = i
      OBVIOUS
    <2>1. Rank(P, i) \in 1 .. N
      BY <1>2
    <2>2. at(Rank(P, i)) \in P /\ Rank(P, at(Rank(P, i))) = Rank(P, i)
      BY <1>3, <2>1
    <2> DEFINE k == at(Rank(P, i))
    <2>3. k \in Nat /\ i \in Nat
      BY <1>1, <2>2
    <2> HIDE DEF k
    <2>4. k \in P /\ Rank(P, k) = Rank(P, i) /\ Rank(P, i) \in Nat
      BY <1>2, <2>1, <2>2 DEF k
    <2>5. ~(k < i) /\ ~(i < k)
      BY <1>2, <2>4
    <2>6. k = i
      BY <2>3, <2>5
    <2> QED
      BY <1>7, <2>1, <2>6 DEF k
  <1>11. Picks(f, r, s, e)
    BY <1>3, <1>4, <1>6, <1>7, <1>8, <1>9, <1>10 DEF Picks
  <1> QED
    BY <1>8, <1>11 DEF r

\* And what picks the others is Without.
LEMMA PicksWithout ==
  ASSUME NEW S, NEW s \in Seq(S), NEW e, NEW r \in Seq(S), NEW f, Picks(f, r, s, e)
  PROVE  r = Without(s, e)
  <1> DEFINE P == {i \in DOMAIN s : s[i] # e}
             N == Len(r)
             at(n) == CHOOSE i \in P : Rank(P, i) = n
  <1>1. /\ DOMAIN s = 1 .. Len(s) /\ Len(s) \in Nat /\ N \in Nat /\ DOMAIN r = 1 .. N
    BY LenProperties
  <1>2. /\ f \in [1 .. N -> P]
        /\ \A m, n \in 1 .. N : m < n => f[m] < f[n]
        /\ \A n \in 1 .. N : r[n] = s[f[n]]
        /\ \A i \in P : \E n \in 1 .. N : f[n] = i
        /\ P \subseteq Nat
    <2>1. P \subseteq Nat /\ \A i : i \in P <=> i \in DOMAIN s /\ s[i] # e
      BY <1>1
    <2>2. /\ \A n \in DOMAIN r : f[n] \in DOMAIN s /\ s[f[n]] # e /\ r[n] = s[f[n]]
          /\ \A m, n \in DOMAIN r : m < n => f[m] < f[n]
          /\ \A i \in DOMAIN s : s[i] # e => \E n \in DOMAIN r : f[n] = i
          /\ f = [n \in DOMAIN r |-> f[n]]
      BY DEF Picks
    <2> HIDE DEF P
    <2>3. f \in [1 .. N -> P]
      BY <1>1, <2>1, <2>2
    <2> QED
      BY <1>1, <2>1, <2>2, <2>3
  <1>3. Without(s, e) = [n \in 1 .. Cardinality(P) |-> s[at(n)]]
    BY DEF Without, Rank
  <1> HIDE DEF P, N
  <1>4. \A m, n \in 1 .. N : f[m] <= f[n] <=> m <= n
    <2> SUFFICES ASSUME NEW m \in 1 .. N, NEW n \in 1 .. N PROVE f[m] <= f[n] <=> m <= n
      OBVIOUS
    <2>1. f[m] \in P /\ f[n] \in P /\ m \in Nat /\ n \in Nat
      BY <1>1, <1>2
    <2>2. (m < n => f[m] < f[n]) /\ (n < m => f[n] < f[m])
      BY <1>2
    <2>3. f[m] \in Nat /\ f[n] \in Nat
      BY <1>2, <2>1
    <2> QED
      BY <2>1, <2>2, <2>3
  \* As many as there are up to one of them.
  <1>5. ASSUME NEW n \in 1 .. N PROVE Rank(P, f[n]) = n
    <2> DEFINE Q == {i \in P : i <= f[n]}
               g == [m \in 1 .. n |-> f[m]]
    <2>0. n \in Nat /\ 1 .. n \subseteq 1 .. N
      BY <1>1
    <2>1. g \in [1 .. n -> Q]
      BY <1>2, <1>4, <2>0
    <2>2. \A m, k \in 1 .. n : g[m] = g[k] => m = k
      <3> SUFFICES ASSUME NEW m \in 1 .. n, NEW k \in 1 .. n, f[m] = f[k] PROVE m = k
        OBVIOUS
      <3>1. f[m] <= f[k] /\ f[k] <= f[m]
        <4>1. f[m] \in Nat
          BY <1>2, <2>0
        <4> QED
          BY <4>1
      <3>2. m <= k /\ k <= m
        BY <1>4, <2>0, <3>1
      <3> QED
        BY <2>0, <3>2
    <2>3. \A i \in Q : \E m \in 1 .. n : g[m] = i
      <3> SUFFICES ASSUME NEW i \in Q PROVE \E m \in 1 .. n : g[m] = i
        OBVIOUS
      <3>1. PICK m \in 1 .. N : f[m] = i
        BY <1>2
      <3>2. m <= n
        BY <1>4, <3>1
      <3>3. m \in 1 .. n
        BY <1>1, <3>2
      <3> QED
        BY <3>1, <3>3
    <2> HIDE DEF g, Q
    <2>4. g \in Bijection(1 .. n, Q)
      BY <2>1, <2>2, <2>3 DEF Bijection, Injection, Surjection, IsInjective
    <2>5. IsFiniteSet(1 .. n) /\ Cardinality(1 .. n) = n
      BY <2>0, FS_Interval
    <2>6. Cardinality(Q) = n
      BY <2>4, <2>5, FS_Bijection DEF ExistsBijection
    <2> QED
      BY <2>6 DEF Q, Rank
  <1>6. f \in Bijection(1 .. N, P)
    <2>1. \A m, k \in 1 .. N : f[m] = f[k] => m = k
      <3> SUFFICES ASSUME NEW m \in 1 .. N, NEW k \in 1 .. N, f[m] = f[k] PROVE m = k
        OBVIOUS
      <3> QED
        BY <1>5
    <2> QED
      BY <1>2, <2>1 DEF Bijection, Injection, Surjection, IsInjective
  <1>7. Cardinality(P) = N
    <2>1. IsFiniteSet(1 .. N) /\ Cardinality(1 .. N) = N
      BY <1>1, FS_Interval
    <2> QED
      BY <1>6, <2>1, FS_Bijection DEF ExistsBijection
  <1>8. \A n \in 1 .. N : at(n) = f[n]
    <2> SUFFICES ASSUME NEW n \in 1 .. N PROVE at(n) = f[n]
      OBVIOUS
    <2>1. f[n] \in P /\ Rank(P, f[n]) = n
      BY <1>2, <1>5
    <2>2. at(n) \in P /\ Rank(P, at(n)) = n
      BY <2>1
    <2> HIDE DEF at
    <2>3. PICK m \in 1 .. N : f[m] = at(n)
      BY <1>2, <2>2
    <2> QED
      BY <1>5, <2>2, <2>3
  <1> HIDE DEF at
  <1>9. r = [n \in 1 .. N |-> r[n]]
    <2>1. r = [n \in DOMAIN r |-> r[n]]
      BY SeqDef
    <2> QED
      BY <1>1, <2>1
  <1>10. [n \in 1 .. N |-> r[n]] = [n \in 1 .. N |-> s[at(n)]]
    BY <1>2, <1>8
  <1> QED
    BY <1>3, <1>7, <1>9, <1>10

\* Without by what it is made of.
LEMMA WithoutMembers ==
  ASSUME NEW S, NEW s \in Seq(S), NEW e
  PROVE  Range(Without(s, e)) \subseteq Range(s) \ {e}
  <1>1. PICK f : Picks(f, Without(s, e), s, e)
    BY WithoutPicks
  <1> QED
    BY <1>1 DEF Picks, Range

LEMMA WithoutAppend ==
  ASSUME NEW S, NEW s \in Seq(S), NEW e, NEW x \in S
  PROVE  Without(Append(s, x), e) = IF x = e THEN Without(s, e) ELSE Append(Without(s, e), x)
  <1> DEFINE r == Without(s, e)
             t == Append(s, x)
  <1>1. PICK f : Picks(f, r, s, e)
    BY WithoutPicks
  <1>2. r \in Seq(S)
    BY WithoutPicks
  <1>3. /\ t \in Seq(S) /\ DOMAIN s = 1 .. Len(s) /\ DOMAIN t = 1 .. Len(s) + 1 /\ Len(s) \in Nat
        /\ t[Len(s) + 1] = x /\ \A i \in 1 .. Len(s) : t[i] = s[i]
    BY RangeAppend
  <1> HIDE DEF r, t
  <1>4. /\ f \in [DOMAIN r -> DOMAIN s]
        /\ \A m, n \in DOMAIN r : m < n => f[m] < f[n]
        /\ \A n \in DOMAIN r : r[n] = s[f[n]] /\ r[n] # e
        /\ \A i \in DOMAIN s : s[i] # e => \E n \in DOMAIN r : f[n] = i
    BY <1>1 DEF Picks
  <1>5. DOMAIN s \subseteq DOMAIN t /\ \A i \in DOMAIN t : i \in DOMAIN s \/ i = Len(s) + 1
    BY <1>3
  <1>6. CASE x = e
    <2>1. f \in [DOMAIN r -> DOMAIN t]
      BY <1>4, <1>5
    <2>2. \A n \in DOMAIN r : f[n] \in 1 .. Len(s)
      BY <1>3, <1>4
    <2>3. \A n \in DOMAIN r : r[n] = t[f[n]] /\ r[n] # e
      BY <1>3, <1>4, <2>2
    <2>4. \A i \in DOMAIN t : t[i] # e => \E n \in DOMAIN r : f[n] = i
      BY <1>3, <1>4, <1>5, <1>6
    <2>5. Picks(f, r, t, e)
      BY <1>4, <2>1, <2>3, <2>4 DEF Picks
    <2>6. r = Without(t, e)
      BY <1>2, <1>3, <2>5, PicksWithout
    <2> QED
      BY <1>6, <2>6 DEF r, t
  <1>7. CASE x # e
    <2> DEFINE u == Append(r, x)
               g == [n \in 1 .. Len(r) + 1 |-> IF n = Len(r) + 1 THEN Len(s) + 1 ELSE f[n]]
    <2>1. /\ u \in Seq(S) /\ DOMAIN r = 1 .. Len(r) /\ DOMAIN u = 1 .. Len(r) + 1
          /\ Len(r) \in Nat
          /\ u[Len(r) + 1] = x /\ \A i \in 1 .. Len(r) : u[i] = r[i]
      BY <1>2, RangeAppend
    <2>2. /\ g = [n \in 1 .. Len(r) + 1 |-> IF n = Len(r) + 1 THEN Len(s) + 1 ELSE f[n]]
      OBVIOUS
    <2> HIDE DEF u, g
    <2>3. /\ \A n \in 1 .. Len(r) : g[n] = f[n] /\ f[n] \in 1 .. Len(s)
          /\ g[Len(r) + 1] = Len(s) + 1
      <3>1. \A n \in 1 .. Len(r) : n \in 1 .. Len(r) + 1 /\ n # Len(r) + 1
        BY <2>1
      <3>2. \A n \in 1 .. Len(r) : f[n] \in 1 .. Len(s)
        BY <1>3, <1>4, <2>1
      <3>3. Len(r) + 1 \in 1 .. Len(r) + 1
        BY <2>1
      <3> QED
        BY <2>2, <3>1, <3>2, <3>3
    <2>4. \A n \in DOMAIN u : n \in 1 .. Len(r) \/ n = Len(r) + 1
      BY <2>1
    <2>5. g \in [DOMAIN u -> DOMAIN t]
      <3>1. \A n \in DOMAIN u : g[n] \in DOMAIN t
        BY <1>3, <2>3, <2>4
      <3> QED
        BY <2>1, <2>2, <3>1
    <2>6. \A m, n \in DOMAIN u : m < n => g[m] < g[n]
      <3> SUFFICES ASSUME NEW m \in DOMAIN u, NEW n \in DOMAIN u, m < n PROVE g[m] < g[n]
        OBVIOUS
      <3>1. m \in 1 .. Len(r)
        BY <2>1
      <3>2. CASE n = Len(r) + 1
        BY <1>3, <2>3, <3>1, <3>2
      <3>3. CASE n \in 1 .. Len(r)
        BY <1>4, <2>1, <2>3, <3>1, <3>3
      <3> QED
        BY <2>4, <3>2, <3>3
    <2>7. \A n \in DOMAIN u : u[n] = t[g[n]] /\ u[n] # e
      <3> SUFFICES ASSUME NEW n \in DOMAIN u PROVE u[n] = t[g[n]] /\ u[n] # e
        OBVIOUS
      <3>1. CASE n = Len(r) + 1
        BY <1>3, <1>7, <2>1, <2>3, <3>1
      <3>2. CASE n \in 1 .. Len(r)
        <4>1. u[n] = r[n] /\ t[g[n]] = s[f[n]]
          BY <1>3, <2>1, <2>3, <3>2
        <4> QED
          BY <1>4, <2>1, <3>2, <4>1
      <3> QED
        BY <2>4, <3>1, <3>2
    <2>8. \A i \in DOMAIN t : t[i] # e => \E n \in DOMAIN u : g[n] = i
      <3> SUFFICES ASSUME NEW i \in DOMAIN t, t[i] # e PROVE \E n \in DOMAIN u : g[n] = i
        OBVIOUS
      <3>1. CASE i = Len(s) + 1
        BY <2>1, <2>3, <3>1
      <3>2. CASE i \in DOMAIN s
        <4>1. PICK n \in 1 .. Len(r) : f[n] = i
          BY <1>3, <1>4, <2>1, <3>2
        <4> QED
          BY <2>1, <2>3, <4>1
      <3> QED
        BY <1>5, <3>1, <3>2
    <2>9. Picks(g, u, t, e)
      BY <2>5, <2>6, <2>7, <2>8 DEF Picks
    <2>10. u = Without(t, e)
      BY <1>3, <2>1, <2>9, PicksWithout
    <2> QED
      BY <1>7, <2>10 DEF r, t, u
  <1> QED
    BY <1>6, <1>7

\* The same elements but for one e.
LEMMA WithoutOneLess ==
  ASSUME NEW S, NEW s \in Seq(S), NEW e, NEW p \in DOMAIN s, s[p] = e,
         NEW t \in Seq(S), Len(s) = Len(t) + 1,
         \A i \in DOMAIN t : t[i] = IF i < p THEN s[i] ELSE s[i + 1]
  PROVE  Without(t, e) = Without(s, e)
  <1> DEFINE r == Without(t, e)
  <1>1. PICK f : Picks(f, r, t, e)
    BY WithoutPicks
  <1>2. r \in Seq(S)
    BY WithoutPicks
  <1> HIDE DEF r
  <1> DEFINE g == [n \in DOMAIN r |-> IF f[n] < p THEN f[n] ELSE f[n] + 1]
  <1>3. /\ DOMAIN s = 1 .. Len(s) /\ DOMAIN t = 1 .. Len(t) /\ Len(s) \in Nat /\ Len(t) \in Nat
    BY LenProperties
  <1>4. /\ f \in [DOMAIN r -> DOMAIN t]
        /\ \A m, n \in DOMAIN r : m < n => f[m] < f[n]
        /\ \A n \in DOMAIN r : r[n] = t[f[n]] /\ r[n] # e
        /\ \A i \in DOMAIN t : t[i] # e => \E n \in DOMAIN r : f[n] = i
    BY <1>1 DEF Picks
  <1>5. \A n \in DOMAIN r : g[n] = IF f[n] < p THEN f[n] ELSE f[n] + 1
    OBVIOUS
  <1>6. g \in [DOMAIN r -> DOMAIN s]
    <2>1. \A n \in DOMAIN r : f[n] \in 1 .. Len(t)
      BY <1>3, <1>4
    <2>2. \A n \in DOMAIN r : (IF f[n] < p THEN f[n] ELSE f[n] + 1) \in DOMAIN s
      BY <1>3, <2>1
    <2> QED
      BY <2>2
  <1> HIDE DEF g
  <1>7. \A m, n \in DOMAIN r : m < n => g[m] < g[n]
    <2> SUFFICES ASSUME NEW m \in DOMAIN r, NEW n \in DOMAIN r, m < n PROVE g[m] < g[n]
      OBVIOUS
    <2>1. f[m] < f[n] /\ f[m] \in Nat /\ f[n] \in Nat /\ p \in Nat
      BY <1>3, <1>4
    <2> QED
      BY <1>5, <2>1
  <1>8. \A n \in DOMAIN r : r[n] = s[g[n]] /\ r[n] # e
    BY <1>4, <1>5
  <1>9. \A i \in DOMAIN s : s[i] # e => \E n \in DOMAIN r : g[n] = i
    <2> SUFFICES ASSUME NEW i \in DOMAIN s, s[i] # e PROVE \E n \in DOMAIN r : g[n] = i
      OBVIOUS
    <2>1. i # p /\ i \in Nat /\ p \in Nat
      BY <1>3
    <2>2. CASE i < p
      <3>1. i \in DOMAIN t /\ t[i] = s[i]
        BY <1>3, <2>1, <2>2
      <3>2. PICK n \in DOMAIN r : f[n] = i
        BY <1>4, <3>1
      <3> QED
        BY <1>5, <2>2, <3>2
    <2>3. CASE ~(i < p)
      <3>1. i - 1 \in DOMAIN t /\ ~(i - 1 < p) /\ (i - 1) + 1 = i
        BY <1>3, <2>1, <2>3
      <3>2. t[i - 1] = s[i]
        BY <3>1
      <3>3. PICK n \in DOMAIN r : f[n] = i - 1
        BY <1>4, <3>1, <3>2
      <3> QED
        BY <1>5, <3>1, <3>3
    <2> QED
      BY <2>2, <2>3
  <1>10. Picks(g, r, s, e)
    BY <1>4, <1>6, <1>7, <1>8, <1>9 DEF Picks
  <1>11. r = Without(s, e)
    BY <1>2, <1>10, PicksWithout
  <1> QED
    BY <1>11 DEF r

\* What comes first.
LEMMA FirstOther ==
  ASSUME NEW S, NEW s \in Seq(S), NEW e, NEW k \in DOMAIN s, s[k] # e
  PROVE  \E p \in DOMAIN s : s[p] # e /\ p <= k /\ \A i \in DOMAIN s : i < p => s[i] = e
  <1> DEFINE r == Without(s, e)
  <1>1. PICK f : Picks(f, r, s, e)
    BY WithoutPicks
  <1>2. DOMAIN r = 1 .. Len(r) /\ Len(r) \in Nat /\ DOMAIN s \subseteq Nat
    BY WithoutPicks, LenProperties
  <1> HIDE DEF r
  <1>3. /\ f \in [DOMAIN r -> DOMAIN s]
        /\ \A m, n \in DOMAIN r : m < n => f[m] < f[n]
        /\ \A n \in DOMAIN r : r[n] = s[f[n]] /\ r[n] # e
        /\ \A i \in DOMAIN s : s[i] # e => \E n \in DOMAIN r : f[n] = i
    BY <1>1 DEF Picks
  <1>4. \A i \in DOMAIN s : s[i] # e => 1 \in DOMAIN r /\ f[1] <= i
    <2> SUFFICES ASSUME NEW i \in DOMAIN s, s[i] # e PROVE 1 \in DOMAIN r /\ f[1] <= i
      OBVIOUS
    <2>1. PICK n \in DOMAIN r : f[n] = i
      BY <1>3
    <2>2. 1 \in DOMAIN r /\ (n = 1 \/ 1 < n)
      BY <1>2, <2>1
    <2>3. f[1] \in Nat /\ f[n] \in Nat
      BY <1>2, <1>3, <2>2
    <2> QED
      BY <1>3, <2>1, <2>2, <2>3
  <1>5. 1 \in DOMAIN r /\ f[1] <= k
    BY <1>4
  <1>6. f[1] \in DOMAIN s /\ s[f[1]] # e
    BY <1>3, <1>5
  <1>7. \A i \in DOMAIN s : i < f[1] => s[i] = e
    <2> SUFFICES ASSUME NEW i \in DOMAIN s, i < f[1], s[i] # e PROVE FALSE
      OBVIOUS
    <2>1. f[1] <= i /\ i \in Nat /\ f[1] \in Nat
      BY <1>2, <1>4, <1>6
    <2> QED
      BY <2>1
  <1> QED
    BY <1>5, <1>6, <1>7

LEMMA WithoutFirst ==
  ASSUME NEW S, NEW s \in Seq(S), NEW e, NEW p \in DOMAIN s, s[p] # e,
         \A i \in DOMAIN s : i < p => s[i] = e
  PROVE  Without(s, e) # <<>> /\ Head(Without(s, e)) = s[p]
  <1> DEFINE r == Without(s, e)
  <1>1. PICK f : Picks(f, r, s, e)
    BY WithoutPicks
  <1>2. r \in Seq(S) /\ DOMAIN r = 1 .. Len(r) /\ Len(r) \in Nat
    BY WithoutPicks, LenProperties
  <1> HIDE DEF r
  <1>3. /\ f \in [DOMAIN r -> DOMAIN s]
        /\ \A m, n \in DOMAIN r : m < n => f[m] < f[n]
        /\ \A n \in DOMAIN r : r[n] = s[f[n]] /\ r[n] # e
    BY <1>1 DEF Picks
  <1>4. PICK n \in DOMAIN r : f[n] = p
    BY <1>1 DEF Picks
  <1>5. DOMAIN s \subseteq Nat
    BY LenProperties
  <1>6. 1 \in DOMAIN r /\ ~(f[1] < p)
    <2>1. 1 \in DOMAIN r
      BY <1>2, <1>4
    <2> QED
      BY <1>3, <2>1
  <1>7. n = 1
    BY <1>2, <1>3, <1>4, <1>6
  <1>8. r # <<>>
    BY <1>6, EmptySeq, <1>2
  <1>9. r[1] = s[p]
    BY <1>3, <1>4, <1>7
  <1> QED
    BY <1>2, <1>8, <1>9 DEF r

LEMMA WithoutTail ==
  ASSUME NEW S, NEW s \in Seq(S), NEW e, s # <<>>
  PROVE  Without(Tail(s), e) = IF Head(s) = e THEN Without(s, e) ELSE Tail(Without(s, e))
  <1> DEFINE t == Tail(s)
             r == Without(s, e)
  <1>1. /\ t \in Seq(S) /\ Len(s) = Len(t) + 1 /\ Len(t) \in Nat /\ Head(s) = s[1]
        /\ \A i \in 1 .. Len(t) : t[i] = s[i + 1]
        /\ DOMAIN s = 1 .. Len(s) /\ DOMAIN t = 1 .. Len(t)
    BY LenProperties, HeadTailProperties
  <1> HIDE DEF t
  <1>2. CASE Head(s) = e
    <2>1. \A i \in DOMAIN t : t[i] = IF i < 1 THEN s[i] ELSE s[i + 1]
      BY <1>1
    <2>2. 1 \in DOMAIN s /\ s[1] = e
      BY <1>1, <1>2
    <2>3. Without(t, e) = Without(s, e)
      BY <1>1, <2>1, <2>2, WithoutOneLess
    <2> QED
      BY <1>2, <2>3 DEF t
  <1>3. CASE Head(s) # e
    <2>1. PICK f : Picks(f, r, s, e)
      BY WithoutPicks
    <2>2. 1 \in DOMAIN s /\ s[1] # e
      BY <1>1, <1>3
    <2>3. r # <<>> /\ r \in Seq(S)
      <3>1. \A i \in DOMAIN s : ~(i < 1)
        BY <1>1
      <3> QED
        BY <2>2, <3>1, WithoutFirst, WithoutPicks
    <2> HIDE DEF r
    <2> DEFINE u == Tail(r)
    <2>4. /\ u \in Seq(S) /\ Len(r) = Len(u) + 1 /\ Len(u) \in Nat
          /\ \A i \in 1 .. Len(u) : u[i] = r[i + 1]
          /\ DOMAIN r = 1 .. Len(r) /\ DOMAIN u = 1 .. Len(u)
      BY <2>3, LenProperties, HeadTailProperties
    <2> HIDE DEF u
    <2> DEFINE g == [n \in 1 .. Len(u) |-> f[n + 1] - 1]
    <2>5. /\ f \in [DOMAIN r -> DOMAIN s]
          /\ \A m, n \in DOMAIN r : m < n => f[m] < f[n]
          /\ \A n \in DOMAIN r : r[n] = s[f[n]] /\ r[n] # e
          /\ \A i \in DOMAIN s : s[i] # e => \E n \in DOMAIN r : f[n] = i
      BY <2>1 DEF Picks
    <2>6. \A n \in 1 .. Len(u) :
            /\ n + 1 \in DOMAIN r /\ 1 \in DOMAIN r /\ 1 < n + 1
            /\ f[n + 1] \in 2 .. Len(s)
      <3> SUFFICES ASSUME NEW n \in 1 .. Len(u)
                   PROVE  /\ n + 1 \in DOMAIN r /\ 1 \in DOMAIN r /\ 1 < n + 1
                          /\ f[n + 1] \in 2 .. Len(s)
        OBVIOUS
      <3>1. n + 1 \in DOMAIN r /\ 1 \in DOMAIN r /\ 1 < n + 1
        BY <2>4
      <3>2. f[1] < f[n + 1] /\ f[1] \in 1 .. Len(s) /\ f[n + 1] \in 1 .. Len(s)
        BY <1>1, <2>5, <3>1
      <3> QED
        BY <1>1, <3>1, <3>2
    <2>7. g \in [DOMAIN u -> DOMAIN t]
      <3>1. \A n \in 1 .. Len(u) : f[n + 1] - 1 \in 1 .. Len(t)
        BY <1>1, <2>6
      <3> QED
        BY <1>1, <2>4, <3>1
    <2>8. \A n \in 1 .. Len(u) : g[n] = f[n + 1] - 1
      OBVIOUS
    <2> HIDE DEF g
    <2>9. \A m, n \in DOMAIN u : m < n => g[m] < g[n]
      <3> SUFFICES ASSUME NEW m \in DOMAIN u, NEW n \in DOMAIN u, m < n PROVE g[m] < g[n]
        OBVIOUS
      <3>1. m \in 1 .. Len(u) /\ n \in 1 .. Len(u) /\ m + 1 < n + 1
        BY <2>4
      <3>2. f[m + 1] < f[n + 1] /\ f[m + 1] \in 2 .. Len(s) /\ f[n + 1] \in 2 .. Len(s)
        BY <2>5, <2>6, <3>1
      <3>3. g[m] = f[m + 1] - 1 /\ g[n] = f[n + 1] - 1
        BY <2>8, <3>1
      <3>4. f[m + 1] \in Int /\ f[n + 1] \in Int
        BY <1>1, <3>2
      <3> QED
        BY <3>2, <3>3, <3>4
    <2>10. \A n \in DOMAIN u : u[n] = t[g[n]] /\ u[n] # e
      <3> SUFFICES ASSUME NEW n \in DOMAIN u PROVE u[n] = t[g[n]] /\ u[n] # e
        OBVIOUS
      <3>1. n \in 1 .. Len(u) /\ u[n] = r[n + 1] /\ n + 1 \in DOMAIN r
        BY <2>4, <2>6
      <3>2. f[n + 1] \in 2 .. Len(s) /\ g[n] = f[n + 1] - 1
        BY <2>6, <2>8, <3>1
      <3>3. g[n] \in 1 .. Len(t) /\ g[n] + 1 = f[n + 1]
        BY <1>1, <3>2
      <3> QED
        BY <1>1, <2>5, <3>1, <3>3
    <2>11. \A i \in DOMAIN t : t[i] # e => \E n \in DOMAIN u : g[n] = i
      <3> SUFFICES ASSUME NEW i \in DOMAIN t, t[i] # e PROVE \E n \in DOMAIN u : g[n] = i
        OBVIOUS
      <3>1. i \in 1 .. Len(t) /\ i + 1 \in DOMAIN s /\ s[i + 1] # e
        BY <1>1
      <3>2. PICK m \in DOMAIN r : f[m] = i + 1
        BY <2>5, <3>1
      <3>3. PICK k \in DOMAIN r : f[k] = 1
        BY <2>2, <2>5
      <3>4. m # 1
        <4>1. m = 1 => ~(k < 1) /\ (1 < k => f[1] < f[k]) /\ k \in Nat
          BY <2>4, <2>5, <3>2
        <4> QED
          BY <1>1, <2>4, <3>1, <3>2, <3>3, <4>1
      <3>5. m - 1 \in 1 .. Len(u) /\ (m - 1) + 1 = m
        BY <2>4, <3>4
      <3> QED
        BY <1>1, <2>4, <2>8, <3>1, <3>2, <3>5
    <2>12. Picks(g, u, t, e)
      BY <2>7, <2>9, <2>10, <2>11 DEF Picks
    <2>13. u = Without(t, e)
      BY <1>1, <2>4, <2>12, PicksWithout
    <2> QED
      BY <1>3, <2>13 DEF r, t, u
  <1> QED
    BY <1>2, <1>3

-----------------------------------------------------------------------------
(***************************************************************************)
(* The queries in line (DriverContract).                                   *)
(***************************************************************************)

\* The results of a query are next to each other, numbered in order; where the last of
\* them is not stored, the worker is at the query and knows how many it stored.
Following ==
  /\ \A i, k \in DOMAIN Line :
       i < k /\ (\A j \in DOMAIN Line : i <= j /\ j < k => ~Line[j].last) =>
         Line[k].query = Line[i].query
  /\ \A i \in DOMAIN Line :
       i + 1 \in DOMAIN Line => Line[i + 1].n = IF Line[i].last THEN 1 ELSE Line[i].n + 1
  /\ Line # <<>> =>
       LET r == Line[Len(Line)] IN
       IF r.last THEN stored = 0
                 ELSE stored = r.n /\ jobs # <<>> /\ Head(jobs) = r.query
  /\ stored # 0 => jobs # <<>> /\ Head(jobs) # OpenJob

\* What a result ends: its query, or nothing.
Tag(r) == IF r.last THEN r.query ELSE OpenJob

\* Endings, of any results and jobs.
Ends(line, js) == [i \in DOMAIN line |-> Tag(line[i])] \o js

\* What is posted to the worker.
PostedJobs == Queries \cup {OpenJob}

LEMMA EndingsEnds == Endings = Ends(Line, jobs) /\ Endings' = Ends(Line', jobs')
  BY DEF Endings, Ends, Tag

LEMMA EndsAre ==
  ASSUME NEW line \in Seq(Results), NEW js \in Seq(PostedJobs)
  PROVE  /\ [i \in DOMAIN line |-> Tag(line[i])] \in Seq(PostedJobs)
         /\ Ends(line, js) \in Seq(PostedJobs) /\ Len(line) \in Nat /\ Len(js) \in Nat
         /\ DOMAIN line = 1 .. Len(line) /\ DOMAIN js = 1 .. Len(js)
         /\ Len(Ends(line, js)) = Len(line) + Len(js)
         /\ DOMAIN Ends(line, js) = 1 .. Len(line) + Len(js)
         /\ \A i \in 1 .. Len(line) :
              i \in DOMAIN Ends(line, js) /\ Ends(line, js)[i] = Tag(line[i])
         /\ \A i \in 1 .. Len(js) :
              /\ Len(line) + i \in DOMAIN Ends(line, js)
              /\ Ends(line, js)[Len(line) + i] = js[i]
  <1> DEFINE t == [i \in DOMAIN line |-> Tag(line[i])]
  <1>1. /\ DOMAIN line = 1 .. Len(line) /\ Len(line) \in Nat
        /\ DOMAIN js = 1 .. Len(js) /\ Len(js) \in Nat
    BY LenProperties
  <1>2. \A i \in 1 .. Len(line) : Tag(line[i]) \in PostedJobs
    <2>1. \A i \in 1 .. Len(line) : line[i] \in Results
      BY ElementOfSeq
    <2> QED
      BY <2>1 DEF Tag, Results, PostedJobs
  <1>3. t \in [1 .. Len(line) -> PostedJobs] /\ \A i \in 1 .. Len(line) : t[i] = Tag(line[i])
    BY <1>1, <1>2
  <1>4. Ends(line, js) = t \o js
    BY DEF Ends
  <1> HIDE DEF t
  <1>5. t \in Seq(PostedJobs) /\ Len(t) = Len(line)
    <2>1. t \in Seq(PostedJobs)
      BY <1>1, <1>3, SeqDef
    <2> QED
      BY <1>1, <1>3, <2>1, LenProperties
  <1>6. /\ t \o js \in Seq(PostedJobs) /\ Len(t \o js) = Len(t) + Len(js)
        /\ \A i \in 1 .. Len(t) + Len(js) :
             (t \o js)[i] = IF i <= Len(t) THEN t[i] ELSE js[i - Len(t)]
    BY <1>5, ConcatProperties
  <1>7. DOMAIN (t \o js) = 1 .. Len(line) + Len(js)
    BY <1>5, <1>6, LenProperties
  <1>8. \A i \in 1 .. Len(line) : i \in DOMAIN (t \o js) /\ (t \o js)[i] = Tag(line[i])
    BY <1>1, <1>3, <1>5, <1>6, <1>7
  <1>9. \A i \in 1 .. Len(js) :
          Len(line) + i \in DOMAIN (t \o js) /\ (t \o js)[Len(line) + i] = js[i]
    <2> SUFFICES ASSUME NEW i \in 1 .. Len(js)
                 PROVE  Len(line) + i \in DOMAIN (t \o js) /\ (t \o js)[Len(line) + i] = js[i]
      OBVIOUS
    <2>1. /\ Len(line) + i \in 1 .. Len(t) + Len(js) /\ ~(Len(line) + i <= Len(t))
          /\ (Len(line) + i) - Len(t) = i
      BY <1>1, <1>5
    <2> QED
      BY <1>5, <1>6, <1>7, <2>1
  <1> QED
    BY <1>1, <1>4, <1>5, <1>6, <1>7, <1>8, <1>9 DEF t

\* A request of the worker is the last.
LEMMA EndsRequested ==
  ASSUME NEW line \in Seq(Results), NEW js \in Seq(PostedJobs), NEW j \in PostedJobs
  PROVE  Ends(line, Append(js, j)) = Append(Ends(line, js), j)
  BY EndsAre, AppendConcat DEF Ends

\* The first result is taken.
LEMMA EndsTaken ==
  ASSUME NEW line \in Seq(Results), NEW js \in Seq(PostedJobs), line # <<>>
  PROVE  /\ Ends(line, js) # <<>> /\ Head(Ends(line, js)) = Tag(Head(line))
         /\ Ends(Tail(line), js) = Tail(Ends(line, js))
  <1> DEFINE u == Ends(line, js)
             v == Ends(Tail(line), js)
  <1>1. /\ Tail(line) \in Seq(Results) /\ Len(Tail(line)) = Len(line) - 1
        /\ Len(line) \in Nat /\ Len(line) >= 1 /\ Head(line) = line[1]
        /\ \A i \in 1 .. Len(Tail(line)) : Tail(line)[i] = line[i + 1]
    BY HeadTailProperties, LenProperties, EmptySeq
  <1>2. /\ u \in Seq(PostedJobs) /\ Len(u) = Len(line) + Len(js) /\ Len(js) \in Nat
        /\ \A i \in 1 .. Len(line) : u[i] = Tag(line[i])
        /\ \A i \in 1 .. Len(js) : u[Len(line) + i] = js[i]
    BY EndsAre
  <1>3. /\ v \in Seq(PostedJobs) /\ Len(v) = Len(Tail(line)) + Len(js)
        /\ \A i \in 1 .. Len(Tail(line)) : v[i] = Tag(Tail(line)[i])
        /\ \A i \in 1 .. Len(js) : v[Len(Tail(line)) + i] = js[i]
    BY <1>1, EndsAre
  <1> HIDE DEF u, v
  <1>4. u # <<>> /\ Head(u) = u[1]
    BY <1>1, <1>2, EmptySeq
  <1>5. /\ Tail(u) \in Seq(PostedJobs) /\ Len(Tail(u)) = Len(u) - 1
        /\ \A i \in 1 .. Len(Tail(u)) : Tail(u)[i] = u[i + 1]
    BY <1>2, <1>4, HeadTailProperties
  <1>6. Len(v) = Len(Tail(u))
    BY <1>1, <1>2, <1>3, <1>5
  <1>7. \A i \in 1 .. Len(v) : v[i] = Tail(u)[i]
    <2> SUFFICES ASSUME NEW i \in 1 .. Len(v) PROVE v[i] = Tail(u)[i]
      OBVIOUS
    <2>1. Tail(u)[i] = u[i + 1]
      BY <1>5, <1>6
    <2>2. CASE i <= Len(Tail(line))
      <3>1. i \in 1 .. Len(Tail(line)) /\ i + 1 \in 1 .. Len(line)
        BY <1>1, <2>2
      <3> QED
        BY <1>1, <1>2, <1>3, <2>1, <3>1
    <2>3. CASE ~(i <= Len(Tail(line)))
      <3>1. PICK k \in 1 .. Len(js) : i = Len(Tail(line)) + k /\ i + 1 = Len(line) + k
        <4>1. i - Len(Tail(line)) \in 1 .. Len(js)
          BY <1>1, <1>2, <1>3, <2>3
        <4>2. /\ i = Len(Tail(line)) + (i - Len(Tail(line)))
              /\ i + 1 = Len(line) + (i - Len(Tail(line)))
          BY <1>1, <1>2, <1>3
        <4> QED
          BY <4>1, <4>2
      <3>2. v[i] = js[k] /\ u[i + 1] = js[k]
        BY <1>2, <1>3, <3>1
      <3> QED
        BY <2>1, <3>2
    <2> QED
      BY <2>2, <2>3
  <1>8. v = Tail(u)
    BY <1>3, <1>5, <1>6, <1>7, SeqEqual
  <1>9. u[1] = Tag(Head(line))
    BY <1>1, <1>2
  <1> QED
    BY <1>4, <1>8, <1>9 DEF u, v

\* The last result of a query takes the place of its job.
LEMMA EndsStoredLast ==
  ASSUME NEW line \in Seq(Results), NEW js \in Seq(PostedJobs), js # <<>>,
         NEW r \in Results, r.last, r.query = Head(js)
  PROVE  Ends(Append(line, r), Tail(js)) = Ends(line, js)
  <1> DEFINE u == Ends(line, js)
             v == Ends(Append(line, r), Tail(js))
  <1>1. /\ Append(line, r) \in Seq(Results) /\ Len(Append(line, r)) = Len(line) + 1
        /\ Append(line, r)[Len(line) + 1] = r
        /\ \A i \in 1 .. Len(line) : Append(line, r)[i] = line[i]
    BY AppendProperties
  <1>2. /\ Tail(js) \in Seq(PostedJobs) /\ Len(Tail(js)) = Len(js) - 1 /\ Head(js) = js[1]
        /\ \A i \in 1 .. Len(Tail(js)) : Tail(js)[i] = js[i + 1]
        /\ Len(js) >= 1
    BY HeadTailProperties, LenProperties, EmptySeq
  <1>3. /\ u \in Seq(PostedJobs) /\ Len(u) = Len(line) + Len(js)
        /\ Len(line) \in Nat /\ Len(js) \in Nat
        /\ \A i \in 1 .. Len(line) : u[i] = Tag(line[i])
        /\ \A i \in 1 .. Len(js) : u[Len(line) + i] = js[i]
    BY EndsAre
  <1>4. /\ v \in Seq(PostedJobs) /\ Len(v) = Len(Append(line, r)) + Len(Tail(js))
        /\ \A i \in 1 .. Len(Append(line, r)) : v[i] = Tag(Append(line, r)[i])
        /\ \A i \in 1 .. Len(Tail(js)) : v[Len(Append(line, r)) + i] = Tail(js)[i]
    <2> DEFINE a == Append(line, r)
               b == Tail(js)
    <2>1. a \in Seq(Results) /\ b \in Seq(PostedJobs)
      BY <1>1, <1>2
    <2> HIDE DEF a, b
    <2>2. /\ Ends(a, b) \in Seq(PostedJobs) /\ Len(Ends(a, b)) = Len(a) + Len(b)
          /\ \A i \in 1 .. Len(a) : Ends(a, b)[i] = Tag(a[i])
          /\ \A i \in 1 .. Len(b) : Ends(a, b)[Len(a) + i] = b[i]
      BY <2>1, EndsAre
    <2> QED
      BY <2>2 DEF a, b
  <1> HIDE DEF u, v
  <1>5. Len(v) = Len(u)
    BY <1>1, <1>2, <1>3, <1>4
  <1>6. \A i \in 1 .. Len(v) : v[i] = u[i]
    <2> SUFFICES ASSUME NEW i \in 1 .. Len(v) PROVE v[i] = u[i]
      OBVIOUS
    <2>1. CASE i \in 1 .. Len(line)
      <3>1. i \in 1 .. Len(Append(line, r))
        BY <1>1, <1>3, <2>1
      <3> QED
        BY <1>1, <1>3, <1>4, <2>1, <3>1
    <2>2. CASE i = Len(line) + 1
      <3>1. v[i] = Tag(r)
        BY <1>1, <1>3, <1>4, <2>2
      <3>2. u[i] = js[1]
        BY <1>2, <1>3, <2>2
      <3> QED
        BY <1>2, <3>1, <3>2 DEF Tag
    <2>3. CASE i > Len(line) + 1
      <3>1. PICK k \in 1 .. Len(Tail(js)) : i = Len(line) + 1 + k
        <4>1. i - (Len(line) + 1) \in 1 .. Len(Tail(js))
          BY <1>1, <1>2, <1>3, <1>4, <2>3
        <4>2. i = Len(line) + 1 + (i - (Len(line) + 1))
          BY <1>3
        <4> QED
          BY <4>1, <4>2
      <3>2. v[i] = js[k + 1]
        BY <1>1, <1>2, <1>4, <3>1
      <3>3. k + 1 \in 1 .. Len(js) /\ i = Len(line) + (k + 1)
        BY <1>2, <1>3, <3>1
      <3> QED
        BY <1>3, <3>2, <3>3
    <2> QED
      BY <1>3, <2>1, <2>2, <2>3
  <1>7. v = u
    BY <1>3, <1>4, <1>5, <1>6, SeqEqual
  <1> QED
    BY <1>7 DEF u, v

\* Another result of the query, and an open, are not seen.
LEMMA EndsStoredMore ==
  ASSUME NEW line \in Seq(Results), NEW js \in Seq(PostedJobs), NEW r \in Results, ~r.last
  PROVE  Without(Ends(Append(line, r), js), OpenJob) = Without(Ends(line, js), OpenJob)
  <1> DEFINE u == Ends(line, js)
             v == Ends(Append(line, r), js)
             p == Len(line) + 1
  <1>1. /\ Append(line, r) \in Seq(Results) /\ Len(Append(line, r)) = Len(line) + 1
        /\ Append(line, r)[Len(line) + 1] = r
        /\ \A i \in 1 .. Len(line) : Append(line, r)[i] = line[i]
    BY AppendProperties
  <1>2. /\ u \in Seq(PostedJobs) /\ Len(u) = Len(line) + Len(js)
        /\ Len(line) \in Nat /\ Len(js) \in Nat
        /\ DOMAIN u = 1 .. Len(line) + Len(js)
        /\ \A i \in 1 .. Len(line) : u[i] = Tag(line[i])
        /\ \A i \in 1 .. Len(js) : u[Len(line) + i] = js[i]
    BY EndsAre
  <1>3. /\ v \in Seq(PostedJobs) /\ Len(v) = Len(Append(line, r)) + Len(js)
        /\ DOMAIN v = 1 .. Len(Append(line, r)) + Len(js)
        /\ \A i \in 1 .. Len(Append(line, r)) : v[i] = Tag(Append(line, r)[i])
        /\ \A i \in 1 .. Len(js) : v[Len(Append(line, r)) + i] = js[i]
    BY <1>1, EndsAre
  <1> HIDE DEF u, v
  <1>4. p \in DOMAIN v /\ v[p] = OpenJob /\ Len(v) = Len(u) + 1
    <2>1. p \in 1 .. Len(Append(line, r)) /\ p \in DOMAIN v /\ Len(v) = Len(u) + 1
      BY <1>1, <1>2, <1>3
    <2>2. v[p] = Tag(r)
      BY <1>1, <1>3, <2>1
    <2> QED
      BY <2>1, <2>2 DEF Tag
  <1>5. \A i \in DOMAIN u : u[i] = IF i < p THEN v[i] ELSE v[i + 1]
    <2> SUFFICES ASSUME NEW i \in DOMAIN u PROVE u[i] = IF i < p THEN v[i] ELSE v[i + 1]
      OBVIOUS
    <2>1. CASE i < p
      <3>1. i \in 1 .. Len(line) /\ i \in 1 .. Len(Append(line, r))
        BY <1>1, <1>2, <2>1
      <3> QED
        BY <1>1, <1>2, <1>3, <2>1, <3>1
    <2>2. CASE ~(i < p)
      <3>1. PICK k \in 1 .. Len(js) : i = Len(line) + k
        <4>1. i - Len(line) \in 1 .. Len(js)
          BY <1>2, <2>2
        <4>2. i = Len(line) + (i - Len(line))
          BY <1>2
        <4> QED
          BY <4>1, <4>2
      <3>2. i + 1 = Len(Append(line, r)) + k
        BY <1>1, <1>2, <3>1
      <3> QED
        BY <1>2, <1>3, <2>2, <3>1, <3>2
    <2> QED
      BY <2>1, <2>2
  <1>6. Without(u, OpenJob) = Without(v, OpenJob)
    BY <1>2, <1>3, <1>4, <1>5, WithoutOneLess
  <1> QED
    BY <1>6 DEF u, v

LEMMA EndsOpened ==
  ASSUME NEW line \in Seq(Results), NEW js \in Seq(PostedJobs), js # <<>>, Head(js) = OpenJob
  PROVE  Without(Ends(line, Tail(js)), OpenJob) = Without(Ends(line, js), OpenJob)
  <1> DEFINE u == Ends(line, Tail(js))
             v == Ends(line, js)
             p == Len(line) + 1
  <1>1. /\ Tail(js) \in Seq(PostedJobs) /\ Len(Tail(js)) = Len(js) - 1 /\ Head(js) = js[1]
        /\ \A i \in 1 .. Len(Tail(js)) : Tail(js)[i] = js[i + 1]
        /\ Len(js) >= 1
    BY HeadTailProperties, LenProperties, EmptySeq
  <1>2. /\ v \in Seq(PostedJobs) /\ Len(v) = Len(line) + Len(js)
        /\ Len(line) \in Nat /\ Len(js) \in Nat
        /\ DOMAIN v = 1 .. Len(line) + Len(js)
        /\ \A i \in 1 .. Len(line) : v[i] = Tag(line[i])
        /\ \A i \in 1 .. Len(js) : v[Len(line) + i] = js[i]
    BY EndsAre
  <1>3. /\ u \in Seq(PostedJobs) /\ Len(u) = Len(line) + Len(Tail(js))
        /\ DOMAIN u = 1 .. Len(line) + Len(Tail(js))
        /\ \A i \in 1 .. Len(line) : u[i] = Tag(line[i])
        /\ \A i \in 1 .. Len(Tail(js)) : u[Len(line) + i] = Tail(js)[i]
    BY <1>1, EndsAre
  <1> HIDE DEF u, v
  <1>4. p \in DOMAIN v /\ v[p] = OpenJob /\ Len(v) = Len(u) + 1
    <2>1. 1 \in 1 .. Len(js) /\ p \in DOMAIN v /\ Len(v) = Len(u) + 1
      BY <1>1, <1>2, <1>3
    <2>2. v[p] = js[1]
      BY <1>2, <2>1
    <2> QED
      BY <1>1, <2>1, <2>2
  <1>5. \A i \in DOMAIN u : u[i] = IF i < p THEN v[i] ELSE v[i + 1]
    <2> SUFFICES ASSUME NEW i \in DOMAIN u PROVE u[i] = IF i < p THEN v[i] ELSE v[i + 1]
      OBVIOUS
    <2>1. CASE i < p
      <3>1. i \in 1 .. Len(line)
        BY <1>2, <1>3, <2>1
      <3> QED
        BY <1>2, <1>3, <2>1, <3>1
    <2>2. CASE ~(i < p)
      <3>1. PICK k \in 1 .. Len(Tail(js)) : i = Len(line) + k
        <4>1. i - Len(line) \in 1 .. Len(Tail(js))
          BY <1>1, <1>2, <1>3, <2>2
        <4>2. i = Len(line) + (i - Len(line))
          BY <1>2, <1>3
        <4> QED
          BY <4>1, <4>2
      <3>2. k + 1 \in 1 .. Len(js) /\ i + 1 = Len(line) + (k + 1)
        BY <1>1, <1>2, <3>1
      <3> QED
        BY <1>1, <1>2, <1>3, <2>2, <3>1, <3>2
    <2> QED
      BY <2>1, <2>2
  <1> HIDE DEF p
  <1>6. Without(u, OpenJob) = Without(v, OpenJob)
    BY <1>2, <1>3, <1>4, <1>5, WithoutOneLess
  <1> QED
    BY <1>6 DEF u, v

\* What the steps use of the types, and of the line.
LEMMA LineTypes ==
  ASSUME IInv
  PROVE  /\ Line \in Seq(Results) /\ jobs \in Seq(PostedJobs)
         /\ PostedJobs = Queries \cup {OpenJob}
         /\ DOMAIN Line = 1 .. Len(Line) /\ Len(Line) \in Nat
         /\ \A i \in DOMAIN Line :
              /\ Line[i] \in Results /\ Line[i].query \in Queries /\ Line[i].query # OpenJob
              /\ Line[i].last \in BOOLEAN /\ Line[i].n \in Nat \ {0}
         /\ stored \in Nat /\ Endings \in Seq(PostedJobs) /\ Endings = Ends(Line, jobs)
  <1>1. Line \in Seq(Results) /\ jobs \in Seq(PostedJobs)
    BY Types DEF PostedJobs
  <1>2. DOMAIN Line = 1 .. Len(Line) /\ Len(Line) \in Nat
    BY <1>1, LenProperties
  <1>3. \A i \in DOMAIN Line : Line[i] \in Results
    BY <1>1, <1>2, ElementOfSeq
  <1>4. MaxResults \in Nat \ {0} /\ OpenJob \notin Queries
    BY ConstantsAssumption
  <1>5. \A x \in Results : x.query \in Queries /\ x.last \in BOOLEAN /\ x.n \in Nat \ {0}
    BY <1>4 DEF Results
  <1>6. stored \in Nat
    BY <1>4 DEF IInv, TypeOK
  <1>7. Endings \in Seq(PostedJobs) /\ Endings = Ends(Line, jobs)
    BY <1>1, EndsAre, EndingsEnds
  <1> QED
    BY <1>1, <1>2, <1>3, <1>4, <1>5, <1>6, <1>7 DEF PostedJobs

\* The first query in line is the one of the first result.
LEMMA FirstInLine ==
  ASSUME IInv, Following, Line # <<>>
  PROVE  lineMap # <<>> /\ Head(lineMap) = Head(Line).query
  <1> DEFINE u == Endings
             N == Len(Line)
  <1>1. /\ Line \in Seq(Results) /\ jobs \in Seq(PostedJobs)
        /\ DOMAIN Line = 1 .. N /\ N \in Nat /\ u \in Seq(PostedJobs) /\ u = Ends(Line, jobs)
        /\ \A i \in DOMAIN Line : Line[i].query # OpenJob /\ Line[i].last \in BOOLEAN
    BY LineTypes
  <1>2. N >= 1 /\ Head(Line) = Line[1]
    BY <1>1, EmptySeq
  <1>3. /\ DOMAIN u = 1 .. N + Len(jobs) /\ Len(jobs) \in Nat
        /\ \A i \in 1 .. N : u[i] = Tag(Line[i])
        /\ jobs # <<>> => N + 1 \in DOMAIN u /\ u[N + 1] = Head(jobs)
    <2>1. /\ DOMAIN u = 1 .. N + Len(jobs) /\ Len(jobs) \in Nat
          /\ \A i \in 1 .. N : u[i] = Tag(Line[i])
          /\ \A i \in 1 .. Len(jobs) : N + i \in DOMAIN u /\ u[N + i] = jobs[i]
      BY <1>1, EndsAre
    <2>2. jobs # <<>> => 1 \in 1 .. Len(jobs) /\ Head(jobs) = jobs[1]
      BY <1>1, <2>1, EmptySeq
    <2> QED
      BY <2>1, <2>2
  <1>4. \A i \in 1 .. N : u[i] = (IF Line[i].last THEN Line[i].query ELSE OpenJob)
    BY <1>3 DEF Tag
  <1> HIDE DEF u, N
  <1>5. /\ \A i, k \in 1 .. N :
             i < k /\ (\A j \in 1 .. N : i <= j /\ j < k => ~Line[j].last) =>
               Line[k].query = Line[i].query
        /\ ~Line[N].last => jobs # <<>> /\ Head(jobs) = Line[N].query
    BY <1>1 DEF Following, N
  <1>6. \E k \in DOMAIN u : u[k] # OpenJob /\ k <= N + 1
    <2>1. CASE Line[N].last
      BY <1>1, <1>2, <1>3, <1>4, <2>1
    <2>2. CASE ~Line[N].last
      <3>1. N \in DOMAIN Line
        BY <1>1, <1>2
      <3>2. N + 1 \in DOMAIN u /\ u[N + 1] # OpenJob
        BY <1>1, <1>3, <1>5, <2>2, <3>1
      <3> QED
        BY <1>1, <3>2
    <2> QED
      BY <2>1, <2>2
  <1>7. PICK p \in DOMAIN u :
          u[p] # OpenJob /\ p <= N + 1 /\ \A i \in DOMAIN u : i < p => u[i] = OpenJob
    <2>1. PICK k \in DOMAIN u : u[k] # OpenJob /\ k <= N + 1
      BY <1>6
    <2>2. PICK p \in DOMAIN u :
            u[p] # OpenJob /\ p <= k /\ \A i \in DOMAIN u : i < p => u[i] = OpenJob
      <3>1. u \in Seq(PostedJobs)
        BY <1>1
      <3> QED
        BY <2>1, <3>1, FirstOther
    <2>3. p <= N + 1
      <3>1. p \in Nat /\ k \in Nat /\ N + 1 \in Nat
        BY <1>1, <1>3
      <3> QED
        BY <2>1, <2>2, <3>1
    <2> QED
      BY <2>2, <2>3
  <1>8. Without(u, OpenJob) # <<>> /\ Head(Without(u, OpenJob)) = u[p]
    BY <1>1, <1>7, WithoutFirst
  <1>9. p \in Nat /\ p >= 1
    BY <1>3, <1>7
  <1>10. \A i \in 1 .. N : i < p => ~Line[i].last
    <2> SUFFICES ASSUME NEW i \in 1 .. N, i < p, Line[i].last PROVE FALSE
      OBVIOUS
    <2>1. i \in DOMAIN u /\ i \in DOMAIN Line
      BY <1>1, <1>3
    <2> QED
      BY <1>1, <1>4, <1>7, <2>1
  <1>11. u[p] = Line[1].query
    <2>1. CASE p <= N
      <3>1. p \in 1 .. N /\ 1 \in 1 .. N
        BY <1>1, <1>2, <1>9, <2>1
      <3>2. u[p] = Line[p].query
        BY <1>4, <1>7, <3>1
      <3>3. p = 1 \/ 1 < p
        BY <1>9
      <3>4. 1 < p => Line[p].query = Line[1].query
        BY <1>5, <1>10, <3>1
      <3> QED
        BY <3>2, <3>3, <3>4
    <2>2. CASE ~(p <= N)
      <3>1. p = N + 1 /\ N \in 1 .. N /\ 1 \in 1 .. N /\ N < p
        BY <1>1, <1>2, <1>7, <1>9, <2>2
      <3>2. ~Line[N].last
        BY <1>10, <3>1
      <3>3. u[p] = Line[N].query
        BY <1>3, <1>5, <3>1, <3>2
      <3>4. N = 1 \/ 1 < N
        BY <1>1, <1>2
      <3>5. \A j \in 1 .. N : 1 <= j /\ j < N => ~Line[j].last
        BY <1>1, <1>10, <3>1
      <3>6. 1 < N => Line[N].query = Line[1].query
        BY <1>5, <3>1, <3>5
      <3> QED
        BY <3>3, <3>4, <3>6
    <2> QED
      BY <2>1, <2>2
  <1> QED
    BY <1>2, <1>8, <1>11 DEF u, lineMap

\* A step of neither the worker's jobs nor the results.
LEMMA SameFollowing ==
  ASSUME Following, Line' = Line, UNCHANGED <<jobs, stored>>
  PROVE  Following' /\ lineMap' = lineMap /\ givenMap' = givenMap
  <1>1. Following'
    BY DEF Following
  <1>2. Endings' = Endings
    BY DEF Endings
  <1> QED
    BY <1>1, <1>2 DEF lineMap, givenMap

\* A request of the worker.
LEMMA RequestFollowing ==
  ASSUME IInv, Following, NEW j \in PostedJobs, jobs' = Append(jobs, j),
         Line' = Line, stored' = stored
  PROVE  /\ Following' /\ givenMap' = givenMap
         /\ lineMap' = IF j = OpenJob THEN lineMap ELSE Append(lineMap, j)
  <1>1. /\ Line \in Seq(Results) /\ jobs \in Seq(PostedJobs)
        /\ Endings \in Seq(PostedJobs) /\ Endings = Ends(Line, jobs)
    BY LineTypes
  <1>2. jobs' # <<>> /\ (jobs # <<>> => Head(jobs') = Head(jobs))
    <2>1. /\ Append(jobs, j) \in Seq(PostedJobs) /\ Len(Append(jobs, j)) = Len(jobs) + 1
          /\ \A i \in 1 .. Len(jobs) : Append(jobs, j)[i] = jobs[i]
          /\ Len(jobs) \in Nat
      BY <1>1, AppendProperties, LenProperties
    <2>2. Append(jobs, j) # <<>>
      BY <2>1, EmptySeq
    <2>3. jobs # <<>> => 1 \in 1 .. Len(jobs)
      BY <1>1, <2>1, EmptySeq
    <2> QED
      BY <2>1, <2>2, <2>3
  <1>3. Following'
    BY <1>2 DEF Following
  <1>4. Endings' = Append(Endings, j)
    <2>1. Endings' = Ends(Line, Append(jobs, j))
      BY EndingsEnds
    <2> QED
      BY <1>1, <2>1, EndsRequested
  <1>5. Without(Append(Endings, j), OpenJob) =
          IF j = OpenJob THEN Without(Endings, OpenJob) ELSE Append(Without(Endings, OpenJob), j)
    BY <1>1, WithoutAppend
  <1> QED
    BY <1>3, <1>4, <1>5 DEF lineMap, givenMap

\* A result is stored.
LEMMA StoredFollowing ==
  ASSUME IInv, Following, NEW q \in Queries, NEW last \in BOOLEAN, jobs # <<>>, Head(jobs) = q,
         NEW r \in Results, r = [query |-> q, n |-> stored + 1, last |-> last],
         Line' = Append(Line, r),
         IF last THEN jobs' = Tail(jobs) /\ stored' = 0
                 ELSE jobs' = jobs /\ stored' = stored + 1
  PROVE  Following' /\ lineMap' = lineMap /\ givenMap' = givenMap
  <1> DEFINE N == Len(Line)
             after == Append(Line, r)
  <1>1. /\ Line \in Seq(Results) /\ jobs \in Seq(PostedJobs) /\ stored \in Nat
        /\ DOMAIN Line = 1 .. N /\ N \in Nat /\ q # OpenJob
        /\ Endings = Ends(Line, jobs)
    BY LineTypes, ConstantsAssumption
  <1>2. r.query = q /\ r.n = stored + 1 /\ r.last = last
    OBVIOUS
  <1>3. /\ after \in Seq(Results) /\ Len(after) = N + 1 /\ DOMAIN after = 1 .. N + 1
        /\ after[N + 1] = r /\ \A i \in 1 .. N : after[i] = Line[i]
    <2>1. /\ after \in Seq(Results) /\ Len(after) = N + 1
          /\ after[N + 1] = r /\ \A i \in 1 .. N : after[i] = Line[i]
      BY <1>1, AppendProperties
    <2> QED
      BY <2>1, LenProperties
  <1>4. Line # <<>> => N \in 1 .. N
    BY <1>1, EmptySeq
  <1>5. 1 \in 1 .. N => Line # <<>>
    BY <1>1
  <1> HIDE DEF after, N
  <1>6. /\ \A i, k \in 1 .. N :
             i < k /\ (\A j \in 1 .. N : i <= j /\ j < k => ~Line[j].last) =>
               Line[k].query = Line[i].query
        /\ \A i \in 1 .. N :
             i + 1 \in 1 .. N => Line[i + 1].n = IF Line[i].last THEN 1 ELSE Line[i].n + 1
        /\ Line # <<>> => IF Line[N].last THEN stored = 0
                                          ELSE stored = Line[N].n /\ Line[N].query = q
    BY <1>1 DEF Following, N
  <1>7. \A i, k \in 1 .. N + 1 :
          i < k /\ (\A j \in 1 .. N + 1 : i <= j /\ j < k => ~after[j].last) =>
            after[k].query = after[i].query
    <2> SUFFICES ASSUME NEW i \in 1 .. N + 1, NEW k \in 1 .. N + 1, i < k,
                        \A j \in 1 .. N + 1 : i <= j /\ j < k => ~after[j].last
                 PROVE  after[k].query = after[i].query
      OBVIOUS
    <2>1. i \in 1 .. N
      BY <1>1
    <2>2. \A j \in 1 .. N : i <= j /\ j < k => ~Line[j].last
      BY <1>1, <1>3
    <2>3. CASE k <= N
      <3>1. k \in 1 .. N
        BY <1>1, <2>3
      <3> QED
        BY <1>3, <1>6, <2>1, <2>2, <3>1
    <2>4. CASE ~(k <= N)
      <3>1. k = N + 1 /\ N \in 1 .. N /\ i <= N /\ N < k
        BY <1>1, <2>1, <2>4
      <3>2. Line # <<>> /\ ~Line[N].last
        BY <1>1, <1>5, <2>1, <2>2, <3>1
      <3>3. after[k].query = Line[N].query
        BY <1>2, <1>3, <1>6, <3>1, <3>2
      <3>4. Line[N].query = Line[i].query
        <4>1. i = N \/ i < N
          BY <1>1, <2>1
        <4>2. \A j \in 1 .. N : i <= j /\ j < N => ~Line[j].last
          BY <1>1, <2>2, <3>1
        <4> QED
          BY <1>6, <2>1, <3>1, <4>1, <4>2
      <3> QED
        BY <1>3, <2>1, <3>3, <3>4
    <2> QED
      BY <2>3, <2>4
  <1>8. \A i \in 1 .. N + 1 :
          i + 1 \in 1 .. N + 1 => after[i + 1].n = IF after[i].last THEN 1 ELSE after[i].n + 1
    <2> SUFFICES ASSUME NEW i \in 1 .. N + 1, i + 1 \in 1 .. N + 1
                 PROVE  after[i + 1].n = IF after[i].last THEN 1 ELSE after[i].n + 1
      OBVIOUS
    <2>1. i \in 1 .. N
      BY <1>1
    <2>2. CASE i + 1 \in 1 .. N
      BY <1>3, <1>6, <2>1, <2>2
    <2>3. CASE i + 1 \notin 1 .. N
      <3>1. i = N
        BY <1>1, <2>1, <2>3
      <3>2. Line # <<>>
        BY <1>1, <1>5, <2>1
      <3>3. after[i + 1].n = stored + 1 /\ after[i] = Line[N]
        BY <1>2, <1>3, <2>1, <3>1
      <3> QED
        BY <1>1, <1>6, <3>2, <3>3
    <2> QED
      BY <2>2, <2>3
  <1>9. IF last THEN stored' = 0 ELSE stored' = r.n /\ jobs' # <<>> /\ Head(jobs') = r.query
    BY <1>2
  <1>10. stored' # 0 => jobs' # <<>> /\ Head(jobs') # OpenJob
    BY <1>1
  <1>11. Following'
    <2>1. /\ Line' = after /\ DOMAIN Line' = 1 .. N + 1 /\ Len(Line') = N + 1
      BY <1>3 DEF after
    <2>2. after[N + 1] = r /\ r.last = last
      BY <1>2, <1>3
    <2> QED
      BY <1>7, <1>8, <1>9, <1>10, <2>1, <2>2 DEF Following
  <1>12. lineMap' = lineMap
    <2>1. Endings' = Ends(Line', jobs')
      BY EndingsEnds
    <2>2. CASE last
      <3>1. Ends(Append(Line, r), Tail(jobs)) = Ends(Line, jobs)
        BY <1>1, <1>2, <2>2, EndsStoredLast
      <3> QED
        BY <1>1, <2>1, <2>2, <3>1 DEF lineMap
    <2>3. CASE ~last
      <3>1. Without(Ends(Append(Line, r), jobs), OpenJob) = Without(Ends(Line, jobs), OpenJob)
        BY <1>1, <1>2, <2>3, EndsStoredMore
      <3> QED
        BY <1>1, <2>1, <2>3, <3>1 DEF lineMap
    <2> QED
      BY <2>2, <2>3
  <1>13. givenMap' = givenMap
    <2>1. Line' # <<>> /\ Head(Line') = after[1]
      <3>1. after # <<>>
        BY <1>1, <1>3, EmptySeq
      <3> QED
        BY <1>3, <3>1 DEF after
    <2>2. CASE Line = <<>>
      <3>1. N = 0
        BY <2>2, EmptySeq DEF N
      <3>2. after[1].n = stored + 1
        BY <1>2, <1>3, <3>1
      <3> QED
        BY <1>1, <2>1, <2>2, <3>2 DEF givenMap
    <2>3. CASE Line # <<>>
      <3>1. 1 \in 1 .. N
        BY <1>1, <1>4, <2>3
      <3>2. after[1] = Head(Line)
        BY <1>3, <3>1
      <3> QED
        BY <2>1, <2>3, <3>2 DEF givenMap
    <2> QED
      BY <2>2, <2>3
  <1> QED
    BY <1>11, <1>12, <1>13

\* The worker opened: it was at no query.
LEMMA OpenedFollowing ==
  ASSUME IInv, Following, jobs # <<>>, Head(jobs) = OpenJob, jobs' = Tail(jobs),
         Line' = Line, stored' = stored
  PROVE  Following' /\ lineMap' = lineMap /\ givenMap' = givenMap
  <1>1. /\ Line \in Seq(Results) /\ jobs \in Seq(PostedJobs) /\ Endings = Ends(Line, jobs)
        /\ DOMAIN Line = 1 .. Len(Line) /\ Len(Line) \in Nat
        /\ \A i \in DOMAIN Line : Line[i].query # OpenJob
    BY LineTypes
  <1>2. stored = 0
    BY DEF Following
  <1>3. Line # <<>> => Line[Len(Line)].last
    <2>1. Line # <<>> => Len(Line) \in DOMAIN Line
      BY <1>1, EmptySeq
    <2> QED
      BY <1>1, <2>1 DEF Following
  <1>4. Following'
    BY <1>2, <1>3 DEF Following
  <1>5. lineMap' = lineMap
    <2>1. Endings' = Ends(Line, Tail(jobs))
      BY EndingsEnds
    <2>2. Without(Ends(Line, Tail(jobs)), OpenJob) = Without(Ends(Line, jobs), OpenJob)
      BY <1>1, EndsOpened
    <2> QED
      BY <1>1, <2>1, <2>2 DEF lineMap
  <1> QED
    BY <1>4, <1>5 DEF givenMap

\* The first result is taken for its caller.
LEMMA TakenFollowing ==
  ASSUME IInv, Following, Line # <<>>, Line' = Tail(Line), UNCHANGED <<jobs, stored>>
  PROVE  /\ Following' /\ Head(Line) \in Results
         /\ Head(Line).n = givenMap + 1
         /\ lineMap' = IF Head(Line).last THEN Tail(lineMap) ELSE lineMap
         /\ givenMap' = IF Head(Line).last THEN 0 ELSE givenMap + 1
  <1> DEFINE N == Len(Line)
             after == Tail(Line)
             r == Head(Line)
  <1>1. /\ Line \in Seq(Results) /\ jobs \in Seq(PostedJobs) /\ stored \in Nat
        /\ DOMAIN Line = 1 .. N /\ N \in Nat /\ Endings = Ends(Line, jobs)
        /\ Endings \in Seq(PostedJobs)
        /\ \A i \in DOMAIN Line :
             /\ Line[i] \in Results /\ Line[i].query # OpenJob
             /\ Line[i].last \in BOOLEAN /\ Line[i].n \in Nat \ {0}
    BY LineTypes
  <1>2. /\ r = Line[1] /\ N >= 1 /\ 1 \in DOMAIN Line /\ after \in Seq(Results)
        /\ Len(after) = N - 1 /\ DOMAIN after = 1 .. N - 1
        /\ \A i \in 1 .. N - 1 : after[i] = Line[i + 1]
    <2>1. /\ after \in Seq(Results) /\ Len(after) = N - 1
          /\ \A i \in 1 .. Len(after) : after[i] = Line[i + 1]
      BY <1>1, HeadTailProperties
    <2>2. N >= 1
      BY <1>1, EmptySeq
    <2> QED
      BY <1>1, <2>1, <2>2, LenProperties
  <1> HIDE DEF N, after, r
  <1>3. /\ \A i, k \in 1 .. N :
             i < k /\ (\A j \in 1 .. N : i <= j /\ j < k => ~Line[j].last) =>
               Line[k].query = Line[i].query
        /\ \A i \in 1 .. N :
             i + 1 \in 1 .. N => Line[i + 1].n = IF Line[i].last THEN 1 ELSE Line[i].n + 1
        /\ IF Line[N].last THEN stored = 0
                           ELSE stored = Line[N].n /\ jobs # <<>> /\ Head(jobs) = Line[N].query
        /\ stored # 0 => jobs # <<>> /\ Head(jobs) # OpenJob
    BY <1>1 DEF Following, N
  <1>4. \A i, k \in 1 .. N - 1 :
          i < k /\ (\A j \in 1 .. N - 1 : i <= j /\ j < k => ~after[j].last) =>
            after[k].query = after[i].query
    <2> SUFFICES ASSUME NEW i \in 1 .. N - 1, NEW k \in 1 .. N - 1, i < k,
                        \A j \in 1 .. N - 1 : i <= j /\ j < k => ~after[j].last
                 PROVE  after[k].query = after[i].query
      OBVIOUS
    <2>1. i + 1 \in 1 .. N /\ k + 1 \in 1 .. N /\ i + 1 < k + 1
      BY <1>1
    <2>2. \A j \in 1 .. N : i + 1 <= j /\ j < k + 1 => ~Line[j].last
      <3> SUFFICES ASSUME NEW j \in 1 .. N, i + 1 <= j, j < k + 1 PROVE ~Line[j].last
        OBVIOUS
      <3>1. j - 1 \in 1 .. N - 1 /\ i <= j - 1 /\ j - 1 < k /\ (j - 1) + 1 = j
        BY <1>1
      <3>2. ~after[j - 1].last /\ after[j - 1] = Line[(j - 1) + 1]
        BY <1>2, <3>1
      <3> QED
        BY <3>1, <3>2
    <2>3. Line[k + 1].query = Line[i + 1].query
      BY <1>3, <2>1, <2>2
    <2> QED
      BY <1>2, <2>3
  <1>5. \A i \in 1 .. N - 1 :
          i + 1 \in 1 .. N - 1 => after[i + 1].n = IF after[i].last THEN 1 ELSE after[i].n + 1
    <2> SUFFICES ASSUME NEW i \in 1 .. N - 1, i + 1 \in 1 .. N - 1
                 PROVE  after[i + 1].n = IF after[i].last THEN 1 ELSE after[i].n + 1
      OBVIOUS
    <2>1. i + 1 \in 1 .. N /\ (i + 1) + 1 \in 1 .. N
      BY <1>1
    <2>2. after[i + 1] = Line[(i + 1) + 1] /\ after[i] = Line[i + 1]
      BY <1>2
    <2> QED
      BY <1>3, <2>1, <2>2
  <1>6. after # <<>> => N - 1 \in 1 .. N - 1 /\ after[N - 1] = Line[N] /\ 2 \in 1 .. N
    <2>1. after # <<>> => N - 1 # 0
      BY <1>2, EmptySeq
    <2> QED
      BY <1>1, <1>2, <2>1
  <1>7. Following'
    <2>1. /\ Line' = after /\ DOMAIN Line' = 1 .. N - 1 /\ Len(Line') = N - 1
      BY <1>2 DEF after
    <2>2. Line' # <<>> =>
            LET x == Line'[Len(Line')] IN
            IF x.last THEN stored' = 0
                      ELSE stored' = x.n /\ jobs' # <<>> /\ Head(jobs') = x.query
      BY <1>3, <1>6, <2>1
    <2>3. \A i, k \in DOMAIN Line' :
            i < k /\ (\A j \in DOMAIN Line' : i <= j /\ j < k => ~Line'[j].last) =>
              Line'[k].query = Line'[i].query
      BY <1>4, <2>1
    <2>4. \A i \in DOMAIN Line' :
            i + 1 \in DOMAIN Line' =>
              Line'[i + 1].n = IF Line'[i].last THEN 1 ELSE Line'[i].n + 1
      BY <1>5, <2>1
    <2>5. stored' # 0 => jobs' # <<>> /\ Head(jobs') # OpenJob
      BY <1>3
    <2> QED
      BY <2>2, <2>3, <2>4, <2>5 DEF Following
  <1>8. r \in Results /\ r.n = givenMap + 1 /\ r.n \in Nat /\ r.last \in BOOLEAN
    <2>1. givenMap = r.n - 1
      BY DEF givenMap, r
    <2> QED
      BY <1>1, <1>2, <2>1
  <1>9. lineMap' = IF r.last THEN Tail(lineMap) ELSE lineMap
    <2>1. Endings # <<>> /\ Head(Endings) = Tag(r) /\ Endings' = Tail(Endings)
      BY <1>1, EndsTaken, EndingsEnds DEF r
    <2>2. Without(Tail(Endings), OpenJob) =
            IF Head(Endings) = OpenJob THEN Without(Endings, OpenJob)
                                       ELSE Tail(Without(Endings, OpenJob))
      BY <1>1, <2>1, WithoutTail
    <2>3. Tag(r) = OpenJob <=> ~r.last
      BY <1>1, <1>2 DEF Tag
    <2> QED
      BY <2>1, <2>2, <2>3 DEF lineMap
  <1>10. givenMap' = IF r.last THEN 0 ELSE givenMap + 1
    <2>1. CASE after = <<>>
      <3>1. N = 1
        BY <1>1, <1>2, <2>1, EmptySeq
      <3>2. IF r.last THEN stored = 0 ELSE stored = r.n
        BY <1>2, <1>3, <3>1
      <3>3. givenMap' = stored
        BY <2>1 DEF givenMap, after
      <3> QED
        BY <1>8, <3>2, <3>3
    <2>2. CASE after # <<>>
      <3>1. 1 \in 1 .. N /\ 1 + 1 \in 1 .. N /\ 1 \in 1 .. N - 1
        BY <1>1, <1>6, <2>2
      <3>2. Head(after) = Line[2]
        BY <1>2, <2>2, <3>1
      <3>3. Line[2].n = IF r.last THEN 1 ELSE r.n + 1
        BY <1>2, <1>3, <3>1
      <3>4. givenMap' = Line[2].n - 1
        BY <2>2, <3>2 DEF givenMap, after
      <3> QED
        BY <1>8, <3>3, <3>4
    <2> QED
      BY <2>1, <2>2
  <1> QED
    BY <1>7, <1>8, <1>9, <1>10 DEF r

\* A step that the contract does not see.
LEMMA Unseen ==
  ASSUME Following, Line' = Line, UNCHANGED <<jobs, stored, promise>>
  PROVE  Following' /\ [Contract!Next]_Contract!vars
  BY SameFollowing DEF Contract!vars

LEMMA ExecMaps ==
  ASSUME IInv, Following, NEW q \in Queries, exec(q)
  PROVE  Following' /\ [Contract!Next]_Contract!vars
  <1>1. /\ q \notin Unfinished /\ jobs' = Append(jobs, q)
        /\ UNCHANGED <<stored, ready, batch, promise>>
    BY DEF exec, Post, worker, handler
  <1>2. Line' = Line /\ q \in PostedJobs /\ q # OpenJob
    BY <1>1, ConstantsAssumption DEF Line, PostedJobs
  <1>3. Following' /\ givenMap' = givenMap /\ lineMap' = Append(lineMap, q)
    BY <1>1, <1>2, RequestFollowing
  <1>4. q \notin Range(lineMap)
    <2>1. ~Due(q)
      BY <1>1, UnfinishedIs
    <2>2. Range(lineMap) \subseteq Range(Endings)
      BY LineTypes, WithoutMembers DEF lineMap
    <2>3. ASSUME NEW i \in DOMAIN Endings, Endings[i] = q PROVE FALSE
      <3>1. /\ Line \in Seq(Results) /\ jobs \in Seq(PostedJobs) /\ Endings = Ends(Line, jobs)
        BY LineTypes
      <3>2. /\ Len(Line) \in Nat /\ Len(jobs) \in Nat
            /\ DOMAIN Line = 1 .. Len(Line) /\ DOMAIN jobs = 1 .. Len(jobs)
            /\ DOMAIN Endings = 1 .. Len(Line) + Len(jobs)
            /\ \A k \in 1 .. Len(Line) : Endings[k] = Tag(Line[k])
            /\ \A k \in 1 .. Len(jobs) : Endings[Len(Line) + k] = jobs[k]
        BY <3>1, EndsAre
      <3>3. CASE i <= Len(Line)
        <4>1. i \in DOMAIN Line /\ Tag(Line[i]) = q
          BY <2>3, <3>2, <3>3
        <4> QED
          BY <1>2, <2>1, <4>1 DEF Tag, Due
      <3>4. CASE ~(i <= Len(Line))
        <4>1. /\ i - Len(Line) \in DOMAIN jobs /\ i = Len(Line) + (i - Len(Line))
          BY <3>2, <3>4
        <4>2. jobs[i - Len(Line)] = q
          BY <2>3, <3>2, <4>1
        <4> QED
          BY <2>1, <4>1, <4>2 DEF Due, Range
      <3> QED
        BY <3>3, <3>4
    <2> QED
      BY <2>2, <2>3 DEF Range
  <1>5. Contract!Exec(q)
    <2>1. Contract!Range(lineMap) = Range(lineMap)
      BY DEF Contract!Range, Range
    <2> QED
      BY <1>1, <1>3, <1>4, <2>1 DEF Contract!Exec
  <1> QED
    BY <1>3, <1>5 DEF Contract!Next

LEMMA OpenStartsMaps ==
  ASSUME IInv, Following, NEW o \in Opens, OpenStarts(o)
  PROVE  Following' /\ [Contract!Next]_Contract!vars
  <1>1. /\ jobs' = Append(jobs, OpenJob) /\ UNCHANGED <<stored, ready, batch, promise>>
    BY DEF OpenStarts, OpenCall, Post, worker, handler
  <1>2. Line' = Line /\ OpenJob \in PostedJobs
    BY <1>1 DEF Line, PostedJobs
  <1>3. Following' /\ givenMap' = givenMap /\ lineMap' = lineMap
    BY <1>1, <1>2, RequestFollowing
  <1> QED
    BY <1>1, <1>3 DEF Contract!vars

LEMMA StoreMaps ==
  ASSUME IInv, Following, NEW q \in Queries, StoreMore(q) \/ StoreLast(q)
  PROVE  Following' /\ [Contract!Next]_Contract!vars
  <1>1. PICK last \in BOOLEAN :
          /\ Runs(q) /\ UNCHANGED <<batch, promise>>
          /\ ready' = Append(ready, [query |-> q, n |-> stored + 1, last |-> last])
          /\ (~last => stored + 1 < MaxResults)
          /\ IF last THEN jobs' = Tail(jobs) /\ stored' = 0
                     ELSE jobs' = jobs /\ stored' = stored + 1
    <2>1. CASE StoreMore(q)
      <3>1. /\ Runs(q) /\ UNCHANGED <<batch, promise>>
            /\ ready' = Append(ready, [query |-> q, n |-> stored + 1, last |-> FALSE])
            /\ stored + 1 < MaxResults /\ jobs' = jobs /\ stored' = stored + 1
        BY <2>1 DEF StoreMore, handler
      <3> QED
        BY <3>1
    <2>2. CASE StoreLast(q)
      <3>1. /\ Runs(q) /\ UNCHANGED <<batch, promise>>
            /\ ready' = Append(ready, [query |-> q, n |-> stored + 1, last |-> TRUE])
            /\ jobs' = Tail(jobs) /\ stored' = 0
        BY <2>2 DEF StoreLast, handler
      <3> QED
        BY <3>1
    <2> QED
      BY <2>1, <2>2
  <1> DEFINE r == [query |-> q, n |-> stored + 1, last |-> last]
  <1>2. r \in Results
    <2>1. stored \in 0 .. (MaxResults - 1) /\ MaxResults \in Nat \ {0}
      BY ConstantsAssumption DEF IInv, TypeOK
    <2>2. stored + 1 \in 1 .. MaxResults
      BY <2>1
    <2> QED
      BY <2>2 DEF Results
  <1>3. r = [query |-> q, n |-> stored + 1, last |-> last] /\ ready' = Append(ready, r)
    BY <1>1
  <1> HIDE DEF r
  <1>4. Line' = Append(Line, r)
    BY <1>1, <1>2, <1>3, LineAppend
  <1>5. jobs # <<>> /\ Head(jobs) = q
    BY <1>1 DEF Runs
  <1>6. Following' /\ lineMap' = lineMap /\ givenMap' = givenMap
    BY <1>1, <1>2, <1>3, <1>4, <1>5, StoredFollowing
  <1> QED
    BY <1>1, <1>6 DEF Contract!vars

LEMMA WorkerOpensMaps ==
  ASSUME IInv, Following, NEW ok \in BOOLEAN, WorkerOpens(ok)
  PROVE  Following' /\ [Contract!Next]_Contract!vars
  <1>1. /\ jobs # <<>> /\ Head(jobs) = OpenJob /\ jobs' = Tail(jobs)
        /\ UNCHANGED <<stored, ready, batch, promise>>
    BY DEF WorkerOpens, Runs, handler
  <1>2. Line' = Line
    BY <1>1 DEF Line
  <1>3. Following' /\ lineMap' = lineMap /\ givenMap' = givenMap
    BY <1>1, <1>2, OpenedFollowing
  <1> QED
    BY <1>1, <1>3 DEF Contract!vars

LEMMA TakeReadyMaps ==
  ASSUME IInv, Following, TakeReady
  PROVE  Following' /\ [Contract!Next]_Contract!vars
  <1>1. /\ Takes("queryReady") /\ batch' = ready /\ ready' = <<>>
        /\ UNCHANGED <<jobs, stored, promise>>
    BY DEF TakeReady
  <1>2. batch = <<>>
    BY <1>1, TakesEvent
  <1>3. Line' = Line
    BY <1>1, <1>2, Types, ConcatEmptySeq DEF Line
  <1> QED
    BY <1>1, <1>3, Unseen

LEMMA DeliverNextMaps ==
  ASSUME IInv, Following, DeliverNext
  PROVE  Following' /\ [Contract!Next]_Contract!vars
  <1> DEFINE r == Head(Line)
  <1>1. /\ todo = "deliver" /\ promise' = Head(batch) /\ batch' = Tail(batch)
        /\ UNCHANGED <<jobs, stored, ready>>
    BY DEF DeliverNext, At, worker
  <1>2. batch # <<>> /\ promise = NoResult
    BY <1>1 DEF IInv, Handling, Promised
  <1>3. Line # <<>> /\ r = Head(batch) /\ Line' = Tail(Line)
    <2>1. batch \in Seq(Results) /\ ready \in Seq(Results)
      BY Types
    <2>2. /\ batch \o ready # <<>> /\ Head(batch \o ready) = Head(batch)
          /\ Tail(batch \o ready) = Tail(batch) \o ready
      BY <1>2, <2>1, TailConcat
    <2>3. Line' = Tail(batch) \o ready
      BY <1>1 DEF Line
    <2> QED
      BY <2>2, <2>3 DEF Line
  <1> HIDE DEF r
  <1>4. /\ Following' /\ r \in Results /\ r.n = givenMap + 1
        /\ lineMap' = IF r.last THEN Tail(lineMap) ELSE lineMap
        /\ givenMap' = IF r.last THEN 0 ELSE givenMap + 1
    BY <1>1, <1>3, TakenFollowing DEF r
  <1>5. lineMap # <<>> /\ Head(lineMap) = r.query
    BY <1>3, FirstInLine DEF r
  <1>6. r.last \in BOOLEAN /\ r = [query |-> Head(lineMap), n |-> givenMap + 1, last |-> r.last]
    BY <1>4, <1>5 DEF Results
  <1>7. Contract!Answer(r.last)
    BY <1>1, <1>2, <1>3, <1>4, <1>5, <1>6 DEF Contract!Answer
  <1> QED
    BY <1>4, <1>6, <1>7 DEF Contract!Next

LEMMA CountResultMaps ==
  ASSUME IInv, Following, CountResult
  PROVE  Following' /\ [Contract!Next]_Contract!vars
  <1>1. /\ todo = "count" /\ promise' = NoResult
        /\ UNCHANGED <<jobs, stored, ready, batch>>
    BY DEF CountResult, At, worker
  <1>2. promise # NoResult
    BY <1>1 DEF IInv, Promised
  <1>3. Line' = Line
    BY <1>1 DEF Line
  <1>4. Following' /\ lineMap' = lineMap /\ givenMap' = givenMap
    BY <1>1, <1>3, SameFollowing
  <1>5. Contract!Answered
    BY <1>1, <1>2, <1>4 DEF Contract!Answered
  <1> QED
    BY <1>4, <1>5 DEF Contract!Next

\* A driver that is gone has no query in line.
LEMMA RecreateMaps ==
  ASSUME IInv, Following, Recreate
  PROVE  Following' /\ [Contract!Next]_Contract!vars
  <1>1. /\ life = "deleted" /\ jobs' = <<>> /\ stored' = 0 /\ ready' = <<>>
        /\ UNCHANGED <<batch, promise>>
    BY DEF Recreate, handler
  <1>2. jobs = <<>> /\ batch = <<>> /\ ready = <<>>
    BY <1>1 DEF IInv, Ended
  <1>3. stored = 0
    BY <1>2 DEF Following
  <1>4. Line' = Line
    BY <1>1, <1>2 DEF Line
  <1> QED
    BY <1>1, <1>2, <1>3, <1>4, Unseen

LEMMA StepMaps ==
  ASSUME IInv, Following, [Next]_vars
  PROVE  Following' /\ [Contract!Next]_Contract!vars
  <1>1. CASE Worker
    <2>1. CASE \E ok \in BOOLEAN : WorkerOpens(ok)
      BY <2>1, WorkerOpensMaps
    <2>2. CASE \E q \in Queries : StoreMore(q) \/ StoreLast(q)
      BY <2>2, StoreMaps
    <2>3. CASE SignalQuery \/ SignalPrepared \/ WorkerEnds
      <3>1. UNCHANGED <<jobs, stored, ready, batch, promise>>
        BY <2>3 DEF SignalQuery, SignalPrepared, SignalReady, WorkerEnds, handler
      <3> QED
        BY <3>1, Unseen DEF Line
    <2> QED
      BY <1>1, <2>1, <2>2, <2>3 DEF Worker
  <1>2. CASE EventLoop
    <2>1. CASE TakeReady
      BY <2>1, TakeReadyMaps
    <2>2. CASE DeliverNext
      BY <2>2, DeliverNextMaps
    <2>3. CASE CountResult
      BY <2>3, CountResultMaps
    <2>4. CASE TakeOpened("opened", "Connected") \/ TakeOpened("openFailed", "Disconnected")
      <3>1. UNCHANGED <<jobs, stored, ready, batch, promise>>
        BY <2>4 DEF TakeOpened, worker
      <3> QED
        BY <3>1, Unseen DEF Line
    <2>5. CASE EmitNext \/ CountOpen \/ Join
      <3>1. UNCHANGED <<jobs, stored, ready, batch, promise>>
        BY <2>5 DEF EmitNext, CountOpen, Join, worker, handler
      <3> QED
        BY <3>1, Unseen DEF Line
    <2> QED
      BY <1>2, <2>1, <2>2, <2>3, <2>4, <2>5 DEF EventLoop
  <1>3. CASE Application
    <2>1. ASSUME NEW o \in Opens, OpenJoins(o) PROVE Following' /\ [Contract!Next]_Contract!vars
      <3>1. UNCHANGED <<jobs, stored, ready, batch, promise>>
        BY <2>1 DEF OpenJoins, OpenCall, worker, handler
      <3> QED
        BY <3>1, Unseen DEF Line
    <2>2. CASE \E o \in Opens : OpenStarts(o)
      BY <2>2, OpenStartsMaps
    <2>3. CASE \E q \in Queries : exec(q)
      BY <2>3, ExecMaps
    <2>4. CASE (\E c \in Queries \cup Opens : Drop(c)) \/ Release
      <3>1. UNCHANGED <<jobs, stored, ready, batch, promise>>
        BY <2>4 DEF Drop, Release, worker, handler
      <3> QED
        BY <3>1, Unseen DEF Line
    <2>5. CASE Recreate
      BY <2>5, RecreateMaps
    <2> QED
      BY <1>3, <2>1, <2>2, <2>3, <2>4, <2>5 DEF Application
  <1>4. CASE UNCHANGED vars
    <2>1. UNCHANGED <<jobs, stored, ready, batch, promise>>
      BY <1>4 DEF vars, worker, handler
    <2> QED
      BY <2>1, Unseen DEF Line
  <1> QED
    BY <1>1, <1>2, <1>3, <1>4 DEF Next

LEMMA InitMaps == ASSUME Init PROVE Following /\ Contract!Init
  <1>1. /\ batch = <<>> /\ ready = <<>> /\ jobs = <<>> /\ stored = 0 /\ promise = NoResult
    BY DEF Init, Fresh
  <1>2. Line = <<>> /\ DOMAIN Line = {}
    BY <1>1 DEF Line
  <1>3. Following
    BY <1>1, <1>2 DEF Following
  <1>4. lineMap = <<>>
    <2>1. Line \in Seq(Results) /\ jobs \in Seq(PostedJobs) /\ Len(Line) = 0 /\ Len(jobs) = 0
      BY <1>1, <1>2, EmptySeq
    <2>2. Endings \in Seq(PostedJobs) /\ DOMAIN Endings = 1 .. Len(Line) + Len(jobs)
      BY <2>1, EndsAre, EndingsEnds
    <2>3. Range(Endings) = {}
      BY <2>1, <2>2 DEF Range
    <2>4. lineMap \in Seq(PostedJobs) /\ Range(lineMap) = {}
      BY <2>2, <2>3, WithoutPicks, WithoutMembers DEF lineMap
    <2>5. DOMAIN lineMap = {}
      BY <2>4 DEF Range
    <2> QED
      BY <2>4, <2>5, LenProperties, EmptySeq
  <1>5. givenMap = 0
    BY <1>1, <1>2 DEF givenMap
  <1> QED
    BY <1>1, <1>3, <1>4, <1>5 DEF Contract!Init

\* The two threads keep the contract of exec(): each step is one of DriverContract or
\* changes nothing a caller can see.  Results are handed over for the first query in
\* line only, one at a time, each once and in the order in which the worker stored
\* them, until its last; and a query leaves the line in no other way, however signals
\* and results pile up, callers drop and the driver is deleted and made again.
THEOREM SpecKeepsContract == Spec => KeepsContract
  <1>1. Init => Following /\ Contract!Init
    BY InitMaps
  <1>2. IInv /\ Following /\ [Next]_vars => Following' /\ [Contract!Next]_Contract!vars
    BY StepMaps
  <1> QED
    BY <1>1, <1>2, Invariant, PTL DEF Spec, KeepsContract, Contract!Spec

-----------------------------------------------------------------------------
(***************************************************************************)
(* The worker (AStatements).                                               *)
(***************************************************************************)

\* The circumstances of the passing run.
Quiet == ~OmitParameters /\ ~UnpreparedSqlite

-----------------------------------------------------------------------------
(***************************************************************************)
(* The inductive invariant of the worker.                                  *)
(***************************************************************************)

Own == ToSet(queue) \cup ({job} \ {None})

\* A job waits once, is not the one that runs, and asks what can be asked.
Posted ==
  /\ IsInjective(queue) /\ job \notin ToSet(queue)
  /\ \A j \in Own : asked[j] \in Asks

\* Without a connection a job gets no further than to an error.
Closed ==
  ~connected => /\ pc \in {"idle", "lookup", "prepare", "signal"} /\ stmt = None
                /\ Cached = {} /\ links = {}

\* What the worker has in its hands at each step.
Hands ==
  /\ job = None <=> pc \in {"idle", "reset"}
  /\ pc \in {"idle", "lookup", "prepare"} => stmt = None
  /\ pc \in {"bind", "release", "reset"} => stmt # None
  /\ pc = "lookup" => Kind = "prepared"
  /\ pc = "bind" => Kind # "exec"
  /\ pc = "release" => Kind # "prepared"
  /\ pc = "execute" /\ stmt = None => Is("mysql") /\ Kind = "exec"
  /\ pc = "execute" /\ Is("mysql") /\ Kind = "exec" => stmt = None
  /\ pc = "signal" /\ Kind # "prepared" => stmt = None
  /\ pc = "signal" /\ Kind = "prepared" /\ Is("sqlite") => stmt # None
  /\ pc = "reset" => stmt \in Cached /\ ~Is("odbc")

\* The statement of a prepared query is the one of the cache, any other is not.
Owned ==
  /\ job # None /\ stmt # None =>
       IF Kind = "prepared" THEN cache[Id] = stmt ELSE stmt \notin Cached
  /\ pc = "prepare" /\ Kind = "prepared" => cache[Id] = None

\* A handle that is free has no parameters, and one of the cache that no job uses is
\* ready for the next.
Clean ==
  /\ \A h \in Handles : status[h] = "free" => bound[h] = None
  /\ \A h \in Cached \ {stmt} : status[h] = "ready"
  /\ pc = "bind" /\ ~asked[job].parameters => bound[stmt] = None
  /\ pc = "signal" /\ stmt # None /\ Is("odbc") => status[stmt] = "ready"

\* The results of a job so far: earlier commands, without an error.
Partial(j, of) ==
  \A i \in DOMAIN ResultsOf(j) :
    /\ ~ResultsOf(j)[i].last /\ ~ResultsOf(j)[i].error /\ ResultsOf(j)[i].of < of
    /\ \A k \in DOMAIN ResultsOf(j) : i < k => ResultsOf(j)[i].of < ResultsOf(j)[k].of

\* The results of a job that is over: one that is the last after those.
Complete(j) ==
  LET r == ResultsOf(j) IN
  r # <<>> =>
    /\ r[Len(r)].last
    /\ \A i \in 1 .. Len(r) - 1 : ~r[i].last /\ ~r[i].error /\ r[i].of < r[i + 1].of

\* The commands of a text are counted.
Tallied ==
  job # None =>
    /\ pc \in {"lookup", "prepare"} => ~held.error
    /\ Is("sqlite") /\ Kind = "exec" =>
         /\ held.of + left <= MaxCommands
         /\ pc = "execute" => held.of >= 1

Answers ==
  /\ \A j \in ToSet(queue) : ResultsOf(j) = <<>>
  /\ job # None => Partial(job, held.of) /\ (Is("sqlite") \/ ResultsOf(job) = <<>>)
  /\ \A j \in Jobs \ Own : Complete(j)

WorkerIInv ==
  /\ WorkerTypeOK /\ StatementReady /\ NoStatementLost
  /\ Posted /\ Closed /\ Hands /\ Owned /\ Clean /\ Tallied /\ Answers

-----------------------------------------------------------------------------
(***************************************************************************)
(* The answers.                                                            *)
(***************************************************************************)

LEMMA InitWorkerIInv == ASSUME WorkerAssumption, WorkerInit PROVE WorkerIInv
  <1>1. Cached = {} /\ ToSet(queue) = {}
    BY DEF WorkerInit, Cached, ToSet
  <1>2. WorkerTypeOK
    <2>1. NoAsk \in Ask /\ NothingHeld \in [of : 0 .. MaxCommands, error : BOOLEAN]
      BY WorkerAssumption DEF NoAsk, Ask, NothingHeld
    <2>2. queue \in Seq(Jobs) /\ {sent, told} \subseteq [Jobs -> Seq(Result)]
      BY EmptySeq DEF WorkerInit
    <2>3. left \in 0 .. MaxCommands /\ asked \in [Jobs -> Ask]
      BY <2>1, WorkerAssumption DEF WorkerInit
    <2> QED
      BY <2>1, <2>2, <2>3 DEF WorkerInit, WorkerTypeOK
  <1>3. Posted /\ StatementReady /\ NoStatementLost /\ Closed /\ Hands /\ Owned /\ Clean
    BY <1>1 DEF WorkerInit, Posted, Own, IsInjective, StatementReady, NoStatementLost, Closed,
                Hands, Owned, Clean
  <1>4. \A j \in Jobs : ResultsOf(j) = <<>>
    BY DEF WorkerInit, ResultsOf
  <1>5. Tallied /\ Answers
    BY <1>1, <1>4 DEF WorkerInit, Tallied, Answers, Complete
  <1> QED
    BY <1>2, <1>3, <1>5 DEF WorkerIInv

\* What the steps use of the types.
LEMMA WorkerTypes ==
  ASSUME WorkerAssumption, WorkerIInv
  PROVE  /\ job # None => job \in Jobs /\ asked[job] \in Ask
         /\ \A j \in Jobs : told[j] \in Seq(Result) /\ sent[j] \in Seq(Result)
         /\ held.of \in 0 .. MaxCommands /\ held.error \in BOOLEAN
         /\ held = [of |-> held.of, error |-> held.error]
         /\ Cached \subseteq Handles
         /\ ToSet(queue) \subseteq Jobs
         /\ None \notin Handles /\ None \notin Jobs /\ None \notin Ids
         /\ job \in Jobs \cup {None} /\ stmt \in Handles \cup {None}
         /\ left \in 0 .. MaxCommands /\ held \in [of : 0 .. MaxCommands, error : BOOLEAN]
         /\ cache \in [Ids -> Handles \cup {None}]
         /\ status \in [Handles -> {"free", "ready", "busy"}]
         /\ bound \in [Handles -> Jobs \cup {None}] /\ broken \in BOOLEAN
         /\ sent \in [Jobs -> Seq(Result)]
         /\ MaxCommands \in Nat /\ MaxCommands >= 1
  <1>1. \A i \in DOMAIN queue : queue[i] \in Jobs
    BY ElementOfSeq, LenProperties DEF WorkerIInv, WorkerTypeOK
  <1>2. ToSet(queue) \subseteq Jobs
    BY <1>1 DEF ToSet
  <1>3. Cached \subseteq Handles
    BY DEF WorkerIInv, WorkerTypeOK, Cached
  <1> QED
    BY <1>2, <1>3, WorkerAssumption DEF WorkerIInv, WorkerTypeOK

LEMMA TypesStep ==
  ASSUME WorkerIInv, UNCHANGED <<driver, connected, links, queue, asked, told>>,
         pc' \in {"idle", "lookup", "prepare", "bind", "execute", "release", "signal", "reset"},
         job' \in Jobs \cup {None}, stmt' \in Handles \cup {None},
         left' \in 0 .. MaxCommands, held' \in [of : 0 .. MaxCommands, error : BOOLEAN],
         cache' \in [Ids -> Handles \cup {None}],
         status' \in [Handles -> {"free", "ready", "busy"}],
         bound' \in [Handles -> Jobs \cup {None}], broken' \in BOOLEAN,
         sent' \in [Jobs -> Seq(Result)]
  PROVE  WorkerTypeOK'
  BY DEF WorkerIInv, WorkerTypeOK

\* A job that runs and a prepared one have what they asked for.
LEMMA Asking ==
  ASSUME WorkerAssumption, Quiet, WorkerIInv, job # None
  PROVE  /\ asked[job] \in Asks
         /\ Kind \in {"query", "prepared", "exec"}
         /\ Kind = "prepared" => Id \in Ids /\ asked[job].parameters
         /\ Kind = "exec" => ~asked[job].parameters
         /\ asked[job].parameters \in BOOLEAN
         /\ asked[job].commands \in 0 .. MaxCommands
  <1>1. asked[job] \in Asks
    BY DEF WorkerIInv, Posted, Own
  <1>2. CASE asked[job] \in [kind : {"query"}, id : {None}, parameters : BOOLEAN, commands : {1}]
    BY <1>1, <1>2, WorkerAssumption DEF Kind
  <1>3. CASE asked[job] \in [kind : {"prepared"}, id : Ids, parameters : {TRUE}, commands : {1}]
    <2>1. Kind = "prepared" /\ Id \in Ids /\ asked[job].commands = 1
      BY <1>3 DEF Kind, Id
    <2>2. asked[job].parameters \in {TRUE}
      BY <1>3
    <2>3. asked[job].parameters
      BY <2>2
    <2> QED
      BY <1>1, <2>1, <2>3, WorkerAssumption
  <1>4. CASE asked[job] \in [kind : {"exec"}, id : {None}, parameters : {FALSE},
                             commands : 0 .. MaxCommands]
    BY <1>1, <1>4 DEF Kind
  <1> QED
    BY <1>1, <1>2, <1>3, <1>4 DEF Asks, Quiet

LEMMA ResultFields ==
  ASSUME MaxCommands \in Nat, NEW r \in Seq(Result)
  PROVE  /\ Len(r) \in Nat /\ DOMAIN r = 1 .. Len(r)
         /\ r # <<>> <=> Len(r) # 0
         /\ \A i \in DOMAIN r :
              r[i].of \in Int /\ r[i].last \in BOOLEAN /\ r[i].error \in BOOLEAN
  <1>1. \A i \in 1 .. Len(r) : r[i] \in Result
    BY ElementOfSeq
  <1>2. \A x \in Result : x.of \in Int /\ x.last \in BOOLEAN /\ x.error \in BOOLEAN
    BY DEF Result
  <1> QED
    BY <1>1, <1>2, LenProperties, EmptySeq

\* Nothing is answered, and the result of the job goes on.
LEMMA SameAnswers ==
  ASSUME WorkerAssumption, WorkerIInv,
         UNCHANGED <<driver, queue, asked, job, sent, told>>,
         held'.of \in 0 .. MaxCommands,
         job # None => held'.of >= held.of \/ ResultsOf(job) = <<>>
  PROVE  Posted' /\ Answers'
  <1>1. Posted' /\ Own' = Own
    BY DEF WorkerIInv, Posted, Own
  <1>2. \A j \in Jobs : ResultsOf(j)' = ResultsOf(j) /\ ResultsOf(j) \in Seq(Result)
    BY WorkerTypes, ConcatProperties DEF ResultsOf
  <1>3. \A j \in Jobs : Complete(j) => Complete(j)'
    BY <1>2 DEF Complete
  <1>4. job # None => Partial(job, held.of)'
    <2> SUFFICES ASSUME job # None PROVE Partial(job, held.of)'
      OBVIOUS
    <2> DEFINE r == ResultsOf(job)
    <2>1. Partial(job, held.of) /\ job \in Jobs
      BY WorkerTypes DEF WorkerIInv, Answers
    <2>2. r' = r /\ r \in Seq(Result)
      BY <1>2, <2>1
    <2>3. \A i \in DOMAIN r : r[i].of \in Int
      BY <2>2, WorkerTypes, ResultFields
    <2>4. held.of \in Int /\ held'.of \in Int
      BY WorkerTypes
    <2>5. held'.of >= held.of \/ r = <<>>
      OBVIOUS
    <2> HIDE DEF r
    <2>6. \A i \in DOMAIN r : r[i].of < held.of => r[i].of < held'.of
      BY <2>3, <2>4, <2>5
    <2> QED
      BY <2>1, <2>2, <2>6 DEF Partial, r
  <1> QED
    BY <1>1, <1>2, <1>3, <1>4, WorkerTypes DEF WorkerIInv, Answers, Is

\* The same step keeps what concerns neither the statements nor the text.
LEMMA SameJob ==
  ASSUME WorkerIInv, UNCHANGED <<driver, job, asked>>
  PROVE  Kind' = Kind /\ Id' = Id /\ \A name : Is(name)' = Is(name)
  BY DEF Kind, Id, Is

-----------------------------------------------------------------------------
(***************************************************************************)
(* One lemma for each action.                                              *)
(***************************************************************************)

LEMMA OpenStep ==
  ASSUME WorkerAssumption, Quiet, WorkerIInv, Open
  PROVE  WorkerIInv'
  <1>1. /\ UNCHANGED <<driver, queue, asked, pc, job, stmt, left, held, cache, status, bound,
                       broken, sent, told>>
        /\ connected' \in BOOLEAN /\ links' \subseteq {"db", "env", "dbc"}
        /\ ~connected' => links' = {}
        /\ pc = "idle" /\ stmt = None /\ Cached = {}
    BY DEF Open, OpenSqlite, OpenMysql, OpenOdbc, Opened, OpenStopped, atWork, statements,
           WorkerIInv, Closed, Hands
  <1>2. Cached' = Cached /\ Kind' = Kind /\ Id' = Id
    BY <1>1 DEF Cached, Kind, Id
  <1>3. WorkerTypeOK'
    BY <1>1 DEF WorkerIInv, WorkerTypeOK
  <1>4. StatementReady' /\ NoStatementLost' /\ Closed' /\ Hands' /\ Owned' /\ Clean' /\ Tallied'
    BY <1>1, <1>2 DEF WorkerIInv, StatementReady, NoStatementLost, Closed, Hands, Owned, Clean,
                      Tallied, Is
  <1>5. Posted' /\ Answers'
    BY <1>1, WorkerTypes, SameAnswers
  <1> QED
    BY <1>3, <1>4, <1>5 DEF WorkerIInv

LEMMA CloseStep ==
  ASSUME WorkerAssumption, Quiet, WorkerIInv, Close
  PROVE  WorkerIInv'
  <1>1. /\ UNCHANGED <<driver, queue, asked, pc, job, stmt, left, held, broken, sent, told>>
        /\ connected' = FALSE /\ links' = {} /\ pc = "idle"
        /\ ToSet(queue) \subseteq {None}
        /\ FreeCached /\ cache' = [i \in Ids |-> None]
    BY DEF Close, CloseSqlite, CloseMysql, CloseOdbc, atWork, UnderWay
  <1>2. Cached' = {} /\ Kind' = Kind /\ Id' = Id
    BY <1>1 DEF Cached, Kind, Id
  <1>3. queue = <<>> /\ job = None /\ stmt = None
    <2>3. ToSet(queue) = {}
      BY <1>1, WorkerTypes
    <2>4. DOMAIN queue = {}
      BY <2>3 DEF ToSet
    <2>1. queue \in Seq(Jobs)
      BY DEF WorkerIInv, WorkerTypeOK
    <2>2. queue = <<>>
      BY <2>4, <2>1, LenProperties, EmptySeq
    <2> QED
      BY <1>1, <2>2 DEF WorkerIInv, Hands
  <1>4. WorkerTypeOK'
    BY <1>1, WorkerAssumption DEF WorkerIInv, WorkerTypeOK, FreeCached
  <1>5. \A h \in Handles : status'[h] = "free" /\ bound'[h] = None
    BY <1>1, <1>3, WorkerTypes DEF FreeCached, WorkerIInv, NoStatementLost, Clean
  <1>6. StatementReady' /\ NoStatementLost' /\ Closed' /\ Hands' /\ Owned' /\ Clean' /\ Tallied'
    BY <1>1, <1>2, <1>3, <1>5
       DEF WorkerIInv, StatementReady, NoStatementLost, Closed, Hands, Owned, Clean, Tallied
  <1>7. Posted' /\ Answers'
    BY <1>1, WorkerTypes, SameAnswers
  <1> QED
    BY <1>4, <1>6, <1>7 DEF WorkerIInv

LEMMA LookupStep ==
  ASSUME WorkerAssumption, Quiet, WorkerIInv, Lookup
  PROVE  WorkerIInv'
  <1>1. /\ job \in Jobs /\ job # None /\ stmt = None /\ Kind = "prepared"
        /\ Id \in Ids /\ asked[job].parameters /\ ~held.error
    BY WorkerTypes, Asking DEF Lookup, WorkerIInv, Hands, Tallied
  <1>2. /\ UNCHANGED <<driver, connected, links, queue, asked, job, left, held, sent, told>>
        /\ pc' \in {"prepare", "bind"}
    BY DEF Lookup, LookupSqlite, LookupMysql, LookupOdbc, LookupCached, Goto
  <1>3. Posted' /\ Answers' /\ Tallied'
    BY <1>1, <1>2, WorkerTypes, SameAnswers, SameJob DEF WorkerIInv, Tallied
  <1>4. WorkerTypeOK'
    <2>1. /\ stmt' \in {stmt, cache[Id]} /\ broken' = broken
          /\ status' \in {status, [status EXCEPT ![cache[Id]] = "free"]}
          /\ bound' \in {bound, [bound EXCEPT ![cache[Id]] = None]}
          /\ cache' \in {cache, [cache EXCEPT ![Id] = None]}
      BY DEF Lookup, LookupSqlite, LookupMysql, LookupOdbc, LookupCached, statements, Free,
             Goto
    <2>2. cache[Id] \in Handles \cup {None}
      BY <1>1, WorkerTypes
    <2>3. stmt' \in Handles \cup {None}
      BY <2>1, <2>2, WorkerTypes
    <2>5. cache' \in [Ids -> Handles \cup {None}]
      BY <2>1, WorkerTypes
    <2>4. /\ status' \in [Handles -> {"free", "ready", "busy"}]
          /\ bound' \in [Handles -> Jobs \cup {None}]
      BY <2>1, WorkerTypes
    <2> QED
      BY <1>1, <1>2, <2>1, <2>3, <2>5, <2>4, WorkerTypes, TypesStep
  <1>5. StatementReady' /\ NoStatementLost' /\ Closed' /\ Hands' /\ Owned' /\ Clean'
    <2>1. CASE cache[Id] = None /\ UNCHANGED <<cache, status, bound>> /\ pc' = "prepare"
               /\ stmt' = None
      <3>1. Cached' = Cached
        BY <2>1 DEF Cached
      <3> QED
        BY <1>1, <1>2, <2>1, <3>1, SameJob
           DEF WorkerIInv, StatementReady, NoStatementLost, Closed, Hands, Owned, Clean
    <2>2. CASE /\ cache[Id] # None /\ UNCHANGED <<cache, status>> /\ pc' = "bind"
               /\ stmt' = cache[Id]
               /\ bound' \in {bound, [bound EXCEPT ![cache[Id]] = None]}
      <3>1. Cached' = Cached /\ cache[Id] \in Cached /\ cache[Id] \in Handles
        BY <1>1, <2>2, WorkerTypes DEF Cached
      <3>2. NoStatementLost' /\ Closed' /\ Hands' /\ Owned'
        BY <1>1, <1>2, <2>2, <3>1, SameJob DEF WorkerIInv, NoStatementLost, Closed, Hands, Owned
      <3>3. \A h \in Handles : bound'[h] \in {bound[h], None}
        BY <2>2 DEF WorkerIInv, WorkerTypeOK
      <3>4. status[cache[Id]] = "ready"
        BY <1>1, <3>1, WorkerTypes DEF WorkerIInv, Clean
      <3>5. StatementReady'
        BY <1>2, <2>2, <3>4 DEF StatementReady
      <3>6. Clean'
        BY <1>1, <1>2, <2>2, <3>1, <3>3, WorkerTypes DEF WorkerIInv, Clean
      <3> QED
        BY <3>2, <3>5, <3>6
    <2>3. CASE /\ cache[Id] # None /\ Free(cache[Id])
               /\ cache' = [cache EXCEPT ![Id] = None]
               /\ pc' = "prepare" /\ stmt' = None
      <3>1. Cached' = Cached \ {cache[Id]} /\ cache[Id] \in Cached /\ cache[Id] \in Handles
        BY <1>1, <2>3, WorkerTypes DEF Cached, WorkerIInv, NoStatementLost, WorkerTypeOK
      <3>2. \A i, k \in Ids : cache'[i] = cache'[k] /\ cache'[i] # None => i = k
        BY <1>1, <2>3 DEF WorkerIInv, NoStatementLost, WorkerTypeOK
      <3>3. NoStatementLost' /\ Closed' /\ Hands' /\ Owned'
        BY <1>1, <1>2, <2>3, <3>1, <3>2, SameJob
           DEF WorkerIInv, NoStatementLost, Closed, Hands, Owned, WorkerTypeOK, Free
      <3>4. StatementReady' /\ Clean'
        BY <1>1, <1>2, <2>3, <3>1 DEF WorkerIInv, StatementReady, Clean, WorkerTypeOK, Free
      <3> QED
        BY <3>3, <3>4
    <2> QED
      BY <1>1, <2>1, <2>2, <2>3
         DEF Lookup, LookupSqlite, LookupMysql, LookupOdbc, LookupCached, statements, Goto,
             WorkerIInv, Hands
  <1> QED
    BY <1>3, <1>4, <1>5 DEF WorkerIInv

\* A new handle that the cache keeps, or does not.
LEMMA PreparedStep ==
  ASSUME WorkerAssumption, Quiet, WorkerIInv, job # None, pc = "prepare", Kind # "exec",
         NEW h \in Handles, Prepared(h),
         UNCHANGED <<driver, connected, links, queue, asked, job, left, bound, broken, told>>
  PROVE  WorkerIInv'
  <1>1. /\ job \in Jobs /\ stmt = None /\ connected /\ status[h] = "free" /\ ~held.error
        /\ Kind = "prepared" => Id \in Ids /\ asked[job].parameters /\ cache[Id] = None
    BY WorkerTypes, Asking DEF WorkerIInv, Hands, Tallied, Closed, Prepared, Allocate, Owned
  <1>2. /\ stmt' = h /\ status' = [status EXCEPT ![h] = "ready"] /\ pc' = "bind"
        /\ cache' = IF Kind = "prepared" THEN [cache EXCEPT ![Id] = h] ELSE cache
        /\ UNCHANGED <<held, sent>>
    BY DEF Prepared, Allocate, Goto
  <1>3. Kind' = Kind /\ Id' = Id /\ Is("odbc")' = Is("odbc")
    BY SameJob
  <1>4. h \notin Cached /\ h # None /\ bound[h] = None
    BY <1>1, WorkerTypes DEF WorkerIInv, NoStatementLost, Clean
  <1>5. Cached' = IF Kind = "prepared" THEN Cached \cup {h} ELSE Cached
    BY <1>1, <1>2, <1>4 DEF Cached, WorkerIInv, WorkerTypeOK
  <1>6. Posted' /\ Answers' /\ Tallied' /\ Closed'
    BY <1>1, <1>2, <1>3, WorkerTypes, SameAnswers, SameJob DEF WorkerIInv, Tallied, Closed
  <1>7. WorkerTypeOK'
    BY <1>1, <1>2, WorkerTypes, TypesStep
  <1>8. NoStatementLost'
    <2>1. \A i \in Ids : cache[i] # h
      BY <1>4 DEF Cached
    <2>2. \A i, k \in Ids : cache'[i] = cache'[k] /\ cache'[i] # None => i = k
      BY <1>1, <1>2, <2>1 DEF WorkerIInv, NoStatementLost, WorkerTypeOK
    <2>3. {g \in Handles : status'[g] # "free"} = {g \in Handles : status[g] # "free"} \cup {h}
      BY <1>2 DEF WorkerIInv, WorkerTypeOK
    <2> QED
      BY <1>1, <1>2, <1>5, <2>2, <2>3 DEF WorkerIInv, NoStatementLost
  <1>9. Hands' /\ Owned'
    BY <1>1, <1>2, <1>3, <1>4, <1>5 DEF WorkerIInv, Hands, Owned, WorkerTypeOK
  <1>10. \A g \in Handles : status'[g] = IF g = h THEN "ready" ELSE status[g]
    BY <1>2 DEF WorkerIInv, WorkerTypeOK
  <1>11. StatementReady' /\ Clean'
    BY <1>1, <1>2, <1>4, <1>5, <1>10, WorkerTypes DEF WorkerIInv, StatementReady, Clean
  <1> QED
    BY <1>6, <1>7, <1>8, <1>9, <1>11 DEF WorkerIInv

\* The job ends at an error before it has a statement.
LEMMA NotPreparedStep ==
  ASSUME WorkerAssumption, Quiet, WorkerIInv, job # None, pc = "prepare",
         Is("sqlite") => Kind # "prepared", NotPrepared,
         UNCHANGED <<driver, connected, links, queue, asked, job, left, bound, broken, told>>
  PROVE  WorkerIInv'
  <1>1. /\ job \in Jobs /\ stmt = None
        /\ held' = [of |-> held.of, error |-> TRUE] /\ pc' = "signal"
        /\ UNCHANGED <<stmt, status, cache, sent>>
    BY WorkerTypes DEF WorkerIInv, Hands, NotPrepared, Fail, Goto
  <1>2. Kind' = Kind /\ Id' = Id /\ Cached' = Cached
        /\ Is("sqlite")' = Is("sqlite") /\ Is("odbc")' = Is("odbc")
    BY <1>1, SameJob DEF Cached
  <1>3. held'.of = held.of /\ held' \in [of : 0 .. MaxCommands, error : BOOLEAN]
    BY <1>1 DEF WorkerIInv, WorkerTypeOK
  <1>4. Posted' /\ Answers' /\ Tallied' /\ Closed'
    BY <1>1, <1>2, <1>3, WorkerTypes, SameAnswers, SameJob DEF WorkerIInv, Tallied, Closed
  <1>5. WorkerTypeOK'
    BY <1>1, <1>3, WorkerTypes, TypesStep
  <1>6. NoStatementLost' /\ StatementReady' /\ Hands' /\ Owned' /\ Clean'
    BY <1>1, <1>2 DEF WorkerIInv, NoStatementLost, StatementReady, Hands, Owned, Clean
  <1> QED
    BY <1>4, <1>5, <1>6 DEF WorkerIInv

\* A handle for a text of commands, of which some are left.
LEMMA AllocateStep ==
  ASSUME WorkerAssumption, Quiet, WorkerIInv, job # None, pc = "prepare", Kind = "exec",
         ~Is("mysql"), NEW h \in Handles, Allocate(h), pc' = "execute",
         UNCHANGED <<driver, connected, links, queue, asked, job, cache, bound, broken, told>>
  PROVE  /\ StatementReady' /\ NoStatementLost' /\ Closed' /\ Hands' /\ Owned' /\ Clean'
         /\ stmt' \in Handles /\ status' \in [Handles -> {"free", "ready", "busy"}]
  <1>1. /\ job \in Jobs /\ stmt = None /\ connected /\ status[h] = "free"
        /\ ~asked[job].parameters
        /\ stmt' = h /\ status' = [status EXCEPT ![h] = "ready"]
    BY WorkerTypes, Asking DEF WorkerIInv, Hands, Closed, Allocate
  <1>2. /\ Kind' = Kind /\ Id' = Id /\ Cached' = Cached
        /\ Is("sqlite")' = Is("sqlite") /\ Is("odbc")' = Is("odbc") /\ Is("mysql")' = Is("mysql")
    BY SameJob DEF Cached
  <1>3. h \notin Cached /\ h # None /\ bound[h] = None
    BY <1>1, WorkerTypes DEF WorkerIInv, NoStatementLost, Clean
  <1>4. \A g \in Handles : status'[g] = IF g = h THEN "ready" ELSE status[g]
    BY <1>1 DEF WorkerIInv, WorkerTypeOK
  <1>5. NoStatementLost' /\ Closed' /\ Hands' /\ Owned'
    BY <1>1, <1>2, <1>3, <1>4 DEF WorkerIInv, NoStatementLost, Closed, Hands, Owned
  <1>6. StatementReady' /\ Clean'
    BY <1>1, <1>2, <1>3, <1>4, WorkerTypes DEF WorkerIInv, StatementReady, Clean
  <1> QED
    BY <1>1, <1>5, <1>6 DEF WorkerIInv, WorkerTypeOK

\* The result of the job goes to those that wait to be taken.
LEMMA Enqueued ==
  ASSUME WorkerAssumption, WorkerIInv, NEW b \in Jobs, b = job, NEW last \in BOOLEAN,
         Enqueue(last), UNCHANGED told
  PROVE  LET e == [of |-> held.of, error |-> held.error, last |-> last] IN
         /\ sent' \in [Jobs -> Seq(Result)]
         /\ \A j \in Jobs \ {b} : ResultsOf(j)' = ResultsOf(j)
         /\ ResultsOf(b) \in Seq(Result) /\ e \in Result
         /\ ResultsOf(b)' = Append(ResultsOf(b), e)
  <1> DEFINE e == [of |-> held.of, error |-> held.error, last |-> last]
  <1>1. e \in Result
    BY WorkerTypes DEF Result
  <1>2. sent' = [sent EXCEPT ![b] = Append(sent[b], e)]
    BY DEF Enqueue
  <1> HIDE DEF e
  <1>3. told[b] \in Seq(Result) /\ sent[b] \in Seq(Result)
    BY <1>1, WorkerTypes
  <1>4. Append(sent[b], e) \in Seq(Result)
    BY <1>1, <1>3, AppendProperties
  <1>5. sent' \in [Jobs -> Seq(Result)] /\ sent'[b] = Append(sent[b], e)
    BY <1>1, <1>2, <1>4, WorkerTypes
  <1>6. \A j \in Jobs \ {b} : ResultsOf(j)' = ResultsOf(j)
    BY <1>2, WorkerTypes DEF ResultsOf
  <1>7. ResultsOf(b) \in Seq(Result)
    BY <1>3, ConcatProperties DEF ResultsOf
  <1>8. told'[b] \o sent'[b] = Append(told[b] \o sent[b], e)
    <2>1. PICK s \in Seq(Result), t \in Seq(Result) : s = told[b] /\ t = sent[b]
      BY <1>3
    <2>2. s \o Append(t, e) = Append(s \o t, e)
      BY <1>1, AppendConcat
    <2> QED
      BY <1>5, <2>1, <2>2
  <1> QED
    BY <1>1, <1>5, <1>6, <1>7, <1>8 DEF ResultsOf, e

\* The next command of a text has a statement, and the result before it is sent.
LEMMA CommandStep ==
  ASSUME WorkerAssumption, Quiet, WorkerIInv, job # None, pc = "prepare", Is("sqlite"),
         Kind = "exec", NEW h \in Handles, Allocate(h),
         left > 0, left' = left - 1, pc' = "execute",
         held' = [of |-> held.of + 1, error |-> FALSE],
         IF held.of = 0 THEN UNCHANGED sent ELSE Enqueue(FALSE),
         UNCHANGED <<driver, connected, links, queue, asked, job, cache, bound, broken, told>>
  PROVE  WorkerIInv'
  <1>1. PICK b \in Jobs : b = job
    BY WorkerTypes
  <1>2. /\ StatementReady' /\ NoStatementLost' /\ Closed' /\ Hands' /\ Owned' /\ Clean'
        /\ stmt' \in Handles /\ status' \in [Handles -> {"free", "ready", "busy"}]
    BY AllocateStep DEF Is
  <1>3. /\ held.of + left <= MaxCommands /\ ~held.error
        /\ Partial(b, held.of) /\ held'.of = held.of + 1 /\ held'.error = FALSE
    BY <1>1 DEF WorkerIInv, Tallied, Answers
  <1>4. left' \in 0 .. MaxCommands /\ held' \in [of : 0 .. MaxCommands, error : BOOLEAN]
    BY <1>3, WorkerTypes
  <1> DEFINE e == [of |-> held.of, error |-> held.error, last |-> FALSE]
  <1>5. /\ sent' \in [Jobs -> Seq(Result)] /\ ResultsOf(b) \in Seq(Result)
        /\ \A j \in Jobs \ {b} : ResultsOf(j)' = ResultsOf(j)
        /\ \/ ResultsOf(b)' = ResultsOf(b)
           \/ e \in Result /\ ResultsOf(b)' = Append(ResultsOf(b), e)
    <2>1. CASE held.of = 0
      BY <1>1, <2>1, WorkerTypes, ConcatProperties DEF ResultsOf
    <2>2. CASE held.of # 0
      BY <1>1, <2>2, Enqueued
    <2> QED
      BY <2>1, <2>2
  <1>6. WorkerTypeOK'
    BY <1>1, <1>2, <1>4, <1>5, WorkerTypes, TypesStep
  <1>7. Tallied'
    BY <1>3, WorkerTypes, SameJob DEF Tallied
  <1>8. Partial(b, held.of)'
    <2> DEFINE r == ResultsOf(b)
    <2>1. r \in Seq(Result) /\ (r' = r \/ (e \in Result /\ r' = Append(r, e)))
      BY <1>5
    <2>2. held.of \in Int /\ MaxCommands \in Nat
      BY WorkerTypes
    <2>3. /\ Len(r) \in Nat /\ DOMAIN r = 1 .. Len(r)
          /\ \A i \in DOMAIN r : r[i].of \in Int
      BY <2>1, <2>2, ResultFields
    <2>4. \A i \in DOMAIN r :
            /\ ~r[i].last /\ ~r[i].error /\ r[i].of < held.of
            /\ \A k \in DOMAIN r : i < k => r[i].of < r[k].of
      BY <1>3 DEF Partial
    <2>5. ~e.last /\ ~e.error /\ e.of = held.of
      BY <1>3
    <2> SUFFICES \A i \in DOMAIN r' :
                   /\ ~r'[i].last /\ ~r'[i].error /\ r'[i].of < held'.of
                   /\ \A k \in DOMAIN r' : i < k => r'[i].of < r'[k].of
      BY <1>3 DEF Partial
    <2> HIDE DEF r, e
    <2>6. CASE r' = r
      BY <1>3, <2>2, <2>3, <2>4, <2>6
    <2>7. CASE e \in Result /\ r' = Append(r, e)
      <3>1. /\ DOMAIN r' = 1 .. Len(r) + 1 /\ r'[Len(r) + 1] = e
            /\ \A i \in DOMAIN r : r'[i] = r[i]
        <4>1. /\ r' \in Seq(Result) /\ Len(r') = Len(r) + 1 /\ r'[Len(r) + 1] = e
              /\ \A i \in 1 .. Len(r) : r'[i] = r[i]
          BY <2>1, <2>7, AppendProperties
        <4>2. DOMAIN r' = 1 .. Len(r')
          BY <4>1, LenProperties
        <4> QED
          BY <2>3, <4>1, <4>2
      <3>2. \A i \in DOMAIN r' : i \in DOMAIN r \/ i = Len(r) + 1
        BY <2>3, <3>1
      <3>3. held'.of = held.of + 1
        BY <1>3
      <3>4. \A i \in DOMAIN r' : ~r'[i].last /\ ~r'[i].error /\ r'[i].of < held'.of
        <4>1. \A i \in DOMAIN r : r[i].of < held.of + 1
          BY <2>2, <2>3, <2>4
        <4> QED
          BY <2>2, <2>4, <2>5, <3>1, <3>2, <3>3, <4>1
      <3>5. ASSUME NEW i \in DOMAIN r', NEW k \in DOMAIN r', i < k
            PROVE  r'[i].of < r'[k].of
        <4>1. i \in DOMAIN r
          BY <2>3, <3>1, <3>5
        <4>2. CASE k \in DOMAIN r
          BY <2>4, <3>1, <3>5, <4>1, <4>2
        <4>3. CASE k = Len(r) + 1
          BY <2>4, <2>5, <3>1, <4>1, <4>3
        <4> QED
          BY <3>2, <3>5, <4>2, <4>3
      <3> QED
        BY <3>4, <3>5
    <2> QED
      BY <2>1, <2>6, <2>7
  <1>9. Posted' /\ Own' = Own
    BY DEF WorkerIInv, Posted, Own
  <1>10. Answers'
    <2>1. \A j \in ToSet(queue) : ResultsOf(j)' = <<>>
      BY <1>1, <1>5, WorkerTypes DEF WorkerIInv, Answers, Posted
    <2>2. \A j \in Jobs \ Own : Complete(j)'
      <3> SUFFICES ASSUME NEW j \in Jobs \ Own PROVE Complete(j)'
        OBVIOUS
      <3>1. j # b /\ Complete(j)
        BY <1>1 DEF WorkerIInv, Answers, Own
      <3> QED
        BY <1>5, <3>1 DEF Complete
    <2> QED
      BY <1>1, <1>3, <1>8, <1>9, <2>1, <2>2 DEF Answers, Is
  <1> QED
    BY <1>2, <1>6, <1>7, <1>9, <1>10 DEF WorkerIInv

\* A text goes on with the worker's handle, or without one.
LEMMA TextStep ==
  ASSUME WorkerAssumption, Quiet, WorkerIInv, job # None, pc = "prepare", Kind = "exec",
         \/ pc' = "signal" /\ left' = left
         \/ pc' = "prepare" /\ left' = left - 1 /\ left > 0
         \/ pc' = "execute" /\ left' = left /\ Is("mysql") /\ connected,
         UNCHANGED <<driver, connected, links, queue, asked, job, stmt, held, cache, status,
                     bound, broken, sent, told>>
  PROVE  WorkerIInv'
  <1>1. /\ Kind' = Kind /\ Id' = Id /\ Cached' = Cached
        /\ Is("sqlite")' = Is("sqlite") /\ Is("mysql")' = Is("mysql") /\ Is("odbc")' = Is("odbc")
        /\ ~(Is("mysql") /\ Is("sqlite"))
    BY SameJob DEF Cached, Is
  <1>2. WorkerTypeOK'
    BY WorkerTypes, TypesStep
  <1>3. Posted' /\ Answers'
    BY WorkerTypes, SameAnswers
  <1>4. Tallied' /\ Closed'
    BY <1>1, WorkerTypes DEF WorkerIInv, Tallied, Closed
  <1>5. StatementReady' /\ NoStatementLost' /\ Hands' /\ Owned' /\ Clean'
    BY <1>1 DEF WorkerIInv, StatementReady, NoStatementLost, Hands, Owned, Clean
  <1> QED
    BY <1>2, <1>3, <1>4, <1>5 DEF WorkerIInv

LEMMA PrepareStep ==
  ASSUME WorkerAssumption, Quiet, WorkerIInv, Prepare
  PROVE  WorkerIInv'
  <1>1. /\ UNCHANGED <<driver, connected, links, queue, asked, job, bound, broken, told>>
        /\ pc = "prepare" /\ job # None
        /\ Is("sqlite") => ~Is("mysql") /\ ~Is("odbc")
        /\ Is("odbc") => ~Is("mysql")
    BY DEF Prepare, WorkerIInv, Hands, Is
  <1>2. CASE PrepareSqlite
    BY <1>1, <1>2, PreparedStep, NotPreparedStep DEF PrepareSqlite, Quiet
  <1>3. CASE PrepareMysql
    BY <1>1, <1>3, PreparedStep, NotPreparedStep, TextStep DEF PrepareMysql, Goto
  <1>4. CASE PrepareOdbc
    <2>1. ASSUME NEW h \in Handles, Kind = "exec", Allocate(h), Goto("execute"), Is("odbc"),
                 UNCHANGED <<held, cache, sent, left>>
          PROVE  WorkerIInv'
      <3>1. /\ StatementReady' /\ NoStatementLost' /\ Closed' /\ Hands' /\ Owned' /\ Clean'
            /\ stmt' \in Handles /\ status' \in [Handles -> {"free", "ready", "busy"}]
            /\ pc' = "execute"
        BY <1>1, <2>1, AllocateStep DEF Goto
      <3>2. WorkerTypeOK'
        BY <1>1, <2>1, <3>1, WorkerTypes, TypesStep
      <3>3. Posted' /\ Answers' /\ Tallied'
        BY <1>1, <2>1, <3>1, WorkerTypes, SameAnswers, SameJob DEF WorkerIInv, Tallied
      <3> QED
        BY <3>1, <3>2, <3>3 DEF WorkerIInv
    <2> QED
      BY <1>1, <1>4, <2>1, PreparedStep, NotPreparedStep DEF PrepareOdbc
  <1>5. CASE NextCommand
    <2>1. Is("sqlite") /\ Kind = "exec"
      BY <1>5 DEF NextCommand
    <2>2. ASSUME NEW h \in Handles, left > 0, Allocate(h), left' = left - 1, Goto("execute"),
                 IF held.of = 0 THEN UNCHANGED sent ELSE Enqueue(FALSE),
                 held' = [of |-> held.of + 1, error |-> FALSE], UNCHANGED cache
          PROVE  WorkerIInv'
      BY <1>1, <2>1, <2>2, CommandStep DEF Goto
    <2> QED
      BY <1>1, <1>5, <2>1, <2>2, NotPreparedStep, TextStep DEF NextCommand, Goto
  <1> QED
    BY <1>2, <1>3, <1>4, <1>5 DEF Prepare

LEMMA BindStep ==
  ASSUME WorkerAssumption, Quiet, WorkerIInv, Bind
  PROVE  WorkerIInv'
  <1>1. /\ UNCHANGED <<driver, connected, links, queue, asked, job, stmt, left, cache, status,
                       broken, sent, told>>
        /\ pc = "bind" /\ job \in Jobs /\ job # None /\ stmt # None /\ stmt \in Handles
        /\ connected /\ Kind # "exec"
    BY WorkerTypes DEF Bind, WorkerIInv, Hands, Closed
  <1>2. /\ Kind' = Kind /\ Id' = Id /\ Cached' = Cached
        /\ Is("sqlite")' = Is("sqlite") /\ Is("mysql")' = Is("mysql") /\ Is("odbc")' = Is("odbc")
    BY <1>1, SameJob DEF Cached
  <1>3. \/ /\ bound' = IF asked[job].parameters THEN [bound EXCEPT ![stmt] = job] ELSE bound
           /\ pc' = "execute" /\ held' = held
        \/ /\ bound' = bound /\ held' = [of |-> held.of, error |-> TRUE]
           /\ pc' = IF Kind = "prepared" THEN "signal" ELSE "release"
    BY DEF Bind, BindSqlite, BindMysql, BindOdbc, BindAll, BindFails, AfterStatement, Fail, Goto
  <1>4. held' \in [of : 0 .. MaxCommands, error : BOOLEAN] /\ held'.of = held.of
    <2>1. CASE held' = held
      BY <2>1, WorkerTypes
    <2>2. CASE held' = [of |-> held.of, error |-> TRUE]
      BY <2>2, WorkerTypes
    <2> QED
      BY <1>3, <2>1, <2>2
  <1>5. WorkerTypeOK'
    BY <1>1, <1>3, <1>4, WorkerTypes, TypesStep
  <1>6. Posted' /\ Answers' /\ Tallied' /\ Closed'
    BY <1>1, <1>2, <1>3, <1>4, WorkerTypes, SameAnswers DEF WorkerIInv, Tallied, Closed
  <1>7. status[stmt] = "ready" /\ (~asked[job].parameters => bound[stmt] = None)
    BY <1>1 DEF WorkerIInv, StatementReady, Clean
  <1>8. NoStatementLost' /\ Hands' /\ Owned'
    BY <1>1, <1>2, <1>3 DEF WorkerIInv, NoStatementLost, Hands, Owned
  <1>9. \A h \in Handles : bound'[h] = IF h = stmt /\ pc' = "execute" /\ asked[job].parameters
                                       THEN job ELSE bound[h]
    BY <1>1, <1>3, WorkerTypes
  <1>10. StatementReady' /\ Clean'
    BY <1>1, <1>2, <1>3, <1>7, <1>9, WorkerTypes DEF WorkerIInv, StatementReady, Clean
  <1> QED
    BY <1>5, <1>6, <1>8, <1>10 DEF WorkerIInv

LEMMA ReleaseStatementStep ==
  ASSUME WorkerAssumption, Quiet, WorkerIInv, ReleaseStatement
  PROVE  WorkerIInv'
  <1>1. /\ UNCHANGED <<driver, connected, links, queue, asked, job, left, held, cache, sent,
                       told>>
        /\ pc = "release" /\ job \in Jobs /\ job # None /\ stmt # None /\ stmt \in Handles
        /\ connected /\ Kind # "prepared" /\ stmt \notin Cached
        /\ stmt' = None /\ broken' = FALSE
        /\ status' = [status EXCEPT ![stmt] = "free"] /\ bound' = [bound EXCEPT ![stmt] = None]
        /\ pc' = IF Is("sqlite") /\ Kind = "exec" /\ ~held.error THEN "prepare" ELSE "signal"
    BY WorkerTypes DEF ReleaseStatement, Free, Goto, WorkerIInv, Hands, Closed, Owned
  <1>2. /\ Kind' = Kind /\ Id' = Id /\ Cached' = Cached
        /\ Is("sqlite")' = Is("sqlite") /\ Is("mysql")' = Is("mysql") /\ Is("odbc")' = Is("odbc")
    BY <1>1, SameJob DEF Cached
  <1>3. WorkerTypeOK'
    BY <1>1, WorkerTypes, TypesStep
  <1>4. Posted' /\ Answers' /\ Tallied' /\ Closed'
    BY <1>1, <1>2, WorkerTypes, SameAnswers DEF WorkerIInv, Tallied, Closed
  <1>5. \A h \in Handles : /\ status'[h] = IF h = stmt THEN "free" ELSE status[h]
                           /\ bound'[h] = IF h = stmt THEN None ELSE bound[h]
    BY <1>1, WorkerTypes
  <1>6. NoStatementLost' /\ Hands' /\ Owned'
    BY <1>1, <1>2, <1>5 DEF WorkerIInv, NoStatementLost, Hands, Owned
  <1>7. StatementReady' /\ Clean'
    BY <1>1, <1>2, <1>5, WorkerTypes DEF WorkerIInv, StatementReady, Clean
  <1> QED
    BY <1>3, <1>4, <1>6, <1>7 DEF WorkerIInv

LEMMA ExecuteStep ==
  ASSUME WorkerAssumption, Quiet, WorkerIInv, NEW ok \in BOOLEAN, Execute(ok)
  PROVE  WorkerIInv'
  <1>1. /\ UNCHANGED <<driver, connected, links, queue, asked, job, stmt, left, cache, bound,
                       sent, told>>
        /\ pc = "execute" /\ job \in Jobs /\ job # None /\ connected
        /\ stmt \in Handles \cup {None}
        /\ Kind \in {"query", "prepared", "exec"}
        /\ stmt = None <=> Is("mysql") /\ Kind = "exec"
    BY WorkerTypes, Asking DEF Execute, WorkerIInv, Hands, Closed
  <1>2. /\ Kind' = Kind /\ Id' = Id /\ Cached' = Cached
        /\ Is("sqlite")' = Is("sqlite") /\ Is("mysql")' = Is("mysql") /\ Is("odbc")' = Is("odbc")
    BY <1>1, SameJob DEF Cached
  <1>3. /\ \/ held' = [of |-> IF held.of = 0 THEN 1 ELSE held.of, error |-> ~ok]
           \/ held' = [of |-> 1, error |-> ~ok] /\ ~Is("sqlite")
        /\ broken' \in BOOLEAN
    BY WorkerTypes DEF Execute, ExecuteSqlite, ExecuteMysql, ExecuteOdbc, Ran, Is
  <1>4. \/ /\ stmt # None /\ pc' = IF Kind = "prepared" THEN "signal" ELSE "release"
           /\ \E x \in {"busy", "ready"} :
                status' = [status EXCEPT ![stmt] = x]
                /\ (Is("odbc") /\ Kind = "prepared" => x = "ready")
        \/ stmt = None /\ pc' = "signal" /\ status' = status
    BY <1>1 DEF Execute, ExecuteSqlite, ExecuteMysql, ExecuteOdbc, Ran, AfterStatement, Goto, Is
  <1>5. /\ held' \in [of : 0 .. MaxCommands, error : BOOLEAN]
        /\ held'.of >= held.of \/ ResultsOf(job) = <<>>
        /\ Is("sqlite") /\ held.of >= 1 => held'.of = held.of
    <2>1. held.of \in 0 .. MaxCommands /\ MaxCommands \in Nat /\ MaxCommands >= 1
      BY WorkerTypes
    <2>2. CASE held' = [of |-> IF held.of = 0 THEN 1 ELSE held.of, error |-> ~ok]
      BY <2>1, <2>2
    <2>3. CASE held' = [of |-> 1, error |-> ~ok] /\ ~Is("sqlite")
      BY <1>1, <2>1, <2>3 DEF WorkerIInv, Answers
    <2> QED
      BY <1>3, <2>2, <2>3
  <1>6. WorkerTypeOK'
    BY <1>1, <1>3, <1>4, <1>5, WorkerTypes, TypesStep
  <1>7. Posted' /\ Answers'
    BY <1>1, <1>5, SameAnswers
  <1>8. Tallied' /\ Closed'
    BY <1>1, <1>2, <1>4, <1>5, WorkerTypes DEF WorkerIInv, Tallied, Closed
  <1>9. \A h \in Handles \ {stmt} : status'[h] = status[h]
    BY <1>1, <1>4, WorkerTypes
  <1>10. stmt # None => /\ status[stmt] = "ready" /\ status'[stmt] # "free"
                        /\ Is("odbc") /\ Kind = "prepared" => status'[stmt] = "ready"
    BY <1>1, <1>4, WorkerTypes DEF WorkerIInv, StatementReady
  <1>11. NoStatementLost' /\ Hands' /\ Owned'
    BY <1>1, <1>2, <1>4, <1>9, <1>10 DEF WorkerIInv, NoStatementLost, Hands, Owned
  <1>12. StatementReady' /\ Clean'
    BY <1>1, <1>2, <1>4, <1>9, <1>10, WorkerTypes DEF WorkerIInv, StatementReady, Clean
  <1> QED
    BY <1>6, <1>7, <1>8, <1>11, <1>12 DEF WorkerIInv

LEMMA SendStep ==
  ASSUME WorkerAssumption, Quiet, WorkerIInv, Send
  PROVE  WorkerIInv'
  <1>1. PICK b \in Jobs : b = job
    BY WorkerTypes DEF Send, WorkerIInv, Hands
  <1>2. /\ UNCHANGED <<driver, connected, links, queue, asked, cache, status, bound, broken,
                       told>>
        /\ pc = "signal" /\ job # None
        /\ Enqueue(TRUE) /\ job' = None /\ held' = NothingHeld
        /\ pc' \in {"idle", "reset"} /\ left' \in {left, 0}
    BY DEF Send, Signal, Rest, Goto, statements, WorkerIInv, Hands
  <1>3. IF Kind = "prepared" /\ stmt # None /\ ~Is("odbc")
          THEN pc' = "reset" /\ stmt' = stmt
          ELSE pc' = "idle" /\ stmt' = None
    <2>1. Kind = "prepared" /\ Is("sqlite") => stmt # None
      BY <1>2 DEF WorkerIInv, Hands
    <2>2. Kind # "prepared" => stmt = None
      BY <1>2 DEF WorkerIInv, Hands
    <2>3. driver \in {"sqlite", "mysql", "odbc"}
      BY WorkerAssumption DEF WorkerIInv, WorkerTypeOK
    <2> QED
      BY <2>1, <2>2, <2>3 DEF Send, Rest, Goto, Is
  <1> DEFINE e == [of |-> held.of, error |-> held.error, last |-> TRUE]
  <1>4. /\ sent' \in [Jobs -> Seq(Result)] /\ ResultsOf(b) \in Seq(Result)
        /\ \A j \in Jobs \ {b} : ResultsOf(j)' = ResultsOf(j)
        /\ e \in Result /\ ResultsOf(b)' = Append(ResultsOf(b), e)
    BY <1>1, <1>2, Enqueued
  <1>5. Cached' = Cached /\ Is("odbc")' = Is("odbc")
    BY <1>2 DEF Cached, Is
  <1>6. WorkerTypeOK'
    <2>1. /\ left' \in 0 .. MaxCommands /\ stmt' \in Handles \cup {None}
          /\ held' \in [of : 0 .. MaxCommands, error : BOOLEAN]
      BY <1>2, <1>3, WorkerTypes DEF NothingHeld
    <2> QED
      BY <1>2, <1>4, <2>1, WorkerTypes, TypesStep
  <1>7. Own' = ToSet(queue) /\ Posted'
    BY <1>2, WorkerTypes DEF WorkerIInv, Posted, Own
  <1>8. Tallied' /\ Closed'
    BY <1>2, <1>3, <1>5 DEF WorkerIInv, Tallied, Closed
  <1>9. stmt # None /\ Kind = "prepared" => stmt \in Cached
    BY <1>2, Asking DEF WorkerIInv, Owned, Cached
  <1>10. NoStatementLost' /\ Hands' /\ Owned'
    BY <1>2, <1>3, <1>5, <1>9 DEF WorkerIInv, NoStatementLost, Hands, Owned
  <1>11. stmt' = None => \A h \in Cached : status[h] = "ready"
    <2>1. CASE stmt = None
      BY <2>1, WorkerTypes DEF WorkerIInv, Clean
    <2>2. CASE stmt # None /\ Is("odbc")
      BY <1>2, <2>2 DEF WorkerIInv, Clean
    <2> QED
      BY <1>2, <1>3, <2>1, <2>2 DEF WorkerIInv, Hands
  <1>12. StatementReady' /\ Clean'
    BY <1>2, <1>3, <1>5, <1>11 DEF WorkerIInv, StatementReady, Clean
  <1>13. Complete(b)'
    <2> DEFINE r == ResultsOf(b)
    <2>1. Len(r) \in Nat /\ DOMAIN r = 1 .. Len(r)
      BY <1>4, WorkerTypes, ResultFields
    <2>2. \A i \in DOMAIN r :
            /\ ~r[i].last /\ ~r[i].error /\ r[i].of < held.of
            /\ \A k \in DOMAIN r : i < k => r[i].of < r[k].of
      BY <1>1, <1>2 DEF WorkerIInv, Answers, Partial
    <2>3. e.last = TRUE /\ e.of = held.of
      OBVIOUS
    <2>4. r \in Seq(Result) /\ r' = Append(r, e) /\ e \in Result
      BY <1>4
    <2> SUFFICES /\ r'[Len(r')].last
                 /\ \A i \in 1 .. Len(r') - 1 :
                      ~r'[i].last /\ ~r'[i].error /\ r'[i].of < r'[i + 1].of
      BY DEF Complete
    <2> HIDE DEF r, e
    <2>5. /\ Len(r') = Len(r) + 1 /\ r'[Len(r) + 1] = e
          /\ \A i \in 1 .. Len(r) : r'[i] = r[i]
      BY <2>4, AppendProperties
    <2>6. ASSUME NEW i \in 1 .. Len(r)
          PROVE  ~r'[i].last /\ ~r'[i].error /\ r'[i].of < r'[i + 1].of
      <3>1. CASE i = Len(r)
        BY <2>1, <2>2, <2>3, <2>5, <3>1
      <3>2. CASE i < Len(r)
        <4>1. i + 1 \in DOMAIN r /\ i \in DOMAIN r /\ i < i + 1
          BY <2>1, <3>2
        <4> QED
          BY <2>1, <2>2, <2>5, <4>1
      <3>3. i = Len(r) \/ i < Len(r)
        <4>1. \A n \in Nat : \A k \in 1 .. n : k = n \/ k < n
          OBVIOUS
        <4> QED
          BY <2>1, <4>1
      <3> QED
        BY <3>1, <3>2, <3>3
    <2> QED
      BY <2>1, <2>3, <2>5, <2>6
  <1>14. Answers'
    <2>1. \A j \in ToSet(queue) : ResultsOf(j)' = <<>>
      BY <1>1, <1>4, WorkerTypes DEF WorkerIInv, Answers, Posted
    <2>2. \A j \in Jobs \ ToSet(queue) : Complete(j)'
      <3> SUFFICES ASSUME NEW j \in Jobs \ ToSet(queue), j # b PROVE Complete(j)'
        BY <1>13
      <3>1. Complete(j)
        BY <1>1 DEF WorkerIInv, Answers, Own
      <3> QED
        BY <1>4, <3>1 DEF Complete
    <2> QED
      BY <1>2, <1>7, <2>1, <2>2 DEF Answers
  <1> QED
    BY <1>6, <1>7, <1>8, <1>10, <1>12, <1>14 DEF WorkerIInv

LEMMA ResetStep ==
  ASSUME WorkerAssumption, Quiet, WorkerIInv, Reset
  PROVE  WorkerIInv'
  <1>1. /\ UNCHANGED <<driver, connected, links, queue, asked, job, held, sent, told>>
        /\ pc = "reset" /\ job = None /\ stmt # None /\ stmt \in Cached /\ stmt \in Handles
        /\ connected /\ pc' = "idle" /\ stmt' = None /\ left' = 0 /\ broken' \in BOOLEAN
    BY WorkerTypes DEF Reset, ResetSqlite, ResetMysql, Rest, Goto, WorkerIInv, Hands, Closed
  <1>2. \/ /\ status' = [status EXCEPT ![stmt] = "ready"]
           /\ bound' \in {bound, [bound EXCEPT ![stmt] = None]}
           /\ cache' = cache
        \/ /\ status' = [status EXCEPT ![stmt] = "free"]
           /\ bound' = [bound EXCEPT ![stmt] = None]
           /\ cache' = [i \in Ids |-> IF cache[i] = stmt THEN None ELSE cache[i]]
    BY DEF Reset, ResetSqlite, ResetMysql, Uncached, Free
  <1>3. WorkerTypeOK'
    <2>1. status' \in [Handles -> {"free", "ready", "busy"}]
      BY <1>2, WorkerTypes
    <2>3. bound' = bound \/ bound' = [bound EXCEPT ![stmt] = None]
      BY <1>2
    <2>4. bound' \in [Handles -> Jobs \cup {None}]
      BY <2>3, WorkerTypes
    <2>2. cache' \in [Ids -> Handles \cup {None}]
      BY <1>2, WorkerTypes
    <2> QED
      BY <1>1, <2>1, <2>2, <2>4, WorkerTypes, TypesStep
  <1>4. Posted' /\ Answers' /\ Tallied' /\ Closed'
    BY <1>1, WorkerTypes, SameAnswers DEF WorkerIInv, Tallied, Closed
  <1>5. \A h \in Handles \ {stmt} : status'[h] = status[h] /\ bound'[h] \in {bound[h], None}
    BY <1>1, <1>2, WorkerTypes
  <1>6. CASE /\ status' = [status EXCEPT ![stmt] = "ready"]
             /\ bound' \in {bound, [bound EXCEPT ![stmt] = None]}
             /\ cache' = cache
    <2>1. Cached' = Cached /\ status'[stmt] = "ready"
      BY <1>1, <1>6, WorkerTypes DEF Cached
    <2>2. NoStatementLost' /\ Hands' /\ Owned'
      BY <1>1, <1>5, <1>6, <2>1 DEF WorkerIInv, NoStatementLost, Hands, Owned
    <2>3. StatementReady' /\ Clean'
      BY <1>1, <1>5, <2>1, WorkerTypes DEF WorkerIInv, StatementReady, Clean
    <2> QED
      BY <1>3, <1>4, <2>2, <2>3 DEF WorkerIInv
  <1>7. CASE /\ status' = [status EXCEPT ![stmt] = "free"]
             /\ bound' = [bound EXCEPT ![stmt] = None]
             /\ cache' = [i \in Ids |-> IF cache[i] = stmt THEN None ELSE cache[i]]
    <2>1. Cached' = Cached \ {stmt} /\ status'[stmt] = "free" /\ bound'[stmt] = None
      BY <1>1, <1>7, WorkerTypes DEF Cached
    <2>2. \A i, k \in Ids : cache'[i] = cache'[k] /\ cache'[i] # None => i = k
      BY <1>7 DEF WorkerIInv, NoStatementLost
    <2>3. NoStatementLost' /\ Hands' /\ Owned'
      BY <1>1, <1>5, <2>1, <2>2 DEF WorkerIInv, NoStatementLost, Hands, Owned
    <2>4. StatementReady' /\ Clean'
      BY <1>1, <1>5, <2>1, WorkerTypes DEF WorkerIInv, StatementReady, Clean
    <2> QED
      BY <1>3, <1>4, <2>3, <2>4 DEF WorkerIInv
  <1> QED
    BY <1>2, <1>6, <1>7

\* The queue by its members.
LEMMA QueueHead ==
  ASSUME NEW S, NEW s \in Seq(S), IsInjective(s), s # <<>>
  PROVE  /\ Head(s) \in S /\ Tail(s) \in Seq(S) /\ IsInjective(Tail(s))
         /\ ToSet(Tail(s)) = ToSet(s) \ {Head(s)} /\ Head(s) \in ToSet(s)
  <1>1. /\ Len(s) \in Nat /\ DOMAIN s = 1 .. Len(s) /\ Len(s) >= 1
    BY LenProperties, EmptySeq
  <1>2. /\ Head(s) \in S /\ Tail(s) \in Seq(S) /\ Len(Tail(s)) = Len(s) - 1
        /\ \A i \in 1 .. Len(Tail(s)) : Tail(s)[i] = s[i + 1]
    BY HeadTailProperties
  <1>3. Head(s) = s[1]
    OBVIOUS
  <1>4. DOMAIN Tail(s) = 1 .. (Len(s) - 1)
    BY <1>2, LenProperties
  <1>5. \A i \in DOMAIN Tail(s) : i + 1 \in DOMAIN s /\ i + 1 # 1 /\ Tail(s)[i] = s[i + 1]
    BY <1>1, <1>2, <1>4
  <1>6. \A i \in DOMAIN s : i # 1 => i - 1 \in DOMAIN Tail(s) /\ s[i] = Tail(s)[i - 1]
    BY <1>1, <1>2, <1>4
  <1>7. 1 \in DOMAIN s
    BY <1>1
  <1>8. ToSet(Tail(s)) = ToSet(s) \ {Head(s)}
    <2>1. \A i \in DOMAIN s : i # 1 <=> s[i] # Head(s)
      BY <1>3, <1>7 DEF IsInjective
    <2>2. \A x \in ToSet(Tail(s)) : x \in ToSet(s) /\ x # Head(s)
      BY <1>5, <2>1 DEF ToSet
    <2>3. \A x \in ToSet(s) : x # Head(s) => x \in ToSet(Tail(s))
      BY <1>6, <2>1 DEF ToSet
    <2> QED
      BY <2>2, <2>3 DEF ToSet
  <1>9. IsInjective(Tail(s))
    <2> SUFFICES ASSUME NEW a \in DOMAIN Tail(s), NEW b \in DOMAIN Tail(s), Tail(s)[a] = Tail(s)[b]
                 PROVE  a = b
      BY DEF IsInjective
    <2>1. a + 1 = b + 1
      BY <1>5 DEF IsInjective
    <2> QED
      BY <1>1, <1>4, <2>1
  <1> QED
    BY <1>2, <1>3, <1>7, <1>8, <1>9 DEF ToSet

LEMMA QueueAppend ==
  ASSUME NEW S, NEW s \in Seq(S), IsInjective(s), NEW e \in S, e \notin ToSet(s)
  PROVE  /\ Append(s, e) \in Seq(S) /\ IsInjective(Append(s, e))
         /\ ToSet(Append(s, e)) = ToSet(s) \cup {e}
  <1> DEFINE t == Append(s, e)
  <1>1. /\ t \in Seq(S) /\ Len(t) = Len(s) + 1 /\ t[Len(s) + 1] = e
        /\ \A i \in 1 .. Len(s) : t[i] = s[i]
    BY AppendProperties
  <1> HIDE DEF t
  <1>2. /\ Len(s) \in Nat /\ DOMAIN s = 1 .. Len(s) /\ DOMAIN t = 1 .. Len(s) + 1
    BY <1>1, LenProperties
  <1>3. \A i \in DOMAIN t : (i \in DOMAIN s /\ t[i] = s[i]) \/ (i = Len(s) + 1 /\ t[i] = e)
    BY <1>1, <1>2
  <1>4. DOMAIN s \subseteq DOMAIN t /\ Len(s) + 1 \in DOMAIN t
    BY <1>2
  <1>5. ToSet(t) = ToSet(s) \cup {e}
    BY <1>1, <1>2, <1>3, <1>4 DEF ToSet
  <1>6. \A i \in DOMAIN s : s[i] # e
    BY DEF ToSet
  <1>7. IsInjective(t)
    BY <1>3, <1>6 DEF IsInjective
  <1> QED
    BY <1>1, <1>5, <1>7 DEF t

LEMMA TakeStep ==
  ASSUME WorkerAssumption, Quiet, WorkerIInv, Take
  PROVE  WorkerIInv'
  <1>1. /\ UNCHANGED <<driver, connected, links, asked, stmt, cache, status, bound, broken,
                       sent, told>>
        /\ pc = "idle" /\ queue # <<>> /\ queue' = Tail(queue) /\ job' = Head(queue)
        /\ job = None /\ stmt = None
        /\ left' = asked[Head(queue)].commands
        /\ pc' = IF asked[Head(queue)].kind = "prepared" THEN "lookup" ELSE "prepare"
        /\ held' = IF asked[Head(queue)].kind = "exec" THEN NothingHeld
                                                       ELSE [of |-> 1, error |-> FALSE]
    BY DEF Take, Goto, statements, WorkerIInv, Hands
  <1>2. PICK b \in Jobs : b = Head(queue)
    BY <1>1, QueueHead DEF WorkerIInv, WorkerTypeOK, Posted
  <1>3. /\ queue' \in Seq(Jobs) /\ IsInjective(queue')
        /\ ToSet(queue)' = ToSet(queue) \ {b} /\ b \in ToSet(queue)
    BY <1>1, <1>2, QueueHead DEF WorkerIInv, WorkerTypeOK, Posted
  <1>4. asked[b] \in Asks /\ asked[b].commands \in 0 .. MaxCommands
    <2>1. asked[b] \in Asks /\ asked[b] \in Ask
      BY <1>3 DEF WorkerIInv, Posted, Own, WorkerTypeOK
    <2> QED
      BY <2>1 DEF Ask
  <1>5. /\ held' \in [of : 0 .. MaxCommands, error : BOOLEAN] /\ held'.error = FALSE
        /\ asked[b].kind = "exec" => held'.of = 0
    <2>1. CASE asked[b].kind = "exec"
      BY <1>1, <1>2, <2>1, WorkerTypes DEF NothingHeld
    <2>2. CASE asked[b].kind # "exec"
      BY <1>1, <1>2, <2>2, WorkerTypes
    <2> QED
      BY <2>1, <2>2
  <1>6. WorkerTypeOK'
    <2>1. /\ job' \in Jobs \cup {None} /\ left' \in 0 .. MaxCommands
          /\ pc' \in {"lookup", "prepare"}
      BY <1>1, <1>2, <1>4
    <2> QED
      BY <1>1, <1>3, <1>5, <2>1 DEF WorkerIInv, WorkerTypeOK
  <1>7. Own' = Own /\ Posted'
    BY <1>1, <1>2, <1>3, WorkerTypes DEF WorkerIInv, Posted, Own
  <1>8. /\ Cached' = Cached /\ Kind' = asked[b].kind /\ b # None
        /\ pc' \in {"lookup", "prepare"} /\ (pc' = "lookup" <=> Kind' = "prepared")
    BY <1>1, <1>2, WorkerTypes DEF Cached, Kind
  <1>9. Tallied' /\ Closed'
    <2>1. asked[b].kind = "exec" => held'.of + left' <= MaxCommands
      BY <1>1, <1>2, <1>4, <1>5, WorkerTypes
    <2>2. pc' # "execute" /\ held'.error = FALSE
      BY <1>1, <1>5, <1>8
    <2> QED
      BY <1>1, <1>8, <2>1, <2>2 DEF WorkerIInv, Tallied, Closed
  <1>10. NoStatementLost' /\ Hands' /\ Owned'
    BY <1>1, <1>2, <1>8 DEF WorkerIInv, NoStatementLost, Hands, Owned
  <1>11. StatementReady' /\ Clean'
    BY <1>1, <1>8 DEF WorkerIInv, StatementReady, Clean
  <1>12. \A j \in Jobs : ResultsOf(j)' = ResultsOf(j)
    BY <1>1 DEF ResultsOf
  <1>13. ResultsOf(b) = <<>>
    BY <1>3 DEF WorkerIInv, Answers
  <1>14. (Partial(job, held.of) /\ ResultsOf(job) = <<>>)'
    <2>1. ResultsOf(b)' = <<>> /\ job' = b
      BY <1>1, <1>2, <1>12, <1>13
    <2> QED
      <3>1. ResultsOf(job)' = <<>>
        BY <2>1 DEF ResultsOf
      <3> QED
        BY <3>1 DEF Partial
  <1>15. Answers'
    <2>1. \A j \in ToSet(queue)' : ResultsOf(j)' = <<>>
      BY <1>3, <1>12, WorkerTypes DEF WorkerIInv, Answers
    <2>2. \A j \in Jobs \ Own : Complete(j)'
      BY <1>12 DEF WorkerIInv, Answers, Complete
    <2> QED
      BY <1>7, <1>14, <2>1, <2>2 DEF Answers
  <1> QED
    BY <1>6, <1>7, <1>9, <1>10, <1>11, <1>15 DEF WorkerIInv

LEMMA PostStep ==
  ASSUME WorkerAssumption, Quiet, WorkerIInv, NEW b \in Jobs, NEW ask \in Asks, PostJob(b, ask)
  PROVE  WorkerIInv'
  <1>1. /\ UNCHANGED <<driver, connected, links, pc, job, stmt, left, held, cache, status, bound,
                       broken, sent>>
        /\ b \notin ToSet(queue) /\ b # job /\ sent[b] = <<>>
        /\ queue' = Append(queue, b)
        /\ asked' = [asked EXCEPT ![b] = ask] /\ told' = [told EXCEPT ![b] = <<>>]
    BY DEF PostJob, UnderWay, atWork, statements
  <1>2. /\ queue' \in Seq(Jobs) /\ IsInjective(queue')
        /\ ToSet(queue)' = ToSet(queue) \cup {b}
    BY <1>1, QueueAppend DEF WorkerIInv, WorkerTypeOK, Posted
  <1>3. ask \in Ask
    <2>1. CASE ask \in [kind : {"query"}, id : {None}, parameters : BOOLEAN, commands : {1}]
      BY <2>1, WorkerTypes DEF Ask
    <2>2. CASE ask \in [kind : {"prepared"}, id : Ids, parameters : {TRUE}, commands : {1}]
      <3>1. \A P \in SUBSET BOOLEAN :
              [kind : {"prepared"}, id : Ids, parameters : P, commands : {1}] \subseteq Ask
        BY WorkerTypes DEF Ask
      <3>2. {TRUE} \in SUBSET BOOLEAN
        OBVIOUS
      <3> QED
        BY <2>2, <3>1, <3>2
    <2>3. CASE ask \in [kind : {"exec"}, id : {None}, parameters : {FALSE},
                        commands : 0 .. MaxCommands]
      BY <2>3, WorkerTypes DEF Ask
    <2> QED
      BY <2>1, <2>2, <2>3 DEF Asks, Quiet
  <1>4. WorkerTypeOK'
    <2>1. asked' \in [Jobs -> Ask]
      BY <1>1, <1>3 DEF WorkerIInv, WorkerTypeOK
    <2>2. told' \in [Jobs -> Seq(Result)]
      BY <1>1, EmptySeq DEF WorkerIInv, WorkerTypeOK
    <2> QED
      BY <1>1, <1>2, <2>1, <2>2 DEF WorkerIInv, WorkerTypeOK
  <1>5. /\ Own' = Own \cup {b}
        /\ \A j \in Jobs : asked'[j] = IF j = b THEN ask ELSE asked[j]
    BY <1>1, <1>2 DEF Own, WorkerIInv, WorkerTypeOK
  <1>6. Own \subseteq Jobs
    BY WorkerTypes DEF Own
  <1>7. Posted'
    BY <1>1, <1>2, <1>5, <1>6 DEF WorkerIInv, Posted
  <1>8. Cached' = Cached /\ (job # None => asked'[job] = asked[job])
    BY <1>1, <1>5, WorkerTypes DEF Cached
  <1>9. job # None => Kind' = Kind /\ Id' = Id
    BY <1>1, <1>8 DEF Kind, Id
  <1>10. Tallied' /\ Closed'
    BY <1>1, <1>8, <1>9 DEF WorkerIInv, Tallied, Closed, Is
  <1>11. NoStatementLost' /\ Hands' /\ Owned'
    BY <1>1, <1>8, <1>9 DEF WorkerIInv, NoStatementLost, Hands, Owned, Is
  <1>12. StatementReady' /\ Clean'
    BY <1>1, <1>8 DEF WorkerIInv, StatementReady, Clean, Is, Hands
  <1>13. /\ ResultsOf(b)' = <<>>
         /\ \A j \in Jobs \ {b} : ResultsOf(j)' = ResultsOf(j)
    BY <1>1, ConcatEmptySeq DEF ResultsOf, WorkerIInv, WorkerTypeOK
  <1>14. Answers'
    <2>1. \A j \in ToSet(queue)' : ResultsOf(j)' = <<>>
      BY <1>2, <1>13, WorkerTypes DEF WorkerIInv, Answers
    <2>2. \A j \in Jobs \ Own' : Complete(j)'
      <3> SUFFICES ASSUME NEW j \in Jobs, j \notin Own' PROVE Complete(j)'
        OBVIOUS
      <3>1. j # b /\ Complete(j)
        BY <1>5 DEF WorkerIInv, Answers
      <3> QED
        BY <1>13, <3>1 DEF Complete
    <2>3. job # None => (Partial(job, held.of) /\ (Is("sqlite") \/ ResultsOf(job) = <<>>))'
      <3> SUFFICES ASSUME job # None
                   PROVE  (Partial(job, held.of) /\ (Is("sqlite") \/ ResultsOf(job) = <<>>))'
        OBVIOUS
      <3>1. PICK a \in Jobs : a = job /\ a # b /\ a = job'
        BY <1>1, WorkerTypes
      <3>2. Partial(a, held.of) /\ (Is("sqlite") \/ ResultsOf(a) = <<>>)
        BY <3>1 DEF WorkerIInv, Answers
      <3>3. ResultsOf(a)' = ResultsOf(a) /\ held' = held /\ Is("sqlite")' = Is("sqlite")
        BY <1>1, <1>13, <3>1 DEF Is
      <3>4. (Partial(a, held.of) /\ (Is("sqlite") \/ ResultsOf(a) = <<>>))'
        BY <3>2, <3>3 DEF Partial
      <3> QED
        BY <3>1, <3>4 DEF Partial, ResultsOf
    <2> QED
      BY <1>1, <2>1, <2>2, <2>3 DEF Answers
  <1> QED
    BY <1>4, <1>7, <1>10, <1>11, <1>12, <1>14 DEF WorkerIInv

LEMMA DeliverStep ==
  ASSUME WorkerAssumption, Quiet, WorkerIInv, Deliver
  PROVE  WorkerIInv'
  <1>1. /\ UNCHANGED <<driver, connected, links, queue, asked, pc, job, stmt, left, held, cache,
                       status, bound, broken>>
        /\ told' = [j \in Jobs |-> told[j] \o sent[j]]
        /\ sent' = [j \in Jobs |-> <<>>]
    BY DEF Deliver, atWork, statements
  <1>2. \A j \in Jobs : told[j] \o sent[j] \in Seq(Result)
    BY WorkerTypes, ConcatProperties
  <1>3. WorkerTypeOK'
    <2>1. told' \in [Jobs -> Seq(Result)]
      BY <1>1, <1>2
    <2>2. sent' \in [Jobs -> Seq(Result)]
      BY <1>1, EmptySeq
    <2> QED
      BY <1>1, <2>1, <2>2 DEF WorkerIInv, WorkerTypeOK
  <1>4. \A j \in Jobs : ResultsOf(j)' = ResultsOf(j)
    BY <1>1, <1>2, ConcatEmptySeq DEF ResultsOf
  <1>5. Cached' = Cached /\ Kind' = Kind /\ Id' = Id /\ Own' = Own
    BY <1>1 DEF Cached, Kind, Id, Own
  <1>6. StatementReady' /\ NoStatementLost' /\ Closed' /\ Hands' /\ Owned' /\ Clean' /\ Tallied'
    BY <1>1, <1>5 DEF WorkerIInv, StatementReady, NoStatementLost, Closed, Hands, Owned, Clean,
                      Tallied, Is
  <1>7. Posted'
    BY <1>1, <1>5 DEF WorkerIInv, Posted
  <1>8. Answers'
    <2>1. \A j \in Jobs : Complete(j) => Complete(j)'
      BY <1>4 DEF Complete
    <2>2. job # None => ResultsOf(job)' = ResultsOf(job)
      <3>1. job' = job
        BY <1>1
      <3> QED
        BY <1>1, <1>4, <3>1, WorkerTypes DEF ResultsOf
    <2>3. job # None => Partial(job, held.of)'
      BY <1>1, <2>2 DEF WorkerIInv, Answers, Partial
    <2> QED
      BY <1>1, <1>4, <1>5, <2>1, <2>2, <2>3, WorkerTypes DEF WorkerIInv, Answers, Is
  <1> QED
    BY <1>3, <1>6, <1>7, <1>8 DEF WorkerIInv

LEMMA StepWorkerIInv ==
  ASSUME WorkerAssumption, Quiet, WorkerIInv, [WorkerNext]_workerVars
  PROVE  WorkerIInv'
  <1>1. CASE UNCHANGED workerVars
    <2>1. UNCHANGED <<driver, connected, links, queue, asked, pc, job, stmt, left, held, cache,
                      status, bound, broken, sent, told>>
      BY <1>1 DEF workerVars, atWork, statements
    <2>2. Cached' = Cached /\ Kind' = Kind /\ Id' = Id
      BY <2>1 DEF Cached, Kind, Id
    <2>3. WorkerTypeOK'
      BY <2>1 DEF WorkerIInv, WorkerTypeOK
    <2>4. StatementReady' /\ NoStatementLost' /\ Closed' /\ Hands' /\ Owned' /\ Clean' /\ Tallied'
      BY <2>1, <2>2 DEF WorkerIInv, StatementReady, NoStatementLost, Closed, Hands, Owned, Clean,
                        Tallied, Is
    <2>5. Posted' /\ Answers'
      BY <2>1, WorkerTypes, SameAnswers
    <2> QED
      BY <2>3, <2>4, <2>5 DEF WorkerIInv
  <1>2. ASSUME NEW j \in Jobs, NEW ask \in Asks, PostJob(j, ask)
        PROVE  WorkerIInv'
    BY <1>2, PostStep
  <1>3. ASSUME NEW ok \in BOOLEAN, Execute(ok)
        PROVE  WorkerIInv'
    BY <1>3, ExecuteStep
  <1> QED
    BY <1>1, <1>2, <1>3, OpenStep, CloseStep, DeliverStep, TakeStep, LookupStep, PrepareStep,
       BindStep, ReleaseStatementStep, SendStep, ResetStep DEF WorkerNext

-----------------------------------------------------------------------------
(***************************************************************************)
(* The theorems.                                                           *)
(***************************************************************************)

LEMMA Answered == ASSUME WorkerAssumption, WorkerIInv PROVE OneLastResult
  <1> SUFFICES ASSUME NEW j \in Jobs
               PROVE  /\ \A i \in 1 .. Len(ResultsOf(j)) - 1 :
                           /\ ~ResultsOf(j)[i].last /\ ~ResultsOf(j)[i].error
                           /\ ResultsOf(j)[i].of < ResultsOf(j)[i + 1].of
                      /\ ResultsOf(j) # <<>> =>
                           (Last(ResultsOf(j)).last <=> j \notin ToSet(queue) \cup {job})
    BY DEF OneLastResult
  <1> DEFINE r == ResultsOf(j)
  <1>1. r \in Seq(Result)
    BY WorkerTypes, ConcatProperties DEF ResultsOf
  <1>2. /\ Len(r) \in Nat /\ DOMAIN r = 1 .. Len(r)
        /\ r # <<>> <=> Len(r) # 0
        /\ \A i \in DOMAIN r : r[i].last \in BOOLEAN
    BY <1>1, WorkerTypes, ResultFields
  <1>3. j \in Own <=> j \in ToSet(queue) \cup {job}
    BY WorkerTypes DEF Own
  <1>4. CASE j \in ToSet(queue)
    <2>1. r = <<>>
      BY <1>4 DEF WorkerIInv, Answers
    <2> QED
      BY <2>1, EmptySeq
  <1>5. CASE j = job
    <2>1. Partial(j, held.of)
      BY <1>5, WorkerTypes DEF WorkerIInv, Answers
    <2>2. \A i \in DOMAIN r :
            ~r[i].last /\ ~r[i].error /\ \A k \in DOMAIN r : i < k => r[i].of < r[k].of
      BY <2>1 DEF Partial
    <2> HIDE DEF r
    <2>3. \A i \in 1 .. Len(r) - 1 : i \in DOMAIN r /\ i + 1 \in DOMAIN r /\ i < i + 1
      BY <1>2
    <2>4. r # <<>> => ~Last(r).last
      BY <1>2, <2>2 DEF Last
    <2> QED
      BY <1>5, <2>2, <2>3, <2>4 DEF r
  <1>6. CASE j \notin Own
    <2>1. Complete(j)
      BY <1>6 DEF WorkerIInv, Answers
    <2>2. r # <<>> =>
            /\ Last(r).last
            /\ \A i \in 1 .. Len(r) - 1 : ~r[i].last /\ ~r[i].error /\ r[i].of < r[i + 1].of
      BY <2>1 DEF Complete, Last
    <2>3. r = <<>> => 1 .. Len(r) - 1 = {}
      BY <1>2
    <2> QED
      BY <1>3, <1>6, <2>2, <2>3
  <1> QED
    BY <1>3, <1>4, <1>5, <1>6

LEMMA SpecIInv == ASSUME Quiet PROVE WorkerSpec => []WorkerIInv
  <1>1. WorkerInit => WorkerIInv
    BY InitWorkerIInv, WorkerAssumption
  <1>2. WorkerIInv /\ [WorkerNext]_workerVars => WorkerIInv'
    BY StepWorkerIInv, WorkerAssumption
  <1> QED
    BY <1>1, <1>2, PTL DEF WorkerSpec

\* A handle is used only when it is allocated, reset and bound for this job, and no error
\* path of the three workers loses one or keeps one twice.
THEOREM SpecStatementsSound == ASSUME Quiet PROVE WorkerSpec => []StatementsSound
  <1>1. WorkerIInv => StatementsSound
    BY DEF WorkerIInv, StatementsSound
  <1> QED
    BY <1>1, SpecIInv, PTL

\* Each job gets one last result, after all others, and the commands of a text are answered
\* in order.
THEOREM SpecOneLastResult == ASSUME Quiet PROVE WorkerSpec => []OneLastResult
  <1>1. WorkerIInv => OneLastResult
    BY Answered, WorkerAssumption
  <1> QED
    BY <1>1, SpecIInv, PTL

=============================================================================
