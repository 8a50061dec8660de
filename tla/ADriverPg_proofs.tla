--------------------------- MODULE ADriverPg_proofs ---------------------------
(***************************************************************************)
(* Proofs about the PostgreSQL driver: ADriverPg for any queries and any   *)
(* callers of coOpen(), and ADriverPgNotifications for any channels,       *)
(* subscriptions and receivers, each under the circumstances of its        *)
(* passing run (Calm, Careful).                                            *)
(***************************************************************************)
EXTENDS ADriverPg, ADriverPgNotifications, SequenceTheorems, TLAPS

Calm == ~ReopenMidQuery /\ ~RetryAtOnce /\ ~ReleaseInOpen

-----------------------------------------------------------------------------
(***************************************************************************)
(* The inductive invariant.                                                *)
(***************************************************************************)

\* What a handler may have still to do.
Opened == {<<"emitOk", "nextQuery">>, <<"emitOk", "nextQuery", "tail">>}
Going == {<<"nextQuery">>, <<"nextQuery", "tail">>, <<"nextQuery", "done", "tail">>}
Telling == {<<"nextQuery", "done", "tail">>, <<"done", "tail">>}
Failed == {<<"emitFailed", "finish">>, <<"emitFailed", "finish", "tail">>}
Finishing == {<<"finish">>, <<"finish", "tail">>}
Flushing == {<<"flush">>, <<"flush", "tail">>}
Rest == {<<>>, <<"tail">>}

Todos == Opened \cup Going \cup Telling \cup Failed \cup Finishing \cup Flushing \cup Rest

\* The state that the driver is in while a handler has that to do.
Handlers ==
  /\ todo \in Todos
  /\ todo \in Opened \cup Going \cup Telling => Connected
  /\ todo \in Failed => state = "Connecting"
  /\ todo \in Flushing => ~Connected
  /\ emitting # <<>> => todo \in Opened \cup Failed
  /\ finished # NoQuery <=> todo \in Telling
  /\ todo \in Finishing => callback = "none"
  /\ todo \in Opened \cup Failed => callback # "query"

\* The query that runs is the first one, and a query that does not is about to be
\* looked at.
FirstRuns ==
  /\ Connected => (queryRunning <=> inFlight # NoQuery)
  /\ ~Connected => inFlight = NoQuery
  /\ state = "Connecting" => ~queryRunning
  /\ inFlight # NoQuery => queue # <<>> /\ Head(queue) = inFlight
  /\ Connected /\ queue # <<>> /\ ~queryRunning => todo \in Opened \cup Going

\* Only the first query can be what is being prepared, in the session that it runs in.
Prepares ==
  /\ prepared => Connected
  /\ \A q \in preparing : queue # <<>> /\ q = Head(queue)
  /\ preparing # {} => Connected \/ todo \in Flushing

\* Who waits is in the queue or about to be told, and a call in the queue is no new one.
Waits ==
  /\ \A q \in Queries : queries[q] = "waiting" => q \in Range(queue) \/ q = finished
  /\ \A q \in Queries : q \in Range(queue) \/ q = finished => queries[q] # "none"
  /\ finished \notin Range(queue)

\* A connection is made for somebody, until all are told, and callers that wait keep
\* the application from letting the driver go.
OpenWaits ==
  /\ state = "Connecting" => openWaiters # <<>> \/ todo \in Failed \cup Finishing
  /\ openWaiters # <<>> \/ todo \in Opened \cup Failed => owner

\* The driver holds itself for its queries, and for the code that their answers run.
Lives ==
  /\ queue # <<>> \/ finished # NoQuery => selfDriver
  /\ callback = "query" /\ ~Idle => selfDriver
  /\ deleted => ~selfDriver /\ ~owner /\ openWaiters = <<>> /\ Idle

IInv == TypeOK /\ Handlers /\ FirstRuns /\ Prepares /\ Waits /\ OpenWaits /\ Lives

-----------------------------------------------------------------------------
(***************************************************************************)
(* The queue and the list of what is to do.                                *)
(***************************************************************************)

\* Taking the first query leaves a queue without it.
LEMMA Popped ==
  ASSUME NEW s \in Seq(Queries), IsInjective(s), s # <<>>
  PROVE  /\ Tail(s) \in Seq(Queries) /\ IsInjective(Tail(s))
         /\ Head(s) \in Queries /\ Head(s) \notin Range(Tail(s))
         /\ Range(s) = Range(Tail(s)) \cup {Head(s)}
  <1>1. /\ Len(s) \in Nat /\ DOMAIN s = 1 .. Len(s) /\ Len(s) # 0
        /\ \A i \in 1 .. Len(s) : s[i] \in Queries
    BY LenProperties, EmptySeq, ElementOfSeq
  <1>2. /\ Head(s) = s[1] /\ Tail(s) \in Seq(Queries) /\ Len(Tail(s)) = Len(s) - 1
        /\ \A i \in 1 .. Len(Tail(s)) : Tail(s)[i] = s[i + 1]
    BY HeadTailProperties
  <1>3. DOMAIN Tail(s) = 1 .. Len(s) - 1
    BY <1>2, LenProperties
  <1>4. IsInjective(Tail(s))
    <2> SUFFICES ASSUME NEW i \in DOMAIN Tail(s), NEW j \in DOMAIN Tail(s), Tail(s)[i] = Tail(s)[j]
                 PROVE  i = j
      BY DEF IsInjective
    <2>1. i + 1 \in DOMAIN s /\ j + 1 \in DOMAIN s /\ s[i + 1] = s[j + 1]
      BY <1>1, <1>2, <1>3
    <2>2. i + 1 = j + 1
      BY <2>1 DEF IsInjective
    <2> QED
      BY <1>1, <1>3, <2>2
  <1>5. Head(s) \notin Range(Tail(s))
    <2> SUFFICES ASSUME NEW i \in DOMAIN Tail(s), Tail(s)[i] = Head(s) PROVE FALSE
      BY DEF Range
    <2>1. i + 1 \in DOMAIN s /\ 1 \in DOMAIN s /\ s[i + 1] = s[1]
      BY <1>1, <1>2, <1>3
    <2>2. i + 1 = 1
      BY <2>1 DEF IsInjective
    <2> QED
      BY <1>1, <1>3, <2>2
  <1>6. Range(s) = Range(Tail(s)) \cup {Head(s)}
    <2>1. ASSUME NEW i \in DOMAIN s PROVE s[i] \in Range(Tail(s)) \cup {Head(s)}
      <3>1. CASE i = 1
        BY <1>2, <3>1
      <3>2. CASE i # 1
        <4>1. i - 1 \in DOMAIN Tail(s) /\ Tail(s)[i - 1] = s[i]
          BY <1>1, <1>2, <1>3, <3>2
        <4> QED
          BY <4>1 DEF Range
      <3> QED
        BY <3>1, <3>2
    <2>2. ASSUME NEW i \in DOMAIN Tail(s) PROVE Tail(s)[i] \in Range(s)
      <3>1. i + 1 \in DOMAIN s /\ Tail(s)[i] = s[i + 1]
        BY <1>1, <1>2, <1>3
      <3> QED
        BY <3>1 DEF Range
    <2>3. Head(s) \in Range(s)
      BY <1>1, <1>2 DEF Range
    <2> QED
      BY <2>1, <2>2, <2>3 DEF Range
  <1> QED
    BY <1>1, <1>2, <1>4, <1>5, <1>6

\* A new query goes to the end.
LEMMA Appended ==
  ASSUME NEW s \in Seq(Queries), IsInjective(s), NEW q \in Queries, q \notin Range(s)
  PROVE  /\ Append(s, q) \in Seq(Queries) /\ IsInjective(Append(s, q)) /\ Append(s, q) # <<>>
         /\ Range(Append(s, q)) = Range(s) \cup {q}
         /\ Head(Append(s, q)) = IF s = <<>> THEN q ELSE Head(s)
  <1> DEFINE r == Append(s, q)
             n == Len(s)
  <1>1. n \in Nat /\ DOMAIN s = 1 .. n /\ (s = <<>> <=> n = 0)
    BY LenProperties, EmptySeq
  <1>2. /\ r \in Seq(Queries) /\ Len(r) = n + 1 /\ r[n + 1] = q
        /\ \A i \in 1 .. n : r[i] = s[i]
    BY AppendProperties
  <1>3. DOMAIN r = 1 .. n + 1
    BY <1>2, LenProperties
  <1>4. \A i \in 1 .. n : s[i] # q /\ s[i] \in Range(s)
    BY <1>1 DEF Range
  <1> HIDE DEF r, n
  <1>5. IsInjective(r)
    <2> SUFFICES ASSUME NEW i \in 1 .. n + 1, NEW j \in 1 .. n + 1, r[i] = r[j] PROVE i = j
      BY <1>3 DEF IsInjective
    <2>1. CASE i \in 1 .. n /\ j \in 1 .. n
      BY <1>1, <1>2, <2>1 DEF IsInjective
    <2>2. CASE i = n + 1 \/ j = n + 1
      BY <1>1, <1>2, <1>4, <2>2
    <2> QED
      BY <1>1, <2>1, <2>2
  <1>6. Range(r) = Range(s) \cup {q}
    <2>1. \A i \in 1 .. n + 1 : r[i] \in Range(s) \cup {q}
      BY <1>1, <1>2, <1>4
    <2>2. \A i \in 1 .. n : i \in 1 .. n + 1 /\ r[i] = s[i]
      BY <1>1, <1>2
    <2>3. n + 1 \in 1 .. n + 1
      BY <1>1
    <2> QED
      BY <1>1, <1>2, <1>3, <2>1, <2>2, <2>3 DEF Range
  <1>7. r # <<>> /\ Head(r) = r[1]
    BY <1>1, <1>2, EmptySeq, HeadTailProperties
  <1>8. Head(r) = IF s = <<>> THEN q ELSE Head(s)
    <2>1. CASE s = <<>>
      BY <1>1, <1>2, <1>7, <2>1
    <2>2. CASE s # <<>>
      <3>1. 1 \in 1 .. n /\ Head(s) = s[1]
        BY <1>1, <2>2, HeadTailProperties
      <3> QED
        BY <1>2, <1>7, <2>2, <3>1
    <2> QED
      BY <2>1, <2>2
  <1> QED
    BY <1>2, <1>5, <1>6, <1>7, <1>8 DEF r

LEMMA RangeType ==
  ASSUME NEW s \in Seq(Queries)
  PROVE  Range(s) \subseteq Queries /\ (s = <<>> => Range(s) = {}) /\ (s # <<>> => Head(s) \in Range(s))
  <1>1. Len(s) \in Nat /\ DOMAIN s = 1 .. Len(s) /\ (s = <<>> <=> Len(s) = 0)
    BY LenProperties, EmptySeq
  <1>2. \A i \in DOMAIN s : s[i] \in Queries
    BY <1>1, ElementOfSeq
  <1>3. s # <<>> => 1 \in DOMAIN s /\ Head(s) = s[1]
    BY <1>1, HeadTailProperties
  <1> QED
    BY <1>1, <1>2, <1>3 DEF Range

\* Lists joined.
LEMMA Joined ==
  ASSUME NEW E, NEW s \in Seq(E), NEW t \in Seq(E), NEW u \in Seq(E),
         Len(s) = 1, Len(u) = 1 + Len(t), s[1] = u[1], \A i \in 1 .. Len(t) : t[i] = u[i + 1]
  PROVE  s \o t = u
  <1>1. Len(t) \in Nat
    BY LenProperties
  <1>2. /\ s \o t \in Seq(E) /\ Len(s \o t) = Len(s) + Len(t)
        /\ \A i \in 1 .. Len(s) + Len(t) : (s \o t)[i] = IF i <= Len(s) THEN s[i] ELSE t[i - Len(s)]
    BY ConcatProperties
  <1>3. ASSUME NEW i \in 1 .. 1 + Len(t) PROVE (s \o t)[i] = u[i]
    <2>1. CASE i = 1
      BY <1>1, <1>2, <2>1
    <2>2. CASE i # 1
      <3>1. i - 1 \in 1 .. Len(t) /\ ~(i <= 1) /\ (i - 1) + 1 = i
        BY <1>1, <2>2
      <3> QED
        BY <1>1, <1>2, <3>1
    <2> QED
      BY <2>1, <2>2
  <1> QED
    BY <1>2, <1>3, SeqEqual

LEMMA Pair ==
  ASSUME NEW E, NEW a \in E, NEW b \in E
  PROVE  <<a>> \o <<b>> = <<a, b>>
  <1> DEFINE r == <<a>>
             t == <<b>>
             u == <<a, b>>
  <1>1. r \in Seq(E) /\ t \in Seq(E) /\ u \in Seq(E)
    OBVIOUS
  <1>2. /\ Len(r) = 1 /\ Len(t) = 1 /\ Len(u) = 2
        /\ r[1] = u[1] /\ \A i \in 1 .. 1 : t[i] = u[i + 1]
    OBVIOUS
  <1>3. Len(u) = 1 + Len(t) /\ \A i \in 1 .. Len(t) : t[i] = u[i + 1]
    BY <1>2
  <1> HIDE DEF r, t, u
  <1>4. r \o t = u
    BY <1>1, <1>2, <1>3, Joined
  <1> QED
    BY <1>4 DEF r, t, u

LEMMA Triple ==
  ASSUME NEW E, NEW a \in E, NEW b \in E, NEW c \in E
  PROVE  <<a>> \o <<b, c>> = <<a, b, c>>
  <1> DEFINE r == <<a>>
             t == <<b, c>>
             u == <<a, b, c>>
  <1>1. r \in Seq(E) /\ t \in Seq(E) /\ u \in Seq(E)
    OBVIOUS
  <1>2. /\ Len(r) = 1 /\ Len(t) = 2 /\ Len(u) = 3
        /\ r[1] = u[1] /\ \A i \in 1 .. 2 : t[i] = u[i + 1]
    OBVIOUS
  <1>3. Len(u) = 1 + Len(t) /\ \A i \in 1 .. Len(t) : t[i] = u[i + 1]
    BY <1>2
  <1> HIDE DEF r, t, u
  <1>4. r \o t = u
    BY <1>1, <1>2, <1>3, Joined
  <1> QED
    BY <1>4 DEF r, t, u

\* The steps of each handler.
LEMMA TodoSteps ==
  /\ \A t \in Opened : Tail(t) \in Going \ Telling
  /\ \A t \in Going \ Telling : Tail(t) \in Rest
  /\ \A t \in Going \cap Telling : Tail(t) \in Telling \ Going
  /\ \A t \in Telling \ Going : Tail(t) = <<"tail">>
  /\ \A t \in Failed : Tail(t) \in Finishing
  /\ \A t \in Finishing : <<"flush">> \o Tail(t) \in Flushing
  /\ \A t \in Flushing : Tail(t) \in Rest
  /\ Tail(<<"tail">>) = <<>> /\ Head(<<"tail">>) = "tail"
  /\ \A t \in Todos \ Rest : t # <<>>
  <1>0. /\ Tail(<<"finish">>) = <<>> /\ <<"flush">> \o <<>> = <<"flush">>
        /\ Tail(<<"finish", "tail">>) = <<"tail">>
    OBVIOUS
  <1>01. <<"flush">> \o <<"tail">> = <<"flush", "tail">>
    <2> DEFINE E == {"flush", "tail"}
    <2>1. "flush" \in E /\ "tail" \in E
      OBVIOUS
    <2> HIDE DEF E
    <2> QED
      BY <2>1, Pair
  <1>02. Tail(<<"nextQuery", "done", "tail">>) = <<"done", "tail">>
    OBVIOUS
  <1>03. /\ Tail(<<"emitOk", "nextQuery">>) = <<"nextQuery">>
         /\ Tail(<<"emitOk", "nextQuery", "tail">>) = <<"nextQuery", "tail">>
         /\ Tail(<<"emitFailed", "finish">>) = <<"finish">>
         /\ Tail(<<"emitFailed", "finish", "tail">>) = <<"finish", "tail">>
    OBVIOUS
  <1>04. /\ Tail(<<"nextQuery">>) = <<>> /\ Tail(<<"nextQuery", "tail">>) = <<"tail">>
         /\ Tail(<<"done", "tail">>) = <<"tail">>
         /\ Tail(<<"flush">>) = <<>> /\ Tail(<<"flush", "tail">>) = <<"tail">>
         /\ Tail(<<"tail">>) = <<>> /\ Head(<<"tail">>) = "tail"
    OBVIOUS
  <1>05. /\ <<"nextQuery">> \in Going \ Telling /\ <<"nextQuery", "tail">> \in Going \ Telling
         /\ <<"done", "tail">> \in Telling \ Going
    BY DEF Going, Telling
  <1>1. \A t \in Opened : Tail(t) \in Going \ Telling
    BY <1>03, <1>05 DEF Opened
  <1>2. \A t \in Going \ Telling : Tail(t) \in Rest
    BY <1>04 DEF Going, Telling, Rest
  <1>3. \A t \in Going \cap Telling : Tail(t) \in Telling \ Going
    <2>1. \A t \in Going \cap Telling : t = <<"nextQuery", "done", "tail">>
      BY <1>05 DEF Going, Telling
    <2> QED
      BY <1>02, <1>05, <2>1
  <1>4. \A t \in Telling \ Going : Tail(t) = <<"tail">>
    BY <1>04 DEF Going, Telling
  <1>5. \A t \in Failed : Tail(t) \in Finishing
    BY <1>03 DEF Failed, Finishing
  <1>6. \A t \in Finishing : <<"flush">> \o Tail(t) \in Flushing
    BY <1>0, <1>01 DEF Finishing, Flushing
  <1>7. \A t \in Flushing : Tail(t) \in Rest
    BY <1>04 DEF Flushing, Rest
  <1>8. \A t \in Todos \ Rest : t # <<>>
    BY DEF Rest
  <1> QED
    BY <1>1, <1>2, <1>3, <1>4, <1>5, <1>6, <1>7, <1>8, <1>04

LEMMA TodoType ==
  ASSUME NEW t \in Todos
  PROVE  t \in Seq({"emitOk", "emitFailed", "nextQuery", "finish", "flush", "done", "tail"})
  <1> DEFINE E == {"emitOk", "emitFailed", "nextQuery", "finish", "flush", "done", "tail"}
  <1>1. /\ <<"emitOk", "nextQuery">> \in Seq(E) /\ <<"emitOk", "nextQuery", "tail">> \in Seq(E)
        /\ <<"emitFailed", "finish">> \in Seq(E) /\ <<"emitFailed", "finish", "tail">> \in Seq(E)
    OBVIOUS
  <1>2. /\ <<"nextQuery">> \in Seq(E) /\ <<"nextQuery", "tail">> \in Seq(E)
        /\ <<"nextQuery", "done", "tail">> \in Seq(E) /\ <<"done", "tail">> \in Seq(E)
    OBVIOUS
  <1>3. /\ <<"finish">> \in Seq(E) /\ <<"finish", "tail">> \in Seq(E)
        /\ <<"flush">> \in Seq(E) /\ <<"flush", "tail">> \in Seq(E)
        /\ <<>> \in Seq(E) /\ <<"tail">> \in Seq(E)
    OBVIOUS
  <1> HIDE DEF E
  <1>4. t \in Seq(E)
    BY <1>1, <1>2, <1>3 DEF Todos, Opened, Going, Telling, Failed, Finishing, Flushing, Rest
  <1> QED
    BY <1>4 DEF E

\* Each step is one of one handler.
LEMMA TodoHeads ==
  ASSUME NEW t \in Todos
  PROVE  /\ t \in Opened => t \notin Going \cup Telling \cup Failed \cup Finishing \cup Flushing \cup Rest
         /\ t \in Going => t \notin Failed \cup Finishing \cup Flushing \cup Rest
         /\ t \in Telling => t \notin Failed \cup Finishing \cup Flushing \cup Rest
         /\ t \in Failed => t \notin Finishing \cup Flushing \cup Rest
         /\ t \in Finishing => t \notin Flushing \cup Rest
         /\ t \in Flushing => t \notin Rest
         /\ t # <<>> => /\ Head(t) = "emitOk" <=> t \in Opened
                        /\ Head(t) = "emitFailed" <=> t \in Failed
                        /\ Head(t) = "nextQuery" <=> t \in Going
                        /\ Head(t) = "done" <=> t \in Telling \ Going
                        /\ Head(t) = "finish" <=> t \in Finishing
                        /\ Head(t) = "flush" <=> t \in Flushing
                        /\ Head(t) = "tail" <=> t = <<"tail">>
  BY DEF Todos, Opened, Going, Telling, Failed, Finishing, Flushing, Rest

-----------------------------------------------------------------------------
(***************************************************************************)
(* Every step keeps the invariant.                                         *)
(***************************************************************************)

\* What is to do tells which handler runs.
LEMMA TodoFacts ==
  ASSUME IInv
  PROVE  /\ todo \in Todos /\ Idle <=> todo = <<>>
         /\ todo \in Opened => todo \notin Going \cup Telling \cup Failed \cup Finishing \cup Flushing \cup Rest
         /\ todo \in Going => todo \notin Failed \cup Finishing \cup Flushing \cup Rest
         /\ todo \in Telling => todo \notin Failed \cup Finishing \cup Flushing \cup Rest
         /\ todo \in Failed => todo \notin Finishing \cup Flushing \cup Rest
         /\ todo \in Finishing => todo \notin Flushing \cup Rest
         /\ todo \in Flushing => todo \notin Rest
         /\ todo = <<>> => todo \in Rest
         /\ Emitting <=> todo \in Opened \cup Failed
         /\ At("nextQuery") <=> ~deleted /\ todo \in Going
         /\ At("done") <=> ~deleted /\ todo \in Telling \ Going
         /\ At("finish") <=> ~deleted /\ todo \in Finishing
         /\ At("flush") <=> ~deleted /\ todo \in Flushing
         /\ At("tail") <=> ~deleted /\ todo = <<"tail">>
  <1>1. todo \in Todos
    BY DEF IInv, Handlers
  <1>2. <<>> \in Rest /\ <<"tail">> # <<>>
    BY DEF Rest
  <1>3. \A t \in Todos \ Rest : t # <<>>
    BY TodoSteps
  <1> QED
    BY <1>1, <1>2, <1>3, TodoHeads DEF Idle, Emitting, At

LEMMA QueueFacts ==
  ASSUME IInv
  PROVE  /\ queue \in Seq(Queries) /\ IsInjective(queue) /\ Range(queue) \subseteq Queries
         /\ queue = <<>> => Range(queue) = {}
         /\ queue # <<>> =>
              /\ Head(queue) \in Queries /\ Head(queue) \in Range(queue)
              /\ Tail(queue) \in Seq(Queries) /\ IsInjective(Tail(queue))
              /\ Head(queue) \notin Range(Tail(queue))
              /\ Range(queue) = Range(Tail(queue)) \cup {Head(queue)}
         /\ NoQuery \notin Queries
         /\ <<>> \in Seq(Queries) /\ IsInjective(<<>>) /\ Range(<<>>) = {}
  <1>1. <<>> \in Seq(Queries) /\ IsInjective(<<>>) /\ Range(<<>>) = {}
    BY DEF IsInjective, Range
  <1> QED
    BY <1>1, RangeType, Popped, ConstantsAssumption DEF IInv, TypeOK

\* How a handler starts.
LEMMA TodoStarts ==
  /\ \A tail \in Tails : /\ <<"emitOk">> \o (<<"nextQuery">> \o tail) \in Opened
                         /\ <<"emitFailed">> \o (<<"finish">> \o tail) \in Failed
  /\ <<>> \in Rest /\ <<"tail">> \in Rest /\ <<"finish", "tail">> \in Finishing
  /\ <<"nextQuery", "done", "tail">> \in Going \cap Telling
  /\ <<"nextQuery", "tail">> \in Going \ Telling
  <1> DEFINE E == {"emitOk", "emitFailed", "nextQuery", "finish", "tail"}
  <1>1. /\ "emitOk" \in E /\ "emitFailed" \in E /\ "nextQuery" \in E
        /\ "finish" \in E /\ "tail" \in E
    OBVIOUS
  <1> HIDE DEF E
  <1>2. /\ <<"emitOk">> \o (<<"nextQuery">> \o <<>>) = <<"emitOk", "nextQuery">>
        /\ <<"emitOk">> \o (<<"nextQuery">> \o <<"tail">>) = <<"emitOk", "nextQuery", "tail">>
        /\ <<"emitFailed">> \o (<<"finish">> \o <<>>) = <<"emitFailed", "finish">>
        /\ <<"emitFailed">> \o (<<"finish">> \o <<"tail">>) = <<"emitFailed", "finish", "tail">>
    <2>1. <<"nextQuery">> \o <<>> = <<"nextQuery">> /\ <<"finish">> \o <<>> = <<"finish">>
      OBVIOUS
    <2>2. /\ <<"nextQuery">> \o <<"tail">> = <<"nextQuery", "tail">>
          /\ <<"finish">> \o <<"tail">> = <<"finish", "tail">>
      BY <1>1, Pair
    <2>3. /\ <<"emitOk">> \o <<"nextQuery">> = <<"emitOk", "nextQuery">>
          /\ <<"emitFailed">> \o <<"finish">> = <<"emitFailed", "finish">>
      BY <1>1, Pair
    <2>4. /\ <<"emitOk">> \o <<"nextQuery", "tail">> = <<"emitOk", "nextQuery", "tail">>
          /\ <<"emitFailed">> \o <<"finish", "tail">> = <<"emitFailed", "finish", "tail">>
      BY <1>1, Triple
    <2> QED
      BY <2>1, <2>2, <2>3, <2>4
  <1>3. \A tail \in Tails : tail = <<>> \/ tail = <<"tail">>
    BY DEF Tails
  <1>4. \A tail \in Tails : /\ <<"emitOk">> \o (<<"nextQuery">> \o tail) \in Opened
                           /\ <<"emitFailed">> \o (<<"finish">> \o tail) \in Failed
    <2>1. /\ <<"emitOk", "nextQuery">> \in Opened /\ <<"emitOk", "nextQuery", "tail">> \in Opened
          /\ <<"emitFailed", "finish">> \in Failed /\ <<"emitFailed", "finish", "tail">> \in Failed
      BY DEF Opened, Failed
    <2> QED
      BY <1>2, <1>3, <2>1
  <1> QED
    BY <1>4 DEF Going, Telling, Finishing, Rest

LEMMA OpenCallStep ==
  ASSUME Calm, IInv, NEW o \in Opens, OpenJoin(o) \/ OpenStarts(o) \/ OpenNoSocket(o) \/ OpenRefused(o)
  PROVE  IInv'
  <1> USE DEF IInv, Connected, Idle, connection, asked, queued, lifetime, handler
  <1>0. Append(openWaiters, o) \in Seq(Opens) /\ Append(openWaiters, o) # <<>>
    <2>1. openWaiters \in Seq(Opens)
      BY DEF TypeOK
    <2>2. /\ Append(openWaiters, o) \in Seq(Opens)
          /\ Len(Append(openWaiters, o)) = Len(openWaiters) + 1 /\ Len(openWaiters) \in Nat
      BY <2>1
    <2> QED
      BY <2>2
  <1>1. todo' \in Todos
    BY <1>0 DEF Handlers, OpenJoin, OpenStarts, OpenNoSocket, OpenRefused
  <1>2. TypeOK'
    <2>1. todo' \in Seq({"emitOk", "emitFailed", "nextQuery", "finish", "flush", "done", "tail"})
      BY <1>1, TodoType
    <2>2. queue' \in Seq(Queries) /\ IsInjective(queue') /\ preparing' \subseteq Queries
      BY <1>0 DEF OpenJoin, OpenStarts, OpenNoSocket, OpenRefused, TypeOK
    <2>3. /\ {broken, prepared, queryRunning, owner, selfDriver, deleted}' \subseteq BOOLEAN
          /\ state' \in {"Disconnected", "Connecting", "Connected"}
          /\ callback' \in {"none", "open", "query"}
      BY DEF OpenJoin, OpenStarts, OpenNoSocket, OpenRefused, OpenCall, AppRuns, Calm, TypeOK
    <2>4. /\ openWaiters' \in Seq(Opens) /\ emitting' \in Seq(Opens)
          /\ opens' \in [Opens -> OpenState] /\ queries' \in [Queries -> QueryState]
          /\ kind' \in [Queries -> Kinds]
      <3>1. <<>> \in Seq(Opens)
        OBVIOUS
      <3>2. CASE OpenRefused(o)
        <4>1. opens' \in [Opens -> OpenState]
          BY <3>2 DEF OpenRefused, TypeOK, OpenState
        <4> QED
          BY <3>1, <3>2, <4>1 DEF OpenRefused, TypeOK
      <3>3. CASE ~OpenRefused(o)
        <4>1. opens' = [opens EXCEPT ![o] = "waiting"]
          BY <3>3 DEF OpenJoin, OpenStarts, OpenNoSocket
        <4>2. opens' \in [Opens -> OpenState]
          BY <4>1 DEF TypeOK, OpenState
        <4> QED
          BY <1>0, <3>3, <4>2 DEF OpenJoin, OpenStarts, OpenNoSocket, TypeOK
      <3> QED
        BY <3>2, <3>3
    <2>5. /\ inFlight' \in Queries \cup {NoQuery} /\ finished' \in Queries \cup {NoQuery}
          /\ results' \in 0..MaxResults /\ result' \in {"none", "ok", "error"}
      BY <1>0, ConstantsAssumption DEF OpenJoin, OpenStarts, OpenNoSocket, OpenRefused, TypeOK
    <2> QED
      BY <2>1, <2>2, <2>3, <2>4, <2>5 DEF TypeOK
  <1>3. Handlers'
    BY <1>0, <1>1 DEF Handlers, OpenJoin, OpenStarts, OpenNoSocket, OpenRefused
  <1>4. FirstRuns'
    BY <1>0, <1>1 DEF FirstRuns, OpenJoin, OpenStarts, OpenNoSocket, OpenRefused, OpenCall, Calm
  <1>5. Prepares'
    BY <1>0, <1>1 DEF Prepares, OpenJoin, OpenStarts, OpenNoSocket, OpenRefused
  <1>6. Waits'
    BY <1>0, <1>1 DEF Waits, OpenJoin, OpenStarts, OpenNoSocket, OpenRefused
  <1>7. OpenWaits'
    BY <1>0, <1>1, TodoFacts, TodoHeads
       DEF OpenWaits, OpenJoin, OpenStarts, OpenNoSocket, OpenRefused, OpenCall, AppRuns, Calm, Handlers
  <1>8. Lives'
    BY <1>0, <1>1 DEF Lives, OpenJoin, OpenStarts, OpenNoSocket, OpenRefused, OpenCall
  <1> QED
    BY <1>2, <1>3, <1>4, <1>5, <1>6, <1>7, <1>8

LEMMA DropQueryStep ==
  ASSUME Calm, IInv, NEW q \in Queries, DropQuery(q)
  PROVE  IInv'
  <1> USE DEF IInv, Connected, Idle, connection, asked, queued, lifetime, handler
  <1>1. todo' \in Todos
    BY DEF Handlers, DropQuery
  <1>2. TypeOK'
    <2>1. todo' \in Seq({"emitOk", "emitFailed", "nextQuery", "finish", "flush", "done", "tail"})
      BY <1>1, TodoType
    <2>2. queue' \in Seq(Queries) /\ IsInjective(queue') /\ preparing' \subseteq Queries
      BY DEF DropQuery, TypeOK
    <2>3. /\ {broken, prepared, queryRunning, owner, selfDriver, deleted}' \subseteq BOOLEAN
          /\ state' \in {"Disconnected", "Connecting", "Connected"}
          /\ callback' \in {"none", "open", "query"}
      BY DEF DropQuery, TypeOK
    <2>4. /\ openWaiters' \in Seq(Opens) /\ emitting' \in Seq(Opens)
          /\ opens' \in [Opens -> OpenState] /\ queries' \in [Queries -> QueryState]
          /\ kind' \in [Queries -> Kinds]
      BY DEF DropQuery, TypeOK, QueryState, OpenState
    <2>5. /\ inFlight' \in Queries \cup {NoQuery} /\ finished' \in Queries \cup {NoQuery}
          /\ results' \in 0..MaxResults /\ result' \in {"none", "ok", "error"}
      BY DEF DropQuery, TypeOK
    <2> QED
      BY <2>1, <2>2, <2>3, <2>4, <2>5 DEF TypeOK
  <1>3. Handlers'
    BY <1>1 DEF Handlers, DropQuery
  <1>4. FirstRuns'
    BY <1>1 DEF FirstRuns, DropQuery
  <1>5. Prepares'
    BY <1>1 DEF Prepares, DropQuery
  <1>6. Waits'
    BY <1>1 DEF Waits, DropQuery
  <1>7. OpenWaits'
    BY <1>1 DEF OpenWaits, DropQuery
  <1>8. Lives'
    BY <1>1 DEF Lives, DropQuery
  <1> QED
    BY <1>2, <1>3, <1>4, <1>5, <1>6, <1>7, <1>8

LEMMA DropOpenStep ==
  ASSUME Calm, IInv, NEW o \in Opens, DropOpen(o)
  PROVE  IInv'
  <1> USE DEF IInv, Connected, Idle, connection, asked, queued, lifetime, handler
  <1>1. todo' \in Todos
    BY DEF Handlers, DropOpen
  <1>2. TypeOK'
    <2>1. todo' \in Seq({"emitOk", "emitFailed", "nextQuery", "finish", "flush", "done", "tail"})
      BY <1>1, TodoType
    <2>2. queue' \in Seq(Queries) /\ IsInjective(queue') /\ preparing' \subseteq Queries
      BY DEF DropOpen, TypeOK
    <2>3. /\ {broken, prepared, queryRunning, owner, selfDriver, deleted}' \subseteq BOOLEAN
          /\ state' \in {"Disconnected", "Connecting", "Connected"}
          /\ callback' \in {"none", "open", "query"}
      BY DEF DropOpen, TypeOK
    <2>4. /\ openWaiters' \in Seq(Opens) /\ emitting' \in Seq(Opens)
          /\ opens' \in [Opens -> OpenState] /\ queries' \in [Queries -> QueryState]
          /\ kind' \in [Queries -> Kinds]
      BY DEF DropOpen, TypeOK, QueryState, OpenState
    <2>5. /\ inFlight' \in Queries \cup {NoQuery} /\ finished' \in Queries \cup {NoQuery}
          /\ results' \in 0..MaxResults /\ result' \in {"none", "ok", "error"}
      BY DEF DropOpen, TypeOK
    <2> QED
      BY <2>1, <2>2, <2>3, <2>4, <2>5 DEF TypeOK
  <1>3. Handlers'
    BY <1>1 DEF Handlers, DropOpen
  <1>4. FirstRuns'
    BY <1>1 DEF FirstRuns, DropOpen
  <1>5. Prepares'
    BY <1>1 DEF Prepares, DropOpen
  <1>6. Waits'
    BY <1>1 DEF Waits, DropOpen
  <1>7. OpenWaits'
    BY <1>1 DEF OpenWaits, DropOpen
  <1>8. Lives'
    BY <1>1 DEF Lives, DropOpen
  <1> QED
    BY <1>2, <1>3, <1>4, <1>5, <1>6, <1>7, <1>8

LEMMA ReleaseStep ==
  ASSUME Calm, IInv, Release
  PROVE  IInv'
  <1> USE DEF IInv, Connected, Idle, connection, asked, queued, lifetime, handler
  <1>1. todo' \in Todos
    BY DEF Handlers, Release
  <1>2. TypeOK'
    <2>1. todo' \in Seq({"emitOk", "emitFailed", "nextQuery", "finish", "flush", "done", "tail"})
      BY <1>1, TodoType
    <2>2. queue' \in Seq(Queries) /\ IsInjective(queue') /\ preparing' \subseteq Queries
      BY DEF Release, TypeOK
    <2>3. /\ {broken, prepared, queryRunning, owner, selfDriver, deleted}' \subseteq BOOLEAN
          /\ state' \in {"Disconnected", "Connecting", "Connected"}
          /\ callback' \in {"none", "open", "query"}
      BY DEF Release, AppRuns, Calm, TypeOK
    <2>4. /\ openWaiters' \in Seq(Opens) /\ emitting' \in Seq(Opens)
          /\ opens' \in [Opens -> OpenState] /\ queries' \in [Queries -> QueryState]
          /\ kind' \in [Queries -> Kinds]
      BY DEF Release, TypeOK
    <2>5. /\ inFlight' \in Queries \cup {NoQuery} /\ finished' \in Queries \cup {NoQuery}
          /\ results' \in 0..MaxResults /\ result' \in {"none", "ok", "error"}
      BY DEF Release, TypeOK
    <2> QED
      BY <2>1, <2>2, <2>3, <2>4, <2>5 DEF TypeOK
  <1>3. Handlers'
    BY <1>1 DEF Handlers, Release
  <1>4. FirstRuns'
    BY <1>1 DEF FirstRuns, Release
  <1>5. Prepares'
    BY <1>1 DEF Prepares, Release
  <1>6. Waits'
    BY <1>1 DEF Waits, Release
  <1>7. OpenWaits'
    BY <1>1, TodoFacts DEF OpenWaits, Release, Calm, Handlers
  <1>8. Lives'
    BY <1>1 DEF Lives, Release, Calm, TypeOK
  <1> QED
    BY <1>2, <1>3, <1>4, <1>5, <1>6, <1>7, <1>8

LEMMA RecreateStep ==
  ASSUME Calm, IInv, Recreate
  PROVE  IInv'
  <1> USE DEF IInv, Connected, Idle, connection, asked, queued, lifetime, handler
  <1>1. todo' \in Todos
    BY TodoFacts DEF Recreate
  <1>2. TypeOK'
    <2>1. todo' \in Seq({"emitOk", "emitFailed", "nextQuery", "finish", "flush", "done", "tail"})
      BY <1>1, TodoType
    <2>2. queue' \in Seq(Queries) /\ IsInjective(queue') /\ preparing' \subseteq Queries
      BY QueueFacts DEF Recreate
    <2>3. /\ {broken, prepared, queryRunning, owner, selfDriver, deleted}' \subseteq BOOLEAN
          /\ state' \in {"Disconnected", "Connecting", "Connected"}
          /\ callback' \in {"none", "open", "query"}
      BY DEF Recreate, TypeOK
    <2>4. /\ openWaiters' \in Seq(Opens) /\ emitting' \in Seq(Opens)
          /\ opens' \in [Opens -> OpenState] /\ queries' \in [Queries -> QueryState]
          /\ kind' \in [Queries -> Kinds]
      BY DEF Recreate, TypeOK
    <2>5. /\ inFlight' \in Queries \cup {NoQuery} /\ finished' \in Queries \cup {NoQuery}
          /\ results' \in 0..MaxResults /\ result' \in {"none", "ok", "error"}
      BY ConstantsAssumption DEF Recreate, TypeOK
    <2> QED
      BY <2>1, <2>2, <2>3, <2>4, <2>5 DEF TypeOK
  <1>3. Handlers'
    BY <1>1, TodoFacts DEF Handlers, Recreate
  <1>4. FirstRuns'
    BY <1>1 DEF FirstRuns, Recreate
  <1>5. Prepares'
    BY <1>1 DEF Prepares, Recreate
  <1>6. Waits'
    BY <1>1 DEF Waits, Recreate, Lives
  <1>7. OpenWaits'
    BY <1>1 DEF OpenWaits, Recreate, Lives
  <1>8. Lives'
    BY <1>1 DEF Lives, Recreate
  <1> QED
    BY <1>2, <1>3, <1>4, <1>5, <1>6, <1>7, <1>8

LEMMA ServerBreaksStep ==
  ASSUME Calm, IInv, ServerBreaks
  PROVE  IInv'
  <1> USE DEF IInv, Connected, Idle, connection, asked, queued, lifetime, handler
  <1>1. todo' \in Todos
    BY DEF Handlers, ServerBreaks
  <1>2. TypeOK'
    <2>1. todo' \in Seq({"emitOk", "emitFailed", "nextQuery", "finish", "flush", "done", "tail"})
      BY <1>1, TodoType
    <2>2. queue' \in Seq(Queries) /\ IsInjective(queue') /\ preparing' \subseteq Queries
      BY DEF ServerBreaks, TypeOK
    <2>3. /\ {broken, prepared, queryRunning, owner, selfDriver, deleted}' \subseteq BOOLEAN
          /\ state' \in {"Disconnected", "Connecting", "Connected"}
          /\ callback' \in {"none", "open", "query"}
      BY DEF ServerBreaks, TypeOK
    <2>4. /\ openWaiters' \in Seq(Opens) /\ emitting' \in Seq(Opens)
          /\ opens' \in [Opens -> OpenState] /\ queries' \in [Queries -> QueryState]
          /\ kind' \in [Queries -> Kinds]
      BY DEF ServerBreaks, TypeOK
    <2>5. /\ inFlight' \in Queries \cup {NoQuery} /\ finished' \in Queries \cup {NoQuery}
          /\ results' \in 0..MaxResults /\ result' \in {"none", "ok", "error"}
      BY DEF ServerBreaks, TypeOK
    <2> QED
      BY <2>1, <2>2, <2>3, <2>4, <2>5 DEF TypeOK
  <1>3. Handlers'
    BY <1>1 DEF Handlers, ServerBreaks
  <1>4. FirstRuns'
    BY <1>1 DEF FirstRuns, ServerBreaks
  <1>5. Prepares'
    BY <1>1 DEF Prepares, ServerBreaks
  <1>6. Waits'
    BY <1>1 DEF Waits, ServerBreaks
  <1>7. OpenWaits'
    BY <1>1 DEF OpenWaits, ServerBreaks
  <1>8. Lives'
    BY <1>1 DEF Lives, ServerBreaks
  <1> QED
    BY <1>2, <1>3, <1>4, <1>5, <1>6, <1>7, <1>8

LEMMA ExecQueueStep ==
  ASSUME Calm, IInv, NEW q \in Queries, NEW k \in Kinds, ExecQueue(q, k)
  PROVE  IInv'
  <1> USE DEF IInv, Connected, Idle, connection, asked, queued, lifetime, handler
  <1>0. /\ q \notin Range(queue) /\ q # finished
        /\ Append(queue, q) \in Seq(Queries) /\ IsInjective(Append(queue, q)) /\ Append(queue, q) # <<>>
        /\ Range(Append(queue, q)) = Range(queue) \cup {q}
        /\ Head(Append(queue, q)) = IF queue = <<>> THEN q ELSE Head(queue)
    <2>1. q \notin Range(queue) /\ q # finished
      BY DEF Waits, ExecQueue, NewQuery
    <2> QED
      BY <2>1, Appended, QueueFacts
  <1>1. todo' \in Todos
    BY <1>0 DEF Handlers, ExecQueue, NewQuery
  <1>2. TypeOK'
    <2>1. todo' \in Seq({"emitOk", "emitFailed", "nextQuery", "finish", "flush", "done", "tail"})
      BY <1>1, TodoType
    <2>2. queue' \in Seq(Queries) /\ IsInjective(queue') /\ preparing' \subseteq Queries
      BY <1>0 DEF ExecQueue, Enqueue, TypeOK
    <2>3. /\ {broken, prepared, queryRunning, owner, selfDriver, deleted}' \subseteq BOOLEAN
          /\ state' \in {"Disconnected", "Connecting", "Connected"}
          /\ callback' \in {"none", "open", "query"}
      BY DEF ExecQueue, NewQuery, Enqueue, TypeOK
    <2>4. /\ openWaiters' \in Seq(Opens) /\ emitting' \in Seq(Opens)
          /\ opens' \in [Opens -> OpenState] /\ queries' \in [Queries -> QueryState]
          /\ kind' \in [Queries -> Kinds]
      BY <1>0 DEF ExecQueue, NewQuery, TypeOK, QueryState, OpenState
    <2>5. /\ inFlight' \in Queries \cup {NoQuery} /\ finished' \in Queries \cup {NoQuery}
          /\ results' \in 0..MaxResults /\ result' \in {"none", "ok", "error"}
      BY <1>0 DEF ExecQueue, NewQuery, TypeOK
    <2> QED
      BY <2>1, <2>2, <2>3, <2>4, <2>5 DEF TypeOK
  <1>3. Handlers'
    BY <1>0, <1>1 DEF Handlers, ExecQueue, NewQuery
  <1>4. FirstRuns'
    BY <1>0, <1>1 DEF FirstRuns, ExecQueue, queryShouldBeQueued, NewQuery, Enqueue
  <1>5. Prepares'
    BY <1>0, <1>1 DEF Prepares, ExecQueue, NewQuery, Enqueue
  <1>6. Waits'
    BY <1>0, <1>1 DEF Waits, ExecQueue, NewQuery, Enqueue, TypeOK
  <1>7. OpenWaits'
    BY <1>0, <1>1 DEF OpenWaits, ExecQueue, NewQuery
  <1>8. Lives'
    BY <1>0, <1>1 DEF Lives, ExecQueue, NewQuery, Enqueue
  <1> QED
    BY <1>2, <1>3, <1>4, <1>5, <1>6, <1>7, <1>8

LEMMA ExecSendStep ==
  ASSUME Calm, IInv, NEW q \in Queries, NEW k \in Kinds, ExecSend(q, k)
  PROVE  IInv'
  <1> USE DEF IInv, Connected, Idle, connection, asked, queued, lifetime, handler
  <1>0. /\ q \notin Range(queue) /\ q # finished
        /\ Append(queue, q) \in Seq(Queries) /\ IsInjective(Append(queue, q)) /\ Append(queue, q) # <<>>
        /\ Range(Append(queue, q)) = Range(queue) \cup {q}
        /\ Head(Append(queue, q)) = IF queue = <<>> THEN q ELSE Head(queue)
    <2>1. q \notin Range(queue) /\ q # finished
      BY DEF Waits, ExecSend, NewQuery
    <2> QED
      BY <2>1, Appended, QueueFacts
  <1>1. todo' \in Todos
    BY <1>0 DEF Handlers, ExecSend, NewQuery
  <1>2. TypeOK'
    <2>1. todo' \in Seq({"emitOk", "emitFailed", "nextQuery", "finish", "flush", "done", "tail"})
      BY <1>1, TodoType
    <2>2. queue' \in Seq(Queries) /\ IsInjective(queue') /\ preparing' \subseteq Queries
      BY <1>0 DEF ExecSend, Enqueue, runQuery, doExec, TypeOK
    <2>3. /\ {broken, prepared, queryRunning, owner, selfDriver, deleted}' \subseteq BOOLEAN
          /\ state' \in {"Disconnected", "Connecting", "Connected"}
          /\ callback' \in {"none", "open", "query"}
      BY DEF ExecSend, NewQuery, Enqueue, runQuery, TypeOK
    <2>4. /\ openWaiters' \in Seq(Opens) /\ emitting' \in Seq(Opens)
          /\ opens' \in [Opens -> OpenState] /\ queries' \in [Queries -> QueryState]
          /\ kind' \in [Queries -> Kinds]
      BY <1>0 DEF ExecSend, NewQuery, TypeOK, QueryState, OpenState
    <2>5. /\ inFlight' \in Queries \cup {NoQuery} /\ finished' \in Queries \cup {NoQuery}
          /\ results' \in 0..MaxResults /\ result' \in {"none", "ok", "error"}
      BY <1>0, ConstantsAssumption DEF ExecSend, NewQuery, runQuery, doExec, TypeOK
    <2> QED
      BY <2>1, <2>2, <2>3, <2>4, <2>5 DEF TypeOK
  <1>3. Handlers'
    BY <1>0, <1>1 DEF Handlers, ExecSend, NewQuery
  <1>4. FirstRuns'
    BY <1>0, <1>1, QueueFacts
       DEF FirstRuns, ExecSend, queryShouldBeQueued, Enqueue, runQuery, doExec
  <1>5. Prepares'
    BY <1>0, <1>1 DEF Prepares, ExecSend, queryShouldBeQueued, Enqueue, runQuery, doExec
  <1>6. Waits'
    BY <1>0, <1>1 DEF Waits, ExecSend, NewQuery, Enqueue, TypeOK
  <1>7. OpenWaits'
    BY <1>0, <1>1 DEF OpenWaits, ExecSend, NewQuery
  <1>8. Lives'
    BY <1>0, <1>1 DEF Lives, ExecSend, NewQuery, Enqueue
  <1> QED
    BY <1>2, <1>3, <1>4, <1>5, <1>6, <1>7, <1>8

LEMMA PollStep ==
  ASSUME Calm, IInv, NEW tail \in Tails, PollOk(tail) \/ PollFailed(tail)
  PROVE  IInv'
  <1> USE DEF IInv, Connected, Idle, connection, asked, queued, lifetime, handler
  <1>1. todo' \in Todos
    BY TodoFacts, TodoStarts DEF Handlers, PollOk, PollFailed, Deliver, Starts, Todos
  <1>2. TypeOK'
    <2>1. todo' \in Seq({"emitOk", "emitFailed", "nextQuery", "finish", "flush", "done", "tail"})
      BY <1>1, TodoType
    <2>2. queue' \in Seq(Queries) /\ IsInjective(queue') /\ preparing' \subseteq Queries
      BY DEF PollOk, PollFailed, Deliver, TypeOK
    <2>3. /\ {broken, prepared, queryRunning, owner, selfDriver, deleted}' \subseteq BOOLEAN
          /\ state' \in {"Disconnected", "Connecting", "Connected"}
          /\ callback' \in {"none", "open", "query"}
      BY DEF PollOk, PollFailed, Deliver, TypeOK
    <2>4. /\ openWaiters' \in Seq(Opens) /\ emitting' \in Seq(Opens)
          /\ opens' \in [Opens -> OpenState] /\ queries' \in [Queries -> QueryState]
          /\ kind' \in [Queries -> Kinds]
      BY DEF PollOk, PollFailed, Deliver, Starts, TypeOK
    <2>5. /\ inFlight' \in Queries \cup {NoQuery} /\ finished' \in Queries \cup {NoQuery}
          /\ results' \in 0..MaxResults /\ result' \in {"none", "ok", "error"}
      BY DEF PollOk, PollFailed, Deliver, TypeOK
    <2> QED
      BY <2>1, <2>2, <2>3, <2>4, <2>5 DEF TypeOK
  <1>3. Handlers'
    BY <1>1, TodoHeads DEF Handlers, PollOk, PollFailed, Deliver
  <1>4. FirstRuns'
    BY <1>1, TodoHeads DEF FirstRuns, PollOk, PollFailed, Deliver
  <1>5. Prepares'
    BY <1>1, TodoFacts DEF Prepares, PollOk, PollFailed, Deliver, Starts
  <1>6. Waits'
    BY <1>1 DEF Waits, PollOk, PollFailed, Deliver
  <1>7. OpenWaits'
    BY <1>1, TodoFacts, TodoHeads DEF OpenWaits, PollOk, PollFailed, Deliver, Starts
  <1>8. Lives'
    BY <1>1 DEF Lives, PollOk, PollFailed, Deliver, Starts
  <1> QED
    BY <1>2, <1>3, <1>4, <1>5, <1>6, <1>7, <1>8

LEMMA ReadResultStep ==
  ASSUME Calm, IInv, NEW r \in {"ok", "error"}, ReadResult(r)
  PROVE  IInv'
  <1> USE DEF IInv, Connected, Idle, connection, asked, queued, lifetime, handler
  <1>1. todo' \in Todos
    BY TodoStarts DEF ReadResult, Then, Todos
  <1>2. TypeOK'
    <2>1. todo' \in Seq({"emitOk", "emitFailed", "nextQuery", "finish", "flush", "done", "tail"})
      BY <1>1, TodoType
    <2>2. queue' \in Seq(Queries) /\ IsInjective(queue') /\ preparing' \subseteq Queries
      BY DEF ReadResult, TypeOK
    <2>3. /\ {broken, prepared, queryRunning, owner, selfDriver, deleted}' \subseteq BOOLEAN
          /\ state' \in {"Disconnected", "Connecting", "Connected"}
          /\ callback' \in {"none", "open", "query"}
      BY DEF ReadResult, Then, CallbackOf, TypeOK
    <2>4. /\ openWaiters' \in Seq(Opens) /\ emitting' \in Seq(Opens)
          /\ opens' \in [Opens -> OpenState] /\ queries' \in [Queries -> QueryState]
          /\ kind' \in [Queries -> Kinds]
      BY DEF ReadResult, Reading, Then, Told, CallbackOf, TypeOK, QueryState, OpenState
    <2>5. /\ inFlight' \in Queries \cup {NoQuery} /\ finished' \in Queries \cup {NoQuery}
          /\ results' \in 0..MaxResults /\ result' \in {"none", "ok", "error"}
      BY ConstantsAssumption DEF ReadResult, TypeOK
    <2> QED
      BY <2>1, <2>2, <2>3, <2>4, <2>5 DEF TypeOK
  <1>3. Handlers'
    BY <1>1, TodoStarts, TodoHeads DEF Handlers, ReadResult, Reading, Starts, Then
  <1>4. FirstRuns'
    BY <1>1 DEF FirstRuns, ReadResult, Reading
  <1>5. Prepares'
    BY <1>1 DEF Prepares, ReadResult, Reading
  <1>6. Waits'
    BY <1>1 DEF Waits, ReadResult, Told, TypeOK
  <1>7. OpenWaits'
    BY <1>1, TodoHeads DEF OpenWaits, ReadResult, Reading, Then
  <1>8. Lives'
    BY <1>1 DEF Lives, ReadResult, Reading, FirstRuns
  <1> QED
    BY <1>2, <1>3, <1>4, <1>5, <1>6, <1>7, <1>8

LEMMA QueryEndsStep ==
  ASSUME Calm, IInv, QueryEnds
  PROVE  IInv'
  <1> USE DEF IInv, Connected, Idle, connection, asked, queued, lifetime, handler
  <1>1. todo' \in Todos
    BY TodoStarts DEF QueryEnds, Then, Todos
  <1>2. TypeOK'
    <2>1. todo' \in Seq({"emitOk", "emitFailed", "nextQuery", "finish", "flush", "done", "tail"})
      BY <1>1, TodoType
    <2>2. queue' \in Seq(Queries) /\ IsInjective(queue') /\ preparing' \subseteq Queries
      BY QueueFacts DEF QueryEnds, EndOfQuery, Reading, TypeOK, FirstRuns
    <2>3. /\ {broken, prepared, queryRunning, owner, selfDriver, deleted}' \subseteq BOOLEAN
          /\ state' \in {"Disconnected", "Connecting", "Connected"}
          /\ callback' \in {"none", "open", "query"}
      BY DEF QueryEnds, EndOfQuery, Reading, Starts, Then, TypeOK
    <2>4. /\ openWaiters' \in Seq(Opens) /\ emitting' \in Seq(Opens)
          /\ opens' \in [Opens -> OpenState] /\ queries' \in [Queries -> QueryState]
          /\ kind' \in [Queries -> Kinds]
      BY DEF QueryEnds, EndOfQuery, TypeOK
    <2>5. /\ inFlight' \in Queries \cup {NoQuery} /\ finished' \in Queries \cup {NoQuery}
          /\ results' \in 0..MaxResults /\ result' \in {"none", "ok", "error"}
      BY QueueFacts, ConstantsAssumption DEF QueryEnds, EndOfQuery, Reading, FirstRuns
    <2> QED
      BY <2>1, <2>2, <2>3, <2>4, <2>5 DEF TypeOK
  <1>3. Handlers'
    BY <1>1, TodoStarts, TodoHeads
       DEF Handlers, QueryEnds, EndOfQuery, Reading, Starts, Then, FirstRuns
  <1>4. FirstRuns'
    BY <1>1, TodoHeads DEF FirstRuns, QueryEnds, EndOfQuery, Then
  <1>5. Prepares'
    BY <1>1 DEF Prepares, QueryEnds, EndOfQuery
  <1>6. Waits'
    BY <1>1, TodoFacts, QueueFacts
       DEF Waits, QueryEnds, EndOfQuery, Reading, Starts, Handlers, FirstRuns
  <1>7. OpenWaits'
    BY <1>1, TodoHeads DEF OpenWaits, QueryEnds, EndOfQuery, Reading, Then
  <1>8. Lives'
    BY <1>1 DEF Lives, QueryEnds, EndOfQuery, Reading, FirstRuns
  <1> QED
    BY <1>2, <1>3, <1>4, <1>5, <1>6, <1>7, <1>8

LEMMA PrepareEndsStep ==
  ASSUME Calm, IInv, PrepareEnds
  PROVE  IInv'
  <1> USE DEF IInv, Connected, Idle, connection, asked, queued, lifetime, handler
  <1>1. todo' \in Todos
    BY TodoStarts DEF PrepareEnds, Then, Todos
  <1>2. TypeOK'
    <2>1. todo' \in Seq({"emitOk", "emitFailed", "nextQuery", "finish", "flush", "done", "tail"})
      BY <1>1, TodoType
    <2>2. queue' \in Seq(Queries) /\ IsInjective(queue') /\ preparing' \subseteq Queries
      BY DEF PrepareEnds, TypeOK
    <2>3. /\ {broken, prepared, queryRunning, owner, selfDriver, deleted}' \subseteq BOOLEAN
          /\ state' \in {"Disconnected", "Connecting", "Connected"}
          /\ callback' \in {"none", "open", "query"}
      BY DEF PrepareEnds, EndOfQuery, Reading, Starts, Then, TypeOK
    <2>4. /\ openWaiters' \in Seq(Opens) /\ emitting' \in Seq(Opens)
          /\ opens' \in [Opens -> OpenState] /\ queries' \in [Queries -> QueryState]
          /\ kind' \in [Queries -> Kinds]
      BY DEF PrepareEnds, EndOfQuery, TypeOK
    <2>5. /\ inFlight' \in Queries \cup {NoQuery} /\ finished' \in Queries \cup {NoQuery}
          /\ results' \in 0..MaxResults /\ result' \in {"none", "ok", "error"}
      BY ConstantsAssumption DEF PrepareEnds, EndOfQuery, TypeOK
    <2> QED
      BY <2>1, <2>2, <2>3, <2>4, <2>5 DEF TypeOK
  <1>3. Handlers'
    BY <1>1, TodoStarts, TodoHeads DEF Handlers, PrepareEnds, EndOfQuery, Reading, Starts, Then
  <1>4. FirstRuns'
    BY <1>1, TodoHeads DEF FirstRuns, PrepareEnds, EndOfQuery, Then
  <1>5. Prepares'
    BY <1>1 DEF Prepares, PrepareEnds, EndOfQuery, Reading
  <1>6. Waits'
    BY <1>1 DEF Waits, PrepareEnds, EndOfQuery
  <1>7. OpenWaits'
    BY <1>1, TodoHeads DEF OpenWaits, PrepareEnds, EndOfQuery, Reading, Then
  <1>8. Lives'
    BY <1>1 DEF Lives, PrepareEnds, EndOfQuery, Reading, Starts, Then
  <1> QED
    BY <1>2, <1>3, <1>4, <1>5, <1>6, <1>7, <1>8

LEMMA ReadBrokenStep ==
  ASSUME Calm, IInv, ReadBroken
  PROVE  IInv'
  <1> USE DEF IInv, Connected, Idle, connection, asked, queued, lifetime, handler
  <1>1. todo' \in Todos
    BY TodoStarts DEF ReadBroken, Then, Todos
  <1>2. TypeOK'
    <2>1. todo' \in Seq({"emitOk", "emitFailed", "nextQuery", "finish", "flush", "done", "tail"})
      BY <1>1, TodoType
    <2>2. queue' \in Seq(Queries) /\ IsInjective(queue') /\ preparing' \subseteq Queries
      BY DEF ReadBroken, TypeOK
    <2>3. /\ {broken, prepared, queryRunning, owner, selfDriver, deleted}' \subseteq BOOLEAN
          /\ state' \in {"Disconnected", "Connecting", "Connected"}
          /\ callback' \in {"none", "open", "query"}
      BY DEF ReadBroken, Then, TypeOK
    <2>4. /\ openWaiters' \in Seq(Opens) /\ emitting' \in Seq(Opens)
          /\ opens' \in [Opens -> OpenState] /\ queries' \in [Queries -> QueryState]
          /\ kind' \in [Queries -> Kinds]
      BY DEF ReadBroken, TypeOK
    <2>5. /\ inFlight' \in Queries \cup {NoQuery} /\ finished' \in Queries \cup {NoQuery}
          /\ results' \in 0..MaxResults /\ result' \in {"none", "ok", "error"}
      BY DEF ReadBroken, TypeOK
    <2> QED
      BY <2>1, <2>2, <2>3, <2>4, <2>5 DEF TypeOK
  <1>3. Handlers'
    BY <1>1, TodoStarts, TodoHeads DEF Handlers, ReadBroken, Starts, Then
  <1>4. FirstRuns'
    BY <1>1, TodoFacts DEF FirstRuns, ReadBroken, Starts
  <1>5. Prepares'
    BY <1>1 DEF Prepares, ReadBroken
  <1>6. Waits'
    BY <1>1 DEF Waits, ReadBroken
  <1>7. OpenWaits'
    BY <1>1, TodoHeads DEF OpenWaits, ReadBroken, Then
  <1>8. Lives'
    BY <1>1 DEF Lives, ReadBroken, Starts, Then
  <1> QED
    BY <1>2, <1>3, <1>4, <1>5, <1>6, <1>7, <1>8

LEMMA EmitNextStep ==
  ASSUME Calm, IInv, EmitNext
  PROVE  IInv'
  <1> USE DEF IInv, Connected, Idle, connection, asked, queued, lifetime, handler
  <1>1. todo' \in Todos
    BY TodoFacts DEF EmitNext, Todos
  <1>2. TypeOK'
    <2>1. todo' \in Seq({"emitOk", "emitFailed", "nextQuery", "finish", "flush", "done", "tail"})
      BY <1>1, TodoType
    <2>2. queue' \in Seq(Queries) /\ IsInjective(queue') /\ preparing' \subseteq Queries
      BY DEF EmitNext, TypeOK
    <2>3. /\ {broken, prepared, queryRunning, owner, selfDriver, deleted}' \subseteq BOOLEAN
          /\ state' \in {"Disconnected", "Connecting", "Connected"}
          /\ callback' \in {"none", "open", "query"}
      BY DEF EmitNext, TypeOK
    <2>4. /\ openWaiters' \in Seq(Opens) /\ emitting' \in Seq(Opens)
          /\ opens' \in [Opens -> OpenState] /\ queries' \in [Queries -> QueryState]
          /\ kind' \in [Queries -> Kinds]
      BY DEF EmitNext, TypeOK, QueryState, OpenState
    <2>5. /\ inFlight' \in Queries \cup {NoQuery} /\ finished' \in Queries \cup {NoQuery}
          /\ results' \in 0..MaxResults /\ result' \in {"none", "ok", "error"}
      BY DEF EmitNext, TypeOK
    <2> QED
      BY <2>1, <2>2, <2>3, <2>4, <2>5 DEF TypeOK
  <1>3. Handlers'
    BY <1>1, TodoHeads DEF Handlers, EmitNext
  <1>4. FirstRuns'
    BY <1>1 DEF FirstRuns, EmitNext
  <1>5. Prepares'
    BY <1>1 DEF Prepares, EmitNext
  <1>6. Waits'
    BY <1>1 DEF Waits, EmitNext
  <1>7. OpenWaits'
    BY <1>1 DEF OpenWaits, EmitNext
  <1>8. Lives'
    BY <1>1 DEF Lives, EmitNext
  <1> QED
    BY <1>2, <1>3, <1>4, <1>5, <1>6, <1>7, <1>8

LEMMA EmitEndStep ==
  ASSUME Calm, IInv, EmitEnd
  PROVE  IInv'
  <1> USE DEF IInv, Connected, Idle, connection, asked, queued, lifetime, handler
  <1>1. todo' \in Todos
    BY TodoFacts, TodoSteps DEF EmitEnd, Then, Todos
  <1>2. TypeOK'
    <2>1. todo' \in Seq({"emitOk", "emitFailed", "nextQuery", "finish", "flush", "done", "tail"})
      BY <1>1, TodoType
    <2>2. queue' \in Seq(Queries) /\ IsInjective(queue') /\ preparing' \subseteq Queries
      BY DEF EmitEnd, TypeOK
    <2>3. /\ {broken, prepared, queryRunning, owner, selfDriver, deleted}' \subseteq BOOLEAN
          /\ state' \in {"Disconnected", "Connecting", "Connected"}
          /\ callback' \in {"none", "open", "query"}
      BY DEF EmitEnd, Then, Unreferenced, TypeOK
    <2>4. /\ openWaiters' \in Seq(Opens) /\ emitting' \in Seq(Opens)
          /\ opens' \in [Opens -> OpenState] /\ queries' \in [Queries -> QueryState]
          /\ kind' \in [Queries -> Kinds]
      BY DEF EmitEnd, TypeOK
    <2>5. /\ inFlight' \in Queries \cup {NoQuery} /\ finished' \in Queries \cup {NoQuery}
          /\ results' \in 0..MaxResults /\ result' \in {"none", "ok", "error"}
      BY DEF EmitEnd, TypeOK
    <2> QED
      BY <2>1, <2>2, <2>3, <2>4, <2>5 DEF TypeOK
  <1>3. Handlers'
    BY <1>1, TodoFacts, TodoSteps, TodoHeads DEF Handlers, EmitEnd, Then
  <1>4. FirstRuns'
    BY <1>1, TodoFacts, TodoSteps DEF FirstRuns, EmitEnd, Then
  <1>5. Prepares'
    BY <1>1, TodoFacts DEF Prepares, EmitEnd
  <1>6. Waits'
    BY <1>1 DEF Waits, EmitEnd
  <1>7. OpenWaits'
    BY <1>1, TodoFacts, TodoSteps, TodoHeads DEF OpenWaits, EmitEnd, Then
  <1>8. Lives'
    BY <1>1, TodoFacts DEF Lives, EmitEnd, Then, Unreferenced, TypeOK, OpenWaits
  <1> QED
    BY <1>2, <1>3, <1>4, <1>5, <1>6, <1>7, <1>8

LEMMA NextQueryEndsStep ==
  ASSUME Calm, IInv, NextQueryEnds
  PROVE  IInv'
  <1> USE DEF IInv, Connected, Idle, connection, asked, queued, lifetime, handler
  <1>1. todo' \in Todos
    BY TodoFacts, TodoSteps DEF NextQueryEnds, Then, Todos
  <1>2. TypeOK'
    <2>1. todo' \in Seq({"emitOk", "emitFailed", "nextQuery", "finish", "flush", "done", "tail"})
      BY <1>1, TodoType
    <2>2. queue' \in Seq(Queries) /\ IsInjective(queue') /\ preparing' \subseteq Queries
      BY DEF NextQueryEnds, TypeOK
    <2>3. /\ {broken, prepared, queryRunning, owner, selfDriver, deleted}' \subseteq BOOLEAN
          /\ state' \in {"Disconnected", "Connecting", "Connected"}
          /\ callback' \in {"none", "open", "query"}
      BY DEF NextQueryEnds, Then, TypeOK
    <2>4. /\ openWaiters' \in Seq(Opens) /\ emitting' \in Seq(Opens)
          /\ opens' \in [Opens -> OpenState] /\ queries' \in [Queries -> QueryState]
          /\ kind' \in [Queries -> Kinds]
      BY DEF NextQueryEnds, TypeOK
    <2>5. /\ inFlight' \in Queries \cup {NoQuery} /\ finished' \in Queries \cup {NoQuery}
          /\ results' \in 0..MaxResults /\ result' \in {"none", "ok", "error"}
      BY DEF NextQueryEnds, TypeOK
    <2> QED
      BY <2>1, <2>2, <2>3, <2>4, <2>5 DEF TypeOK
  <1>3. Handlers'
    BY <1>1, TodoFacts, TodoSteps, TodoHeads DEF Handlers, NextQueryEnds, Then
  <1>4. FirstRuns'
    BY <1>1 DEF FirstRuns, NextQueryEnds
  <1>5. Prepares'
    BY <1>1, TodoFacts DEF Prepares, NextQueryEnds
  <1>6. Waits'
    BY <1>1 DEF Waits, NextQueryEnds
  <1>7. OpenWaits'
    BY <1>1, TodoFacts, TodoSteps, TodoHeads DEF OpenWaits, NextQueryEnds, Then
  <1>8. Lives'
    BY <1>1 DEF Lives, NextQueryEnds, Then
  <1> QED
    BY <1>2, <1>3, <1>4, <1>5, <1>6, <1>7, <1>8

LEMMA NextQuerySkipsStep ==
  ASSUME Calm, IInv, NextQuerySkips
  PROVE  IInv'
  <1> USE DEF IInv, Connected, Idle, connection, asked, queued, lifetime, handler
  <1>1. todo' \in Todos
    BY TodoFacts DEF NextQuerySkips, Todos
  <1>2. TypeOK'
    <2>1. todo' \in Seq({"emitOk", "emitFailed", "nextQuery", "finish", "flush", "done", "tail"})
      BY <1>1, TodoType
    <2>2. queue' \in Seq(Queries) /\ IsInjective(queue') /\ preparing' \subseteq Queries
      BY QueueFacts DEF NextQuerySkips, TypeOK
    <2>3. /\ {broken, prepared, queryRunning, owner, selfDriver, deleted}' \subseteq BOOLEAN
          /\ state' \in {"Disconnected", "Connecting", "Connected"}
          /\ callback' \in {"none", "open", "query"}
      BY DEF NextQuerySkips, TypeOK
    <2>4. /\ openWaiters' \in Seq(Opens) /\ emitting' \in Seq(Opens)
          /\ opens' \in [Opens -> OpenState] /\ queries' \in [Queries -> QueryState]
          /\ kind' \in [Queries -> Kinds]
      BY QueueFacts, ConstantsAssumption DEF NextQuerySkips, Over, TypeOK, QueryState, OpenState
    <2>5. /\ inFlight' \in Queries \cup {NoQuery} /\ finished' \in Queries \cup {NoQuery}
          /\ results' \in 0..MaxResults /\ result' \in {"none", "ok", "error"}
      BY DEF NextQuerySkips, TypeOK
    <2> QED
      BY <2>1, <2>2, <2>3, <2>4, <2>5 DEF TypeOK
  <1>3. Handlers'
    BY <1>1 DEF Handlers, NextQuerySkips
  <1>4. FirstRuns'
    BY <1>1 DEF FirstRuns, NextQuerySkips
  <1>5. Prepares'
    BY <1>1 DEF Prepares, NextQuerySkips
  <1>6. Waits'
    BY <1>1, QueueFacts DEF Waits, NextQuerySkips, Over, TypeOK
  <1>7. OpenWaits'
    BY <1>1 DEF OpenWaits, NextQuerySkips
  <1>8. Lives'
    BY <1>1 DEF Lives, NextQuerySkips
  <1> QED
    BY <1>2, <1>3, <1>4, <1>5, <1>6, <1>7, <1>8

LEMMA NextQuerySendsStep ==
  ASSUME Calm, IInv, NextQuerySends
  PROVE  IInv'
  <1> USE DEF IInv, Connected, Idle, connection, asked, queued, lifetime, handler
  <1>1. todo' \in Todos
    BY TodoFacts DEF NextQuerySends, Todos
  <1>2. TypeOK'
    <2>1. todo' \in Seq({"emitOk", "emitFailed", "nextQuery", "finish", "flush", "done", "tail"})
      BY <1>1, TodoType
    <2>2. queue' \in Seq(Queries) /\ IsInjective(queue') /\ preparing' \subseteq Queries
      BY DEF NextQuerySends, runQuery, doExec, TypeOK
    <2>3. /\ {broken, prepared, queryRunning, owner, selfDriver, deleted}' \subseteq BOOLEAN
          /\ state' \in {"Disconnected", "Connecting", "Connected"}
          /\ callback' \in {"none", "open", "query"}
      BY DEF NextQuerySends, runQuery, TypeOK
    <2>4. /\ openWaiters' \in Seq(Opens) /\ emitting' \in Seq(Opens)
          /\ opens' \in [Opens -> OpenState] /\ queries' \in [Queries -> QueryState]
          /\ kind' \in [Queries -> Kinds]
      BY DEF NextQuerySends, TypeOK
    <2>5. /\ inFlight' \in Queries \cup {NoQuery} /\ finished' \in Queries \cup {NoQuery}
          /\ results' \in 0..MaxResults /\ result' \in {"none", "ok", "error"}
      BY ConstantsAssumption DEF NextQuerySends, runQuery, doExec, TypeOK
    <2> QED
      BY <2>1, <2>2, <2>3, <2>4, <2>5 DEF TypeOK
  <1>3. Handlers'
    BY <1>1 DEF Handlers, NextQuerySends
  <1>4. FirstRuns'
    BY <1>1, TodoFacts, QueueFacts DEF FirstRuns, NextQuerySends, runQuery, doExec, Handlers
  <1>5. Prepares'
    BY <1>1, TodoFacts DEF Prepares, NextQuerySends, runQuery, doExec, Handlers
  <1>6. Waits'
    BY <1>1 DEF Waits, NextQuerySends
  <1>7. OpenWaits'
    BY <1>1 DEF OpenWaits, NextQuerySends
  <1>8. Lives'
    BY <1>1 DEF Lives, NextQuerySends
  <1> QED
    BY <1>2, <1>3, <1>4, <1>5, <1>6, <1>7, <1>8

LEMMA NextQueryFailsStep ==
  ASSUME Calm, IInv, NextQueryFails
  PROVE  IInv'
  <1> USE DEF IInv, Connected, Idle, connection, asked, queued, lifetime, handler
  <1>1. todo' \in Todos
    BY TodoFacts DEF NextQueryFails, Todos
  <1>2. TypeOK'
    <2>1. todo' \in Seq({"emitOk", "emitFailed", "nextQuery", "finish", "flush", "done", "tail"})
      BY <1>1, TodoType
    <2>2. queue' \in Seq(Queries) /\ IsInjective(queue') /\ preparing' \subseteq Queries
      BY DEF NextQueryFails, TypeOK
    <2>3. /\ {broken, prepared, queryRunning, owner, selfDriver, deleted}' \subseteq BOOLEAN
          /\ state' \in {"Disconnected", "Connecting", "Connected"}
          /\ callback' \in {"none", "open", "query"}
      BY DEF NextQueryFails, CallbackOf, TypeOK
    <2>4. /\ openWaiters' \in Seq(Opens) /\ emitting' \in Seq(Opens)
          /\ opens' \in [Opens -> OpenState] /\ queries' \in [Queries -> QueryState]
          /\ kind' \in [Queries -> Kinds]
      BY DEF NextQueryFails, Answers, TypeOK, QueryState, OpenState
    <2>5. /\ inFlight' \in Queries \cup {NoQuery} /\ finished' \in Queries \cup {NoQuery}
          /\ results' \in 0..MaxResults /\ result' \in {"none", "ok", "error"}
      BY DEF NextQueryFails, TypeOK
    <2> QED
      BY <2>1, <2>2, <2>3, <2>4, <2>5 DEF TypeOK
  <1>3. Handlers'
    BY <1>1, TodoFacts DEF Handlers, NextQueryFails
  <1>4. FirstRuns'
    BY <1>1 DEF FirstRuns, NextQueryFails
  <1>5. Prepares'
    BY <1>1 DEF Prepares, NextQueryFails
  <1>6. Waits'
    BY <1>1 DEF Waits, NextQueryFails, Answers, TypeOK
  <1>7. OpenWaits'
    BY <1>1 DEF OpenWaits, NextQueryFails
  <1>8. Lives'
    BY <1>1 DEF Lives, NextQueryFails
  <1> QED
    BY <1>2, <1>3, <1>4, <1>5, <1>6, <1>7, <1>8

LEMMA DoneStep ==
  ASSUME Calm, IInv, Done
  PROVE  IInv'
  <1> USE DEF IInv, Connected, Idle, connection, asked, queued, lifetime, handler
  <1>1. todo' \in Todos
    BY TodoFacts, TodoSteps, TodoStarts DEF Handlers, Done, Then, CallbackOf, Todos
  <1>2. TypeOK'
    <2>1. todo' \in Seq({"emitOk", "emitFailed", "nextQuery", "finish", "flush", "done", "tail"})
      BY <1>1, TodoType
    <2>2. queue' \in Seq(Queries) /\ IsInjective(queue') /\ preparing' \subseteq Queries
      BY DEF Done, TypeOK
    <2>3. /\ {broken, prepared, queryRunning, owner, selfDriver, deleted}' \subseteq BOOLEAN
          /\ state' \in {"Disconnected", "Connecting", "Connected"}
          /\ callback' \in {"none", "open", "query"}
      BY DEF Done, Then, CallbackOf, TypeOK
    <2>4. /\ openWaiters' \in Seq(Opens) /\ emitting' \in Seq(Opens)
          /\ opens' \in [Opens -> OpenState] /\ queries' \in [Queries -> QueryState]
          /\ kind' \in [Queries -> Kinds]
      BY QueueFacts, ConstantsAssumption
         DEF Done, Over, Then, CallbackOf, TypeOK, QueryState, OpenState
    <2>5. /\ inFlight' \in Queries \cup {NoQuery} /\ finished' \in Queries \cup {NoQuery}
          /\ results' \in 0..MaxResults /\ result' \in {"none", "ok", "error"}
      BY DEF Done, TypeOK
    <2> QED
      BY <2>1, <2>2, <2>3, <2>4, <2>5 DEF TypeOK
  <1>3. Handlers'
    BY <1>1, TodoFacts, QueueFacts, TodoSteps, TodoStarts, TodoHeads DEF Handlers, Done, Then
  <1>4. FirstRuns'
    BY <1>1, TodoFacts DEF FirstRuns, Done
  <1>5. Prepares'
    BY <1>1, TodoFacts DEF Prepares, Done
  <1>6. Waits'
    BY <1>1, QueueFacts DEF Waits, Done, Over, TypeOK
  <1>7. OpenWaits'
    BY <1>1, TodoFacts, QueueFacts, TodoSteps, TodoStarts, TodoHeads
       DEF OpenWaits, Done, Then, Handlers
  <1>8. Lives'
    BY <1>1, TodoFacts DEF Lives, Done, Handlers
  <1> QED
    BY <1>2, <1>3, <1>4, <1>5, <1>6, <1>7, <1>8

LEMMA FinishStep ==
  ASSUME Calm, IInv, FinishConnection
  PROVE  IInv'
  <1> USE DEF IInv, Connected, Idle, connection, asked, queued, lifetime, handler
  <1>1. todo' \in Todos
    BY TodoFacts, TodoSteps DEF FinishConnection, Then, Todos
  <1>2. TypeOK'
    <2>1. todo' \in Seq({"emitOk", "emitFailed", "nextQuery", "finish", "flush", "done", "tail"})
      BY <1>1, TodoType
    <2>2. queue' \in Seq(Queries) /\ IsInjective(queue') /\ preparing' \subseteq Queries
      BY DEF FinishConnection, TypeOK
    <2>3. /\ {broken, prepared, queryRunning, owner, selfDriver, deleted}' \subseteq BOOLEAN
          /\ state' \in {"Disconnected", "Connecting", "Connected"}
          /\ callback' \in {"none", "open", "query"}
      BY DEF FinishConnection, Then, TypeOK
    <2>4. /\ openWaiters' \in Seq(Opens) /\ emitting' \in Seq(Opens)
          /\ opens' \in [Opens -> OpenState] /\ queries' \in [Queries -> QueryState]
          /\ kind' \in [Queries -> Kinds]
      BY DEF FinishConnection, TypeOK
    <2>5. /\ inFlight' \in Queries \cup {NoQuery} /\ finished' \in Queries \cup {NoQuery}
          /\ results' \in 0..MaxResults /\ result' \in {"none", "ok", "error"}
      BY ConstantsAssumption DEF FinishConnection, TypeOK
    <2> QED
      BY <2>1, <2>2, <2>3, <2>4, <2>5 DEF TypeOK
  <1>3. Handlers'
    BY <1>1, TodoFacts, TodoSteps, TodoHeads DEF Handlers, FinishConnection, Then
  <1>4. FirstRuns'
    BY <1>1 DEF FirstRuns, FinishConnection
  <1>5. Prepares'
    BY <1>1, TodoFacts, TodoSteps DEF Prepares, FinishConnection, Then
  <1>6. Waits'
    BY <1>1 DEF Waits, FinishConnection
  <1>7. OpenWaits'
    BY <1>1, TodoFacts, TodoSteps, TodoHeads DEF OpenWaits, FinishConnection, Then
  <1>8. Lives'
    BY <1>1, TodoFacts DEF Lives, FinishConnection, Then
  <1> QED
    BY <1>2, <1>3, <1>4, <1>5, <1>6, <1>7, <1>8

LEMMA FlushNextStep ==
  ASSUME Calm, IInv, FlushNext
  PROVE  IInv'
  <1> USE DEF IInv, Connected, Idle, connection, asked, queued, lifetime, handler
  <1>1. todo' \in Todos
    BY TodoFacts DEF FlushNext, Todos
  <1>2. TypeOK'
    <2>1. todo' \in Seq({"emitOk", "emitFailed", "nextQuery", "finish", "flush", "done", "tail"})
      BY <1>1, TodoType
    <2>2. queue' \in Seq(Queries) /\ IsInjective(queue') /\ preparing' \subseteq Queries
      BY QueueFacts DEF FlushNext, TypeOK
    <2>3. /\ {broken, prepared, queryRunning, owner, selfDriver, deleted}' \subseteq BOOLEAN
          /\ state' \in {"Disconnected", "Connecting", "Connected"}
          /\ callback' \in {"none", "open", "query"}
      BY DEF FlushNext, CallbackOf, TypeOK
    <2>4. /\ openWaiters' \in Seq(Opens) /\ emitting' \in Seq(Opens)
          /\ opens' \in [Opens -> OpenState] /\ queries' \in [Queries -> QueryState]
          /\ kind' \in [Queries -> Kinds]
      BY QueueFacts, ConstantsAssumption DEF FlushNext, Over, TypeOK, QueryState, OpenState
    <2>5. /\ inFlight' \in Queries \cup {NoQuery} /\ finished' \in Queries \cup {NoQuery}
          /\ results' \in 0..MaxResults /\ result' \in {"none", "ok", "error"}
      BY DEF FlushNext, TypeOK
    <2> QED
      BY <2>1, <2>2, <2>3, <2>4, <2>5 DEF TypeOK
  <1>3. Handlers'
    BY <1>1, TodoFacts DEF Handlers, FlushNext
  <1>4. FirstRuns'
    BY <1>1, TodoFacts DEF FirstRuns, FlushNext, Handlers
  <1>5. Prepares'
    BY <1>1 DEF Prepares, FlushNext
  <1>6. Waits'
    BY <1>1, QueueFacts DEF Waits, FlushNext, Over, TypeOK
  <1>7. OpenWaits'
    BY <1>1 DEF OpenWaits, FlushNext
  <1>8. Lives'
    BY <1>1 DEF Lives, FlushNext
  <1> QED
    BY <1>2, <1>3, <1>4, <1>5, <1>6, <1>7, <1>8

LEMMA FlushEndsStep ==
  ASSUME Calm, IInv, FlushEnds
  PROVE  IInv'
  <1> USE DEF IInv, Connected, Idle, connection, asked, queued, lifetime, handler
  <1>1. todo' \in Todos
    BY TodoFacts, TodoSteps DEF FlushEnds, Then, Todos
  <1>2. TypeOK'
    <2>1. todo' \in Seq({"emitOk", "emitFailed", "nextQuery", "finish", "flush", "done", "tail"})
      BY <1>1, TodoType
    <2>2. queue' \in Seq(Queries) /\ IsInjective(queue') /\ preparing' \subseteq Queries
      BY DEF FlushEnds, TypeOK
    <2>3. /\ {broken, prepared, queryRunning, owner, selfDriver, deleted}' \subseteq BOOLEAN
          /\ state' \in {"Disconnected", "Connecting", "Connected"}
          /\ callback' \in {"none", "open", "query"}
      BY DEF FlushEnds, Then, TypeOK
    <2>4. /\ openWaiters' \in Seq(Opens) /\ emitting' \in Seq(Opens)
          /\ opens' \in [Opens -> OpenState] /\ queries' \in [Queries -> QueryState]
          /\ kind' \in [Queries -> Kinds]
      BY DEF FlushEnds, TypeOK
    <2>5. /\ inFlight' \in Queries \cup {NoQuery} /\ finished' \in Queries \cup {NoQuery}
          /\ results' \in 0..MaxResults /\ result' \in {"none", "ok", "error"}
      BY DEF FlushEnds, TypeOK
    <2> QED
      BY <2>1, <2>2, <2>3, <2>4, <2>5 DEF TypeOK
  <1>3. Handlers'
    BY <1>1, TodoFacts, TodoSteps, TodoHeads DEF Handlers, FlushEnds, Then
  <1>4. FirstRuns'
    BY <1>1 DEF FirstRuns, FlushEnds
  <1>5. Prepares'
    BY <1>1 DEF Prepares, FlushEnds
  <1>6. Waits'
    BY <1>1 DEF Waits, FlushEnds
  <1>7. OpenWaits'
    BY <1>1, TodoFacts, TodoSteps, TodoHeads DEF OpenWaits, FlushEnds, Then
  <1>8. Lives'
    BY <1>1 DEF Lives, FlushEnds, Then
  <1> QED
    BY <1>2, <1>3, <1>4, <1>5, <1>6, <1>7, <1>8

LEMMA TailStep ==
  ASSUME Calm, IInv, TailOfRead
  PROVE  IInv'
  <1> USE DEF IInv, Connected, Idle, connection, asked, queued, lifetime, handler
  <1>1. todo' \in Todos
    BY TodoFacts, TodoSteps, TodoStarts DEF Handlers, TailOfRead, Then, Unreferenced, Todos
  <1>2. TypeOK'
    <2>1. todo' \in Seq({"emitOk", "emitFailed", "nextQuery", "finish", "flush", "done", "tail"})
      BY <1>1, TodoType
    <2>2. queue' \in Seq(Queries) /\ IsInjective(queue') /\ preparing' \subseteq Queries
      BY DEF TailOfRead, TypeOK
    <2>3. /\ {broken, prepared, queryRunning, owner, selfDriver, deleted}' \subseteq BOOLEAN
          /\ state' \in {"Disconnected", "Connecting", "Connected"}
          /\ callback' \in {"none", "open", "query"}
      BY DEF TailOfRead, Then, Unreferenced, TypeOK
    <2>4. /\ openWaiters' \in Seq(Opens) /\ emitting' \in Seq(Opens)
          /\ opens' \in [Opens -> OpenState] /\ queries' \in [Queries -> QueryState]
          /\ kind' \in [Queries -> Kinds]
      BY DEF TailOfRead, TypeOK
    <2>5. /\ inFlight' \in Queries \cup {NoQuery} /\ finished' \in Queries \cup {NoQuery}
          /\ results' \in 0..MaxResults /\ result' \in {"none", "ok", "error"}
      BY DEF TailOfRead, TypeOK
    <2> QED
      BY <2>1, <2>2, <2>3, <2>4, <2>5 DEF TypeOK
  <1>3. Handlers'
    BY <1>1, TodoFacts, QueueFacts, TodoSteps, TodoStarts, TodoHeads
       DEF Handlers, TailOfRead, Then, FirstRuns
  <1>4. FirstRuns'
    BY <1>1, TodoFacts, QueueFacts, TodoSteps, TodoStarts, TodoHeads
       DEF FirstRuns, TailOfRead, Then, Handlers
  <1>5. Prepares'
    BY <1>1, TodoFacts, TodoHeads DEF Prepares, TailOfRead, Handlers
  <1>6. Waits'
    BY <1>1 DEF Waits, TailOfRead
  <1>7. OpenWaits'
    BY <1>1, TodoFacts, QueueFacts, TodoSteps, TodoStarts, TodoHeads
       DEF OpenWaits, TailOfRead, Then, Handlers
  <1>8. Lives'
    BY <1>1, TodoFacts, TodoStarts
       DEF Lives, TailOfRead, Then, Unreferenced, TypeOK, Handlers, OpenWaits
  <1> QED
    BY <1>2, <1>3, <1>4, <1>5, <1>6, <1>7, <1>8

LEMMA InitIInv == Init => IInv
  <1> SUFFICES ASSUME Init PROVE IInv
    OBVIOUS
  <1> USE DEF Init, Fresh, Connected, Idle
  <1>1. TypeOK
    <2>1. IsInjective(<<>>)
      BY DEF IsInjective
    <2>2. todo \in Seq({"emitOk", "emitFailed", "nextQuery", "finish", "flush", "done", "tail"})
      OBVIOUS
    <2>3. queue \in Seq(Queries) /\ openWaiters \in Seq(Opens) /\ emitting \in Seq(Opens)
      OBVIOUS
    <2>4. 0 \in 0 .. MaxResults /\ "single" \in Kinds
      BY ConstantsAssumption
    <2> QED
      BY <2>1, <2>2, <2>3, <2>4 DEF TypeOK, QueryState, OpenState
  <1>2. todo \in Rest /\ todo \in Todos /\ Range(queue) = {}
    BY DEF Rest, Todos, Range
  <1>3. todo \notin Opened \cup Going \cup Telling \cup Failed \cup Finishing \cup Flushing
    BY <1>2, TodoHeads
  <1>4. Handlers
    BY <1>2, <1>3 DEF Handlers
  <1>5. FirstRuns /\ Prepares
    BY DEF FirstRuns, Prepares
  <1>6. Waits
    BY <1>2, ConstantsAssumption DEF Waits
  <1>7. OpenWaits /\ Lives
    BY <1>3 DEF OpenWaits, Lives
  <1> QED
    BY <1>1, <1>4, <1>5, <1>6, <1>7 DEF IInv

LEMMA StepIInv ==
  ASSUME Calm, IInv, [Next]_vars
  PROVE  IInv'
  <1>1. CASE UNCHANGED vars
    <2> USE <1>1 DEF vars, connection, asked, queued, lifetime, handler, Connected, Idle
    <2>1. TypeOK' /\ Handlers' /\ FirstRuns'
      BY DEF IInv, TypeOK, Handlers, FirstRuns
    <2>2. Prepares' /\ Waits' /\ OpenWaits' /\ Lives'
      BY DEF IInv, Prepares, Waits, OpenWaits, Lives
    <2> QED
      BY <2>1, <2>2 DEF IInv
  <1>2. CASE Handle
    BY <1>2, EmitNextStep, EmitEndStep, NextQueryEndsStep, NextQuerySkipsStep,
       NextQuerySendsStep,
       NextQueryFailsStep, DoneStep, FinishStep, FlushNextStep, FlushEndsStep, TailStep DEF Handle
  <1>3. CASE Poll
    BY <1>3, PollStep DEF Poll
  <1>4. CASE ReadServer \/ ReadBroken \/ ServerBreaks
    BY <1>4, ReadResultStep, QueryEndsStep, PrepareEndsStep, ReadBrokenStep, ServerBreaksStep
       DEF ReadServer
  <1>5. ASSUME NEW o \in Opens,
               \/ OpenJoin(o) \/ OpenStarts(o) \/ OpenNoSocket(o) \/ OpenRefused(o)
               \/ DropOpen(o)
        PROVE  IInv'
    BY <1>5, OpenCallStep, DropOpenStep
  <1>6. ASSUME NEW q \in Queries, (\E k \in Kinds : exec(q, k)) \/ DropQuery(q)
        PROVE  IInv'
    BY <1>6, ExecQueueStep, ExecSendStep, DropQueryStep DEF exec
  <1>7. CASE Release \/ Recreate
    BY <1>7, ReleaseStep, RecreateStep
  <1> QED
    BY <1>1, <1>2, <1>3, <1>4, <1>5, <1>6, <1>7 DEF Next, Application

LEMMA Inductive ==
  ASSUME Calm
  PROVE  Spec => []IInv
  BY InitIInv, StepIInv, PTL DEF Spec

-----------------------------------------------------------------------------
(***************************************************************************)
(* The theorems.                                                           *)
(***************************************************************************)

\* What the server answers is given to the query that it answers, the queue of an open
\* connection moves, and a statement counts as prepared only in its session
\* (src/src/adriverpg.cpp), for any queries and callers of coOpen() and whatever their
\* callbacks do, unless a lost connection is reopened with a query in flight, a
\* callback calls again at once what failed, or lets the driver go during coOpen().
THEOREM SpecQueueSound ==
  ASSUME Calm
  PROVE  Spec => []QueueSound
  <1>1. ASSUME IInv PROVE QueueSound
    <2> USE <1>1 DEF IInv, Connected
    <2>1. ResultsReachTheirQuery
      BY DEF FirstRuns, ResultsReachTheirQuery
    <2>2. Idle => todo \notin Opened \cup Going \cup Flushing \cup Failed \cup Finishing
      BY TodoFacts DEF Idle
    <2>3. FrontInFlight
      BY <2>2 DEF FirstRuns, FrontInFlight
    <2>4. PreparedInSession
      BY <2>2 DEF Prepares, PreparedInSession
    <2> QED
      BY <2>1, <2>3, <2>4 DEF QueueSound
  <1> QED
    BY <1>1, Inductive, PTL

\* The driver is not deleted while a query of it waits or a handler runs: it holds
\* itself for as long (src/src/adriverpg.cpp, selfDriver).
THEOREM SpecHeldWhileNeeded ==
  ASSUME Calm
  PROVE  Spec => []HeldWhileNeeded
  <1>1. ASSUME IInv PROVE HeldWhileNeeded
    <2> USE <1>1 DEF IInv
    <2>1. NoLostQuery
      <3> SUFFICES ASSUME NEW q \in Queries, queries[q] = "waiting"
                   PROVE  (q \in Range(queue) \/ q = finished) /\ selfDriver /\ ~deleted
        BY DEF NoLostQuery
      <3>1. q \in Range(queue) \/ q = finished
        BY DEF Waits
      <3>2. queue # <<>> \/ finished # NoQuery
        BY <3>1, QueueFacts
      <3> QED
        BY <3>1, <3>2 DEF Lives
    <2>2. NotDeletedInHandler
      BY DEF Lives, NotDeletedInHandler
    <2> QED
      BY <2>1, <2>2 DEF HeldWhileNeeded
  <1> QED
    BY <1>1, Inductive, PTL

\* Only the query that was popped is told, or the first one of the queue: with nothing
\* popped, or because it cannot be sent.
LEMMA FirstIsTold ==
  ASSUME IInv, Next, NEW q \in Queries,
         queries[q] = "waiting", queries'[q] \notin {"waiting", "gone"}
  PROVE  \/ q = finished
         \/ queue # <<>> /\ q = Head(queue) /\ (finished = NoQuery \/ At("nextQuery"))
  <1> USE DEF IInv, asked
  <1>1. queries \in [Queries -> QueryState]
    BY DEF TypeOK
  <1>2. CASE Handle
    <2>1. NextQueryFails \/ NextQuerySkips \/ Done \/ FlushNext
      BY <1>1, <1>2 DEF Handle, EmitNext, EmitEnd, NextQueryEnds, NextQuerySends,
         FinishConnection, FlushEnds, TailOfRead
    <2>2. CASE NextQueryFails \/ NextQuerySkips
      BY <1>1, <2>2 DEF NextQueryFails, NextQuerySkips, Over, Expired
    <2>3. CASE Done
      BY <1>1, <2>3 DEF Done, Over
    <2>4. CASE FlushNext
      <3>1. finished = NoQuery
        BY <2>4, TodoFacts DEF FlushNext, Handlers
      <3> QED
        BY <1>1, <2>4, <3>1 DEF FlushNext, Over
    <2> QED
      BY <2>1, <2>2, <2>3, <2>4
  <1>3. CASE ReadServer
    <2>1. CASE \E r \in {"ok", "error"} : ReadResult(r)
      <3>1. finished = NoQuery
        BY <2>1, TodoFacts DEF ReadResult, Reading, Starts, Handlers
      <3> QED
        BY <1>1, <2>1, <3>1 DEF ReadResult, Reading, Told, FirstRuns, Connected
    <2>2. CASE QueryEnds \/ PrepareEnds
      BY <1>1, <2>2 DEF QueryEnds, PrepareEnds, EndOfQuery
    <2> QED
      BY <1>3, <2>1, <2>2 DEF ReadServer
  <1>4. CASE Poll \/ ReadBroken \/ ServerBreaks
    BY <1>1, <1>4 DEF Poll, PollOk, PollFailed, Deliver, ReadBroken, ServerBreaks
  <1>5. ASSUME NEW o \in Opens,
               \/ OpenJoin(o) \/ OpenStarts(o) \/ OpenNoSocket(o) \/ OpenRefused(o)
               \/ DropOpen(o)
        PROVE  FALSE
    BY <1>1, <1>5 DEF OpenJoin, OpenStarts, OpenNoSocket, OpenRefused, DropOpen
  <1>6. ASSUME NEW p \in Queries, NEW k \in Kinds, exec(p, k)
        PROVE  FALSE
    BY <1>1, <1>6 DEF exec, ExecQueue, ExecSend, NewQuery
  <1>7. ASSUME NEW p \in Queries, DropQuery(p)
        PROVE  FALSE
    BY <1>1, <1>7 DEF DropQuery
  <1>8. CASE Release \/ Recreate
    BY <1>1, <1>8 DEF Release, Recreate
  <1> QED
    BY <1>2, <1>3, <1>4, <1>5, <1>6, <1>7, <1>8 DEF Next, Application

\* Queries are told in the order they were sent to the connection, the flush of a lost
\* connection included: nobody overtakes an earlier caller that still waits, in the
\* queue or with the query that was just popped, except the next query when it cannot be
\* sent, whose error comes before the result of the popped one
\* (src/src/adriverpg.cpp, nextQuery() before done()).
THEOREM SpecToldInOrder ==
  ASSUME Calm
  PROVE  Spec => ToldInOrder
  <1> DEFINE InOrder ==
        \A p, q \in Queries :
          /\ Before(p, q) /\ queries[p] = "waiting" /\ queries[q] = "waiting"
          /\ queries'[q] \notin {"waiting", "gone"}
          => \/ queries'[p] # "waiting"
             \/ p = finished /\ At("nextQuery")
  <1>1. ASSUME IInv, [Next]_vars PROVE [InOrder]_vars
    <2> SUFFICES ASSUME Next, NEW p \in Queries, NEW q \in Queries, Before(p, q),
                        queries[p] = "waiting", queries[q] = "waiting",
                        queries'[q] \notin {"waiting", "gone"}
                 PROVE  p = finished /\ At("nextQuery")
      BY <1>1
    <2>1. \/ q = finished
          \/ queue # <<>> /\ q = Head(queue) /\ (finished = NoQuery \/ At("nextQuery"))
      BY <1>1, FirstIsTold
    <2>2. finished \notin Range(queue) /\ NoQuery \notin Queries
      BY <1>1, ConstantsAssumption DEF IInv, Waits
    <2>3. CASE p = finished /\ q \in Range(queue)
      BY <2>1, <2>2, <2>3
    <2>4. ASSUME NEW i \in DOMAIN queue, NEW j \in DOMAIN queue, i < j, q = queue[j]
          PROVE  FALSE
      <3>1. DOMAIN queue = 1 .. Len(queue) /\ q \in Range(queue) /\ Len(queue) \in Nat
        <4>1. queue \in Seq(Queries)
          BY <1>1, QueueFacts
        <4> QED
          BY <2>4, <4>1, LenProperties DEF Range
      <3>2. q = Head(queue) /\ queue # <<>>
        BY <2>1, <2>2, <3>1
      <3>3. 1 \in DOMAIN queue /\ queue[1] = Head(queue)
        BY <1>1, <3>1, <3>2, QueueFacts, HeadTailProperties
      <3>4. j = 1
        BY <1>1, <2>4, <3>2, <3>3, QueueFacts DEF IsInjective
      <3> QED
        BY <2>4, <3>1, <3>4
    <2> QED
      BY <2>3, <2>4 DEF Before
  <1>2. Spec => [][InOrder]_vars
    BY <1>1, Inductive, PTL DEF Spec
  <1> QED
    BY <1>2 DEF ToldInOrder

-----------------------------------------------------------------------------
Careful == ~OldReceivers /\ ~ListensOverlap /\ ~EndsInCallback

-----------------------------------------------------------------------------
(***************************************************************************)
(* The inductive invariant.                                                *)
(***************************************************************************)

\* The callback that runs is that of an entry.
CallbackHeld ==
  /\ calling # NoSubscription => \E c \in Channels : table[c] = calling
  /\ calling # NoSubscription => notifies # <<>>

\* Each entry is watched through its own receiver, if it has one, and no other.
Watched ==
  \A c \in Channels : table[c] # NoSubscription =>
    \A r \in Receivers :
      receiver[table[c]] = r <=> [receiver |-> r, channel |-> c] \in watched

\* What is on its way holds one outcome if the first statement was executed, and
\* none otherwise.
Answering ==
  /\ executed => listens # <<>>
  /\ executed <=> Outcomes(socket) # {}
  /\ \A i, k \in Outcomes(socket) : i = k

\* A LISTEN under way is that of the entry of its channel, if there is one.
OwnListen ==
  \A i \in DOMAIN listens : listens[i].kind = "LISTEN" =>
    table[listens[i].channel] \in {listens[i].of, NoSubscription}

Closed == ~connected => table = None /\ listens = <<>>

\* The last statement under way for a channel in the table is a LISTEN.
IsLast(i) ==
  \A k \in DOMAIN listens : k > i => listens[k].channel # listens[i].channel

LastIsListen ==
  \A i \in DOMAIN listens :
    table[listens[i].channel] # NoSubscription /\ IsLast(i) => listens[i].kind = "LISTEN"

\* A LISTEN that was executed and not yet read back is in effect.
Executed ==
  executed /\ listens[1].kind = "LISTEN" /\ (\E i \in DOMAIN socket : socket[i] = "ok")
    => listens[1].channel \in listening

Tables == Watched /\ OwnListen /\ LastIsListen
Wire == Answering /\ Closed /\ Executed

ListenInv ==
  /\ ListenTypeOK /\ table = subscribed
  /\ SubscriptionListens /\ CallbackHeld /\ Tables /\ Wire

-----------------------------------------------------------------------------
(***************************************************************************)
(* Sequences.                                                              *)
(***************************************************************************)

LEMMA Indices ==
  ASSUME NEW S, NEW s \in Seq(S)
  PROVE  /\ Len(s) \in Nat /\ DOMAIN s = 1 .. Len(s)
         /\ \A i \in DOMAIN s : s[i] \in S
         /\ s # <<>> => Len(s) >= 1 /\ Head(s) = s[1]
  <1>1. Len(s) \in Nat /\ DOMAIN s = 1 .. Len(s) /\ \A i \in DOMAIN s : s[i] \in S
    BY LenProperties, ElementOfSeq
  <1>2. s # <<>> => Len(s) >= 1
    BY <1>1, EmptySeq
  <1>3. s # <<>> => Head(s) = s[1]
    BY <1>1, <1>2
  <1> QED
    BY <1>1, <1>2, <1>3

\* What the handler reads and what it leaves.
LEMMA Parts ==
  ASSUME NEW S, NEW s \in Seq(S), NEW n \in 1 .. Len(s)
  PROVE  /\ SubSeq(s, 1, n) \in Seq(S) /\ DOMAIN SubSeq(s, 1, n) = 1 .. n
         /\ \A i \in 1 .. n : SubSeq(s, 1, n)[i] = s[i]
         /\ SubSeq(s, n + 1, Len(s)) \in Seq(S)
         /\ DOMAIN SubSeq(s, n + 1, Len(s)) = 1 .. (Len(s) - n)
         /\ \A i \in 1 .. (Len(s) - n) : SubSeq(s, n + 1, Len(s))[i] = s[n + i]
  <1>1. Len(s) \in Nat /\ \A i \in 1 .. Len(s) : s[i] \in S
    BY Indices
  <1>2. /\ SubSeq(s, 1, n) \in Seq(S) /\ Len(SubSeq(s, 1, n)) = n
        /\ \A i \in 1 .. n : SubSeq(s, 1, n)[i] = s[i]
    BY <1>1, SubSeqProperties
  <1>3. /\ SubSeq(s, n + 1, Len(s)) \in Seq(S)
        /\ Len(SubSeq(s, n + 1, Len(s))) = Len(s) - n
        /\ \A i \in 1 .. (Len(s) - n) : SubSeq(s, n + 1, Len(s))[i] = s[n + i]
    <2>1. \A i \in n + 1 .. Len(s) : s[i] \in S
      BY <1>1
    <2> QED
      BY <1>1, <2>1, SubSeqProperties
  <1> QED
    BY <1>2, <1>3, Indices

\* All but the outcome of what the handler has read are notifications.
LEMMA WithoutOutcome ==
  ASSUME NEW S, NEW C, NEW s \in Seq(S), NEW i \in 1 .. Len(s),
         \A k \in 1 .. Len(s) : k # i => s[k] \in C
  PROVE  RemoveAt(s, i) \in Seq(C)
  <1>1. Len(s) \in Nat
    BY LenProperties
  <1>2. SubSeq(s, 1, i - 1) \in Seq(C)
    BY <1>1, SubSeqProperties
  <1>3. SubSeq(s, i + 1, Len(s)) \in Seq(C)
    BY <1>1, SubSeqProperties
  <1> QED
    BY <1>2, <1>3, ConcatProperties DEF RemoveAt

\* The statements and messages of a state, by their indices.
LEMMA Numbered ==
  ASSUME ListenTypeOK
  PROVE  /\ Len(listens) \in Nat /\ DOMAIN listens = 1 .. Len(listens)
         /\ \A i \in DOMAIN listens :
              /\ listens[i] \in Statements /\ listens[i].channel \in Channels
              /\ listens[i].kind \in {"LISTEN", "UNLISTEN"} /\ listens[i].of \in Subscriptions
         /\ listens # <<>> => Len(listens) >= 1 /\ Head(listens) = listens[1]
         /\ Len(socket) \in Nat /\ DOMAIN socket = 1 .. Len(socket)
         /\ \A i \in DOMAIN socket : socket[i] \in Channels \cup {"ok", "failed"}
  <1>1. \A i \in DOMAIN listens : listens[i] \in Statements
    BY Indices DEF ListenTypeOK
  <1> QED
    BY <1>1, Indices DEF ListenTypeOK, Statements

-----------------------------------------------------------------------------
(***************************************************************************)
(* The invariant holds of every reachable state.                           *)
(***************************************************************************)

LEMMA ListenInitInv == ListenInit => ListenInv
  <1> SUFFICES ASSUME ListenInit PROVE ListenInv
    OBVIOUS
  <1> USE ListenAssumption DEF ListenInit
  <1>1. ListenTypeOK
    <2>1. /\ listens \in Seq(Statements) /\ notifies \in Seq(Channels)
          /\ socket \in Seq(Channels \cup {"ok", "failed"})
      BY EmptySeq
    <2>2. /\ table \in [Channels -> Subscriptions \cup {NoSubscription}]
          /\ receiver \in [Subscriptions -> Receivers \cup {NoReceiver}]
      BY DEF None
    <2> QED
      BY <2>1, <2>2 DEF ListenTypeOK
  <1>2. \A c \in Channels : table[c] = NoSubscription
    BY DEF None
  <1>3. DOMAIN listens = {} /\ DOMAIN socket = {}
    OBVIOUS
  <1>4. SubscriptionListens /\ CallbackHeld /\ Tables
    BY <1>2, <1>3 DEF SubscriptionListens, CallbackHeld, Tables, Watched, OwnListen, LastIsListen
  <1>5. Wire
    BY <1>2, <1>3 DEF Wire, Answering, Closed, Executed, Outcomes
  <1> QED
    BY <1>1, <1>4, <1>5 DEF ListenInv

\* A statement joins the queue: those under way keep their places.
LEMMA Joins ==
  ASSUME ListenTypeOK, NEW x \in Statements, listens' = Append(listens, x)
  PROVE  /\ listens' \in Seq(Statements) /\ Len(listens') = Len(listens) + 1
         /\ DOMAIN listens' = 1 .. (Len(listens) + 1)
         /\ \A i \in DOMAIN listens : listens'[i] = listens[i]
         /\ listens'[Len(listens) + 1] = x /\ listens' # <<>>
  <1>1. /\ listens' \in Seq(Statements) /\ Len(listens') = Len(listens) + 1
        /\ \A i \in 1 .. Len(listens) : listens'[i] = listens[i]
        /\ listens'[Len(listens) + 1] = x /\ listens' # <<>>
    <2>1. listens \in Seq(Statements)
      BY DEF ListenTypeOK
    <2>2. /\ listens' \in Seq(Statements) /\ Len(listens') = Len(listens) + 1
          /\ \A i \in 1 .. Len(listens) : listens'[i] = listens[i]
          /\ listens'[Len(listens) + 1] = x
      BY <2>1, AppendProperties
    <2>3. listens' # <<>>
      BY <2>1, <2>2, LenProperties, EmptySeq
    <2> QED
      BY <2>2, <2>3
  <1> QED
    BY <1>1, Numbered, LenProperties

LEMMA SubscribeStep ==
  ASSUME Careful, ListenInv, NEW c \in Channels, NEW s \in Subscriptions,
         NEW r \in Receivers \cup {NoReceiver}, Subscribe(c, s, r)
  PROVE  ListenInv'
  <1> USE ListenAssumption
  <1>1. ListenTypeOK /\ table = subscribed
    BY DEF ListenInv
  <1>2. /\ UNCHANGED <<connected, listening, executed, socket, notifies, calling, alive>>
        /\ receiver' = [receiver EXCEPT ![s] = r]
        /\ watched' = IF r = NoReceiver THEN watched
                      ELSE watched \cup {[receiver |-> r, channel |-> c]}
        /\ s # table[c] /\ table[c] = NoSubscription
        /\ \A x \in Channels : table[x] # s
        /\ \A w \in watched : w.channel = c => w.receiver = r
        /\ \A i \in DOMAIN listens : listens[i].kind = "LISTEN" => listens[i].channel # c
    BY DEF Subscribe, link, delivery, Careful, Unused
  <1> DEFINE Sent == /\ connected
                     /\ table' = [table EXCEPT ![c] = s]
                     /\ subscribed' = [subscribed EXCEPT ![c] = s]
                     /\ listens' = Append(listens, Statement("LISTEN", c, s))
  <1>3. CASE Sent
    <2>1. /\ table' = [table EXCEPT ![c] = s] /\ subscribed' = [subscribed EXCEPT ![c] = s]
          /\ listens' = Append(listens, Statement("LISTEN", c, s))
      BY <1>3
    <2>2. Statement("LISTEN", c, s) \in Statements
      BY DEF Statement, Statements
    <2>3. /\ listens' \in Seq(Statements) /\ Len(listens') = Len(listens) + 1
          /\ DOMAIN listens' = 1 .. (Len(listens) + 1)
          /\ \A i \in DOMAIN listens : listens'[i] = listens[i]
          /\ listens'[Len(listens) + 1] = Statement("LISTEN", c, s) /\ listens' # <<>>
      BY <1>1, <2>1, <2>2, Joins
    <2>4. /\ table'[c] = s /\ s # NoSubscription
          /\ \A x \in Channels : x # c => table'[x] = table[x]
      BY <1>1, <2>1 DEF ListenTypeOK
    <2>5. ListenTypeOK'
      BY <1>1, <1>2, <2>1, <2>3 DEF ListenTypeOK
    <2>6. SubscriptionListens'
      <3> SUFFICES ASSUME NEW x \in Channels, connected', table'[x] # NoSubscription,
                          \A i \in DOMAIN listens' : listens'[i].channel # x
                   PROVE  x \in listening'
        BY DEF SubscriptionListens
      <3>1. x # c
        BY <1>1, <2>3, Numbered DEF Statement
      <3>2. \A i \in DOMAIN listens : listens[i].channel # x
        BY <1>1, <2>3, Numbered
      <3> QED
        BY <1>2, <1>3, <2>4, <3>1, <3>2 DEF ListenInv, SubscriptionListens
    <2>7. CallbackHeld'
      <3>1. ASSUME NEW x \in Channels, table[x] = calling, calling # NoSubscription
            PROVE  table'[x] = calling
        BY <3>1, <1>2, <2>4
      <3> QED
        BY <1>2, <3>1 DEF ListenInv, CallbackHeld
    <2>8. Watched'
      <3> SUFFICES ASSUME NEW x \in Channels, table'[x] # NoSubscription, NEW q \in Receivers
                   PROVE  receiver'[table'[x]] = q <=> [receiver |-> q, channel |-> x] \in watched'
        BY DEF Watched
      <3>1. CASE x = c
        <4>1. receiver'[table'[x]] = r
          BY <1>1, <1>2, <2>4, <3>1 DEF ListenTypeOK
        <4>2. [receiver |-> q, channel |-> c] \in watched => q = r
          BY <1>2
        <4> QED
          BY <1>2, <3>1, <4>1, <4>2
      <3>2. CASE x # c
        <4>1. receiver'[table'[x]] = receiver[table[x]] /\ table[x] # NoSubscription
          BY <1>1, <1>2, <2>4, <3>2 DEF ListenTypeOK
        <4>2. [receiver |-> q, channel |-> x] \in watched'
                <=> [receiver |-> q, channel |-> x] \in watched
          BY <1>2, <3>2
        <4> QED
          BY <4>1, <4>2 DEF ListenInv, Tables, Watched
      <3> QED
        BY <3>1, <3>2
    <2>9. OwnListen'
      <3> SUFFICES ASSUME NEW i \in DOMAIN listens', listens'[i].kind = "LISTEN"
                   PROVE  table'[listens'[i].channel] \in {listens'[i].of, NoSubscription}
        BY DEF OwnListen
      <3>1. CASE i = Len(listens) + 1
        BY <2>3, <2>4, <3>1 DEF Statement
      <3>2. CASE i # Len(listens) + 1
        <4>1. i \in DOMAIN listens
          BY <1>1, <2>3, <3>2, Numbered
        <4> QED
          BY <1>1, <1>2, <2>3, <2>4, <4>1, Numbered DEF ListenInv, Tables, OwnListen
      <3> QED
        BY <3>1, <3>2
    <2>10. LastIsListen'
      <3> SUFFICES ASSUME NEW i \in DOMAIN listens',
                          table'[listens'[i].channel] # NoSubscription, IsLast(i)'
                   PROVE  listens'[i].kind = "LISTEN"
        BY DEF LastIsListen
      <3>1. CASE i = Len(listens) + 1
        BY <2>3, <3>1 DEF Statement
      <3>2. CASE i # Len(listens) + 1
        <4>1. i \in DOMAIN listens /\ listens'[i] = listens[i] /\ listens[i].channel \in Channels
          BY <1>1, <2>3, <3>2, Numbered
        <4>2. Len(listens) + 1 > i /\ Len(listens) + 1 \in DOMAIN listens'
          BY <1>1, <2>3, <4>1, Numbered
        <4>3. listens[i].channel # c
          BY <2>3, <4>1, <4>2 DEF IsLast, Statement
        <4>4. IsLast(i)
          BY <1>1, <2>3, <4>1, Numbered DEF IsLast
        <4> QED
          BY <2>4, <4>1, <4>3, <4>4 DEF ListenInv, Tables, LastIsListen
      <3> QED
        BY <3>1, <3>2
    <2>11. Wire'
      <3>1. executed => listens # <<>> /\ listens'[1] = listens[1]
        BY <1>1, <2>3, Numbered DEF ListenInv, Wire, Answering
      <3> QED
        BY <1>2, <1>3, <2>3, <3>1 DEF ListenInv, Wire, Answering, Closed, Executed, Outcomes
    <2> QED
      BY <1>1, <2>1, <2>5, <2>6, <2>7, <2>8, <2>9, <2>10, <2>11 DEF ListenInv, Tables
  <1>4. CASE UNCHANGED <<table, subscribed, listens>>
    <2>1. ListenTypeOK'
      BY <1>1, <1>2, <1>4 DEF ListenTypeOK
    <2>2. SubscriptionListens' /\ CallbackHeld' /\ Wire'
      BY <1>2, <1>4 DEF ListenInv, SubscriptionListens, CallbackHeld, Wire, Answering, Closed,
           Executed, Outcomes
    <2>3. Watched'
      <3> SUFFICES ASSUME NEW x \in Channels, table[x] # NoSubscription, NEW q \in Receivers
                   PROVE  receiver'[table[x]] = q <=> [receiver |-> q, channel |-> x] \in watched'
        BY <1>4 DEF Watched
      <3>1. x # c /\ table[x] # s /\ table[x] \in Subscriptions
        BY <1>1, <1>2 DEF ListenTypeOK
      <3>2. receiver'[table[x]] = receiver[table[x]]
        BY <1>1, <1>2, <3>1 DEF ListenTypeOK
      <3>3. [receiver |-> q, channel |-> x] \in watched' <=> [receiver |-> q, channel |-> x] \in watched
        BY <1>2, <3>1
      <3> QED
        BY <3>2, <3>3 DEF ListenInv, Tables, Watched
    <2>4. OwnListen' /\ LastIsListen'
      BY <1>4 DEF ListenInv, Tables, OwnListen, LastIsListen, IsLast
    <2> QED
      BY <1>1, <1>4, <2>1, <2>2, <2>3, <2>4 DEF ListenInv, Tables
  <1>5. Sent \/ UNCHANGED <<table, subscribed, listens>>
    BY DEF Subscribe
  <1> QED
    BY <1>3, <1>4, <1>5

LEMMA UnsubscribeSent ==
  ASSUME Careful, ListenInv, NEW c \in Channels, Unsubscribe(c),
         listens' = Append(listens, Statement("UNLISTEN", c, table[c]))
  PROVE  ListenInv'
  <1> USE ListenAssumption
  <1>1. ListenTypeOK /\ table = subscribed
    BY DEF ListenInv
  <1>2. connected
    BY DEF ListenInv, Wire, Closed, None, Unsubscribe
  <1>3. /\ UNCHANGED <<connected, listening, executed, socket, notifies, calling, alive>>
        /\ UNCHANGED <<receiver, watched>>
        /\ table' = [table EXCEPT ![c] = NoSubscription]
        /\ subscribed' = [subscribed EXCEPT ![c] = NoSubscription]
        /\ listens' = Append(listens, Statement("UNLISTEN", c, table[c]))
        /\ calling = NoSubscription \/ table[c] # calling
    BY <1>2 DEF Unsubscribe, link, delivery, Careful, MayEnd
  <1>4. Statement("UNLISTEN", c, table[c]) \in Statements
    BY <1>1 DEF Statement, Statements, ListenTypeOK, Unsubscribe
  <1>5. /\ listens' \in Seq(Statements) /\ Len(listens') = Len(listens) + 1
        /\ DOMAIN listens' = 1 .. (Len(listens) + 1)
        /\ \A i \in DOMAIN listens : listens'[i] = listens[i]
        /\ listens'[Len(listens) + 1] = Statement("UNLISTEN", c, table[c]) /\ listens' # <<>>
    BY <1>1, <1>3, <1>4, Joins
  <1>6. /\ table'[c] = NoSubscription
        /\ \A x \in Channels : x # c => table'[x] = table[x]
    BY <1>1, <1>3 DEF ListenTypeOK
  <1>7. \A i \in DOMAIN listens : i \in DOMAIN listens' /\ listens[i].channel \in Channels
    BY <1>1, <1>5, Numbered
  <1>8. \A i \in DOMAIN listens' : i \in DOMAIN listens \/ i = Len(listens) + 1
    BY <1>1, <1>5, Numbered
  <1>9. ListenTypeOK'
    BY <1>1, <1>3, <1>5 DEF ListenTypeOK
  <1>10. SubscriptionListens'
    BY <1>3, <1>5, <1>6, <1>7 DEF ListenInv, SubscriptionListens
  <1>11. CallbackHeld'
    <2>1. ASSUME NEW x \in Channels, table[x] = calling, calling # NoSubscription
          PROVE  table'[x] = calling
      BY <2>1, <1>3, <1>6
    <2> QED
      BY <1>3, <2>1 DEF ListenInv, CallbackHeld
  <1>12. Watched'
    BY <1>3, <1>6 DEF ListenInv, Tables, Watched
  <1>13. OwnListen'
    <2> SUFFICES ASSUME NEW i \in DOMAIN listens', listens'[i].kind = "LISTEN"
                 PROVE  table'[listens'[i].channel] \in {listens'[i].of, NoSubscription}
      BY DEF OwnListen
    <2>1. i # Len(listens) + 1
      BY <1>5 DEF Statement
    <2> QED
      BY <1>5, <1>6, <1>7, <1>8, <2>1 DEF ListenInv, Tables, OwnListen
  <1>14. LastIsListen'
    <2> SUFFICES ASSUME NEW i \in DOMAIN listens',
                        table'[listens'[i].channel] # NoSubscription, IsLast(i)'
                 PROVE  listens'[i].kind = "LISTEN"
      BY DEF LastIsListen
    <2>1. i # Len(listens) + 1
      BY <1>5, <1>6 DEF Statement
    <2>2. i \in DOMAIN listens /\ listens'[i] = listens[i]
      BY <1>5, <1>8, <2>1
    <2>3. IsLast(i)
      BY <1>5, <1>7, <2>2 DEF IsLast
    <2> QED
      BY <1>6, <1>7, <2>2, <2>3 DEF ListenInv, Tables, LastIsListen
  <1>15. Wire'
    <2>1. executed => listens # <<>> /\ listens'[1] = listens[1]
      BY <1>1, <1>5, Numbered DEF ListenInv, Wire, Answering
    <2> QED
      BY <1>2, <1>3, <1>5, <2>1 DEF ListenInv, Wire, Answering, Closed, Executed, Outcomes
  <1> QED
    BY <1>1, <1>3, <1>9, <1>10, <1>11, <1>12, <1>13, <1>14, <1>15 DEF ListenInv, Tables

LEMMA UnsubscribeStep ==
  ASSUME Careful, ListenInv, NEW c \in Channels, Unsubscribe(c)
  PROVE  ListenInv'
  <1>1. CASE listens' = Append(listens, Statement("UNLISTEN", c, table[c]))
    BY <1>1, UnsubscribeSent
  <1>2. CASE UNCHANGED listens
    <2> USE ListenAssumption
    <2>1. ListenTypeOK /\ table = subscribed
      BY DEF ListenInv
    <2>2. /\ UNCHANGED <<connected, listening, executed, socket, notifies, calling, alive>>
          /\ UNCHANGED <<receiver, watched>>
          /\ table' = [table EXCEPT ![c] = NoSubscription]
          /\ subscribed' = [subscribed EXCEPT ![c] = NoSubscription]
          /\ calling = NoSubscription \/ table[c] # calling
      BY DEF Unsubscribe, link, delivery, Careful, MayEnd
    <2>3. /\ table'[c] = NoSubscription
          /\ \A x \in Channels : x # c => table'[x] = table[x]
      BY <2>1, <2>2 DEF ListenTypeOK
    <2>4. ListenTypeOK'
      BY <1>2, <2>1, <2>2 DEF ListenTypeOK
    <2>5. SubscriptionListens'
      BY <1>2, <2>2, <2>3 DEF ListenInv, SubscriptionListens
    <2>6. CallbackHeld'
      BY <2>2, <2>3 DEF ListenInv, CallbackHeld
    <2>7. Watched'
      BY <2>2, <2>3 DEF ListenInv, Tables, Watched
    <2>8. \A i \in DOMAIN listens : listens[i].channel \in Channels
      BY <2>1, Numbered
    <2>9. OwnListen'
      BY <1>2, <2>3, <2>8 DEF ListenInv, Tables, OwnListen
    <2>10. LastIsListen'
      BY <1>2, <2>3, <2>8 DEF ListenInv, Tables, LastIsListen, IsLast
    <2>11. Wire'
      <3>1. Closed'
        BY <1>2, <2>2, <2>3 DEF ListenInv, Wire, Closed, None, Unsubscribe
      <3> QED
        BY <1>2, <2>2, <3>1 DEF ListenInv, Wire, Answering, Executed, Outcomes
    <2> QED
      BY <2>1, <2>2, <2>4, <2>5, <2>6, <2>7, <2>9, <2>10, <2>11 DEF ListenInv, Tables
  <1> QED
    BY <1>1, <1>2 DEF Unsubscribe

LEMMA DestroyReceiverStep ==
  ASSUME Careful, ListenInv, NEW r \in Receivers, DestroyReceiver(r)
  PROVE  ListenInv'
  <1> USE ListenAssumption
  <1>1. ListenTypeOK /\ table = subscribed /\ Watched
    BY DEF ListenInv, Tables
  <1>2. /\ UNCHANGED <<connected, listening, executed, socket, notifies, calling>>
        /\ UNCHANGED <<receiver, listens>> /\ alive' = alive \ {r}
        /\ watched' = {w \in watched : w.receiver # r}
        /\ \A c \in Channels : [receiver |-> r, channel |-> c] \in watched =>
             calling = NoSubscription \/ table[c] # calling
    BY DEF DestroyReceiver, link, delivery, Careful, MayEnd
  <1>3. \A c \in Channels : table'[c] =
          IF [receiver |-> r, channel |-> c] \in watched THEN NoSubscription ELSE table[c]
    BY DEF DestroyReceiver, Forget
  <1>4. table' = subscribed'
    <2>1. \A c \in Channels : subscribed'[c] = table'[c]
      BY <1>1, <1>3 DEF DestroyReceiver, Watched
    <2>2. table' = [c \in Channels |-> table'[c]]
      BY DEF DestroyReceiver, Forget
    <2>3. subscribed' = [c \in Channels |-> subscribed'[c]]
      BY DEF DestroyReceiver
    <2> QED
      BY <2>1, <2>2, <2>3
  <1>5. ListenTypeOK'
    <2>1. table' \in [Channels -> Subscriptions \cup {NoSubscription}]
      BY <1>1 DEF ListenTypeOK, DestroyReceiver, Forget
    <2> QED
      BY <1>1, <1>2, <1>4, <2>1 DEF ListenTypeOK
  <1>6. SubscriptionListens' /\ Wire'
    <2>1. table = None => table' = None
      BY DEF None, DestroyReceiver, Forget
    <2> QED
      BY <1>2, <1>3, <2>1 DEF ListenInv, SubscriptionListens, Wire, Answering, Closed, Executed,
           Outcomes, None
  <1>7. CallbackHeld'
    <2>1. ASSUME NEW x \in Channels, table[x] = calling, calling # NoSubscription
          PROVE  table'[x] = calling
      BY <2>1, <1>2, <1>3
    <2> QED
      BY <1>2, <2>1 DEF ListenInv, CallbackHeld
  <1>8. Watched'
    <2> SUFFICES ASSUME NEW c \in Channels, table'[c] # NoSubscription, NEW q \in Receivers
                 PROVE  receiver'[table'[c]] = q <=> [receiver |-> q, channel |-> c] \in watched'
      BY DEF Watched
    <2>1. table'[c] = table[c] /\ [receiver |-> r, channel |-> c] \notin watched
      BY <1>3
    <2>2. [receiver |-> q, channel |-> c] \in watched'
            <=> q # r /\ [receiver |-> q, channel |-> c] \in watched
      BY <1>2
    <2> QED
      BY <1>1, <1>2, <2>1, <2>2 DEF Watched
  <1>9. OwnListen' /\ LastIsListen'
    <2>1. \A i \in DOMAIN listens : listens[i].channel \in Channels
      BY <1>1, Numbered
    <2> QED
      BY <1>2, <1>3, <2>1 DEF ListenInv, Tables, OwnListen, LastIsListen, IsLast
  <1> QED
    BY <1>4, <1>5, <1>6, <1>7, <1>8, <1>9 DEF ListenInv, Tables

LEMMA ServerExecutesStep ==
  ASSUME ListenInv, ServerExecutes
  PROVE  ListenInv'
  <1> USE ListenAssumption
  <1>1. ListenTypeOK /\ Outcomes(socket) = {} /\ connected /\ listens # <<>> /\ executed'
    BY DEF ListenInv, Wire, Answering, ServerExecutes
  <1>2. /\ UNCHANGED <<connected, table, receiver, watched, alive, listens, subscribed>>
        /\ UNCHANGED <<notifies, calling>>
    BY DEF ServerExecutes, delivery
  <1>3. PICK x \in {"ok", "failed"} :
          /\ socket' = Append(socket, x)
          /\ listening' = IF x = "failed" THEN listening
                          ELSE IF Head(listens).kind = "LISTEN"
                                 THEN listening \cup {Head(listens).channel}
                                 ELSE listening \ {Head(listens).channel}
    <2>1. "ok" # "failed"
      OBVIOUS
    <2> QED
      BY <2>1 DEF ServerExecutes
  <1>4. /\ Len(listens) >= 1 /\ 1 \in DOMAIN listens /\ Head(listens) = listens[1]
        /\ listens[1].channel \in Channels /\ listens[1].kind \in {"LISTEN", "UNLISTEN"}
    BY <1>1, Numbered
  <1>5. /\ socket' \in Seq(Channels \cup {"ok", "failed"})
        /\ DOMAIN socket' = 1 .. (Len(socket) + 1) /\ Len(socket) \in Nat
        /\ \A i \in DOMAIN socket : socket'[i] = socket[i]
        /\ socket'[Len(socket) + 1] = x
    <2>1. /\ socket' \in Seq(Channels \cup {"ok", "failed"}) /\ Len(socket') = Len(socket) + 1
          /\ \A i \in 1 .. Len(socket) : socket'[i] = socket[i]
          /\ socket'[Len(socket) + 1] = x
      BY <1>1, <1>3, AppendProperties DEF ListenTypeOK
    <2> QED
      BY <1>1, <2>1, Numbered, LenProperties
  <1>6. Outcomes(socket') = {Len(socket) + 1}
    <2>1. ASSUME NEW i \in DOMAIN socket PROVE socket'[i] \in Channels
      BY <1>1, <1>5 DEF Outcomes
    <2>2. \A i \in DOMAIN socket' : i \in DOMAIN socket \/ i = Len(socket) + 1
      BY <1>1, <1>5, Numbered
    <2>3. Len(socket) + 1 \in DOMAIN socket' /\ x \notin Channels
      BY <1>5
    <2> QED
      BY <1>5, <2>1, <2>2, <2>3 DEF Outcomes
  <1>7. ListenTypeOK'
    <2>1. listening' \subseteq Channels
      BY <1>1, <1>3, <1>4 DEF ListenTypeOK
    <2> QED
      BY <1>1, <1>2, <1>5, <2>1 DEF ListenTypeOK
  <1>8. SubscriptionListens'
    BY <1>2, <1>3, <1>4 DEF ListenInv, SubscriptionListens
  <1>9. Answering' /\ Closed'
    BY <1>1, <1>2, <1>6 DEF ListenInv, Wire, Answering, Closed
  <1>10. Executed'
    <2>1. ASSUME NEW i \in DOMAIN socket', socket'[i] = "ok"
          PROVE  x = "ok"
      <3>1. i \in Outcomes(socket')
        BY <2>1 DEF Outcomes
      <3> QED
        BY <1>5, <1>6, <2>1, <3>1
    <2> QED
      BY <1>2, <1>3, <1>4, <2>1 DEF Executed
  <1>11. CallbackHeld' /\ Tables'
    BY <1>2 DEF ListenInv, CallbackHeld, Tables, Watched, OwnListen, LastIsListen, IsLast
  <1> QED
    BY <1>2, <1>7, <1>8, <1>9, <1>10, <1>11 DEF ListenInv, Wire

LEMMA ServerNotifiesStep ==
  ASSUME ListenInv, NEW c \in Channels, ServerNotifies(c)
  PROVE  ListenInv'
  <1> USE ListenAssumption
  <1>1. ListenTypeOK /\ socket' = Append(socket, c)
    BY DEF ListenInv, ServerNotifies
  <1>2. /\ UNCHANGED <<connected, table, receiver, watched, alive, listens, subscribed>>
        /\ UNCHANGED <<notifies, calling, listening, executed>>
    BY DEF ServerNotifies, delivery
  <1>3. /\ socket' \in Seq(Channels \cup {"ok", "failed"})
        /\ \A i \in DOMAIN socket : i \in DOMAIN socket' /\ socket'[i] = socket[i]
        /\ \A i \in DOMAIN socket' : i \in DOMAIN socket \/ socket'[i] = c
    <2>1. /\ socket' \in Seq(Channels \cup {"ok", "failed"}) /\ Len(socket') = Len(socket) + 1
          /\ \A i \in 1 .. Len(socket) : socket'[i] = socket[i]
          /\ socket'[Len(socket) + 1] = c
      BY <1>1, AppendProperties DEF ListenTypeOK
    <2>2. DOMAIN socket' = 1 .. (Len(socket) + 1)
      BY <2>1, LenProperties
    <2> QED
      BY <1>1, <2>1, <2>2, Numbered
  <1>4. ListenTypeOK'
    BY <1>1, <1>2, <1>3 DEF ListenTypeOK
  <1>5. Outcomes(socket') = Outcomes(socket)
    BY <1>3 DEF Outcomes
  <1>6. Executed'
    <2>1. \A i \in DOMAIN socket' : socket'[i] = "ok" => i \in DOMAIN socket /\ socket[i] = "ok"
      BY <1>3
    <2> QED
      BY <1>2, <2>1 DEF ListenInv, Wire, Executed
  <1> QED
    BY <1>2, <1>4, <1>5, <1>6 DEF ListenInv, SubscriptionListens, CallbackHeld, Tables, Watched,
         OwnListen, LastIsListen, IsLast, Wire, Answering, Closed

LEMMA ReadStep ==
  ASSUME ListenInv, NEW n \in 1 .. Len(socket), Read(n)
  PROVE  ListenInv'
  <1> USE ListenAssumption
  <1> DEFINE come == SubSeq(socket, 1, n)
  <1>1. /\ ListenTypeOK /\ table = subscribed /\ connected /\ calling = NoSubscription
        /\ UNCHANGED <<connected, listening, calling, receiver, watched, alive>>
    BY DEF ListenInv, CallbackHeld, Read
  <1>2. /\ come \in Seq(Channels \cup {"ok", "failed"}) /\ DOMAIN come = 1 .. n
        /\ \A i \in 1 .. n : come[i] = socket[i] /\ i \in DOMAIN socket
        /\ socket' \in Seq(Channels \cup {"ok", "failed"})
        /\ DOMAIN socket' = 1 .. (Len(socket) - n)
        /\ \A i \in DOMAIN socket' : socket'[i] = socket[n + i] /\ n + i \in DOMAIN socket
    <2>1. DOMAIN socket = 1 .. Len(socket) /\ Len(socket) \in Nat
      BY <1>1, Numbered
    <2>2. \A i \in 1 .. n : i \in DOMAIN socket
      BY <2>1
    <2>3. \A i \in 1 .. (Len(socket) - n) : n + i \in DOMAIN socket
      BY <2>1
    <2> QED
      BY <1>1, <2>2, <2>3, Parts DEF ListenTypeOK, Read
  <1>3. \A i \in DOMAIN socket' : i \in Outcomes(socket') <=> n + i \in Outcomes(socket)
    BY <1>2 DEF Outcomes
  <1>4. ReadNotifications(come) \/ \E i \in Outcomes(come) : ReadAnswer(come, i)
    BY DEF Read
  <1> HIDE DEF come
  <1>5. CASE ReadNotifications(come)
    <2>1. /\ UNCHANGED <<table, subscribed, listens, executed>>
          /\ notifies' = come /\ Outcomes(come) = {}
      BY <1>5 DEF ReadNotifications
    <2>2. come \in Seq(Channels)
      <3>1. \A i \in 1 .. Len(come) : come[i] \in Channels
        BY <1>2, <2>1, LenProperties DEF Outcomes
      <3>2. Len(come) \in Nat /\ come = [i \in 1 .. Len(come) |-> come[i]]
        BY <1>2, LenProperties
      <3> QED
        BY <3>1, <3>2, SeqDef
    <2>3. ListenTypeOK'
      BY <1>1, <1>2, <2>1, <2>2 DEF ListenTypeOK
    <2>4. Answering'
      <3>1. ASSUME NEW i \in Outcomes(socket)
            PROVE  \E k \in Outcomes(socket') : i = n + k
        <4>1. i \in DOMAIN socket /\ i \in 1 .. Len(socket) /\ Len(socket) \in Nat
          BY <1>1, Numbered DEF Outcomes
        <4>2. i \notin 1 .. n
          BY <1>2, <2>1 DEF Outcomes
        <4>3. i - n \in DOMAIN socket' /\ n + (i - n) = i
          BY <1>2, <4>1, <4>2
        <4> QED
          BY <1>3, <4>3
      <3>2. Outcomes(socket') \subseteq DOMAIN socket'
        BY DEF Outcomes
      <3>3. Outcomes(socket) # {} <=> Outcomes(socket') # {}
        BY <1>3, <3>1, <3>2
      <3>4. \A i, k \in Outcomes(socket') : n + i = n + k
        BY <1>3, <3>2 DEF ListenInv, Wire, Answering
      <3>5. \A i, k \in Outcomes(socket') : i = k
        BY <1>2, <3>2, <3>4
      <3> QED
        BY <2>1, <3>3, <3>5 DEF ListenInv, Wire, Answering
    <2>5. Executed'
      BY <1>1, <1>2, <2>1 DEF ListenInv, Wire, Executed
    <2> QED
      BY <1>1, <2>1, <2>3, <2>4, <2>5 DEF ListenInv, SubscriptionListens, CallbackHeld, Tables,
           Watched, OwnListen, LastIsListen, IsLast, Wire, Closed
  <1>6. ASSUME NEW i \in Outcomes(come), ReadAnswer(come, i)
        PROVE  ListenInv'
    <2>1. /\ notifies' = RemoveAt(come, i) /\ Answered(Head(listens), come[i])
          /\ listens' = Tail(listens) /\ executed' = FALSE
      BY <1>6 DEF ReadAnswer
    <2>2. /\ i \in 1 .. n /\ come[i] = socket[i] /\ i \in Outcomes(socket)
          /\ come[i] \in {"ok", "failed"}
      BY <1>2 DEF Outcomes
    <2>3. executed /\ listens # <<>> /\ \A k \in Outcomes(socket) : k = i
      BY <2>2 DEF ListenInv, Wire, Answering
    <2>4. /\ Len(listens) >= 1 /\ 1 \in DOMAIN listens /\ Head(listens) = listens[1]
          /\ listens[1].channel \in Channels /\ listens[1].kind \in {"LISTEN", "UNLISTEN"}
          /\ Len(listens) \in Nat /\ DOMAIN listens = 1 .. Len(listens)
          /\ \A k \in DOMAIN listens : listens[k].channel \in Channels
      BY <1>1, <2>3, Numbered
    <2>5. /\ listens' \in Seq(Statements) /\ DOMAIN listens' = 1 .. (Len(listens) - 1)
          /\ \A k \in DOMAIN listens' : listens'[k] = listens[k + 1] /\ k + 1 \in DOMAIN listens
      <3>1. /\ listens' \in Seq(Statements) /\ Len(listens') = Len(listens) - 1
            /\ \A k \in 1 .. Len(listens') : listens'[k] = listens[k + 1]
        BY <1>1, <2>1, <2>3, HeadTailProperties DEF ListenTypeOK
      <3> QED
        BY <2>4, <3>1, LenProperties
    <2> DEFINE dropped == listens[1].kind = "LISTEN" /\ come[i] = "failed"
    <2>6. /\ \A x \in Channels :
               table'[x] = IF dropped /\ x = listens[1].channel THEN NoSubscription ELSE table[x]
          /\ table' = subscribed'
          /\ table' \in [Channels -> Subscriptions \cup {NoSubscription}]
      <3>1. CASE dropped
        <4>1. table' = [table EXCEPT ![listens[1].channel] = NoSubscription]
          BY <2>1, <2>4, <3>1 DEF Answered
        <4>2. table[listens[1].channel] \in {listens[1].of, NoSubscription}
          BY <2>4, <3>1 DEF ListenInv, Tables, OwnListen
        <4>3. subscribed' = [table EXCEPT ![listens[1].channel] = NoSubscription]
          BY <1>1, <2>1, <2>4, <3>1, <4>2 DEF Answered, ListenTypeOK
        <4> QED
          BY <1>1, <2>4, <3>1, <4>1, <4>3 DEF ListenTypeOK
      <3>2. CASE ~dropped
        BY <1>1, <2>1, <2>4, <3>2 DEF Answered, ListenTypeOK
      <3> QED
        BY <3>1, <3>2
    <2>7. notifies' \in Seq(Channels)
      <3>1. \A k \in 1 .. Len(come) : k # i => come[k] \in Channels
        <4> SUFFICES ASSUME NEW k \in 1 .. Len(come), come[k] \notin Channels
                     PROVE  k = i
          OBVIOUS
        <4>1. k \in 1 .. n
          BY <1>2, LenProperties
        <4>2. k \in Outcomes(socket)
          BY <1>2, <4>1 DEF Outcomes
        <4> QED
          BY <2>3, <4>2
      <3>2. i \in 1 .. Len(come)
        BY <1>2, <2>2, LenProperties
      <3> QED
        BY <1>2, <2>1, <3>1, <3>2, WithoutOutcome
    <2>8. ListenTypeOK'
      BY <1>1, <1>2, <2>1, <2>5, <2>6, <2>7 DEF ListenTypeOK
    <2>9. Answering' /\ Closed' /\ Executed'
      <3>1. ASSUME NEW k \in Outcomes(socket') PROVE FALSE
        <4>1. k \in DOMAIN socket' /\ n + k \in Outcomes(socket)
          BY <1>3 DEF Outcomes
        <4>2. n + k = i
          BY <2>3, <4>1
        <4> QED
          BY <1>2, <2>2, <4>1, <4>2
      <3> QED
        BY <1>1, <2>1, <3>1 DEF Answering, Closed, Executed
    <2>10. SubscriptionListens'
      <3> SUFFICES ASSUME NEW x \in Channels, table'[x] # NoSubscription,
                          \A k \in DOMAIN listens' : listens'[k].channel # x
                   PROVE  x \in listening
        BY <1>1 DEF SubscriptionListens
      <3>1. table[x] # NoSubscription
        BY <2>6
      <3>2. ASSUME NEW k \in DOMAIN listens, k > 1 PROVE listens[k].channel # x
        <4>1. k - 1 \in DOMAIN listens' /\ (k - 1) + 1 = k
          BY <2>4, <2>5, <3>2
        <4> QED
          BY <2>5, <4>1
      <3>3. CASE listens[1].channel = x
        <4>1. IsLast(1)
          BY <3>2, <3>3 DEF IsLast
        <4>2. listens[1].kind = "LISTEN"
          BY <2>4, <3>1, <3>3, <4>1 DEF ListenInv, Tables, LastIsListen
        <4>3. socket[i] = "ok" /\ i \in DOMAIN socket
          BY <1>2, <2>2, <2>6, <3>3, <4>2
        <4> QED
          BY <2>3, <3>3, <4>2, <4>3 DEF ListenInv, Wire, Executed
      <3>4. CASE listens[1].channel # x
        <4>1. \A k \in DOMAIN listens : listens[k].channel # x
          BY <2>4, <3>2, <3>4
        <4> QED
          BY <1>1, <3>1, <4>1 DEF ListenInv, SubscriptionListens
      <3> QED
        BY <3>3, <3>4
    <2>11. CallbackHeld' /\ Watched'
      BY <1>1, <2>6 DEF ListenInv, CallbackHeld, Tables, Watched
    <2>12. OwnListen'
      BY <2>4, <2>5, <2>6 DEF ListenInv, Tables, OwnListen
    <2>13. LastIsListen'
      <3> SUFFICES ASSUME NEW k \in DOMAIN listens',
                          table'[listens'[k].channel] # NoSubscription, IsLast(k)'
                   PROVE  listens'[k].kind = "LISTEN"
        BY DEF LastIsListen
      <3>1. listens'[k] = listens[k + 1] /\ k + 1 \in DOMAIN listens
        BY <2>5
      <3>2. ASSUME NEW l \in DOMAIN listens, l > k + 1
            PROVE  listens[l].channel # listens[k + 1].channel
        <4>1. l - 1 \in DOMAIN listens' /\ l - 1 > k /\ (l - 1) + 1 = l
          BY <2>4, <2>5, <3>2
        <4>2. listens'[l - 1] = listens[l]
          BY <2>5, <4>1
        <4> QED
          BY <3>1, <4>1, <4>2 DEF IsLast
      <3>3. IsLast(k + 1)
        BY <3>2 DEF IsLast
      <3> QED
        BY <2>4, <2>6, <3>1, <3>3 DEF ListenInv, Tables, LastIsListen
    <2> QED
      BY <2>6, <2>8, <2>9, <2>10, <2>11, <2>12, <2>13 DEF ListenInv, Tables, Wire
  <1> QED
    BY <1>4, <1>5, <1>6

LEMMA HandlerStep ==
  ASSUME ListenInv, Notify \/ Return
  PROVE  ListenInv'
  <1> USE ListenAssumption
  <1>1. ListenTypeOK /\ notifies # <<>>
    BY DEF ListenInv, CallbackHeld, Notify, Return
  <1>2. /\ Head(notifies) \in Channels /\ Tail(notifies) \in Seq(Channels)
    BY <1>1, HeadTailProperties DEF ListenTypeOK
  <1>3. UNCHANGED <<link, table, receiver, watched, alive, listens, subscribed>>
    BY DEF Notify, Return
  <1>4. ListenTypeOK' /\ CallbackHeld'
    <2>1. CASE Notify /\ table[Head(notifies)] = NoSubscription
      BY <1>1, <1>2, <2>1 DEF Notify, ListenTypeOK, CallbackHeld, link
    <2>2. CASE Notify /\ table[Head(notifies)] # NoSubscription
      BY <1>1, <1>2, <2>2 DEF Notify, ListenTypeOK, CallbackHeld, link
    <2>3. CASE Return
      BY <1>1, <1>2, <2>3 DEF Return, ListenTypeOK, CallbackHeld, link
    <2> QED
      BY <2>1, <2>2, <2>3
  <1> QED
    BY <1>3, <1>4 DEF ListenInv, SubscriptionListens, Tables, Watched, OwnListen, LastIsListen,
         IsLast, Wire, Answering, Closed, Executed, link

LEMMA ConnectionStep ==
  ASSUME ListenInv, ConnectionLost \/ Reopen
  PROVE  ListenInv'
  <1> USE ListenAssumption
  <1>1. ListenTypeOK /\ table = subscribed
    BY DEF ListenInv
  <1>2. CASE ConnectionLost
    <2>1. /\ table' = None /\ subscribed' = None /\ listens' = <<>> /\ socket' = <<>>
          /\ executed' = FALSE /\ connected' = FALSE /\ listening' = {}
          /\ UNCHANGED <<notifies, calling, receiver, watched, alive>>
      BY <1>2 DEF ConnectionLost, delivery
    <2>2. calling = NoSubscription
      BY <1>2 DEF ConnectionLost, ListenInv, CallbackHeld
    <2>3. \A c \in Channels : None[c] = NoSubscription
      BY DEF None
    <2>4. DOMAIN listens' = {} /\ DOMAIN socket' = {}
      BY <2>1
    <2>5. ListenTypeOK'
      <3>1. listens' \in Seq(Statements) /\ socket' \in Seq(Channels \cup {"ok", "failed"})
        BY <2>1, EmptySeq
      <3>2. None \in [Channels -> Subscriptions \cup {NoSubscription}]
        BY DEF None
      <3> QED
        BY <1>1, <2>1, <3>1, <3>2 DEF ListenTypeOK
    <2>6. SubscriptionListens' /\ CallbackHeld' /\ Tables'
      BY <2>1, <2>2, <2>3, <2>4 DEF SubscriptionListens, CallbackHeld, Tables, Watched,
           OwnListen, LastIsListen
    <2>7. Wire'
      BY <2>1, <2>4 DEF Wire, Answering, Closed, Executed, Outcomes, None
    <2> QED
      BY <2>1, <2>5, <2>6, <2>7 DEF ListenInv
  <1>3. CASE Reopen
    <2>1. /\ \A c \in Channels : table[c] = NoSubscription
          /\ connected' = TRUE
          /\ UNCHANGED <<listening, executed, socket, notifies, calling, table, receiver>>
          /\ UNCHANGED <<watched, alive, listens, subscribed>>
      BY <1>3 DEF Reopen, delivery, ListenInv, Wire, Closed, None
    <2>2. ListenTypeOK' /\ SubscriptionListens'
      BY <1>1, <2>1 DEF ListenTypeOK, SubscriptionListens
    <2> QED
      BY <2>1, <2>2
         DEF ListenInv, CallbackHeld, Tables, Watched, OwnListen, LastIsListen, IsLast,
           Wire, Answering, Closed, Executed, Outcomes
  <1> QED
    BY <1>2, <1>3

LEMMA ListenStepInv ==
  ASSUME Careful, ListenInv, [ListenNext]_listenVars
  PROVE  ListenInv'
  <1>1. ASSUME NEW r \in Receivers, CreateReceiver(r)
        PROVE  ListenInv'
    BY <1>1
       DEF CreateReceiver, ListenInv, ListenTypeOK, SubscriptionListens, CallbackHeld, Tables,
           Watched,
         OwnListen, LastIsListen, IsLast, Wire, Answering, Closed, Executed, link, delivery
  <1>2. CASE UNCHANGED listenVars
    BY <1>2 DEF ListenInv, ListenTypeOK, SubscriptionListens, CallbackHeld, Tables, Watched,
         OwnListen, LastIsListen, IsLast, Wire, Answering, Closed, Executed, listenVars, link, delivery
  <1> QED
    BY <1>1, <1>2, SubscribeStep, UnsubscribeStep, DestroyReceiverStep, ServerExecutesStep,
       ServerNotifiesStep, ReadStep, HandlerStep, ConnectionStep DEF ListenNext

LEMMA ListenInductive ==
  ASSUME Careful
  PROVE  ListenSpec => []ListenInv
  BY ListenInitInv, ListenStepInv, PTL DEF ListenSpec

-----------------------------------------------------------------------------
\* As long as no other receiver of a channel lives on, no channel is subscribed to
\* again before its LISTEN is answered and no callback ends its own subscription, the
\* table of subscriptions is what the application asked for
\* (src/src/adriverpg.cpp:701-798), whatever fails, and however many channels,
\* subscriptions and receivers there are.
THEOREM SpecSubscriptionKept ==
  ASSUME Careful
  PROVE  ListenSpec => []SubscriptionKept
  <1>1. ListenInv => SubscriptionKept
    BY DEF ListenInv, CallbackHeld, SubscriptionKept
  <1> QED
    BY <1>1, ListenInductive, PTL

\* In the same circumstances the server listens to every channel in the table for which
\* nothing is under way (src/src/adriverpg.cpp:701-798).
THEOREM SpecSubscriptionListens ==
  ASSUME Careful
  PROVE  ListenSpec => []SubscriptionListens
  <1>1. ListenInv => SubscriptionListens
    BY DEF ListenInv
  <1> QED
    BY <1>1, ListenInductive, PTL
=============================================================================
