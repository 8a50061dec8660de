------------------------ MODULE ACoroExpected_proofs ------------------------
(***************************************************************************)
(* Proofs about ACoroExpected for any coroutines, objects and awaitables,  *)
(* under the circumstances of the passing run.                             *)
(***************************************************************************)
EXTENDS ACoroExpected, SequenceTheorems, TLAPS

Careful == ~DestroyPutOff /\ ~DestroyShared /\ ~ReceiverGoneFirst

-----------------------------------------------------------------------------
(***************************************************************************)
(* The inductive invariant.                                                *)
(***************************************************************************)

Call == [co : Coroutines, resumed : BOOLEAN]

Typed ==
  /\ frame \in [Coroutines -> {"none", "running", "suspended"}]
  /\ stack \in Seq(Call)
  /\ waits \in [Coroutines -> Awaitables \cup {None}]
  /\ guards \in [Coroutines -> SUBSET alive]
  /\ data \in [Awaitables -> Data \cup {Free}]
  /\ timers \in Seq(Coroutines)
  /\ alive \subseteq Objects

\* Each running coroutine is on the stack once.
Stacked ==
  /\ \A i \in DOMAIN stack : frame[stack[i].co] = "running"
  /\ \A c \in Coroutines : frame[c] = "running" => \E i \in DOMAIN stack : stack[i].co = c
  /\ \A i, k \in DOMAIN stack : stack[i].co = stack[k].co => i = k

\* An awaitable is done when everything was delivered.
Counted(d) ==
  /\ d.sent + d.toSend = IF d.kind = "multi" THEN MaxResults ELSE 1
  /\ d.status = "Done" <=> d.toSend = 0
  /\ d.shared => d.kind = "single"

\* One that will resume its coroutine belongs to it and goes with its receiver.
Connected(d) ==
  d.status = "Suspended" =>
    d.handle /\ d.held /\ d.receiver # Gone /\ (d.receiver \in Objects => d.connected)

\* What was cancelled before its coroutine waited has nothing more to come.
CancelledDone(d) ==
  d.receiver = Gone /\ d.held /\ d.kind # "multi" => d.toSend = 0

\* Of the results up to the last one, those after the one taken last are kept.
Follows(results, taken, last) ==
  /\ taken <= last /\ Len(results) = last - taken
  /\ \A i \in DOMAIN results : results[i] = taken + i

InOrder(d) ==
  d.kind = "multi" /\ d.receiver # Gone =>
    Follows(d.results, d.taken, d.sent)

Sound(d) == Counted(d) /\ Connected(d) /\ CancelledDone(d) /\ InOrder(d)

\* An awaitable that will resume its coroutine is what that waits for.
Handled ==
  \A w \in Used : data[w].status = "Suspended" =>
    waits[data[w].owner] = w /\ data[w].owner \notin ToSet(timers)

\* A coroutine waits for what it holds, until a result or a timer resumes it.
Waiting ==
  \A c \in Coroutines :
    /\ frame[c] = "suspended" <=> waits[c] # None
    /\ frame[c] = "suspended" =>
         /\ data[waits[c]] # Free
         /\ data[waits[c]].owner = c /\ data[waits[c]].held
         /\ c \in ToSet(timers) => Ready(data[waits[c]])
         /\ c \notin ToSet(timers) => data[waits[c]].status = "Suspended"

Timed ==
  /\ \A i \in DOMAIN timers : frame[timers[i]] = "suspended"
  /\ \A i, k \in DOMAIN timers : timers[i] = timers[k] => i = k

IInv ==
  /\ Typed /\ Stacked /\ Handled /\ Waiting /\ Timed
  /\ \A w \in Used : Sound(data[w])

-----------------------------------------------------------------------------
(***************************************************************************)
(* Sequences.                                                              *)
(***************************************************************************)

LEMMA Elements ==
  ASSUME NEW S, NEW s \in Seq(S)
  PROVE  /\ Len(s) \in Nat /\ DOMAIN s = 1 .. Len(s)
         /\ \A i \in DOMAIN s : s[i] \in S
         /\ \A x : x \in ToSet(s) <=> \E i \in DOMAIN s : s[i] = x
  <1>1. Len(s) \in Nat /\ DOMAIN s = 1 .. Len(s) /\ \A i \in DOMAIN s : s[i] \in S
    BY LenProperties, ElementOfSeq
  <1> QED
    BY <1>1 DEF ToSet

LEMMA Ends ==
  ASSUME NEW S, NEW s \in Seq(S), s # <<>>
  PROVE  /\ Len(s) >= 1 /\ Last(s) = s[Len(s)] /\ Head(s) = s[1]
         /\ Front(s) \in Seq(S) /\ DOMAIN Front(s) = 1 .. (Len(s) - 1)
         /\ \A i \in 1 .. (Len(s) - 1) : Front(s)[i] = s[i]
         /\ Tail(s) \in Seq(S) /\ Len(Tail(s)) = Len(s) - 1
         /\ DOMAIN Tail(s) = 1 .. (Len(s) - 1)
         /\ \A i \in 1 .. (Len(s) - 1) : Tail(s)[i] = s[i + 1]
  <1>1. Len(s) \in Nat /\ Len(s) >= 1 /\ \A i \in 1 .. Len(s) : s[i] \in S
    BY Elements, EmptySeq
  <1>2. Last(s) = s[Len(s)] /\ Head(s) = s[1]
    BY <1>1 DEF Last
  <1>3. /\ Front(s) \in Seq(S) /\ Len(Front(s)) = Len(s) - 1
        /\ \A i \in 1 .. (Len(s) - 1) : Front(s)[i] = s[i]
    <2>1. \A i \in 1 .. (Len(s) - 1) : s[i] \in S
      BY <1>1
    <2>2. /\ SubSeq(s, 1, Len(s) - 1) \in Seq(S)
          /\ Len(SubSeq(s, 1, Len(s) - 1)) = Len(s) - 1
          /\ \A i \in 1 .. (Len(s) - 1) : SubSeq(s, 1, Len(s) - 1)[i] = s[i]
      <3>1. CASE Len(s) = 1
        <4>1. 1 .. 0 = {}
          OBVIOUS
        <4> QED
          BY <1>1, <3>1, <4>1, SubSeqProperties
      <3>2. CASE Len(s) > 1
        <4>1. Len(s) - 1 \in 1 .. Len(s)
          BY <1>1, <3>2
        <4> QED
          BY <1>1, <2>1, <4>1, SubSeqProperties
      <3> QED
        BY <1>1, <3>1, <3>2
    <2> QED
      BY <2>2 DEF Front
  <1>4. /\ Tail(s) \in Seq(S) /\ Len(Tail(s)) = Len(s) - 1
        /\ \A i \in 1 .. (Len(s) - 1) : Tail(s)[i] = s[i + 1]
    BY <1>1, HeadTailProperties
  <1> QED
    BY <1>1, <1>2, <1>3, <1>4, Elements

LEMMA Appended ==
  ASSUME NEW S, NEW s \in Seq(S), NEW e \in S
  PROVE  /\ Append(s, e) \in Seq(S) /\ Len(Append(s, e)) = Len(s) + 1
         /\ DOMAIN Append(s, e) = 1 .. (Len(s) + 1)
         /\ \A i \in 1 .. Len(s) : Append(s, e)[i] = s[i]
         /\ Append(s, e)[Len(s) + 1] = e
         /\ \A x : x \in ToSet(Append(s, e)) <=> x = e \/ x \in ToSet(s)
  <1>1. /\ Append(s, e) \in Seq(S) /\ Len(Append(s, e)) = Len(s) + 1
        /\ \A i \in 1 .. Len(s) : Append(s, e)[i] = s[i]
        /\ Append(s, e)[Len(s) + 1] = e
    BY AppendProperties
  <1>2. Len(s) \in Nat
    BY Elements
  <1>3. DOMAIN Append(s, e) = 1 .. (Len(s) + 1)
    BY <1>1, Elements
  <1>4. \A x : x \in ToSet(Append(s, e)) <=> \E i \in 1 .. (Len(s) + 1) : Append(s, e)[i] = x
    <2> DEFINE t == Append(s, e)
    <2>1. t \in Seq(S)
      BY <1>1
    <2>2. DOMAIN t = 1 .. (Len(s) + 1)
      BY <1>3
    <2> HIDE DEF t
    <2>3. \A x : x \in ToSet(t) <=> \E i \in DOMAIN t : t[i] = x
      BY <2>1, Elements
    <2>4. \A x : x \in ToSet(t) <=> \E i \in 1 .. (Len(s) + 1) : t[i] = x
      BY <2>2, <2>3
    <2> QED
      BY <2>4 DEF t
  <1>5. \A x : x \in ToSet(s) <=> \E i \in 1 .. Len(s) : s[i] = x
    BY Elements
  <1>6. \A i \in 1 .. (Len(s) + 1) : i \in 1 .. Len(s) \/ i = Len(s) + 1
    BY <1>2
  <1>7. \A i \in 1 .. Len(s) : i \in 1 .. (Len(s) + 1)
    BY <1>2
  <1>8. Len(s) + 1 \in 1 .. (Len(s) + 1)
    BY <1>2
  <1> QED
    BY <1>1, <1>3, <1>4, <1>5, <1>6, <1>7, <1>8

LEMMA FollowsTail ==
  ASSUME NEW S, NEW r \in Seq(S), NEW t \in Nat, NEW n \in Nat, r # <<>>, Follows(r, t, n)
  PROVE  Follows(Tail(r), Head(r), n)
  <1>1. Len(r) \in Nat /\ Len(r) >= 1 /\ DOMAIN r = 1 .. Len(r)
    BY Elements, Ends
  <1>2. Head(r) = t + 1
    <2>1. 1 \in DOMAIN r
      BY <1>1
    <2> QED
      BY <2>1, Ends DEF Follows
  <1>3. /\ DOMAIN Tail(r) = 1 .. (Len(r) - 1) /\ Len(Tail(r)) = Len(r) - 1
        /\ \A i \in 1 .. (Len(r) - 1) : Tail(r)[i] = r[i + 1]
    BY Ends
  <1>4. ASSUME NEW i \in DOMAIN Tail(r)
        PROVE  Tail(r)[i] = (t + 1) + i
    <2>1. i \in 1 .. (Len(r) - 1) /\ i + 1 \in DOMAIN r
      BY <1>1, <1>3
    <2> QED
      BY <1>3, <2>1 DEF Follows
  <1> QED
    BY <1>1, <1>2, <1>3, <1>4 DEF Follows

LEMMA FollowsAppend ==
  ASSUME NEW r \in Seq(0 .. MaxResults), NEW t \in Nat, NEW n \in Nat,
         n + 1 <= MaxResults, Follows(r, t, n)
  PROVE  Follows(Append(r, n + 1), t, n + 1)
  <1>1. Len(r) \in Nat /\ DOMAIN r = 1 .. Len(r) /\ n + 1 \in 0 .. MaxResults
    BY ConstantsAssumption, Elements
  <1>2. /\ Len(Append(r, n + 1)) = Len(r) + 1 /\ DOMAIN Append(r, n + 1) = 1 .. (Len(r) + 1)
        /\ \A i \in 1 .. Len(r) : Append(r, n + 1)[i] = r[i]
        /\ Append(r, n + 1)[Len(r) + 1] = n + 1
    BY <1>1, Appended
  <1>3. ASSUME NEW i \in 1 .. (Len(r) + 1)
        PROVE  Append(r, n + 1)[i] = t + i
    <2>1. CASE i = Len(r) + 1
      BY <1>1, <1>2, <2>1 DEF Follows
    <2>2. CASE i # Len(r) + 1
      <3>1. i \in 1 .. Len(r)
        BY <1>1, <2>2
      <3> QED
        BY <1>1, <1>2, <3>1 DEF Follows
    <2> QED
      BY <2>1, <2>2
  <1> QED
    BY <1>1, <1>2, <1>3 DEF Follows

-----------------------------------------------------------------------------
(***************************************************************************)
(* Awaitables.                                                             *)
(***************************************************************************)

LEMMA DataFacts ==
  ASSUME NEW d \in Data
  PROVE  /\ d # Free
         /\ d.kind \in Kinds /\ d.owner \in Coroutines
         /\ d.held \in BOOLEAN /\ d.shared \in BOOLEAN
         /\ d.receiver \in Objects \cup {None, Gone}
         /\ d.results \in Seq(0 .. MaxResults)
         /\ d.sent \in Nat /\ d.toSend \in Nat /\ d.taken \in Nat
         /\ d.sent <= MaxResults /\ d.toSend <= MaxResults /\ d.taken <= MaxResults
  BY ConstantsAssumption DEF Data, Free, Kinds

\* What await_resume() leaves of an awaitable.
LEMMA TakenOK ==
  ASSUME NEW d \in Data
  PROVE  /\ Taken(d) \in Data
         /\ Taken(d).owner = d.owner /\ Taken(d).held = d.held
         /\ Taken(d).status = d.status
         /\ Sound(d) /\ d.status # "Suspended" => Sound(Taken(d))
  <1> DEFINE got == IF d.results = <<>> THEN d.taken ELSE Head(d.results)
             rest == IF d.results = <<>> THEN <<>> ELSE Tail(d.results)
  <1>1. /\ rest \in Seq(0 .. MaxResults) /\ got \in 0 .. MaxResults
        /\ d.results # <<>> =>
             /\ Len(d.results) >= 1 /\ got = d.results[1]
             /\ Len(rest) = Len(d.results) - 1
             /\ DOMAIN rest = 1 .. (Len(d.results) - 1)
             /\ \A i \in 1 .. (Len(d.results) - 1) : rest[i] = d.results[i + 1]
    <2>1. CASE d.results = <<>>
      BY <2>1, DataFacts, EmptySeq DEF Data
    <2>2. CASE d.results # <<>>
      <3> DEFINE r == d.results
      <3>1. r \in Seq(0 .. MaxResults) /\ r # <<>>
        BY <2>2, DataFacts
      <3> HIDE DEF r
      <3>2. /\ Len(r) >= 1 /\ Head(r) = r[1] /\ Tail(r) \in Seq(0 .. MaxResults)
            /\ Len(Tail(r)) = Len(r) - 1 /\ DOMAIN Tail(r) = 1 .. (Len(r) - 1)
            /\ \A i \in 1 .. (Len(r) - 1) : Tail(r)[i] = r[i + 1]
        BY <3>1, Ends
      <3>3. r[1] \in 0 .. MaxResults
        <4>1. Len(r) \in Nat /\ DOMAIN r = 1 .. Len(r) /\ \A i \in DOMAIN r : r[i] \in 0 .. MaxResults
          BY <3>1, Elements
        <4>2. 1 \in DOMAIN r
          BY <3>2, <4>1
        <4> QED
          BY <4>1, <4>2
      <3>4. got = Head(r) /\ rest = Tail(r)
        BY <2>2 DEF r
      <3> QED
        BY <3>2, <3>3, <3>4 DEF r
    <2> QED
      BY <2>1, <2>2
  <1> HIDE DEF got, rest
  <1>2. Taken(d) = IF d.kind = "open"
                     THEN [d EXCEPT !.taken = got, !.results = rest, !.handle = FALSE]
                     ELSE [d EXCEPT !.taken = got, !.results = rest]
    BY DEF Taken, got, rest
  <1>3. /\ Taken(d) \in Data
        /\ Taken(d).taken = got /\ Taken(d).results = rest
        /\ Taken(d).kind = d.kind /\ Taken(d).owner = d.owner /\ Taken(d).held = d.held
        /\ Taken(d).shared = d.shared /\ Taken(d).receiver = d.receiver
        /\ Taken(d).connected = d.connected /\ Taken(d).status = d.status
        /\ Taken(d).sent = d.sent /\ Taken(d).toSend = d.toSend
    <2>1. CASE d.kind = "open"
      <3>1. Taken(d) = [d EXCEPT !.taken = got, !.results = rest, !.handle = FALSE]
        BY <1>2, <2>1
      <3> QED
        BY <1>1, <3>1 DEF Data
    <2>2. CASE d.kind # "open"
      <3>1. Taken(d) = [d EXCEPT !.taken = got, !.results = rest]
        BY <1>2, <2>2
      <3> QED
        BY <1>1, <3>1 DEF Data
    <2> QED
      BY <2>1, <2>2
  <1>4. ASSUME Sound(d), d.status # "Suspended"
        PROVE  Sound(Taken(d))
    <2>1. Counted(Taken(d)) /\ Connected(Taken(d)) /\ CancelledDone(Taken(d))
      BY <1>3, <1>4 DEF Sound, Counted, Connected, CancelledDone
    <2>2. InOrder(Taken(d))
      <3>1. CASE d.results = <<>>
        <4>1. got = d.taken /\ rest = d.results
          BY <3>1 DEF got, rest
        <4> QED
          BY <1>3, <1>4, <4>1 DEF Sound, InOrder
      <3>2. CASE d.results # <<>>
        <4>1. d.taken \in Nat /\ d.sent \in Nat /\ Len(d.results) \in Nat
              /\ DOMAIN d.results = 1 .. Len(d.results)
          BY DataFacts, Elements
        <4>2. ASSUME d.kind = "multi", d.receiver # Gone
              PROVE  Follows(rest, got, d.sent)
          <5>1. Follows(d.results, d.taken, d.sent) /\ d.results \in Seq(0 .. MaxResults)
            BY <1>4, <4>2, DataFacts DEF Sound, InOrder
          <5>2. got = Head(d.results) /\ rest = Tail(d.results)
            BY <3>2 DEF got, rest
          <5> QED
            BY <3>2, <4>1, <5>1, <5>2, FollowsTail
        <4> QED
          BY <1>3, <4>2 DEF InOrder
      <3> QED
        BY <3>1, <3>2
    <2> QED
      BY <2>1, <2>2 DEF Sound
  <1> QED
    BY <1>3, <1>4

LEMMA DroppedOK ==
  ASSUME NEW d \in Data, Sound(d), d.status # "Suspended"
  PROVE  /\ Dropped(d) \in Data \cup {Free}
         /\ Dropped(d) # Free => Sound(Dropped(d)) /\ Dropped(d).status # "Suspended"
  <1>1. CASE d.shared /\ d.toSend > 0
    <2> DEFINE e == [d EXCEPT !.held = FALSE, !.connected = FALSE]
    <2>1. /\ Dropped(d) = e /\ e \in Data
          /\ e.kind = d.kind /\ e.shared = d.shared /\ e.receiver = d.receiver
          /\ e.status = d.status /\ e.sent = d.sent /\ e.toSend = d.toSend
          /\ e.taken = d.taken /\ e.results = d.results /\ e.held = FALSE
      BY <1>1 DEF Dropped, Data
    <2> HIDE DEF e
    <2> QED
      BY <2>1 DEF Sound, Counted, Connected, CancelledDone, InOrder
  <1>2. CASE ~(d.shared /\ d.toSend > 0)
    BY <1>2 DEF Dropped
  <1> QED
    BY <1>1, <1>2

\* An awaitable after one more delivery.
Answered(d) ==
  [d EXCEPT !.sent = @ + 1, !.toSend = @ - 1, !.results = Kept(d, d.sent + 1),
            !.status = StatusAfter(d, d.toSend = 1)]

LEMMA AnsweredOK ==
  ASSUME NEW d \in Data, Sound(d), d.toSend > 0, d.receiver # Gone
  PROVE  /\ Answered(d) \in Data /\ Sound(Answered(d))
         /\ Answered(d).owner = d.owner /\ Answered(d).held = d.held
         /\ Answered(d).status # "Suspended" /\ Ready(Answered(d))
  <1> DEFINE kept == Kept(d, d.sent + 1)
             status == StatusAfter(d, d.toSend = 1)
             e == Answered(d)
  <1>1. /\ d.sent \in Nat /\ d.toSend \in Nat /\ d.taken \in Nat
        /\ d.sent + 1 \in 0 .. MaxResults /\ d.toSend - 1 \in 0 .. MaxResults
        /\ d.results \in Seq(0 .. MaxResults)
    BY ConstantsAssumption, DataFacts DEF Sound, Counted
  <1>2. kept \in Seq(0 .. MaxResults) /\ kept # <<>>
    <2>1. CASE d.kind = "multi"
      <3>1. /\ kept = Append(d.results, d.sent + 1) /\ kept \in Seq(0 .. MaxResults)
            /\ Len(kept) = Len(d.results) + 1 /\ Len(d.results) \in Nat
        BY <1>1, <2>1, Appended, Elements DEF Kept
      <3> QED
        BY <3>1, EmptySeq
    <2>2. CASE d.kind # "multi"
      BY <1>1, <2>2 DEF Kept
    <2> QED
      BY <2>1, <2>2
  <1>3. /\ status \in {"Waiting", "Done"}
        /\ status = "Done" <=> d.kind # "multi" \/ d.toSend = 1
    BY DEF StatusAfter
  <1> HIDE DEF kept, status
  <1>4. e = [d EXCEPT !.sent = d.sent + 1, !.toSend = d.toSend - 1, !.results = kept,
                      !.status = status]
    BY DEF Answered, kept, status, Data
  <1>5. /\ e \in Data
        /\ e.sent = d.sent + 1 /\ e.toSend = d.toSend - 1 /\ e.results = kept
        /\ e.status = status /\ e.kind = d.kind /\ e.owner = d.owner /\ e.held = d.held
        /\ e.shared = d.shared /\ e.receiver = d.receiver /\ e.taken = d.taken
    BY <1>1, <1>2, <1>3, <1>4 DEF Data
  <1> HIDE DEF e
  <1>6. Counted(e) /\ Connected(e) /\ CancelledDone(e)
    <2>1. Counted(d) /\ CancelledDone(d)
      BY DEF Sound
    <2>2. e.sent + e.toSend = d.sent + d.toSend /\ (e.toSend = 0 <=> d.toSend = 1)
      BY <1>1, <1>5
    <2>3. d.kind # "multi" => d.toSend = 1
      BY <1>1, <2>1 DEF Counted
    <2>4. Counted(e)
      BY <1>3, <1>5, <2>1, <2>2, <2>3 DEF Counted
    <2>5. Connected(e)
      BY <1>3, <1>5 DEF Connected
    <2>6. CancelledDone(e)
      BY <1>5, <2>2, <2>3 DEF CancelledDone
    <2> QED
      BY <2>4, <2>5, <2>6
  <1>7. InOrder(e)
    <2>1. ASSUME d.kind = "multi", d.receiver # Gone
          PROVE  Follows(kept, d.taken, d.sent + 1)
      <3>1. Follows(d.results, d.taken, d.sent) /\ kept = Append(d.results, d.sent + 1)
        BY <2>1 DEF Sound, InOrder, Kept, kept
      <3> QED
        BY <1>1, <3>1, FollowsAppend
    <2> QED
      BY <1>5, <2>1 DEF InOrder
  <1>8. Ready(e)
    BY <1>2, <1>3, <1>5 DEF Ready
  <1> QED
    BY <1>3, <1>5, <1>6, <1>7, <1>8 DEF Sound, e

LEMMA CancelledOK ==
  ASSUME NEW d \in Data, Sound(d), NEW o \in Objects,
         d.receiver = o => d.status # "Suspended",
         d.receiver = o => d.held,
         d.receiver = o /\ d.kind # "multi" => d.toSend = 0
  PROVE  /\ Cancelled(d, o) \in Data /\ Sound(Cancelled(d, o))
         /\ Cancelled(d, o).owner = d.owner /\ Cancelled(d, o).held = d.held
         /\ Cancelled(d, o).status = d.status
         /\ Ready(d) => Ready(Cancelled(d, o))
  <1>1. CASE d.receiver # o
    BY <1>1, DataFacts DEF Cancelled
  <1>2. CASE d.receiver = o
    <2> DEFINE results == IF d.connected THEN <<Error>> ELSE d.results
               e == [d EXCEPT !.receiver = Gone, !.results = results]
    <2>1. results \in Seq(0 .. MaxResults) /\ (d.results # <<>> => results # <<>>)
      <3>1. Error \in 0 .. MaxResults
        BY ConstantsAssumption DEF Error
      <3>2. <<Error>> \in Seq(0 .. MaxResults) /\ <<Error>> # <<>>
        BY <3>1
      <3> QED
        BY <3>2, DataFacts
    <2>2. Cancelled(d, o) = e
      BY <1>2, DataFacts DEF Cancelled
    <2> HIDE DEF results
    <2>3. /\ e \in Data
          /\ e.receiver = Gone /\ e.results = results
          /\ e.status = d.status /\ e.kind = d.kind /\ e.owner = d.owner /\ e.held = d.held
          /\ e.shared = d.shared /\ e.sent = d.sent /\ e.toSend = d.toSend
      BY <2>1 DEF Data
    <2> HIDE DEF e
    <2>4. Sound(e)
      BY <1>2, <2>3 DEF Sound, Counted, Connected, CancelledDone, InOrder
    <2>5. Ready(d) => Ready(e)
      BY <2>1, <2>3 DEF Ready
    <2> QED
      BY <2>2, <2>3, <2>4, <2>5
  <1> QED
    BY <1>1, <1>2

-----------------------------------------------------------------------------
(***************************************************************************)
(* The invariant holds of every reachable state.                           *)
(***************************************************************************)

LEMMA InitIInv == Init => IInv
  <1> SUFFICES ASSUME Init PROVE IInv
    OBVIOUS
  <1> USE DEF Init
  <1>1. Typed
    BY DEF Typed
  <1>2. Stacked /\ Waiting /\ Timed
    BY DEF Stacked, Waiting, Timed
  <1>3. Used = {}
    BY DEF Used
  <1> QED
    BY <1>1, <1>2, <1>3 DEF IInv, Handled

\* A coroutine that runs waits for nothing and nothing will resume it.
LEMMA RunningFacts ==
  ASSUME IInv, NEW c \in Coroutines, Running(c)
  PROVE  /\ frame[c] = "running" /\ waits[c] = None /\ c \notin ToSet(timers)
         /\ stack # <<>> /\ stack \in Seq(Call)
         /\ \A w \in Used : data[w].owner = c => data[w].status # "Suspended"
         /\ \A x \in Coroutines : frame[x] = "suspended" =>
              waits[x] \in Used /\ data[waits[x]].owner # c
  <1>1. stack # <<>> /\ stack \in Seq(Call) /\ Last(stack).co = c
    BY DEF IInv, Typed, Running
  <1>2. Len(stack) \in DOMAIN stack /\ stack[Len(stack)].co = c
    <2>1. Len(stack) \in Nat /\ DOMAIN stack = 1 .. Len(stack)
      BY <1>1, Elements
    <2>2. Len(stack) >= 1 /\ Last(stack) = stack[Len(stack)]
      BY <1>1, Ends
    <2> QED
      BY <1>1, <2>1, <2>2
  <1>3. frame[c] = "running"
    BY <1>2 DEF IInv, Stacked
  <1>4. waits[c] = None
    BY <1>3 DEF IInv, Waiting
  <1>5. c \notin ToSet(timers)
    <2>1. timers \in Seq(Coroutines)
      BY DEF IInv, Typed
    <2> QED
      BY <1>3, <2>1, Elements DEF IInv, Timed
  <1>6. \A w \in Used : data[w].owner = c => data[w].status # "Suspended"
    <2>1. Used \subseteq Awaitables /\ None \notin Awaitables
      BY ConstantsAssumption DEF Used
    <2> QED
      BY <1>4, <2>1 DEF IInv, Handled
  <1>7. \A x \in Coroutines : frame[x] = "suspended" =>
          waits[x] \in Used /\ data[waits[x]].owner # c
    BY <1>3 DEF IInv, Waiting, Typed, Used
  <1> QED
    BY <1>1, <1>3, <1>4, <1>5, <1>6, <1>7

LEMMA UsedData ==
  ASSUME Typed, NEW w \in Used
  PROVE  w \in Awaitables /\ data[w] \in Data
  BY DEF Typed, Used

\* One awaitable changes and nobody is resumed.
LEMMA OneAwaitable ==
  ASSUME IInv, NEW w \in Awaitables, NEW e \in Data \cup {Free},
         data' = [data EXCEPT ![w] = e],
         UNCHANGED <<frame, stack, waits, guards, timers, alive>>,
         e # Free => Sound(e) /\ e.status # "Suspended",
         \A c \in Coroutines : frame[c] = "suspended" /\ waits[c] = w =>
           c \in ToSet(timers) /\ e # Free /\ e.owner = c /\ e.held /\ Ready(e)
  PROVE  IInv'
  <1>1. Typed' /\ data'[w] = e /\ \A v \in Awaitables \ {w} : data'[v] = data[v]
    BY DEF IInv, Typed
  <1>2. Stacked' /\ Timed'
    BY DEF IInv, Stacked, Timed
  <1>3. \A v \in Used' : v \in Awaitables /\ (v # w => v \in Used /\ data'[v] = data[v])
    BY <1>1 DEF Used
  <1>4. (\A v \in Used : Sound(data[v]))'
    <2>1. ASSUME NEW v \in Used' PROVE Sound(data'[v])
      BY <1>1, <1>3 DEF IInv, Used
    <2> QED
      BY <2>1 DEF Sound, Counted, Connected, CancelledDone, InOrder, Follows
  <1>5. Handled'
    BY <1>1, <1>3 DEF IInv, Handled, Used
  <1>6. Waiting'
    <2>1. ASSUME NEW c \in Coroutines, frame[c] = "suspended"
          PROVE  /\ data'[waits[c]] # Free
                 /\ data'[waits[c]].owner = c /\ data'[waits[c]].held
                 /\ c \in ToSet(timers) => Ready(data'[waits[c]])
                 /\ c \notin ToSet(timers) => data'[waits[c]].status = "Suspended"
      <3>1. waits[c] \in Awaitables
        BY <2>1 DEF IInv, Typed, Waiting
      <3>2. CASE waits[c] = w
        BY <1>1, <2>1, <3>2
      <3>3. CASE waits[c] # w
        BY <1>1, <2>1, <3>1, <3>3 DEF IInv, Waiting
      <3> QED
        BY <3>2, <3>3
    <2> QED
      BY <2>1 DEF IInv, Waiting, Ready
  <1> QED
    BY <1>1, <1>2, <1>4, <1>5, <1>6 DEF IInv

\* The stack with one more or one less.
LEMMA Pushes ==
  ASSUME Typed, Stacked, NEW c \in Coroutines, frame[c] # "running",
         NEW resumed \in BOOLEAN, stack' = Append(stack, [co |-> c, resumed |-> resumed]),
         frame' = [frame EXCEPT ![c] = "running"]
  PROVE  stack' \in Seq(Call) /\ Stacked'
  <1> DEFINE call == [co |-> c, resumed |-> resumed]
  <1>1. stack \in Seq(Call) /\ call \in Call /\ call.co = c
    BY DEF Typed, Call
  <1> HIDE DEF call
  <1>2. /\ stack' \in Seq(Call) /\ DOMAIN stack' = 1 .. (Len(stack) + 1)
        /\ \A i \in 1 .. Len(stack) : stack'[i] = stack[i]
        /\ stack'[Len(stack) + 1] = call
    BY <1>1, Appended DEF call
  <1>3. /\ Len(stack) \in Nat /\ DOMAIN stack = 1 .. Len(stack)
        /\ \A i \in DOMAIN stack : stack[i].co \in Coroutines
    <2>1. Len(stack) \in Nat /\ DOMAIN stack = 1 .. Len(stack) /\ \A i \in DOMAIN stack : stack[i] \in Call
      BY <1>1, Elements
    <2> QED
      BY <2>1 DEF Call
  <1>4. \A i \in DOMAIN stack' : i \in DOMAIN stack \/ i = Len(stack) + 1
    BY <1>2, <1>3
  <1>5. \A i \in DOMAIN stack : i \in DOMAIN stack' /\ stack[i].co # c
    BY <1>2, <1>3 DEF Stacked
  <1>6. Len(stack) + 1 \in DOMAIN stack'
    BY <1>2, <1>3
  <1>7. \A x \in Coroutines : frame'[x] = IF x = c THEN "running" ELSE frame[x]
    BY DEF Typed
  <1> QED
    BY <1>1, <1>2, <1>3, <1>4, <1>5, <1>6, <1>7 DEF Stacked

LEMMA Pops ==
  ASSUME Typed, Stacked, NEW c \in Coroutines, Running(c), stack' = Front(stack),
         NEW to \in {"none", "suspended"}, frame' = [frame EXCEPT ![c] = to]
  PROVE  stack' \in Seq(Call) /\ Stacked'
  <1>1. stack \in Seq(Call) /\ stack # <<>> /\ Last(stack).co = c
    BY DEF Typed, Running
  <1>2. /\ Len(stack) \in Nat /\ DOMAIN stack = 1 .. Len(stack)
        /\ \A i \in DOMAIN stack : stack[i].co \in Coroutines
    <2>1. Len(stack) \in Nat /\ DOMAIN stack = 1 .. Len(stack) /\ \A i \in DOMAIN stack : stack[i] \in Call
      BY <1>1, Elements
    <2> QED
      BY <2>1 DEF Call
  <1>3. /\ stack' \in Seq(Call) /\ DOMAIN stack' = 1 .. (Len(stack) - 1)
        /\ \A i \in 1 .. (Len(stack) - 1) : stack'[i] = stack[i]
        /\ Len(stack) >= 1 /\ Last(stack) = stack[Len(stack)]
    BY <1>1, Ends
  <1>4. stack[Len(stack)].co = c /\ Len(stack) \in DOMAIN stack
    BY <1>1, <1>2, <1>3
  <1>5. \A i \in DOMAIN stack' : i \in DOMAIN stack /\ i # Len(stack)
    BY <1>2, <1>3
  <1>6. \A i \in DOMAIN stack : i \in DOMAIN stack' \/ i = Len(stack)
    BY <1>2, <1>3
  <1>7. \A x \in Coroutines : frame'[x] = IF x = c THEN to ELSE frame[x]
    BY DEF Typed
  <1>8. \A i \in DOMAIN stack' : stack'[i] = stack[i] /\ stack[i].co # c
    BY <1>3, <1>4, <1>5 DEF Stacked
  <1> QED
    BY <1>2, <1>3, <1>4, <1>5, <1>6, <1>7, <1>8 DEF Stacked

\* A suspended coroutine goes on and takes what it waited for.
LEMMA Resumes ==
  ASSUME IInv, NEW c \in Coroutines, frame[c] = "suspended",
         NEW e \in Data, e.owner = c, Sound(e), e.status # "Suspended",
         stack' = Append(stack, [co |-> c, resumed |-> TRUE]),
         frame' = [frame EXCEPT ![c] = "running"],
         waits' = [waits EXCEPT ![c] = None],
         data' = [data EXCEPT ![waits[c]] = e],
         timers' \in Seq(Coroutines),
         \A x : x \in ToSet(timers') <=> x \in ToSet(timers) /\ x # c,
         \A i, k \in DOMAIN timers' : timers'[i] = timers'[k] => i = k,
         UNCHANGED <<guards, alive>>
  PROVE  IInv'
  <1> DEFINE w == waits[c]
  <1>1. w \in Awaitables /\ data[w] # Free /\ data[w].owner = c
    BY DEF IInv, Typed, Waiting
  <1>2. stack' \in Seq(Call) /\ Stacked'
    BY Pushes DEF IInv
  <1>3. Typed'
    BY <1>2 DEF IInv, Typed
  <1> HIDE DEF w
  <1>4. /\ data'[w] = e /\ \A v \in Awaitables \ {w} : data'[v] = data[v]
        /\ \A x \in Coroutines : /\ frame'[x] = IF x = c THEN "running" ELSE frame[x]
                                 /\ waits'[x] = IF x = c THEN None ELSE waits[x]
    BY <1>1 DEF IInv, Typed, w
  <1>5. \A v \in Used' : v \in Awaitables /\ (v # w => v \in Used /\ data'[v] = data[v])
    BY <1>4 DEF Used
  <1>6. (\A v \in Used : Sound(data[v]))'
    <2>1. ASSUME NEW v \in Used' PROVE Sound(data'[v])
      BY <1>4, <1>5 DEF IInv, Used
    <2> QED
      BY <2>1 DEF Sound, Counted, Connected, CancelledDone, InOrder, Follows
  <1>7. Handled'
    <2>1. ASSUME NEW v \in Used', data'[v].status = "Suspended"
          PROVE  waits'[data'[v].owner] = v /\ data'[v].owner \notin ToSet(timers')
      <3>1. v # w /\ v \in Used /\ data'[v] = data[v]
        BY <1>4, <1>5, <2>1
      <3>2. waits[data[v].owner] = v /\ data[v].owner \notin ToSet(timers)
            /\ data[v].owner \in Coroutines
        BY <2>1, <3>1, UsedData, DataFacts DEF IInv, Handled
      <3>3. data[v].owner # c
        BY <3>1, <3>2 DEF w
      <3> QED
        BY <1>4, <3>1, <3>2, <3>3
    <2> QED
      BY <2>1 DEF Handled
  <1>8. Waiting'
    <2>1. ASSUME NEW x \in Coroutines, x # c, frame[x] = "suspended"
          PROVE  waits[x] \in Awaitables /\ data'[waits[x]] = data[waits[x]]
      <3>1. waits[x] \in Awaitables /\ data[waits[x]].owner = x
        BY <2>1 DEF IInv, Typed, Waiting
      <3>2. waits[x] # w
        BY <1>1, <2>1, <3>1
      <3> QED
        BY <1>4, <3>1, <3>2
    <2>2. ASSUME NEW x \in Coroutines, x # c, frame[x] = "suspended"
          PROVE  /\ data'[waits[x]] # Free
                 /\ data'[waits[x]].owner = x /\ data'[waits[x]].held
                 /\ x \in ToSet(timers') => Ready(data'[waits[x]])
                 /\ x \notin ToSet(timers') => data'[waits[x]].status = "Suspended"
      BY <2>1, <2>2 DEF IInv, Waiting
    <2>3. \A x \in Coroutines : frame'[x] = "suspended" <=> waits'[x] # None
      BY <1>4 DEF IInv, Waiting
    <2> QED
      BY <1>4, <2>2, <2>3 DEF Waiting, Ready
  <1>9. Timed'
    <2>1. timers \in Seq(Coroutines)
      BY DEF IInv, Typed
    <2>2. \A x \in ToSet(timers) : x \in Coroutines /\ frame[x] = "suspended"
      BY <2>1, Elements DEF IInv, Timed
    <2>3. \A i \in DOMAIN timers' : timers'[i] \in ToSet(timers) /\ timers'[i] # c
      BY Elements
    <2> QED
      BY <1>4, <2>2, <2>3 DEF Timed
  <1> QED
    BY <1>2, <1>3, <1>6, <1>7, <1>8, <1>9 DEF IInv

LEMMA StartStep ==
  ASSUME IInv, NEW c \in Coroutines, Start(c)
  PROVE  IInv'
  <1>1. /\ frame[c] = "none" /\ frame' = [frame EXCEPT ![c] = "running"]
        /\ UNCHANGED <<waits, guards, data, timers, alive>>
    BY DEF Start
  <1>2. stack' \in Seq(Call) /\ Stacked'
    BY <1>1, Pushes DEF Start, IInv
  <1>3. Typed'
    BY <1>1, <1>2 DEF IInv, Typed
  <1>4. \A x \in Coroutines : frame'[x] = IF x = c THEN "running" ELSE frame[x]
    BY <1>1 DEF IInv, Typed
  <1>5. Handled' /\ (\A w \in Used : Sound(data[w]))'
    BY <1>1 DEF IInv, Handled, Used, Sound, Counted, Connected, CancelledDone, InOrder, Follows
  <1>6. Waiting'
    BY <1>1, <1>4 DEF IInv, Waiting, Ready
  <1>7. Timed'
    <2>1. \A i \in DOMAIN timers : timers[i] \in Coroutines
      BY Elements DEF IInv, Typed
    <2> QED
      BY <1>1, <1>4, <2>1 DEF IInv, Timed
  <1> QED
    BY <1>2, <1>3, <1>5, <1>6, <1>7 DEF IInv

LEMMA ObjectStep ==
  ASSUME IInv, NEW o \in Objects,
         CreateObject(o) \/ \E c \in Coroutines : yield_value(c, o)
  PROVE  IInv'
  <1>1. /\ UNCHANGED <<frame, stack, waits, data, timers>>
        /\ alive' \subseteq Objects /\ guards' \in [Coroutines -> SUBSET alive']
    <2>1. CASE CreateObject(o)
      BY <2>1 DEF IInv, Typed, CreateObject
    <2>2. ASSUME NEW c \in Coroutines, yield_value(c, o)
          PROVE  /\ UNCHANGED <<frame, stack, waits, data, timers>>
                 /\ alive' \subseteq Objects /\ guards' \in [Coroutines -> SUBSET alive']
      BY <2>2 DEF IInv, Typed, yield_value
    <2> QED
      BY <2>1, <2>2
  <1> QED
    BY <1>1 DEF IInv, Typed, Stacked, Handled, Waiting, Timed, Used, Ready,
         Sound, Counted, Connected, CancelledDone, InOrder, Follows

LEMMA AskStep ==
  ASSUME IInv, NEW c \in Coroutines, NEW w \in Awaitables, NEW kind \in Kinds,
         NEW r \in alive \cup {None}, NEW shared \in BOOLEAN, Ask(c, w, kind, r, shared)
  PROVE  IInv'
  <1> DEFINE total == IF kind = "multi" THEN MaxResults ELSE 1
             e == [kind |-> kind, owner |-> c, held |-> TRUE, shared |-> shared,
                   receiver |-> r, connected |-> r # None /\ kind # "open",
                   handle |-> FALSE, status |-> "Waiting", results |-> <<>>,
                   sent |-> 0, toSend |-> total, taken |-> 0]
  <1>1. /\ data' = [data EXCEPT ![w] = e] /\ data[w] = Free
        /\ (shared => kind = "single")
        /\ UNCHANGED <<frame, stack, waits, guards, timers, alive>>
    BY DEF Ask
  <1>2. /\ total \in 0 .. MaxResults /\ total > 0 /\ r \in Objects \cup {None, Gone}
        /\ <<>> \in Seq(0 .. MaxResults) /\ 0 \in 0 .. MaxResults
        /\ r # Gone
    BY ConstantsAssumption DEF IInv, Typed, None, Gone
  <1> HIDE DEF total
  <1>3. e \in Data
    BY <1>2 DEF Data
  <1>4. Sound(e) /\ e.status # "Suspended"
    <2>1. Counted(e)
      BY <1>1, <1>2 DEF Counted, total
    <2>2. Connected(e) /\ CancelledDone(e)
      BY <1>2 DEF Connected, CancelledDone
    <2>3. InOrder(e)
      BY DEF InOrder, Follows
    <2> QED
      BY <2>1, <2>2, <2>3 DEF Sound
  <1>5. \A x \in Coroutines : frame[x] = "suspended" => waits[x] # w
    BY <1>1 DEF IInv, Waiting
  <1> HIDE DEF e
  <1> QED
    BY <1>1, <1>3, <1>4, <1>5, OneAwaitable

LEMMA AwaitReadyStep ==
  ASSUME IInv, NEW c \in Coroutines, NEW w \in Awaitables, AwaitReady(c, w)
  PROVE  IInv'
  <1>1. /\ data' = [data EXCEPT ![w] = Taken(data[w])]
        /\ UNCHANGED <<frame, stack, waits, guards, timers, alive>>
        /\ w \in Used /\ data[w].owner = c /\ Running(c)
    BY DEF AwaitReady, MayAwait, Held
  <1>2. data[w] \in Data /\ Sound(data[w]) /\ data[w].status # "Suspended"
    BY <1>1, RunningFacts, UsedData DEF IInv
  <1>3. /\ Taken(data[w]) \in Data
        /\ Sound(Taken(data[w])) /\ Taken(data[w]).status # "Suspended"
    BY <1>2, TakenOK
  <1>4. \A x \in Coroutines : frame[x] = "suspended" => waits[x] # w
    BY <1>1, RunningFacts
  <1> QED
    BY <1>1, <1>3, <1>4, OneAwaitable

LEMMA DropAwaitableStep ==
  ASSUME IInv, NEW c \in Coroutines, NEW w \in Awaitables, DropAwaitable(c, w)
  PROVE  IInv'
  <1>1. /\ data' = [data EXCEPT ![w] = Dropped(data[w])]
        /\ UNCHANGED <<frame, stack, waits, guards, timers, alive>>
        /\ w \in Used /\ data[w].owner = c /\ Running(c)
    BY DEF DropAwaitable, Held
  <1>2. data[w] \in Data /\ Sound(data[w]) /\ data[w].status # "Suspended"
    BY <1>1, RunningFacts, UsedData DEF IInv
  <1>3. /\ Dropped(data[w]) \in Data \cup {Free}
        /\ Dropped(data[w]) # Free =>
             Sound(Dropped(data[w])) /\ Dropped(data[w]).status # "Suspended"
    BY <1>2, DroppedOK
  <1>4. \A x \in Coroutines : frame[x] = "suspended" => waits[x] # w
    BY <1>1, RunningFacts
  <1> QED
    BY <1>1, <1>3, <1>4, OneAwaitable

LEMMA AwaitSuspendStep ==
  ASSUME Careful, IInv, NEW c \in Coroutines, NEW w \in Awaitables, await_suspend(c, w)
  PROVE  IInv'
  <1> DEFINE d == data[w]
             e == [d EXCEPT !.handle = TRUE, !.status = "Suspended",
                            !.connected = @ \/ d.receiver \in Objects]
  <1>1. /\ w \in Used /\ d.owner = c /\ d.held /\ Running(c) /\ ~Ready(d)
        /\ d.receiver = Gone => d.results # <<>>
        /\ frame' = [frame EXCEPT ![c] = "suspended"]
        /\ waits' = [waits EXCEPT ![c] = w]
        /\ stack' = Front(stack) /\ UNCHANGED <<guards, timers, alive>>
    BY DEF await_suspend, MayAwait, Held, Careful
  <1>2. data' = [data EXCEPT ![w] = e]
    BY <1>1, UsedData DEF await_suspend, IInv, Typed
  <1>3. d \in Data /\ Sound(d) /\ d.status # "Suspended"
    BY <1>1, RunningFacts, UsedData DEF IInv
  <1> HIDE DEF d
  <1>4. /\ e \in Data
        /\ e.handle /\ e.status = "Suspended" /\ (d.receiver \in Objects => e.connected)
        /\ e.kind = d.kind /\ e.owner = d.owner /\ e.held = d.held /\ e.shared = d.shared
        /\ e.receiver = d.receiver /\ e.sent = d.sent /\ e.toSend = d.toSend
        /\ e.taken = d.taken /\ e.results = d.results
    <2>1. d.connected \in BOOLEAN
      BY <1>3 DEF Data
    <2> QED
      BY <1>3, <2>1 DEF Data
  <1> HIDE DEF e
  <1>5. d.status # "Done" /\ d.receiver # Gone
    <2>1. d.status # "Done"
      BY <1>1 DEF Ready
    <2>2. ASSUME d.receiver = Gone PROVE FALSE
      <3>1. CASE d.kind = "multi"
        BY <1>1, <2>2, <3>1 DEF Ready
      <3>2. CASE d.kind # "multi"
        BY <1>1, <1>3, <2>1, <2>2, <3>2 DEF Sound, CancelledDone, Counted
      <3> QED
        BY <3>1, <3>2
    <2> QED
      BY <2>1, <2>2
  <1>6. Sound(e)
    BY <1>1, <1>3, <1>4, <1>5 DEF Sound, Counted, Connected, CancelledDone, InOrder
  <1>7. /\ frame[c] = "running" /\ c \notin ToSet(timers)
        /\ \A v \in Used : data[v].owner = c => data[v].status # "Suspended"
        /\ \A x \in Coroutines : frame[x] = "suspended" => waits[x] # w
    BY <1>1, RunningFacts DEF d
  <1>8. stack' \in Seq(Call) /\ Stacked'
    BY <1>1, Pops DEF IInv
  <1>9. /\ data'[w] = e /\ \A v \in Awaitables \ {w} : data'[v] = data[v]
        /\ \A x \in Coroutines : /\ frame'[x] = IF x = c THEN "suspended" ELSE frame[x]
                                 /\ waits'[x] = IF x = c THEN w ELSE waits[x]
    BY <1>1, <1>2 DEF IInv, Typed
  <1>10. \A v \in Used' : v \in Awaitables /\ (v # w => v \in Used /\ data'[v] = data[v])
    BY <1>9 DEF Used
  <1>11. Typed'
    BY <1>1, <1>2, <1>4, <1>8 DEF IInv, Typed
  <1>12. (\A v \in Used : Sound(data[v]))'
    <2>1. ASSUME NEW v \in Used' PROVE Sound(data'[v])
      BY <1>6, <1>9, <1>10 DEF IInv, Used
    <2> QED
      BY <2>1 DEF Sound, Counted, Connected, CancelledDone, InOrder, Follows
  <1>13. Handled'
    <2>1. ASSUME NEW v \in Used', data'[v].status = "Suspended"
          PROVE  waits'[data'[v].owner] = v /\ data'[v].owner \notin ToSet(timers')
      <3>1. CASE v = w
        BY <1>1, <1>4, <1>7, <1>9, <3>1
      <3>2. CASE v # w
        <4>1. v \in Used /\ data'[v] = data[v] /\ data[v].owner \in Coroutines
          BY <1>10, <3>2, UsedData, DataFacts DEF IInv
        <4> QED
          BY <1>1, <1>7, <1>9, <2>1, <4>1 DEF IInv, Handled
      <3> QED
        BY <3>1, <3>2
    <2> QED
      BY <2>1 DEF Handled
  <1>14. Waiting'
    <2>1. ASSUME NEW x \in Coroutines, frame'[x] = "suspended"
          PROVE  /\ data'[waits'[x]] # Free
                 /\ data'[waits'[x]].owner = x /\ data'[waits'[x]].held
                 /\ x \in ToSet(timers') => Ready(data'[waits'[x]])
                 /\ x \notin ToSet(timers') => data'[waits'[x]].status = "Suspended"
      <3>1. CASE x = c
        BY <1>1, <1>4, <1>7, <1>9, <3>1, DataFacts
      <3>2. CASE x # c
        <4>1. /\ frame[x] = "suspended" /\ waits'[x] = waits[x]
              /\ data'[waits[x]] = data[waits[x]]
          BY <1>7, <1>9, <2>1, <3>2 DEF IInv, Typed, Waiting
        <4> QED
          BY <1>1, <4>1 DEF IInv, Waiting
      <3> QED
        BY <3>1, <3>2
    <2>2. \A x \in Coroutines : frame'[x] = "suspended" <=> waits'[x] # None
      BY ConstantsAssumption, <1>9 DEF IInv, Waiting
    <2> QED
      BY <2>1, <2>2 DEF Waiting, Ready
  <1>15. Timed'
    <2>1. \A i \in DOMAIN timers : timers[i] \in Coroutines
      BY Elements DEF IInv, Typed
    <2> QED
      BY <1>1, <1>9, <2>1 DEF IInv, Timed
  <1> QED
    BY <1>8, <1>11, <1>12, <1>13, <1>14, <1>15 DEF IInv

LEMMA FinishStep ==
  ASSUME IInv, NEW c \in Coroutines, Finish(c)
  PROVE  IInv'
  <1>1. /\ Running(c) /\ frame' = [frame EXCEPT ![c] = "none"] /\ stack' = Front(stack)
        /\ guards' = [guards EXCEPT ![c] = {}] /\ UNCHANGED <<waits, timers, alive>>
        /\ data' = [w \in Awaitables |-> IF w \in Held(c) THEN Dropped(data[w]) ELSE data[w]]
    BY DEF Finish, WithoutFrames
  <1>2. /\ frame[c] = "running" /\ c \notin ToSet(timers)
        /\ \A w \in Used : data[w].owner = c => data[w].status # "Suspended"
        /\ \A x \in Coroutines : frame[x] = "suspended" =>
             waits[x] \in Used /\ data[waits[x]].owner # c
    BY <1>1, RunningFacts
  <1>3. stack' \in Seq(Call) /\ Stacked'
    BY <1>1, Pops DEF IInv
  <1>4. ASSUME NEW w \in Held(c)
        PROVE  /\ Dropped(data[w]) \in Data \cup {Free}
               /\ Dropped(data[w]) # Free =>
                    Sound(Dropped(data[w])) /\ Dropped(data[w]).status # "Suspended"
    BY <1>2, DroppedOK, UsedData DEF Held, IInv
  <1>5. \A w \in Awaitables : w \notin Held(c) => data'[w] = data[w]
    BY <1>1
  <1>6. \A w \in Held(c) : w \in Awaitables /\ data'[w] = Dropped(data[w])
    BY <1>1 DEF Held, Used
  <1>7. \A x \in Coroutines : frame'[x] = IF x = c THEN "none" ELSE frame[x]
    BY <1>1 DEF IInv, Typed
  <1>8. Typed'
    <2>1. \A w \in Awaitables : data'[w] \in Data \cup {Free}
      BY <1>4, <1>5, <1>6 DEF IInv, Typed
    <2>2. data' \in [Awaitables -> Data \cup {Free}]
      BY <1>1, <2>1
    <2> QED
      BY <1>1, <1>3, <2>2 DEF IInv, Typed
  <1>9. (\A w \in Used : Sound(data[w]))'
    <2>1. ASSUME NEW w \in Used' PROVE Sound(data'[w])
      BY <1>4, <1>5, <1>6 DEF IInv, Used
    <2> QED
      BY <2>1 DEF Sound, Counted, Connected, CancelledDone, InOrder, Follows
  <1>10. Handled'
    <2>1. ASSUME NEW w \in Used', data'[w].status = "Suspended"
          PROVE  w \in Used /\ data'[w] = data[w]
      BY <1>4, <1>5, <1>6, <2>1 DEF Used
    <2> QED
      BY <1>1, <2>1 DEF IInv, Handled
  <1>11. Waiting'
    <2>1. ASSUME NEW x \in Coroutines, frame[x] = "suspended"
          PROVE  data'[waits[x]] = data[waits[x]]
      BY <1>2, <1>5, <2>1 DEF Held, Used
    <2>2. ASSUME NEW x \in Coroutines, frame[x] = "suspended"
          PROVE  /\ data'[waits[x]] # Free
                 /\ data'[waits[x]].owner = x /\ data'[waits[x]].held
                 /\ x \in ToSet(timers) => Ready(data'[waits[x]])
                 /\ x \notin ToSet(timers) => data'[waits[x]].status = "Suspended"
      BY <2>1, <2>2 DEF IInv, Waiting
    <2>3. \A x \in Coroutines : frame'[x] = "suspended" <=> waits[x] # None
      BY <1>2, <1>7 DEF IInv, Waiting
    <2> QED
      BY <1>1, <1>7, <2>2, <2>3 DEF Waiting, Ready
  <1>12. Timed'
    <2>1. \A i \in DOMAIN timers : timers[i] \in Coroutines
      BY Elements DEF IInv, Typed
    <2> QED
      BY <1>1, <1>2, <1>7, <2>1 DEF IInv, Timed
  <1> QED
    BY <1>3, <1>8, <1>9, <1>10, <1>11, <1>12 DEF IInv

LEMMA DeliverStep ==
  ASSUME IInv, NEW w \in Awaitables, Deliver(w)
  PROVE  IInv'
  <1> DEFINE d == data[w]
             e == Answered(d)
             kept == IF d.held \/ ~(d.toSend = 1) THEN e ELSE Free
             all == [data EXCEPT ![w] = kept]
             c == d.owner
  <1>1. /\ w \in Used /\ d.toSend > 0 /\ d.receiver # Gone
        /\ UNCHANGED <<guards, alive>>
        /\ IF d.status = "Suspended" /\ d.handle
             THEN resumeCoroHandle(c, all)
             ELSE data' = all /\ UNCHANGED <<frame, stack, waits, timers>>
    BY DEF Deliver, Answered, Used
  <1>2. d \in Data /\ Sound(d) /\ c \in Coroutines
    BY <1>1, UsedData, DataFacts DEF IInv
  <1> HIDE DEF d
  <1>3. /\ e \in Data /\ Sound(e) /\ e.owner = c /\ e.held = d.held
        /\ e.status # "Suspended" /\ Ready(e) /\ e # Free
    BY <1>1, <1>2, AnsweredOK, DataFacts
  <1> HIDE DEF e
  <1>4. CASE d.status # "Suspended"
    <2>1. data' = [data EXCEPT ![w] = kept] /\ UNCHANGED <<frame, stack, waits, guards, timers, alive>>
      BY <1>1, <1>4
    <2>2. ASSUME NEW x \in Coroutines, frame[x] = "suspended", waits[x] = w
          PROVE  x \in ToSet(timers) /\ kept = e /\ e.owner = x /\ e.held
      BY <1>3, <1>4, <2>2 DEF IInv, Waiting, d
    <2>3. kept \in Data \cup {Free} /\ (kept # Free => kept = e)
      BY <1>3
    <2> HIDE DEF kept
    <2> QED
      BY <1>3, <2>1, <2>2, <2>3, OneAwaitable
  <1>5. CASE d.status = "Suspended"
    <2>1. /\ d.handle /\ d.held /\ waits[c] = w /\ c \notin ToSet(timers) /\ kept = e
      BY <1>1, <1>2, <1>5 DEF IInv, Handled, Sound, Connected, d
    <2>2. frame[c] = "suspended"
      BY <1>2, <2>1, ConstantsAssumption DEF IInv, Waiting
    <2>3. resumeCoroHandle(c, [data EXCEPT ![w] = e])
      BY <1>1, <1>5, <2>1
    <2> HIDE DEF kept, c
    <2>4. CASE ~Resuming
      <3>1. /\ GoOn(c, [data EXCEPT ![w] = e]) /\ timers' = timers
        BY <2>3, <2>4 DEF resumeCoroHandle
      <3>2. data' = [data EXCEPT ![w] = Taken(e)]
        BY <2>1, <3>1 DEF GoOn, IInv, Typed
      <3>3. /\ Taken(e) \in Data /\ Taken(e).owner = c
            /\ Sound(Taken(e)) /\ Taken(e).status # "Suspended"
        BY <1>3, TakenOK
      <3>4. /\ stack' = Append(stack, [co |-> c, resumed |-> TRUE])
            /\ frame' = [frame EXCEPT ![c] = "running"]
            /\ waits' = [waits EXCEPT ![c] = None]
        BY <3>1 DEF GoOn
      <3>5. /\ timers' \in Seq(Coroutines)
            /\ \A x : x \in ToSet(timers') <=> x \in ToSet(timers) /\ x # c
            /\ \A i, k \in DOMAIN timers' : timers'[i] = timers'[k] => i = k
        BY <2>1, <3>1 DEF IInv, Typed, Timed
      <3> QED
        BY <1>1, <1>2, <2>1, <2>2, <3>2, <3>3, <3>4, <3>5, Resumes DEF c
    <2>5. CASE Resuming
      <3>1. /\ timers' = Append(timers, c) /\ data' = [data EXCEPT ![w] = e]
            /\ UNCHANGED <<frame, stack, waits, guards, alive>>
        BY <1>1, <2>3, <2>5 DEF resumeCoroHandle, PutOff
      <3>2. /\ timers \in Seq(Coroutines) /\ c \in Coroutines
            /\ Len(timers) \in Nat /\ DOMAIN timers = 1 .. Len(timers)
            /\ \A i \in DOMAIN timers : timers[i] \in ToSet(timers)
        BY <1>2, Elements DEF IInv, Typed, c
      <3>3. /\ timers' \in Seq(Coroutines) /\ DOMAIN timers' = 1 .. (Len(timers) + 1)
            /\ \A i \in 1 .. Len(timers) : timers'[i] = timers[i]
            /\ timers'[Len(timers) + 1] = c
            /\ \A x : x \in ToSet(timers') <=> x = c \/ x \in ToSet(timers)
        BY <3>1, <3>2, Appended
      <3>4. data'[w] = e /\ \A v \in Awaitables \ {w} : data'[v] = data[v]
        BY <3>1 DEF IInv, Typed
      <3>5. \A v \in Used' : v \in Awaitables /\ (v # w => v \in Used /\ data'[v] = data[v])
        BY <3>4 DEF Used
      <3>6. Typed'
        BY <1>3, <3>1, <3>3 DEF IInv, Typed
      <3>7. Stacked'
        BY <3>1 DEF IInv, Stacked
      <3>8. (\A v \in Used : Sound(data[v]))'
        <4>1. ASSUME NEW v \in Used' PROVE Sound(data'[v])
          BY <1>3, <3>4, <3>5 DEF IInv
        <4> QED
          BY <4>1 DEF Sound, Counted, Connected, CancelledDone, InOrder, Follows
      <3>9. Handled'
        <4>1. ASSUME NEW v \in Used', data'[v].status = "Suspended"
              PROVE  waits'[data'[v].owner] = v /\ data'[v].owner \notin ToSet(timers')
          <5>1. v # w /\ v \in Used /\ data'[v] = data[v]
            BY <1>3, <3>4, <3>5, <4>1
          <5>2. waits[data[v].owner] = v /\ data[v].owner \notin ToSet(timers)
            BY <4>1, <5>1 DEF IInv, Handled
          <5>3. data[v].owner # c
            BY <2>1, <5>1, <5>2
          <5> QED
            BY <3>1, <3>3, <5>1, <5>2, <5>3
        <4> QED
          BY <4>1 DEF Handled
      <3>10. Waiting'
        <4>1. ASSUME NEW x \in Coroutines, frame[x] = "suspended"
              PROVE  /\ data'[waits[x]] # Free
                     /\ data'[waits[x]].owner = x /\ data'[waits[x]].held
                     /\ x \in ToSet(timers') => Ready(data'[waits[x]])
                     /\ x \notin ToSet(timers') => data'[waits[x]].status = "Suspended"
          <5>1. CASE x = c
            BY <1>3, <2>1, <3>3, <3>4, <5>1 DEF c
          <5>2. CASE x # c
            <6>1. waits[x] \in Awaitables /\ data[waits[x]].owner = x
              BY <4>1 DEF IInv, Typed, Waiting
            <6>2. waits[x] # w
              BY <5>2, <6>1 DEF c, d
            <6> QED
              BY <3>3, <3>4, <4>1, <5>2, <6>1, <6>2 DEF IInv, Waiting
          <5> QED
            BY <5>1, <5>2
        <4> QED
          BY <3>1, <4>1 DEF IInv, Waiting, Ready
      <3>11. Timed'
        <4>1. \A i \in DOMAIN timers' : i \in DOMAIN timers \/ i = Len(timers) + 1
          BY <3>2, <3>3
        <4>2. \A i \in DOMAIN timers : timers[i] # c
          BY <2>1, <3>2
        <4> QED
          BY <2>2, <3>1, <3>2, <3>3, <4>1, <4>2 DEF IInv, Timed
      <3> QED
        BY <3>6, <3>7, <3>8, <3>9, <3>10, <3>11 DEF IInv
    <2> QED
      BY <2>4, <2>5
  <1> QED
    BY <1>4, <1>5

LEMMA TimerFiresStep ==
  ASSUME IInv, TimerFires
  PROVE  IInv'
  <1> DEFINE c == Head(timers)
  <1>1. /\ timers # <<>> /\ timers' = Tail(timers) /\ GoOn(c, data)
        /\ UNCHANGED <<guards, alive>> /\ timers \in Seq(Coroutines)
    BY DEF TimerFires, IInv, Typed
  <1>2. /\ Len(timers) >= 1 /\ c = timers[1] /\ timers' \in Seq(Coroutines)
        /\ DOMAIN timers' = 1 .. (Len(timers) - 1)
        /\ \A i \in 1 .. (Len(timers) - 1) : timers'[i] = timers[i + 1]
    BY <1>1, Ends
  <1>3. /\ Len(timers) \in Nat /\ DOMAIN timers = 1 .. Len(timers)
        /\ \A i \in DOMAIN timers : timers[i] \in Coroutines
        /\ \A x : x \in ToSet(timers) <=> \E i \in DOMAIN timers : timers[i] = x
    BY <1>1, Elements
  <1>4. \A x : x \in ToSet(timers') <=> \E i \in DOMAIN timers' : timers'[i] = x
    BY <1>2, Elements
  <1> HIDE DEF c
  <1>5. 1 \in DOMAIN timers
    BY <1>2, <1>3
  <1>6. c \in Coroutines /\ frame[c] = "suspended" /\ c \in ToSet(timers)
    BY <1>2, <1>3, <1>5 DEF IInv, Timed
  <1>7. \A i \in DOMAIN timers' : i + 1 \in DOMAIN timers /\ i + 1 # 1 /\ timers'[i] = timers[i + 1]
    BY <1>2, <1>3
  <1>8. \A i \in DOMAIN timers : i = 1 \/ (i - 1 \in DOMAIN timers' /\ (i - 1) + 1 = i)
    BY <1>2, <1>3
  <1>9. \A x : x \in ToSet(timers') <=> x \in ToSet(timers) /\ x # c
    <2>1. ASSUME NEW x \in ToSet(timers') PROVE x \in ToSet(timers) /\ x # c
      <3>1. PICK i \in DOMAIN timers' : timers'[i] = x
        BY <1>4
      <3>2. i + 1 \in DOMAIN timers /\ timers[i + 1] = x /\ i + 1 # 1
        BY <1>7, <3>1
      <3> QED
        BY <1>2, <1>3, <1>5, <3>2 DEF IInv, Timed
    <2>2. ASSUME NEW x \in ToSet(timers), x # c PROVE x \in ToSet(timers')
      <3>1. PICK i \in DOMAIN timers : timers[i] = x
        BY <1>3
      <3>2. i # 1
        BY <1>2, <2>2, <3>1
      <3>3. i - 1 \in DOMAIN timers' /\ timers'[i - 1] = x
        BY <1>7, <1>8, <3>1, <3>2
      <3> QED
        BY <1>4, <3>3
    <2> QED
      BY <2>1, <2>2
  <1>10. \A i, k \in DOMAIN timers' : timers'[i] = timers'[k] => i = k
    <2>1. ASSUME NEW i \in DOMAIN timers', NEW k \in DOMAIN timers', timers'[i] = timers'[k]
          PROVE  i = k
      <3>1. i + 1 = k + 1
        BY <1>7, <2>1 DEF IInv, Timed
      <3>2. i \in Int /\ k \in Int
        BY <1>2, <2>1
      <3> QED
        BY <3>1, <3>2
    <2> QED
      BY <2>1
  <1>11. /\ waits[c] \in Used /\ data[waits[c]].owner = c
         /\ data[waits[c]].status # "Suspended"
    BY <1>6 DEF IInv, Typed, Waiting, Handled, Used
  <1>12. /\ Taken(data[waits[c]]) \in Data /\ Taken(data[waits[c]]).owner = c
         /\ Sound(Taken(data[waits[c]])) /\ Taken(data[waits[c]]).status # "Suspended"
    BY <1>11, TakenOK, UsedData DEF IInv
  <1>13. /\ stack' = Append(stack, [co |-> c, resumed |-> TRUE])
         /\ frame' = [frame EXCEPT ![c] = "running"]
         /\ waits' = [waits EXCEPT ![c] = None]
         /\ data' = [data EXCEPT ![waits[c]] = Taken(data[waits[c]])]
    BY <1>1 DEF GoOn
  <1> QED
    BY <1>1, <1>2, <1>6, <1>9, <1>10, <1>12, <1>13, Resumes

LEMMA DestroyObjectStep ==
  ASSUME Careful, IInv, NEW o \in Objects, DestroyObject(o)
  PROVE  IInv'
  <1> DEFINE cs == DestroyedWith(o)
  <1>1. /\ stack = <<>> /\ UNCHANGED <<stack, timers>> /\ alive' = alive \ {o}
        /\ frame' = [c \in Coroutines |-> IF c \in cs THEN "none" ELSE frame[c]]
        /\ waits' = [c \in Coroutines |-> IF c \in cs THEN None ELSE waits[c]]
        /\ guards' = [c \in Coroutines |-> IF c \in cs THEN {} ELSE guards[c]]
        /\ data' = [w \in Awaitables |-> Cancelled(WithoutFrames(cs)[w], o)]
    BY DEF DestroyObject
  <1>2. /\ cs \cap ToSet(timers) = {}
        /\ \A w \in Used : data[w].owner \in cs => ~(data[w].shared /\ data[w].toSend > 0)
        /\ \A w \in Used : data[w].receiver = o /\ data[w].owner \notin cs
                             /\ data[w].held /\ data[w].kind # "multi" => ~(data[w].toSend > 0)
    BY DEF DestroyObject, MayDestroy, Careful
  <1>3. \A c \in Coroutines : o \in guards[c] => c \in cs
    BY DEF DestroyedWith
  <1>4. \A w \in Used : data[w].receiver = o /\ data[w].connected /\ data[w].handle
                          => data[w].owner \in cs
    BY DEF DestroyedWith
  <1>5. cs \subseteq Coroutines
    BY UsedData, DataFacts DEF DestroyedWith, IInv
  <1> HIDE DEF cs
  <1>6. \A w \in Awaitables : w \in UNION {Held(c) : c \in cs} <=>
          w \in Used /\ data[w].owner \in cs /\ data[w].held
    BY DEF Held
  <1>7. \A w \in Awaitables :
          WithoutFrames(cs)[w] = IF w \in UNION {Held(c) : c \in cs} THEN Dropped(data[w]) ELSE data[w]
    BY DEF WithoutFrames
  <1> DEFINE Lost(w) == \/ data[w].owner \in cs /\ data[w].held
                        \/ data[w].receiver = o /\ ~data[w].held
  <1>8. ASSUME NEW w \in Awaitables, w \notin Used \/ Lost(w)
        PROVE  data'[w] = Free
    <2>1. CASE w \notin Used \/ (data[w].owner \in cs /\ data[w].held)
      <3>1. WithoutFrames(cs)[w] = Free
        BY <1>2, <1>6, <1>7, <2>1 DEF Used, Dropped
      <3> QED
        BY <1>1, <3>1 DEF Cancelled
    <2>2. CASE data[w].receiver = o /\ ~data[w].held
      <3>1. WithoutFrames(cs)[w] = data[w]
        BY <1>6, <1>7, <2>2
      <3> QED
        BY <1>1, <2>2, <3>1 DEF Cancelled
    <2> QED
      BY <1>8, <2>1, <2>2
  <1>9. ASSUME NEW w \in Used, ~Lost(w)
        PROVE  /\ data'[w] \in Data /\ Sound(data'[w])
               /\ data'[w].owner = data[w].owner /\ data'[w].held = data[w].held
               /\ data'[w].status = data[w].status
               /\ Ready(data[w]) => Ready(data'[w])
    <2>1. data[w] \in Data /\ Sound(data[w]) /\ w \in Awaitables
      BY UsedData DEF IInv
    <2>2. data'[w] = Cancelled(data[w], o)
      BY <1>1, <1>6, <1>7, <1>9, <2>1
    <2>3. data[w].receiver = o => data[w].status # "Suspended"
      BY <1>4, <1>9, <2>1 DEF Sound, Connected
    <2>4. /\ data[w].receiver = o => data[w].held
          /\ data[w].receiver = o /\ data[w].kind # "multi" => data[w].toSend = 0
      <3>1. data[w].toSend \in Nat
        BY <2>1, DataFacts
      <3> QED
        BY <1>2, <1>9, <3>1
    <2> QED
      BY <2>1, <2>2, <2>3, <2>4, CancelledOK
  <1>10. \A w \in Used' : w \in Used /\ ~Lost(w)
    BY <1>8 DEF Used
  <1>11. \A c \in Coroutines : /\ frame'[c] = IF c \in cs THEN "none" ELSE frame[c]
                               /\ waits'[c] = IF c \in cs THEN None ELSE waits[c]
    BY <1>1
  <1>12. Typed'
    <2>1. data' \in [Awaitables -> Data \cup {Free}]
      <3>1. \A w \in Awaitables : data'[w] \in Data \cup {Free}
        BY <1>8, <1>9
      <3> QED
        BY <1>1, <3>1
    <2>2. guards' \in [Coroutines -> SUBSET alive']
      BY <1>1, <1>3 DEF IInv, Typed
    <2> QED
      BY <1>1, <2>1, <2>2 DEF IInv, Typed
  <1>13. Stacked'
    <2>1. DOMAIN stack = {}
      BY <1>1
    <2> QED
      BY <1>1, <1>11, <2>1 DEF IInv, Stacked
  <1>14. (\A w \in Used : Sound(data[w]))'
    <2>1. ASSUME NEW w \in Used' PROVE Sound(data'[w])
      BY <1>9, <1>10
    <2> QED
      BY <2>1 DEF Sound, Counted, Connected, CancelledDone, InOrder, Follows
  <1>15. Handled'
    <2>1. ASSUME NEW w \in Used', data'[w].status = "Suspended"
          PROVE  waits'[data'[w].owner] = w /\ data'[w].owner \notin ToSet(timers')
      <3>1. /\ w \in Used /\ data'[w].owner = data[w].owner
            /\ data[w].status = "Suspended"
            /\ ~Lost(w)
        BY <1>9, <1>10, <2>1
      <3>2. /\ data[w].owner \notin cs /\ data[w].owner \in Coroutines
            /\ waits[data[w].owner] = w /\ data[w].owner \notin ToSet(timers)
        BY <3>1, UsedData, DataFacts DEF IInv, Handled, Sound, Connected
      <3> QED
        BY <1>1, <1>11, <3>1, <3>2
    <2> QED
      BY <2>1 DEF Handled
  <1>16. Waiting'
    <2>1. ASSUME NEW c \in Coroutines, c \notin cs, frame[c] = "suspended"
          PROVE  /\ data'[waits[c]] # Free
                 /\ data'[waits[c]].owner = c /\ data'[waits[c]].held
                 /\ c \in ToSet(timers) => Ready(data'[waits[c]])
                 /\ c \notin ToSet(timers) => data'[waits[c]].status = "Suspended"
      <3>1. waits[c] \in Used /\ data[waits[c]].owner = c /\ data[waits[c]].held
        BY <2>1 DEF IInv, Typed, Waiting, Used
      <3>2. /\ data'[waits[c]] \in Data
            /\ data'[waits[c]].owner = c /\ data'[waits[c]].held
            /\ data'[waits[c]].status = data[waits[c]].status
            /\ Ready(data[waits[c]]) => Ready(data'[waits[c]])
        BY <1>9, <2>1, <3>1
      <3> QED
        BY <2>1, <3>2, DataFacts DEF IInv, Waiting
    <2>2. \A c \in Coroutines : frame'[c] = "suspended" <=> waits'[c] # None
      BY <1>11 DEF IInv, Waiting
    <2> QED
      BY <1>1, <1>11, <2>1, <2>2 DEF Waiting, Ready
  <1>17. Timed'
    <2>1. \A i \in DOMAIN timers : timers[i] \in Coroutines /\ timers[i] \in ToSet(timers)
      BY Elements DEF IInv, Typed
    <2> QED
      BY <1>1, <1>2, <1>11, <2>1 DEF IInv, Timed
  <1> QED
    BY <1>12, <1>13, <1>14, <1>15, <1>16, <1>17 DEF IInv

LEMMA StepIInv ==
  ASSUME Careful, IInv, [Next]_vars
  PROVE  IInv'
  <1>1. CASE UNCHANGED vars
    BY <1>1 DEF IInv, Typed, Stacked, Handled, Waiting, Timed, Used, Ready,
         Sound, Counted, Connected, CancelledDone, InOrder, Follows, vars
  <1>2. alive \subseteq Objects
    BY DEF IInv, Typed
  <1>3. ASSUME NEW c \in Coroutines, NEW w \in Awaitables,
               \/ \E kind \in Kinds, r \in alive \cup {None}, shared \in BOOLEAN :
                    Ask(c, w, kind, r, shared)
               \/ AwaitReady(c, w) \/ await_suspend(c, w) \/ DropAwaitable(c, w)
        PROVE  IInv'
    BY <1>3, AskStep, AwaitReadyStep, AwaitSuspendStep, DropAwaitableStep
  <1>4. ASSUME NEW c \in Coroutines, NEW o \in Objects, yield_value(c, o)
        PROVE  IInv'
    BY <1>4, ObjectStep
  <1>5. ASSUME NEW o \in Objects, DestroyObject(o) \/ CreateObject(o)
        PROVE  IInv'
    BY <1>5, ObjectStep, DestroyObjectStep
  <1> QED
    BY <1>1, <1>3, <1>4, <1>5, StartStep, FinishStep, DeliverStep, TimerFiresStep DEF Next

LEMMA Inductive ==
  ASSUME Careful
  PROVE  Spec => []IInv
  BY InitIInv, StepIInv, PTL DEF Spec

-----------------------------------------------------------------------------
(***************************************************************************)
(* The theorems.                                                           *)
(***************************************************************************)

\* As long as no coroutine is destroyed while its resume is put off or its result comes
\* from another coroutine, and no receiver goes between a request and its co_await, a
\* suspended coroutine is resumed once and where it waits, however many coroutines,
\* awaitables and objects there are (src/src/acoroexpected.cpp:19-60,
\* src/src/asql_coro_delivery.h).
THEOREM SpecResumedOnce ==
  ASSUME Careful
  PROVE  Spec => []ResumedOnce
  <1>1. ASSUME IInv PROVE ResumedOnce
    <2>1. /\ stack \in Seq(Call) /\ timers \in Seq(Coroutines)
          /\ data \in [Awaitables -> Data \cup {Free}]
      BY <1>1 DEF IInv, Typed
    <2>2. /\ DOMAIN stack = 1 .. Len(stack) /\ \A i \in DOMAIN stack : stack[i] \in Call
          /\ \A x : x \in ToSet(stack) <=> \E i \in DOMAIN stack : stack[i] = x
      BY <2>1, Elements
    <2>3. /\ \A i \in DOMAIN timers : timers[i] \in Coroutines
          /\ \A x : x \in ToSet(timers) <=> \E i \in DOMAIN timers : timers[i] = x
      BY <2>1, Elements
    <2>4. {s.co : s \in ToSet(stack)} = {c \in Coroutines : frame[c] = "running"}
      <3>1. \A i \in DOMAIN stack : stack[i].co \in Coroutines
        BY <2>2 DEF Call
      <3> QED
        BY <1>1, <2>2, <3>1 DEF IInv, Stacked
    <2>5. TypeOK
      BY <1>1, <2>3, <2>4, UsedData DEF IInv, Typed, TypeOK
    <2>6. IsInjective(timers)
      BY <1>1 DEF IInv, Timed, IsInjective
    <2>7. ASSUME NEW c \in ToSet(timers)
          PROVE  /\ frame[c] = "suspended"
                 /\ data[waits[c]] # Free /\ Ready(data[waits[c]])
      BY <1>1, <2>3 DEF IInv, Timed, Waiting
    <2>8. ASSUME NEW w \in Used, data[w].status = "Suspended"
          PROVE  /\ frame[data[w].owner] = "suspended" /\ waits[data[w].owner] = w
                 /\ data[w].owner \notin ToSet(timers)
      <3>1. data[w].owner \in Coroutines /\ w # None
        BY <1>1, ConstantsAssumption, UsedData, DataFacts DEF IInv
      <3> QED
        BY <1>1, <2>8, <3>1 DEF IInv, Handled, Waiting
    <2>9. ResumesLive
      BY <2>5, <2>6, <2>7, <2>8 DEF ResumesLive
    <2>10. ASSUME NEW c \in Coroutines, frame[c] = "suspended", c \notin ToSet(timers)
           PROVE  LET d == data[waits[c]]
                  IN  /\ d # Free /\ d.owner = c /\ d.status = "Suspended"
                      /\ d.toSend > 0 /\ d.receiver # Gone
      <3> DEFINE d == data[waits[c]]
      <3>1. waits[c] \in Used /\ d.owner = c /\ d.status = "Suspended"
        BY <1>1, <2>10 DEF IInv, Typed, Waiting, Used
      <3>2. d \in Data /\ Sound(d)
        BY <1>1, <3>1, UsedData DEF IInv
      <3> HIDE DEF d
      <3>3. d.toSend > 0 /\ d.receiver # Gone /\ d # Free
        BY <3>1, <3>2, DataFacts DEF Sound, Counted, Connected
      <3> QED
        BY <3>1, <3>3 DEF d
    <2>11. SuspendedIsAwaited
      BY <2>10 DEF SuspendedIsAwaited
    <2> QED
      BY <2>9, <2>11 DEF ResumedOnce
  <1> QED
    BY <1>1, Inductive, PTL

\* In the same circumstances the results of a request of several statements are taken in
\* the order of their delivery, none lost and none twice, for any number of results
\* (src/src/acoroexpected.h, ACoroMultiExpected).
THEOREM SpecResultsInOrder ==
  ASSUME Careful
  PROVE  Spec => []ResultsInOrder
  <1>1. ASSUME IInv PROVE ResultsInOrder
    <2>1. ASSUME NEW w \in Used, data[w].kind = "multi", data[w].receiver # Gone
          PROVE  data[w].results =
                   [i \in 1 .. data[w].sent - data[w].taken |-> data[w].taken + i]
      <3> DEFINE r == data[w].results
                 t == data[w].taken
                 n == data[w].sent
      <3>1. r \in Seq(0 .. MaxResults) /\ Follows(r, t, n)
        BY <1>1, <2>1, UsedData, DataFacts DEF IInv, Sound, InOrder
      <3> HIDE DEF r, t, n
      <3>2. r = [i \in 1 .. Len(r) |-> r[i]] /\ DOMAIN r = 1 .. Len(r)
        BY <3>1, LenProperties
      <3>3. r = [i \in 1 .. n - t |-> t + i]
        BY <3>1, <3>2 DEF Follows
      <3> QED
        BY <3>3 DEF r, t, n
    <2> QED
      BY <2>1 DEF ResultsInOrder
  <1> QED
    BY <1>1, Inductive, PTL
=============================================================================
