------------------------ MODULE ATransaction_proofs -------------------------
(***************************************************************************)
(* Proofs about ATransaction for any coroutines and any length of the      *)
(* queue, under the circumstances of the passing run.                      *)
(***************************************************************************)
EXTENDS ATransaction, FiniteSetTheorems, SequenceTheorems, WellFoundedInduction, TLAPS

Quiet ==
  /\ ~DropInBegin /\ ~DropWhileBusy /\ ~KeepAfterCommit
  /\ ~OutliveConnection /\ ~CommitStalls

-----------------------------------------------------------------------------
(***************************************************************************)
(* The inductive invariant.                                                *)
(***************************************************************************)

\* Statements of the queue by what they do.
Begins(i) == queue[i].op = "begin"
Ends(i) == queue[i].op \in {"commit", "rollback"}

\* The lease lasts as long as a copy or a statement.
Leased ==
  /\ lease <=> (Copies # {} \/ queue # <<>>)
  /\ ~connected => ~lease

\* A live statement is the one that its coroutine waits for.
Awaited ==
  /\ \A i \in DOMAIN queue : queue[i].live =>
       copy[queue[i].by] = IF Begins(i) THEN "begins" ELSE "waits"
  /\ \A i, k \in DOMAIN queue :
       queue[i].live /\ queue[k].live /\ queue[i].by = queue[k].by => i = k

\* BEGIN comes alone.
Beginning ==
  /\ \A i \in DOMAIN queue : Begins(i) =>
       /\ Len(queue) = 1 /\ queue[i].live /\ Copies = {queue[i].by}
       /\ ~running /\ ~session /\ askers = {} /\ outcome = "open"
  /\ \A h \in Coroutines : copy[h] = "begins" => \E i \in DOMAIN queue : Begins(i)

\* An open transaction is held by the copies or ended by one statement, which "pg" is
\* not going to skip.
Ending ==
  /\ \A i, k \in DOMAIN queue : Ends(i) /\ Ends(k) => i = k
  /\ \A i \in DOMAIN queue : Ends(i) => session /\ ~running /\ outcome = "open"
  /\ running => session /\ Copies # {} /\ outcome = "open"
  /\ session => running \/ \E i \in DOMAIN queue : Ends(i)
  /\ driver = "pg" => \A i \in DOMAIN queue : Ends(i) /\ i > 1 => queue[i].live

\* As long as everybody asks for it, a COMMIT is what ends the transaction.
Asking ==
  /\ aborted => failed
  /\ running => Copies \cap askers = {}
  /\ asked /\ ~failed =>
       /\ \/ outcome = "committed" \/ running
          \/ \E i \in DOMAIN queue : queue[i].op \in {"begin", "commit"}
       /\ \A i \in DOMAIN queue : queue[i].op # "rollback"

IInv ==
  TypeOK /\ Leased /\ Awaited /\ Beginning /\ Ending /\ Asking

-----------------------------------------------------------------------------
(***************************************************************************)
(* The queue and the copies.                                               *)
(***************************************************************************)

LEMMA Least ==
  ASSUME NEW S \in SUBSET Nat, S # {}
  PROVE  Min(S) \in S /\ \A k \in S : Min(S) <= k
  <1> DEFINE below == {pair \in Nat \X Nat : pair[1] < pair[2]}
  <1>1. IsWellFoundedOn(below, Nat)
    BY NatLessThanWellFounded DEF OpToRel
  <1>2. PICK n \in S : \A m \in S : ~(<<m, n>> \in below)
    <2> HIDE DEF below
    <2> QED
      BY <1>1, WFMin
  <1>3. \A m \in S : n <= m
    <2> SUFFICES ASSUME NEW m \in S, ~(n <= m) PROVE FALSE
      OBVIOUS
    <2>1. m \in Nat /\ n \in Nat /\ m < n
      OBVIOUS
    <2>2. <<m, n>> \in Nat \X Nat /\ <<m, n>>[1] = m /\ <<m, n>>[2] = n
      BY <2>1
    <2> QED
      BY <1>2, <2>1, <2>2
  <1> QED
    BY <1>3 DEF Min

LEMMA QueueIs ==
  ASSUME NEW q \in Seq(Statement)
  PROVE  /\ Len(q) \in Nat /\ DOMAIN q = 1 .. Len(q)
         /\ \A i \in DOMAIN q :
              /\ q[i] \in Statement
              /\ q[i].op \in {"begin", "work", "commit", "rollback"}
              /\ q[i].live \in BOOLEAN /\ q[i].by \in Coroutines
         /\ q # <<>> <=> Len(q) > 0
         /\ q # <<>> => Head(q) = q[1] /\ 1 \in DOMAIN q
  <1>1. Len(q) \in Nat /\ DOMAIN q = 1 .. Len(q) /\ \A i \in DOMAIN q : q[i] \in Statement
    BY LenProperties, ElementOfSeq
  <1>2. q = <<>> <=> Len(q) = 0
    BY EmptySeq
  <1> QED
    BY <1>1, <1>2 DEF Statement

\* One statement more.
LEMMA Added ==
  ASSUME NEW q \in Seq(Statement), NEW s \in Statement
  PROVE  /\ Append(q, s) \in Seq(Statement)
         /\ Len(Append(q, s)) = Len(q) + 1
         /\ \A i \in DOMAIN q : i \in DOMAIN Append(q, s) /\ Append(q, s)[i] = q[i]
         /\ Len(q) + 1 \in DOMAIN Append(q, s) /\ Append(q, s)[Len(q) + 1] = s
         /\ \A i \in DOMAIN Append(q, s) : i \in DOMAIN q \/ i = Len(q) + 1
         /\ Len(q) + 1 \notin DOMAIN q
         /\ Append(q, s) # <<>>
  <1>1. /\ Append(q, s) \in Seq(Statement) /\ Len(Append(q, s)) = Len(q) + 1
        /\ \A i \in 1 .. Len(q) : Append(q, s)[i] = q[i]
        /\ Append(q, s)[Len(q) + 1] = s
    BY AppendProperties
  <1> DEFINE t == Append(q, s)
  <1>2. t \in Seq(Statement) /\ Len(t) = Len(q) + 1
    BY <1>1
  <1> HIDE DEF t
  <1>3. DOMAIN t = 1 .. (Len(q) + 1) /\ DOMAIN q = 1 .. Len(q) /\ Len(q) \in Nat
    BY <1>2, QueueIs
  <1>4. t # <<>>
    BY <1>2, <1>3, QueueIs
  <1> QED
    BY <1>1, <1>3, <1>4 DEF t

\* What nextQuery() leaves of the queue is the end of it; it skips what nobody waits
\* for.
LEMMA NextQueryIs ==
  ASSUME NEW q \in Seq(Statement)
  PROVE  \E k \in Nat :
           /\ NextQuery(q) \in Seq(Statement)
           /\ \A i \in DOMAIN NextQuery(q) :
                i + k \in DOMAIN q /\ NextQuery(q)[i] = q[i + k]
           /\ \A i \in DOMAIN q :
                \/ i > k /\ i - k \in DOMAIN NextQuery(q)
                \/ i <= k /\ driver = "pg" /\ ~q[i].live
  <1> DEFINE I == {i \in 1 .. Len(q) : q[i].live}
             first == IF I # {} THEN Min(I) ELSE 0
             next == IF driver # "pg" THEN q
                     ELSE IF first = 0 THEN <<>> ELSE SubSeq(q, first, Len(q))
  <1>1. NextQuery(q) = next
    BY DEF NextQuery, SelectInSeq
  <1>2. Len(q) \in Nat /\ DOMAIN q = 1 .. Len(q) /\ \A i \in DOMAIN q : q[i] \in Statement
    BY QueueIs
  <1>3. CASE driver # "pg"
    <2>1. next = q
      BY <1>3
    <2>2. \A i \in DOMAIN q : i + 0 = i /\ i - 0 = i /\ i > 0
      BY <1>2
    <2> QED
      BY <1>1, <2>1, <2>2
  <1>4. CASE driver = "pg" /\ I = {}
    <2>1. next = <<>> /\ DOMAIN <<>> = {} /\ <<>> \in Seq(Statement)
      BY <1>4
    <2>2. \A i \in DOMAIN q : ~q[i].live /\ i <= Len(q)
      BY <1>2, <1>4
    <2> QED
      BY <1>1, <1>2, <1>4, <2>1, <2>2
  <1>5. CASE driver = "pg" /\ I # {}
    <2>1. first \in I /\ \A k \in I : first <= k
      <3>1. I \in SUBSET Nat
        BY <1>2
      <3> HIDE DEF I
      <3> QED
        BY <1>5, <3>1, Least
    <2>2. first \in 1 .. Len(q) /\ first # 0 /\ first - 1 \in Nat
      BY <1>2, <2>1
    <2> HIDE DEF first
    <2> DEFINE t == SubSeq(q, first, Len(q))
    <2>3. next = t
      BY <1>5, <2>2
    <2>4. /\ t \in Seq(Statement) /\ Len(t) = Len(q) - first + 1
          /\ \A i \in 1 .. (Len(q) - first + 1) : t[i] = q[first + i - 1]
      <3>1. \A i \in first .. Len(q) : q[i] \in Statement
        BY <1>2, <2>2
      <3> QED
        BY <1>2, <2>2, <3>1, SubSeqProperties
    <2> HIDE DEF t
    <2>5. DOMAIN t = 1 .. (Len(q) - first + 1)
      BY <2>4, QueueIs
    <2>6. \A i \in DOMAIN t : i + (first - 1) \in DOMAIN q /\ t[i] = q[i + (first - 1)]
      BY <1>2, <2>2, <2>4, <2>5
    <2>7. \A i \in DOMAIN q : \/ i > first - 1 /\ i - (first - 1) \in DOMAIN t
                              \/ i <= first - 1 /\ ~q[i].live
      BY <1>2, <2>1, <2>2, <2>5
    <2> HIDE DEF next
    <2> QED
      BY <1>1, <1>5, <2>2, <2>3, <2>4, <2>6, <2>7
  <1> QED
    BY <1>3, <1>4, <1>5

\* The front is popped first.
LEMMA Advanced ==
  ASSUME NEW q \in Seq(Statement), q # <<>>
  PROVE  \E k \in Nat \ {0} :
           /\ NextQuery(Tail(q)) \in Seq(Statement)
           /\ \A i \in DOMAIN NextQuery(Tail(q)) :
                i + k \in DOMAIN q /\ NextQuery(Tail(q))[i] = q[i + k]
           /\ \A i \in DOMAIN q :
                \/ i = 1
                \/ i > k /\ i - k \in DOMAIN NextQuery(Tail(q))
                \/ driver = "pg" /\ ~q[i].live
  <1>1. Len(q) \in Nat /\ Len(q) > 0 /\ DOMAIN q = 1 .. Len(q)
    BY QueueIs
  <1>2. /\ Tail(q) \in Seq(Statement) /\ Len(Tail(q)) = Len(q) - 1
        /\ \A i \in 1 .. Len(Tail(q)) : Tail(q)[i] = q[i + 1]
    BY HeadTailProperties
  <1> DEFINE t == Tail(q)
  <1> HIDE DEF t
  <1>3. DOMAIN t = 1 .. (Len(q) - 1) /\ t \in Seq(Statement)
    BY <1>1, <1>2, QueueIs DEF t
  <1>4. PICK k \in Nat :
           /\ NextQuery(t) \in Seq(Statement)
           /\ \A i \in DOMAIN NextQuery(t) :
                i + k \in DOMAIN t /\ NextQuery(t)[i] = t[i + k]
           /\ \A i \in DOMAIN t :
                \/ i > k /\ i - k \in DOMAIN NextQuery(t)
                \/ i <= k /\ driver = "pg" /\ ~t[i].live
    BY <1>3, NextQueryIs
  <1> DEFINE n == NextQuery(t)
  <1>5. n \in Seq(Statement) /\ DOMAIN n = 1 .. Len(n) /\ Len(n) \in Nat
    BY <1>4, QueueIs
  <1>6. \A i \in DOMAIN t : t[i] = q[i + 1]
    BY <1>1, <1>2, <1>3 DEF t
  <1> HIDE DEF n
  <1>7. \A i \in DOMAIN n : i + (k + 1) \in DOMAIN q /\ n[i] = q[i + (k + 1)]
    <2> SUFFICES ASSUME NEW i \in DOMAIN n
                 PROVE  i + (k + 1) \in DOMAIN q /\ n[i] = q[i + (k + 1)]
      OBVIOUS
    <2>1. i + k \in DOMAIN t /\ n[i] = t[i + k]
      BY <1>4 DEF n
    <2>2. i \in Nat /\ (i + k) + 1 = i + (k + 1)
      BY <1>5
    <2> QED
      BY <1>1, <1>3, <1>6, <2>1, <2>2
  <1>8. \A i \in DOMAIN q : \/ i = 1
                            \/ i > k + 1 /\ i - (k + 1) \in DOMAIN n
                            \/ driver = "pg" /\ ~q[i].live
    <2> SUFFICES ASSUME NEW i \in DOMAIN q, i # 1
                 PROVE  \/ i > k + 1 /\ i - (k + 1) \in DOMAIN n
                        \/ driver = "pg" /\ ~q[i].live
      OBVIOUS
    <2>1. i - 1 \in DOMAIN t /\ (i - 1) + 1 = i /\ (i - 1) - k = i - (k + 1)
      BY <1>1, <1>3
    <2>2. t[i - 1] = q[i]
      BY <1>6, <2>1
    <2>3. \/ i - 1 > k /\ (i - 1) - k \in DOMAIN n
          \/ driver = "pg" /\ ~q[i].live
      BY <1>4, <2>1, <2>2 DEF n
    <2>4. i - 1 > k => i > k + 1
      BY <1>1
    <2> QED
      BY <2>1, <2>3, <2>4
  <1>9. k + 1 \in Nat \ {0}
    OBVIOUS
  <1> QED
    BY <1>5, <1>7, <1>8, <1>9 DEF n, t

\* A copy is shared when it is not the only one.
LEMMA Sharing ==
  ASSUME ConstantsAssumption, NEW h \in Copies
  PROVE  IsShared <=> Copies # {h}
  <1>1. IsFiniteSet(Copies)
    BY FS_Subset DEF ConstantsAssumption, Copies
  <1>2. IsFiniteSet(Copies \ {h}) /\ Cardinality(Copies \ {h}) = Cardinality(Copies) - 1
    BY <1>1, FS_RemoveElement
  <1>3. Cardinality(Copies \ {h}) \in Nat /\ Cardinality(Copies) \in Nat
    BY <1>1, <1>2, FS_CardinalityType
  <1>4. Cardinality(Copies \ {h}) = 0 <=> Copies \ {h} = {}
    BY <1>2, FS_EmptySet
  <1>5. Copies \ {h} = {} <=> Copies = {h}
    OBVIOUS
  <1> QED
    BY <1>2, <1>3, <1>4, <1>5 DEF IsShared

LEMMA InitIInv == Init => IInv
  <1> SUFFICES ASSUME Init PROVE IInv
    OBVIOUS
  <1>1. Copies = {} /\ DOMAIN queue = {} /\ queue \in Seq(Statement)
    BY DEF Init, Copies
  <1>2. TypeOK
    BY <1>1 DEF Init, TypeOK
  <1>3. Leased /\ Awaited /\ Beginning /\ Ending /\ Asking
    BY <1>1 DEF Init, Leased, Awaited, Beginning, Ending, Asking, Begins, Ends
  <1> QED
    BY <1>2, <1>3 DEF IInv

-----------------------------------------------------------------------------
(***************************************************************************)
(* One lemma for each action.                                              *)
(***************************************************************************)

\* What the next steps use of the state.
LEMMA State ==
  ASSUME IInv
  PROVE  /\ queue \in Seq(Statement) /\ copy \in [Coroutines -> {"none", "begins", "free", "waits"}]
         /\ Len(queue) \in Nat /\ DOMAIN queue = 1 .. Len(queue)
         /\ \A i \in DOMAIN queue :
              /\ queue[i] \in Statement
              /\ queue[i].op \in {"begin", "work", "commit", "rollback"}
              /\ queue[i].live \in BOOLEAN /\ queue[i].by \in Coroutines
         /\ queue # <<>> <=> Len(queue) > 0
         /\ queue # <<>> => Head(queue) = queue[1] /\ 1 \in DOMAIN queue
         /\ \A h \in Coroutines : h \in Copies <=> copy[h] # "none"
         /\ \A h \in Coroutines : copy[h] \in {"free", "waits"} =>
              \A i \in DOMAIN queue : ~Begins(i)
         /\ \A h \in Coroutines : copy[h] \in {"free", "none"} =>
              \A i \in DOMAIN queue : queue[i].by = h => ~queue[i].live
  <1>1. queue \in Seq(Statement) /\ copy \in [Coroutines -> {"none", "begins", "free", "waits"}]
    BY DEF IInv, TypeOK
  <1>2. \A h \in Coroutines : h \in Copies <=> copy[h] # "none"
    BY DEF Copies
  <1>3. \A i \in DOMAIN queue : Begins(i) => copy[queue[i].by] = "begins" /\ Copies = {queue[i].by}
    BY DEF IInv, Beginning, Awaited
  <1>4. \A h \in Coroutines : copy[h] \in {"free", "waits"} =>
              \A i \in DOMAIN queue : ~Begins(i)
    BY <1>2, <1>3
  <1>5. \A h \in Coroutines : copy[h] \in {"free", "none"} =>
              \A i \in DOMAIN queue : queue[i].by = h => ~queue[i].live
    BY DEF IInv, Awaited
  <1> QED
    BY <1>1, <1>2, <1>4, <1>5, QueueIs

LEMMA BeginStep ==
  ASSUME IInv, NEW h \in Coroutines, Begin(h)
  PROVE  IInv'
  <1>1. Copies = {} /\ queue = <<>> /\ ~running /\ ~session
    <2>1. Copies = {} /\ queue = <<>>
      BY DEF Begin, IInv, Leased
    <2> QED
      BY <2>1, State DEF IInv, Ending
  <1> DEFINE s == [op |-> "begin", by |-> h, live |-> TRUE]
  <1>2. s \in Statement
    BY DEF Statement
  <1>3. queue' = Append(queue, s)
    BY DEF Begin, Send
  <1>4. s.op = "begin" /\ s.by = h /\ s.live
    OBVIOUS
  <1> HIDE DEF s
  <1>5. /\ queue' \in Seq(Statement) /\ queue' # <<>> /\ Len(queue') = 1
        /\ DOMAIN queue' = {1} /\ queue'[1] = s
    <2>1. queue \in Seq(Statement) /\ Len(queue) = 0 /\ DOMAIN queue = {}
      BY <1>1, State
    <2> QED
      BY <1>2, <1>3, <2>1, Added
  <1>6. \A g \in Coroutines : copy'[g] = IF g = h THEN "begins" ELSE "none"
    <2>1. \A g \in Coroutines : copy[g] = "none"
      BY <1>1, State
    <2> QED
      BY <2>1, State DEF Begin
  <1>7. Copies' = {h}
    BY <1>6 DEF Copies
  <1>8. TypeOK'
    <2>1. copy' \in [Coroutines -> {"none", "begins", "free", "waits"}]
      BY State DEF Begin
    <2> QED
      BY <1>5, <2>1 DEF IInv, TypeOK, Begin
  <1>9. Leased' /\ Awaited'
    BY <1>4, <1>5, <1>6, <1>7 DEF Begin, Leased, Awaited, Begins
  <1>10. Beginning'
    BY <1>1, <1>4, <1>5, <1>6, <1>7 DEF Begin, Beginning, Begins
  <1>11. Ending' /\ Asking'
    BY <1>1, <1>4, <1>5 DEF Begin, Ending, Asking, Ends
  <1> QED
    BY <1>8, <1>9, <1>10, <1>11 DEF IInv

LEMMA ShareStep ==
  ASSUME IInv, NEW h \in Coroutines, NEW other \in Coroutines, Share(h, other)
  PROVE  IInv'
  <1>1. \A i \in DOMAIN queue : ~Begins(i) /\ (queue[i].live => queue[i].by # other)
    BY State DEF Share, Free
  <1>2. \A g \in Coroutines : copy'[g] = IF g = other THEN "free" ELSE copy[g]
    BY State DEF Share
  <1>3. Copies' = Copies \cup {other}
    BY <1>2, State DEF Copies
  <1>4. UNCHANGED <<driver, connected, lease, queue, running, session, aborted, outcome, asked, failed>>
        /\ askers' = askers \ {other}
    BY DEF Share, server
  <1>5. TypeOK'
    <2>1. copy' \in [Coroutines -> {"none", "begins", "free", "waits"}]
      BY State DEF Share
    <2> QED
      BY <1>4, <2>1 DEF IInv, TypeOK
  <1>6. Leased'
    <2>1. h \in Copies
      BY State DEF Share, Free
    <2> QED
      BY <1>3, <1>4, <2>1 DEF IInv, Leased
  <1>7. Awaited'
    BY <1>1, <1>2, <1>4, State DEF IInv, Awaited, Begins
  <1>8. Beginning'
    <2>1. \A g \in Coroutines : copy'[g] # "begins"
      BY <1>1, <1>2 DEF IInv, Beginning
    <2> QED
      BY <1>1, <1>4, <2>1 DEF Beginning, Begins
  <1>9. Ending'
    BY <1>3, <1>4 DEF IInv, Ending, Ends
  <1>10. Asking'
    BY <1>3, <1>4 DEF IInv, Asking
  <1> QED
    BY <1>5, <1>6, <1>7, <1>8, <1>9, <1>10 DEF IInv

LEMMA NotStartedStep ==
  ASSUME IInv, NEW h \in Coroutines, NotStarted(h)
  PROVE  IInv'
  <1>1. UNCHANGED <<driver, connected, lease, queue, copy, running, session, aborted, outcome, asked, askers>>
        /\ failed' = TRUE
    BY DEF NotStarted, server
  <1>2. Copies' = Copies
    BY <1>1 DEF Copies
  <1>3. TypeOK' /\ Leased' /\ Awaited'
    BY <1>1, <1>2 DEF IInv, TypeOK, Leased, Awaited, Begins
  <1>4. Beginning' /\ Ending' /\ Asking'
    BY <1>1, <1>2 DEF IInv, Beginning, Ending, Asking, Begins, Ends
  <1> QED
    BY <1>3, <1>4 DEF IInv

LEMMA CommitIgnoredStep ==
  ASSUME IInv, ConstantsAssumption, Quiet, NEW h \in Coroutines, CommitIgnored(h)
  PROVE  IInv'
  <1>1. h \in Copies /\ Copies # {h} /\ running
    <2>1. h \in Copies
      BY State DEF CommitIgnored, Free
    <2> QED
      BY <2>1, Sharing DEF CommitIgnored
  <1>2. \A i \in DOMAIN queue : ~Begins(i) /\ (queue[i].live => queue[i].by # h)
    BY State DEF CommitIgnored, Free
  <1>3. \A g \in Coroutines : copy'[g] = IF g = h THEN "none" ELSE copy[g]
    BY State DEF CommitIgnored, Quiet
  <1>4. Copies' = Copies \ {h} /\ Copies' # {}
    BY <1>1, <1>3, State DEF Copies
  <1>5. UNCHANGED <<driver, connected, lease, queue, running, session, aborted, outcome, asked, failed>>
        /\ askers' = askers \cup {h}
    BY DEF CommitIgnored, server
  <1>6. TypeOK'
    <2>1. copy' \in [Coroutines -> {"none", "begins", "free", "waits"}]
      BY State DEF CommitIgnored
    <2> QED
      BY <1>5, <2>1 DEF IInv, TypeOK
  <1>7. Leased'
    BY <1>1, <1>4, <1>5 DEF IInv, Leased
  <1>8. Awaited'
    BY <1>2, <1>3, <1>5, State DEF IInv, Awaited, Begins
  <1>9. Beginning'
    <2>1. \A g \in Coroutines : copy'[g] # "begins"
      BY <1>2, <1>3 DEF IInv, Beginning
    <2> QED
      BY <1>2, <1>5, <2>1 DEF Beginning, Begins
  <1>10. Ending' /\ Asking'
    BY <1>4, <1>5 DEF IInv, Ending, Asking, Ends
  <1> QED
    BY <1>6, <1>7, <1>8, <1>9, <1>10 DEF IInv

\* A coroutine that sends a statement and waits changes nothing of the lease.
LEMMA Awaits ==
  ASSUME IInv, NEW h \in Coroutines, NEW op \in {"work", "commit", "rollback"},
         Free(h), Await(h, op), UNCHANGED <<driver, connected, lease>>
  PROVE  /\ queue' \in Seq(Statement)
         /\ copy' \in [Coroutines -> {"none", "begins", "free", "waits"}]
         /\ \A i \in DOMAIN queue : i \in DOMAIN queue' /\ queue'[i] = queue[i]
         /\ Len(queue) + 1 \in DOMAIN queue'
         /\ queue'[Len(queue) + 1].op = op /\ queue'[Len(queue) + 1].live
         /\ \A i \in DOMAIN queue' : i \in DOMAIN queue \/ i = Len(queue) + 1
         /\ Copies' = Copies /\ h \in Copies
         /\ Leased' /\ Awaited' /\ Beginning'
  <1> DEFINE s == [op |-> op, by |-> h, live |-> TRUE]
  <1>1. s \in Statement /\ s.op = op /\ s.by = h /\ s.live
    BY DEF Statement
  <1>2. queue' = Append(queue, s)
    BY DEF Await, Send
  <1> HIDE DEF s
  <1>3. /\ queue' \in Seq(Statement) /\ queue' # <<>>
        /\ \A i \in DOMAIN queue : i \in DOMAIN queue' /\ queue'[i] = queue[i]
        /\ Len(queue) + 1 \in DOMAIN queue' /\ queue'[Len(queue) + 1] = s
        /\ \A i \in DOMAIN queue' : i \in DOMAIN queue \/ i = Len(queue) + 1
    BY <1>1, <1>2, State, Added
  <1>4. \A g \in Coroutines : copy'[g] = IF g = h THEN "waits" ELSE copy[g]
    BY State DEF Await
  <1>5. copy[h] = "free" /\ h \in Copies
    BY State DEF Free
  <1>6. Copies' = Copies
    BY <1>4, <1>5, State DEF Copies
  <1>7. Leased'
    BY <1>3, <1>5, <1>6 DEF IInv, Leased
  <1>8. \A i \in DOMAIN queue : ~Begins(i) /\ (queue[i].live => queue[i].by # h)
    BY <1>5, State
  <1>9. \A i \in DOMAIN queue' : queue'[i].op # "begin"
    BY <1>1, <1>3, <1>8 DEF Begins
  <1>10. Awaited'
    <2>1. \A i \in DOMAIN queue' : queue'[i].live => copy'[queue'[i].by] = "waits"
      <3>1. \A i \in DOMAIN queue : queue[i].live =>
               copy[queue[i].by] = "waits" /\ queue[i].by \in Coroutines
        BY <1>8, State DEF IInv, Awaited
      <3> QED
        BY <1>1, <1>3, <1>4, <3>1
    <2>2. \A i, k \in DOMAIN queue' :
             queue'[i].live /\ queue'[k].live /\ queue'[i].by = queue'[k].by => i = k
      BY <1>1, <1>3, <1>8 DEF IInv, Awaited
    <2> QED
      BY <1>9, <2>1, <2>2 DEF Awaited, Begins
  <1>11. Beginning'
    <2>1. \A g \in Coroutines : copy'[g] # "begins"
      BY <1>4, <1>8 DEF IInv, Beginning
    <2> QED
      BY <1>9, <2>1 DEF Beginning, Begins
  <1>12. copy' \in [Coroutines -> {"none", "begins", "free", "waits"}]
    BY State DEF Await
  <1> QED
    BY <1>1, <1>3, <1>5, <1>6, <1>7, <1>10, <1>11, <1>12

LEMMA WorkStep ==
  ASSUME IInv, NEW h \in Coroutines, Work(h)
  PROVE  IInv'
  <1>1. UNCHANGED <<driver, connected, lease, running, session, aborted, outcome, asked, askers, failed>>
    BY DEF Work, server, history
  <1>2. /\ queue' \in Seq(Statement)
        /\ copy' \in [Coroutines -> {"none", "begins", "free", "waits"}]
        /\ \A i \in DOMAIN queue : i \in DOMAIN queue' /\ queue'[i] = queue[i]
        /\ queue'[Len(queue) + 1].op = "work"
        /\ \A i \in DOMAIN queue' : i \in DOMAIN queue \/ i = Len(queue) + 1
        /\ Copies' = Copies
        /\ Leased' /\ Awaited' /\ Beginning'
    BY <1>1, Awaits DEF Work
  <1>3. TypeOK'
    BY <1>1, <1>2 DEF IInv, TypeOK
  <1>4. \A i \in DOMAIN queue' :
           queue'[i].op # "work" => i \in DOMAIN queue /\ queue'[i] = queue[i]
    BY <1>2
  <1>5. Ending'
    <2>1. \A i \in DOMAIN queue' : Ends(i)' => i \in DOMAIN queue /\ Ends(i) /\ queue'[i] = queue[i]
      BY <1>4 DEF Ends
    <2>2. \A i \in DOMAIN queue : Ends(i) => i \in DOMAIN queue' /\ Ends(i)'
      BY <1>2 DEF Ends
    <2> QED
      BY <1>1, <1>2, <2>1, <2>2 DEF IInv, Ending
  <1>6. Asking'
    BY <1>1, <1>2, <1>4 DEF IInv, Asking
  <1> QED
    BY <1>2, <1>3, <1>5, <1>6 DEF IInv

\* The first to end the transaction.
LEMMA EndStep ==
  ASSUME IInv, ConstantsAssumption, NEW h \in Coroutines, Commit(h) \/ Rollback(h)
  PROVE  IInv'
  <1> DEFINE op == IF Commit(h) THEN "commit" ELSE "rollback"
  <1>1. /\ UNCHANGED <<driver, connected, lease, session, aborted, outcome, failed>>
        /\ Free(h) /\ running /\ running' = FALSE
        /\ Await(h, op) /\ op \in {"commit", "rollback"}
    BY DEF Commit, Rollback, server
  <1>2. /\ op = "commit" => asked' = asked /\ askers' = askers \cup {h} /\ ~IsShared
        /\ op = "rollback" => asked' = FALSE /\ askers' = askers
    BY DEF Commit, Rollback
  <1> HIDE DEF op
  <1>3. /\ queue' \in Seq(Statement)
        /\ copy' \in [Coroutines -> {"none", "begins", "free", "waits"}]
        /\ \A i \in DOMAIN queue : i \in DOMAIN queue' /\ queue'[i] = queue[i]
        /\ Len(queue) + 1 \in DOMAIN queue'
        /\ queue'[Len(queue) + 1].op = op /\ queue'[Len(queue) + 1].live
        /\ \A i \in DOMAIN queue' : i \in DOMAIN queue \/ i = Len(queue) + 1
        /\ Copies' = Copies
        /\ Leased' /\ Awaited' /\ Beginning'
    BY <1>1, Awaits
  <1>4. TypeOK'
    <2>1. asked' \in BOOLEAN /\ askers' \subseteq Coroutines
      BY <1>1, <1>2 DEF IInv, TypeOK
    <2> QED
      BY <1>1, <1>3, <2>1 DEF IInv, TypeOK
  <1>5. \A i \in DOMAIN queue : ~Ends(i)
    BY <1>1 DEF IInv, Ending
  <1>6. session /\ outcome = "open"
    BY <1>1 DEF IInv, Ending
  <1>7. \A i \in DOMAIN queue' : Ends(i)' => i = Len(queue) + 1
    BY <1>3, <1>5 DEF Ends
  <1>8. Ending'
    <2> DEFINE n == Len(queue) + 1
    <2>1. n \in DOMAIN queue' /\ queue'[n].op \in {"commit", "rollback"} /\ queue'[n].live
      BY <1>1, <1>3
    <2>2. \A i \in DOMAIN queue' : queue'[i].op \in {"commit", "rollback"} => i = n
      BY <1>7 DEF Ends
    <2> HIDE DEF n
    <2> QED
      BY <1>1, <1>6, <2>1, <2>2 DEF Ending, Ends
  <1>9. Asking'
    <2>1. aborted' => failed'
      BY <1>1 DEF IInv, Asking
    <2>2. asked' => \A i \in DOMAIN queue' : queue'[i].op # "rollback"
      BY <1>1, <1>2, <1>3, <1>5 DEF Ends
    <2> QED
      BY <1>1, <1>2, <1>3, <2>1, <2>2 DEF Asking
  <1> QED
    BY <1>3, <1>4, <1>8, <1>9 DEF IInv

LEMMA AnswerPartStep ==
  ASSUME IInv, AnswerPart
  PROVE  IInv'
  <1> DEFINE h == queue[1].by
  <1>1. /\ queue # <<>> /\ 1 \in DOMAIN queue
        /\ queue[1].op = "work" /\ queue[1].live /\ h \in Coroutines
    BY State DEF AnswerPart
  <1>2. UNCHANGED <<driver, connected, lease, running, session, aborted, outcome, asked, askers, failed>>
    BY DEF AnswerPart, server, history
  <1>3. /\ \A i \in DOMAIN queue : ~Begins(i)
        /\ copy[h] = "waits"
        /\ \A i \in DOMAIN queue : queue[i].live /\ i # 1 => queue[i].by # h
    <2>1. copy[h] = "waits"
      BY <1>1 DEF IInv, Awaited, Begins
    <2>2. \A i \in DOMAIN queue : ~Begins(i)
      BY <1>1, <2>1, State
    <2> QED
      BY <1>1, <2>1, <2>2 DEF IInv, Awaited
  <1>4. \A g \in Coroutines : copy'[g] = IF g = h THEN "free" ELSE copy[g]
    BY State DEF AnswerPart
  <1>5. copy' \in [Coroutines -> {"none", "begins", "free", "waits"}]
    BY State DEF AnswerPart
  <1>6. Copies' = Copies
    BY <1>1, <1>3, <1>4, State DEF Copies
  <1>7. queue' = [queue EXCEPT ![1] = [queue[1] EXCEPT !.live = FALSE]]
    BY DEF AnswerPart
  <1>8. /\ queue' \in Seq(Statement) /\ DOMAIN queue' = DOMAIN queue
        /\ \A i \in DOMAIN queue : queue'[i] = IF i = 1 THEN [queue[1] EXCEPT !.live = FALSE]
                                               ELSE queue[i]
    <2>1. [queue[1] EXCEPT !.live = FALSE] \in Statement
      BY <1>1, State DEF Statement
    <2>2. queue' \in Seq(Statement) /\ Len(queue') = Len(queue)
      BY <1>1, <1>7, <2>1, State, ExceptSeq
    <2> QED
      BY <1>1, <1>7, <2>2, QueueIs, State
  <1>9. \A i \in DOMAIN queue :
           /\ queue'[i].op = queue[i].op /\ queue'[i].by = queue[i].by
           /\ queue'[i].live <=> queue[i].live /\ i # 1
    BY <1>8, State DEF Statement
  <1> HIDE DEF h
  <1>10. TypeOK'
    BY <1>2, <1>5, <1>8 DEF IInv, TypeOK
  <1>11. Leased'
    <2>1. queue' # <<>>
      BY <1>1, <1>8
    <2> QED
      BY <1>1, <1>2, <1>6, <2>1 DEF IInv, Leased
  <1>12. Awaited'
    <2>1. \A i \in DOMAIN queue : queue[i].live => copy[queue[i].by] = "waits"
      BY <1>3 DEF IInv, Awaited
    <2>2. \A i \in DOMAIN queue' : queue'[i].live => copy'[queue'[i].by] = "waits"
      BY <1>3, <1>4, <1>8, <1>9, <2>1, State
    <2>3. \A i, k \in DOMAIN queue' :
             queue'[i].live /\ queue'[k].live /\ queue'[i].by = queue'[k].by => i = k
      BY <1>8, <1>9 DEF IInv, Awaited
    <2> QED
      BY <1>3, <1>8, <1>9, <2>2, <2>3 DEF Awaited, Begins
  <1>13. Beginning'
    <2>1. \A g \in Coroutines : copy'[g] # "begins"
      BY <1>3, <1>4 DEF IInv, Beginning
    <2> QED
      BY <1>3, <1>8, <1>9, <2>1 DEF Beginning, Begins
  <1>14. Ending'
    <2>1. \A i \in DOMAIN queue : Ends(i)' <=> Ends(i)
      BY <1>9 DEF Ends
    <2>2. \A i \in DOMAIN queue : i > 1 => i # 1
      OBVIOUS
    <2> QED
      BY <1>2, <1>6, <1>8, <1>9, <2>1, <2>2 DEF IInv, Ending
  <1>15. Asking'
    BY <1>2, <1>6, <1>8, <1>9 DEF IInv, Asking
  <1> QED
    BY <1>10, <1>11, <1>12, <1>13, <1>14, <1>15 DEF IInv

LEMMA ConnectionLostStep ==
  ASSUME IInv, Quiet, NEW gone \in SUBSET Coroutines, ConnectionLost(gone)
  PROVE  IInv'
  <1>1. gone = Copies
    BY DEF ConnectionLost, Quiet
  <1>2. \A g \in Coroutines : copy'[g] = "none"
    BY <1>1, State DEF ConnectionLost
  <1>3. copy' \in [Coroutines -> {"none", "begins", "free", "waits"}]
    BY <1>2 DEF ConnectionLost
  <1>4. Copies' = {} /\ queue' = <<>> /\ DOMAIN queue' = {} /\ queue' \in Seq(Statement)
    BY <1>2 DEF Copies, ConnectionLost
  <1>5. ~running' /\ ~session' /\ ~lease' /\ ~connected' /\ failed'
    BY <1>4 DEF ConnectionLost, KeepOrReturn
  <1>6. TypeOK'
    <2>1. outcome' \in {"open", "committed", "rolledBack"}
      BY DEF ConnectionLost, IInv, TypeOK
    <2>2. {connected', lease', running', session', asked', failed'} \subseteq BOOLEAN
      BY <1>4 DEF ConnectionLost, KeepOrReturn, IInv, TypeOK
    <2>3. UNCHANGED <<driver, aborted, askers>>
      BY DEF ConnectionLost
    <2> QED
      BY <1>3, <1>4, <2>1, <2>2, <2>3 DEF IInv, TypeOK
  <1>7. Leased' /\ Awaited' /\ Beginning'
    BY <1>2, <1>4, <1>5 DEF Leased, Awaited, Beginning
  <1>8. Ending' /\ Asking'
    BY <1>4, <1>5 DEF Ending, Asking
  <1> QED
    BY <1>6, <1>7, <1>8 DEF IInv

LEMMA ReplaceStep ==
  ASSUME IInv, Replace
  PROVE  IInv'
  <1>1. UNCHANGED <<driver, lease, queue, copy, running, session, aborted, outcome, asked, askers, failed>>
        /\ connected' = TRUE
    BY DEF Replace, server, history
  <1>2. Copies' = Copies
    BY <1>1 DEF Copies
  <1>3. TypeOK' /\ Leased' /\ Awaited'
    BY <1>1, <1>2 DEF IInv, TypeOK, Leased, Awaited, Begins
  <1>4. Beginning' /\ Ending' /\ Asking'
    BY <1>1, <1>2 DEF IInv, Beginning, Ending, Asking, Begins, Ends
  <1> QED
    BY <1>3, <1>4 DEF IInv

\* The statements of a coroutine that is gone have nobody waiting for them.
LEMMA Abandoned ==
  ASSUME IInv, NEW h \in Coroutines
  PROVE  /\ Abandon(h) \in Seq(Statement)
         /\ Len(Abandon(h)) = Len(queue) /\ DOMAIN Abandon(h) = DOMAIN queue
         /\ \A i \in DOMAIN queue :
              /\ Abandon(h)[i].op = queue[i].op /\ Abandon(h)[i].by = queue[i].by
              /\ Abandon(h)[i].live <=> queue[i].live /\ queue[i].by # h
  <1> DEFINE s(i) == [queue[i] EXCEPT !.live = @ /\ queue[i].by # h]
  <1>1. \A i \in DOMAIN queue : /\ s(i) \in Statement
                                /\ s(i).op = queue[i].op /\ s(i).by = queue[i].by
                                /\ s(i).live <=> queue[i].live /\ queue[i].by # h
    BY State DEF Statement
  <1> HIDE DEF s
  <1>2. Abandon(h) = [i \in 1 .. Len(queue) |-> s(i)]
    BY State DEF Abandon, s
  <1>3. Abandon(h) \in Seq(Statement) /\ Len(Abandon(h)) = Len(queue)
    BY <1>1, <1>2, State, IsASeq, LenProperties
  <1> QED
    BY <1>1, <1>2, <1>3, State

LEMMA DropStep ==
  ASSUME IInv, Quiet, NEW h \in Coroutines, Drop(h)
  PROVE  IInv'
  <1>1. /\ copy[h] \in {"free", "waits"} /\ h \in Copies
        /\ \A i \in DOMAIN queue : ~Begins(i)
        /\ lease /\ connected
    <2>1. copy[h] \in {"free", "waits"} /\ h \in Copies
      BY State DEF Drop, Quiet
    <2> QED
      BY <2>1, State DEF IInv, Leased
  <1>2. /\ UNCHANGED <<driver, connected, session, aborted, outcome, askers>>
        /\ asked' = (asked /\ h \in askers) /\ failed' = (failed \/ copy[h] # "free")
        /\ running' = (running /\ Copies' # {})
        /\ lease' = (Copies' # {} \/ queue' # <<>>)
    BY DEF Drop, server, KeepOrReturn
  <1>3. \A g \in Coroutines : copy'[g] = IF g = h THEN "none" ELSE copy[g]
    BY State DEF Drop
  <1>4. copy' \in [Coroutines -> {"none", "begins", "free", "waits"}]
    BY State DEF Drop
  <1>5. Copies' = Copies \ {h}
    BY <1>3, State DEF Copies
  <1> DEFINE a == Abandon(h)
             s == [op |-> "rollback", by |-> h, live |-> FALSE]
  <1>6. /\ a \in Seq(Statement) /\ Len(a) = Len(queue) /\ DOMAIN a = DOMAIN queue
        /\ \A i \in DOMAIN queue :
             /\ a[i].op = queue[i].op /\ a[i].by = queue[i].by
             /\ a[i].live <=> queue[i].live /\ queue[i].by # h
    BY Abandoned
  <1>7. s \in Statement /\ s.op = "rollback" /\ ~s.live
    BY DEF Statement
  <1>8. queue' = IF running /\ ~running' THEN Append(a, s) ELSE a
    BY DEF Drop
  <1> HIDE DEF a, s
  <1>9. \A i \in DOMAIN queue : queue[i].live =>
          copy[queue[i].by] = "waits" /\ queue[i].by \in Coroutines
    BY <1>1, State DEF IInv, Awaited
  <1>10. \A g \in Coroutines : copy'[g] # "begins"
    BY <1>1, <1>3 DEF IInv, Beginning
  <1>11. CASE running /\ Copies' = {}
    <2>1. Copies = {h} /\ running' = FALSE /\ session /\ outcome = "open"
      BY <1>1, <1>2, <1>5, <1>11 DEF IInv, Ending
    <2>2. /\ queue' \in Seq(Statement) /\ queue' # <<>>
          /\ \A i \in DOMAIN a : i \in DOMAIN queue' /\ queue'[i] = a[i]
          /\ Len(a) + 1 \in DOMAIN queue' /\ queue'[Len(a) + 1] = s
          /\ \A i \in DOMAIN queue' : i \in DOMAIN a \/ i = Len(a) + 1
      <3>1. queue' = Append(a, s)
        BY <1>8, <1>11, <2>1
      <3> QED
        BY <1>6, <1>7, <3>1, Added
    <2>3. \A i \in DOMAIN a : a[i].op = "work" /\ ~a[i].live
      <3>1. \A i \in DOMAIN queue : queue[i].live => queue[i].by = h
        BY <1>9, <2>1, State
      <3>2. \A i \in DOMAIN queue : queue[i].op = "work"
        BY <1>1, <1>11, State DEF IInv, Ending, Begins, Ends
      <3> QED
        BY <1>6, <3>1, <3>2
    <2>4. driver = "pg" => Len(a) = 0
      <3>1. driver = "pg" => \A i \in DOMAIN queue : FALSE
        <4>1. driver = "pg" =>
                \A i \in DOMAIN queue :
                  queue[i].op \in {"commit", "rollback"} \/ queue[i].op = "begin"
          BY <2>1 DEF Drop, Quiet, Careful
        <4> QED
          BY <1>1, <1>11, <4>1 DEF IInv, Ending, Begins, Ends
      <3> QED
        BY <1>6, <3>1, State
    <2> DEFINE n == Len(a) + 1
    <2>5. /\ n \in DOMAIN queue' /\ queue'[n].op = "rollback" /\ ~queue'[n].live
          /\ driver = "pg" => n = 1
          /\ \A i \in DOMAIN queue' : i # n => queue'[i].op = "work"
          /\ \A i \in DOMAIN queue' : ~queue'[i].live
      BY <1>7, <2>2, <2>3, <2>4
    <2> HIDE DEF n
    <2>6. TypeOK'
      BY <1>2, <1>4, <2>2 DEF IInv, TypeOK
    <2>7. Leased' /\ Awaited' /\ Beginning'
      BY <1>1, <1>2, <1>10, <2>2, <2>5 DEF Leased, Awaited, Beginning, Begins
    <2>8. Ending'
      <3>1. \A i \in DOMAIN queue' : queue'[i].op \in {"commit", "rollback"} => i = n
        BY <2>5
      <3>2. driver' = "pg" => \A i \in DOMAIN queue' : ~(Ends(i)' /\ i > 1)
        BY <1>2, <2>5, <3>1 DEF Ends
      <3> QED
        BY <1>2, <2>1, <2>5, <3>1, <3>2 DEF Ending, Ends
    <2>9. Asking'
      <3>1. ~asked'
        BY <1>1, <1>2, <1>11 DEF IInv, Asking
      <3>2. aborted' => failed'
        BY <1>2 DEF IInv, Asking
      <3> QED
        BY <2>1, <3>1, <3>2 DEF Asking
    <2> QED
      BY <2>6, <2>7, <2>8, <2>9 DEF IInv
  <1>12. CASE ~(running /\ Copies' = {})
    <2>1. running' = running
      BY <1>2, <1>12 DEF IInv, TypeOK
    <2>2. queue' = a
      BY <1>8, <2>1
    <2>3. /\ queue' \in Seq(Statement) /\ DOMAIN queue' = DOMAIN queue
          /\ \A i \in DOMAIN queue :
               /\ queue'[i].op = queue[i].op /\ queue'[i].by = queue[i].by
               /\ queue'[i].live <=> queue[i].live /\ queue[i].by # h
      BY <1>6, <2>2
    <2>4. TypeOK'
      BY <1>2, <1>4, <2>3 DEF IInv, TypeOK
    <2>5. Leased'
      BY <1>1, <1>2 DEF Leased
    <2>6. Awaited'
      <3>1. \A i \in DOMAIN queue' : queue'[i].live => copy'[queue'[i].by] = "waits"
        BY <1>3, <1>9, <2>3
      <3>2. \A i, k \in DOMAIN queue' :
               queue'[i].live /\ queue'[k].live /\ queue'[i].by = queue'[k].by => i = k
        BY <2>3 DEF IInv, Awaited
      <3> QED
        BY <1>1, <2>3, <3>1, <3>2 DEF Awaited, Begins
    <2>7. Beginning'
      BY <1>1, <1>10, <2>3 DEF Beginning, Begins
    <2>8. \A i \in DOMAIN queue : Ends(i)' <=> Ends(i)
      BY <2>3 DEF Ends
    <2>9. Ending'
      <3>1. driver = "pg" => \A i \in DOMAIN queue : Ends(i) /\ i > 1 => queue'[i].live
        <4>1. driver = "pg" => \A i \in DOMAIN queue : Ends(i) /\ i > 1 => queue[i].live
          BY DEF IInv, Ending
        <4>2. driver = "pg" => \A i \in DOMAIN queue : Ends(i) /\ i > 1 => queue[i].by # h
          <5> SUFFICES ASSUME driver = "pg", NEW i \in DOMAIN queue, Ends(i), i > 1
                       PROVE  queue[i].by # h
            OBVIOUS
          <5>1. i # 1 /\ queue[i].op \in {"commit", "rollback"}
            BY State DEF Ends
          <5> QED
            BY <5>1 DEF Drop, Quiet, Careful
        <4> QED
          BY <2>3, <4>1, <4>2
      <3>2. running => Copies' # {}
        BY <1>12
      <3> QED
        BY <1>2, <2>1, <2>3, <2>8, <3>1, <3>2 DEF IInv, Ending
    <2>10. Asking'
      <3>1. (aborted' => failed') /\ (running' => Copies' \cap askers' = {})
        BY <1>2, <1>5, <2>1 DEF IInv, Asking
      <3>2. asked' /\ ~failed' => asked /\ ~failed
        BY <1>2
      <3>3. /\ (\E i \in DOMAIN queue : queue[i].op \in {"begin", "commit"})
               => \E i \in DOMAIN queue' : queue'[i].op \in {"begin", "commit"}
            /\ (\A i \in DOMAIN queue : queue[i].op # "rollback")
               => \A i \in DOMAIN queue' : queue'[i].op # "rollback"
        BY <2>3
      <3> QED
        BY <1>2, <2>1, <3>1, <3>2, <3>3 DEF IInv, Asking
    <2> QED
      BY <2>4, <2>5, <2>6, <2>7, <2>9, <2>10 DEF IInv
  <1> QED
    BY <1>11, <1>12

LEMMA AnswerStep ==
  ASSUME IInv, Quiet, NEW ok \in BOOLEAN, Answer(ok)
  PROVE  IInv'
  <1> DEFINE s == queue[1]
  <1>1. queue # <<>> /\ 1 \in DOMAIN queue /\ Head(queue) = s /\ s.by \in Coroutines
    BY State DEF Answer
  <1>2. /\ UNCHANGED <<driver, connected, asked, askers>> /\ connected
        /\ Execute(s.op, ok)
        /\ copy' = IF s.live THEN [copy EXCEPT ![s.by] = After(s.op, ok)] ELSE copy
        /\ running' = (running \/ (s.live /\ ok /\ s.op = "begin"))
        /\ failed' = (failed \/ ~ok)
        /\ lease' = (Copies' # {} \/ queue' # <<>>)
    BY <1>1 DEF Answer, KeepOrReturn
  <1>3. PICK k \in Nat \ {0} :
           /\ queue' \in Seq(Statement)
           /\ \A i \in DOMAIN queue' : i + k \in DOMAIN queue /\ queue'[i] = queue[i + k]
           /\ \A i \in DOMAIN queue :
                \/ i = 1
                \/ i > k /\ i - k \in DOMAIN queue'
                \/ driver = "pg" /\ ~queue[i].live
    <2>1. queue' = NextQuery(Tail(queue))
      BY DEF Answer
    <2> QED
      BY <1>1, <2>1, State, Advanced
  <1>4. \A g \in Coroutines :
          copy'[g] = IF s.live /\ g = s.by THEN After(s.op, ok) ELSE copy[g]
    BY <1>1, <1>2, State
  <1>5. After(s.op, ok) \in {"none", "free"} /\ (s.op # "begin" => After(s.op, ok) = "free")
    BY DEF After
  <1>6. copy' \in [Coroutines -> {"none", "begins", "free", "waits"}]
    BY <1>1, <1>2, <1>5, State
  <1>7. /\ DOMAIN queue' = 1 .. Len(queue') /\ Len(queue') \in Nat
        /\ DOMAIN queue = 1 .. Len(queue) /\ Len(queue) \in Nat
    BY <1>3, QueueIs, State
  <1>8. \A i \in DOMAIN queue' : i + k \in DOMAIN queue /\ queue'[i] = queue[i + k] /\ i + k > 1
    BY <1>3, <1>7
  <1>9. \A i \in DOMAIN queue : i > 1 => \/ i - k \in DOMAIN queue' /\ queue'[i - k] = queue[i]
                                         \/ driver = "pg" /\ ~queue[i].live
    <2> SUFFICES ASSUME NEW i \in DOMAIN queue, i > 1
                 PROVE  \/ i - k \in DOMAIN queue' /\ queue'[i - k] = queue[i]
                        \/ driver = "pg" /\ ~queue[i].live
      OBVIOUS
    <2>1. (i - k) + k = i /\ i # 1
      BY <1>7
    <2> QED
      BY <1>3, <2>1
  <1>10. \A i \in DOMAIN queue : Begins(i) =>
           /\ i = 1 /\ DOMAIN queue = {1} /\ s.op = "begin" /\ s.live /\ Copies = {s.by}
           /\ ~running /\ ~session /\ askers = {} /\ outcome = "open"
    <2> SUFFICES ASSUME NEW i \in DOMAIN queue, Begins(i)
                 PROVE  /\ i = 1 /\ DOMAIN queue = {1} /\ s.op = "begin" /\ s.live /\ Copies = {s.by}
                        /\ ~running /\ ~session /\ askers = {} /\ outcome = "open"
      OBVIOUS
    <2>1. Len(queue) = 1
      BY DEF IInv, Beginning
    <2>2. i = 1 /\ DOMAIN queue = {1}
      BY <1>7, <2>1
    <2> QED
      BY <2>2 DEF IInv, Beginning, Begins
  <1>11. \A i \in DOMAIN queue' : queue'[i].op # "begin"
    <2>1. \A i \in DOMAIN queue : i > 1 => queue[i].op # "begin"
      BY <1>7, <1>10 DEF Begins
    <2> QED
      BY <1>8, <2>1
  <1>12. \A g \in Coroutines : copy'[g] # "begins"
    <2> SUFFICES ASSUME NEW g \in Coroutines, copy[g] = "begins"
                 PROVE  s.live /\ g = s.by
      BY <1>4, <1>5
    <2>1. PICK i \in DOMAIN queue : Begins(i)
      BY DEF IInv, Beginning
    <2>2. g \in Copies
      BY State
    <2> QED
      BY <1>10, <2>1, <2>2
  <1>13. TypeOK'
    <2>1. s.op \in {"begin", "work", "commit", "rollback"}
      BY <1>1, State
    <2>2. /\ session' \in BOOLEAN /\ aborted' \in BOOLEAN
          /\ outcome' \in {"open", "committed", "rolledBack"}
      BY <1>2, <2>1 DEF Execute, IInv, TypeOK, Quiet
    <2>3. {connected', lease', running', asked', failed'} \subseteq BOOLEAN
      BY <1>2 DEF IInv, TypeOK
    <2> QED
      BY <1>2, <1>3, <1>6, <2>2, <2>3 DEF IInv, TypeOK
  <1>14. Leased'
    BY <1>2 DEF Leased
  <1>15. Awaited'
    <2>1. \A i, m \in DOMAIN queue' :
             queue'[i].live /\ queue'[m].live /\ queue'[i].by = queue'[m].by => i = m
      <3> SUFFICES ASSUME NEW i \in DOMAIN queue', NEW m \in DOMAIN queue',
                          queue'[i].live, queue'[m].live, queue'[i].by = queue'[m].by
                   PROVE  i = m
        OBVIOUS
      <3>1. i + k = m + k
        BY <1>8 DEF IInv, Awaited
      <3> QED
        BY <1>7, <3>1
    <2>2. \A i \in DOMAIN queue' : queue'[i].live => copy'[queue'[i].by] = "waits"
      <3> SUFFICES ASSUME NEW i \in DOMAIN queue', queue'[i].live
                   PROVE  copy'[queue'[i].by] = "waits"
        OBVIOUS
      <3> DEFINE m == i + k
      <3>1. m \in DOMAIN queue /\ queue'[i] = queue[m] /\ m > 1
        BY <1>8
      <3> HIDE DEF m
      <3>2. queue[m].live /\ queue[m].op # "begin" /\ queue[m].by \in Coroutines
        BY <1>11, <3>1, State
      <3>3. copy[queue[m].by] = "waits"
        BY <3>1, <3>2 DEF IInv, Awaited, Begins
      <3>4. ~(s.live /\ queue[m].by = s.by)
        <4>1. m # 1
          BY <1>7, <3>1
        <4> QED
          BY <1>1, <3>1, <3>2, <4>1 DEF IInv, Awaited
      <3> QED
        BY <1>4, <3>1, <3>2, <3>3, <3>4
    <2> QED
      BY <1>11, <2>1, <2>2 DEF Awaited, Begins
  <1>16. Beginning'
    BY <1>11, <1>12 DEF Beginning, Begins
  <1>17. \A i \in DOMAIN queue' : queue'[i].op \in {"commit", "rollback"} =>
           s.op \notin {"commit", "rollback"}
    BY <1>1, <1>7, <1>8 DEF IInv, Ending, Ends
  <1>18. Ending' /\ Asking'
    <2>1. CASE s.op = "begin"
      <3>1. s.live /\ Copies = {s.by} /\ DOMAIN queue = {1} /\ ~running /\ ~session
            /\ askers = {} /\ outcome = "open"
        BY <1>1, <1>10, <2>1 DEF Begins
      <3>2. \A i \in DOMAIN queue' : FALSE
        <4> SUFFICES ASSUME NEW i \in DOMAIN queue' PROVE FALSE
          OBVIOUS
        <4>1. i + k \in {1} /\ i + k > 1
          BY <1>8, <3>1
        <4> QED
          BY <4>1
      <3>3. session' = ok /\ ~aborted' /\ outcome' = "open" /\ running' = ok
        BY <1>2, <2>1, <3>1 DEF Execute
      <3>4. ok => Copies' # {}
        <4>1. ok => copy'[s.by] = "free"
          BY <1>1, <1>4, <3>1 DEF After
        <4> QED
          BY <1>1, <4>1 DEF Copies
      <3>5. CASE ok
        <4>1. session' = TRUE /\ running' = TRUE /\ Copies' # {} /\ Copies' \cap askers' = {}
          BY <1>2, <3>1, <3>3, <3>4, <3>5
        <4> QED
          BY <3>2, <3>3, <4>1 DEF Ending, Asking
      <3>6. CASE ~ok
        <4>1. ~session' /\ ~running' /\ failed'
          <5>1. failed'
            BY <1>2, <3>6
          <5>2. session' = ok /\ running' = ok
            BY <3>3
          <5> QED
            BY <3>6, <5>1, <5>2
        <4> QED
          BY <3>2, <3>3, <4>1 DEF Ending, Asking
      <3> QED
        BY <3>5, <3>6
    <2>2. CASE s.op = "work"
      <3>1. /\ session' = session /\ outcome' = outcome /\ running' = running
            /\ aborted' = (aborted \/ (~ok /\ session))
        BY <1>2, <2>2 DEF Execute, IInv, TypeOK
      <3>2. Copies' = Copies
        <4>1. s.live => copy[s.by] # "none"
          BY <1>1, <2>2 DEF IInv, Awaited, Begins
        <4> QED
          BY <1>1, <1>4, <1>5, <2>2, <4>1 DEF Copies
      <3>3. \A i \in DOMAIN queue : queue[i].op \in {"commit", "rollback"} =>
              /\ i > 1 /\ driver = "pg" => queue[i].live
              /\ i - k \in DOMAIN queue' /\ queue'[i - k] = queue[i]
        <4> SUFFICES ASSUME NEW i \in DOMAIN queue, queue[i].op \in {"commit", "rollback"}
                     PROVE  /\ i > 1 /\ driver = "pg" => queue[i].live
                            /\ i - k \in DOMAIN queue' /\ queue'[i - k] = queue[i]
          OBVIOUS
        <4>1. i > 1
          <5>1. i # 1
            BY <2>2
          <5> QED
            BY <1>7, <5>1
        <4>2. driver = "pg" => queue[i].live
          BY <4>1 DEF IInv, Ending, Ends
        <4> QED
          BY <1>9, <4>1, <4>2
      <3>4. Ending'
        <4>1. \A i, m \in DOMAIN queue' : Ends(i)' /\ Ends(m)' => i = m
          <5> SUFFICES ASSUME NEW i \in DOMAIN queue', NEW m \in DOMAIN queue', Ends(i)', Ends(m)'
                       PROVE  i = m
            OBVIOUS
          <5>1. i + k = m + k
            BY <1>8 DEF IInv, Ending, Ends
          <5> QED
            BY <1>7, <5>1
        <4>2. \A i \in DOMAIN queue' : Ends(i)' =>
                session /\ ~running /\ outcome = "open" /\ (driver = "pg" => queue'[i].live)
          BY <1>8 DEF IInv, Ending, Ends
        <4>3. session => running \/ \E i \in DOMAIN queue' : Ends(i)'
          <5>1. ASSUME session, ~running PROVE \E i \in DOMAIN queue' : Ends(i)'
            <6>1. PICK i \in DOMAIN queue : Ends(i)
              BY <5>1 DEF IInv, Ending
            <6>2. i - k \in DOMAIN queue' /\ queue'[i - k].op \in {"commit", "rollback"}
              BY <3>3, <6>1 DEF Ends
            <6> DEFINE m == i - k
            <6>3. m \in DOMAIN queue' /\ queue'[m].op \in {"commit", "rollback"}
              BY <6>2
            <6> HIDE DEF m
            <6> QED
              BY <6>3 DEF Ends
          <5> QED
            BY <5>1
        <4> QED
          BY <1>2, <3>1, <3>2, <4>1, <4>2, <4>3 DEF IInv, Ending
      <3>5. Asking'
        <4>1. aborted' => failed'
          BY <1>2, <3>1 DEF IInv, Asking
        <4>2. ASSUME asked', ~failed'
              PROVE  /\ \/ outcome' = "committed" \/ running'
                        \/ \E i \in DOMAIN queue' : queue'[i].op \in {"begin", "commit"}
                     /\ \A i \in DOMAIN queue' : queue'[i].op # "rollback"
          <5>1. /\ \/ outcome = "committed" \/ running
                   \/ \E i \in DOMAIN queue : queue[i].op \in {"begin", "commit"}
                /\ \A i \in DOMAIN queue : queue[i].op # "rollback"
            BY <1>2, <4>2 DEF IInv, Asking
          <5>2. \A i \in DOMAIN queue : queue[i].op # "begin"
            BY <1>10, <2>2 DEF Begins
          <5>3. ASSUME NEW i \in DOMAIN queue, queue[i].op = "commit"
                PROVE  \E m \in DOMAIN queue' : queue'[m].op = "commit"
            BY <3>3, <5>3
          <5> QED
            BY <1>8, <3>1, <5>1, <5>2, <5>3
        <4> QED
          BY <1>2, <3>1, <3>2, <4>1, <4>2 DEF IInv, Asking
      <3> QED
        BY <3>4, <3>5
    <2>3. CASE s.op \in {"commit", "rollback"}
      <3>1. session /\ ~running /\ outcome = "open"
        BY <1>1, <2>3 DEF IInv, Ending, Ends
      <3>2. ~running' /\ ~session' /\ aborted' = aborted
        BY <1>2, <2>3, <3>1 DEF Execute, Quiet
      <3>3. \A i \in DOMAIN queue' : ~Ends(i)'
        BY <1>17, <2>3 DEF Ends
      <3>4. Ending'
        BY <3>2, <3>3 DEF Ending
      <3>5. aborted' => failed'
        BY <1>2, <3>2 DEF IInv, Asking
      <3>6. asked' /\ ~failed' => outcome' = "committed"
        <4> SUFFICES ASSUME asked', ~failed' PROVE outcome' = "committed"
          OBVIOUS
        <4>1. asked /\ ~failed /\ ok
          BY <1>2
        <4>2. s.op = "commit" /\ ~aborted
          BY <1>1, <2>3, <4>1 DEF IInv, Asking
        <4> QED
          BY <1>2, <3>1, <3>2, <4>1, <4>2 DEF Execute
      <3> QED
        BY <3>2, <3>3, <3>4, <3>5, <3>6 DEF Asking, Ends
    <2> QED
      BY <1>1, <2>1, <2>2, <2>3, State
  <1> QED
    BY <1>13, <1>14, <1>15, <1>16, <1>18 DEF IInv

-----------------------------------------------------------------------------
LEMMA StepIInv ==
  ASSUME IInv, ConstantsAssumption, Quiet, [Next]_vars
  PROVE  IInv'
  <1>1. CASE UNCHANGED vars
    <2>1. UNCHANGED <<driver, connected, lease, queue, copy, running, session, aborted, outcome, asked, askers, failed>>
      BY <1>1 DEF vars, server, history
    <2>2. Copies' = Copies
      BY <2>1 DEF Copies
    <2>3. TypeOK' /\ Leased' /\ Awaited'
      BY <2>1, <2>2 DEF IInv, TypeOK, Leased, Awaited, Begins
    <2>4. Beginning' /\ Ending' /\ Asking'
      BY <2>1, <2>2 DEF IInv, Beginning, Ending, Asking, Begins, Ends
    <2> QED
      BY <2>3, <2>4 DEF IInv
  <1>2. ASSUME NEW h \in Coroutines,
               Begin(h) \/ Work(h) \/ NotStarted(h) \/ CommitIgnored(h)
                 \/ Commit(h) \/ Rollback(h) \/ Drop(h)
        PROVE  IInv'
    BY <1>2, BeginStep, WorkStep, NotStartedStep, CommitIgnoredStep, EndStep, DropStep
  <1>3. ASSUME NEW h \in Coroutines, NEW other \in Coroutines, Share(h, other)
        PROVE  IInv'
    BY <1>3, ShareStep
  <1>4. ASSUME NEW ok \in BOOLEAN, Answer(ok)
        PROVE  IInv'
    BY <1>4, AnswerStep
  <1>5. CASE AnswerPart
    BY <1>5, AnswerPartStep
  <1>6. ASSUME NEW gone \in SUBSET Coroutines, ConnectionLost(gone)
        PROVE  IInv'
    BY <1>6, ConnectionLostStep
  <1>7. CASE Replace
    BY <1>7, ReplaceStep
  <1> QED
    BY <1>1, <1>2, <1>3, <1>4, <1>5, <1>6, <1>7 DEF Next

LEMMA Inductive ==
  ASSUME Quiet
  PROVE  Spec => []IInv
  <1>1. IInv /\ [Next]_vars => IInv'
    BY StepIInv, ConstantsAssumption
  <1> QED
    BY <1>1, InitIInv, PTL DEF Spec

\* A connection that goes back to the pool has no transaction open: what the last
\* copy leaves behind is ended by a statement that the driver does not skip.
THEOREM SpecReturnedClean ==
  ASSUME Quiet
  PROVE  Spec => []ReturnedClean
  <1>1. IInv => ReturnedClean
    <2> SUFFICES ASSUME IInv, ~lease, session PROVE FALSE
      BY DEF ReturnedClean
    <2>1. Copies = {} /\ DOMAIN queue = {}
      BY DEF IInv, Leased
    <2> QED
      BY <2>1 DEF IInv, Ending
  <1> QED
    BY <1>1, Inductive, PTL

\* Of all copies of a transaction one ends it, once; it is committed when all of them
\* called commit() and nothing failed.
THEOREM SpecEndsAsAsked ==
  ASSUME Quiet
  PROVE  Spec => []EndsAsAsked
  <1>1. IInv => EndsAsAsked
    <2> SUFFICES ASSUME IInv PROVE TypeOK /\ EndedOnce /\ CommittedIfAllCommit
      BY DEF EndsAsAsked
    <2>1. TypeOK
      BY DEF IInv
    <2>2. EndedOnce
      BY State DEF EndedOnce, InFlight, IInv, Ending, Ends
    <2>3. CommittedIfAllCommit
      <3> SUFFICES ASSUME ~lease, asked, ~failed PROVE outcome = "committed"
        BY DEF CommittedIfAllCommit
      <3>1. Copies = {} /\ DOMAIN queue = {}
        BY DEF IInv, Leased
      <3> QED
        BY <3>1 DEF IInv, Ending, Asking
    <2> QED
      BY <2>1, <2>2, <2>3
  <1> QED
    BY <1>1, Inductive, PTL
=============================================================================
