---------------------- MODULE ADriverPgPipeline_proofs ----------------------
(***************************************************************************)
(* In pipeline mode every result reaches the query that was sent for it,   *)
(* and the syncs are counted, for any queries and any number of syncs.     *)
(***************************************************************************)
EXTENDS ADriverPgPipeline, FiniteSetTheorems, SequenceTheorems, TLAPS

-----------------------------------------------------------------------------
(***************************************************************************)
(* The inductive invariant.                                                *)
(***************************************************************************)

\* The circumstances of the run.
Careful == ~ExecWhileAborted /\ ~PrepareAtRisk

Places == 1 .. Len(commands)
Seats == 1 .. Len(queue)

\* A command whose result ends its query.
Final(c) == c.kind \in {"plain", "prepared"}

SyncsAt == {i \in DOMAIN commands : commands[i].kind = "sync"}

\* The server has taken the commands up to some place.
Line ==
  \A i \in Places : /\ commands[i].outcome # "sent" <=> i <= Processed
                    /\ commands[i].kind # "sync" => commands[i].of \in Queries

\* A query is in the queue once, and exactly while its caller waits.
Waits ==
  /\ unsent = {}
  /\ \A a, b \in Seats : queue[a] = queue[b] => a = b
  /\ \A q \in Queries : answer[q] = "waiting" <=> \E a \in Seats : queue[a] = q
  /\ \A q \in Queries : answer[q] # "wrong"

\* Only the first query has a result, between that and its null.
Results ==
  /\ todo # "undefined"
  /\ \A q \in Queries : result[q] # NoResult => endNext /\ queue[1] = q
  /\ endNext => /\ todo = "reading" /\ queue # <<>>
                /\ result[queue[1]] # NoResult
                /\ result[queue[1]].of = queue[1] /\ result[queue[1]].kind # "sync"

\* The first query has the result that ends it.
Ended == endNext /\ Final(result[queue[1]])

\* The final commands are those of the queries in the queue, in its order.
InOrder ==
  /\ \A i \in Places : Final(commands[i]) => \E a \in Seats : queue[a] = commands[i].of
  /\ \A i, j \in Places : \A a, b \in Seats :
       i < j /\ Final(commands[i]) /\ Final(commands[j])
         /\ queue[a] = commands[i].of /\ queue[b] = commands[j].of
         => a < b
  /\ \A a \in Seats :
       (a = 1 /\ Ended) <=> ~\E i \in Places : Final(commands[i]) /\ commands[i].of = queue[a]

\* A PREPARE comes right before its statement, and its query knows of it.
Prepares ==
  /\ \A i \in Places : commands[i].kind = "prepare" =>
       /\ i + 1 \in Places
       /\ commands[i + 1].kind = "prepared" /\ commands[i + 1].of = commands[i].of
  /\ endNext /\ result[queue[1]].kind = "prepare" =>
       /\ result[queue[1]].outcome = "ok"
       /\ 1 \in Places /\ commands[1].kind = "prepared" /\ commands[1].of = queue[1]
  /\ \A q \in Queries : q \in preparing <=>
       \/ \E i \in Places : commands[i].kind = "prepare" /\ commands[i].of = q
       \/ endNext /\ queue[1] = q /\ result[q].kind = "prepare"

SyncBetween(i, j) == \E k \in Places : i < k /\ k < j /\ commands[k].kind = "sync"

\* A sync comes between what failed and a PREPARE.
Unskipped ==
  /\ \A i \in Places : commands[i].kind = "prepare" =>
       /\ commands[i].outcome \in {"sent", "ok"}
       /\ status = "aborted" => SyncBetween(0, i)
       /\ skipping /\ Processed < i => SyncBetween(Processed, i)
       /\ \A j \in Places : j < i /\ commands[j].outcome = "failed" => SyncBetween(j, i)
  /\ \A i \in Places : commands[i].outcome = "failed" =>
       skipping \/ \E k \in Places : i < k /\ commands[k].kind = "sync"

IInv ==
  TypeOK /\ SyncsCounted /\ Line /\ Waits /\ Results /\ InOrder /\ Prepares /\ Unskipped

-----------------------------------------------------------------------------
(***************************************************************************)
(* Counting the commands.                                                  *)
(***************************************************************************)

\* What holds of the first p elements, and of no others, holds of p.
LEMMA PrefixCounted ==
  ASSUME NEW s \in Seq(Commands), NEW p \in 0 .. Len(s),
         \A i \in 1 .. Len(s) : s[i].outcome # "sent" <=> i <= p
  PROVE  Cardinality({i \in DOMAIN s : s[i].outcome # "sent"}) = p
  <1>1. Len(s) \in Nat /\ DOMAIN s = 1 .. Len(s)
    BY LenProperties
  <1>2. {i \in DOMAIN s : s[i].outcome # "sent"} = 1 .. p
    BY <1>1
  <1>3. Cardinality(1 .. p) = p
    BY FS_Interval
  <1> QED
    BY <1>2, <1>3

\* Sets of places are finite, and no larger than the sequence is long.
LEMMA SubsetCounted ==
  ASSUME NEW s \in Seq(Commands), NEW T \in SUBSET DOMAIN s
  PROVE  IsFiniteSet(T) /\ Cardinality(T) \in 0 .. Len(s)
  <1>1. PICK n \in Nat : n = Len(s) /\ DOMAIN s = 1 .. n
    BY LenProperties
  <1>2. IsFiniteSet(1 .. n) /\ Cardinality(1 .. n) = n
    BY FS_Interval
  <1>3. IsFiniteSet(T) /\ Cardinality(T) <= Len(s)
    BY <1>1, <1>2, FS_Subset
  <1> QED
    BY <1>1, <1>3, FS_CardinalityType

\* What TypeOK says of the sequences.
LEMMA Types ==
  ASSUME TypeOK
  PROVE  /\ Len(commands) \in Nat /\ DOMAIN commands = Places
         /\ (commands = <<>> <=> Len(commands) = 0)
         /\ commands # <<>> => Head(commands) = commands[1] /\ 1 \in Places
         /\ \A i \in Places : commands[i] \in Commands
         /\ Len(queue) \in Nat /\ DOMAIN queue = Seats
         /\ (queue = <<>> <=> Len(queue) = 0)
         /\ queue # <<>> => Head(queue) = queue[1] /\ 1 \in Seats
         /\ \A a \in Seats : queue[a] \in Queries
         /\ Processed \in 0 .. Len(commands)
         /\ IsFiniteSet(SyncsAt) /\ Cardinality(SyncsAt) \in Nat
  <1>1. commands \in Seq(Commands) /\ queue \in Seq(Queries)
    BY DEF TypeOK
  <1>2. /\ Len(commands) \in Nat /\ DOMAIN commands = Places
        /\ Len(queue) \in Nat /\ DOMAIN queue = Seats
    BY <1>1, LenProperties DEF Places, Seats
  <1>3. (commands = <<>> <=> Len(commands) = 0) /\ (queue = <<>> <=> Len(queue) = 0)
    BY <1>1, EmptySeq
  <1>4. /\ commands # <<>> => Head(commands) = commands[1] /\ 1 \in Places
        /\ queue # <<>> => Head(queue) = queue[1] /\ 1 \in Seats
    BY <1>1, <1>2, <1>3, HeadTailProperties DEF Places, Seats
  <1>5. (\A i \in Places : commands[i] \in Commands) /\ (\A a \in Seats : queue[a] \in Queries)
    BY <1>1, <1>2, ElementOfSeq DEF Places, Seats
  <1>6. Processed \in 0 .. Len(commands)
    BY <1>1, SubsetCounted DEF Processed
  <1>7. IsFiniteSet(SyncsAt) /\ Cardinality(SyncsAt) \in Nat
    BY <1>1, <1>2, SubsetCounted DEF SyncsAt
  <1> QED
    BY <1>2, <1>3, <1>4, <1>5, <1>6, <1>7

-----------------------------------------------------------------------------
(***************************************************************************)
(* Steps that send nothing and take nothing.                               *)
(***************************************************************************)

\* What moves neither a query nor a command, and aborts nothing, keeps the invariant.
LEMMA Still ==
  ASSUME IInv, TypeOK',
         UNCHANGED <<queue, unsent, preparing, result, syncs, commands, endNext, skipping,
                     answer>>,
         status' = "aborted" => status = "aborted",
         todo' # "undefined", endNext => todo' = "reading"
  PROVE  IInv'
  <1> USE DEF IInv
  <1>1. SyncsCounted' /\ Line'
    BY DEF SyncsCounted, Line, Places, Processed
  <1>2. Waits'
    BY DEF Waits, Seats
  <1>3. Results'
    BY DEF Results
  <1>4. InOrder'
    BY DEF InOrder, Places, Seats, Ended, Final
  <1>5. Prepares'
    BY DEF Prepares, Places
  <1>6. Unskipped'
    <2>1. \A i, j \in Int : SyncBetween(i, j)' <=> SyncBetween(i, j)
      BY DEF SyncBetween, Places
    <2>2. /\ Places' = Places /\ commands' = commands /\ skipping' = skipping
          /\ Processed' = Processed
      BY DEF Places, Processed
    <2>3. Places \subseteq Int /\ Processed \in Int /\ 0 \in Int
      BY Types DEF Places
    <2> QED
      BY <2>1, <2>2, <2>3 DEF Unskipped
  <1> QED
    BY <1>1, <1>2, <1>3, <1>4, <1>5, <1>6

-----------------------------------------------------------------------------
(***************************************************************************)
(* The server.                                                             *)
(***************************************************************************)

\* The server is done with the next command.
Marks(o) ==
  /\ ToRun /\ Mark(o)
  /\ UNCHANGED <<driver, endNext, status, todo, answer, buffered>>
  /\ flushed' \in {flushed, Processed + 1} /\ {skipping', known'} \subseteq BOOLEAN

\* The server has taken one more command, and the commands are otherwise the same.
LEMMA MarkedLine ==
  ASSUME IInv, NEW o \in {"ok", "failed", "skipped"}, Marks(o)
  PROVE  /\ commands' \in Seq(Commands) /\ Places' = Places /\ DOMAIN commands' = DOMAIN commands
         /\ Processed + 1 \in Places /\ Processed \in Nat /\ Processed' = Processed + 1
         /\ commands'[Processed + 1].outcome = o
         /\ \A i \in Places :
              /\ commands'[i].kind = commands[i].kind /\ commands'[i].of = commands[i].of
              /\ i # Processed + 1 => commands'[i].outcome = commands[i].outcome
  <1> DEFINE p == Processed
  <1>1. /\ commands \in Seq(Commands) /\ Len(commands) \in Nat /\ DOMAIN commands = Places
        /\ p \in 0 .. Len(commands)
        /\ \A i \in Places : commands[i] \in Commands
    BY Types DEF IInv, TypeOK
  <1>2. /\ p < Len(commands) /\ commands' = [commands EXCEPT ![p + 1].outcome = o]
    BY DEF Marks, Mark, ToRun
  <1> HIDE DEF p
  <1>3. p + 1 \in Places /\ p \in Nat
    BY <1>1, <1>2 DEF Places
  <1>4. DOMAIN commands' = Places /\ commands'[p + 1] = [commands[p + 1] EXCEPT !.outcome = o]
        /\ \A i \in Places : i # p + 1 => commands'[i] = commands[i]
    BY <1>1, <1>2, <1>3
  <1>5. /\ commands'[p + 1] \in Commands /\ commands'[p + 1].outcome = o
        /\ commands'[p + 1].kind = commands[p + 1].kind
        /\ commands'[p + 1].of = commands[p + 1].of
    BY <1>1, <1>3, <1>4 DEF Commands
  <1>6. commands' \in Seq(Commands) /\ Len(commands') = Len(commands)
    <2>1. \A i \in 1 .. Len(commands) : commands'[i] \in Commands
      BY <1>1, <1>4, <1>5 DEF Places
    <2>2. commands' = [i \in 1 .. Len(commands) |-> commands'[i]]
      BY <1>1, <1>2 DEF Places
    <2>3. commands' \in [1 .. Len(commands) -> Commands]
      BY <2>1, <2>2
    <2> QED
      BY <1>1, <2>3, SeqDef, LenProperties
  <1>7. Processed' = p + 1
    <2>1. \A i \in 1 .. Len(commands) : commands'[i].outcome # "sent" <=> i <= p + 1
      <3> SUFFICES ASSUME NEW i \in Places
                   PROVE  commands'[i].outcome # "sent" <=> i <= p + 1
        BY DEF Places
      <3>1. CASE i = p + 1
        BY <1>5, <3>1, <1>3
      <3>2. CASE i # p + 1
        <4>1. commands[i].outcome # "sent" <=> i <= p
          BY DEF IInv, Line, p
        <4>2. i \in Int /\ p \in Int
          BY <1>3 DEF Places
        <4> QED
          BY <1>4, <3>2, <4>1, <4>2
      <3> QED
        BY <3>1, <3>2
    <2>2. p + 1 \in 0 .. Len(commands')
      BY <1>1, <1>3, <1>6 DEF Places
    <2>3. Cardinality({i \in DOMAIN commands' : commands'[i].outcome # "sent"}) = p + 1
      BY <1>6, <2>1, <2>2, PrefixCounted
    <2> QED
      BY <2>3 DEF Processed
  <1>8. Places' = Places
    BY <1>6 DEF Places
  <1> QED
    BY <1>1, <1>3, <1>4, <1>5, <1>6, <1>7, <1>8 DEF p

\* Whatever became of that command, only Unskipped is in question.
LEMMA Marked ==
  ASSUME IInv, NEW o \in {"ok", "failed", "skipped"}, Marks(o)
  PROVE  /\ TypeOK' /\ SyncsCounted' /\ Line' /\ Waits' /\ Results' /\ InOrder' /\ Prepares'
         /\ \A i, j \in Int : SyncBetween(i, j)' <=> SyncBetween(i, j)
  <1>1. /\ commands' \in Seq(Commands) /\ Places' = Places /\ DOMAIN commands' = DOMAIN commands
        /\ Processed + 1 \in Places /\ Processed \in Nat /\ Processed' = Processed + 1
        /\ commands'[Processed + 1].outcome = o
        /\ \A i \in Places :
             /\ commands'[i].kind = commands[i].kind /\ commands'[i].of = commands[i].of
             /\ i # Processed + 1 => commands'[i].outcome = commands[i].outcome
    BY MarkedLine
  <1>2. UNCHANGED <<queue, unsent, preparing, result, prepared, queryRunning, syncs, autoSync,
                    endNext, status, todo, answer, buffered>>
    BY DEF Marks, driver
  <1>3. DOMAIN commands = Places /\ \A i \in Places : i \in Int
    BY Types DEF IInv, Places
  <1>4. TypeOK'
    <2>1. flushed \in 0 .. Processed /\ buffered \in 0 .. flushed
      BY DEF IInv, TypeOK
    <2>2. flushed' \in 0 .. Processed' /\ buffered' \in 0 .. flushed'
      BY <1>1, <1>2, <2>1 DEF Marks
    <2> QED
      BY <1>1, <1>2, <2>2 DEF IInv, TypeOK, Marks
  <1>5. SyncsCounted'
    <2>1. {i \in DOMAIN commands : commands[i].kind = "sync"}'
            = {i \in DOMAIN commands : commands[i].kind = "sync"}
      BY <1>1, <1>3
    <2> QED
      BY <1>2, <2>1 DEF IInv, SyncsCounted
  <1>6. Line'
    <2> SUFFICES ASSUME NEW i \in Places
                 PROVE  /\ commands'[i].outcome # "sent" <=> i <= Processed + 1
                        /\ commands'[i].kind # "sync" => commands'[i].of \in Queries
      BY <1>1 DEF Line
    <2>1. /\ commands[i].outcome # "sent" <=> i <= Processed
          /\ commands[i].kind # "sync" => commands[i].of \in Queries
      BY DEF IInv, Line
    <2>2. CASE i = Processed + 1
      BY <1>1, <2>1, <2>2
    <2>3. CASE i # Processed + 1
      BY <1>1, <1>3, <2>1, <2>3
    <2> QED
      BY <2>2, <2>3
  <1>7. Waits' /\ Results'
    BY <1>2 DEF IInv, Waits, Results, Seats
  <1>8. InOrder'
    <2>1. \A i \in Places : Final(commands[i])' <=> Final(commands[i])
      BY <1>1 DEF Final
    <2>2. Ended' <=> Ended
      BY <1>2 DEF Ended, Final
    <2> QED
      BY <1>1, <1>2, <2>1, <2>2 DEF IInv, InOrder, Seats
  <1>9. Prepares'
    BY <1>1, <1>2 DEF IInv, Prepares
  <1>10. \A i, j \in Int : SyncBetween(i, j)' <=> SyncBetween(i, j)
    BY <1>1 DEF SyncBetween
  <1> QED
    BY <1>4, <1>5, <1>6, <1>7, <1>8, <1>9, <1>10

\* A sync ends what is skipped.
LEMMA ServerSyncsStep ==
  ASSUME IInv, ServerSyncs
  PROVE  IInv'
  <1>0. PICK p \in Nat : p = Processed
    BY Types DEF IInv
  <1>1. Marks("ok")
    BY Types DEF ServerSyncs, Marks, IInv, TypeOK
  <1>2. /\ TypeOK' /\ SyncsCounted' /\ Line' /\ Waits' /\ Results' /\ InOrder' /\ Prepares'
        /\ \A i, j \in Int : SyncBetween(i, j)' <=> SyncBetween(i, j)
    BY <1>1, Marked
  <1>3. /\ Places' = Places /\ p + 1 \in Places /\ p \in Nat
        /\ \A i \in Places : /\ commands'[i].kind = commands[i].kind
                             /\ i # p + 1 => commands'[i].outcome = commands[i].outcome
        /\ commands'[p + 1].outcome = "ok" /\ commands[p + 1].kind = "sync"
    BY <1>0, <1>1, MarkedLine DEF ServerSyncs, NextCommand
  <1>4. /\ ~skipping' /\ status' = status
        /\ \A i \in Places : i \in Int
    BY DEF ServerSyncs, Places
  <1>5. \A i \in Places : commands[i].outcome = "failed" => i <= p
    BY <1>0 DEF IInv, Line
  <1>6. Unskipped'
    <2>1. ASSUME NEW i \in Places, commands'[i].kind = "prepare"
          PROVE  /\ commands'[i].outcome \in {"sent", "ok"}
                 /\ status' = "aborted" => SyncBetween(0, i)'
                 /\ \A j \in Places : j < i /\ commands'[j].outcome = "failed"
                      => SyncBetween(j, i)'
      <3>1. /\ commands[i].kind = "prepare" /\ commands[i].outcome \in {"sent", "ok"}
            /\ status = "aborted" => SyncBetween(0, i)
            /\ \A j \in Places : j < i /\ commands[j].outcome = "failed" => SyncBetween(j, i)
        BY <1>3, <2>1 DEF IInv, Unskipped
      <3> QED
        BY <1>2, <1>3, <1>4, <3>1
    <2>2. ASSUME NEW i \in Places, commands'[i].outcome = "failed"
          PROVE  \E k \in Places : i < k /\ commands'[k].kind = "sync"
      <3>1. i # p + 1 /\ commands[i].outcome = "failed"
        BY <1>3, <2>2
      <3>2. i < p + 1
        BY <1>3, <1>4, <1>5, <3>1
      <3> QED
        BY <1>3, <3>2
    <2> QED
      BY <1>3, <1>4, <2>1, <2>2 DEF Unskipped
  <1> QED
    BY <1>2, <1>6 DEF IInv

\* No PREPARE is skipped: a sync would come before it.
LEMMA ServerSkipsStep ==
  ASSUME IInv, ServerSkips
  PROVE  IInv'
  <1>0. PICK p \in Nat : p = Processed
    BY Types DEF IInv
  <1>1. Marks("skipped")
    BY Types DEF ServerSkips, Marks, IInv, TypeOK, server
  <1>2. /\ TypeOK' /\ SyncsCounted' /\ Line' /\ Waits' /\ Results' /\ InOrder' /\ Prepares'
        /\ \A i, j \in Int : SyncBetween(i, j)' <=> SyncBetween(i, j)
    BY <1>1, Marked
  <1>3. /\ Places' = Places /\ p + 1 \in Places /\ p \in Nat /\ Processed' = p + 1
        /\ \A i \in Places : /\ commands'[i].kind = commands[i].kind
                             /\ i # p + 1 => commands'[i].outcome = commands[i].outcome
        /\ commands'[p + 1].outcome = "skipped" /\ commands[p + 1].kind # "sync"
    BY <1>0, <1>1, MarkedLine DEF ServerSkips, NextCommand
  <1>4. /\ skipping /\ skipping' /\ status' = status
        /\ \A i \in Places : i \in Int
    BY DEF ServerSkips, server, Places
  <1>5. ASSUME NEW i \in Places, commands[i].kind = "prepare"
        PROVE  /\ i # p + 1
               /\ p + 1 < i => SyncBetween(p + 1, i)
    <2>1. p < i => SyncBetween(p, i)
      BY <1>0, <1>4, <1>5 DEF IInv, Unskipped
    <2>2. ~SyncBetween(p, p + 1)
      BY <1>3, <1>4 DEF SyncBetween
    <2>3. SyncBetween(p, i) => SyncBetween(p + 1, i)
      BY <1>3, <1>4 DEF SyncBetween
    <2> QED
      BY <1>3, <1>4, <2>1, <2>2, <2>3
  <1>6. Unskipped'
    <2>1. ASSUME NEW i \in Places, commands'[i].kind = "prepare"
          PROVE  /\ commands'[i].outcome \in {"sent", "ok"}
                 /\ status' = "aborted" => SyncBetween(0, i)'
                 /\ p + 1 < i => SyncBetween(p + 1, i)'
                 /\ \A j \in Places : j < i /\ commands'[j].outcome = "failed"
                      => SyncBetween(j, i)'
      <3>1. /\ commands[i].kind = "prepare" /\ commands[i].outcome \in {"sent", "ok"}
            /\ status = "aborted" => SyncBetween(0, i)
            /\ \A j \in Places : j < i /\ commands[j].outcome = "failed" => SyncBetween(j, i)
        BY <1>3, <2>1 DEF IInv, Unskipped
      <3>2. i # p + 1 /\ (p + 1 < i => SyncBetween(p + 1, i))
        BY <1>5, <3>1
      <3>3. \A j \in Places : j < i /\ commands'[j].outcome = "failed" => SyncBetween(j, i)
        BY <1>3, <3>1
      <3> QED
        BY <1>2, <1>3, <1>4, <3>1, <3>2, <3>3
    <2> QED
      BY <1>3, <1>4, <2>1 DEF Unskipped
  <1> QED
    BY <1>2, <1>6 DEF IInv

\* Nothing fails.
LEMMA ServerRunsStep ==
  ASSUME IInv, ServerRuns
  PROVE  IInv'
  <1>0. PICK p \in Nat : p = Processed
    BY Types DEF IInv
  <1>1. Marks("ok")
    BY Types DEF ServerRuns, Marks, IInv, TypeOK
  <1>2. /\ TypeOK' /\ SyncsCounted' /\ Line' /\ Waits' /\ Results' /\ InOrder' /\ Prepares'
        /\ \A i, j \in Int : SyncBetween(i, j)' <=> SyncBetween(i, j)
    BY <1>1, Marked
  <1>3. /\ Places' = Places /\ p + 1 \in Places /\ p \in Nat
        /\ \A i \in Places : /\ commands'[i].kind = commands[i].kind
                             /\ i # p + 1 => commands'[i].outcome = commands[i].outcome
        /\ commands'[p + 1].outcome = "ok"
    BY <1>0, <1>1, MarkedLine
  <1>4. /\ ~skipping /\ ~skipping' /\ status' = status
        /\ \A i \in Places : i \in Int
    BY DEF ServerRuns, Places
  <1>5. Unskipped'
    <2>1. ASSUME NEW i \in Places, commands'[i].kind = "prepare"
          PROVE  /\ commands'[i].outcome \in {"sent", "ok"}
                 /\ status' = "aborted" => SyncBetween(0, i)'
                 /\ \A j \in Places : j < i /\ commands'[j].outcome = "failed"
                      => SyncBetween(j, i)'
      <3>1. /\ commands[i].kind = "prepare" /\ commands[i].outcome \in {"sent", "ok"}
            /\ status = "aborted" => SyncBetween(0, i)
            /\ \A j \in Places : j < i /\ commands[j].outcome = "failed" => SyncBetween(j, i)
        BY <1>3, <2>1 DEF IInv, Unskipped
      <3> QED
        BY <1>2, <1>3, <1>4, <3>1
    <2>2. ASSUME NEW i \in Places, commands'[i].outcome = "failed"
          PROVE  \E k \in Places : i < k /\ commands'[k].kind = "sync"
      <3>1. commands[i].outcome = "failed"
        BY <1>3, <2>2
      <3> QED
        BY <1>3, <1>4, <3>1 DEF IInv, Unskipped
    <2> QED
      BY <1>3, <1>4, <2>1, <2>2 DEF Unskipped
  <1> QED
    BY <1>2, <1>5 DEF IInv

\* In the circumstances of the run no statement is prepared in what is skipped now.
LEMMA ServerFailsStep ==
  ASSUME IInv, Careful, ServerFails
  PROVE  IInv'
  <1>0. PICK p \in Nat : p = Processed
    BY Types DEF IInv
  <1>1. Marks("failed")
    BY Types DEF ServerFails, Marks, IInv, TypeOK
  <1>2. /\ TypeOK' /\ SyncsCounted' /\ Line' /\ Waits' /\ Results' /\ InOrder' /\ Prepares'
        /\ \A i, j \in Int : SyncBetween(i, j)' <=> SyncBetween(i, j)
    BY <1>1, Marked
  <1>3. /\ Places' = Places /\ p + 1 \in Places /\ p \in Nat /\ Processed' = p + 1
        /\ \A i \in Places : /\ commands'[i].kind = commands[i].kind
                             /\ i # p + 1 => commands'[i].outcome = commands[i].outcome
        /\ commands'[p + 1].outcome = "failed" /\ commands[p + 1].kind # "sync"
    BY <1>0, <1>1, MarkedLine DEF ServerFails, NextCommand
  <1>4. /\ skipping' /\ status' = status
        /\ \A i \in Places : i \in Int
    BY DEF ServerFails, Places
  <1>5. ASSUME NEW i \in Places, commands[i].kind = "prepare"
        PROVE  /\ i # p + 1
               /\ p + 1 < i => SyncBetween(p + 1, i)
    <2>1. CASE p + 1 <= i
      <3>1. i \in p + 1 .. Len(commands)
        BY <1>3, <2>1 DEF Places
      <3>2. PICK j \in p + 1 .. i : commands[j].kind = "sync"
        BY <1>0, <1>5, <3>1 DEF ServerFails, PrepareSkipped, Careful
      <3>3. j # i /\ j # p + 1
        BY <1>3, <1>5, <3>2
      <3>4. j \in Places /\ p + 1 < j /\ j < i
        BY <1>3, <1>4, <3>2, <3>3 DEF Places
      <3> QED
        BY <1>3, <1>4, <3>2, <3>4 DEF SyncBetween
    <2>2. CASE ~(p + 1 <= i)
      BY <1>3, <1>4, <2>2
    <2> QED
      BY <2>1, <2>2
  <1>6. Unskipped'
    <2>1. ASSUME NEW i \in Places, commands'[i].kind = "prepare"
          PROVE  /\ commands'[i].outcome \in {"sent", "ok"}
                 /\ status' = "aborted" => SyncBetween(0, i)'
                 /\ p + 1 < i => SyncBetween(p + 1, i)'
                 /\ \A j \in Places : j < i /\ commands'[j].outcome = "failed"
                      => SyncBetween(j, i)'
      <3>1. /\ commands[i].kind = "prepare" /\ commands[i].outcome \in {"sent", "ok"}
            /\ status = "aborted" => SyncBetween(0, i)
            /\ \A j \in Places : j < i /\ commands[j].outcome = "failed" => SyncBetween(j, i)
        BY <1>3, <2>1 DEF IInv, Unskipped
      <3>2. i # p + 1 /\ (p + 1 < i => SyncBetween(p + 1, i))
        BY <1>5, <3>1
      <3>3. ASSUME NEW j \in Places, j < i, commands'[j].outcome = "failed"
            PROVE  SyncBetween(j, i)
        <4>1. CASE j = p + 1
          BY <3>2, <3>3, <4>1
        <4>2. CASE j # p + 1
          BY <1>3, <3>1, <3>3, <4>2
        <4> QED
          BY <4>1, <4>2
      <3> QED
        BY <1>2, <1>3, <1>4, <3>1, <3>2, <3>3
    <2> QED
      BY <1>3, <1>4, <2>1 DEF Unskipped
  <1> QED
    BY <1>2, <1>6 DEF IInv

-----------------------------------------------------------------------------
(***************************************************************************)
(* The application sends.                                                  *)
(***************************************************************************)

\* Commands are added at the end.
Extended(m) ==
  /\ commands' \in Seq(Commands) /\ Len(commands') = Len(commands) + m
  /\ \A i \in Places : commands'[i] = commands[i]
  /\ \A i \in Places' \ Places : commands'[i].outcome = "sent"
  /\ UNCHANGED <<status, endNext, result, skipping, todo, buffered, flushed, known>>

\* What was there stays where it was, and what is new was not taken.
LEMMA ExtendedLine ==
  ASSUME IInv, NEW m \in Nat, Extended(m)
  PROVE  /\ Places' = 1 .. Len(commands) + m /\ DOMAIN commands' = Places'
         /\ Places \subseteq Places' /\ Places' \subseteq Nat
         /\ \A i \in Places' \ Places : \A j \in Places : j < i
         /\ Processed' = Processed
         /\ \A i, j \in Int : SyncBetween(i, j) => SyncBetween(i, j)'
  <1>1. /\ Len(commands) \in Nat /\ Processed \in 0 .. Len(commands)
    BY Types DEF IInv
  <1>2. Places' = 1 .. Len(commands) + m /\ DOMAIN commands' = Places'
    <2>1. commands' \in Seq(Commands)
      BY DEF Extended
    <2>2. DOMAIN commands' = 1 .. Len(commands')
      BY <2>1, LenProperties
    <2> QED
      BY <2>2 DEF Extended, Places
  <1>3. /\ Places \subseteq Places' /\ Places' \subseteq Nat
        /\ \A i \in Places' \ Places : \A j \in Places : j < i
        /\ \A i \in Places' \ Places : Len(commands) < i
    <2>1. PICK n \in Nat : n = Len(commands)
      BY <1>1
    <2>2. Places = 1 .. n /\ Places' = 1 .. n + m
      BY <1>2, <2>1 DEF Places
    <2> QED
      BY <2>1, <2>2
  <1>4. Processed' = Processed
    <2>1. PICK p \in 0 .. Len(commands) : p = Processed
      BY <1>1
    <2>2. \A i \in Places : commands[i].outcome # "sent" <=> i <= p
      BY <2>1 DEF IInv, Line
    <2>3. \A i \in Places' : commands'[i].outcome # "sent" <=> i <= p
      <3> SUFFICES ASSUME NEW i \in Places' PROVE commands'[i].outcome # "sent" <=> i <= p
        OBVIOUS
      <3>1. CASE i \in Places
        BY <2>2, <3>1 DEF Extended
      <3>2. CASE i \notin Places
        <4>1. i \in Nat /\ Len(commands) < i
          BY <1>3, <3>2
        <4>2. ~(i <= p)
          BY <1>1, <2>1, <4>1
        <4> QED
          BY <3>2, <4>2 DEF Extended
      <3> QED
        BY <3>1, <3>2
    <2>4. /\ \A i \in 1 .. Len(commands') : commands'[i].outcome # "sent" <=> i <= p
          /\ p \in 0 .. Len(commands') /\ commands' \in Seq(Commands)
      BY <1>1, <1>2, <2>1, <2>3 DEF Extended
    <2>5. Cardinality({i \in DOMAIN commands' : commands'[i].outcome # "sent"}) = p
      BY <2>4, PrefixCounted
    <2> QED
      BY <2>1, <2>5 DEF Processed
  <1>5. ASSUME NEW i \in Int, NEW j \in Int, SyncBetween(i, j)
        PROVE  SyncBetween(i, j)'
    BY <1>3, <1>5 DEF SyncBetween, Extended
  <1> QED
    BY <1>2, <1>3, <1>4, <1>5

\* A sync is sent.
LEMMA SyncSent ==
  ASSUME IInv, pipelineSync, autoSync' \in {"none", "idle", "active"}
  PROVE  IInv'
  <1>0. PICK n \in Nat : n = Len(commands) /\ Places = 1 .. n
    BY Types DEF IInv, Places
  <1>1. commands \in Seq(Commands) /\ SyncCommand \in Commands
    BY DEF IInv, TypeOK, SyncCommand, Command, Commands
  <1>2. SyncCommand.kind = "sync" /\ SyncCommand.outcome = "sent"
    BY DEF SyncCommand, Command
  <1>3. /\ commands' \in Seq(Commands) /\ Len(commands') = n + 1
        /\ \A i \in Places : commands'[i] = commands[i]
        /\ commands'[n + 1] = SyncCommand
    BY <1>0, <1>1, AppendProperties DEF pipelineSync
  <1>4. Places' = 1 .. n + 1
    BY <1>3 DEF Places
  <1>5. Places' = Places \cup {n + 1} /\ n + 1 \notin Places
    BY <1>0, <1>4
  <1>6. Extended(1)
    BY <1>0, <1>2, <1>3, <1>5 DEF Extended, pipelineSync, server
  <1>7. /\ DOMAIN commands' = Places' /\ Places' \subseteq Nat
        /\ \A i \in Places : i < n + 1
        /\ Processed' = Processed
        /\ \A i, j \in Int : SyncBetween(i, j) => SyncBetween(i, j)'
    BY <1>0, <1>5, <1>6, ExtendedLine
  <1>8. UNCHANGED <<queue, unsent, preparing, result, prepared, queryRunning, status, endNext,
                    buffered, flushed, skipping, known, todo, answer>>
    BY DEF pipelineSync, server
  <1>9. syncs \in Nat /\ syncs' = syncs + 1
    BY DEF IInv, TypeOK, pipelineSync
  <1>10. TypeOK'
    BY <1>3, <1>7, <1>8, <1>9 DEF IInv, TypeOK
  <1>11. SyncsCounted'
    <2>1. SyncsAt' = SyncsAt \cup {n + 1} /\ n + 1 \notin SyncsAt
      <3>1. DOMAIN commands = Places
        BY Types DEF IInv
      <3> QED
        BY <1>2, <1>3, <1>5, <1>7, <3>1 DEF SyncsAt
    <2>2. Cardinality(SyncsAt') = Cardinality(SyncsAt) + 1
      BY <2>1, Types, FS_AddElement DEF IInv
    <2> QED
      BY <1>9, <2>2 DEF IInv, SyncsCounted, SyncsAt
  <1>12. Line'
    BY <1>2, <1>3, <1>5, <1>6, <1>7, Types DEF IInv, Line
  <1>13. Waits' /\ Results'
    BY <1>8 DEF IInv, Waits, Results, Seats
  <1>14. InOrder'
    <2>1. /\ \A i \in Places : Final(commands[i])' <=> Final(commands[i])
          /\ ~Final(commands[n + 1])'
      BY <1>2, <1>3 DEF Final
    <2>2. Ended' <=> Ended
      BY <1>8 DEF Ended, Final
    <2>3. Seats' = Seats
      BY <1>8 DEF Seats
    <2>4. \A i \in Places' : Final(commands[i])' => i \in Places /\ commands'[i] = commands[i]
      BY <1>3, <1>5, <2>1
    <2>5. \A i \in Places : commands'[i] = commands[i] /\ i \in Places'
      BY <1>3, <1>5
    <2>6. queue' = queue
      BY <1>8
    <2>7. \A i \in Places' : Final(commands[i])' => \E a \in Seats' : queue'[a] = commands'[i].of
      BY <2>1, <2>3, <2>4, <2>6 DEF IInv, InOrder
    <2>8. ASSUME NEW i \in Places', NEW j \in Places', NEW a \in Seats', NEW b \in Seats',
                 i < j, Final(commands[i])', Final(commands[j])',
                 queue'[a] = commands'[i].of, queue'[b] = commands'[j].of
          PROVE  a < b
      BY <2>1, <2>3, <2>4, <2>6, <2>8 DEF IInv, InOrder
    <2>9. ASSUME NEW a \in Seats'
          PROVE  (\E i \in Places' : Final(commands[i])' /\ commands'[i].of = queue'[a])
                 <=> \E i \in Places : Final(commands[i]) /\ commands[i].of = queue[a]
      BY <2>1, <2>4, <2>5, <2>6
    <2>10. \A a \in Seats :
             (a = 1 /\ Ended) <=> ~\E i \in Places : Final(commands[i]) /\ commands[i].of = queue[a]
      BY DEF IInv, InOrder
    <2>11. \A a \in Seats' :
             (a = 1 /\ Ended')
             <=> ~\E i \in Places' : Final(commands[i])' /\ commands'[i].of = queue'[a]
      BY <2>2, <2>3, <2>9, <2>10
    <2> QED
      BY <2>7, <2>8, <2>11 DEF InOrder
  <1>15. Prepares'
    <2>1. commands'[n + 1].kind = "sync"
      BY <1>2, <1>3
    <2>2. \A i \in Places : i + 1 \in Places => i + 1 \in Places' /\ commands'[i + 1] = commands[i + 1]
      BY <1>3, <1>5
    <2> QED
      BY <1>3, <1>5, <1>8, <2>1, <2>2 DEF IInv, Prepares
  <1>16. Unskipped'
    <2>1. ASSUME NEW i \in Places', commands'[i].kind = "prepare"
          PROVE  /\ commands'[i].outcome \in {"sent", "ok"}
                 /\ status' = "aborted" => SyncBetween(0, i)'
                 /\ skipping' /\ Processed' < i => SyncBetween(Processed, i)'
                 /\ \A j \in Places' : j < i /\ commands'[j].outcome = "failed"
                      => SyncBetween(j, i)'
      <3>1. i \in Places /\ commands'[i] = commands[i]
        BY <1>2, <1>3, <1>5, <2>1
      <3>2. /\ commands[i].outcome \in {"sent", "ok"}
            /\ status = "aborted" => SyncBetween(0, i)
            /\ skipping /\ Processed < i => SyncBetween(Processed, i)
            /\ \A j \in Places : j < i /\ commands[j].outcome = "failed" => SyncBetween(j, i)
        BY <2>1, <3>1 DEF IInv, Unskipped
      <3>3. i \in Int /\ Processed \in Int /\ 0 \in Int /\ (\A j \in Places : j \in Int)
        BY <1>5, <1>7, Types DEF IInv
      <3>4. SyncBetween(Processed, i) => SyncBetween(Processed, i)'
        <4>1. PICK p \in Int : p = Processed
          BY <3>3
        <4>2. SyncBetween(p, i) => SyncBetween(p, i)'
          BY <1>7, <3>3, <4>1
        <4>3. p = Processed'
          BY <1>7, <4>1
        <4> QED
          BY <4>1, <4>2, <4>3
      <3>5. ASSUME NEW j \in Places', j < i, commands'[j].outcome = "failed"
            PROVE  SyncBetween(j, i)'
        <4>1. j \in Places
          BY <1>2, <1>3, <1>5, <3>5
        <4> QED
          BY <1>3, <1>7, <3>2, <3>3, <3>5, <4>1
      <3> QED
        BY <1>7, <1>8, <3>1, <3>2, <3>3, <3>4, <3>5
    <2>2. ASSUME NEW i \in Places', commands'[i].outcome = "failed"
          PROVE  \E k \in Places' : i < k /\ commands'[k].kind = "sync"
      <3>1. i \in Places
        BY <1>2, <1>3, <1>5, <2>2
      <3> QED
        BY <1>2, <1>3, <1>5, <1>7, <3>1
    <2> QED
      BY <2>1, <2>2 DEF Unskipped
  <1> QED
    BY <1>10, <1>11, <1>12, <1>13, <1>14, <1>15, <1>16 DEF IInv

\* One command is added, or the PREPARE of a new statement before it.
Adds(m, n, q, k) ==
  /\ commands' \in Seq(Commands) /\ Len(commands') = n + m
  /\ \A i \in Places : commands'[i] = commands[i]
  /\ commands'[n + m].kind = k /\ commands'[n + m].of = q
  /\ commands'[n + m].outcome = "sent"
  /\ IF k = "prepared" /\ ~prepared
       THEN m = 2 /\ commands'[n + 1] = Command("prepare", q)
       ELSE m = 1

\* What exec() sends.
LEMMA SentIs ==
  ASSUME IInv, NEW q \in Queries, NEW k \in {"plain", "prepared"}, status = "on",
         NEW n \in Nat, n = Len(commands), commands' = commands \o Sent(q, k)
  PROVE  \E m \in {1, 2} : Adds(m, n, q, k)
  <1>1. commands \in Seq(Commands)
    BY DEF IInv, TypeOK
  <1>2. ASSUME NEW s \in Seq(Commands), NEW m \in {1, 2}, Len(s) = m, commands' = commands \o s
        PROVE  /\ commands' \in Seq(Commands) /\ Len(commands') = n + m
               /\ \A i \in Places : commands'[i] = commands[i]
               /\ \A i \in 1 .. m : commands'[n + i] = s[i]
    <2>1. /\ commands' \in Seq(Commands) /\ Len(commands') = n + m
          /\ \A i \in 1 .. n + m : commands'[i] = IF i <= n THEN commands[i] ELSE s[i - n]
      BY <1>1, <1>2, ConcatProperties
    <2>2. ASSUME NEW i \in 1 .. m PROVE commands'[n + i] = s[i]
      <3>1. n + i \in 1 .. n + m /\ ~(n + i <= n) /\ (n + i) - n = i
        OBVIOUS
      <3> QED
        BY <2>1, <3>1
    <2>3. ASSUME NEW i \in Places PROVE commands'[i] = commands[i]
      <3>1. i \in 1 .. n + m /\ i <= n
        BY DEF Places
      <3> QED
        BY <2>1, <3>1
    <2> QED
      BY <2>1, <2>2, <2>3
  <1>3. \A kind \in {"plain", "prepared", "prepare"} :
          /\ Command(kind, q) \in Commands
          /\ Command(kind, q).kind = kind /\ Command(kind, q).of = q
          /\ Command(kind, q).outcome = "sent"
    BY DEF Command, Commands
  <1>4. CASE k = "prepared" /\ ~prepared
    <2> DEFINE a == Command("prepare", q)
               b == Command("prepared", q)
    <2>1. Sent(q, k) = <<a, b>>
      BY <1>4 DEF Sent
    <2>2. /\ a \in Commands /\ b \in Commands
          /\ b.kind = "prepared" /\ b.of = q /\ b.outcome = "sent"
      BY <1>3
    <2> HIDE DEF a, b
    <2> DEFINE s == <<a, b>>
    <2>3. s \in Seq(Commands) /\ Len(s) = 2 /\ s[1] = a /\ s[2] = b
      BY <2>2
    <2>4. commands' = commands \o s /\ 2 \in {1, 2} /\ 1 \in 1 .. 2 /\ 2 \in 1 .. 2
      BY <2>1
    <2> HIDE DEF s
    <2>5. /\ commands' \in Seq(Commands) /\ Len(commands') = n + 2
          /\ \A i \in Places : commands'[i] = commands[i]
          /\ \A i \in 1 .. 2 : commands'[n + i] = s[i]
      BY <1>2, <2>3, <2>4
    <2>6. commands'[n + 1] = a /\ commands'[n + 2] = b
      BY <2>3, <2>4, <2>5
    <2>7. Adds(2, n, q, k)
      BY <1>4, <2>2, <2>5, <2>6 DEF Adds, a
    <2> QED
      BY <2>7
  <1>5. CASE ~(k = "prepared" /\ ~prepared)
    <2> DEFINE b == Command(k, q)
    <2>1. Sent(q, k) = <<b>>
      BY <1>5 DEF Sent
    <2>2. b \in Commands /\ b.kind = k /\ b.of = q /\ b.outcome = "sent"
      BY <1>3
    <2> HIDE DEF b
    <2> DEFINE s == <<b>>
    <2>3. s \in Seq(Commands) /\ Len(s) = 1 /\ s[1] = b
      BY <2>2
    <2>4. commands' = commands \o s /\ 1 \in {1, 2} /\ 1 \in 1 .. 1
      BY <2>1
    <2> HIDE DEF s
    <2>5. /\ commands' \in Seq(Commands) /\ Len(commands') = n + 1
          /\ \A i \in Places : commands'[i] = commands[i]
          /\ \A i \in 1 .. 1 : commands'[n + i] = s[i]
      BY <1>2, <2>3, <2>4
    <2>6. commands'[n + 1] = b
      BY <2>3, <2>4, <2>5
    <2>7. Adds(1, n, q, k)
      BY <1>5, <2>2, <2>5, <2>6 DEF Adds
    <2> QED
      BY <2>7
  <1> QED
    BY <1>4, <1>5

\* exec() puts a query at the end, with what it sends.
LEMMA ExecStep ==
  ASSUME IInv, Careful, NEW q \in Queries, NEW k \in {"plain", "prepared"}, exec(q, k)
  PROVE  IInv'
  <1>0. PICK n \in Nat : n = Len(commands) /\ Places = 1 .. n /\ DOMAIN commands = Places
    BY Types DEF IInv, Places
  <1>00. PICK r \in Nat : r = Len(queue) /\ Seats = 1 .. r
    BY Types DEF IInv, Seats
  <1>1. /\ status = "on" /\ ~endNext /\ answer[q] # "waiting"
        /\ k = "prepared" /\ ~prepared => ~BatchFails
        /\ commands' = commands \o Sent(q, k)
        /\ preparing' = IF k = "prepared" /\ ~prepared THEN preparing \cup {q} ELSE preparing
        /\ queue' = Append(queue, q) /\ answer' = [answer EXCEPT ![q] = "waiting"]
        /\ UNCHANGED <<unsent, result, syncs, status, endNext, buffered, server, todo>>
        /\ prepared' = (prepared \/ (k = "prepared" /\ status = "on"))
        /\ queryRunning' = TRUE /\ autoSync' = Started
    BY DEF exec, Careful, AppRuns, IInv, Results, queryShouldBeQueued
  <1>1a. PICK m \in {1, 2} : Adds(m, n, q, k)
    <2>1. n = Len(commands) /\ status = "on" /\ commands' = commands \o Sent(q, k)
      BY <1>0, <1>1
    <2> QED
      BY <2>1, SentIs
  <1>2. /\ commands' \in Seq(Commands) /\ Len(commands') = n + m
        /\ \A i \in Places : commands'[i] = commands[i]
        /\ commands'[n + m].kind = k /\ commands'[n + m].of = q
        /\ commands'[n + m].outcome = "sent"
        /\ IF k = "prepared" /\ ~prepared
             THEN m = 2 /\ commands'[n + 1] = Command("prepare", q)
             ELSE m = 1
    BY <1>1a DEF Adds
  <1>3. /\ Places' = 1 .. n + m
        /\ \A i \in Places' : i \in Places \/ i = n + m \/ (m = 2 /\ i = n + 1)
        /\ Places \subseteq Places' /\ n + m \in Places' /\ n + m \notin Places
        /\ m = 2 => n + 1 \in Places' /\ n + 1 \notin Places
        /\ \A i \in Places : i < n + m /\ i < n + 1
    BY <1>0, <1>2 DEF Places
  <1>4. m = 2 => /\ commands'[n + 1].kind = "prepare" /\ commands'[n + 1].of = q
                 /\ commands'[n + 1].outcome = "sent"
    BY <1>2 DEF Command
  <1>5. Extended(m)
    BY <1>0, <1>1, <1>2, <1>3, <1>4 DEF Extended, server
  <1>6. /\ DOMAIN commands' = Places' /\ Places' \subseteq Nat /\ Processed' = Processed
        /\ \A i, j \in Int : SyncBetween(i, j) => SyncBetween(i, j)'
    <2>1. m \in Nat
      OBVIOUS
    <2> QED
      BY <1>5, <2>1, ExtendedLine
  <1>7. /\ queue' \in Seq(Queries) /\ Len(queue') = r + 1
        /\ \A a \in Seats : queue'[a] = queue[a]
        /\ queue'[r + 1] = q
    BY <1>00, <1>1, AppendProperties DEF IInv, TypeOK
  <1>8. Seats' = 1 .. r + 1
    BY <1>7 DEF Seats
  <1>9. /\ Seats' = Seats \cup {r + 1} /\ r + 1 \notin Seats
        /\ \A a \in Seats : a < r + 1 /\ queue[a] # q
    <2>1. \A a \in Seats : queue[a] # q
      BY <1>1 DEF IInv, Waits
    <2> QED
      BY <1>00, <1>8, <2>1
  <1>10. TypeOK'
    <2>1. preparing' \subseteq Queries /\ answer' \in [Queries -> {"none", "waiting", "wrong"}]
      BY <1>1 DEF IInv, TypeOK
    <2>2. prepared' \in BOOLEAN /\ autoSync' \in {"none", "idle", "active"}
      BY <1>1 DEF IInv, TypeOK, Started
    <2> QED
      BY <1>1, <1>2, <1>6, <1>7, <2>1, <2>2 DEF IInv, TypeOK, server
  <1>11. SyncsCounted'
    <2>1. SyncsAt' = SyncsAt
      BY <1>0, <1>2, <1>3, <1>4, <1>6 DEF SyncsAt
    <2> QED
      BY <1>1, <2>1 DEF IInv, SyncsCounted, SyncsAt
  <1>12. Line'
    <2> SUFFICES ASSUME NEW i \in Places'
                 PROVE  /\ commands'[i].outcome # "sent" <=> i <= Processed
                        /\ commands'[i].kind # "sync" => commands'[i].of \in Queries
      BY <1>6 DEF Line
    <2>1. CASE i \in Places
      BY <1>2, <2>1 DEF IInv, Line
    <2>2. CASE i \notin Places
      <3>1. PICK p \in 0 .. n : p = Processed
        BY <1>0, Types DEF IInv
      <3>2. ~(i <= p)
        BY <1>0, <1>3, <2>2, <3>1
      <3> QED
        BY <1>2, <1>3, <1>4, <2>2, <3>1, <3>2
    <2> QED
      BY <2>1, <2>2
  <1>13. Waits'
    <2>1. \A a, b \in Seats' : queue'[a] = queue'[b] => a = b
      BY <1>7, <1>9 DEF IInv, Waits
    <2>2. \A s \in Queries : (\E a \in Seats' : queue'[a] = s) <=> s = q \/ \E a \in Seats : queue[a] = s
      BY <1>7, <1>9
    <2>3. \A s \in Queries : answer'[s] = IF s = q THEN "waiting" ELSE answer[s]
      BY <1>1 DEF IInv, TypeOK
    <2>4. unsent' = {}
      BY <1>1 DEF IInv, Waits
    <2>5. \A s \in Queries : answer'[s] = "waiting" <=> \E a \in Seats' : queue'[a] = s
      BY <2>2, <2>3 DEF IInv, Waits
    <2>6. \A s \in Queries : answer'[s] # "wrong"
      BY <2>3 DEF IInv, Waits
    <2> QED
      BY <2>1, <2>4, <2>5, <2>6 DEF Waits
  <1>14. Results'
    BY <1>1 DEF IInv, Results
  <1>15. \A i \in Places' : Final(commands[i])' <=> i = n + m \/ (i \in Places /\ Final(commands[i]))
    BY <1>2, <1>3, <1>4 DEF Final
  <1>16. ~Ended /\ ~Ended'
    BY <1>1 DEF Ended
  <1>17. InOrder'
    <2>1. ASSUME NEW i \in Places', Final(commands[i])'
          PROVE  \E a \in Seats' : queue'[a] = commands'[i].of
      BY <1>2, <1>7, <1>9, <1>15, <2>1 DEF IInv, InOrder
    <2>2. ASSUME NEW i \in Places', NEW j \in Places', NEW a \in Seats', NEW b \in Seats',
                 i < j, Final(commands[i])', Final(commands[j])',
                 queue'[a] = commands'[i].of, queue'[b] = commands'[j].of
          PROVE  a < b
      <3>1. i \in Places /\ Final(commands[i]) /\ commands'[i] = commands[i]
        BY <1>2, <1>3, <1>6, <1>15, <2>2
      <3>2. PICK c \in Seats : queue[c] = commands[i].of
        BY <3>1 DEF IInv, InOrder
      <3>3. a \in Seats /\ queue[a] = commands[i].of
        BY <1>7, <1>9, <2>2, <3>1, <3>2
      <3>4. CASE j = n + m
        <4>1. b = r + 1
          BY <1>2, <1>7, <1>9, <2>2, <3>4
        <4> QED
          BY <1>9, <3>3, <4>1
      <3>5. CASE j # n + m
        <4>1. j \in Places /\ Final(commands[j]) /\ commands'[j] = commands[j]
          BY <1>2, <1>15, <2>2, <3>5
        <4>2. PICK d \in Seats : queue[d] = commands[j].of
          BY <4>1 DEF IInv, InOrder
        <4>3. b \in Seats /\ queue[b] = commands[j].of
          BY <1>7, <1>9, <2>2, <4>1, <4>2
        <4> QED
          BY <2>2, <3>1, <3>3, <4>1, <4>3 DEF IInv, InOrder
      <3> QED
        BY <3>4, <3>5
    <2>3. ASSUME NEW a \in Seats'
          PROVE  \E i \in Places' : Final(commands[i])' /\ commands'[i].of = queue'[a]
      <3>1. CASE a \in Seats
        <4>1. PICK i \in Places : Final(commands[i]) /\ commands[i].of = queue[a]
          BY <1>16, <3>1 DEF IInv, InOrder
        <4> QED
          BY <1>2, <1>3, <1>7, <1>15, <3>1, <4>1
      <3>2. CASE a = r + 1
        BY <1>2, <1>3, <1>7, <1>15, <3>2
      <3> QED
        BY <1>9, <3>1, <3>2
    <2> QED
      BY <1>16, <2>1, <2>2, <2>3 DEF InOrder
  <1>18. Prepares'
    <2>1. ASSUME NEW i \in Places', commands'[i].kind = "prepare"
          PROVE  /\ i + 1 \in Places'
                 /\ commands'[i + 1].kind = "prepared" /\ commands'[i + 1].of = commands'[i].of
      <3>1. CASE i \in Places
        BY <1>2, <1>3, <2>1, <3>1 DEF IInv, Prepares
      <3>2. CASE i \notin Places
        <4>1. m = 2 /\ i = n + 1
          BY <1>2, <1>3, <2>1, <3>2
        <4>2. i + 1 = n + m
          BY <4>1
        <4> QED
          BY <1>2, <1>3, <1>4, <4>1, <4>2
      <3> QED
        BY <3>1, <3>2
    <2>2. \A s \in Queries : (\E i \in Places' : commands'[i].kind = "prepare" /\ commands'[i].of = s)
            <=> \/ m = 2 /\ s = q
                \/ \E i \in Places : commands[i].kind = "prepare" /\ commands[i].of = s
      BY <1>2, <1>3, <1>4
    <2>3. \A s \in Queries : s \in preparing'
            <=> \E i \in Places' : commands'[i].kind = "prepare" /\ commands'[i].of = s
      <3>1. preparing' = IF m = 2 THEN preparing \cup {q} ELSE preparing
        BY <1>1, <1>2
      <3>2. \A s \in Queries : s \in preparing
              <=> \E i \in Places : commands[i].kind = "prepare" /\ commands[i].of = s
        BY <1>1 DEF IInv, Prepares
      <3> QED
        BY <2>2, <3>1, <3>2
    <2> QED
      BY <1>1, <2>1, <2>3 DEF Prepares
  <1>19. PICK p \in 0 .. n : p = Processed /\ p = Processed'
    BY <1>0, <1>6, Types DEF IInv
  <1>20. \A i \in Places : commands[i].outcome # "sent" <=> i <= p
    BY <1>19 DEF IInv, Line
  <1>21. Unskipped'
    <2>1. ASSUME NEW i \in Places', commands'[i].kind = "prepare"
          PROVE  /\ commands'[i].outcome \in {"sent", "ok"}
                 /\ skipping /\ p < i => SyncBetween(p, i)'
                 /\ \A j \in Places' : j < i /\ commands'[j].outcome = "failed"
                      => SyncBetween(j, i)'
      <3>1. CASE i \in Places
        <4>1. commands'[i] = commands[i] /\ i \in Int
          BY <1>0, <1>2, <3>1
        <4>2. /\ commands[i].outcome \in {"sent", "ok"}
              /\ skipping /\ p < i => SyncBetween(p, i)
              /\ \A j \in Places : j < i /\ commands[j].outcome = "failed" => SyncBetween(j, i)
          BY <1>19, <2>1, <3>1, <4>1 DEF IInv, Unskipped
        <4>3. \A j \in Places' : j < i => j \in Places /\ commands'[j] = commands[j] /\ j \in Int
          BY <1>0, <1>2, <1>3, <3>1
        <4> QED
          BY <1>6, <1>19, <4>1, <4>2, <4>3
      <3>2. CASE i \notin Places
        <4>1. m = 2 /\ i = n + 1
          BY <1>2, <1>3, <2>1, <3>2
        <4>2. \A j \in Places' : commands'[j].outcome = "failed"
                => j \in Places /\ commands[j].outcome = "failed" /\ j <= p
          BY <1>2, <1>3, <1>4, <1>20
        <4>3. CASE skipping
          <5>1. PICK s \in Places : commands[s].kind = "sync" /\ commands[s].outcome = "sent"
            BY <1>0, <1>1, <1>2, <4>1, <4>3 DEF BatchFails
          <5>2. p < s /\ s < i
            BY <1>0, <1>19, <1>20, <4>1, <5>1
          <5>3. s \in Places' /\ commands'[s].kind = "sync"
            BY <1>2, <1>3, <5>1
          <5>4. \A j \in Places : j <= p => j < s
            BY <1>0, <1>19, <5>1, <5>2
          <5> QED
            BY <1>2, <1>4, <4>1, <4>2, <5>2, <5>3, <5>4, <1>19 DEF SyncBetween
        <4>4. CASE ~skipping
          <5>1. ASSUME NEW j \in Places, commands[j].outcome = "failed"
                PROVE  SyncBetween(j, i)'
            <6>1. PICK s \in Places : j < s /\ commands[s].kind = "sync"
              BY <4>4, <5>1 DEF IInv, Unskipped
            <6> QED
              BY <1>0, <1>2, <1>3, <4>1, <6>1 DEF SyncBetween
          <5> QED
            BY <1>4, <4>1, <4>2, <4>4, <5>1
        <4> QED
          BY <4>3, <4>4
      <3> QED
        BY <3>1, <3>2
    <2>2. ASSUME NEW i \in Places', commands'[i].outcome = "failed"
          PROVE  skipping \/ \E s \in Places' : i < s /\ commands'[s].kind = "sync"
      <3>1. i \in Places /\ commands[i].outcome = "failed"
        BY <1>2, <1>3, <1>4, <2>2
      <3> QED
        BY <1>2, <1>3, <3>1 DEF IInv, Unskipped
    <2>3. status' # "aborted" /\ skipping' = skipping
      BY <1>1 DEF server
    <2> QED
      BY <1>19, <2>1, <2>2, <2>3 DEF Unskipped
  <1> QED
    BY <1>10, <1>11, <1>12, <1>13, <1>14, <1>17, <1>18, <1>21 DEF IInv

-----------------------------------------------------------------------------
(***************************************************************************)
(* The handler takes the front of libpq's queue.                           *)
(***************************************************************************)

\* What is left moves up by one.
LEMMA Taken ==
  ASSUME IInv, commands # <<>>, Take
  PROVE  /\ commands' \in Seq(Commands) /\ Len(commands') = Len(commands) - 1
         /\ Places' = 1 .. Len(commands) - 1 /\ DOMAIN commands' = Places' /\ 1 \in Places
         /\ \A i \in Places' : i \in Int /\ i + 1 \in Places /\ commands'[i] = commands[i + 1]
         /\ \A i \in Places : i # 1 => i - 1 \in Places' /\ commands'[i - 1] = commands[i]
         /\ Processed' = IF Processed = 0 THEN 0 ELSE Processed - 1
         /\ Processed \in Nat
         /\ buffered' \in 0 .. flushed' /\ flushed' \in 0 .. Processed'
  <1>1. PICK n \in Nat : n = Len(commands) /\ Places = 1 .. n /\ n # 0
    BY Types DEF IInv, Places
  <1>2. /\ commands' \in Seq(Commands) /\ Len(commands') = n - 1
        /\ \A i \in 1 .. n - 1 : commands'[i] = commands[i + 1]
    <2>1. commands \in Seq(Commands) /\ commands' = Tail(commands)
      BY DEF IInv, TypeOK, Take
    <2> QED
      BY <1>1, <2>1, HeadTailProperties
  <1>3. Places' = 1 .. n - 1 /\ DOMAIN commands' = Places'
    BY <1>2, LenProperties DEF Places
  <1>4. /\ 1 \in Places
        /\ \A i \in Places' : i \in Int /\ i + 1 \in Places /\ commands'[i] = commands[i + 1]
        /\ \A i \in Places : i # 1 => i - 1 \in Places' /\ commands'[i - 1] = commands[i]
    <2>1. /\ 1 \in Places
          /\ \A i \in Places' : i \in Int /\ i + 1 \in Places /\ commands'[i] = commands[i + 1]
      BY <1>1, <1>2, <1>3
    <2>2. ASSUME NEW i \in Places, i # 1
          PROVE  i - 1 \in Places' /\ commands'[i - 1] = commands[i]
      <3>1. i - 1 \in Places' /\ (i - 1) + 1 = i
        BY <1>1, <1>3, <2>2
      <3> QED
        BY <2>1, <3>1
    <2> QED
      BY <2>1, <2>2
  <1>5. PICK p \in 0 .. n : p = Processed
    BY <1>1, Types DEF IInv
  <1>6. Processed' = IF p = 0 THEN 0 ELSE p - 1
    <2> DEFINE r == IF p = 0 THEN 0 ELSE p - 1
    <2>1. r \in 0 .. n - 1 /\ r \in Int
      BY <1>1
    <2>2. ASSUME NEW i \in 1 .. n - 1
          PROVE  commands'[i].outcome # "sent" <=> i <= r
      <3>1. commands[i + 1].outcome # "sent" <=> i + 1 <= p
        BY <1>1, <1>5 DEF IInv, Line
      <3>2. i + 1 <= p <=> i <= r
        OBVIOUS
      <3> QED
        BY <1>2, <3>1, <3>2
    <2> HIDE DEF r
    <2>3. Cardinality({i \in DOMAIN commands' : commands'[i].outcome # "sent"}) = r
      BY <1>2, <2>1, <2>2, PrefixCounted
    <2> QED
      BY <2>3 DEF Processed, r
  <1>7. buffered' \in 0 .. flushed' /\ flushed' \in 0 .. Processed'
    <2>1. /\ flushed \in 0 .. p /\ buffered \in 0 .. flushed
          /\ buffered' = (IF buffered = 0 THEN 0 ELSE buffered - 1)
          /\ flushed' = (IF flushed = 0 THEN 0 ELSE flushed - 1)
      BY <1>5 DEF IInv, TypeOK, Take
    <2> QED
      BY <1>6, <2>1
  <1> QED
    BY <1>1, <1>2, <1>3, <1>4, <1>5, <1>6, <1>7

\* The syncs that are left.
LEMMA SyncsTaken ==
  ASSUME IInv, commands # <<>>, Take
  PROVE  Cardinality(SyncsAt') =
           IF commands[1].kind = "sync" THEN Cardinality(SyncsAt) - 1 ELSE Cardinality(SyncsAt)
  <1> DEFINE T == SyncsAt \ {1}
             f == [i \in T |-> i - 1]
  <1>1. /\ DOMAIN commands' = Places' /\ 1 \in Places
        /\ \A i \in Places' : i \in Int /\ i + 1 \in Places /\ commands'[i] = commands[i + 1]
        /\ \A i \in Places : i # 1 => i - 1 \in Places' /\ commands'[i - 1] = commands[i]
    BY Taken
  <1>2. DOMAIN commands = Places /\ IsFiniteSet(SyncsAt) /\ (\A i \in Places : i \in Int)
    BY Types DEF IInv, Places
  <1>2a. Places' \subseteq Nat \ {0}
    BY DEF Places
  <1>3. \A i \in T : i \in Int /\ i - 1 \in SyncsAt'
    BY <1>1, <1>2 DEF SyncsAt
  <1>4. \A j \in SyncsAt' : j + 1 \in T /\ f[j + 1] = j
    <2> SUFFICES ASSUME NEW j \in SyncsAt' PROVE j + 1 \in T /\ f[j + 1] = j
      OBVIOUS
    <2>1. j \in Places' /\ commands'[j].kind = "sync"
      BY <1>1 DEF SyncsAt
    <2>2. j + 1 \in SyncsAt /\ j + 1 # 1
      BY <1>1, <1>2, <1>2a, <2>1 DEF SyncsAt
    <2> QED
      BY <1>1, <2>1, <2>2
  <1>5. f \in Bijection(T, SyncsAt')
    <2>1. f \in [T -> SyncsAt']
      BY <1>3
    <2>2. \A i, j \in T : f[i] = f[j] => i = j
      BY <1>3
    <2>3. \A j \in SyncsAt' : \E i \in T : f[i] = j
      BY <1>4
    <2> HIDE DEF f, T
    <2> QED
      BY <2>1, <2>2, <2>3 DEF Bijection, Injection, Surjection, IsInjective
  <1>6. IsFiniteSet(T)
        /\ Cardinality(T) = IF 1 \in SyncsAt THEN Cardinality(SyncsAt) - 1 ELSE Cardinality(SyncsAt)
    BY <1>2, FS_RemoveElement
  <1>7. Cardinality(SyncsAt') = Cardinality(T)
    <2>1. ExistsBijection(T, SyncsAt')
      BY <1>5 DEF ExistsBijection
    <2> HIDE DEF f, T
    <2> QED
      BY <1>6, <2>1, FS_Bijection
  <1>8. 1 \in SyncsAt <=> commands[1].kind = "sync"
    BY <1>1, <1>2 DEF SyncsAt
  <1> QED
    BY <1>6, <1>7, <1>8

\* A sync between two places, after the places have moved up.
LEMMA BetweenTaken ==
  ASSUME IInv, commands # <<>>, Take, NEW i \in Nat, NEW j \in Int,
         SyncBetween(i, j), i = 0 => commands[1].kind # "sync"
  PROVE  IF i = 0 THEN SyncBetween(0, j - 1)' ELSE SyncBetween(i - 1, j - 1)'
  <1>1. PICK k \in Places : i < k /\ k < j /\ commands[k].kind = "sync"
    BY DEF SyncBetween
  <1>2. k \in Nat /\ k # 1
    BY <1>1 DEF Places
  <1>3. k - 1 \in Places' /\ commands'[k - 1] = commands[k]
    BY <1>1, <1>2, Taken
  <1>4. /\ k - 1 < j - 1 /\ 0 < k - 1
        /\ i # 0 => i - 1 < k - 1
    BY <1>1, <1>2 DEF Places
  <1> QED
    BY <1>1, <1>3, <1>4 DEF SyncBetween

\* Nothing else depends on a place.
LEMMA TakenLine ==
  ASSUME IInv, commands # <<>>, Take, UNCHANGED skipping,
         Processed # 0 \/ commands[1].kind # "sync",
         status' = "aborted" => \/ status = "aborted" /\ commands[1].kind # "sync"
                                \/ commands[1].outcome = "failed"
  PROVE  Line' /\ Unskipped'
  <1>1. /\ 1 \in Places /\ Processed \in Nat
        /\ \A i \in Places' : i \in Int /\ i + 1 \in Places /\ commands'[i] = commands[i + 1]
        /\ \A i \in Places : i # 1 => i - 1 \in Places' /\ commands'[i - 1] = commands[i]
        /\ Processed' = IF Processed = 0 THEN 0 ELSE Processed - 1
    BY Taken
  <1>2. PICK p \in Nat : p = Processed
    BY <1>1
  <1>2a. PICK r \in Nat : r = Processed' /\ r = IF p = 0 THEN 0 ELSE p - 1
    BY <1>1, <1>2
  <1>3. Places' \subseteq Nat \ {0} /\ Places \subseteq Nat \ {0}
    BY DEF Places
  <1>4. Line'
    <2> SUFFICES ASSUME NEW i \in Places'
                 PROVE  /\ commands'[i].outcome # "sent" <=> i <= r
                        /\ commands'[i].kind # "sync" => commands'[i].of \in Queries
      BY <1>2a DEF Line
    <2>1. i + 1 <= p <=> i <= r
      BY <1>2a, <1>3
    <2> QED
      BY <1>1, <1>2, <2>1 DEF IInv, Line
  <1>5. ASSUME NEW i \in Places', commands'[i].kind = "prepare"
        PROVE  /\ commands'[i].outcome \in {"sent", "ok"}
               /\ status' = "aborted" => SyncBetween(0, i)'
               /\ skipping' /\ r < i => SyncBetween(r, i)'
               /\ \A j \in Places' : j < i /\ commands'[j].outcome = "failed"
                    => SyncBetween(j, i)'
    <2>1. PICK h \in Places : h = i + 1 /\ h - 1 = i /\ commands[h] = commands'[i]
      BY <1>1, <1>3
    <2>2. /\ commands[h].outcome \in {"sent", "ok"}
          /\ status = "aborted" => SyncBetween(0, h)
          /\ skipping /\ p < h => SyncBetween(p, h)
          /\ \A j \in Places : j < h /\ commands[j].outcome = "failed" => SyncBetween(j, h)
      BY <1>2, <1>5, <2>1 DEF IInv, Unskipped
    <2>3. \A j \in Nat : SyncBetween(j, h) /\ (j = 0 => commands[1].kind # "sync")
            => IF j = 0 THEN SyncBetween(0, i)' ELSE SyncBetween(j - 1, i)'
      BY <1>3, <2>1, BetweenTaken
    <2>4. status' = "aborted" => SyncBetween(0, i)'
      <3>1. CASE status = "aborted" /\ commands[1].kind # "sync"
        BY <2>2, <2>3, <3>1
      <3>2. CASE commands[1].outcome = "failed"
        <4>1. 1 \in Nat /\ 1 # 0 /\ 1 - 1 = 0 /\ 1 < h
          BY <1>3, <2>1
        <4>2. SyncBetween(1, h)
          BY <1>1, <2>2, <3>2, <4>1
        <4>3. SyncBetween(1 - 1, i)'
          BY <2>3, <4>1, <4>2
        <4> QED
          BY <4>3 DEF SyncBetween
      <3> QED
        BY <3>1, <3>2
    <2>5. ASSUME skipping', r < i
          PROVE  SyncBetween(r, i)'
      <3>1. skipping /\ p < h
        BY <1>2a, <1>3, <2>1, <2>5
      <3>2. SyncBetween(p, h)
        BY <2>2, <3>1
      <3>3. p = 0 => commands[1].kind # "sync"
        BY <1>2
      <3> QED
        BY <1>2a, <2>3, <3>2, <3>3
    <2>6. ASSUME NEW j \in Places', j < i, commands'[j].outcome = "failed"
          PROVE  SyncBetween(j, i)'
      <3>1. PICK g \in Places : g = j + 1 /\ g - 1 = j /\ g < h /\ commands[g] = commands'[j]
        BY <1>1, <1>3, <2>1, <2>6
      <3>2. SyncBetween(g, h) /\ g \in Nat /\ g # 0
        BY <1>3, <2>2, <2>6, <3>1
      <3> QED
        BY <2>3, <3>1, <3>2
    <2> QED
      BY <2>1, <2>2, <2>4, <2>5, <2>6
  <1>6. ASSUME NEW i \in Places', commands'[i].outcome = "failed"
        PROVE  skipping' \/ \E k \in Places' : i < k /\ commands'[k].kind = "sync"
    <2>1. CASE ~skipping
      <3>1. PICK k \in Places : i + 1 < k /\ commands[k].kind = "sync"
        BY <1>1, <1>6, <2>1 DEF IInv, Unskipped
      <3>2. k - 1 \in Places' /\ commands'[k - 1] = commands[k] /\ i < k - 1
        BY <1>1, <1>3, <3>1
      <3> QED
        BY <3>1, <3>2
    <2> QED
      BY <2>1
  <1>7. Unskipped'
    BY <1>2a, <1>5, <1>6 DEF Unskipped
  <1> QED
    BY <1>4, <1>7

\* The order of the queue, and what follows a PREPARE.
LEMMA OrderTaken ==
  ASSUME IInv, commands # <<>>, Take, UNCHANGED queue
  PROVE  /\ Seats' = Seats
         /\ \A i \in Places' : Final(commands[i])' =>
              \E a \in Seats' : queue'[a] = commands'[i].of
         /\ \A i, j \in Places' : \A a, b \in Seats' :
              i < j /\ Final(commands[i])' /\ Final(commands[j])'
                /\ queue'[a] = commands'[i].of /\ queue'[b] = commands'[j].of
                => a < b
         /\ \A i \in Places' : commands'[i].kind = "prepare" =>
              /\ i + 1 \in Places'
              /\ commands'[i + 1].kind = "prepared" /\ commands'[i + 1].of = commands'[i].of
  <1>1. /\ \A i \in Places' : i \in Int /\ i + 1 \in Places /\ commands'[i] = commands[i + 1]
        /\ \A i \in Places : i # 1 => i - 1 \in Places' /\ commands'[i - 1] = commands[i]
    BY Taken
  <1>2. Seats' = Seats /\ Places' \subseteq Nat \ {0}
    BY DEF Seats, Places
  <1>3. ASSUME NEW i \in Places', Final(commands[i])'
        PROVE  /\ i + 1 \in Places /\ Final(commands[i + 1])
               /\ commands[i + 1].of = commands'[i].of
    BY <1>1, <1>3 DEF Final
  <1>4. ASSUME NEW i \in Places', Final(commands[i])'
        PROVE  \E a \in Seats' : queue'[a] = commands'[i].of
    <2>1. \E a \in Seats : queue[a] = commands[i + 1].of
      BY <1>3, <1>4 DEF IInv, InOrder
    <2> QED
      BY <1>2, <1>3, <1>4, <2>1
  <1>5. ASSUME NEW i \in Places', NEW j \in Places', NEW a \in Seats', NEW b \in Seats',
               i < j, Final(commands[i])', Final(commands[j])',
               queue'[a] = commands'[i].of, queue'[b] = commands'[j].of
        PROVE  a < b
    <2>1. PICK g \in Places : /\ g = i + 1 /\ Final(commands[g])
                              /\ commands[g].of = commands'[i].of
      BY <1>3, <1>5
    <2>2. PICK h \in Places : /\ h = j + 1 /\ Final(commands[h])
                              /\ commands[h].of = commands'[j].of
      BY <1>3, <1>5
    <2>3. g < h /\ queue[a] = commands[g].of /\ queue[b] = commands[h].of
      BY <1>2, <1>5, <2>1, <2>2
    <2>4. a \in Seats /\ b \in Seats
      BY <1>2
    <2> QED
      BY <2>1, <2>2, <2>3, <2>4 DEF IInv, InOrder
  <1>6. ASSUME NEW i \in Places', commands'[i].kind = "prepare"
        PROVE  /\ i + 1 \in Places'
               /\ commands'[i + 1].kind = "prepared" /\ commands'[i + 1].of = commands'[i].of
    <2>1. PICK h \in Places : h = i + 1 /\ commands[h] = commands'[i]
      BY <1>1
    <2>2. /\ h + 1 \in Places
          /\ commands[h + 1].kind = "prepared" /\ commands[h + 1].of = commands[h].of
      BY <1>6, <2>1 DEF IInv, Prepares
    <2>3. h + 1 # 1 /\ (h + 1) - 1 = i + 1
      BY <1>1, <1>2, <2>1
    <2> QED
      BY <1>1, <2>1, <2>2, <2>3
  <1> QED
    BY <1>2, <1>4, <1>5, <1>6

\* A sync comes back.
LEMMA TakeSyncStep ==
  ASSUME IInv, TakeSync
  PROVE  IInv'
  <1>1. /\ commands # <<>> /\ ~endNext /\ commands[1].kind = "sync" /\ Take /\ buffered > 0
        /\ syncs' = syncs - 1 /\ status' = "on"
        /\ UNCHANGED <<queue, unsent, preparing, result, prepared, queryRunning, autoSync,
                       endNext, skipping, known, todo, answer>>
    BY Types DEF IInv, TakeSync, GivesResult, GivesEnd, GivesAborted
  <1>2. /\ commands' \in Seq(Commands) /\ 1 \in Places
        /\ \A i \in Places' : i \in Int /\ i + 1 \in Places /\ commands'[i] = commands[i + 1]
        /\ \A i \in Places : i # 1 => i - 1 \in Places' /\ commands'[i - 1] = commands[i]
        /\ Processed \in Nat
        /\ buffered' \in 0 .. flushed' /\ flushed' \in 0 .. Processed'
    BY <1>1, Taken
  <1>3. Processed # 0
    BY <1>1, <1>2 DEF IInv, TypeOK
  <1>4. Line' /\ Unskipped'
    BY <1>1, <1>3, TakenLine
  <1>5. Cardinality(SyncsAt') = Cardinality(SyncsAt) - 1 /\ syncs = Cardinality(SyncsAt)
    BY <1>1, SyncsTaken DEF IInv, SyncsCounted, SyncsAt
  <1>6. SyncsCounted'
    BY <1>1, <1>5 DEF SyncsCounted, SyncsAt
  <1>7. syncs' \in Nat
    <2>1. 1 \in SyncsAt
      BY <1>1, <1>2, Types DEF IInv, SyncsAt
    <2>2. syncs # 0 /\ syncs \in Nat
      BY <1>5, <2>1, Types, FS_EmptySet DEF IInv
    <2> QED
      BY <1>1, <2>2
  <1>8. TypeOK'
    BY <1>1, <1>2, <1>7 DEF IInv, TypeOK
  <1>9. Waits' /\ Results'
    BY <1>1 DEF IInv, Waits, Results, Seats
  <1>10. Places \subseteq Int /\ Seats' = Seats /\ ~Ended /\ ~Ended'
    BY <1>1 DEF Places, Seats, Ended
  <1>11. InOrder'
    <2>1. ASSUME NEW a \in Seats'
          PROVE  \E i \in Places' : Final(commands[i])' /\ commands'[i].of = queue'[a]
      <3>1. PICK i \in Places : Final(commands[i]) /\ commands[i].of = queue[a]
        BY <1>10 DEF IInv, InOrder
      <3>2. i # 1
        BY <1>1, <3>1 DEF Final
      <3> QED
        BY <1>1, <1>2, <3>1, <3>2 DEF Final
    <2>2. UNCHANGED queue
      BY <1>1
    <2> QED
      BY <1>1, <1>10, <2>1, <2>2, OrderTaken DEF InOrder
  <1>12. Prepares'
    <2>1. ASSUME NEW q \in Queries
          PROVE  (\E i \in Places' : commands'[i].kind = "prepare" /\ commands'[i].of = q)
                 <=> \E i \in Places : commands[i].kind = "prepare" /\ commands[i].of = q
      <3>1. ASSUME NEW i \in Places, commands[i].kind = "prepare", commands[i].of = q
            PROVE  \E h \in Places' : commands'[h].kind = "prepare" /\ commands'[h].of = q
        <4>1. i # 1
          BY <1>1, <3>1
        <4> QED
          BY <1>2, <3>1, <4>1
      <3> QED
        BY <1>2, <3>1
    <2>2. UNCHANGED queue
      BY <1>1
    <2> QED
      BY <1>1, <2>1, <2>2, OrderTaken DEF IInv, Prepares
  <1> QED
    BY <1>4, <1>6, <1>8, <1>9, <1>11, <1>12 DEF IInv

\* The first result that ends a query is for the first query.
LEMMA FrontFirst ==
  ASSUME IInv, ~Ended, NEW f \in Places, Final(commands[f]),
         \A i \in Places : i < f => ~Final(commands[i])
  PROVE  queue # <<>> /\ 1 \in Seats /\ queue[1] = commands[f].of
  <1>1. PICK a \in Seats : queue[a] = commands[f].of
    BY DEF IInv, InOrder
  <1>2. /\ queue # <<>> /\ 1 \in Seats /\ Places \subseteq Nat \ {0}
        /\ Seats \subseteq Nat \ {0}
    BY Types DEF IInv, Seats, Places
  <1>3. PICK i \in Places : Final(commands[i]) /\ commands[i].of = queue[1]
    BY <1>2 DEF IInv, InOrder
  <1>4. CASE i = f
    BY <1>2, <1>3, <1>4
  <1>5. CASE f < i
    <2>1. a < 1
      BY <1>1, <1>2, <1>3, <1>5 DEF IInv, InOrder
    <2> QED
      BY <1>2, <2>1
  <1> QED
    BY <1>2, <1>3, <1>4, <1>5

\* A result comes, and it is for the query in front.
LEMMA TakeResultStep ==
  ASSUME IInv, TakeResult
  PROVE  IInv'
  <1> DEFINE c == commands[1]
             outcome == IF GivesAborted THEN "skipped" ELSE Head(commands).outcome
             q == queue[1]
  <1>1. /\ commands # <<>> /\ ~endNext /\ c.kind # "sync" /\ Take /\ todo = "reading"
        /\ endNext' = TRUE /\ c = Head(commands) /\ c \in Commands /\ 1 \in Places
        /\ status' = (IF outcome = "failed" THEN "aborted" ELSE status)
        /\ UNCHANGED <<queue, unsent, preparing, prepared, queryRunning, syncs, autoSync,
                       skipping, known, answer>>
        /\ status # "aborted" => buffered > 0
    BY Types DEF IInv, TakeResult, GivesResult, GivesEnd, GivesAborted
  <1>2. /\ commands' \in Seq(Commands)
        /\ \A i \in Places' : i \in Int /\ i + 1 \in Places /\ commands'[i] = commands[i + 1]
        /\ \A i \in Places : i # 1 => i - 1 \in Places' /\ commands'[i - 1] = commands[i]
        /\ Processed \in Nat
        /\ buffered' \in 0 .. flushed' /\ flushed' \in 0 .. Processed'
    BY <1>1, Taken
  <1>3. Places \subseteq Nat \ {0} /\ Places' \subseteq Nat \ {0}
    BY DEF Places
  <1>4. ~Ended /\ \A s \in Queries : result[s] = NoResult
    BY <1>1 DEF Ended, IInv, Results
  <1>5. c.kind = "prepare" =>
          /\ 2 \in Places /\ commands[2].kind = "prepared" /\ commands[2].of = c.of
          /\ outcome = "ok"
    <2> SUFFICES ASSUME c.kind = "prepare"
                 PROVE  /\ 2 \in Places /\ commands[2].kind = "prepared" /\ commands[2].of = c.of
                        /\ outcome = "ok"
      OBVIOUS
    <2>1. 1 + 1 \in Places /\ commands[1 + 1].kind = "prepared" /\ commands[1 + 1].of = c.of
      BY <1>1 DEF IInv, Prepares
    <2>2. c.outcome \in {"sent", "ok"} /\ (status = "aborted" => SyncBetween(0, 1))
      BY <1>1 DEF IInv, Unskipped
    <2>3. ~SyncBetween(0, 1)
      BY <1>3 DEF SyncBetween
    <2>4. buffered > 0 /\ ~GivesAborted
      BY <1>1, <2>2, <2>3 DEF GivesAborted
    <2>5. 1 <= Processed
      BY <1>2, <2>4 DEF IInv, TypeOK
    <2>6. c.outcome # "sent"
      BY <1>1, <2>5 DEF IInv, Line
    <2> QED
      BY <1>1, <2>1, <2>2, <2>4, <2>6
  <1>6. queue # <<>> /\ 1 \in Seats /\ q = c.of /\ q \in Queries
    <2>1. CASE Final(c)
      <3>1. \A i \in Places : ~(i < 1)
        BY <1>3
      <3>2. queue # <<>> /\ 1 \in Seats /\ q = c.of
        BY <1>1, <1>4, <2>1, <3>1, FrontFirst
      <3> QED
        BY <3>2, Types DEF IInv
    <2>2. CASE ~Final(c)
      <3>1. c.kind = "prepare"
        BY <1>1, <2>2 DEF Final, Commands
      <3>2. Final(commands[2])
        BY <1>5, <3>1 DEF Final
      <3>3. \A i \in Places : i < 2 => ~Final(commands[i])
        BY <1>3, <2>2
      <3>4. queue # <<>> /\ 1 \in Seats /\ q = commands[2].of
        BY <1>4, <1>5, <3>1, <3>2, <3>3, FrontFirst
      <3> QED
        BY <1>5, <3>1, <3>4, Types DEF IInv
    <2> QED
      BY <2>1, <2>2
  <1>7. /\ result' = [result EXCEPT ![q] = [c EXCEPT !.outcome = outcome]]
        /\ todo' = "reading"
    BY <1>1, <1>6, Types DEF IInv, TakeResult
  <1>8. /\ result'[q] \in Commands /\ result'[q].kind = c.kind /\ result'[q].of = c.of
        /\ result'[q].outcome = outcome /\ result' \in [Queries -> Commands \cup {NoResult}]
        /\ result'[q] # NoResult /\ \A s \in Queries : s # q => result'[s] = NoResult
    <2>1. result \in [Queries -> Commands \cup {NoResult}]
      BY DEF IInv, TypeOK
    <2>2. outcome \in {"sent", "ok", "failed", "skipped"}
      BY <1>1 DEF Commands
    <2> DEFINE d == [c EXCEPT !.outcome = outcome]
    <2>3. d \in Commands /\ d.kind = c.kind /\ d.of = c.of /\ d.outcome = outcome
      BY <1>1, <2>2 DEF Commands
    <2>4. result'[q] = d /\ \A s \in Queries : s # q => result'[s] = result[s]
      BY <1>6, <1>7, <2>1
    <2> HIDE DEF d
    <2>5. result' = [result EXCEPT ![q] = d]
      BY <1>7 DEF d
    <2>6. result' \in [Queries -> Commands \cup {NoResult}]
      BY <1>6, <2>1, <2>3, <2>5
    <2> QED
      BY <1>4, <2>3, <2>4, <2>6, ConstantsAssumption
  <1> HIDE DEF outcome
  <1>9. Line' /\ Unskipped'
    <2>1. Processed # 0 \/ c.kind # "sync"
      BY <1>1
    <2>2. status' = "aborted" => \/ status = "aborted" /\ c.kind # "sync"
                                 \/ c.outcome = "failed"
      BY <1>1 DEF outcome
    <2> QED
      BY <1>1, <2>1, <2>2, TakenLine
  <1>10. SyncsCounted'
    BY <1>1, SyncsTaken DEF IInv, SyncsCounted, SyncsAt
  <1>11. TypeOK'
    BY <1>1, <1>2, <1>7, <1>8 DEF IInv, TypeOK
  <1>12. Waits'
    BY <1>1 DEF IInv, Waits, Seats
  <1>13. Results'
    <2>1. queue' = queue
      BY <1>1
    <2> QED
      BY <1>1, <1>6, <1>7, <1>8, <2>1 DEF IInv, Results
  <1>14. Ended' <=> Final(c)
    BY <1>1, <1>8 DEF Ended, Final
  <1>15. UNCHANGED queue /\ Seats' = Seats
    BY <1>1 DEF Seats
  <1>16. InOrder'
    <2>1. ASSUME NEW i \in Places', Final(commands[i])', commands'[i].of = q, Final(c)
          PROVE  FALSE
      <3>1. PICK h \in Places : h = i + 1 /\ 1 < h /\ commands[h] = commands'[i]
        BY <1>2, <1>3
      <3>2. Final(commands[h]) /\ commands[h].of = q
        BY <2>1, <3>1 DEF Final
      <3>3. 1 < 1
        BY <1>1, <1>6, <2>1, <3>1, <3>2 DEF IInv, InOrder
      <3> QED
        BY <3>3
    <2>2. ASSUME NEW a \in Seats, ~(a = 1 /\ Final(c))
          PROVE  \E i \in Places' : Final(commands[i])' /\ commands'[i].of = queue[a]
      <3>1. PICK i \in Places : Final(commands[i]) /\ commands[i].of = queue[a]
        BY <1>4 DEF IInv, InOrder
      <3>2. i # 1
        <4>1. queue[a] = queue[1] => a = 1
          BY <1>6 DEF IInv, Waits
        <4> QED
          BY <1>6, <2>2, <3>1, <4>1
      <3>3. i - 1 \in Places' /\ commands'[i - 1] = commands[i]
        BY <1>2, <3>2
      <3> QED
        BY <3>1, <3>3 DEF Final
    <2>3. \A a \in Seats' : (a = 1 /\ Ended')
            <=> ~\E i \in Places' : Final(commands[i])' /\ commands'[i].of = queue'[a]
      BY <1>14, <1>15, <2>1, <2>2
    <2> QED
      BY <1>1, <1>15, <2>3, OrderTaken DEF InOrder
  <1>17. Prepares'
    <2>1. endNext' /\ result'[queue'[1]].kind = "prepare" =>
            /\ result'[queue'[1]].outcome = "ok"
            /\ 1 \in Places' /\ commands'[1].kind = "prepared" /\ commands'[1].of = queue'[1]
      <3> SUFFICES ASSUME c.kind = "prepare"
                   PROVE  /\ outcome = "ok"
                          /\ 1 \in Places' /\ commands'[1].kind = "prepared" /\ commands'[1].of = q
        BY <1>8, <1>15
      <3>1. 2 - 1 \in Places' /\ commands'[2 - 1] = commands[2]
        BY <1>2, <1>5
      <3> QED
        BY <1>5, <1>6, <3>1
    <2>2. ASSUME NEW s \in Queries
          PROVE  s \in preparing' <=>
                   \/ \E i \in Places' : commands'[i].kind = "prepare" /\ commands'[i].of = s
                   \/ endNext' /\ queue'[1] = s /\ result'[s].kind = "prepare"
      <3>1. s \in preparing' <=> \E i \in Places : commands[i].kind = "prepare" /\ commands[i].of = s
        BY <1>1 DEF IInv, Prepares
      <3>2. endNext' /\ queue'[1] = s /\ result'[s].kind = "prepare"
              <=> c.kind = "prepare" /\ c.of = s
        BY <1>1, <1>6, <1>8, <1>15
      <3>3. (\E i \in Places : commands[i].kind = "prepare" /\ commands[i].of = s)
              <=> \/ \E i \in Places' : commands'[i].kind = "prepare" /\ commands'[i].of = s
                  \/ c.kind = "prepare" /\ c.of = s
        BY <1>1, <1>2
      <3> QED
        BY <3>1, <3>2, <3>3
    <2> QED
      BY <1>1, <1>15, <2>1, <2>2, OrderTaken DEF Prepares
  <1> QED
    BY <1>9, <1>10, <1>11, <1>12, <1>13, <1>16, <1>17 DEF IInv

\* The null after the results that a PREPARE had.
LEMMA PrepareEndsStep ==
  ASSUME IInv, TakeEnd, endNext, result[queue[1]].kind = "prepare"
  PROVE  IInv'
  <1> DEFINE q == queue[1]
  <1>1. /\ queue # <<>> /\ 1 \in Seats /\ q = Head(queue) /\ q \in Queries
        /\ 1 \in Places /\ Places \subseteq Nat \ {0}
        /\ result[q] # NoResult /\ result[q].of = q /\ result[q].outcome = "ok"
        /\ commands[1].kind = "prepared" /\ commands[1].of = q /\ q \in preparing
    BY Types DEF IInv, Results, Prepares, Places
  <1>2. /\ endNext' = FALSE /\ queryRunning' = FALSE /\ prepared' = TRUE /\ todo' = "told"
        /\ result' = [result EXCEPT ![q] = NoResult]
        /\ preparing' = preparing \ {q} /\ unsent' = unsent \ {q}
        /\ UNCHANGED <<queue, answer, syncs, autoSync, status, commands, buffered, flushed,
                       skipping, known>>
    BY <1>1 DEF TakeEnd, PrepareEnds, server
  <1>3. Places' = Places /\ Seats' = Seats /\ Processed' = Processed
    BY <1>2 DEF Places, Seats, Processed
  <1>4. result' \in [Queries -> Commands \cup {NoResult}] /\ \A s \in Queries : result'[s] = NoResult
    BY <1>2 DEF IInv, Results, TypeOK
  <1>5. TypeOK'
    BY <1>2, <1>3, <1>4 DEF IInv, TypeOK
  <1>6. SyncsCounted' /\ Line'
    BY <1>2, <1>3 DEF IInv, SyncsCounted, Line
  <1>7. Waits'
    BY <1>2, <1>3 DEF IInv, Waits
  <1>8. Results'
    BY <1>2, <1>4 DEF Results
  <1>9. InOrder'
    <2>1. ~Ended /\ ~Ended'
      BY <1>2 DEF Ended, Final
    <2>2. \A i \in Places : Final(commands[i])' <=> Final(commands[i])
      BY <1>2 DEF Final
    <2> QED
      BY <1>2, <1>3, <2>1, <2>2 DEF IInv, InOrder
  <1>10. Prepares'
    <2>1. ASSUME NEW i \in Places, commands[i].kind = "prepare", commands[i].of = q
          PROVE  FALSE
      <3>1. PICK h \in Places : h = i + 1 /\ commands[h].kind = "prepared" /\ commands[h].of = q
        BY <2>1 DEF IInv, Prepares
      <3>2. 1 < h
        BY <1>1, <3>1
      <3>3. 1 < 1
        BY <1>1, <3>1, <3>2 DEF IInv, InOrder, Final
      <3> QED
        BY <3>3
    <2>2. \A s \in Queries : s \in preparing' <=>
            \E i \in Places : commands[i].kind = "prepare" /\ commands[i].of = s
      BY <1>1, <1>2, <2>1 DEF IInv, Prepares
    <2> QED
      BY <1>2, <1>3, <2>2 DEF IInv, Prepares
  <1>11. Unskipped'
    <2>1. \A i, j \in Int : SyncBetween(i, j)' <=> SyncBetween(i, j)
      BY <1>2, <1>3 DEF SyncBetween
    <2>2. Processed \in Int /\ 0 \in Int
      BY Types DEF IInv
    <2> QED
      BY <1>1, <1>2, <1>3, <2>1, <2>2 DEF IInv, Unskipped
  <1> QED
    BY <1>5, <1>6, <1>7, <1>8, <1>9, <1>10, <1>11 DEF IInv

\* The null after the results that a query waits for.
LEMMA QueryEndsStep ==
  ASSUME IInv, TakeEnd, endNext, result[queue[1]].kind # "prepare"
  PROVE  IInv'
  <1> DEFINE q == queue[1]
  <1>1. /\ queue # <<>> /\ 1 \in Seats /\ q = Head(queue) /\ q \in Queries
        /\ Places \subseteq Nat \ {0} /\ queue \in Seq(Queries)
        /\ result[q] # NoResult /\ result[q].of = q /\ result[q] \in Commands
        /\ result[q].kind # "sync"
    BY Types DEF IInv, Results, Places, TypeOK
  <1>2. Final(result[q]) /\ Ended
    BY <1>1 DEF Final, Ended, Commands
  <1>3. \A i \in Places : ~(Final(commands[i]) /\ commands[i].of = q)
    BY <1>1, <1>2 DEF IInv, InOrder
  <1>4. q \notin preparing
    <2>1. ASSUME NEW i \in Places, commands[i].kind = "prepare", commands[i].of = q
          PROVE  FALSE
      BY <1>3, <2>1 DEF IInv, Prepares, Final
    <2> QED
      BY <1>1, <2>1 DEF IInv, Prepares
  <1>5. /\ endNext' = FALSE /\ queryRunning' = FALSE /\ todo' = "told"
        /\ result' = [result EXCEPT ![q] = NoResult]
        /\ preparing' = preparing \ {q} /\ unsent' = unsent \ {q} /\ queue' = Tail(queue)
        /\ answer' = [answer EXCEPT ![q] = "none"]
        /\ UNCHANGED <<prepared, syncs, autoSync, status, commands, buffered, flushed,
                       skipping, known>>
    BY <1>1, <1>4 DEF TakeEnd, PrepareEnds, ToldRight, server
  <1>6. PICK r \in Nat : Seats = 1 .. r /\ r = Len(queue)
    BY Types DEF IInv, Seats
  <1>7. /\ queue' \in Seq(Queries) /\ Seats' = 1 .. r - 1
        /\ \A a \in Seats' : a + 1 \in Seats /\ queue'[a] = queue[a + 1]
        /\ \A a \in Seats : a # 1 => a - 1 \in Seats' /\ queue'[a - 1] = queue[a]
    <2>1. /\ queue' \in Seq(Queries) /\ Len(queue') = r - 1
          /\ \A a \in 1 .. r - 1 : queue'[a] = queue[a + 1]
      BY <1>1, <1>5, <1>6, HeadTailProperties
    <2>2. Seats' = 1 .. r - 1
      BY <2>1 DEF Seats
    <2>3. \A a \in 1 .. r : a # 1 => a - 1 \in 1 .. r - 1 /\ (a - 1) + 1 = a
      OBVIOUS
    <2> QED
      BY <1>6, <2>1, <2>2, <2>3
  <1>8. Places' = Places /\ Processed' = Processed
    BY <1>5 DEF Places, Processed
  <1>9. result' \in [Queries -> Commands \cup {NoResult}] /\ \A s \in Queries : result'[s] = NoResult
    BY <1>5 DEF IInv, Results, TypeOK
  <1>10. TypeOK'
    <2>1. answer' \in [Queries -> {"none", "waiting", "wrong"}]
      BY <1>5 DEF IInv, TypeOK
    <2> QED
      BY <1>5, <1>7, <1>8, <1>9, <2>1 DEF IInv, TypeOK
  <1>11. SyncsCounted' /\ Line'
    BY <1>5, <1>8 DEF IInv, SyncsCounted, Line
  <1>12. Waits'
    <2>1. \A a, b \in Seats' : queue'[a] = queue'[b] => a = b
      <3> SUFFICES ASSUME NEW a \in Seats', NEW b \in Seats', queue'[a] = queue'[b]
                   PROVE  a = b
        OBVIOUS
      <3>1. a + 1 = b + 1
        BY <1>7 DEF IInv, Waits
      <3> QED
        BY <1>7, <3>1
    <2>2. ASSUME NEW s \in Queries
          PROVE  (\E a \in Seats' : queue'[a] = s) <=> s # q /\ \E a \in Seats : queue[a] = s
      <3>1. ASSUME NEW a \in Seats'
            PROVE  a + 1 \in Seats /\ queue'[a] = queue[a + 1] /\ queue[a + 1] # q
        <4>1. a + 1 # 1
          BY <1>7
        <4> QED
          BY <1>1, <1>7, <4>1 DEF IInv, Waits
      <3> QED
        BY <1>7, <3>1
    <2>3. \A s \in Queries : answer'[s] = IF s = q THEN "none" ELSE answer[s]
      BY <1>5 DEF IInv, TypeOK
    <2>4. unsent' = {}
      BY <1>5 DEF IInv, Waits
    <2>5. \A s \in Queries : answer'[s] = "waiting" <=> \E a \in Seats' : queue'[a] = s
      BY <2>2, <2>3 DEF IInv, Waits
    <2>6. \A s \in Queries : answer'[s] # "wrong"
      BY <2>3 DEF IInv, Waits
    <2> QED
      BY <2>1, <2>4, <2>5, <2>6 DEF Waits
  <1>13. Results'
    BY <1>5, <1>9 DEF Results
  <1>14. InOrder'
    <2>1. ~Ended'
      BY <1>5 DEF Ended
    <2>2. \A i \in Places : (Final(commands[i])' <=> Final(commands[i])) /\ commands'[i] = commands[i]
      BY <1>5 DEF Final
    <2>3. ASSUME NEW i \in Places, Final(commands[i])
          PROVE  \E a \in Seats' : queue'[a] = commands[i].of
      <3>1. PICK a \in Seats : queue[a] = commands[i].of
        BY <2>3 DEF IInv, InOrder
      <3>2. a # 1
        BY <1>3, <2>3, <3>1
      <3> QED
        BY <1>7, <3>1, <3>2
    <2>4. ASSUME NEW i \in Places, NEW j \in Places, NEW a \in Seats', NEW b \in Seats',
                 i < j, Final(commands[i]), Final(commands[j]),
                 queue'[a] = commands[i].of, queue'[b] = commands[j].of
          PROVE  a < b
      <3>1. PICK c \in Seats : c = a + 1 /\ queue[c] = commands[i].of
        BY <1>7, <2>4
      <3>2. PICK d \in Seats : d = b + 1 /\ queue[d] = commands[j].of
        BY <1>7, <2>4
      <3>3. c < d
        BY <2>4, <3>1, <3>2 DEF IInv, InOrder
      <3> QED
        BY <1>7, <3>1, <3>2, <3>3
    <2>5. ASSUME NEW a \in Seats'
          PROVE  \E i \in Places : Final(commands[i]) /\ commands[i].of = queue'[a]
      <3>1. PICK b \in Seats : b # 1 /\ queue'[a] = queue[b]
        BY <1>7
      <3> QED
        BY <3>1 DEF IInv, InOrder
    <2> QED
      BY <1>8, <2>1, <2>2, <2>3, <2>4, <2>5 DEF InOrder
  <1>15. Prepares'
    <2>1. preparing' = preparing
      BY <1>4, <1>5
    <2>2. \A s \in Queries : ~(endNext /\ queue[1] = s /\ result[s].kind = "prepare")
      OBVIOUS
    <2> QED
      BY <1>5, <1>8, <2>1, <2>2 DEF IInv, Prepares
  <1>16. Unskipped'
    <2>1. \A i, j \in Int : SyncBetween(i, j)' <=> SyncBetween(i, j)
      BY <1>5, <1>8 DEF SyncBetween
    <2>2. Processed \in Int /\ 0 \in Int
      BY Types DEF IInv
    <2> QED
      BY <1>1, <1>5, <1>8, <2>1, <2>2 DEF IInv, Unskipped
  <1> QED
    BY <1>10, <1>11, <1>12, <1>13, <1>14, <1>15, <1>16 DEF IInv

\* A null comes.
LEMMA TakeEndStep ==
  ASSUME IInv, TakeEnd
  PROVE  IInv'
  <1>1. CASE endNext
    BY <1>1, PrepareEndsStep, QueryEndsStep
  <1>2. CASE ~endNext
    <2>1. commands = <<>> /\ queue = <<>>
      <3>1. commands = <<>> /\ Places = {}
        BY <1>2, Types DEF TakeEnd, GivesEnd, IInv, Places
      <3>2. 1 \notin Seats
        BY <1>2, <3>1 DEF IInv, InOrder, Ended
      <3> QED
        BY <3>1, <3>2, Types DEF IInv
    <2>2. /\ endNext' = endNext /\ todo' = "told"
          /\ UNCHANGED <<queue, unsent, preparing, result, prepared, queryRunning, answer, syncs,
                         autoSync, status, commands, buffered, flushed, skipping, known>>
      BY <1>2, <2>1 DEF TakeEnd, server, IInv, TypeOK
    <2>3. TypeOK'
      BY <2>2 DEF IInv, TypeOK, Processed
    <2> QED
      BY <1>2, <2>2, <2>3, Still
  <1> QED
    BY <1>1, <1>2

\* A connection that was opened again.
LEMMA LostStep ==
  ASSUME IInv, ConnectionLost
  PROVE  IInv'
  <1>1. /\ status' = "off" /\ queue' = <<>> /\ unsent' = {} /\ preparing' = {}
        /\ result' = [q \in Queries |-> NoResult]
        /\ prepared' = FALSE /\ known' = FALSE /\ skipping' = FALSE
        /\ syncs' = 0 /\ autoSync' = "none"
        /\ commands' = <<>> /\ endNext' = FALSE /\ buffered' = 0 /\ flushed' = 0
        /\ todo' = "idle" /\ answer' = [q \in Queries |-> "none"]
        /\ queryRunning' = queryRunning
    BY DEF ConnectionLost, Fresh
  <1>2. Places' = {} /\ Seats' = {}
    <2>1. \A i \in Nat : ~(i \in 1 .. 0)
      OBVIOUS
    <2> QED
      BY <1>1, <2>1 DEF Places, Seats
  <1>3. Processed' = 0 /\ SyncsCounted'
    <2>2. DOMAIN commands' = {}
      BY <1>1
    <2>3. {i \in DOMAIN commands : commands[i].outcome # "sent"}' = {}
          /\ {i \in DOMAIN commands : commands[i].kind = "sync"}' = {}
      BY <2>2
    <2>4. Cardinality({}) = 0
      BY FS_EmptySet
    <2> QED
      BY <1>1, <2>3, <2>4 DEF Processed, SyncsCounted
  <1>4. TypeOK'
    <2>1. commands' \in Seq(Commands) /\ queue' \in Seq(Queries)
      BY <1>1, EmptySeq
    <2>2. result' \in [Queries -> Commands \cup {NoResult}]
      BY <1>1
    <2>3. answer' \in [Queries -> {"none", "waiting", "wrong"}]
      BY <1>1
    <2>4. buffered' \in 0 .. flushed' /\ flushed' \in 0 .. Processed'
      BY <1>1, <1>3
    <2> QED
      BY <1>1, <1>3, <2>1, <2>2, <2>3, <2>4 DEF IInv, TypeOK
  <1>5. Line' /\ Waits' /\ Results' /\ InOrder' /\ Prepares' /\ Unskipped'
    BY <1>1, <1>2 DEF Line, Waits, Results, InOrder, Ended, Prepares, Unskipped
  <1> QED
    BY <1>3, <1>4, <1>5 DEF IInv

\* Steps that only look, or do nothing.
LEMMA QuietStep ==
  ASSUME IInv,
         \/ \E timeout \in 0 .. 1 : Enter(timeout)
         \/ Exit \/ ServerFlushes \/ Read \/ AfterEnd \/ Busy
         \/ UNCHANGED vars
  PROVE  IInv'
  <1>00. PICK p \in Nat : p = Processed
    BY Types DEF IInv
  <1> USE DEF IInv, TypeOK, Processed, Started
  <1>0. todo # "undefined" /\ (endNext => todo = "reading")
    BY DEF Results
  <1>1. CASE \E timeout \in 0 .. 1 : Enter(timeout)
    <2>1. TypeOK'
      BY <1>1 DEF Enter, server
    <2> QED
      BY <1>0, <1>1, <2>1, Still DEF Enter, server, AppRuns
  <1>2. CASE Exit
    <2>1. TypeOK'
      BY <1>2 DEF Exit, driver, server
    <2> QED
      BY <1>0, <1>2, <2>1, Still DEF Exit, driver, server, AppRuns
  <1>3. CASE ServerFlushes
    <2>1. flushed' \in 0 .. Processed' /\ buffered' \in 0 .. flushed'
      <3>1. Processed' = Processed /\ flushed' = p /\ buffered' = buffered /\ flushed < p
        BY <1>00, <1>3 DEF ServerFlushes, driver, libpq
      <3>2. buffered \in 0 .. flushed /\ flushed \in 0 .. p
        BY <1>00
      <3> QED
        BY <1>00, <3>1, <3>2
    <2>2. TypeOK'
      BY <1>3, <2>1 DEF ServerFlushes, driver, libpq
    <2> QED
      BY <1>0, <1>3, <2>2, Still DEF ServerFlushes, driver, libpq
  <1>4. CASE Read
    <2>1. TypeOK'
      BY <1>4 DEF Read, driver, server
    <2> QED
      BY <1>0, <1>4, <2>1, Still DEF Read, driver, server
  <1>5. CASE AfterEnd
    <2>1. TypeOK'
      BY <1>5 DEF AfterEnd, LeaveLoop, driver, libpq, server
    <2> QED
      BY <1>0, <1>5, <2>1, Still DEF AfterEnd, LeaveLoop, driver, libpq, server
  <1>6. CASE Busy
    <2>1. TypeOK'
      BY <1>6 DEF Busy, LeaveLoop, libpq, server
    <2>2. ~endNext
      BY <1>6 DEF Busy, GivesEnd
    <2> QED
      BY <1>6, <2>1, <2>2, Still DEF Busy, LeaveLoop, libpq, server
  <1>7. CASE UNCHANGED vars
    <2>1. TypeOK'
      BY <1>7 DEF vars, driver, libpq, server
    <2> QED
      BY <1>0, <1>7, <2>1, Still DEF vars, driver, libpq, server
  <1> QED
    BY <1>1, <1>2, <1>3, <1>4, <1>5, <1>6, <1>7

\* A sync that the application or the timer sends.
LEMMA SendsSyncStep ==
  ASSUME IInv, Sync \/ TimerFires
  PROVE  IInv'
  <1>1. CASE Sync
    <2>1. autoSync' \in {"none", "idle", "active"}
      BY <1>1 DEF Sync, IInv, TypeOK
    <2> QED
      BY <1>1, <2>1, SyncSent DEF Sync
  <1>2. CASE TimerFires /\ status # "off"
    BY <1>2, SyncSent DEF TimerFires
  <1>3. CASE TimerFires /\ status = "off"
    <2>1. TypeOK'
      BY <1>3 DEF TimerFires, IInv, TypeOK, Processed, libpq, server
    <2>2. todo = "idle" /\ ~endNext
      BY <1>3 DEF TimerFires, IInv, Results
    <2> QED
      BY <1>3, <2>1, <2>2, Still DEF TimerFires, libpq, server
  <1> QED
    BY <1>1, <1>2, <1>3

\* The invariant holds at the start.
LEMMA InitIInv == Init => IInv
  <1> SUFFICES ASSUME Init PROVE IInv
    OBVIOUS
  <1>1. Places = {} /\ Seats = {}
    <2>1. \A i \in Nat : ~(i \in 1 .. 0)
      OBVIOUS
    <2> QED
      BY <2>1 DEF Init, Places, Seats
  <1>2. Processed = 0 /\ SyncsCounted
    <2>1. DOMAIN commands = {}
      BY DEF Init
    <2>2. {i \in DOMAIN commands : commands[i].outcome # "sent"} = {}
          /\ {i \in DOMAIN commands : commands[i].kind = "sync"} = {}
      BY <2>1
    <2>3. Cardinality({}) = 0
      BY FS_EmptySet
    <2> QED
      BY <2>2, <2>3 DEF Init, Processed, SyncsCounted
  <1>3. TypeOK
    <2>1. commands \in Seq(Commands) /\ queue \in Seq(Queries)
      BY EmptySeq DEF Init
    <2>2. result \in [Queries -> Commands \cup {NoResult}]
      BY DEF Init
    <2>3. answer \in [Queries -> {"none", "waiting", "wrong"}]
      BY DEF Init
    <2>4. buffered \in 0 .. flushed /\ flushed \in 0 .. Processed
      BY <1>2 DEF Init
    <2> QED
      BY <1>2, <2>1, <2>2, <2>3, <2>4 DEF Init, TypeOK
  <1>4. Line /\ Waits /\ Results /\ InOrder /\ Prepares /\ Unskipped
    BY <1>1 DEF Init, Line, Waits, Results, InOrder, Ended, Prepares, Unskipped
  <1> QED
    BY <1>2, <1>3, <1>4 DEF IInv

\* Every step keeps the invariant.
LEMMA StepIInv == Careful /\ IInv /\ [Next]_vars => IInv'
  <1> SUFFICES ASSUME Careful, IInv, [Next]_vars PROVE IInv'
    OBVIOUS
  <1>1. CASE \E q \in Queries, k \in {"plain", "prepared"} : exec(q, k)
    BY <1>1, ExecStep
  <1>2. CASE Server
    BY <1>2, ServerSyncsStep, ServerSkipsStep, ServerRunsStep, ServerFailsStep DEF Server
  <1>3. CASE TakeSync \/ TakeResult \/ TakeEnd
    BY <1>3, TakeSyncStep, TakeResultStep, TakeEndStep
  <1>4. CASE ConnectionLost
    BY <1>4, LostStep
  <1>5. CASE Sync \/ TimerFires
    BY <1>5, SendsSyncStep
  <1>6. CASE \/ \E timeout \in 0 .. 1 : Enter(timeout)
             \/ Exit \/ ServerFlushes \/ Read \/ AfterEnd \/ Busy
             \/ UNCHANGED vars
    BY <1>6, QuietStep
  <1> QED
    BY <1>1, <1>2, <1>3, <1>4, <1>5, <1>6 DEF Next, Handler

\* If no query is run between an error and the sync that ends it, and no statement is
\* prepared in a batch that fails, then every result of a pipeline goes to the query it
\* was sent for, none finds the queue empty, and m_pipelineSync counts the syncs
\* under way: for any queries, any number of syncs and any order of events.
THEOREM SpecPipelineSound == ASSUME Careful PROVE Spec => []PipelineSound
  <1>1. IInv => PipelineSound
    BY DEF IInv, PipelineSound, ResultsReachTheirQuery, Results, Waits
  <1>2. Init => IInv
    BY InitIInv
  <1>3. IInv /\ [Next]_vars => IInv'
    BY StepIInv
  <1> QED
    BY <1>1, <1>2, <1>3, PTL DEF Spec

=============================================================================
