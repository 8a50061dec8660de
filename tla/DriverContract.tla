--------------------------- MODULE DriverContract ---------------------------
(***************************************************************************)
(* What a driver promises the callers of exec(), without threads, mutex,   *)
(* events and reference counts: the queries form one line; results are     *)
(* handed over one at a time, all those of a query before any of the next, *)
(* each once and in the order in which the database gave them.             *)
(***************************************************************************)
EXTENDS Naturals, Sequences, Functions

CONSTANTS Queries, NoResult

VARIABLES line,     \* the queries with results to come, in the order of exec()
          given,    \* results of the first of them handed over so far
          answer    \* the result that is being handed over, or NoResult

vars == <<line, given, answer>>

Init == line = <<>> /\ given = 0 /\ answer = NoResult

Exec(q) ==
  /\ q \notin Range(line)
  /\ line' = Append(line, q)
  /\ UNCHANGED <<given, answer>>

Answer(last) ==
  /\ answer = NoResult /\ line # <<>>
  /\ answer' = [query |-> Head(line), n |-> given + 1, last |-> last]
  /\ IF last THEN line' = Tail(line) /\ given' = 0
             ELSE line' = line /\ given' = given + 1

Answered ==
  /\ answer # NoResult /\ answer' = NoResult
  /\ UNCHANGED <<line, given>>

Next ==
  \/ \E q \in Queries : Exec(q)
  \/ \E last \in BOOLEAN : Answer(last)
  \/ Answered

Spec == Init /\ [][Next]_vars

=============================================================================
