---------------------------- MODULE PoolContract ----------------------------
(***************************************************************************)
(* What a connection pool promises its callers, without the driver states, *)
(* queue, counter, hooks and callbacks that APool keeps the promise with.  *)
(* A connection is absent, idle or in use, and in use by one caller at     *)
(* most; a caller asks, and is then given a connection, refused, or        *)
(* withdraws; a connection is opened only while there is room.             *)
(***************************************************************************)
EXTENDS Naturals, FiniteSets

CONSTANTS Calls, Drivers, NoDriver

VARIABLES limit,   \* most connections that may be present, 0 for any number
          place,   \* of each connection: "absent", "idle" or "used"
          asks,    \* the callers waiting for an answer
          has      \* the connection each caller was given

vars == <<limit, place, asks, has>>

Present == {d \in Drivers : place[d] # "absent"}

Taken(d) == \E c \in Calls : has[c] = d

Init ==
  /\ limit \in Nat
  /\ place = [d \in Drivers |-> "absent"]
  /\ asks = {}
  /\ has = [c \in Calls |-> NoDriver]

\* A connection leaves the idle ones, or is opened.
Fetch(d) ==
  /\ \/ place[d] = "idle"
     \/ /\ place[d] = "absent"
        /\ limit = 0 \/ Cardinality(Present) < limit
  /\ place' = [place EXCEPT ![d] = "used"]

Ask(c) ==
  /\ c \notin asks /\ has[c] = NoDriver
  /\ asks' = asks \cup {c}
  /\ place' = place \/ \E d \in Drivers : Fetch(d)
  /\ UNCHANGED <<limit, has>>

\* An idle connection answers at once.
AskAndGet(c, d) ==
  /\ c \notin asks /\ has[c] = NoDriver
  /\ place[d] = "idle"
  /\ place' = [place EXCEPT ![d] = "used"]
  /\ has' = [has EXCEPT ![c] = d]
  /\ UNCHANGED <<limit, asks>>

\* Refused, withdrawn, or destroyed with the coroutine that asked.
EndAsking(c) ==
  /\ asks' = asks \ {c}
  /\ UNCHANGED <<limit, place, has>>

\* A connection in use that nobody holds is given to a waiting caller; at the
\* same time its holder may be giving it back.
Grant(c, d, held) ==
  /\ c \in asks
  /\ place[d] = "used"
  /\ \A e \in Calls : held[e] # d
  /\ has' = [held EXCEPT ![c] = d]
  /\ asks' = asks \ {c}
  /\ UNCHANGED <<limit, place>>

\* A connection goes out of use, to be kept or closed; or it stays in use with
\* a hook.
Settle(d, held) ==
  /\ place[d] = "used"
  /\ \A e \in Calls : held[e] # d
  /\ has' = held
  /\ place' \in {[place EXCEPT ![d] = p] : p \in {"idle", "absent", "used"}}
  /\ UNCHANGED <<limit, asks>>

GiveBack(c) ==
  /\ has[c] # NoDriver
  /\ LET held == [has EXCEPT ![c] = NoDriver] IN
     \/ Settle(has[c], held)
     \/ \E e \in Calls : Grant(e, has[c], held)

SetLimit ==
  /\ limit' \in Nat
  /\ UNCHANGED <<place, asks, has>>

Next ==
  \/ \E c \in Calls : Ask(c) \/ EndAsking(c) \/ GiveBack(c)
  \/ \E c \in Calls, d \in Drivers : AskAndGet(c, d) \/ Grant(c, d, has)
  \/ \E d \in Drivers : Settle(d, has)
  \/ SetLimit

Spec == Init /\ [][Next]_vars

=============================================================================
