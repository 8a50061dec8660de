--------------------------- MODULE APoolRefinement ---------------------------
(***************************************************************************)
(* APool keeps the promise of PoolContract as long as the pool is not      *)
(* removed.                                                                *)
(***************************************************************************)
EXTENDS APool

\* A connection is in use from the open() on, until it is kept or deleted.
placeMap == [d \in Drivers |-> IF state[d] = "none" THEN "absent"
                               ELSE IF d \in Idle THEN "idle" ELSE "used"]

asksMap == {c \in Calls : Awaitable(c)}

Contract == INSTANCE PoolContract
              WITH limit <- maximuConnections, place <- placeMap,
                   asks <- asksMap, has <- db

\* Every step of the pool is one of the contract or changes nothing it can see:
\* no connection beyond the limit, to two callers, or to one that did not ask.
KeepsContract == Contract!Spec

=============================================================================
