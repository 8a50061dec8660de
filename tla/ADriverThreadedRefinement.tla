---------------------- MODULE ADriverThreadedRefinement ----------------------
(***************************************************************************)
(* A driver with a worker thread keeps the promise of DriverContract.      *)
(***************************************************************************)
EXTENDS ADriverThreaded

\* The results that were stored and not handed over, in order.
Line == batch \o ready

\* The queries by what ends them, first those with the last result stored, then
\* the jobs of the worker; OpenJob where there is none.
Endings ==
  [i \in DOMAIN Line |-> IF Line[i].last THEN Line[i].query ELSE OpenJob] \o jobs

\* s without its elements e, in order.
Without(s, e) ==
  LET kept == {i \in DOMAIN s : s[i] # e}
  IN  [n \in 1 .. Cardinality(kept) |->
         s[CHOOSE i \in kept : Cardinality({j \in kept : j <= i}) = n]]

\* A query is in line from exec() on, with the worker, or among the results
\* that wait, until its last result is handed over.
lineMap == Without(Endings, OpenJob)

\* Results before the next one that the first query gets.
givenMap == IF Line # <<>> THEN Head(Line).n - 1 ELSE stored

Contract == INSTANCE DriverContract
              WITH line <- lineMap, given <- givenMap, answer <- promise

\* Every step of the threads is one of the contract or changes nothing it can
\* see: no result is lost, given twice, out of turn or to another query, and
\* the driver is not deleted with queries in line.
KeepsContract == Contract!Spec

=============================================================================
