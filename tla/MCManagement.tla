---------------------------- MODULE MCManagement ----------------------------
(* A small instance of the management API for TLC.                         *)
EXTENDS Management, TLC

CONSTANTS A, B

Pair(a, b) == [i \in Slots |-> IF i = 1 THEN a ELSE b]

TwoSites == [sites |-> Pair(A, B), data |-> 1, parity |-> 1, uploads |-> 1, tls |-> FALSE]

(* A gateway that has never been configured, and one that has two sites.   *)
MCSaved == {None, TwoSites}

(* Imports that no handler checks: a name twice, no chunks, no uploads and *)
(* more uploads than the semaphore takes.                                  *)
MCImports ==
  {[TwoSites EXCEPT !.sites = Pair(A, A)],
   [TwoSites EXCEPT !.sites = Pair(A, None), !.data = 0, !.uploads = 0],
   [TwoSites EXCEPT !.uploads = 3]}

Symmetry == Permutations(Requests) \cup Permutations(Users)
=============================================================================
