----------------------------- MODULE PurgeQueue -----------------------------
(***************************************************************************)
(* What the purge queue promises, whoever fills it and however its reaper  *)
(* lists, groups, retries, crashes and restarts: only chunks that are due  *)
(* are deleted, and a chunk stays due until a site has reported, after it  *)
(* was queued, that it deleted it.  The report is true unless a site hides *)
(* an error in it.                                                         *)
(***************************************************************************)
CONSTANTS
  Owners,  \* the deletions that queue chunks
  Chunks   \* chunks, each on one site

Jobs == Owners \X Chunks

VARIABLES
  due,       \* the chunks to delete, with the deletion that queued them
  reported,  \* those that the reaper knows a site to have deleted
  there,     \* the chunks that sites store
  lied       \* whether a site has hidden an error

vars == <<due, reported, there, lied>>

ChunksOf(js) == {j[2] : j \in js}

Init ==
  /\ due = {} /\ reported = {}
  /\ there \in SUBSET Chunks
  /\ lied = FALSE

(* An upload ends, be its chunk due by now or even settled.                *)
Arrive(cs) ==
  /\ there' = there \cup cs
  /\ UNCHANGED <<due, reported, lied>>

Enqueue(js) ==
  /\ js \cap due = {}
  /\ due' = due \cup js
  /\ UNCHANGED <<reported, there, lied>>

(* A site deletes chunks that are due, and reports it or does not.         *)
Sweep(js, answered) ==
  /\ js \subseteq due
  /\ there' = there \ ChunksOf(js)
  /\ reported' = IF answered THEN reported \cup js ELSE reported
  /\ UNCHANGED <<due, lied>>

Lie(js) ==
  /\ js \subseteq due
  /\ reported' = reported \cup js
  /\ lied' = TRUE
  /\ UNCHANGED <<due, there>>

Settle(js) ==
  /\ js \subseteq reported
  /\ due' = due \ js
  /\ reported' = reported \ js
  /\ UNCHANGED <<there, lied>>

(* The reaper gives up a batch, and what it was told with it.              *)
Drop ==
  /\ reported' = {}
  /\ UNCHANGED <<due, there, lied>>

Next ==
  \/ \E cs \in SUBSET Chunks : Arrive(cs)
  \/ \E js \in SUBSET Jobs : Enqueue(js) \/ Lie(js) \/ Settle(js)
  \/ \E js \in SUBSET Jobs, answered \in BOOLEAN : Sweep(js, answered)
  \/ Drop

Spec == Init /\ [][Next]_vars
=============================================================================
