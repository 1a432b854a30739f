------------------------- MODULE PurgeReaperProofs -------------------------
(***************************************************************************)
(* Proofs about the purge reaper: whichever deletes and store calls fail,  *)
(* whichever clients it lacks and wherever it stops, it forgets no chunk.  *)
(***************************************************************************)
EXTENDS PurgeReaper, TLAPS

(* What the reaper lists is queued, and it lists nothing of an empty queue.*)
LEMMA ListedQueued ==
  /\ Listed \subseteq queue
  /\ queue = {} => Reachable = {}
  BY DEF Listed, Reachable

(* What an entry keeps.                                                    *)
LEMMA RemainingLeft ==
  ASSUME NEW i
  PROVE  Remaining(i) \subseteq left[i]
  BY DEF Remaining

(* Before anything is deleted nothing can be forgotten.                    *)
LEMMA PurgeInit == Init => PurgeInv
<1> SUFFICES ASSUME Init PROVE PurgeInv
  OBVIOUS
<1>1. TypeOK
  BY BoundsAssumption DEF Init, TypeOK, Idle
<1> QED
  BY <1>1 DEF Init, PurgeInv, BatchIsQueued, SweptIsGone, NothingForgotten

-----------------------------------------------------------------------------
(* Types *)

(* Steps of the reaper's task keep the types.                              *)
LEMMA ReaperTypes ==
  ASSUME TypeOK, ReaperStep \/ StoreFails \/ TimerFires
  PROVE  TypeOK'
<1> USE DEF TypeOK, queueVars, wakeVars, reaperVars, taskVars, faultVars, Running
<1>1. CASE Yield
  BY <1>1 DEF Yield
<1>2. CASE List
  <2>1. /\ batch' = Listed /\ batch' \subseteq queue
        /\ sweep' = [s \in Sites |-> IF s \in Reachable THEN "sent" ELSE "idle"]
        /\ rpc' = IF queue = {} THEN "wait" ELSE "sweep"
    BY <1>2, ListedQueued DEF List
  <2>2. CASE queue = {}
    <3>1. \A s \in Sites : sweep'[s] = "idle"
      BY <2>1, <2>2, ListedQueued
    <3> QED
      BY <1>2, <2>1, <2>2, <3>1 DEF List
  <2>3. CASE queue # {}
    BY <1>2, <2>1, <2>3 DEF List
  <2> QED
    BY <2>2, <2>3
<1>3. CASE Joined
  BY <1>3 DEF Joined, Pending
<1>4. CASE NextBatch \/ StoreFails
  BY <1>4 DEF NextBatch, StoreFails, Idle
<1>5. CASE Notified \/ Stop \/ TimerFires
  BY <1>5 DEF Notified, Stop, TimerFires
<1>6. CASE \E i \in batch : Write(i)
  <2>1. PICK i \in batch : Write(i)
    BY <1>6
  <2>2. left' \in [Ids -> SUBSET Sites]
    BY <2>1, RemainingLeft DEF Write
  <2> QED
    BY <2>1, <2>2 DEF Write
<1> QED
  BY <1>1, <1>2, <1>3, <1>4, <1>5, <1>6 DEF ReaperStep

(* So do handlers, servers, sites and restarts.                            *)
LEMMA OtherTypes ==
  ASSUME TypeOK,
         \/ \E i \in Ids : Delete(i) \/ Notify(i)
         \/ Shutdown \/ Connect \/ PollServers \/ Restart \/ UNCHANGED vars
         \/ \E s \in Sites : SiteSweeps(s) \/ SiteFails(s)
  PROVE  TypeOK'
<1> USE DEF TypeOK, queueVars, wakeVars, reaperVars, taskVars, faultVars
<1>1. CASE \E i \in Ids : Delete(i) \/ Notify(i)
  <2>1. ASSUME NEW i \in Ids, Delete(i) PROVE TypeOK'
    BY <2>1 DEF Delete
  <2>2. ASSUME NEW i \in Ids, Notify(i) PROVE TypeOK'
    BY <2>2 DEF Notify
  <2> QED
    BY <1>1, <2>1, <2>2
<1>2. CASE Shutdown \/ Connect \/ PollServers \/ UNCHANGED vars
  BY <1>2 DEF Shutdown, Connect, PollServers, vars
<1>3. CASE Restart
  <2>1. \A s \in Sites : sweep'[s] = "idle"
    BY <1>3 DEF Restart, Idle
  <2>2. sweep' \in [Sites -> {"idle", "sent", "ok", "err"}]
    BY <1>3 DEF Restart, Idle
  <2>3. /\ queue' = queue /\ left' = left /\ chunks' = chunks /\ deleted' = deleted
        /\ siteErrors' = siteErrors /\ storeErrors' = storeErrors
        /\ clients' \in SUBSET Sites /\ owed' = {} /\ permit' = FALSE /\ shut' = FALSE
        /\ rpc' = "list" /\ batch' = {} /\ turn' = "servers" /\ dialed' = FALSE
    BY <1>3 DEF Restart
  <2>4. restarts' \in Nat
    BY <1>3 DEF Restart
  <2> QED
    BY <2>1, <2>2, <2>3, <2>4
<1>4. ASSUME NEW s \in Sites, SiteSweeps(s)
      PROVE  TypeOK'
  <2>1. chunks' \in [Ids -> SUBSET Sites]
    BY <1>4 DEF SiteSweeps, SweptBy
  <2>2. /\ sweep' \in [Sites -> {"idle", "sent", "ok", "err"}]
        /\ \A t \in Sites : sweep'[t] = "sent" => sweep[t] = "sent"
    BY <1>4 DEF SiteSweeps
  <2> QED
    BY <1>4, <2>1, <2>2 DEF SiteSweeps
<1>5. ASSUME NEW s \in Sites, SiteFails(s)
      PROVE  TypeOK'
  <2>1. chunks' \in [Ids -> SUBSET Sites]
    BY <1>5 DEF SiteFails, SweptBy
  <2>2. /\ sweep' \in [Sites -> {"idle", "sent", "ok", "err"}]
        /\ \A t \in Sites : sweep'[t] = "sent" => sweep[t] = "sent"
    BY <1>5 DEF SiteFails
  <2> QED
    BY <1>5, <2>1, <2>2 DEF SiteFails
<1> QED
  BY <1>1, <1>2, <1>3, <1>4, <1>5

-----------------------------------------------------------------------------
(* Nothing is forgotten *)

(* An entry leaves the queue, or drops a site, once the site has nothing.  *)
LEMMA WriteKeeps ==
  ASSUME PurgeInv, NEW i \in batch, Write(i)
  PROVE  BatchIsQueued' /\ SweptIsGone' /\ NothingForgotten'
<1> USE DEF PurgeInv, TypeOK, BatchIsQueued
<1>1. /\ batch' = batch \ {i} /\ deleted' = deleted /\ chunks' = chunks /\ sweep' = sweep
      /\ queue' = IF Remaining(i) = {} THEN queue \ {i} ELSE queue
      /\ left'[i] = Remaining(i)
      /\ \A j \in Ids \ {i} : left'[j] = left[j]
  BY DEF Write, reaperVars
<1>2. i \in Ids /\ i \in deleted
  OBVIOUS
<1>3. chunks[i] \subseteq Remaining(i)
  BY <1>2 DEF NothingForgotten, SweptIsGone, Remaining
<1>4. BatchIsQueued'
  BY <1>1
<1>5. SweptIsGone'
  BY <1>1 DEF SweptIsGone
<1>6. NothingForgotten'
  BY <1>1, <1>2, <1>3 DEF NothingForgotten
<1> QED
  BY <1>4, <1>5, <1>6

(* A batch delete, answered or not, removes what the batch lists of the    *)
(* site or nothing, and all of it when the site confirms it.               *)
LEMMA SweepKeeps ==
  ASSUME PurgeInv, NEW s \in Sites, SiteSweeps(s) \/ SiteFails(s)
  PROVE  BatchIsQueued' /\ SweptIsGone' /\ NothingForgotten'
<1> USE DEF PurgeInv, TypeOK, BatchIsQueued
<1>1. batch' = batch /\ queue' = queue /\ left' = left /\ deleted' = deleted
  BY DEF SiteSweeps, SiteFails, queueVars
<1>2. \A i \in Ids : chunks'[i] \subseteq chunks[i]
  BY DEF SiteSweeps, SiteFails, SweptBy
<1>3. SweptIsGone'
  <2>1. ASSUME NEW t \in Sites, sweep'[t] = "ok"
        PROVE  \/ sweep[t] = "ok"
               \/ t = s /\ \A i \in batch : s \in left[i] => s \notin chunks'[i]
    BY <2>1 DEF SiteSweeps, SiteFails, SweptBy
  <2> QED
    BY <1>1, <1>2, <2>1 DEF SweptIsGone
<1>4. NothingForgotten'
  BY <1>1, <1>2 DEF NothingForgotten
<1> QED
  BY <1>1, <1>3, <1>4

(* A deletion queues all sites of an object that no batch lists yet.       *)
LEMMA DeleteKeeps ==
  ASSUME PurgeInv, NEW i \in Ids, Delete(i)
  PROVE  BatchIsQueued' /\ SweptIsGone' /\ NothingForgotten'
<1> USE DEF PurgeInv, TypeOK, BatchIsQueued
<1>1. /\ batch' = batch /\ queue' = queue \cup {i} /\ deleted' = deleted \cup {i}
      /\ sweep' = sweep /\ chunks' = chunks /\ i \notin batch
      /\ left'[i] = Sites /\ \A j \in Ids \ {i} : left'[j] = left[j]
  BY DEF Delete, reaperVars
<1>2. SweptIsGone'
  BY <1>1 DEF SweptIsGone
<1>3. NothingForgotten'
  BY <1>1 DEF NothingForgotten
<1> QED
  BY <1>1, <1>2, <1>3

(* The other steps change neither the queue nor what sites store.          *)
LEMMA RestKeeps ==
  ASSUME PurgeInv,
         \/ Yield \/ List \/ Joined \/ NextBatch \/ Notified \/ Stop \/ StoreFails
         \/ TimerFires \/ Shutdown \/ Connect \/ PollServers \/ Restart \/ UNCHANGED vars
         \/ \E i \in Ids : Notify(i)
  PROVE  BatchIsQueued' /\ SweptIsGone' /\ NothingForgotten'
<1> USE DEF PurgeInv, TypeOK, BatchIsQueued, queueVars, wakeVars, reaperVars, taskVars, faultVars
<1>1. queue' = queue /\ left' = left /\ deleted' = deleted /\ chunks' = chunks
  BY DEF Yield, List, Joined, NextBatch, Notified, Stop, StoreFails, TimerFires, Shutdown,
     Connect, PollServers, Restart, Notify, vars
<1>2. batch' \subseteq queue
  BY ListedQueued DEF Yield, List, Joined, NextBatch, Notified, Stop, StoreFails, TimerFires,
     Shutdown, Connect, PollServers, Restart, Notify, vars
<1>3. \A s \in Sites : sweep'[s] = "ok" => sweep[s] = "ok" /\ batch' \subseteq batch
  BY DEF Yield, List, Joined, NextBatch, Notified, Stop, StoreFails, TimerFires, Shutdown,
     Connect, PollServers, Restart, Notify, vars, Idle
<1>4. SweptIsGone'
  BY <1>1, <1>3 DEF SweptIsGone
<1>5. NothingForgotten'
  BY <1>1 DEF NothingForgotten
<1> QED
  BY <1>1, <1>2, <1>4, <1>5

(* Every step of the specification keeps the invariant.                    *)
LEMMA PurgeNext == PurgeInv /\ [Next]_vars => PurgeInv'
<1> SUFFICES ASSUME PurgeInv, [Next]_vars PROVE PurgeInv'
  OBVIOUS
<1>1. TypeOK'
  BY ReaperTypes, OtherTypes DEF PurgeInv, Next
<1>2. CASE \E i \in batch : Write(i)
  BY <1>1, <1>2, WriteKeeps DEF PurgeInv
<1>3. CASE \E s \in Sites : SiteSweeps(s) \/ SiteFails(s)
  BY <1>1, <1>3, SweepKeeps DEF PurgeInv
<1>4. CASE \E i \in Ids : Delete(i)
  BY <1>1, <1>4, DeleteKeeps DEF PurgeInv
<1>5. CASE \/ Yield \/ List \/ Joined \/ NextBatch \/ Notified \/ Stop \/ StoreFails
           \/ TimerFires \/ Shutdown \/ Connect \/ PollServers \/ Restart \/ UNCHANGED vars
           \/ \E i \in Ids : Notify(i)
  BY <1>1, <1>5, RestKeeps DEF PurgeInv
<1> QED
  BY <1>2, <1>3, <1>4, <1>5 DEF Next, ReaperStep

(* The invariant holds in every state the process reaches.                 *)
THEOREM PurgeInvCorrect == Spec => []PurgeInv
  BY PurgeInit, PurgeNext, PTL DEF Spec

(* The types of the variables: the reaper's tasks run only while it joins  *)
(* them, and it holds entries only in a batch.                             *)
THEOREM PurgeReaperTypeCorrect == Spec => []TypeOK
<1>1. PurgeInv => TypeOK
  BY DEF PurgeInv
<1> QED
  BY <1>1, PurgeInvCorrect, PTL

(* For any limit of a batch, any number of entries, sites, failures and    *)
(* restarts: while a site stores a chunk of a deleted object the entry of  *)
(* that object is queued and lists the site.                               *)
THEOREM NothingForgottenCorrect == Spec => []NothingForgotten
<1>1. PurgeInv => NothingForgotten
  BY DEF PurgeInv
<1> QED
  BY <1>1, PurgeInvCorrect, PTL

-----------------------------------------------------------------------------
(* No wake-up is lost *)

(* The reaper comes to wait from an empty queue, or from the pause after   *)
(* an error; what is queued afterwards is owed a wake-up of its own.       *)
LEMMA AttendedStep == AttendedInv /\ [Next]_vars => AttendedInv'
<1> SUFFICES ASSUME AttendedInv, [Next]_vars PROVE AttendedInv'
  OBVIOUS
<1> USE DEF queueVars, wakeVars, reaperVars, taskVars, faultVars
<1>0. TypeOK
  BY DEF AttendedInv
<1>1. TypeOK'
  BY <1>0, ReaperTypes, OtherTypes DEF Next
<1>2. storeErrors' \in Nat /\ storeErrors \in Nat
      /\ (storeErrors > 0 => storeErrors' > 0)
  <2>1. storeErrors' = storeErrors \/ storeErrors' = storeErrors + 1
    BY DEF Next, ReaperStep, Delete, Notify, Shutdown, Connect, PollServers, Yield, List, Joined,
       NextBatch, Notified, Stop, Write, StoreFails, TimerFires, SiteSweeps, SiteFails,
       Restart, vars
  <2> QED BY <1>0, <2>1 DEF TypeOK
<1>3. CASE \E i \in Ids : Delete(i) \/ Notify(i)
  BY <1>1, <1>3 DEF AttendedInv, QueueAttended, Delete, Notify
<1>4. CASE Shutdown \/ Connect \/ PollServers \/ UNCHANGED vars
  BY <1>1, <1>4 DEF AttendedInv, QueueAttended, Shutdown, Connect, PollServers, vars
<1>5. CASE Yield \/ List \/ Joined \/ NextBatch \/ Notified \/ Stop
  BY <1>1, <1>5 DEF AttendedInv, QueueAttended, Yield, List, Joined, NextBatch, Notified,
                    Stop
<1>6. CASE \E i \in batch : Write(i)
  BY <1>1, <1>6 DEF AttendedInv, QueueAttended, Write
<1>7. CASE StoreFails
  <2>1. storeErrors' > 0
    BY <1>0, <1>7 DEF StoreFails, TypeOK
  <2> QED BY <1>1, <1>7, <2>1 DEF AttendedInv, QueueAttended, StoreFails
<1>8. CASE TimerFires
  <2>1. rpc' = "wait" => storeErrors' > 0
    BY <1>2, <1>8 DEF AttendedInv, TimerFires
  <2>2. rpc' # "backoff"
    BY <1>8 DEF TimerFires
  <2> QED BY <1>1, <2>1, <2>2 DEF AttendedInv, QueueAttended
<1>9. CASE \E s \in Sites : SiteSweeps(s) \/ SiteFails(s)
  BY <1>1, <1>9 DEF AttendedInv, QueueAttended, SiteSweeps, SiteFails
<1>10. CASE Restart
  BY <1>1, <1>10 DEF AttendedInv, QueueAttended, Restart
<1> QED
  BY <1>3, <1>4, <1>5, <1>6, <1>7, <1>8, <1>9, <1>10 DEF Next, ReaperStep

(* For any limit of a batch, any deletions, failures and restarts: the     *)
(* reaper waits with entries queued only if a wake-up is there or about to *)
(* be sent, or the store failed before.                                    *)
THEOREM QueueAttendedCorrect == Spec => []QueueAttended
<1>1. Init => AttendedInv
  BY PurgeInit DEF Init, PurgeInv, AttendedInv, QueueAttended
<1>2. AttendedInv => QueueAttended
  BY DEF AttendedInv
<1> QED
  BY <1>1, <1>2, AttendedStep, PTL DEF Spec

-----------------------------------------------------------------------------
(* The reaper keeps the promises of the queue *)

(* What is due, reported and there, job by job.                            *)
LEMMA JobSets ==
  ASSUME NEW i \in Ids, NEW s \in Sites
  PROVE  /\ <<i, <<i, s>>>> \in Due <=> i \in queue /\ s \in left[i]
         /\ <<i, <<i, s>>>> \in Due' <=> i \in queue' /\ s \in left'[i]
         /\ <<i, <<i, s>>>> \in Reported <=> i \in batch /\ s \in left[i] /\ sweep[s] = "ok"
         /\ <<i, <<i, s>>>> \in Reported' <=> i \in batch' /\ s \in left'[i] /\ sweep'[s] = "ok"
         /\ <<i, s>> \in There <=> s \in chunks[i]
         /\ <<i, s>> \in There' <=> s \in chunks'[i]
  BY DEF Due, Reported, There, ChunksOfEntries

AllJobs == {<<i, <<i, s>>>> : i \in Ids, s \in Sites}

LEMMA JobTypes ==
  ASSUME TypeOK, TypeOK'
  PROVE  /\ Due \subseteq AllJobs /\ Due' \subseteq AllJobs
         /\ Reported \subseteq AllJobs /\ Reported' \subseteq AllJobs
         /\ There \subseteq Ids \X Sites /\ There' \subseteq Ids \X Sites
         /\ AllJobs \subseteq PQ!Jobs
<1>1. queue \subseteq Ids /\ batch \subseteq Ids /\ queue' \subseteq Ids /\ batch' \subseteq Ids
  BY DEF TypeOK
<1>2. Due \subseteq AllJobs /\ Due' \subseteq AllJobs
  BY <1>1 DEF Due, ChunksOfEntries, AllJobs
<1>3. Reported \subseteq AllJobs /\ Reported' \subseteq AllJobs
  BY <1>1 DEF Reported, ChunksOfEntries, AllJobs
<1>4. There \subseteq Ids \X Sites /\ There' \subseteq Ids \X Sites
  BY DEF There
<1>5. AllJobs \subseteq PQ!Jobs
  BY DEF AllJobs, PQ!Jobs
<1> QED BY <1>2, <1>3, <1>4, <1>5

(* Two sets of jobs are equal when they have the same jobs.                *)
LEMMA SameJobs ==
  ASSUME NEW A, NEW B, A \subseteq AllJobs, B \subseteq AllJobs,
         \A i \in Ids, s \in Sites : <<i, <<i, s>>>> \in A <=> <<i, <<i, s>>>> \in B
  PROVE  A = B
<1>1. \A j \in AllJobs : j \in A <=> j \in B
  BY DEF AllJobs
<1> QED BY <1>1

LEMMA DeleteIsEnqueue ==
  ASSUME PurgeInv, TypeOK', NEW i \in Ids, Delete(i)
  PROVE  PQ!Next
<1> DEFINE js == {<<i, <<i, s>>>> : s \in Sites}
<1>0. TypeOK /\ js \subseteq AllJobs
  BY DEF PurgeInv, AllJobs
<1>1. /\ i \notin queue /\ i \notin batch
      /\ queue' = queue \cup {i} /\ batch' = batch /\ sweep' = sweep /\ chunks' = chunks
      /\ left'[i] = Sites /\ \A k \in Ids \ {i} : left'[k] = left[k]
  BY DEF Delete, PurgeInv, TypeOK, BatchIsQueued, reaperVars
<1>2. \A k \in Ids, s \in Sites : <<k, <<k, s>>>> \in js <=> k = i
  OBVIOUS
<1>3. js \cap Due = {}
  <2>1. \A s \in Sites : <<i, <<i, s>>>> \notin Due
    BY <1>1, JobSets
  <2>2. ASSUME NEW j \in js PROVE j \notin Due
    <3>1. \E s \in Sites : j = <<i, <<i, s>>>>
      OBVIOUS
    <3> HIDE DEF js
    <3> QED BY <2>1, <3>1
  <2> HIDE DEF js
  <2> QED BY <2>2
<1> HIDE DEF js
<1>4. Due' = Due \cup js
  <2>1. \A k \in Ids, s \in Sites : <<k, <<k, s>>>> \in Due' <=> <<k, <<k, s>>>> \in Due \cup js
    BY <1>1, <1>2, JobSets
  <2>2. Due' \subseteq AllJobs /\ Due \cup js \subseteq AllJobs
    BY <1>0, JobTypes
  <2> QED BY <2>1, <2>2, SameJobs
<1>5. Reported' = Reported
  <2>1. \A k \in Ids, s \in Sites : <<k, <<k, s>>>> \in Reported' <=> <<k, <<k, s>>>> \in Reported
    BY <1>1, JobSets
  <2> QED BY <1>0, <2>1, JobTypes, SameJobs
<1>6. There' = There
  BY <1>1 DEF There
<1>7. PQ!Enqueue(js)
  BY <1>3, <1>4, <1>5, <1>6 DEF PQ!Enqueue
<1>8. js \in SUBSET PQ!Jobs
  BY <1>0, JobTypes
<1> QED BY <1>7, <1>8 DEF PQ!Next

LEMMA WriteIsSettle ==
  ASSUME PurgeInv, TypeOK', NEW i \in batch, Write(i)
  PROVE  PQ!Next
<1> DEFINE js == {j \in Reported : j[1] = i}
<1>0. TypeOK /\ js \subseteq AllJobs /\ i \in Ids /\ i \in queue
  BY JobTypes DEF PurgeInv, BatchIsQueued, TypeOK
<1>1. /\ batch' = batch \ {i} /\ chunks' = chunks /\ sweep' = sweep
      /\ queue' = IF Remaining(i) = {} THEN queue \ {i} ELSE queue
      /\ left'[i] = Remaining(i)
      /\ \A k \in Ids \ {i} : left'[k] = left[k]
  BY <1>0 DEF Write, TypeOK
<1>2. \A k \in Ids, s \in Sites : <<k, <<k, s>>>> \in js <=> k = i /\ <<k, <<k, s>>>> \in Reported
  OBVIOUS
<1>3. js \subseteq Reported
  OBVIOUS
<1> HIDE DEF js
<1>4. Due' = Due \ js
  <2>1. ASSUME NEW k \in Ids, NEW s \in Sites
        PROVE  <<k, <<k, s>>>> \in Due' <=> <<k, <<k, s>>>> \in Due \ js
    <3>1. CASE k = i
      BY <1>0, <1>1, <1>2, <3>1, JobSets DEF Remaining
    <3>2. CASE k # i
      BY <1>1, <1>2, <3>2, JobSets
    <3> QED BY <3>1, <3>2
  <2> QED BY <1>0, <2>1, JobTypes, SameJobs
<1>5. Reported' = Reported \ js
  <2>1. \A k \in Ids, s \in Sites :
          <<k, <<k, s>>>> \in Reported' <=> <<k, <<k, s>>>> \in Reported \ js
    BY <1>1, <1>2, JobSets
  <2> QED BY <1>0, <2>1, JobTypes, SameJobs
<1>6. There' = There
  BY <1>1 DEF There
<1>7. PQ!Settle(js)
  BY <1>3, <1>4, <1>5, <1>6 DEF PQ!Settle
<1>8. js \in SUBSET PQ!Jobs
  BY <1>0, JobTypes
<1> QED BY <1>7, <1>8 DEF PQ!Next

(* A batch delete removes what is due at its site, and reports it unless   *)
(* its answer is lost; a request that does not get there changes nothing.  *)
LEMMA SweepIsSweep ==
  ASSUME PurgeInv, TypeOK', NEW s \in Sites, SiteSweeps(s) \/ SiteFails(s)
  PROVE  [PQ!Next]_(PQ!vars)
<1> DEFINE js == {<<i, <<i, s>>>> : i \in {k \in batch : s \in left[k]}}
<1>0. TypeOK /\ js \subseteq AllJobs /\ batch \subseteq Ids /\ batch \subseteq queue
  BY DEF PurgeInv, BatchIsQueued, TypeOK, AllJobs
<1>1. /\ batch' = batch /\ queue' = queue /\ left' = left
      /\ \A t \in Sites \ {s} : sweep'[t] = sweep[t]
      /\ sweep[s] # "ok" /\ (sweep'[s] = "ok" <=> SiteSweeps(s))
  BY <1>0 DEF SiteSweeps, SiteFails, queueVars, TypeOK
<1>2. \A k \in Ids, t \in Sites :
        <<k, <<k, t>>>> \in js <=> k \in batch /\ t = s /\ s \in left[k]
  OBVIOUS
<1>4. js \subseteq Due
  <2>1. ASSUME NEW k \in {l \in batch : s \in left[l]} PROVE <<k, <<k, s>>>> \in Due
    <3>1. k \in Ids /\ k \in queue
      BY <1>0
    <3> QED BY <2>1, <3>1, JobSets
  <2>2. ASSUME NEW j \in js PROVE j \in Due
    <3>1. \E k \in {l \in batch : s \in left[l]} : j = <<k, <<k, s>>>>
      OBVIOUS
    <3> HIDE DEF js
    <3> QED BY <2>1, <3>1
  <2> HIDE DEF js
  <2> QED BY <2>2
<1> HIDE DEF js
<1>3. \A k \in Ids, t \in Sites :
        <<k, t>> \in PQ!ChunksOf(js) <=> k \in batch /\ t = s /\ s \in left[k]
  <2> SUFFICES ASSUME NEW k \in Ids, NEW t \in Sites
               PROVE  <<k, t>> \in PQ!ChunksOf(js) <=> <<k, <<k, t>>>> \in js
    BY <1>2
  <2>1. <<k, <<k, t>>>> \in js => <<k, t>> \in PQ!ChunksOf(js)
    BY DEF PQ!ChunksOf
  <2>2. ASSUME <<k, t>> \in PQ!ChunksOf(js)
        PROVE  <<k, <<k, t>>>> \in js
    <3>1. PICK j \in js : j[2] = <<k, t>>
      BY <2>2 DEF PQ!ChunksOf
    <3>2. PICK i \in Ids, u \in Sites : j = <<i, <<i, u>>>>
      BY <1>0 DEF AllJobs
    <3>3. i = k /\ u = t
      BY <3>1, <3>2
    <3> QED BY <3>1, <3>2, <3>3
  <2> QED BY <2>1, <2>2
<1>5. Due' = Due
  BY <1>1 DEF Due
<1>6. Reported' = IF SiteSweeps(s) THEN Reported \cup js ELSE Reported
  <2>1. ASSUME NEW k \in Ids, NEW t \in Sites
        PROVE  <<k, <<k, t>>>> \in Reported' <=>
                 <<k, <<k, t>>>> \in (IF SiteSweeps(s) THEN Reported \cup js ELSE Reported)
    <3>1. <<k, <<k, t>>>> \in Reported' <=> k \in batch /\ t \in left[k] /\ sweep'[t] = "ok"
      BY <1>1, JobSets
    <3>2. <<k, <<k, t>>>> \in Reported <=> k \in batch /\ t \in left[k] /\ sweep[t] = "ok"
      BY JobSets
    <3> QED BY <1>1, <1>2, <3>1, <3>2
  <2>2. Reported' \subseteq AllJobs /\ Reported \cup js \subseteq AllJobs
    BY <1>0, JobTypes
  <2> QED BY <2>1, <2>2, SameJobs
<1>7. js \in SUBSET PQ!Jobs
  BY <1>0, JobTypes
<1>8. CASE chunks' = SweptBy(s)
  <2>1. There' = There \ PQ!ChunksOf(js)
    <3>1. \A k \in Ids : chunks'[k] = IF k \in batch /\ s \in left[k] THEN chunks[k] \ {s}
                                      ELSE chunks[k]
      BY <1>8 DEF SweptBy
    <3>2. \A k \in Ids, t \in Sites :
            <<k, t>> \in There' <=> <<k, t>> \in There /\ <<k, t>> \notin PQ!ChunksOf(js)
      BY <1>3, <3>1, JobSets
    <3> QED BY <1>0, <3>2, JobTypes
  <2>2. PQ!Sweep(js, TRUE) \/ PQ!Sweep(js, FALSE)
    BY <1>4, <1>5, <1>6, <2>1 DEF PQ!Sweep
  <2> QED BY <1>7, <2>2 DEF PQ!Next
<1>9. CASE chunks' = chunks /\ ~SiteSweeps(s)
  BY <1>5, <1>6, <1>9 DEF PQ!vars, There
<1> QED BY <1>8, <1>9 DEF SiteSweeps, SiteFails

(* A batch is dropped, or was over, where the sweep is reset.              *)
LEMMA ResetIsDrop ==
  ASSUME List \/ NextBatch \/ StoreFails \/ Restart
  PROVE  PQ!Next
<1>1. /\ queue' = queue /\ left' = left /\ chunks' = chunks
  BY DEF List, NextBatch, StoreFails, Restart, queueVars
<1>2. \A s \in Sites : sweep'[s] # "ok"
  BY DEF List, NextBatch, StoreFails, Restart, Idle
<1>3. Reported' = {}
  <2>1. \A j \in ChunksOfEntries(batch') : j[2][2] \in Sites
    BY DEF ChunksOfEntries
  <2> QED BY <1>2, <2>1 DEF Reported, ChunksOfEntries
<1>4. Due' = Due /\ There' = There
  BY <1>1 DEF Due, There, ChunksOfEntries
<1>5. PQ!Drop
  BY <1>3, <1>4 DEF PQ!Drop
<1> QED BY <1>5 DEF PQ!Next

LEMMA RestIsStutter ==
  ASSUME TypeOK,
         \/ Yield \/ Joined \/ Notified \/ Stop \/ TimerFires \/ Shutdown \/ Connect
         \/ PollServers \/ UNCHANGED vars \/ \E i \in Ids : Notify(i)
  PROVE  UNCHANGED PQ!vars
<1> USE DEF queueVars, reaperVars
<1>1. queue' = queue /\ left' = left /\ chunks' = chunks /\ batch' = batch
  BY DEF Yield, Joined, Notified, Stop, TimerFires, Shutdown, Connect, PollServers, Notify,
     vars
<1>2. \A s \in Sites : sweep'[s] = "ok" <=> sweep[s] = "ok"
  BY DEF TypeOK, Yield, Joined, Notified, Stop, TimerFires, Shutdown, Connect, PollServers,
     Notify, vars
<1>3. Due' = Due /\ There' = There
  BY <1>1 DEF Due, There, ChunksOfEntries
<1>4. Reported' = Reported
  <2>1. \A j \in ChunksOfEntries(batch) : j[2][2] \in Sites
    BY DEF ChunksOfEntries
  <2> QED BY <1>1, <1>2, <2>1 DEF Reported, ChunksOfEntries
<1> QED BY <1>3, <1>4 DEF PQ!vars

LEMMA QueueStep == PurgeInv /\ [Next]_vars => [PQ!Next]_(PQ!vars)
<1> SUFFICES ASSUME PurgeInv, [Next]_vars PROVE [PQ!Next]_(PQ!vars)
  OBVIOUS
<1>1. TypeOK /\ TypeOK'
  BY PurgeNext DEF PurgeInv
<1> QED
  BY <1>1, DeleteIsEnqueue, WriteIsSettle, SweepIsSweep, ResetIsDrop, RestIsStutter
     DEF Next, ReaperStep

LEMMA QueueInit == Init => PQ!Init
<1> SUFFICES ASSUME Init PROVE PQ!Init
  OBVIOUS
<1>1. Due = {} /\ Reported = {} /\ There \in SUBSET (Ids \X Sites)
  BY DEF Init, Due, Reported, There, ChunksOfEntries
<1> QED BY <1>1 DEF PQ!Init

(* For any limit of a batch and any entries, sites, failures and restarts  *)
(* the reaper deletes nothing from a site but what an entry lists there,   *)
(* and strikes it out only when the site has reported the deletion since.  *)
THEOREM ImplementsPurgeQueueCorrect == Spec => ImplementsPurgeQueue
<1>1. Init => PQ!Init
  BY QueueInit
<1>2. PurgeInv /\ [Next]_vars => [PQ!Next]_(PQ!vars)
  BY QueueStep
<1> QED BY <1>1, <1>2, PurgeInvCorrect, PTL DEF Spec, ImplementsPurgeQueue, PQ!Spec
=============================================================================
