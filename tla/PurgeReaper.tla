---------------------------- MODULE PurgeReaper ----------------------------
(***************************************************************************)
(* The purge reaper in the process it runs in.  ObjectStore has the reaper *)
(* as the other components see it; this module adds what decides whether   *)
(* it gets its work done: the limit on the entries it lists and their      *)
(* order, sites it has no client for (clients are built at startup, sites  *)
(* are removed later), errors of the store and the back-off, the 50 ms nap,*)
(* shutdown, restarts, and the main task, where main.rs polls it in turn   *)
(* with the two servers' accept loops (tokio::join!).                      *)
(***************************************************************************)
EXTENDS Integers, FiniteSets

CONSTANTS Ids,            \* ids of purge entries, in the order of their keys
          Sites,          \* sites the deleted objects have chunks on
          Limit,          \* how many entries one batch lists (1000 in the code)
          MaxSiteErrors,  \* how many batch deletes fail
          MaxStoreErrors, \* how many RocksDB calls fail
          MaxRestarts     \* how often the process is restarted

ASSUME IdsAssumption == Ids \subseteq Int /\ IsFiniteSet(Ids)
ASSUME LimitAssumption == Limit \in Nat \ {0}
ASSUME BoundsAssumption ==
  MaxSiteErrors \in Nat /\ MaxStoreErrors \in Nat /\ MaxRestarts \in Nat

VARIABLES
  queue,    \* ids in the purge column family
  left,     \* sites whose chunk an entry does not mark deleted
  chunks,   \* sites that store a chunk of a deleted object (backends)
  deleted,  \* objects deleted so far
  owed,     \* deleted objects whose handler has not woken the reaper yet
  permit,   \* a wake-up is waiting in the Notify
  shut,     \* a shutdown is waiting in its Notify
  clients,  \* sites the running process has a client for
  rpc,      \* where the reaper is
  batch,    \* ids it listed
  sweep,    \* its batch delete on every site
  turn,     \* which part of the main task is being polled
  dialed,   \* a client waits for its connection to be accepted
  siteErrors, storeErrors, restarts

queueVars  == <<queue, left>>
wakeVars   == <<owed, permit, shut>>
reaperVars == <<rpc, batch, sweep>>
taskVars   == <<turn, dialed>>
faultVars  == <<siteErrors, storeErrors, restarts>>
vars == <<queue, left, chunks, deleted, owed, permit, shut, clients, rpc, batch, sweep,
          turn, dialed, siteErrors, storeErrors, restarts>>

Idle == [s \in Sites |-> "idle"]

(* The first entries of the column family, in key order.                   *)
Listed == {i \in queue : Cardinality({j \in queue : j < i}) < Limit}

Init ==
  /\ queue = {} /\ deleted = {}
  /\ left = [i \in Ids |-> {}]
  /\ chunks = [i \in Ids |-> Sites]
  /\ owed = {} /\ permit = FALSE /\ shut = FALSE
  /\ clients = Sites
  /\ rpc = "list"
  /\ batch = {}
  /\ sweep = Idle
  /\ turn = "servers" /\ dialed = FALSE
  /\ siteErrors = 0 /\ storeErrors = 0 /\ restarts = 0

-----------------------------------------------------------------------------
(* Handlers run on the worker threads.                                     *)

(* A delete handler queues the object's chunks ...                         *)
Delete(i) ==
  /\ i \notin deleted
  /\ deleted' = deleted \cup {i}
  /\ queue' = queue \cup {i}
  /\ left' = [left EXCEPT ![i] = Sites]
  /\ owed' = owed \cup {i}
  /\ UNCHANGED <<chunks, permit, shut, clients, reaperVars, taskVars, faultVars>>

(* Mutant of Notify: the handler forgets to wake the reaper.               *)
NotifyForgotten(i) ==
  /\ i \in owed
  /\ owed' = owed \ {i}
  /\ UNCHANGED <<queueVars, chunks, deleted, permit, shut, clients, reaperVars, taskVars,
                 faultVars>>

(* ... and then wakes the reaper.                                          *)
Notify(i) ==
  /\ i \in owed
  /\ owed' = owed \ {i}
  /\ permit' = TRUE
  /\ UNCHANGED <<queueVars, chunks, deleted, shut, clients, reaperVars, taskVars, faultVars>>

Shutdown ==
  /\ ~shut
  /\ shut' = TRUE
  /\ UNCHANGED <<queueVars, chunks, deleted, owed, permit, clients, reaperVars, taskVars,
                 faultVars>>

-----------------------------------------------------------------------------
(* The main task: join! polls the servers and the reaper in turn.          *)

Connect ==
  /\ ~dialed
  /\ dialed' = TRUE
  /\ UNCHANGED <<queueVars, chunks, deleted, wakeVars, clients, reaperVars, turn, faultVars>>

PollServers ==
  /\ turn = "servers"
  /\ turn' = "reaper"
  /\ dialed' = FALSE
  /\ UNCHANGED <<queueVars, chunks, deleted, wakeVars, clients, reaperVars, faultVars>>

(* Once polled the reaper runs until it awaits something that is not there *)
(* yet: a batch delete it spawned, a timer or a notification.              *)
Pending ==
  \/ rpc = "sweep" /\ \E s \in Sites : sweep[s] = "sent"
  \/ rpc \in {"nap", "backoff", "stopped"}
  \/ rpc = "wait" /\ ~permit /\ ~shut

Yield ==
  /\ turn = "reaper"
  /\ Pending
  /\ turn' = "servers"
  /\ UNCHANGED <<queueVars, chunks, deleted, wakeVars, clients, reaperVars, dialed, faultVars>>

Running == turn = "reaper" /\ UNCHANGED taskVars

(* Mutant of Reachable: entries that failed before are left for later.     *)
ReachableFirstAttempt == {s \in clients : \E i \in Listed : left[i] = Sites}

(* process_batch: list, group by site, spawn one batch delete for every    *)
(* site there is a client for.  An empty list ends the drain.              *)
Reachable == {s \in clients : \E i \in Listed : s \in left[i]}

List ==
  /\ Running
  /\ rpc = "list"
  /\ batch' = Listed
  /\ sweep' = [s \in Sites |-> IF s \in Reachable THEN "sent" ELSE "idle"]
  /\ rpc' = IF queue = {} THEN "wait" ELSE "sweep"
  /\ UNCHANGED <<queueVars, chunks, deleted, wakeVars, clients, faultVars>>

(* Mutant of Joined: the results are written without joining the tasks.    *)
JoinedEarly ==
  /\ Running
  /\ rpc = "sweep"
  /\ rpc' = "write"
  /\ UNCHANGED <<queueVars, chunks, deleted, wakeVars, clients, batch, sweep, faultVars>>

(* All handles are joined; with none spawned there is nothing to await.    *)
Joined ==
  /\ Running
  /\ rpc = "sweep"
  /\ ~Pending
  /\ rpc' = "write"
  /\ UNCHANGED <<queueVars, chunks, deleted, wakeVars, clients, batch, sweep, faultVars>>

(* Mutant of Remaining: a site that was skipped counts as deleted.         *)
RemainingOfSent(i) == {s \in left[i] : sweep[s] = "err"}

(* The sites of an entry whose batch delete has not succeeded.             *)
Remaining(i) == {s \in left[i] : sweep[s] # "ok"}

(* Mutant of Write: an entry is over once one of its sites is.             *)
WriteOver(i) ==
  /\ Running
  /\ rpc = "write"
  /\ i \in batch /\ \A j \in batch : i <= j
  /\ batch' = batch \ {i}
  /\ left' = [left EXCEPT ![i] = Remaining(i)]
  /\ queue' = IF Remaining(i) # left[i] THEN queue \ {i} ELSE queue
  /\ UNCHANGED <<chunks, deleted, wakeVars, clients, rpc, sweep, faultVars>>

(* The entries are written one by one, in order.                           *)
Write(i) ==
  /\ Running
  /\ rpc = "write"
  /\ i \in batch /\ \A j \in batch : i <= j
  /\ batch' = batch \ {i}
  /\ left' = [left EXCEPT ![i] = Remaining(i)]
  /\ queue' = IF Remaining(i) = {} THEN queue \ {i} ELSE queue
  /\ UNCHANGED <<chunks, deleted, wakeVars, clients, rpc, sweep, faultVars>>

(* Mutant of NextBatch: the drain ends after one batch.                    *)
OneBatch ==
  /\ Running
  /\ rpc = "write" /\ batch = {}
  /\ rpc' = "wait"
  /\ sweep' = Idle
  /\ UNCHANGED <<queueVars, chunks, deleted, wakeVars, clients, batch, faultVars>>

(* process_batch returns how many entries it listed, not how many it       *)
(* finished, so the drain goes on while anything is queued.                *)
NextBatch ==
  /\ Running
  /\ rpc = "write" /\ batch = {}
  /\ rpc' = "list"
  /\ sweep' = Idle
  /\ UNCHANGED <<queueVars, chunks, deleted, wakeVars, clients, batch, faultVars>>

(* An error of the store ends the drain after a pause of 5 s.              *)
StoreFails ==
  /\ Running
  /\ rpc = "list" \/ (rpc = "write" /\ batch # {})
  /\ storeErrors < MaxStoreErrors
  /\ storeErrors' = storeErrors + 1
  /\ rpc' = "backoff"
  /\ batch' = {}
  /\ sweep' = Idle
  /\ UNCHANGED <<queueVars, chunks, deleted, wakeVars, clients, siteErrors, restarts>>

(* Mutant of Notified: the branch select! drops takes its permit with it.  *)
NotifiedDropsShutdown ==
  /\ Running
  /\ rpc = "wait" /\ permit
  /\ permit' = FALSE /\ shut' = FALSE
  /\ rpc' = "nap"
  /\ UNCHANGED <<queueVars, chunks, deleted, owed, clients, batch, sweep, faultVars>>

(* select! takes either notification when both are there.                  *)
Notified ==
  /\ Running
  /\ rpc = "wait" /\ permit
  /\ permit' = FALSE
  /\ rpc' = "nap"
  /\ UNCHANGED <<queueVars, chunks, deleted, owed, shut, clients, batch, sweep, faultVars>>

Stop ==
  /\ Running
  /\ rpc = "wait" /\ shut
  /\ shut' = FALSE
  /\ rpc' = "stopped"
  /\ UNCHANGED <<queueVars, chunks, deleted, owed, permit, clients, batch, sweep, faultVars>>

-----------------------------------------------------------------------------
(* Timers and sites *)

TimerFires ==
  /\ rpc \in {"nap", "backoff"}
  /\ rpc' = IF rpc = "nap" THEN "list" ELSE "wait"
  /\ UNCHANGED <<queueVars, chunks, deleted, wakeVars, clients, batch, sweep, taskVars,
                 faultVars>>

SweptBy(s) ==
  [i \in Ids |-> IF i \in batch /\ s \in left[i] THEN chunks[i] \ {s} ELSE chunks[i]]

SiteSweeps(s) ==
  /\ sweep[s] = "sent"
  /\ sweep' = [sweep EXCEPT ![s] = "ok"]
  /\ chunks' = SweptBy(s)
  /\ UNCHANGED <<queueVars, deleted, wakeVars, clients, rpc, batch, taskVars, faultVars>>

(* The request is refused or lost, or the response is lost after the site  *)
(* has deleted the chunks.                                                 *)
SiteFails(s) ==
  /\ sweep[s] = "sent"
  /\ siteErrors < MaxSiteErrors
  /\ siteErrors' = siteErrors + 1
  /\ sweep' = [sweep EXCEPT ![s] = "err"]
  /\ chunks' \in {chunks, SweptBy(s)}
  /\ UNCHANGED <<queueVars, deleted, wakeVars, clients, rpc, batch, taskVars, storeErrors,
                 restarts>>

(* The process stops anywhere and starts again, with clients for the sites *)
(* that are configured by then; nobody owes a wake-up any more.            *)
Restart ==
  /\ restarts < MaxRestarts
  /\ restarts' = restarts + 1
  /\ clients' \in SUBSET Sites
  /\ owed' = {} /\ permit' = FALSE /\ shut' = FALSE
  /\ rpc' = "list" /\ batch' = {} /\ sweep' = Idle
  /\ turn' = "servers" /\ dialed' = FALSE
  /\ UNCHANGED <<queueVars, chunks, deleted, siteErrors, storeErrors>>

ReaperStep ==
  \/ Yield \/ List \/ Joined \/ NextBatch \/ Notified \/ Stop
  \/ \E i \in batch : Write(i)

Next ==
  \/ \E i \in Ids : Delete(i) \/ Notify(i)
  \/ Shutdown \/ Connect \/ PollServers
  \/ ReaperStep \/ StoreFails
  \/ TimerFires
  \/ \E s \in Sites : SiteSweeps(s) \/ SiteFails(s)
  \/ Restart

Spec == Init /\ [][Next]_vars

(* The runtime runs the main task and the handlers whenever they are       *)
(* ready, timers fire, and a request to a site ends.                       *)
FairSpec ==
  /\ Spec
  /\ \A i \in Ids : WF_vars(Notify(i))
  /\ WF_vars(PollServers)
  /\ WF_vars(ReaperStep)
  /\ WF_vars(TimerFires)
  /\ \A s \in Sites : WF_vars(SiteSweeps(s))

-----------------------------------------------------------------------------
(* Types of the variables, and the reaper's local state at each place:     *)
(* tasks run only while it joins them, it holds entries only in a batch.   *)
TypeOK ==
  /\ queue \in SUBSET Ids /\ deleted \in SUBSET Ids /\ batch \in SUBSET Ids
  /\ owed \in SUBSET Ids
  /\ left \in [Ids -> SUBSET Sites] /\ chunks \in [Ids -> SUBSET Sites]
  /\ permit \in BOOLEAN /\ shut \in BOOLEAN /\ dialed \in BOOLEAN
  /\ clients \in SUBSET Sites
  /\ rpc \in {"list", "sweep", "write", "backoff", "nap", "wait", "stopped"}
  /\ sweep \in [Sites -> {"idle", "sent", "ok", "err"}]
  /\ turn \in {"servers", "reaper"}
  /\ siteErrors \in Nat /\ storeErrors \in Nat /\ restarts \in Nat
  /\ (\E s \in Sites : sweep[s] = "sent") => rpc = "sweep"
  /\ batch # {} => rpc \in {"sweep", "write"}

(* No chunk of a deleted object is forgotten: while a site stores it the   *)
(* object's entry is queued and lists the site, whether its batch delete   *)
(* failed, its client is gone or the process stopped between two writes.   *)
NothingForgotten ==
  \A i \in deleted : chunks[i] # {} => i \in queue /\ chunks[i] \subseteq left[i]

(* Why it holds: the reaper's batch is what it has yet to write of the     *)
(* queue, and a site that confirmed its batch delete has none of it left.  *)
BatchIsQueued == batch \subseteq queue /\ queue \subseteq deleted

SweptIsGone ==
  \A i \in batch, s \in Sites : sweep[s] = "ok" /\ s \in left[i] => s \notin chunks[i]

PurgeInv == TypeOK /\ BatchIsQueued /\ SweptIsGone /\ NothingForgotten

(* No wake-up is lost: the reaper does not wait with entries queued and no *)
(* wake-up there or about to be sent, be they past the limit of a batch,   *)
(* retried, or queued while it drained, napped or was restarted, also      *)
(* between the write that queues an entry and its wake-up; only an error   *)
(* of the store makes it.                                                  *)
QueueAttended ==
  (queue # {} /\ rpc = "wait") => permit \/ owed # {} \/ storeErrors > 0

(* Inductive: the pause that ends in waiting follows an error of the store. *)
AttendedInv == TypeOK /\ QueueAttended /\ (rpc = "backoff" => storeErrors > 0)

(* With a client for every site every entry is worked off, also those past *)
(* the limit of the batch before it and those queued while the reaper      *)
(* drains or naps; only an error of the store may leave entries queued     *)
(* while the reaper waits for a wake-up nobody owes them.                  *)
EntriesPurged ==
  \A i \in Ids :
    (i \in queue) ~> \/ i \notin queue
                     \/ clients # Sites
                     \/ storeErrors > 0 /\ rpc = "wait" /\ ~permit /\ owed = {}
                     \/ rpc = "stopped"

(* A shutdown that is asked for once stops the reaper even if it is        *)
(* draining at the time, as the tests of the reaper rely on.               *)
ShutdownStops ==
  shut ~> \/ rpc = "stopped"
          \/ clients # Sites
          \/ restarts > 0

(* Nobody waits for a connection forever while the reaper drains.          *)
ServersAccept == dialed ~> (~dialed \/ clients # Sites)

(* The reaper backs off instead of looping: it always comes to an await.   *)
(* It does not hold when an entry names a site without a client: the batch *)
(* is listed and written back again and again, and the accept loops, which *)
(* share the main task, are never polled.                                  *)
NoTightLoop == (turn = "reaper") ~> (turn = "servers")

(* The reaper keeps what PurgeQueue promises, entry by entry: nothing but  *)
(* what an entry still lists is deleted from a site, and an entry drops a  *)
(* site only when the site has reported its deletion since.                *)
ChunksOfEntries(is) == {<<i, <<i, s>>>> : i \in is, s \in Sites}

Due      == {j \in ChunksOfEntries(queue) : j[2][2] \in left[j[1]]}
Reported == {j \in ChunksOfEntries(batch) : j[2][2] \in left[j[1]] /\ sweep[j[2][2]] = "ok"}
There    == {c \in Ids \X Sites : c[2] \in chunks[c[1]]}

PQ == INSTANCE PurgeQueue WITH
  Owners <- Ids, Chunks <- Ids \X Sites,
  due <- Due, reported <- Reported, there <- There, lied <- FALSE

ImplementsPurgeQueue == PQ!Spec
=============================================================================
