---------------------------- MODULE ObjectStore ----------------------------
(***************************************************************************)
(* The data path of the gateway: PUT, COPY, GET, DELETE and batch DELETE   *)
(* handlers, the tasks they spawn, the metadata store, the purge queue,    *)
(* the purge reaper and the storage sites, with site errors, store errors, *)
(* clients that hang up and crashes of the gateway process.                *)
(*                                                                         *)
(* Every write stores its chunks under fresh UUIDs, so a version is named  *)
(* by the write that made it, and its chunk on site s by the pair of the   *)
(* two: a version has at most one chunk on a site.                         *)
(***************************************************************************)
EXTENDS Naturals, FiniteSets

CONSTANTS
  Keys,            \* object keys of a bucket
  Sites,           \* storage sites, one client each
  Puts,            \* PUT requests, and the versions they write
  Copies,          \* the PUT requests that carry x-amz-copy-source
  Gets,            \* GET requests
  Dels,            \* DELETE and batch DELETE requests
  None,            \* Rust's None: no object under a key, no key yet
  DataChunks,      \* k of the k+m erasure code
  ParityChunks,    \* m of the k+m erasure code
  Modes,           \* storage modes the buckets use
  MaxSiteErrors,   \* how many site requests fail
  MaxKeyErrors,    \* how many batch deletes answer 200 with errors inside
  MaxStoreErrors,  \* how many RocksDB calls fail
  MaxCrashes,      \* how often the gateway process is killed
  MaxTimes         \* how often a batch delete names one key

Requests == Puts \cup Gets \cup Dels
Readers  == Gets \cup Copies

ASSUME SitesAssumption == IsFiniteSet(Sites) /\ Sites # {}
ASSUME RequestsAssumption ==
  /\ Copies \subseteq Puts
  /\ Puts \cap Gets = {} /\ Puts \cap Dels = {} /\ Gets \cap Dels = {}
  /\ None \notin Puts
ASSUME CodeAssumption ==
  /\ DataChunks \in Nat \ {0}
  /\ ParityChunks \in Nat
  /\ Modes \subseteq {"Replica", "Erasure"}
ASSUME BoundsAssumption ==
  /\ MaxSiteErrors \in Nat
  /\ MaxKeyErrors \in Nat
  /\ MaxStoreErrors \in Nat
  /\ MaxCrashes \in Nat
  /\ MaxTimes \in Nat \ {0}

VARIABLES
  \* metadata store (durable) and the wake-up permit of the reaper
  objects,   \* objects column family: the version every key is bound to
  purge,     \* purge column family: the entries of the purge queue
  permit,    \* tokio Notify: a wake-up is waiting for the reaper
  \* storage sites and the upload tasks that write to them
  backend,   \* the versions every site stores a chunk of
  task,      \* upload task of every version and site
  \* handlers
  pc,        \* where every request is
  meta,      \* the ObjectMeta a write builds
  from,      \* the version a reader fetches
  got,       \* what every site answered a reader
  todo,      \* how often a delete has still to look up every key
  found,     \* the objects a delete has looked up
  \* purge reaper
  rpc,       \* where the reaper is
  batch,     \* the entries it listed
  sweep,     \* its batch delete on every site
  \* faults so far, and history
  faults,    \* how many of each fault have happened
  fate       \* how a version lost its key (not in the code)

metaVars   == <<objects, purge, permit>>
siteVars   == <<backend, task>>
putVars    == <<meta>>
readVars   == <<from, got>>
delVars    == <<todo, found>>
reaperVars == <<rpc, batch, sweep>>
vars == <<objects, purge, permit, backend, task, pc, meta, from, got, todo,
          found, rpc, batch, sweep, faults, fate>>

-----------------------------------------------------------------------------
(* Data *)

Phases == {"new", "fetch", "fanout", "commit", "read", "notify",
           "done", "failed", "lost"}
TaskStates  == {"idle", "sent", "ok", "err"}
Answers     == {"idle", "asked", "found", "missing", "err"}
SweepStates == {"idle", "sent", "ok", "err"}
Fates       == {"none", "overwritten", "deleted", "raced"}
FaultKinds  == {"site", "key", "store", "crash"}
Objects     == [key : Keys, nth : 1 .. MaxTimes, ver : Puts]
Owners      == Dels \X (1 .. MaxTimes)
Entries     == [owner : Owners, ver : Puts, left : SUBSET Sites]
Metas       == [key : Keys \cup {None}, placed : SUBSET Sites, need : {1, DataChunks},
                confirmed : SUBSET Sites]

FaultBound(f) == CASE f = "site"  -> MaxSiteErrors
                   [] f = "key"   -> MaxKeyErrors
                   [] f = "store" -> MaxStoreErrors
                   [] f = "crash" -> MaxCrashes

Fault(f) ==
  /\ faults[f] < FaultBound(f)
  /\ faults' = [faults EXCEPT ![f] = @ + 1]

Holders(v) == {s \in Sites : v \in backend[s]}

Bound(v) == \E k \in Keys : objects[k] = v

(* Where the chunks of a write go and how many of them must be stored      *)
(* before it is acknowledged: a replica on every site, one of them, or one *)
(* chunk on each of k+m sites in a shuffled order, k of them.  Without     *)
(* parity there is no erasure code: encode refuses the body.               *)
Placements ==
  {<<Sites, 1>> : m \in Modes \cap {"Replica"}} \cup
  {<<S, DataChunks>> : S \in {T \in SUBSET Sites :
      /\ "Erasure" \in Modes /\ ParityChunks # 0
      /\ Cardinality(T) = DataChunks + ParityChunks}}

Uploaded(p) == {s \in meta[p].placed : task[p][s] = "ok"}

UploadsOver(p) == \A s \in meta[p].placed : task[p][s] \in {"ok", "err"}

Found(r) == {s \in Sites : got[r][s] = "found"}

Enough(r) == Cardinality(Found(r)) >= meta[from[r]].need

Answered(r) == \A s \in Sites : got[r][s] # "asked"

Init ==
  /\ objects = [k \in Keys |-> None]
  /\ purge = {}
  /\ permit = FALSE
  /\ backend = [s \in Sites |-> {}]
  /\ task = [p \in Puts |-> [s \in Sites |-> "idle"]]
  /\ pc = [r \in Requests |-> "new"]
  /\ meta = [p \in Puts |-> [key |-> None, placed |-> {}, need |-> 1, confirmed |-> {}]]
  /\ from = [r \in Readers |-> None]
  /\ got = [r \in Readers |-> [s \in Sites |-> "idle"]]
  /\ todo = [d \in Dels |-> [k \in Keys |-> 0]]
  /\ found = [d \in Dels |-> {}]
  /\ rpc = "list"
  /\ batch = {}
  /\ sweep = [s \in Sites |-> "idle"]
  /\ faults = [f \in FaultKinds |-> 0]
  /\ fate = [p \in Puts |-> "none"]

-----------------------------------------------------------------------------
(* PUT and COPY *)

(* put_replicated and put_erasure_coded hand their chunks to fanout_put,   *)
(* which spawns one upload task per chunk.  Erasure coding fails before    *)
(* that when the body is empty or the sites are too few.                   *)
StartFanout(p, k) ==
  /\ \/ /\ pc' = [pc EXCEPT ![p] = "fanout"]
        /\ \E pl \in Placements :
             /\ meta' = [meta EXCEPT ![p] =
                  [key |-> k, placed |-> pl[1], need |-> pl[2], confirmed |-> {}]]
             /\ task' = [task EXCEPT ![p] =
                  [s \in Sites |-> IF s \in pl[1] THEN "sent" ELSE "idle"]]
     \/ /\ "Erasure" \in Modes
        /\ pc' = [pc EXCEPT ![p] = "failed"]
        /\ UNCHANGED <<meta, task>>
  /\ UNCHANGED backend

PutBegin(p, k) ==
  /\ p \notin Copies
  /\ pc[p] = "new"
  /\ StartFanout(p, k)
  /\ UNCHANGED <<metaVars, readVars, delVars, reaperVars, faults, fate>>

(* Mutant of FanoutOk: chunks are recorded as Confirmed when they are sent.*)
FanoutOkTrustsSent(p) ==
  /\ pc[p] = "fanout"
  /\ Cardinality(Uploaded(p)) >= meta[p].need
  /\ meta' = [meta EXCEPT ![p].confirmed = meta[p].placed]
  /\ pc' = [pc EXCEPT ![p] = "commit"]
  /\ UNCHANGED <<metaVars, siteVars, readVars, delVars, reaperVars, faults, fate>>

(* fanout_put has seen the quorum: it leaves its loop and drains what else *)
(* has arrived; the sites heard from by then are recorded as Confirmed,    *)
(* the others as Pending.                                                  *)
FanoutOk(p) ==
  /\ pc[p] = "fanout"
  /\ Cardinality(Uploaded(p)) >= meta[p].need
  /\ meta' = [meta EXCEPT ![p].confirmed = Uploaded(p)]
  /\ pc' = [pc EXCEPT ![p] = "commit"]
  /\ UNCHANGED <<metaVars, siteVars, readVars, delVars, reaperVars, faults, fate>>

FanoutFails(p) ==
  /\ pc[p] = "fanout"
  /\ UploadsOver(p)
  /\ Cardinality(Uploaded(p)) < meta[p].need
  /\ pc' = [pc EXCEPT ![p] = "failed"]
  /\ UNCHANGED <<metaVars, siteVars, putVars, readVars, delVars, reaperVars, faults, fate>>

(* store.put_object replaces whatever the key was bound to: the chunks of  *)
(* the version it replaces are not queued for purging.                     *)
CommitMeta(p) ==
  LET k == meta[p].key IN
  /\ pc[p] = "commit"
  /\ objects' = [objects EXCEPT ![k] = p]
  /\ fate' = [v \in Puts |-> IF objects[k] = v THEN "overwritten" ELSE fate[v]]
  /\ pc' = [pc EXCEPT ![p] = "done"]
  /\ UNCHANGED <<purge, permit, siteVars, putVars, readVars, delVars, reaperVars, faults>>

PutStoreFails(p) ==
  /\ pc[p] = "commit"
  /\ Fault("store")
  /\ pc' = [pc EXCEPT ![p] = "failed"]
  /\ UNCHANGED <<metaVars, siteVars, putVars, readVars, delVars, reaperVars, fate>>

-----------------------------------------------------------------------------
(* GET, and the fetch a COPY starts with *)

(* The metadata are read once; fanout_get then asks every site the version *)
(* was placed on.  A key without an object is a NoSuchKey error.           *)
OpenObject(r, k) ==
  LET v == objects[k] IN
  \/ /\ v = None
     /\ pc' = [pc EXCEPT ![r] = "failed"]
     /\ UNCHANGED <<from, got>>
  \/ /\ v # None
     /\ pc' = [pc EXCEPT ![r] = "fetch"]
     /\ from' = [from EXCEPT ![r] = v]
     /\ got' = [got EXCEPT ![r] =
          [s \in Sites |-> IF s \in meta[v].placed THEN "asked" ELSE "idle"]]

GetBegin(r, k) ==
  /\ r \in Gets
  /\ pc[r] = "new"
  /\ OpenObject(r, k)
  /\ UNCHANGED <<metaVars, siteVars, putVars, delVars, reaperVars, faults, fate>>

CopyBegin(p, src, dst) ==
  /\ p \in Copies
  /\ pc[p] = "new"
  /\ OpenObject(p, src)
  /\ meta' = [meta EXCEPT ![p].key = dst]
  /\ UNCHANGED <<metaVars, siteVars, delVars, reaperVars, faults, fate>>

(* A site answers with the chunk or with 404; a failed request is an error.*)
SiteAnswers(r, s) ==
  /\ pc[r] = "fetch"
  /\ got[r][s] = "asked"
  /\ got' = [got EXCEPT ![r][s] = IF from[r] \in backend[s] THEN "found" ELSE "missing"]
  /\ UNCHANGED <<metaVars, siteVars, pc, putVars, from, delVars, reaperVars, faults, fate>>

SiteFailsRead(r, s) ==
  /\ pc[r] = "fetch"
  /\ got[r][s] = "asked"
  /\ Fault("site")
  /\ got' = [got EXCEPT ![r][s] = "err"]
  /\ UNCHANGED <<metaVars, siteVars, pc, putVars, from, delVars, reaperVars, fate>>

GetOk(r) ==
  /\ r \in Gets
  /\ pc[r] = "fetch"
  /\ Enough(r)
  /\ pc' = [pc EXCEPT ![r] = "done"]
  /\ UNCHANGED <<metaVars, siteVars, putVars, readVars, delVars, reaperVars, faults, fate>>

(* Mutant of CopyFetched: a copy that binds the destination to the chunks  *)
(* of its source instead of storing its own.                               *)
CopySharesChunks(p) ==
  /\ p \in Copies
  /\ pc[p] = "fetch"
  /\ Enough(p)
  /\ objects' = [objects EXCEPT ![meta[p].key] = from[p]]
  /\ pc' = [pc EXCEPT ![p] = "done"]
  /\ UNCHANGED <<purge, permit, siteVars, putVars, readVars, delVars, reaperVars, faults,
                 fate>>

(* A COPY stores the data it fetched as a version of its own, under fresh  *)
(* chunk keys.                                                             *)
CopyFetched(p) ==
  /\ p \in Copies
  /\ pc[p] = "fetch"
  /\ Enough(p)
  /\ StartFanout(p, meta[p].key)
  /\ UNCHANGED <<metaVars, readVars, delVars, reaperVars, faults, fate>>

(* Mutant of FetchFails: the first 404 ends the fetch.                     *)
FetchFailsEarly(r) ==
  /\ pc[r] = "fetch"
  /\ \E s \in Sites : got[r][s] = "missing"
  /\ ~Enough(r)
  /\ pc' = [pc EXCEPT ![r] = "failed"]
  /\ UNCHANGED <<metaVars, siteVars, putVars, readVars, delVars, reaperVars, faults, fate>>

(* fanout_get fails when every site has answered and too few had a chunk.  *)
FetchFails(r) ==
  /\ pc[r] = "fetch"
  /\ Answered(r)
  /\ ~Enough(r)
  /\ pc' = [pc EXCEPT ![r] = "failed"]
  /\ UNCHANGED <<metaVars, siteVars, putVars, readVars, delVars, reaperVars, faults, fate>>

-----------------------------------------------------------------------------
(* DELETE and batch DELETE *)

(* A batch delete may name a key more than once, and then looks it up as   *)
(* often.                                                                  *)
DelBegin(d, times) ==
  /\ pc[d] = "new"
  /\ \E k \in Keys : times[k] # 0
  /\ pc' = [pc EXCEPT ![d] = "read"]
  /\ todo' = [todo EXCEPT ![d] = times]
  /\ UNCHANGED <<metaVars, siteVars, putVars, readVars, found, reaperVars, faults, fate>>

ObjectAt(d, k) == [key |-> k, nth |-> todo[d][k], ver |-> objects[k]]

(* Mutant of DelRead: the lookup does not tell a key without an object.    *)
DelReadUnchecked(d, k) ==
  /\ pc[d] = "read"
  /\ todo[d][k] # 0
  /\ todo' = [todo EXCEPT ![d][k] = @ - 1]
  /\ found' = [found EXCEPT ![d] = @ \cup {ObjectAt(d, k)}]
  /\ UNCHANGED <<metaVars, siteVars, pc, putVars, readVars, reaperVars, faults, fate>>

(* One get_cf of the objects column family per key that is named ...       *)
DelRead(d, k) ==
  /\ pc[d] = "read"
  /\ todo[d][k] # 0
  /\ todo' = [todo EXCEPT ![d][k] = @ - 1]
  /\ found' = [found EXCEPT ![d] = IF objects[k] = None THEN @ ELSE @ \cup {ObjectAt(d, k)}]
  /\ UNCHANGED <<metaVars, siteVars, pc, putVars, readVars, reaperVars, faults, fate>>

(* ... then one WriteBatch, not a transaction: it removes the keys that    *)
(* were found, whatever they are bound to by now, and queues the versions  *)
(* that were read, each as often as it was.                                *)
FoundKeys(d) == {o.key : o \in found[d]}

EntryFor(d, o) == [owner |-> <<d, o.nth>>, ver |-> o.ver, left |-> meta[o.ver].placed]

(* Mutant of DelWrite: the batch queues the chunks and leaves the key.     *)
DelWriteKeepsKey(d) ==
  /\ pc[d] = "read"
  /\ \A k \in Keys : todo[d][k] = 0
  /\ purge' = purge \cup {EntryFor(d, o) : o \in found[d]}
  /\ pc' = [pc EXCEPT ![d] = "notify"]
  /\ UNCHANGED <<objects, permit, siteVars, putVars, readVars, delVars, reaperVars, faults,
                 fate>>

DelWrite(d) ==
  /\ pc[d] = "read"
  /\ \A k \in Keys : todo[d][k] = 0
  /\ objects' = [k \in Keys |-> IF k \in FoundKeys(d) THEN None ELSE objects[k]]
  /\ purge' = purge \cup {EntryFor(d, o) : o \in found[d]}
  /\ fate' = [v \in Puts |->
       IF \E k \in FoundKeys(d) : objects[k] = v
       THEN IF \E o \in found[d] : o.ver = v THEN "deleted" ELSE "raced"
       ELSE fate[v]]
  /\ pc' = [pc EXCEPT ![d] = "notify"]
  /\ UNCHANGED <<permit, siteVars, putVars, readVars, delVars, reaperVars, faults>>

DelStoreFails(d) ==
  /\ pc[d] = "read"
  /\ Fault("store")
  /\ pc' = [pc EXCEPT ![d] = "failed"]
  /\ UNCHANGED <<metaVars, siteVars, putVars, readVars, delVars, reaperVars, fate>>

(* Mutant of DelNotify: the handler forgets to wake the reaper.            *)
DelNotifyForgotten(d) ==
  /\ pc[d] = "notify"
  /\ pc' = [pc EXCEPT ![d] = "done"]
  /\ UNCHANGED <<metaVars, siteVars, putVars, readVars, delVars, reaperVars, faults, fate>>

DelNotify(d) ==
  /\ pc[d] = "notify"
  /\ permit' = TRUE
  /\ pc' = [pc EXCEPT ![d] = "done"]
  /\ UNCHANGED <<objects, purge, siteVars, putVars, readVars, delVars, reaperVars, faults, fate>>

-----------------------------------------------------------------------------
(* Upload tasks and sites.  A task is spawned: it runs to its end whatever *)
(* becomes of the handler, and a request that is under way when the        *)
(* process is killed may still reach its site.  Nobody but the handler sees that a chunk is  *)
(* stored before the version is bound, so storing it and reporting it are  *)
(* one step.                                                               *)

SiteStores(p, s) ==
  /\ task[p][s] = "sent"
  /\ task' = [task EXCEPT ![p][s] = "ok"]
  /\ backend' = [backend EXCEPT ![s] = @ \cup {p}]
  /\ UNCHANGED <<metaVars, pc, putVars, readVars, delVars, reaperVars, faults, fate>>

(* The request is refused or lost, or the response is lost after the site  *)
(* has stored the chunk.  What fails one upload of a PUT may fail the      *)
(* others, and counts as one fault.                                        *)
UploadFails(p, s) ==
  /\ task[p][s] = "sent"
  /\ Fault("site") \/ ((\E t \in Sites : task[p][t] = "err") /\ UNCHANGED faults)
  /\ task' = [task EXCEPT ![p][s] = "err"]
  /\ \/ UNCHANGED backend
     \/ backend' = [backend EXCEPT ![s] = @ \cup {p}]
  /\ UNCHANGED <<metaVars, pc, putVars, readVars, delVars, reaperVars, fate>>

-----------------------------------------------------------------------------
(* Purge reaper *)

Wake ==
  /\ rpc = "idle"
  /\ permit
  /\ permit' = FALSE
  /\ rpc' = "list"
  /\ UNCHANGED <<objects, purge, siteVars, pc, putVars, readVars, delVars, batch, sweep,
                 faults, fate>>

(* process_batch lists the queue and sends one batch delete per site; an   *)
(* empty queue ends the drain.                                             *)
SweepSites == {s \in Sites : \E e \in purge : s \in e.left}

ListPurge ==
  /\ rpc = "list"
  /\ batch' = purge
  /\ sweep' = [s \in Sites |-> IF s \in SweepSites THEN "sent" ELSE "idle"]
  /\ rpc' = IF purge = {} THEN "idle" ELSE "sweep"
  /\ UNCHANGED <<metaVars, siteVars, pc, putVars, readVars, delVars, faults, fate>>

SweepKeys(s) == {e.ver : e \in {f \in batch : s \in f.left}}

SiteSweeps(s) ==
  /\ rpc = "sweep"
  /\ sweep[s] = "sent"
  /\ sweep' = [sweep EXCEPT ![s] = "ok"]
  /\ backend' = [backend EXCEPT ![s] = @ \ SweepKeys(s)]
  /\ UNCHANGED <<metaVars, task, pc, putVars, readVars, delVars, rpc, batch, faults, fate>>

(* The request is refused or lost, or the response is lost after the site  *)
(* has deleted the chunks.                                                 *)
SweepFails(s) ==
  /\ rpc = "sweep"
  /\ sweep[s] = "sent"
  /\ Fault("site")
  /\ sweep' = [sweep EXCEPT ![s] = "err"]
  /\ \/ UNCHANGED backend
     \/ backend' = [backend EXCEPT ![s] = @ \ SweepKeys(s)]
  /\ UNCHANGED <<metaVars, task, pc, putVars, readVars, delVars, rpc, batch, fate>>

(* The site answers 200 and reports per-key errors in the body, which the  *)
(* client does not look at.                                                *)
SiteKeepsKeys(s) ==
  /\ rpc = "sweep"
  /\ sweep[s] = "sent"
  /\ Fault("key")
  /\ sweep' = [sweep EXCEPT ![s] = "ok"]
  /\ UNCHANGED <<metaVars, siteVars, pc, putVars, readVars, delVars, rpc, batch, fate>>

SweepOver ==
  /\ rpc = "sweep"
  /\ \A s \in Sites : sweep[s] \in {"idle", "ok", "err"}
  /\ rpc' = "write"
  /\ UNCHANGED <<metaVars, siteVars, pc, putVars, readVars, delVars, batch, sweep, faults, fate>>

(* Mutant of Swept: a batch delete that failed counts as done.             *)
SweptIgnoresErrors(e) == [e EXCEPT !.left = {s \in @ : sweep[s] = "idle"}]

(* Every listed entry is removed when all of its chunks are deleted and    *)
(* written back otherwise; then the queue is listed again.                 *)
Swept(e) == [e EXCEPT !.left = {s \in @ : sweep[s] # "ok"}]

WriteEntry(e) ==
  /\ rpc = "write"
  /\ e \in batch
  /\ batch' = batch \ {e}
  /\ purge' = (purge \ {e}) \cup (IF Swept(e).left = {} THEN {} ELSE {Swept(e)})
  /\ UNCHANGED <<objects, permit, siteVars, pc, putVars, readVars, delVars, rpc, sweep,
                 faults, fate>>

BatchOver ==
  /\ rpc = "write"
  /\ batch = {}
  /\ rpc' = "list"
  /\ sweep' = [s \in Sites |-> "idle"]
  /\ UNCHANGED <<metaVars, siteVars, pc, putVars, readVars, delVars, batch, faults, fate>>

(* An error of the store ends the drain: the reaper sleeps 5 s and waits   *)
(* for the next wake-up.                                                   *)
ReaperStoreFails ==
  /\ rpc \in {"list", "write"}
  /\ Fault("store")
  /\ rpc' = "idle"
  /\ batch' = {}
  /\ sweep' = [s \in Sites |-> "idle"]
  /\ UNCHANGED <<metaVars, siteVars, pc, putVars, readVars, delVars, fate>>

-----------------------------------------------------------------------------
(* A client hangs up: axum drops the handler at the await it is in.        *)
HangUp(r) ==
  /\ pc[r] \in {"fetch", "fanout", "commit"}
  /\ pc' = [pc EXCEPT ![r] = "lost"]
  /\ UNCHANGED <<metaVars, siteVars, putVars, readVars, delVars, reaperVars, faults, fate>>

Unfinished == {ps \in Puts \X Sites : task[ps[1]][ps[2]] = "sent"}

(* Mutant of Crash: the restarted reaper waits for a wake-up first.        *)
CrashWithoutDrain ==
  /\ Fault("crash")
  /\ pc' = [r \in Requests |->
       IF pc[r] \in {"new", "done", "failed"} THEN pc[r] ELSE "lost"]
  /\ permit' = FALSE
  /\ rpc' = "idle"
  /\ batch' = {}
  /\ sweep' = [s \in Sites |-> "idle"]
  /\ UNCHANGED <<objects, purge, siteVars, putVars, readVars, delVars, fate>>

(* The process is killed and started again: handlers, the permit and the   *)
(* uploads that are cut short are gone, the store is not, and the new      *)
(* reaper starts by draining it.                                           *)
Crash ==
  /\ Fault("crash")
  /\ \E cut \in SUBSET Unfinished :
       task' = [p \in Puts |-> [s \in Sites |->
         IF <<p, s>> \in cut THEN "err" ELSE task[p][s]]]
  /\ pc' = [r \in Requests |->
       IF pc[r] \in {"new", "done", "failed"} THEN pc[r] ELSE "lost"]
  /\ permit' = FALSE
  /\ rpc' = "list"
  /\ batch' = {}
  /\ sweep' = [s \in Sites |-> "idle"]
  /\ UNCHANGED <<objects, purge, backend, putVars, readVars, delVars, fate>>

(* Every request is over and nothing is left to do.                        *)
Finished ==
  /\ \A r \in Requests : pc[r] \in {"done", "failed", "lost"}
  /\ \A p \in Puts, s \in Sites : task[p][s] \in {"idle", "ok", "err"}
  /\ rpc = "idle" /\ ~permit
  /\ UNCHANGED vars

PutStep(p) ==
  \/ FanoutOk(p) \/ FanoutFails(p) \/ CommitMeta(p) \/ CopyFetched(p)

DelStep(d) == DelWrite(d) \/ DelNotify(d) \/ \E k \in Keys : DelRead(d, k)

ReaperStep ==
  \/ Wake \/ ListPurge \/ SweepOver \/ BatchOver
  \/ \E e \in batch : WriteEntry(e)

Next ==
  \/ \E p \in Puts, k \in Keys : PutBegin(p, k)
  \/ \E p \in Puts, src \in Keys, dst \in Keys : CopyBegin(p, src, dst)
  \/ \E p \in Puts : PutStep(p) \/ PutStoreFails(p)
  \/ \E r \in Gets, k \in Keys : GetBegin(r, k)
  \/ \E r \in Readers, s \in Sites : SiteAnswers(r, s) \/ SiteFailsRead(r, s)
  \/ \E r \in Readers : GetOk(r) \/ FetchFails(r)
  \/ \E d \in Dels, times \in [Keys -> 0 .. MaxTimes] : DelBegin(d, times)
  \/ \E d \in Dels : DelStep(d) \/ DelStoreFails(d)
  \/ \E p \in Puts, s \in Sites : SiteStores(p, s) \/ UploadFails(p, s)
  \/ ReaperStep \/ ReaperStoreFails
  \/ \E s \in Sites : SiteSweeps(s) \/ SweepFails(s) \/ SiteKeepsKeys(s)
  \/ \E r \in Puts \cup Gets : HangUp(r)
  \/ Crash
  \/ Finished

Spec == Init /\ [][Next]_vars
=============================================================================
