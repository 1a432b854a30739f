------------------------------ MODULE Buckets ------------------------------
(***************************************************************************)
(* One bucket: concurrent CreateBucket and DeleteBucket requests against   *)
(* PUTs and DELETEs of its objects, the bucket's record in the store and   *)
(* its backend buckets on the sites.                                       *)
(*                                                                         *)
(* Every creation generates fresh backend names, so a backend bucket is    *)
(* named by the request that created it.  Objects are replicas, each under *)
(* a key of its own; ObjectStore has the rest of their life.               *)
(***************************************************************************)
EXTENDS Naturals, FiniteSets

CONSTANTS
  Sites,           \* storage sites, all with a client
  Creators,        \* CreateBucket requests, and the backend buckets they make
  Deleters,        \* DeleteBucket requests
  Puts,            \* PUTs, and the chunks they store
  None,            \* no record
  MaxSiteErrors,   \* how many site requests fail
  MaxStoreErrors,  \* how many RocksDB calls fail
  MaxCrashes       \* how often the process is killed

Requests == Creators \cup Deleters \cup Puts

ASSUME RequestsAssumption ==
  /\ Creators \cap Deleters = {} /\ Creators \cap Puts = {} /\ Deleters \cap Puts = {}
  /\ None \notin Creators
ASSUME BoundsAssumption ==
  MaxSiteErrors \in Nat /\ MaxStoreErrors \in Nat /\ MaxCrashes \in Nat

VARIABLES
  record,   \* whose backend buckets the bucket's record names
  backend,  \* the backend buckets every site has
  stored,   \* the chunks every site has, by backend bucket
  objects,  \* what the metadata of every PUT's object say, None if unbound
  purge,    \* chunks that are queued for deletion
  pc,       \* where every request is
  made,     \* sites where a creation has made its bucket and not taken it back
  found,    \* the backend buckets a deletion has read from the record
  todo,     \* sites where a deletion has still to delete them
  home,     \* the backend buckets a PUT stores its chunks in
  task,     \* upload task of every PUT and site
  faults,   \* how many of each fault have happened
  excused   \* creations whose buckets may be left over (not in the code)

storeVars  == <<record, objects, purge>>
siteVars   == <<backend, stored>>
bucketVars == <<made, found, todo>>
putVars    == <<home, task>>
vars == <<record, backend, stored, objects, purge, pc, made, found, todo, home, task,
          faults, excused>>

Over == {"done", "failed", "lost"}
Phases == {"new", "making", "rollback", "check", "read", "sites", "fanout"} \cup Over
Placed == [bucket : Creators, sites : SUBSET Sites]
FaultBounds == [site |-> MaxSiteErrors, store |-> MaxStoreErrors, crash |-> MaxCrashes]

Fault(f) == faults[f] < FaultBounds[f] /\ faults' = [faults EXCEPT ![f] = @ + 1]

GoTo(r, phase) == pc' = [pc EXCEPT ![r] = phase]

Init ==
  /\ record = None
  /\ backend = [s \in Sites |-> {}]
  /\ stored = [s \in Sites |-> {}]
  /\ objects = [p \in Puts |-> None]
  /\ purge = {}
  /\ pc = [r \in Requests |-> "new"]
  /\ made = [c \in Creators |-> {}]
  /\ found = [d \in Deleters |-> None]
  /\ todo = [d \in Deleters |-> {}]
  /\ home = [p \in Puts |-> None]
  /\ task = [p \in Puts |-> [s \in Sites |-> "idle"]]
  /\ faults = [f \in DOMAIN FaultBounds |-> 0]
  /\ excused = {}

-----------------------------------------------------------------------------
(* CreateBucket *)

CreateBegin(c) ==
  /\ pc[c] = "new"
  /\ GoTo(c, IF record = None THEN "making" ELSE "failed")
  /\ UNCHANGED <<storeVars, siteVars, bucketVars, putVars, faults, excused>>

(* Site after site; the order is that of the clients, here any.            *)
MakeBucket(c, s) ==
  /\ pc[c] = "making" /\ s \notin made[c]
  /\ backend' = [backend EXCEPT ![s] = @ \cup {c}]
  /\ made' = [made EXCEPT ![c] = @ \cup {s}]
  /\ UNCHANGED <<storeVars, stored, pc, found, todo, putVars, faults, excused>>

(* A site refuses, or makes the bucket and its answer is lost: then the    *)
(* roll-back does not know of it.                                          *)
MakeFails(c, s) ==
  /\ pc[c] = "making" /\ s \notin made[c]
  /\ Fault("site")
  /\ GoTo(c, "rollback")
  /\ \/ UNCHANGED <<backend, excused>>
     \/ /\ backend' = [backend EXCEPT ![s] = @ \cup {c}]
        /\ excused' = excused \cup {c}
  /\ UNCHANGED <<storeVars, stored, bucketVars, putVars>>

RollBack(c, s) ==
  /\ pc[c] = "rollback" /\ s \in made[c]
  /\ backend' = [backend EXCEPT ![s] = @ \ {c}]
  /\ made' = [made EXCEPT ![c] = @ \ {s}]
  /\ UNCHANGED <<storeVars, stored, pc, found, todo, putVars, faults, excused>>

RollBackFails(c, s) ==
  /\ pc[c] = "rollback" /\ s \in made[c]
  /\ Fault("site")
  /\ made' = [made EXCEPT ![c] = @ \ {s}]
  /\ excused' = excused \cup {c}
  /\ UNCHANGED <<storeVars, siteVars, pc, found, todo, putVars>>

(* Mutant of RolledBack: the roll-back is not awaited.                     *)
RolledBackEarly(c) ==
  /\ pc[c] = "rollback"
  /\ GoTo(c, "failed")
  /\ UNCHANGED <<storeVars, siteVars, bucketVars, putVars, faults, excused>>

RolledBack(c) ==
  /\ pc[c] = "rollback" /\ made[c] = {}
  /\ GoTo(c, "failed")
  /\ UNCHANGED <<storeVars, siteVars, bucketVars, putVars, faults, excused>>

(* Mutant of CreateCommit: the bucket is recorded once any site has it.    *)
CreateCommitEarly(c) ==
  /\ pc[c] = "making" /\ made[c] # {}
  /\ record' = c
  /\ excused' = IF record = None THEN excused ELSE excused \cup {record}
  /\ GoTo(c, "done")
  /\ UNCHANGED <<objects, purge, siteVars, bucketVars, putVars, faults>>

(* The record is written whatever it is by now: of two creations that both *)
(* found no bucket the later one takes the record of the first.            *)
CreateCommit(c) ==
  /\ pc[c] = "making" /\ made[c] = Sites
  /\ record' = c
  /\ excused' = IF record = None THEN excused ELSE excused \cup {record}
  /\ GoTo(c, "done")
  /\ UNCHANGED <<objects, purge, siteVars, bucketVars, putVars, faults>>

CreateStoreFails(c) ==
  /\ pc[c] = "making" /\ made[c] = Sites
  /\ Fault("store")
  /\ GoTo(c, "failed")
  /\ excused' = excused \cup {c}
  /\ UNCHANGED <<storeVars, siteVars, bucketVars, putVars>>

-----------------------------------------------------------------------------
(* DeleteBucket *)

DelBegin(d) ==
  /\ pc[d] = "new"
  /\ GoTo(d, IF record # None THEN "check" ELSE "failed")
  /\ UNCHANGED <<storeVars, siteVars, bucketVars, putVars, faults, excused>>

DelCheck(d) ==
  /\ pc[d] = "check"
  /\ GoTo(d, IF \A p \in Puts : objects[p] = None THEN "read" ELSE "failed")
  /\ UNCHANGED <<storeVars, siteVars, bucketVars, putVars, faults, excused>>

DelRead(d) ==
  /\ pc[d] = "read"
  /\ \/ /\ record = None
        /\ GoTo(d, "failed")
        /\ UNCHANGED <<found, todo>>
     \/ /\ record # None
        /\ GoTo(d, "sites")
        /\ found' = [found EXCEPT ![d] = record]
        /\ todo' = [todo EXCEPT ![d] = Sites]
  /\ UNCHANGED <<storeVars, siteVars, made, putVars, faults, excused>>

(* What a site does: a bucket that holds an object is not deleted.         *)
HoldsChunks(c, s) == \E p \in Puts : <<c, p>> \in stored[s]

(* A refusal is logged, and the deletion goes on.                          *)
DelSite(d, s) ==
  /\ pc[d] = "sites" /\ s \in todo[d]
  /\ todo' = [todo EXCEPT ![d] = @ \ {s}]
  /\ \/ /\ HoldsChunks(found[d], s)
        /\ excused' = excused \cup {found[d]}
        /\ UNCHANGED backend
     \/ /\ ~HoldsChunks(found[d], s)
        /\ backend' = [backend EXCEPT ![s] = @ \ {found[d]}]
        /\ UNCHANGED excused
  /\ UNCHANGED <<storeVars, stored, pc, made, found, putVars, faults>>

DelSiteFails(d, s) ==
  /\ pc[d] = "sites" /\ s \in todo[d]
  /\ Fault("site")
  /\ todo' = [todo EXCEPT ![d] = @ \ {s}]
  /\ excused' = excused \cup {found[d]}
  /\ UNCHANGED <<storeVars, siteVars, pc, made, found, putVars>>

(* Whatever record there is by now goes.                                   *)
DelCommit(d) ==
  /\ pc[d] = "sites" /\ todo[d] = {}
  /\ record' = None
  /\ excused' = IF record \in {None, found[d]} THEN excused ELSE excused \cup {record}
  /\ GoTo(d, "done")
  /\ UNCHANGED <<objects, purge, siteVars, bucketVars, putVars, faults>>

DelStoreFails(d) ==
  /\ pc[d] \in {"check", "read"} \/ (pc[d] = "sites" /\ todo[d] = {})
  /\ Fault("store")
  /\ GoTo(d, "failed")
  /\ UNCHANGED <<storeVars, siteVars, bucketVars, putVars, excused>>

-----------------------------------------------------------------------------
(* PUT and DELETE of objects, and the purge *)

PutBegin(p) ==
  /\ pc[p] = "new"
  /\ \/ /\ record = None
        /\ GoTo(p, "failed")
        /\ UNCHANGED putVars
     \/ /\ record # None
        /\ GoTo(p, "fanout")
        /\ home' = [home EXCEPT ![p] = record]
        /\ task' = [task EXCEPT ![p] = [s \in Sites |-> "sent"]]
  /\ UNCHANGED <<storeVars, siteVars, bucketVars, faults, excused>>

(* A site stores a chunk in a bucket it has, and refuses any other.        *)
SiteAnswers(p, s) ==
  /\ task[p][s] = "sent"
  /\ \/ /\ home[p] \in backend[s]
        /\ stored' = [stored EXCEPT ![s] = @ \cup {<<home[p], p>>}]
        /\ task' = [task EXCEPT ![p][s] = "ok"]
     \/ /\ home[p] \notin backend[s]
        /\ task' = [task EXCEPT ![p][s] = "err"]
        /\ UNCHANGED stored
  /\ UNCHANGED <<storeVars, backend, pc, bucketVars, home, faults, excused>>

UploadFails(p, s) ==
  /\ task[p][s] = "sent"
  /\ Fault("site")
  /\ task' = [task EXCEPT ![p][s] = "err"]
  /\ \/ UNCHANGED stored
     \/ /\ home[p] \in backend[s]
        /\ stored' = [stored EXCEPT ![s] = @ \cup {<<home[p], p>>}]
  /\ UNCHANGED <<storeVars, backend, pc, bucketVars, home, excused>>

Confirmed(p) == {s \in Sites : task[p][s] = "ok"}

PutFails(p) ==
  /\ pc[p] = "fanout" /\ \A s \in Sites : task[p][s] = "err"
  /\ GoTo(p, "failed")
  /\ UNCHANGED <<storeVars, siteVars, bucketVars, putVars, faults, excused>>

(* Mutant of PutCommit: the backend bucket is looked up again.             *)
PutCommitLooksAgain(p) ==
  /\ pc[p] = "fanout" /\ Confirmed(p) # {}
  /\ objects' = [objects EXCEPT ![p] = [bucket |-> record, sites |-> Confirmed(p)]]
  /\ GoTo(p, "done")
  /\ UNCHANGED <<record, purge, siteVars, bucketVars, putVars, faults, excused>>

(* One replica is a quorum, and sites that confirm later are not recorded; *)
(* the bucket is not looked up again.                                      *)
PutCommit(p) ==
  /\ pc[p] = "fanout"
  /\ \E ss \in SUBSET Confirmed(p) :
       /\ ss # {}
       /\ objects' = [objects EXCEPT ![p] = [bucket |-> home[p], sites |-> ss]]
  /\ GoTo(p, "done")
  /\ UNCHANGED <<record, purge, siteVars, bucketVars, putVars, faults, excused>>

PutStoreFails(p) ==
  /\ pc[p] = "fanout" /\ Confirmed(p) # {}
  /\ Fault("store")
  /\ GoTo(p, "failed")
  /\ UNCHANGED <<storeVars, siteVars, bucketVars, putVars, excused>>

(* A DELETE needs no bucket.  It queues the chunks on all sites.           *)
DeleteObject(p) ==
  /\ objects[p] # None
  /\ objects' = [objects EXCEPT ![p] = None]
  /\ purge' = purge \cup ({p} \X Sites)
  /\ UNCHANGED <<record, siteVars, pc, bucketVars, putVars, faults, excused>>

(* A site that no longer has the bucket answers with an error, and the     *)
(* entry stays.                                                            *)
Purge(p, s) ==
  /\ <<p, s>> \in purge /\ home[p] \in backend[s]
  /\ stored' = [stored EXCEPT ![s] = @ \ {<<home[p], p>>}]
  /\ purge' = purge \ {<<p, s>>}
  /\ UNCHANGED <<record, backend, objects, pc, bucketVars, putVars, faults, excused>>

-----------------------------------------------------------------------------
(* Hang-ups and crashes *)

HangUp(r) ==
  /\ pc[r] \in {"making", "rollback", "sites", "fanout"}
  /\ GoTo(r, "lost")
  /\ excused' = IF r \in Creators THEN excused \cup {r} ELSE excused
  /\ UNCHANGED <<storeVars, siteVars, bucketVars, putVars, faults>>

Unfinished == {ps \in Puts \X Sites : task[ps[1]][ps[2]] = "sent"}

Crash ==
  /\ Fault("crash")
  /\ \E cut \in SUBSET Unfinished :
       task' = [p \in Puts |-> [s \in Sites |->
         IF <<p, s>> \in cut THEN "err" ELSE task[p][s]]]
  /\ pc' = [r \in Requests |-> IF pc[r] \in Over \cup {"new"} THEN pc[r] ELSE "lost"]
  /\ excused' = excused \cup {c \in Creators : pc[c] \in {"making", "rollback"}}
  /\ UNCHANGED <<storeVars, siteVars, bucketVars, home>>

Finished ==
  /\ \A r \in Requests : pc[r] \in Over
  /\ Unfinished = {}
  /\ UNCHANGED vars

CreateStep(c) ==
  \/ CreateBegin(c) \/ RolledBack(c) \/ CreateCommit(c) \/ CreateStoreFails(c)
  \/ \E s \in Sites : MakeBucket(c, s) \/ MakeFails(c, s) \/ RollBack(c, s) \/ RollBackFails(c, s)

DelStep(d) ==
  \/ DelBegin(d) \/ DelCheck(d) \/ DelRead(d) \/ DelCommit(d) \/ DelStoreFails(d)
  \/ \E s \in Sites : DelSite(d, s) \/ DelSiteFails(d, s)

ObjectStep(p) ==
  \/ PutBegin(p) \/ PutFails(p) \/ PutCommit(p) \/ PutStoreFails(p) \/ DeleteObject(p)
  \/ \E s \in Sites : SiteAnswers(p, s) \/ UploadFails(p, s) \/ Purge(p, s)

Next ==
  \/ \E c \in Creators : CreateStep(c)
  \/ \E d \in Deleters : DelStep(d)
  \/ \E p \in Puts : ObjectStep(p)
  \/ \E r \in Requests : HangUp(r)
  \/ Crash
  \/ Finished

Spec == Init /\ [][Next]_vars

-----------------------------------------------------------------------------
(* Types of the variables.                                                 *)
TypeOK ==
  /\ record \in Creators \cup {None}
  /\ backend \in [Sites -> SUBSET Creators]
  /\ stored \in [Sites -> SUBSET (Creators \X Puts)]
  /\ objects \in [Puts -> Placed \cup {None}]
  /\ purge \in SUBSET (Puts \X Sites)
  /\ pc \in [Requests -> Phases]
  /\ made \in [Creators -> SUBSET Sites]
  /\ found \in [Deleters -> Creators \cup {None}]
  /\ todo \in [Deleters -> SUBSET Sites]
  /\ home \in [Puts -> Creators \cup {None}]
  /\ task \in [Puts -> [Sites -> {"idle", "sent", "ok", "err"}]]
  /\ excused \in SUBSET Creators

(* A bucket that is recorded has its backend buckets on every site, unless *)
(* a deletion has read that very record: no creation that fails, races or  *)
(* rolls back takes them away.                                             *)
RecordedIsBacked ==
  record # None =>
     (\A s \in Sites : record \in backend[s]) \/ \E d \in Deleters : found[d] = record

(* Backend buckets that are not recorded and not being created are left    *)
(* over by a fault, a hang-up, a refusal of a site or a request that took  *)
(* another one's record, and by nothing else.                              *)
NothingLeftOver ==
  \A c \in Creators :
     (\E s \in Sites : c \in backend[s]) =>
        \/ record = c
        \/ pc[c] \in {"making", "rollback"}
        \/ c \in excused

(* An object is stored where its metadata say, in a backend bucket that    *)
(* exists, though its bucket is deleted or created anew while it is put.   *)
ObjectsStored ==
  \A p \in Puts : objects[p] # None =>
     \A s \in objects[p].sites :
        <<objects[p].bucket, p>> \in stored[s] /\ objects[p].bucket \in backend[s]

(* Why they hold.  What a record, a deletion, a PUT or a chunk names was   *)
(* recorded by a creation that is over,                                    *)
NamedIsDone ==
  \A c \in Creators :
     \/ record = c
     \/ \E d \in Deleters : found[d] = c
     \/ \E p \in Puts : home[p] = c
     \/ \E s \in Sites : HoldsChunks(c, s)
     => pc[c] = "done"

(* a creation knows the buckets it has made,                               *)
MadeIsBacked ==
  \A c \in Creators : pc[c] \in {"new", "making"} => \A s \in made[c] : c \in backend[s]

BackedIsMade ==
  \A c \in Creators, s \in Sites : c \in backend[s] =>
     /\ pc[c] # "new"
     /\ pc[c] \in {"making", "rollback"} => s \in made[c] \/ c \in excused

(* a deletion reads the record once and knows what it has not deleted,     *)
ReadsOnce ==
  \A d \in Deleters : pc[d] \in {"new", "check", "read"} => found[d] = None

DeletesAll ==
  \A d \in Deleters : pc[d] = "sites" =>
     /\ found[d] # None
     /\ \A s \in Sites : found[d] \in backend[s] => s \in todo[d] \/ found[d] \in excused

(* chunks are in backend buckets, a confirmed one until its object is      *)
(* deleted, and an object is put once.                                     *)
ChunksHaveBuckets ==
  \A s \in Sites, c \in Creators : HoldsChunks(c, s) => c \in backend[s]

ConfirmedIsStored ==
  \A p \in Puts : pc[p] = "fanout" => \A s \in Confirmed(p) : <<home[p], p>> \in stored[s]

PutOnce ==
  \A p \in Puts :
     /\ objects[p] # None => pc[p] = "done"
     /\ (\E s \in Sites : <<p, s>> \in purge) => pc[p] = "done" /\ objects[p] = None

BucketInv ==
  /\ TypeOK
  /\ NamedIsDone
  /\ MadeIsBacked
  /\ BackedIsMade
  /\ ReadsOnce
  /\ DeletesAll
  /\ ChunksHaveBuckets
  /\ ConfirmedIsStored
  /\ PutOnce
  /\ RecordedIsBacked
  /\ NothingLeftOver
  /\ ObjectsStored
=============================================================================
