----------------------- MODULE ObjectStoreProperties -----------------------
(***************************************************************************)
(* What the data path must guarantee, and what it guarantees the abstract  *)
(* DurableStore.                                                           *)
(***************************************************************************)
EXTENDS ObjectStore

(* Types of the variables.                                                 *)
TypeOK ==
  /\ objects \in [Keys -> Puts \cup {None}]
  /\ purge \in SUBSET Entries
  /\ permit \in BOOLEAN
  /\ backend \in [Sites -> SUBSET Puts]
  /\ task \in [Puts -> [Sites -> TaskStates]]
  /\ pc \in [Requests -> Phases]
  /\ meta \in [Puts -> Metas]
  /\ from \in [Readers -> Puts \cup {None}]
  /\ got \in [Readers -> [Sites -> Answers]]
  /\ todo \in [Dels -> [Keys -> 0 .. MaxTimes]]
  /\ found \in [Dels -> SUBSET Objects]
  /\ rpc \in {"idle", "list", "sweep", "write"}
  /\ batch \in SUBSET Entries
  /\ sweep \in [Sites -> SweepStates]
  /\ faults \in [FaultKinds -> Nat]
  /\ fate \in [Puts -> Fates]

(* An object a client can name has the quorum it was acknowledged with:    *)
(* every chunk recorded as Confirmed is on its site, and there are at      *)
(* least as many as a read needs.  Uploads that end after the handler, the *)
(* reaper, deletes and crashes must not break it.                          *)
Durable ==
  \A k \in Keys : objects[k] # None =>
     LET v == objects[k] IN
     /\ meta[v].confirmed \subseteq Holders(v)
     /\ Cardinality(meta[v].confirmed) >= meta[v].need

(* The reaper never deletes, and never has queued, a chunk of a version    *)
(* some key is bound to, however deletes race with overwrites and copies.  *)
NeverPurgesLive ==
  /\ \A e \in purge \cup batch : ~Bound(e.ver)
  /\ \A s \in Sites : sweep[s] = "sent" =>
        \A v \in SweepKeys(s) : ~Bound(v)

(* A fetch that a site was willing to answer from fails only if its object *)
(* was deleted or overwritten under it, or if more of the sites recorded   *)
(* as Confirmed failed it than the redundancy it was acknowledged with     *)
(* covers.                                                                 *)
FailedSites(r) == {s \in meta[from[r]].confirmed : got[r][s] = "err"}

ReadErrorExcused ==
  \A r \in Readers :
    (from[r] # None /\ pc[r] = "failed" /\ ~Enough(r)) =>
      \/ ~Bound(from[r])
      \/ Cardinality(FailedSites(r)) + meta[from[r]].need
           > Cardinality(meta[from[r]].confirmed)

(* A chunk that was recorded as Confirmed and whose object was deleted is  *)
(* never forgotten: until it is gone from its site the queue holds an      *)
(* entry that still lists the site.  Only the answer of a batch delete     *)
(* that hides an error makes the reaper forget it (delete_objects,         *)
(* process_batch).                                                         *)
Queued(v, s) == \E e \in purge : e.ver = v /\ s \in e.left

QueueCoversDeleted ==
  \A v \in Puts, s \in Sites :
    (fate[v] = "deleted" /\ s \in meta[v].confirmed /\ v \in backend[s]) =>
      Queued(v, s) \/ faults["key"] > 0

(* The chunks that nothing refers to are those of the cases listed here,   *)
(* and no others: a write that failed or lost its client, a version that a *)
(* write replaced, a version that a write bound while a delete of its key  *)
(* was reading, an upload that ended after its version was deleted, and a  *)
(* batch delete that hid an error.                                         *)
LeftoverExcused ==
  \A v \in Puts, s \in Sites : v \in backend[s] =>
    \/ pc[v] \in {"fanout", "commit"} \/ Bound(v) \/ Queued(v, s)
    \/ pc[v] \in {"failed", "lost"}
    \/ fate[v] \in {"overwritten", "raced"}
    \/ fate[v] = "deleted" /\ (s \in meta[v].confirmed => faults["key"] > 0)

(* No wake-up is lost: while the reaper waits with entries queued, one is  *)
(* there or a deletion is about to send it, whatever was deleted while the *)
(* reaper drained and wherever the process was killed; only an error of    *)
(* the store leaves entries to the next deletion.                          *)
QueueAttended ==
  (purge # {} /\ rpc = "idle") =>
    permit \/ faults["store"] > 0 \/ \E d \in Dels : pc[d] = "notify"

-----------------------------------------------------------------------------
(* Why Durable, NeverPurgesLive and ReadErrorExcused hold: the parts of an *)
(* inductive invariant.                                                    *)

(* What a key is bound to was written by a PUT of that key that is over,   *)
BoundIsCommitted ==
  \A k \in Keys : objects[k] # None =>
     pc[objects[k]] = "done" /\ meta[objects[k]].key = k

(* and so is what a delete has read,                                       *)
FoundIsCommitted ==
  \A d \in Dels : \A o \in found[d] : pc[o.ver] = "done" /\ meta[o.ver].key = o.key

(* or the purge queue holds; since a PUT binds once, that is for good.     *)
RetiredForGood ==
  \A e \in purge \cup batch : pc[e.ver] = "done" /\ ~Bound(e.ver)

(* Nothing is swept while its PUT still waits for the quorum,              *)
UploadedIsStored ==
  \A p \in Puts, s \in Sites :
     (pc[p] = "fanout" /\ task[p][s] = "ok") => p \in backend[s]

(* nor between the quorum and the delete that unbinds it.                  *)
QuorumStored ==
  \A p \in Puts : (pc[p] = "commit" \/ Bound(p)) =>
     /\ meta[p].confirmed \subseteq Holders(p)
     /\ Cardinality(meta[p].confirmed) >= meta[p].need

(* A reader has asked every site of its version; only what is no longer    *)
(* bound is missing from a Confirmed site, and the reader is done with the *)
(* sites when it has enough chunks or all answers.                         *)
ConfirmedIsPlaced == \A p \in Puts : meta[p].confirmed \subseteq meta[p].placed

Truthful(r) ==
  /\ pc[r] = "new" => from[r] = None
  /\ from[r] # None =>
       /\ pc[from[r]] = "done"
       /\ \A s \in meta[from[r]].placed : got[r][s] # "idle"
       /\ \A s \in meta[from[r]].confirmed : got[r][s] = "missing" => ~Bound(from[r])
       /\ pc[r] \in {"fanout", "commit", "done"} => Enough(r)
       /\ pc[r] = "failed" => Enough(r) \/ Answered(r)

ReadsAreTruthful == \A r \in Readers : Truthful(r)

(* Why LeftoverExcused holds.  A write that has not sent its chunks yet    *)
(* has none anywhere,                                                      *)
FreshStoresNothing ==
  \A p \in Puts : pc[p] \in {"new", "fetch"} =>
     /\ meta[p].confirmed = {}
     /\ \A s \in Sites : task[p][s] = "idle" /\ p \notin backend[s]

(* a write that has begun knows its key,                                   *)
WritesHaveKeys ==
  \A p \in Puts : pc[p] \in {"fetch", "fanout", "commit"} => meta[p].key \in Keys

(* no upload to a Confirmed site is under way,                             *)
ConfirmedIsUploaded ==
  \A p \in Puts : \A s \in meta[p].confirmed : task[p][s] = "ok"

(* exactly the versions that were bound and are not any more have a fate,  *)
OnlyBoundHaveFates ==
  \A p \in Puts :
     /\ pc[p] \notin {"read", "notify"}
     /\ pc[p] = "done" => Bound(p) \/ fate[p] # "none"
     /\ fate[p] # "none" => pc[p] = "done"

(* and what a site has reported swept is gone from there.                  *)
SweptIsGone ==
  \A e \in batch : \A s \in e.left :
    (sweep[s] = "ok" /\ s \in meta[e.ver].confirmed) =>
      e.ver \notin backend[s] \/ faults["key"] > 0

CommitInv ==
  /\ TypeOK
  /\ BoundIsCommitted
  /\ FoundIsCommitted
  /\ RetiredForGood
  /\ UploadedIsStored
  /\ QuorumStored

QueueInv ==
  /\ CommitInv
  /\ ConfirmedIsPlaced
  /\ FreshStoresNothing
  /\ WritesHaveKeys
  /\ ConfirmedIsUploaded
  /\ OnlyBoundHaveFates
  /\ SweptIsGone
  /\ QueueCoversDeleted

ReadInv == QueueInv /\ ReadsAreTruthful

-----------------------------------------------------------------------------
(* The gateway implements DurableStore.                                    *)

Reply(r) ==
  IF from[r] = None THEN "idle"
  ELSE IF pc[r] = "fetch" THEN "open"
  ELSE IF Enough(r) THEN "data"
  ELSE IF pc[r] = "failed" /\ \A s \in Sites : got[r][s] # "err" THEN "error"
  ELSE "excused"

Used == {p \in Puts : pc[p] = "done"}

Readable == {p \in Puts : Cardinality(Holders(p)) >= meta[p].need}

DS == INSTANCE DurableStore WITH
        Versions  <- Puts,
        NoVersion <- None,
        bound     <- objects,
        used      <- Used,
        readable  <- Readable,
        view      <- from,
        reply     <- [r \in Readers |-> Reply(r)]

(* Every behaviour of the handlers, uploads and reaper is one of the       *)
(* abstract store: versions are bound when readable, at most once, stay    *)
(* readable while bound, and reads fail only for the reasons it allows.    *)
ImplementsDurableStore == DS!Spec

-----------------------------------------------------------------------------
(* Its deletions and its reaper implement PurgeQueue.                      *)

Jobs(es) == UNION {{<<e.owner, <<e.ver, s>>>> : s \in e.left} : e \in es}

Due      == Jobs(purge)
Reported == {j \in Jobs(batch) : sweep[j[2][2]] = "ok"}
There    == {c \in Puts \X Sites : c[1] \in backend[c[2]]}

PQ == INSTANCE PurgeQueue WITH
        Owners   <- Owners,
        Chunks   <- Puts \X Sites,
        due      <- Due,
        reported <- Reported,
        there    <- There,
        lied     <- faults["key"] > 0

(* Whatever handlers, uploads, crashes and the reaper do: a chunk is       *)
(* deleted only while an entry lists it, and an entry drops it only when   *)
(* its site has reported the deletion since the entry was queued.          *)
ImplementsPurgeQueue == PQ!Spec

(* Why: a batch is part of the queue, and a deletion queues an object once *)
(* for every time it names the key.                                        *)
BatchIsQueued == batch \subseteq purge

QueuedOnce ==
  /\ \A e, f \in purge : e.owner = f.owner /\ e.ver = f.ver => e = f
  /\ \A e \in purge : pc[e.owner[1]] \notin {"new", "read"}

PurgeInv == QueueInv /\ BatchIsQueued /\ QueuedOnce

-----------------------------------------------------------------------------
(* Liveness *)

(* The executor runs every task that is ready and every request to a site  *)
(* ends, at the latest by the client's timeout: weak fairness of the steps *)
(* of handlers, tasks, sites and the reaper.  Clients need not send        *)
(* anything, and faults need not happen.                                   *)
Fairness ==
  /\ \A p \in Puts : WF_vars(PutStep(p))
  /\ \A p \in Puts, s \in Sites : WF_vars(SiteStores(p, s))
  /\ \A r \in Readers, s \in Sites : WF_vars(SiteAnswers(r, s))
  /\ \A r \in Readers : WF_vars(GetOk(r) \/ FetchFails(r))
  /\ \A d \in Dels : WF_vars(DelStep(d))
  /\ \A s \in Sites : WF_vars(SiteSweeps(s))
  /\ WF_vars(ReaperStep)

FairSpec == Spec /\ Fairness

(* A deleted object is purged: every chunk recorded as Confirmed is        *)
(* eventually off its site for good, through failed sweeps, crashes        *)
(* between the delete and the wake-up, and deletes that arrive while the   *)
(* reaper is busy.                                                         *)
DeletedEventuallyPurged ==
  \A v \in Puts : fate[v] = "deleted" ~>
      [](\A s \in meta[v].confirmed : v \notin backend[s])

(* The same for all of a version's chunks, the Pending ones too, and for   *)
(* every version a delete removed: DESIGN.md's delete path promises that   *)
(* all chunks are eventually removed.  It does not hold: an upload that    *)
(* ends after the purge leaves a chunk nothing refers to.                  *)
DeletedLeavesNothing ==
  \A v \in Puts : fate[v] = "deleted" ~> [](Holders(v) = {})

(* The queue does not sit unattended: entries that are queued are          *)
(* eventually worked off.                                                  *)
QueueEventuallyEmpty == (purge # {}) ~> (purge = {})
=============================================================================
