--------------------------- MODULE BucketsProofs ---------------------------
(***************************************************************************)
(* Proofs about buckets: a recorded bucket has its backend buckets, none   *)
(* is left over without a reason, and objects stay stored under deletions. *)
(***************************************************************************)
EXTENDS Buckets, TLAPS

(* The kinds of requests.                                                  *)
LEMMA RequestSets ==
  /\ Creators \subseteq Requests /\ Deleters \subseteq Requests /\ Puts \subseteq Requests
  /\ Creators \cap Deleters = {} /\ Creators \cap Puts = {} /\ Deleters \cap Puts = {}
  /\ None \notin Creators
  BY RequestsAssumption DEF Requests

(* What bound metadata name.                                               *)
LEMMA BoundNames ==
  ASSUME TypeOK, NEW p \in Puts, objects[p] # None
  PROVE  objects[p].bucket \in Creators /\ objects[p].sites \subseteq Sites
  BY DEF TypeOK, Placed

-----------------------------------------------------------------------------
(* Types *)

(* Creations keep the types.                                               *)
LEMMA CreateTypes ==
  ASSUME TypeOK, NEW c \in Creators, CreateStep(c)
  PROVE  TypeOK'
<1> USE DEF storeVars, siteVars, bucketVars, putVars
<1>1. pc' = pc \/ \E phase \in Phases : pc' = [pc EXCEPT ![c] = phase]
  BY DEF CreateStep, CreateBegin, MakeBucket, MakeFails, RollBack, RollBackFails, RolledBack,
     CreateCommit, CreateStoreFails, GoTo, Phases, Over
<1>2. pc' \in [Requests -> Phases]
  BY <1>1, RequestSets DEF TypeOK
<1>3. CASE CreateBegin(c) \/ RolledBack(c)
  BY <1>2, <1>3 DEF TypeOK, CreateBegin, RolledBack
<1>4. CASE CreateCommit(c) \/ CreateStoreFails(c)
  BY <1>2, <1>4 DEF TypeOK, CreateCommit, CreateStoreFails
<1>5. ASSUME NEW s \in Sites,
             MakeBucket(c, s) \/ RollBack(c, s) \/ MakeFails(c, s) \/ RollBackFails(c, s)
      PROVE  TypeOK'
  <2>1. backend' \in [Sites -> SUBSET Creators]
    BY <1>5 DEF TypeOK, MakeBucket, RollBack, MakeFails, RollBackFails
  <2>2. made' \in [Creators -> SUBSET Sites]
    BY <1>5 DEF TypeOK, MakeBucket, RollBack, MakeFails, RollBackFails
  <2>3. excused' \in SUBSET Creators
    BY <1>5 DEF TypeOK, MakeBucket, RollBack, MakeFails, RollBackFails
  <2> QED
    BY <1>2, <1>5, <2>1, <2>2, <2>3 DEF TypeOK, MakeBucket, RollBack, MakeFails, RollBackFails
<1> QED
  BY <1>3, <1>4, <1>5 DEF CreateStep

(* Deletions keep the types.                                               *)
LEMMA DelTypes ==
  ASSUME TypeOK, DeletesAll, NEW d \in Deleters, DelStep(d)
  PROVE  TypeOK'
<1> USE DEF storeVars, siteVars, bucketVars, putVars
<1>1. pc' = pc \/ \E phase \in Phases : pc' = [pc EXCEPT ![d] = phase]
  BY DEF DelStep, DelBegin, DelCheck, DelRead, DelSite, DelSiteFails, DelCommit, DelStoreFails,
     GoTo, Phases, Over
<1>2. pc' \in [Requests -> Phases]
  BY <1>1, RequestSets DEF TypeOK
<1>3. CASE DelBegin(d) \/ DelCheck(d) \/ DelStoreFails(d)
  BY <1>2, <1>3 DEF TypeOK, DelBegin, DelCheck, DelStoreFails
<1>4. CASE DelRead(d)
  BY <1>2, <1>4 DEF TypeOK, DelRead
<1>5. CASE DelCommit(d)
  BY <1>2, <1>5 DEF TypeOK, DelCommit
<1>6. ASSUME NEW s \in Sites, DelSite(d, s) \/ DelSiteFails(d, s)
      PROVE  TypeOK'
  <2>1. found[d] \in Creators
    BY <1>6 DEF TypeOK, DeletesAll, DelSite, DelSiteFails
  <2>2. excused' \in SUBSET Creators
    BY <1>6, <2>1 DEF TypeOK, DelSite, DelSiteFails
  <2>3. backend' \in [Sites -> SUBSET Creators]
    BY <1>6 DEF TypeOK, DelSite, DelSiteFails
  <2>4. todo' \in [Deleters -> SUBSET Sites]
    BY <1>6 DEF TypeOK, DelSite, DelSiteFails
  <2> QED
    BY <1>2, <1>6, <2>2, <2>3, <2>4 DEF TypeOK, DelSite, DelSiteFails
<1> QED
  BY <1>3, <1>4, <1>5, <1>6 DEF DelStep

(* PUTs, DELETEs of objects and purges keep the types.                     *)
LEMMA ObjectTypes ==
  ASSUME TypeOK, ConfirmedIsStored, NEW p \in Puts, ObjectStep(p)
  PROVE  TypeOK'
<1> USE DEF storeVars, siteVars, bucketVars, putVars
<1>1. pc' = pc \/ \E phase \in Phases : pc' = [pc EXCEPT ![p] = phase]
  BY DEF ObjectStep, PutBegin, PutFails, PutCommit, PutStoreFails, DeleteObject, SiteAnswers,
     UploadFails, Purge, GoTo, Phases, Over
<1>2. pc' \in [Requests -> Phases]
  BY <1>1, RequestSets DEF TypeOK
<1>3. CASE PutBegin(p)
  <2>1. [s \in Sites |-> "sent"] \in [Sites -> {"idle", "sent", "ok", "err"}]
    OBVIOUS
  <2>2. task' \in [Puts -> [Sites -> {"idle", "sent", "ok", "err"}]]
    BY <1>3, <2>1 DEF TypeOK, PutBegin
  <2>3. home' \in [Puts -> Creators \cup {None}]
    BY <1>3 DEF TypeOK, PutBegin
  <2> QED
    BY <1>2, <1>3, <2>2, <2>3 DEF TypeOK, PutBegin
<1>4. CASE PutFails(p) \/ PutStoreFails(p)
  BY <1>2, <1>4 DEF TypeOK, PutFails, PutStoreFails
<1>5. CASE PutCommit(p)
  <2>1. PICK ss \in SUBSET Confirmed(p) :
          ss # {} /\ objects' = [objects EXCEPT ![p] = [bucket |-> home[p], sites |-> ss]]
    BY <1>5 DEF PutCommit
  <2>2. ss \in SUBSET Sites
    BY DEF Confirmed
  <2>3. PICK s \in Confirmed(p) : <<home[p], p>> \in stored[s]
    BY <1>5, <2>1 DEF ConfirmedIsStored, PutCommit
  <2>4. home[p] \in Creators
    BY <2>3 DEF TypeOK, Confirmed
  <2>5. [bucket |-> home[p], sites |-> ss] \in Placed
    BY <2>2, <2>4 DEF Placed
  <2> QED
    BY <1>2, <1>5, <2>1, <2>5 DEF TypeOK, PutCommit
<1>6. CASE DeleteObject(p)
  BY <1>2, <1>6 DEF TypeOK, DeleteObject
<1>7. ASSUME NEW s \in Sites, SiteAnswers(p, s) \/ UploadFails(p, s)
      PROVE  TypeOK'
  <2>1. home[p] \in backend[s] => <<home[p], p>> \in Creators \X Puts
    BY DEF TypeOK
  <2>2. stored' \in [Sites -> SUBSET (Creators \X Puts)]
    BY <1>7, <2>1 DEF TypeOK, SiteAnswers, UploadFails
  <2>3. PICK a \in {"ok", "err"} : task' = [task EXCEPT ![p][s] = a]
    BY <1>7 DEF SiteAnswers, UploadFails
  <2>4. [task[p] EXCEPT ![s] = a] \in [Sites -> {"idle", "sent", "ok", "err"}]
    BY DEF TypeOK
  <2>5. task' = [task EXCEPT ![p] = [task[p] EXCEPT ![s] = a]]
    BY <2>3
  <2>6. task' \in [Puts -> [Sites -> {"idle", "sent", "ok", "err"}]]
    BY <2>4, <2>5 DEF TypeOK
  <2> QED
    BY <1>2, <1>7, <2>2, <2>6 DEF TypeOK, SiteAnswers, UploadFails
<1>8. CASE \E s \in Sites : Purge(p, s)
  BY <1>2, <1>8 DEF TypeOK, Purge
<1> QED
  BY <1>3, <1>4, <1>5, <1>6, <1>7, <1>8 DEF ObjectStep

(* Hang-ups and crashes keep the types.                                    *)
LEMMA LossTypes ==
  ASSUME TypeOK, Crash \/ (\E r \in Requests : HangUp(r)) \/ UNCHANGED vars
  PROVE  TypeOK'
<1> USE DEF storeVars, siteVars, bucketVars, putVars
<1>1. CASE Crash
  <2>1. pc' \in [Requests -> Phases]
    BY <1>1 DEF TypeOK, Crash, Phases, Over
  <2>2. task' \in [Puts -> [Sites -> {"idle", "sent", "ok", "err"}]]
    BY <1>1 DEF TypeOK, Crash
  <2> QED
    BY <1>1, <2>1, <2>2 DEF TypeOK, Crash
<1>2. CASE \E r \in Requests : HangUp(r)
  BY <1>2 DEF TypeOK, HangUp, GoTo, Phases, Over
<1>3. CASE UNCHANGED vars
  BY <1>3 DEF TypeOK, vars
<1> QED
  BY <1>1, <1>2, <1>3

-----------------------------------------------------------------------------
(* The initial state *)

(* The invariant holds in the initial state.                               *)
LEMMA BucketInit == Init => BucketInv
<1> SUFFICES ASSUME Init PROVE BucketInv
  OBVIOUS
<1>1. TypeOK
  BY RequestSets DEF Init, TypeOK, Phases, Over, Requests, Placed
<1>2. NamedIsDone /\ MadeIsBacked /\ BackedIsMade /\ ChunksHaveBuckets
  BY RequestSets DEF Init, NamedIsDone, MadeIsBacked, BackedIsMade, ChunksHaveBuckets, HoldsChunks
<1>3. ReadsOnce /\ DeletesAll /\ ConfirmedIsStored /\ PutOnce
  BY RequestSets DEF Init, ReadsOnce, DeletesAll, ConfirmedIsStored, PutOnce, Confirmed
<1>4. RecordedIsBacked /\ NothingLeftOver /\ ObjectsStored
  BY DEF Init, RecordedIsBacked, NothingLeftOver, ObjectsStored
<1> QED
  BY <1>1, <1>2, <1>3, <1>4 DEF BucketInv

-----------------------------------------------------------------------------
(* Creations *)

(* Beginning a creation and ending a roll-back keep the invariant.         *)
LEMMA CreateEndsKeep ==
  ASSUME BucketInv, TypeOK', NEW c \in Creators, CreateBegin(c) \/ RolledBack(c)
  PROVE  BucketInv'
<1> USE RequestSets DEF storeVars, siteVars, bucketVars, putVars
<1>1. /\ UNCHANGED <<storeVars, siteVars, bucketVars, putVars, excused>>
      /\ \A r \in Requests : r # c => pc'[r] = pc[r]
      /\ \/ pc[c] = "new" /\ pc'[c] \in {"making", "failed"}
         \/ pc[c] = "rollback" /\ made[c] = {} /\ pc'[c] = "failed"
  BY DEF CreateBegin, RolledBack, GoTo, BucketInv, TypeOK
<1>2. NamedIsDone'
  BY <1>1 DEF BucketInv, NamedIsDone, HoldsChunks
<1>3. MadeIsBacked'
  BY <1>1 DEF BucketInv, TypeOK, MadeIsBacked
<1>4. BackedIsMade'
  BY <1>1 DEF BucketInv, TypeOK, BackedIsMade
<1>5. ReadsOnce' /\ DeletesAll' /\ ChunksHaveBuckets'
  BY <1>1 DEF BucketInv, TypeOK, ReadsOnce, DeletesAll, ChunksHaveBuckets, HoldsChunks
<1>6. ConfirmedIsStored' /\ PutOnce'
  BY <1>1 DEF BucketInv, TypeOK, ConfirmedIsStored, PutOnce, Confirmed
<1>7. ObjectsStored'
  BY <1>1 DEF BucketInv, ObjectsStored
<1>8. RecordedIsBacked' /\ NothingLeftOver'
  BY <1>1 DEF BucketInv, TypeOK, RecordedIsBacked, NothingLeftOver, BackedIsMade
<1> QED
  BY <1>2, <1>3, <1>4, <1>5, <1>6, <1>7, <1>8 DEF BucketInv


(* Making backend buckets keeps the invariant, also where the answer is    *)
(* lost.                                                                   *)
LEMMA MakeKeeps ==
  ASSUME BucketInv, TypeOK', NEW c \in Creators, NEW s \in Sites, MakeBucket(c, s) \/ MakeFails(c, s)
  PROVE  BucketInv'
<1> USE RequestSets DEF storeVars, siteVars, bucketVars, putVars
<1>1. /\ UNCHANGED <<storeVars, stored, found, todo, putVars>>
      /\ pc[c] = "making" /\ s \notin made[c]
      /\ \A r \in Requests : r # c => pc'[r] = pc[r]
      /\ pc'[c] \in {"making", "rollback"}
      /\ excused \subseteq excused'
  BY DEF MakeBucket, MakeFails, GoTo, BucketInv, TypeOK
<1>2. /\ \A e \in Creators : e # c => made'[e] = made[e]
      /\ \A e \in Creators : made[e] \subseteq made'[e]
      /\ pc'[c] = "making" => made'[c] = made[c] \cup {s} /\ c \in backend'[s]
  BY DEF MakeBucket, MakeFails, GoTo, BucketInv, TypeOK
<1>3. /\ \A z \in Sites : z # s => backend'[z] = backend[z]
      /\ backend[s] \subseteq backend'[s] /\ backend'[s] \subseteq backend[s] \cup {c}
      /\ c \in backend'[s] \ backend[s] => s \in made'[c] \/ c \in excused'
  BY DEF MakeBucket, MakeFails, GoTo, BucketInv, TypeOK
<1>4. NamedIsDone'
  BY <1>1 DEF BucketInv, NamedIsDone, HoldsChunks
<1>5. MadeIsBacked'
  BY <1>1, <1>2, <1>3 DEF BucketInv, TypeOK, MadeIsBacked
<1>6. BackedIsMade'
  BY <1>1, <1>2, <1>3 DEF BucketInv, BackedIsMade
<1>7. ReadsOnce'
  BY <1>1 DEF BucketInv, ReadsOnce
<1>8. DeletesAll'
  <2>1. \A d \in Deleters : found[d] # c
    BY <1>1 DEF BucketInv, NamedIsDone
  <2> QED
    BY <1>1, <1>3, <2>1 DEF BucketInv, DeletesAll
<1>9. ChunksHaveBuckets'
  BY <1>1, <1>3 DEF BucketInv, ChunksHaveBuckets, HoldsChunks
<1>10. ConfirmedIsStored' /\ PutOnce'
  BY <1>1 DEF BucketInv, ConfirmedIsStored, PutOnce, Confirmed
<1>11. RecordedIsBacked'
  BY <1>1, <1>3 DEF BucketInv, RecordedIsBacked
<1>12. NothingLeftOver'
  BY <1>1, <1>3 DEF BucketInv, NothingLeftOver
<1>13. ObjectsStored'
  BY <1>1, <1>3, BoundNames DEF BucketInv, ObjectsStored
<1> QED
  BY <1>4, <1>5, <1>6, <1>7, <1>8, <1>9, <1>10, <1>11, <1>12, <1>13 DEF BucketInv

(* Taking backend buckets back keeps the invariant: nothing refers to      *)
(* those of a creation that is not over.                                   *)
LEMMA RollBackKeeps ==
  ASSUME BucketInv, TypeOK', NEW c \in Creators, NEW s \in Sites,
         RollBack(c, s) \/ RollBackFails(c, s)
  PROVE  BucketInv'
<1> USE RequestSets DEF storeVars, siteVars, bucketVars, putVars
<1>1. /\ UNCHANGED <<storeVars, stored, pc, found, todo, putVars>>
      /\ pc[c] = "rollback"
      /\ excused \subseteq excused'
  BY DEF RollBack, RollBackFails
<1>2. /\ \A e \in Creators : e # c => made'[e] = made[e]
      /\ made'[c] = made[c] \ {s}
  BY DEF RollBack, RollBackFails, BucketInv, TypeOK
<1>3. /\ \A z \in Sites : z # s => backend'[z] = backend[z]
      /\ backend'[s] \subseteq backend[s] /\ backend[s] \subseteq backend'[s] \cup {c}
      /\ c \in backend'[s] => c \in excused'
  BY DEF RollBack, RollBackFails, BucketInv, TypeOK
<1>4. NamedIsDone'
  BY <1>1 DEF BucketInv, NamedIsDone, HoldsChunks
<1>5. MadeIsBacked'
  BY <1>1, <1>2, <1>3 DEF BucketInv, TypeOK, MadeIsBacked
<1>6. BackedIsMade'
  BY <1>1, <1>2, <1>3 DEF BucketInv, BackedIsMade
<1>7. ReadsOnce'
  BY <1>1 DEF BucketInv, ReadsOnce
<1>8. DeletesAll'
  BY <1>1, <1>3 DEF BucketInv, DeletesAll
<1>9. ChunksHaveBuckets'
  <2>1. ~HoldsChunks(c, s)
    BY <1>1 DEF BucketInv, NamedIsDone
  <2> QED
    BY <1>1, <1>3, <2>1 DEF BucketInv, ChunksHaveBuckets, HoldsChunks
<1>10. ConfirmedIsStored' /\ PutOnce'
  BY <1>1 DEF BucketInv, ConfirmedIsStored, PutOnce, Confirmed
<1>11. RecordedIsBacked'
  BY <1>1, <1>3 DEF BucketInv, RecordedIsBacked, NamedIsDone
<1>12. NothingLeftOver'
  BY <1>1, <1>3 DEF BucketInv, NothingLeftOver
<1>13. ObjectsStored'
  <2>1. ~HoldsChunks(c, s)
    BY <1>1 DEF BucketInv, NamedIsDone
  <2> QED
    BY <1>1, <1>3, <2>1, BoundNames DEF BucketInv, ObjectsStored, HoldsChunks
<1> QED
  BY <1>4, <1>5, <1>6, <1>7, <1>8, <1>9, <1>10, <1>11, <1>12, <1>13 DEF BucketInv

(* Recording a bucket keeps the invariant: all sites have made it, and a   *)
(* record that it takes excuses what is left of the other creation.        *)
LEMMA CreateCommitKeeps ==
  ASSUME BucketInv, TypeOK', NEW c \in Creators, CreateCommit(c) \/ CreateStoreFails(c)
  PROVE  BucketInv'
<1> USE RequestSets DEF storeVars, siteVars, bucketVars, putVars
<1>1. /\ UNCHANGED <<objects, purge, siteVars, bucketVars, putVars>>
      /\ pc[c] = "making" /\ made[c] = Sites
      /\ \A r \in Requests : r # c => pc'[r] = pc[r]
      /\ excused \subseteq excused'
      /\ \/ pc'[c] = "done" /\ record' = c /\ (record = None \/ record \in excused')
         \/ pc'[c] = "failed" /\ record' = record /\ c \in excused'
  BY DEF CreateCommit, CreateStoreFails, GoTo, BucketInv, TypeOK
<1>2. NamedIsDone'
  BY <1>1 DEF BucketInv, NamedIsDone, HoldsChunks
<1>3. MadeIsBacked'
  BY <1>1 DEF BucketInv, MadeIsBacked
<1>4. BackedIsMade'
  BY <1>1 DEF BucketInv, BackedIsMade
<1>5. ReadsOnce'
  BY <1>1 DEF BucketInv, ReadsOnce
<1>6. DeletesAll'
  BY <1>1 DEF BucketInv, DeletesAll
<1>7. ChunksHaveBuckets'
  BY <1>1 DEF BucketInv, ChunksHaveBuckets, HoldsChunks
<1>8. ConfirmedIsStored' /\ PutOnce'
  BY <1>1 DEF BucketInv, ConfirmedIsStored, PutOnce, Confirmed
<1>9. RecordedIsBacked'
  BY <1>1 DEF BucketInv, RecordedIsBacked, MadeIsBacked
<1>10. NothingLeftOver'
  BY <1>1 DEF BucketInv, NothingLeftOver
<1>11. ObjectsStored'
  BY <1>1 DEF BucketInv, ObjectsStored
<1> QED
  BY <1>2, <1>3, <1>4, <1>5, <1>6, <1>7, <1>8, <1>9, <1>10, <1>11 DEF BucketInv

(* Every step of a creation keeps the invariant.                           *)
LEMMA CreateKeeps ==
  ASSUME BucketInv, NEW c \in Creators, CreateStep(c)
  PROVE  BucketInv'
<1>1. TypeOK'
  BY CreateTypes DEF BucketInv
<1> QED
  BY <1>1, CreateEndsKeep, MakeKeeps, RollBackKeeps, CreateCommitKeeps DEF CreateStep


-----------------------------------------------------------------------------
(* Deletions *)

(* Beginning, checking and giving up a deletion keep the invariant.        *)
LEMMA DelBeginsKeep ==
  ASSUME BucketInv, TypeOK', NEW d \in Deleters, DelBegin(d) \/ DelCheck(d) \/ DelStoreFails(d)
  PROVE  BucketInv'
<1> USE RequestSets DEF storeVars, siteVars, bucketVars, putVars
<1>1. /\ UNCHANGED <<storeVars, siteVars, bucketVars, putVars, excused>>
      /\ \A r \in Requests : r # d => pc'[r] = pc[r]
      /\ \/ pc[d] \in {"new", "check"} /\ pc'[d] \in {"check", "read"}
         \/ pc'[d] = "failed"
  BY DEF DelBegin, DelCheck, DelStoreFails, GoTo, BucketInv, TypeOK
<1>2. NamedIsDone' /\ ChunksHaveBuckets'
  BY <1>1 DEF BucketInv, NamedIsDone, ChunksHaveBuckets, HoldsChunks
<1>3. MadeIsBacked' /\ BackedIsMade'
  BY <1>1 DEF BucketInv, MadeIsBacked, BackedIsMade
<1>4. ReadsOnce' /\ DeletesAll'
  BY <1>1 DEF BucketInv, ReadsOnce, DeletesAll
<1>5. ConfirmedIsStored' /\ PutOnce'
  BY <1>1 DEF BucketInv, ConfirmedIsStored, PutOnce, Confirmed
<1>6. RecordedIsBacked' /\ NothingLeftOver' /\ ObjectsStored'
  BY <1>1 DEF BucketInv, RecordedIsBacked, NothingLeftOver, ObjectsStored
<1> QED
  BY <1>2, <1>3, <1>4, <1>5, <1>6 DEF BucketInv

(* Reading the record keeps the invariant.                                 *)
LEMMA DelReadKeeps ==
  ASSUME BucketInv, TypeOK', NEW d \in Deleters, DelRead(d)
  PROVE  BucketInv'
<1> USE RequestSets DEF storeVars, siteVars, bucketVars, putVars
<1>1. /\ UNCHANGED <<storeVars, siteVars, made, putVars, excused>>
      /\ pc[d] = "read"
      /\ \A r \in Requests : r # d => pc'[r] = pc[r]
      /\ \A e \in Deleters : e # d => found'[e] = found[e] /\ todo'[e] = todo[e]
      /\ \/ pc'[d] = "failed" /\ found'[d] = found[d]
         \/ pc'[d] = "sites" /\ record # None /\ found'[d] = record /\ todo'[d] = Sites
  BY DEF DelRead, GoTo, BucketInv, TypeOK
<1>2. found[d] = None
  BY <1>1 DEF BucketInv, ReadsOnce
<1>3. NamedIsDone' /\ ChunksHaveBuckets'
  BY <1>1 DEF BucketInv, NamedIsDone, ChunksHaveBuckets, HoldsChunks
<1>4. MadeIsBacked' /\ BackedIsMade'
  BY <1>1 DEF BucketInv, MadeIsBacked, BackedIsMade
<1>5. ReadsOnce'
  BY <1>1 DEF BucketInv, ReadsOnce
<1>6. DeletesAll'
  BY <1>1 DEF BucketInv, DeletesAll
<1>7. ConfirmedIsStored' /\ PutOnce'
  BY <1>1 DEF BucketInv, ConfirmedIsStored, PutOnce, Confirmed
<1>8. RecordedIsBacked'
  BY <1>1, <1>2 DEF BucketInv, RecordedIsBacked
<1>9. NothingLeftOver' /\ ObjectsStored'
  BY <1>1 DEF BucketInv, NothingLeftOver, ObjectsStored
<1> QED
  BY <1>3, <1>4, <1>5, <1>6, <1>7, <1>8, <1>9 DEF BucketInv

(* Deleting a backend bucket keeps the invariant: it is one that the       *)
(* deletion has read and that holds no chunk.                              *)
LEMMA DelSiteKeeps ==
  ASSUME BucketInv, TypeOK', NEW d \in Deleters, NEW s \in Sites,
         DelSite(d, s) \/ DelSiteFails(d, s)
  PROVE  BucketInv'
<1> USE RequestSets DEF storeVars, siteVars, bucketVars, putVars
<1>1. /\ UNCHANGED <<storeVars, stored, pc, made, found, putVars>>
      /\ pc[d] = "sites"
      /\ excused \subseteq excused'
      /\ \A e \in Deleters : e # d => todo'[e] = todo[e]
      /\ todo'[d] = todo[d] \ {s}
  BY DEF DelSite, DelSiteFails, BucketInv, TypeOK
<1>2. found[d] \in Creators
  BY <1>1 DEF BucketInv, TypeOK, DeletesAll
<1>3. pc[found[d]] = "done"
  BY <1>2 DEF BucketInv, NamedIsDone
<1>4. /\ \A z \in Sites : z # s => backend'[z] = backend[z]
      /\ backend'[s] \subseteq backend[s] /\ backend[s] \subseteq backend'[s] \cup {found[d]}
      /\ found[d] \in backend'[s] => found[d] \in excused'
      /\ HoldsChunks(found[d], s) => backend'[s] = backend[s]
  <2>1. CASE DelSite(d, s)
    BY <2>1 DEF DelSite, BucketInv, TypeOK
  <2>2. CASE DelSiteFails(d, s)
    BY <2>2 DEF DelSiteFails
  <2> QED
    BY <2>1, <2>2
<1>5. NamedIsDone'
  BY <1>1 DEF BucketInv, NamedIsDone, HoldsChunks
<1>6. MadeIsBacked'
  BY <1>1, <1>3, <1>4 DEF BucketInv, TypeOK, MadeIsBacked
<1>7. BackedIsMade'
  BY <1>1, <1>4 DEF BucketInv, BackedIsMade
<1>8. ReadsOnce'
  BY <1>1 DEF BucketInv, ReadsOnce
<1>9. DeletesAll'
  BY <1>1, <1>4 DEF BucketInv, DeletesAll
<1>10. ChunksHaveBuckets'
  BY <1>1, <1>4 DEF BucketInv, ChunksHaveBuckets, HoldsChunks
<1>11. ConfirmedIsStored' /\ PutOnce'
  BY <1>1 DEF BucketInv, ConfirmedIsStored, PutOnce, Confirmed
<1>12. RecordedIsBacked'
  BY <1>1, <1>4 DEF BucketInv, RecordedIsBacked
<1>13. NothingLeftOver'
  BY <1>1, <1>4 DEF BucketInv, NothingLeftOver
<1>14. ObjectsStored'
  BY <1>1, <1>4, BoundNames DEF BucketInv, ObjectsStored, HoldsChunks
<1> QED
  BY <1>5, <1>6, <1>7, <1>8, <1>9, <1>10, <1>11, <1>12, <1>13, <1>14 DEF BucketInv

(* Removing the record keeps the invariant: its backend buckets are        *)
(* deleted or excused, and those of another record are excused.            *)
LEMMA DelCommitKeeps ==
  ASSUME BucketInv, TypeOK', NEW d \in Deleters, DelCommit(d)
  PROVE  BucketInv'
<1> USE RequestSets DEF storeVars, siteVars, bucketVars, putVars
<1>1. /\ UNCHANGED <<objects, purge, siteVars, bucketVars, putVars>>
      /\ pc[d] = "sites" /\ todo[d] = {}
      /\ \A r \in Requests : r # d => pc'[r] = pc[r]
      /\ pc'[d] = "done"
      /\ record' = None
      /\ excused \subseteq excused'
      /\ record \in {None, found[d]} \/ record \in excused'
  BY DEF DelCommit, GoTo, BucketInv, TypeOK
<1>2. NamedIsDone' /\ ChunksHaveBuckets'
  BY <1>1 DEF BucketInv, NamedIsDone, ChunksHaveBuckets, HoldsChunks
<1>3. MadeIsBacked' /\ BackedIsMade'
  BY <1>1 DEF BucketInv, MadeIsBacked, BackedIsMade
<1>4. ReadsOnce' /\ DeletesAll'
  BY <1>1 DEF BucketInv, ReadsOnce, DeletesAll
<1>5. ConfirmedIsStored' /\ PutOnce'
  BY <1>1 DEF BucketInv, ConfirmedIsStored, PutOnce, Confirmed
<1>6. NothingLeftOver'
  BY <1>1 DEF BucketInv, NothingLeftOver, DeletesAll
<1>7. RecordedIsBacked' /\ ObjectsStored'
  BY <1>1 DEF BucketInv, RecordedIsBacked, ObjectsStored
<1> QED
  BY <1>2, <1>3, <1>4, <1>5, <1>6, <1>7 DEF BucketInv

(* Every step of a deletion keeps the invariant.                           *)
LEMMA DelKeeps ==
  ASSUME BucketInv, NEW d \in Deleters, DelStep(d)
  PROVE  BucketInv'
<1>1. TypeOK'
  BY DelTypes DEF BucketInv
<1> QED
  BY <1>1, DelBeginsKeep, DelReadKeeps, DelSiteKeeps, DelCommitKeeps DEF DelStep


-----------------------------------------------------------------------------
(* Objects *)

(* What a step of an object leaves alone keeps these parts, whether it     *)
(* stores the chunk of a recorded home or takes it away.                   *)
LEMMA BucketFrame ==
  ASSUME BucketInv, UNCHANGED <<record, backend, bucketVars, excused>>,
         \A r \in Creators \cup Deleters : pc'[r] = pc[r]
  PROVE  /\ MadeIsBacked' /\ BackedIsMade' /\ ReadsOnce' /\ DeletesAll'
         /\ RecordedIsBacked' /\ NothingLeftOver'
<1> USE DEF bucketVars
<1>1. MadeIsBacked' /\ BackedIsMade' /\ NothingLeftOver'
  BY DEF BucketInv, MadeIsBacked, BackedIsMade, NothingLeftOver
<1>2. ReadsOnce' /\ DeletesAll' /\ RecordedIsBacked'
  BY DEF BucketInv, ReadsOnce, DeletesAll, RecordedIsBacked
<1> QED
  BY <1>1, <1>2

(* Beginning a PUT keeps the invariant.                                    *)
LEMMA PutBeginKeeps ==
  ASSUME BucketInv, TypeOK', NEW p \in Puts, PutBegin(p)
  PROVE  BucketInv'
<1> USE RequestSets DEF storeVars, siteVars, bucketVars
<1>1. /\ UNCHANGED <<storeVars, siteVars, bucketVars, excused>>
      /\ pc[p] = "new"
      /\ \A r \in Requests : r # p => pc'[r] = pc[r]
      /\ \A q \in Puts : q # p => home'[q] = home[q] /\ task'[q] = task[q]
  BY DEF PutBegin, GoTo, BucketInv, TypeOK, putVars
<1>2. \/ pc'[p] = "failed" /\ home'[p] = home[p]
      \/ /\ pc'[p] = "fanout" /\ record # None /\ home'[p] = record
         /\ \A s \in Sites : task'[p][s] = "sent"
  BY DEF PutBegin, GoTo, BucketInv, TypeOK, putVars
<1>3. MadeIsBacked' /\ BackedIsMade' /\ ReadsOnce' /\ DeletesAll' /\ RecordedIsBacked' /\ NothingLeftOver'
  BY <1>1, BucketFrame
<1>4. NamedIsDone' /\ ChunksHaveBuckets'
  <2>1. \A c \in Creators : pc'[c] = pc[c] /\ c # p
    BY <1>1
  <2>2. NamedIsDone'
    BY <1>1, <1>2, <2>1 DEF BucketInv, NamedIsDone, HoldsChunks
  <2> QED
    BY <1>1, <2>2 DEF BucketInv, ChunksHaveBuckets, HoldsChunks
<1>5. ConfirmedIsStored'
  BY <1>1, <1>2 DEF BucketInv, ConfirmedIsStored, Confirmed
<1>6. PutOnce' /\ ObjectsStored'
  BY <1>1, <1>2 DEF BucketInv, PutOnce, ObjectsStored
<1> QED
  BY <1>3, <1>4, <1>5, <1>6 DEF BucketInv

(* An answer of a site to an upload keeps the invariant: chunks only       *)
(* appear in backend buckets.                                              *)
LEMMA UploadKeeps ==
  ASSUME BucketInv, TypeOK', NEW p \in Puts, NEW s \in Sites, SiteAnswers(p, s) \/ UploadFails(p, s)
  PROVE  BucketInv'
<1> USE RequestSets DEF storeVars, bucketVars
<1>1. /\ UNCHANGED <<storeVars, backend, pc, bucketVars, home, excused>>
      /\ \A z \in Sites : z # s => stored'[z] = stored[z]
      /\ stored[s] \subseteq stored'[s]
  BY DEF SiteAnswers, UploadFails, BucketInv, TypeOK
<1>2. \/ stored'[s] = stored[s]
      \/ home[p] \in backend[s] /\ stored'[s] = stored[s] \cup {<<home[p], p>>}
  BY DEF SiteAnswers, UploadFails, BucketInv, TypeOK
<1>3. \A q \in Puts, z \in Sites :
        task'[q][z] = "ok" =>
          \/ task[q][z] = "ok"
          \/ q = p /\ z = s /\ <<home[p], p>> \in stored'[s]
  BY DEF SiteAnswers, UploadFails, BucketInv, TypeOK
<1>4. MadeIsBacked' /\ BackedIsMade' /\ ReadsOnce' /\ DeletesAll' /\ RecordedIsBacked' /\ NothingLeftOver'
  BY <1>1, BucketFrame
<1>5. NamedIsDone'
  <2> SUFFICES ASSUME NEW c \in Creators, NEW z \in Sites, HoldsChunks(c, z)'
               PROVE  HoldsChunks(c, z) \/ c = home[p]
    BY <1>1 DEF BucketInv, NamedIsDone
  <2>1. PICK q \in Puts : <<c, q>> \in stored'[z]
    BY DEF HoldsChunks
  <2> QED
    BY <1>1, <1>2, <2>1 DEF HoldsChunks
<1>6. ChunksHaveBuckets'
  BY <1>1, <1>2 DEF BucketInv, ChunksHaveBuckets, HoldsChunks
<1>7. ConfirmedIsStored'
  BY <1>1, <1>3 DEF BucketInv, ConfirmedIsStored, Confirmed
<1>8. PutOnce'
  BY <1>1 DEF BucketInv, PutOnce
<1>9. ObjectsStored'
  BY <1>1, BoundNames DEF BucketInv, ObjectsStored
<1> QED
  BY <1>4, <1>5, <1>6, <1>7, <1>8, <1>9 DEF BucketInv

(* Ending a PUT keeps the invariant: it names confirmed chunks, and their  *)
(* backend buckets cannot go.                                              *)
LEMMA PutEndsKeep ==
  ASSUME BucketInv, TypeOK', NEW p \in Puts, PutFails(p) \/ PutStoreFails(p) \/ PutCommit(p)
  PROVE  BucketInv'
<1> USE RequestSets DEF storeVars, siteVars, bucketVars, putVars
<1>1. /\ UNCHANGED <<record, purge, siteVars, bucketVars, putVars, excused>>
      /\ pc[p] = "fanout"
      /\ \A r \in Requests : r # p => pc'[r] = pc[r]
      /\ \A q \in Puts : q # p => objects'[q] = objects[q]
  BY DEF PutFails, PutStoreFails, PutCommit, GoTo, BucketInv, TypeOK
<1>2. \/ pc'[p] = "failed" /\ objects'[p] = objects[p]
      \/ /\ pc'[p] = "done"
         /\ objects'[p].bucket = home[p]
         /\ objects'[p].sites \subseteq Confirmed(p) /\ objects'[p].sites # {}
  BY DEF PutFails, PutStoreFails, PutCommit, GoTo, BucketInv, TypeOK
<1>3. MadeIsBacked' /\ BackedIsMade' /\ ReadsOnce' /\ DeletesAll' /\ RecordedIsBacked' /\ NothingLeftOver'
  BY <1>1, BucketFrame
<1>4. NamedIsDone' /\ ChunksHaveBuckets'
  <2>1. \A c \in Creators : pc'[c] = pc[c] /\ c # p
    BY <1>1
  <2> QED
    BY <1>1, <2>1 DEF BucketInv, NamedIsDone, ChunksHaveBuckets, HoldsChunks
<1>5. ConfirmedIsStored'
  BY <1>1, <1>2 DEF BucketInv, ConfirmedIsStored, Confirmed
<1>6. PutOnce'
  BY <1>1, <1>2 DEF BucketInv, PutOnce
<1>7. ObjectsStored'
  <2>1. \A s \in Confirmed(p) :
          s \in Sites /\ <<home[p], p>> \in stored[s] /\ home[p] \in backend[s]
    <3>1. \A s \in Confirmed(p) : s \in Sites /\ <<home[p], p>> \in stored[s]
      BY <1>1 DEF BucketInv, ConfirmedIsStored, Confirmed
    <3>2. \A s \in Confirmed(p) : <<home[p], p>> \in Creators \X Puts
      BY <3>1 DEF BucketInv, TypeOK
    <3>3. \A s \in Confirmed(p) : home[p] \in Creators /\ HoldsChunks(home[p], s)
      BY <3>1, <3>2 DEF HoldsChunks
    <3> QED
      BY <3>1, <3>3 DEF BucketInv, ChunksHaveBuckets
  <2> QED
    BY <1>1, <1>2, <2>1 DEF BucketInv, ObjectsStored
<1> QED
  BY <1>3, <1>4, <1>5, <1>6, <1>7 DEF BucketInv

(* Deleting an object and purging a chunk keep the invariant: only chunks  *)
(* of deleted objects go.                                                  *)
LEMMA RemovalKeeps ==
  ASSUME BucketInv, TypeOK', NEW p \in Puts, DeleteObject(p) \/ \E s \in Sites : Purge(p, s)
  PROVE  BucketInv'
<1> USE RequestSets DEF siteVars, bucketVars, putVars
<1>1. /\ UNCHANGED <<record, backend, pc, bucketVars, putVars, excused>>
      /\ pc[p] = "done" /\ objects'[p] = None
      /\ \A q \in Puts : q # p => objects'[q] = objects[q]
      /\ \A q \in Puts, s \in Sites : <<q, s>> \in purge' => <<q, s>> \in purge \/ q = p
  BY DEF DeleteObject, Purge, BucketInv, TypeOK, PutOnce
<1>2. \A s \in Sites :
        stored'[s] \subseteq stored[s] /\ stored[s] \subseteq stored'[s] \cup {<<home[p], p>>}
  <2>1. CASE DeleteObject(p)
    BY <2>1 DEF DeleteObject
  <2>2. CASE \E s \in Sites : Purge(p, s)
    BY <2>2 DEF Purge, BucketInv, TypeOK
  <2> QED
    BY <2>1, <2>2
<1>3. MadeIsBacked' /\ BackedIsMade' /\ ReadsOnce' /\ DeletesAll' /\ RecordedIsBacked' /\ NothingLeftOver'
  BY <1>1, BucketFrame
<1>4. NamedIsDone' /\ ChunksHaveBuckets'
  BY <1>1, <1>2 DEF BucketInv, NamedIsDone, ChunksHaveBuckets, HoldsChunks
<1>5. ConfirmedIsStored'
  BY <1>1, <1>2 DEF BucketInv, ConfirmedIsStored, Confirmed
<1>6. PutOnce'
  BY <1>1 DEF BucketInv, PutOnce
<1>7. ObjectsStored'
  BY <1>1, <1>2, BoundNames DEF BucketInv, ObjectsStored
<1> QED
  BY <1>3, <1>4, <1>5, <1>6, <1>7 DEF BucketInv

(* Every step of an object keeps the invariant.                            *)
LEMMA ObjectKeeps ==
  ASSUME BucketInv, NEW p \in Puts, ObjectStep(p)
  PROVE  BucketInv'
<1>1. TypeOK'
  BY ObjectTypes DEF BucketInv
<1> QED
  BY <1>1, PutBeginKeeps, UploadKeeps, PutEndsKeep, RemovalKeeps DEF ObjectStep

-----------------------------------------------------------------------------
(* Hang-ups and crashes *)

(* Hang-ups and crashes keep the invariant: what an interrupted creation   *)
(* leaves over is excused.                                                 *)
LEMMA LossKeeps ==
  ASSUME BucketInv, Crash \/ \E r \in Requests : HangUp(r)
  PROVE  BucketInv'
<1> USE RequestSets DEF storeVars, siteVars, bucketVars
<1>1. TypeOK'
  BY LossTypes DEF BucketInv
<1>2. /\ UNCHANGED <<storeVars, siteVars, bucketVars, home>>
      /\ excused \subseteq excused'
      /\ \A r \in Requests : pc'[r] = pc[r] \/ (pc'[r] = "lost" /\ pc[r] \notin {"new", "done"})
  BY DEF Crash, HangUp, GoTo, BucketInv, TypeOK, Over, putVars
<1>3. \A p \in Puts, s \in Sites : task'[p][s] = "ok" => task[p][s] = "ok"
  <2>1. CASE Crash
    BY <2>1 DEF Crash
  <2>2. CASE \E r \in Requests : HangUp(r)
    BY <2>2 DEF HangUp, putVars
  <2> QED
    BY <2>1, <2>2
<1>4. \A c \in Creators : pc[c] \in {"making", "rollback"} /\ pc'[c] # pc[c] => c \in excused'
  BY DEF Crash, HangUp, GoTo, BucketInv, TypeOK, Over
<1>5. NamedIsDone' /\ ChunksHaveBuckets'
  BY <1>2 DEF BucketInv, NamedIsDone, ChunksHaveBuckets, HoldsChunks
<1>6. MadeIsBacked' /\ BackedIsMade'
  BY <1>2 DEF BucketInv, MadeIsBacked, BackedIsMade
<1>7. ReadsOnce' /\ DeletesAll'
  BY <1>2 DEF BucketInv, ReadsOnce, DeletesAll
<1>8. ConfirmedIsStored'
  BY <1>2, <1>3 DEF BucketInv, ConfirmedIsStored, Confirmed
<1>9. PutOnce' /\ RecordedIsBacked' /\ ObjectsStored'
  BY <1>2 DEF BucketInv, PutOnce, RecordedIsBacked, ObjectsStored
<1>10. NothingLeftOver'
  BY <1>2, <1>4 DEF BucketInv, NothingLeftOver
<1> QED
  BY <1>1, <1>5, <1>6, <1>7, <1>8, <1>9, <1>10 DEF BucketInv

-----------------------------------------------------------------------------
(* Theorems *)

(* The invariant is inductive.                                             *)
LEMMA BucketNext == BucketInv /\ [Next]_vars => BucketInv'
<1> SUFFICES ASSUME BucketInv, [Next]_vars PROVE BucketInv'
  OBVIOUS
<1>1. CASE UNCHANGED vars
  BY <1>1 DEF vars, BucketInv, TypeOK, NamedIsDone, MadeIsBacked, BackedIsMade, ReadsOnce,
     DeletesAll, ChunksHaveBuckets, ConfirmedIsStored, PutOnce, RecordedIsBacked,
     NothingLeftOver, ObjectsStored, HoldsChunks, Confirmed
<1>2. CASE Next
  BY <1>1, <1>2, CreateKeeps, DelKeeps, ObjectKeeps, LossKeeps DEF Next, Finished
<1> QED
  BY <1>1, <1>2

(* In every state the types are right, a recorded bucket has its backend   *)
(* buckets, and what records, deletions, PUTs and chunks name is theirs.   *)
THEOREM BucketInvCorrect == Spec => []BucketInv
  BY BucketInit, BucketNext, PTL DEF Spec

(* The types of the variables, whatever requests, errors and crashes.      *)
THEOREM BucketsTypeCorrect == Spec => []TypeOK
<1>1. BucketInv => TypeOK
  BY DEF BucketInv
<1> QED
  BY <1>1, BucketInvCorrect, PTL

(* For any number of sites and requests: a recorded bucket has its backend *)
(* buckets on every site, unless a deletion has read that very record.     *)
THEOREM RecordedIsBackedCorrect == Spec => []RecordedIsBacked
<1>1. BucketInv => RecordedIsBacked
  BY DEF BucketInv
<1> QED
  BY <1>1, BucketInvCorrect, PTL

(* For any number of sites and requests: backend buckets without a record  *)
(* are left over by the excused causes only.                               *)
THEOREM NothingLeftOverCorrect == Spec => []NothingLeftOver
<1>1. BucketInv => NothingLeftOver
  BY DEF BucketInv
<1> QED
  BY <1>1, BucketInvCorrect, PTL

(* For any number of sites and requests: an object is stored where its     *)
(* metadata say, whatever happens to its bucket.                           *)
THEOREM ObjectsStoredCorrect == Spec => []ObjectsStored
<1>1. BucketInv => ObjectsStored
  BY DEF BucketInv
<1> QED
  BY <1>1, BucketInvCorrect, PTL
=============================================================================
