----------------------------- MODULE ReadProofs -----------------------------
(***************************************************************************)
(* Proofs about reads: they fail for the reasons they may, and the data    *)
(* path implements DurableStore.                                           *)
(***************************************************************************)
EXTENDS ObjectStoreProofs

(* What a step does to a reader: it leaves its answers alone, ...          *)
Keeps(r) ==
  /\ from'[r] = from[r] /\ got'[r] = got[r]
  /\ \/ pc'[r] = pc[r]
     \/ pc'[r] = "lost" /\ pc[r] \notin {"new", "done", "failed"}
     \/ pc'[r] \notin {"new", "fetch"} /\ (from[r] = None \/ Enough(r))
     \/ pc'[r] = "failed" /\ pc[r] = "fetch" /\ Answered(r) /\ ~Enough(r)

(* ... opens an object, ...                                                *)
Opens(r) ==
  \E k \in Keys :
    /\ objects[k] # None
    /\ pc[r] = "new" /\ pc'[r] = "fetch"
    /\ from'[r] = objects[k]
    /\ got'[r] = [s \in Sites |-> IF s \in meta[objects[k]].placed THEN "asked" ELSE "idle"]

(* ... or brings it one answer.                                            *)
Hears(r) ==
  /\ from'[r] = from[r]
  /\ pc[r] = "fetch" /\ pc'[r] = "fetch"
  /\ \E s \in Sites, a \in {"found", "missing", "err"} :
       /\ got[r][s] = "asked"
       /\ got'[r] = [got[r] EXCEPT ![s] = a]
       /\ a = "missing" => from[r] \notin backend[s]

(* A reader that opens an object, or finds none.                           *)
LEMMA OpenMoves ==
  ASSUME ReadInv, NEW r \in Readers, NEW k \in Keys, OpenObject(r, k), pc[r] = "new"
  PROVE  Keeps(r) \/ Opens(r)
<1>1. TypeOK /\ r \in Requests /\ from[r] = None
  BY RequestSets DEF ReadInv, QueueInv, CommitInv, ReadsAreTruthful, Truthful
<1>2. CASE objects[k] = None
  BY <1>1, <1>2 DEF TypeOK, OpenObject, Keeps
<1>3. CASE objects[k] # None
  BY <1>1, <1>3 DEF TypeOK, OpenObject, Opens
<1> QED BY <1>2, <1>3

(* An open leaves the other readers alone.                                 *)
LEMMA OthersKept ==
  ASSUME TypeOK, NEW q \in Readers, NEW k \in Keys, OpenObject(q, k),
         NEW r \in Readers, r # q
  PROVE  Keeps(r)
<1>1. pc'[r] = pc[r]
  BY OpenObjectPc, RequestSets
<1> QED BY <1>1 DEF TypeOK, OpenObject, Keeps

(* A copy that has begun to store what it fetched has fetched enough.      *)
LEMMA CopyHasEnough ==
  ASSUME ReadInv, NEW r \in Readers, pc[r] \in {"fanout", "commit", "done"}
  PROVE  from[r] = None \/ Enough(r)
  BY DEF ReadInv, ReadsAreTruthful, Truthful

(* Every step does one of the three to every reader.                       *)
LEMMA ReaderMoves ==
  ASSUME ReadInv, [Next]_vars, NEW r \in Readers
  PROVE  Keeps(r) \/ Opens(r) \/ Hears(r)
<1> USE DEF metaVars, siteVars, putVars, readVars, delVars, reaperVars
<1>0. TypeOK /\ r \in Requests
  BY RequestSets DEF ReadInv, QueueInv, CommitInv
<1>1. ASSUME NEW p \in Puts, NEW k \in Keys, PutBegin(p, k) PROVE Keeps(r)
  <2>1. p # r
    BY <1>1, RequestsAssumption DEF PutBegin, Readers
  <2> QED BY <1>0, <1>1, <2>1, RequestSets DEF TypeOK, PutBegin, StartFanout, Keeps
<1>2. ASSUME NEW p \in Puts, NEW src \in Keys, NEW dst \in Keys, CopyBegin(p, src, dst)
      PROVE Keeps(r) \/ Opens(r)
  <2>1. p \in Readers /\ OpenObject(p, src) /\ pc[p] = "new"
    BY <1>2, RequestSets DEF CopyBegin
  <2> QED BY <1>0, <2>1, OpenMoves, OthersKept
<1>3. ASSUME NEW p \in Puts, FanoutOk(p) PROVE Keeps(r)
  <2>1. r = p => from[r] = None \/ Enough(r)
    BY <1>3, CopyHasEnough DEF FanoutOk
  <2> QED BY <1>0, <1>3, <2>1 DEF TypeOK, FanoutOk, Keeps
<1>4. ASSUME NEW p \in Puts, FanoutFails(p) PROVE Keeps(r)
  <2>1. r = p => from[r] = None \/ Enough(r)
    BY <1>4, CopyHasEnough DEF FanoutFails
  <2> QED BY <1>0, <1>4, <2>1 DEF TypeOK, FanoutFails, Keeps
<1>5. ASSUME NEW p \in Puts, CommitMeta(p) PROVE Keeps(r)
  <2>1. r = p => from[r] = None \/ Enough(r)
    BY <1>5, CopyHasEnough DEF CommitMeta
  <2> QED BY <1>0, <1>5, <2>1 DEF TypeOK, CommitMeta, Keeps
<1>6. ASSUME NEW p \in Puts, CopyFetched(p) PROVE Keeps(r)
  <2>1. pc'[p] \in {"fanout", "failed"} /\ (r # p => pc'[r] = pc[r])
    BY <1>0, <1>6, RequestSets DEF TypeOK, CopyFetched, StartFanout
  <2>2. r = p => Enough(r)
    BY <1>6 DEF CopyFetched
  <2> QED BY <1>6, <2>1, <2>2 DEF CopyFetched, Keeps
<1>7. ASSUME NEW p \in Puts, PutStoreFails(p) PROVE Keeps(r)
  <2>1. r = p => from[r] = None \/ Enough(r)
    BY <1>7, CopyHasEnough DEF PutStoreFails
  <2> QED BY <1>0, <1>7, <2>1 DEF TypeOK, PutStoreFails, Keeps
<1>8. ASSUME NEW g \in Gets, NEW k \in Keys, GetBegin(g, k) PROVE Keeps(r) \/ Opens(r)
  <2>1. g \in Readers /\ OpenObject(g, k) /\ pc[g] = "new"
    BY <1>8, RequestSets DEF GetBegin
  <2> QED BY <1>0, <2>1, OpenMoves, OthersKept
<1>9. ASSUME NEW q \in Readers, NEW s \in Sites, SiteAnswers(q, s)
      PROVE Keeps(r) \/ Hears(r)
  BY <1>0, <1>9 DEF TypeOK, SiteAnswers, Keeps, Hears
<1>10. ASSUME NEW q \in Readers, NEW s \in Sites, SiteFailsRead(q, s)
       PROVE Keeps(r) \/ Hears(r)
  BY <1>0, <1>10 DEF TypeOK, SiteFailsRead, Keeps, Hears
<1>11. ASSUME NEW q \in Readers, GetOk(q) PROVE Keeps(r)
  BY <1>0, <1>11 DEF TypeOK, GetOk, Keeps
<1>12. ASSUME NEW q \in Readers, FetchFails(q) PROVE Keeps(r)
  BY <1>0, <1>12 DEF TypeOK, FetchFails, Keeps
<1>13. ASSUME NEW d \in Dels, NEW times \in [Keys -> 0 .. MaxTimes], DelBegin(d, times)
       PROVE Keeps(r)
  <2>1. d # r
    BY RequestsAssumption DEF Readers
  <2> QED BY <1>0, <1>13, <2>1 DEF TypeOK, DelBegin, Keeps
<1>14. ASSUME NEW d \in Dels, DelWrite(d) \/ DelNotify(d) \/ DelStoreFails(d)
       PROVE Keeps(r)
  <2>1. d # r
    BY RequestsAssumption DEF Readers
  <2> QED BY <1>0, <1>14, <2>1 DEF TypeOK, DelWrite, DelNotify, DelStoreFails, Keeps
<1>15. ASSUME NEW r2 \in Puts \cup Gets, HangUp(r2) PROVE Keeps(r)
  BY <1>0, <1>15, RequestSets DEF TypeOK, HangUp, Keeps
<1>16. CASE Crash
  BY <1>0, <1>16 DEF Crash, Keeps
<1>17. CASE UNCHANGED <<from, got, pc>>
  BY <1>17 DEF Keeps
<1>18. ASSUME NEW d \in Dels, NEW k \in Keys, DelRead(d, k) PROVE UNCHANGED <<from, got, pc>>
  BY <1>18 DEF DelRead
<1>19. ASSUME NEW p \in Puts, NEW s \in Sites, SiteStores(p, s) \/ UploadFails(p, s)
       PROVE UNCHANGED <<from, got, pc>>
  BY <1>19 DEF SiteStores, UploadFails
<1>20. ASSUME Wake \/ ListPurge \/ SweepOver \/ BatchOver \/ ReaperStoreFails
       PROVE UNCHANGED <<from, got, pc>>
  BY <1>20 DEF Wake, ListPurge, SweepOver, BatchOver, ReaperStoreFails
<1>21. ASSUME NEW e \in batch, WriteEntry(e) PROVE UNCHANGED <<from, got, pc>>
  BY <1>21 DEF WriteEntry
<1>22. ASSUME NEW s \in Sites, SiteSweeps(s) \/ SweepFails(s) \/ SiteKeepsKeys(s)
       PROVE UNCHANGED <<from, got, pc>>
  BY <1>22 DEF SiteSweeps, SweepFails, SiteKeepsKeys
<1>23. ASSUME Finished \/ UNCHANGED vars PROVE UNCHANGED <<from, got, pc>>
  BY <1>23 DEF Finished, vars
<1> QED
  BY <1>1, <1>2, <1>3, <1>4, <1>5, <1>6, <1>7, <1>8, <1>9, <1>10, <1>11, <1>12, <1>13,
     <1>14, <1>15, <1>16, <1>17, <1>18, <1>19, <1>20, <1>21, <1>22, <1>23
     DEF Next, PutStep, DelStep, ReaperStep

-----------------------------------------------------------------------------
(* Reads are truthful *)

(* The version of a reader is over and done with, and stays so.            *)
LEMMA VersionKept ==
  ASSUME ReadInv, [Next]_vars, NEW r \in Readers, NEW v, from[r] = v, v # None
  PROVE  /\ v \in Puts
         /\ pc[v] = "done" /\ pc'[v] = "done"
         /\ meta'[v] = meta[v]
         /\ Bound(v)' => Bound(v)
<1>1. v \in Puts /\ pc[v] = "done"
  BY DEF ReadInv, QueueInv, CommitInv, TypeOK, ReadsAreTruthful, Truthful
<1> QED BY <1>1, DoneIsFinal DEF ReadInv, QueueInv

(* A reader whose answers are kept is as near to its end as before.        *)
LEMMA AnswersKept ==
  ASSUME ReadInv, [Next]_vars, NEW r \in Readers, from[r] # None, Keeps(r)
  PROVE  (Enough(r)' <=> Enough(r)) /\ (Answered(r)' <=> Answered(r))
<1>1. meta'[from[r]] = meta[from[r]]
  BY VersionKept
<1> QED BY <1>1 DEF Keeps, Enough, Found, Answered

(* A reader whose answers are kept stays truthful.                         *)
LEMMA KeepsTruthful ==
  ASSUME ReadInv, [Next]_vars, NEW r \in Readers, Keeps(r)
  PROVE  Truthful(r)'
<1>1. Truthful(r) /\ from'[r] = from[r] /\ got'[r] = got[r]
  BY DEF ReadInv, ReadsAreTruthful, Keeps
<1>2. pc'[r] = "new" => pc[r] = "new"
  BY DEF Keeps
<1>3. CASE from[r] = None
  BY <1>1, <1>2, <1>3 DEF Truthful
<1>4. CASE from[r] # None
  <2>1. PICK v : v = from[r]
    OBVIOUS
  <2>2. /\ pc'[v] = "done" /\ meta'[v] = meta[v]
        /\ Bound(v)' => Bound(v)
    BY <1>4, <2>1, VersionKept
  <2>3. (Enough(r)' <=> Enough(r)) /\ (Answered(r)' <=> Answered(r))
    BY <1>4, AnswersKept
  <2>4. /\ pc'[r] \in {"fanout", "commit", "done"} => Enough(r)
        /\ pc'[r] = "failed" => Enough(r) \/ Answered(r)
    BY <1>1, <1>4 DEF Truthful, Keeps
  <2>5. from'[r] = v /\ (~Bound(v) => ~Bound(v)')
    BY <1>1, <2>1, <2>2
  <2>6. \A s \in meta'[v].confirmed : got'[r][s] = "missing" => ~Bound(v)'
    BY <1>1, <1>4, <2>1, <2>2, <2>5 DEF Truthful
  <2>7. \A s \in meta'[v].placed : got'[r][s] # "idle"
    BY <1>1, <1>4, <2>1, <2>2 DEF Truthful
  <2> QED BY <1>1, <1>2, <1>4, <2>1, <2>2, <2>3, <2>4, <2>5, <2>6, <2>7 DEF Truthful
<1> QED BY <1>3, <1>4

(* A reader that has opened an object has asked every site of it.          *)
LEMMA OpensTruthful ==
  ASSUME ReadInv, [Next]_vars, NEW r \in Readers, Opens(r)
  PROVE  Truthful(r)'
<1>1. PICK k \in Keys :
        /\ objects[k] # None /\ pc'[r] = "fetch" /\ from'[r] = objects[k]
        /\ got'[r] = [s \in Sites |-> IF s \in meta[objects[k]].placed
                                      THEN "asked" ELSE "idle"]
  BY DEF Opens
<1>0. PICK v : v = objects[k]
  OBVIOUS
<1>2. v \in Puts /\ pc[v] = "done"
  BY <1>0, <1>1 DEF ReadInv, QueueInv, CommitInv, TypeOK, BoundIsCommitted
<1>3. pc'[v] = "done" /\ meta'[v] = meta[v]
  BY <1>2, DoneIsFinal DEF ReadInv, QueueInv
<1>4. meta[v].placed \subseteq Sites /\ meta[v].confirmed \subseteq Sites
  BY <1>2 DEF ReadInv, QueueInv, CommitInv, TypeOK, Metas
<1>5. \A s \in Sites : got'[r][s] # "missing" /\ (s \in meta[v].placed => got'[r][s] # "idle")
  BY <1>0, <1>1
<1> QED BY <1>0, <1>1, <1>3, <1>4, <1>5 DEF Truthful

(* A site that has no chunk any more of a version that was Confirmed there *)
(* shows that the version is not bound.                                    *)
LEMMA HearsTruthful ==
  ASSUME ReadInv, [Next]_vars, NEW r \in Readers, Hears(r)
  PROVE  Truthful(r)'
<1>1. PICK s \in Sites, a \in {"found", "missing", "err"} :
        /\ got[r][s] = "asked" /\ got'[r] = [got[r] EXCEPT ![s] = a]
        /\ a = "missing" => from[r] \notin backend[s]
  BY DEF Hears
<1>2. from'[r] = from[r] /\ pc'[r] = "fetch"
  BY DEF Hears
<1>3. Truthful(r) /\ TypeOK
  BY DEF ReadInv, QueueInv, CommitInv, ReadsAreTruthful
<1> SUFFICES ASSUME from[r] # None PROVE Truthful(r)'
  BY <1>2 DEF Truthful
<1>0. PICK v : v = from[r]
  OBVIOUS
<1>4. /\ v \in Puts /\ pc'[v] = "done" /\ meta'[v] = meta[v]
      /\ Bound(v)' => Bound(v)
  BY <1>0, VersionKept
<1>5. ASSUME NEW t \in Sites PROVE got'[r][t] = IF t = s THEN a ELSE got[r][t]
  BY <1>1, <1>3 DEF TypeOK
<1>6. meta[v].placed \subseteq Sites /\ meta[v].confirmed \subseteq Sites
  BY <1>3, <1>4 DEF TypeOK, Metas
<1>7. \A t \in meta[v].placed : got'[r][t] # "idle"
  BY <1>0, <1>3, <1>5, <1>6 DEF Truthful
<1>8. ASSUME NEW t \in meta[v].confirmed, got'[r][t] = "missing" PROVE ~Bound(v)'
  <2>1. CASE t = s
    <3>1. v \notin backend[s]
      BY <1>0, <1>1, <1>5, <1>8, <2>1
    <3>2. ~Bound(v)
      BY <1>4, <1>8, <2>1, <3>1 DEF ReadInv, QueueInv, CommitInv, QuorumStored, Holders
    <3> QED BY <1>4, <3>2
  <2>2. CASE t # s
    <3>1. got[r][t] = "missing"
      BY <1>5, <1>6, <1>8, <2>2
    <3>2. ~Bound(v)
      BY <1>0, <1>3, <1>8, <3>1 DEF Truthful
    <3> QED BY <1>4, <3>2
  <2> QED BY <2>1, <2>2
<1> QED BY <1>0, <1>2, <1>4, <1>7, <1>8 DEF Truthful

(* Every step keeps the invariant.                                         *)
LEMMA ReadStep == ReadInv /\ [Next]_vars => ReadInv'
<1> SUFFICES ASSUME ReadInv, [Next]_vars PROVE ReadInv'
  OBVIOUS
<1>1. QueueInv'
  BY QueueStep DEF ReadInv
<1>2. ReadsAreTruthful'
  <2> SUFFICES ASSUME NEW r \in Readers PROVE Truthful(r)'
    BY DEF ReadsAreTruthful
  <2> QED BY ReaderMoves, KeepsTruthful, OpensTruthful, HearsTruthful
<1> QED BY <1>1, <1>2 DEF ReadInv

(* The invariant holds initially.                                          *)
LEMMA ReadInit == Init => ReadInv
<1> SUFFICES ASSUME Init PROVE ReadInv
  OBVIOUS
<1>1. QueueInv
  BY QueueInit
<1>2. \A r \in Readers : pc[r] = "new" /\ from[r] = None
  BY RequestSets DEF Init
<1> QED BY <1>1, <1>2 DEF ReadInv, ReadsAreTruthful, Truthful

(* Readers are truthful about their versions and sites.                    *)
THEOREM ReadsCorrect == Spec => []ReadInv
<1>1. Init => ReadInv
  BY ReadInit
<1>2. ReadInv /\ [Next]_vars => ReadInv'
  BY ReadStep
<1> QED BY <1>1, <1>2, PTL DEF Spec

(* The sets of sites are finite.                                           *)
LEMMA FiniteSites ==
  ASSUME NEW S \in SUBSET Sites
  PROVE  IsFiniteSet(S) /\ Cardinality(S) \in Nat
<1>1. IsFiniteSet(S)
  BY SitesAssumption, FS_Subset
<1> QED BY <1>1, FS_CardinalityType

(* A reader that heard from all sites, too few of which had a chunk of a   *)
(* version that is bound, was failed by more of the Confirmed ones than    *)
(* the version can spare.                                                  *)
LEMMA FailureIsExcused ==
  ASSUME ReadInv, NEW r \in Readers, from[r] # None, Answered(r), ~Enough(r),
         Bound(from[r])
  PROVE  Cardinality(FailedSites(r)) + meta[from[r]].need
           > Cardinality(meta[from[r]].confirmed)
<1> DEFINE v == from[r]
           C == meta[v].confirmed
<1>1. /\ v \in Puts /\ meta[v] \in Metas /\ got[r] \in [Sites -> Answers]
      /\ Truthful(r) /\ C \subseteq meta[v].placed
  BY DEF ReadInv, QueueInv, CommitInv, TypeOK, ReadsAreTruthful, ConfirmedIsPlaced
<1>2. C \in SUBSET Sites /\ Found(r) \in SUBSET Sites /\ FailedSites(r) \in SUBSET Sites
  BY <1>1 DEF Metas, Found, FailedSites
<1>3. C \subseteq FailedSites(r) \cup Found(r)
  <2> SUFFICES ASSUME NEW s \in C PROVE got[r][s] = "err" \/ got[r][s] = "found"
    BY <1>2 DEF FailedSites, Found
  <2>1. got[r][s] \notin {"idle", "missing"}
    BY <1>1 DEF Truthful
  <2>2. got[r][s] # "asked" /\ got[r][s] \in Answers
    BY <1>1, <1>2 DEF Answered
  <2> QED BY <2>1, <2>2 DEF Answers
<1>4. /\ IsFiniteSet(FailedSites(r)) /\ IsFiniteSet(Found(r))
      /\ Cardinality(C) \in Nat /\ Cardinality(Found(r)) \in Nat
      /\ Cardinality(FailedSites(r)) \in Nat
  BY <1>2, FiniteSites
<1>5. Cardinality(C) <= Cardinality(FailedSites(r) \cup Found(r))
  <2>1. IsFiniteSet(FailedSites(r) \cup Found(r))
    BY <1>4, FS_Union
  <2> QED BY <1>3, <2>1, FS_Subset
<1>6. Cardinality(FailedSites(r) \cup Found(r))
        <= Cardinality(FailedSites(r)) + Cardinality(Found(r))
  <2>1. Cardinality(FailedSites(r) \cup Found(r)) =
          Cardinality(FailedSites(r)) + Cardinality(Found(r))
            - Cardinality(FailedSites(r) \cap Found(r))
    BY <1>4, FS_Union
  <2>2. Cardinality(FailedSites(r) \cap Found(r)) \in Nat
    BY <1>2, FiniteSites
  <2> QED BY <1>4, <2>1, <2>2
<1>7. meta[v].need \in Nat /\ Cardinality(FailedSites(r) \cup Found(r)) \in Nat
  <2>1. meta[v].need \in Nat
    BY <1>1, CodeAssumption DEF Metas
  <2>2. FailedSites(r) \cup Found(r) \in SUBSET Sites
    BY <1>2
  <2> QED BY <2>1, <2>2, FiniteSites
<1>8. Cardinality(Found(r)) < meta[v].need
  BY <1>4, <1>7 DEF Enough
<1> QED BY <1>4, <1>5, <1>6, <1>7, <1>8

(* A read fails only for the reasons it may.                               *)
THEOREM ReadErrorsAreExcused == Spec => []ReadErrorExcused
<1>1. ReadInv => ReadErrorExcused
  <2> SUFFICES ASSUME ReadInv, NEW r \in Readers, from[r] # None, pc[r] = "failed",
                      ~Enough(r), Bound(from[r])
               PROVE  Cardinality(FailedSites(r)) + meta[from[r]].need
                        > Cardinality(meta[from[r]].confirmed)
    BY DEF ReadErrorExcused
  <2>1. Answered(r)
    BY DEF ReadInv, ReadsAreTruthful, Truthful
  <2> QED BY <2>1, FailureIsExcused
<1> QED BY <1>1, ReadsCorrect, PTL

-----------------------------------------------------------------------------
(* The data path implements DurableStore *)

(* What is bound is readable.                                              *)
LEMMA BoundIsReadable == CommitInv => DS!Bound \subseteq Readable
<1> SUFFICES ASSUME CommitInv, NEW v \in Puts, Bound(v) PROVE v \in Readable
  BY DEF DS!Bound, Bound
<1>1. meta[v].confirmed \subseteq Holders(v) /\ Cardinality(meta[v].confirmed) >= meta[v].need
  BY DEF CommitInv, QuorumStored
<1>2. Holders(v) \in SUBSET Sites
  BY DEF Holders
<1>3. /\ IsFiniteSet(Holders(v)) /\ Cardinality(Holders(v)) \in Nat
      /\ Cardinality(meta[v].confirmed) \in Nat
  BY <1>1, <1>2, FiniteSites
<1>4. Cardinality(meta[v].confirmed) <= Cardinality(Holders(v))
  BY <1>1, <1>3, FS_Subset
<1>5. meta[v].need \in Nat
  <2>1. meta[v] \in Metas
    BY DEF CommitInv, TypeOK
  <2> QED BY <2>1, CodeAssumption DEF Metas
<1> QED BY <1>1, <1>3, <1>4, <1>5 DEF Readable

(* What is readable stays as it is when sites and quorums do, but for      *)
(* writes that have stored nothing yet.                                    *)
LEMMA ReadableKept ==
  ASSUME TypeOK, TypeOK', backend' = backend,
         \A p \in Puts : meta'[p].need = meta[p].need \/ Holders(p) = {}
  PROVE  Readable' = Readable
<1> SUFFICES ASSUME NEW p \in Puts PROVE p \in Readable' <=> p \in Readable
  BY DEF Readable
<1>1. Holders(p)' = Holders(p)
  BY DEF Holders
<1>2. CASE meta'[p].need = meta[p].need
  BY <1>1, <1>2 DEF Readable
<1>3. CASE Holders(p) = {}
  <2>1. Cardinality(Holders(p)) = 0
    BY <1>3, FS_EmptySet
  <2>2. meta[p] \in Metas /\ meta'[p] \in Metas
    BY DEF TypeOK
  <2>3. meta[p].need \in Nat \ {0} /\ meta'[p].need \in Nat \ {0}
    BY <2>2, CodeAssumption DEF Metas
  <2> QED BY <1>1, <2>1, <2>3 DEF Readable
<1> QED BY <1>2, <1>3

(* A reader that does not leave its fetch keeps its reply.                 *)
LEMMA SameReply ==
  ASSUME ReadInv, [Next]_vars, NEW r \in Readers, from'[r] = from[r],
         pc[r] = "fetch" => pc'[r] = "fetch"
  PROVE  Reply(r)' = Reply(r)
<1>1. CASE from[r] = None
  BY <1>1 DEF Reply
<1>2. CASE from[r] # None
  <2>1. pc[r] # "new"
    BY <1>2 DEF ReadInv, ReadsAreTruthful, Truthful
  <2>2. Keeps(r) \/ Hears(r)
    BY <2>1, ReaderMoves DEF Opens
  <2>3. CASE Hears(r)
    BY <1>2, <2>3 DEF Hears, Reply
  <2>4. CASE Keeps(r)
    <3>1. Enough(r)' <=> Enough(r)
      BY <1>2, <2>4, AnswersKept
    <3>2. got'[r] = got[r]
      BY <2>4 DEF Keeps
    <3>3. CASE pc'[r] = pc[r]
      BY <3>1, <3>2, <3>3 DEF Reply
    <3>4. CASE pc'[r] # pc[r]
      <4>1. pc[r] # "fetch" /\ pc'[r] # "fetch"
        BY <1>2, <2>4, <3>4 DEF Keeps
      <4>2. Enough(r) \/ (pc[r] # "failed" /\ pc'[r] # "failed")
        BY <1>2, <2>4, <3>4, <4>1 DEF Keeps
      <4> QED BY <1>2, <3>1, <4>1, <4>2 DEF Reply
    <3> QED BY <3>3, <3>4
  <2> QED BY <2>2, <2>3, <2>4
<1> QED BY <1>1, <1>2

ReplyOf == [r \in Readers |-> Reply(r)]

(* Steps that no reader notices are churn of the chunks.                   *)
LEMMA UnnoticedIsChurn ==
  ASSUME ReadInv, [Next]_vars, from' = from, objects' = objects, Used' = Used,
         \A r \in Readers : pc[r] = "fetch" => pc'[r] = "fetch"
  PROVE  DS!Churn
<1>1. CommitInv'
  BY ReadStep DEF ReadInv, QueueInv
<1>2. ReplyOf' = ReplyOf
  BY SameReply DEF ReplyOf
<1>3. (DS!Bound \subseteq Readable)'
  BY <1>1, BoundIsReadable, PTL
<1>4. DS!Bound' = DS!Bound
  BY DEF DS!Bound
<1>5. Readable' \in SUBSET Puts
  BY DEF Readable
<1> QED BY <1>2, <1>3, <1>4, <1>5 DEF DS!Churn, ReplyOf

(* A reader that leaves its fetch answers, with an error only if its       *)
(* version is not bound any more or a site has failed it.                  *)
LEMMA LeavingIsAnswer ==
  ASSUME ReadInv, [Next]_vars, NEW q \in Readers, pc[q] = "fetch", pc'[q] # "fetch",
         \A r \in Readers \ {q} : pc[r] = "fetch" => pc'[r] = "fetch",
         from' = from, objects' = objects, Used' = Used, Readable' = Readable
  PROVE  [DS!Next]_(DS!vars)
<1>1. ASSUME NEW r \in Readers, r # q PROVE Reply(r)' = Reply(r)
  BY <1>1, SameReply
<1>2. CASE from[q] = None
  <2>1. Reply(q)' = Reply(q)
    BY <1>2 DEF Reply
  <2>2. ReplyOf' = ReplyOf
    BY <1>1, <2>1 DEF ReplyOf
  <2> QED BY <2>2 DEF ReplyOf, DS!vars
<1>3. CASE from[q] # None
  <2>1. ReplyOf[q] = "open"
    BY <1>3 DEF ReplyOf, Reply
  <2>2. Reply(q)' \in {"data", "error", "excused"}
    BY <1>3 DEF Reply
  <2>3. ASSUME Reply(q)' = "error" PROVE from[q] \notin DS!Bound
    <3>1. Keeps(q)
      BY ReaderMoves DEF Opens, Hears
    <3>2. (Enough(q)' <=> Enough(q)) /\ got'[q] = got[q]
      BY <1>3, <3>1, AnswersKept DEF Keeps
    <3>3. ~Enough(q) /\ pc'[q] = "failed" /\ \A s \in Sites : got[q][s] # "err"
      BY <1>3, <2>3, <3>2 DEF Reply
    <3>4. Answered(q)
      BY <1>3, <3>1, <3>3 DEF Keeps
    <3>5. /\ from[q] \in Puts /\ meta[from[q]] \in Metas
          /\ meta[from[q]].confirmed \in SUBSET Sites /\ meta[from[q]].need \in Nat
      BY <1>3, CodeAssumption DEF ReadInv, QueueInv, CommitInv, TypeOK, Metas
    <3>6. Cardinality(FailedSites(q)) = 0
      <4>1. FailedSites(q) = {}
        BY <3>3, <3>5 DEF FailedSites
      <4> QED BY <4>1, FS_EmptySet
    <3>7. ASSUME Bound(from[q]) PROVE FALSE
      <4>1. Cardinality(meta[from[q]].confirmed) >= meta[from[q]].need
        BY <3>5, <3>7 DEF ReadInv, QueueInv, CommitInv, QuorumStored
      <4>2. 0 + meta[from[q]].need > Cardinality(meta[from[q]].confirmed)
        BY <1>3, <3>3, <3>4, <3>6, <3>7, FailureIsExcused
      <4> QED BY <3>5, <4>1, <4>2, FiniteSites
    <3> QED BY <3>7 DEF DS!Bound, Bound
  <2>4. ReplyOf' = [ReplyOf EXCEPT ![q] = Reply(q)']
    BY <1>1 DEF ReplyOf
  <2>5. DS!Answer(q, Reply(q)')
    BY <2>1, <2>2, <2>3, <2>4 DEF DS!Answer, ReplyOf
  <2>6. Reply(q)' \in DS!Replies
    BY <2>2 DEF DS!Replies
  <2> QED BY <2>5, <2>6 DEF DS!Next
<1> QED BY <1>2, <1>3

(* A reader that opens an object sees the version it was bound to.         *)
LEMMA OpeningIsOpen ==
  ASSUME ReadInv, [Next]_vars, NEW q \in Readers, NEW k \in Keys, objects[k] # None,
         pc[q] = "new", pc'[q] = "fetch", from' = [from EXCEPT ![q] = objects[k]],
         \A r \in Readers \ {q} : pc'[r] = pc[r],
         objects' = objects, Used' = Used, Readable' = Readable
  PROVE  [DS!Next]_(DS!vars)
<1>1. from[q] = None /\ from \in [Readers -> Puts \cup {None}]
  BY DEF ReadInv, QueueInv, CommitInv, TypeOK, ReadsAreTruthful, Truthful
<1>2. ASSUME NEW r \in Readers, r # q PROVE Reply(r)' = Reply(r)
  <2>1. from'[r] = from[r]
    BY <1>1, <1>2
  <2> QED BY <1>2, <2>1, SameReply
<1>3. Reply(q) = "idle"
  BY <1>1 DEF Reply
<1>4. Reply(q)' = "open"
  BY <1>1 DEF Reply
<1>5. ReplyOf[q] = "idle" /\ ReplyOf' = [ReplyOf EXCEPT ![q] = "open"]
  BY <1>2, <1>3, <1>4 DEF ReplyOf
<1>6. DS!Open(q, k)
  BY <1>5 DEF DS!Open, ReplyOf
<1> QED BY <1>6 DEF DS!Next

(* A write that binds its key binds it to a readable version.              *)
LEMMA CommitIsBind ==
  ASSUME ReadInv, [Next]_vars, NEW p \in Puts, CommitMeta(p)
  PROVE  [DS!Next]_(DS!vars)
<1> USE DEF siteVars, putVars, readVars
<1>1. TypeOK /\ TypeOK' /\ CommitInv /\ CommitInv'
  BY ReadStep DEF ReadInv, QueueInv, CommitInv
<1>2. pc[p] = "commit" /\ pc' = [pc EXCEPT ![p] = "done"] /\ meta[p].key \in Keys
  BY DEF CommitMeta, ReadInv, QueueInv, WritesHaveKeys
<1>3. Readable' = Readable
  BY <1>1, ReadableKept DEF CommitMeta
<1>4. Used' = Used \cup {p}
  BY <1>1, <1>2, RequestSets DEF TypeOK, Used
<1>5. p \in Readable \ Used
  <2>1. Bound(p)'
    BY <1>1, <1>2 DEF TypeOK, CommitMeta, Bound
  <2>2. p \in (DS!Bound)'
    BY <2>1 DEF Bound, DS!Bound
  <2>3. (DS!Bound \subseteq Readable)'
    BY <1>1, BoundIsReadable, PTL
  <2> QED BY <1>2, <1>3, <2>2, <2>3 DEF Used
<1>6. ReplyOf' = ReplyOf
  <2> SUFFICES ASSUME NEW r \in Readers PROVE Reply(r)' = Reply(r)
    BY DEF ReplyOf
  <2>1. pc[r] = "fetch" => pc'[r] = "fetch"
    BY <1>1, <1>2, RequestSets DEF TypeOK
  <2>2. from'[r] = from[r]
    BY DEF CommitMeta
  <2> QED BY <2>1, <2>2, SameReply
<1>7. DS!Bind(meta[p].key, p)
  BY <1>3, <1>4, <1>5, <1>6 DEF DS!Bind, CommitMeta, ReplyOf
<1> QED BY <1>2, <1>7 DEF DS!Next

(* A delete unbinds the keys it found.                                     *)
LEMMA DeleteIsUnbind ==
  ASSUME ReadInv, [Next]_vars, NEW d \in Dels, DelWrite(d)
  PROVE  [DS!Next]_(DS!vars)
<1> USE DEF siteVars, putVars, readVars
<1>1. TypeOK /\ TypeOK'
  BY ReadStep DEF ReadInv, QueueInv, CommitInv
<1>2. \A q \in Puts \cup Readers : pc'[q] = pc[q]
  BY <1>1, RequestSets, RequestsAssumption DEF TypeOK, DelWrite, Readers
<1>3. Readable' = Readable
  BY <1>1, ReadableKept DEF DelWrite
<1>4. Used' = Used
  BY <1>2 DEF Used
<1>5. ReplyOf' = ReplyOf
  <2> SUFFICES ASSUME NEW r \in Readers PROVE Reply(r)' = Reply(r)
    BY DEF ReplyOf
  <2>1. from'[r] = from[r] /\ pc'[r] = pc[r]
    BY <1>2 DEF DelWrite
  <2> QED BY <2>1, SameReply
<1>6. FoundKeys(d) \in SUBSET Keys
  BY <1>1 DEF TypeOK, Objects, FoundKeys
<1>7. DS!Unbind(FoundKeys(d))
  BY <1>3, <1>4, <1>5 DEF DS!Unbind, DelWrite, ReplyOf
<1> QED BY <1>6, <1>7 DEF DS!Next

(* A crash ends the fetches that are open.                                 *)
LEMMA CrashIsInterrupt ==
  ASSUME ReadInv, [Next]_vars, Crash
  PROVE  [DS!Next]_(DS!vars)
<1> USE DEF putVars, readVars
<1>1. TypeOK /\ TypeOK'
  BY ReadStep DEF ReadInv, QueueInv, CommitInv
<1>2. \A q \in Requests :
        pc'[q] = IF pc[q] \in {"new", "done", "failed"} THEN pc[q] ELSE "lost"
  BY DEF Crash
<1>3. Readable' = Readable
  BY <1>1, ReadableKept DEF Crash
<1>4. Used' = Used
  BY <1>2, RequestSets DEF Used
<1>5. ASSUME NEW r \in Readers, Reply(r)' # Reply(r)
      PROVE  Reply(r) = "open" /\ Reply(r)' \in {"data", "excused"}
  <2>1. from'[r] = from[r]
    BY DEF Crash
  <2>2. pc[r] = "fetch" /\ pc'[r] = "lost"
    BY <1>2, <1>5, <2>1, SameReply, RequestSets
  <2>3. from[r] # None
    BY <1>5, <2>1 DEF Reply
  <2> QED BY <2>1, <2>2, <2>3 DEF Reply
<1>6. ReplyOf' \in [Readers -> DS!Replies]
  BY DEF ReplyOf, Reply, DS!Replies
<1>7. DS!Interrupt
  <2>1. \A r \in Readers : ReplyOf'[r] # ReplyOf[r] =>
           ReplyOf[r] = "open" /\ ReplyOf'[r] \in {"data", "excused"}
    BY <1>5 DEF ReplyOf
  <2> QED BY <1>3, <1>4, <1>6, <2>1 DEF DS!Interrupt, Crash, ReplyOf
<1> QED BY <1>7 DEF DS!Next

(* Most quiet steps are not noticed by readers.                            *)
LEMMA QuietUnnoticed ==
  ASSUME ReadInv, [Next]_vars, QuietActions, from' = from,
         \A r \in Readers : pc[r] = "fetch" => pc'[r] = "fetch"
  PROVE  [DS!Next]_(DS!vars)
<1>1. QuietStep
  BY QuietActionsAreQuiet DEF ReadInv, QueueInv, CommitInv
<1>2. objects' = objects /\ Used' = Used
  BY <1>1 DEF QuietStep, QuietPut, Used
<1>3. DS!Churn
  BY <1>2, UnnoticedIsChurn
<1> QED BY <1>3 DEF DS!Next

(* A quiet step in which one reader leaves its fetch.                      *)
LEMMA QuietLeaving ==
  ASSUME ReadInv, [Next]_vars, QuietActions, from' = from, backend' = backend,
         \A p \in Puts : meta'[p].need = meta[p].need \/ Holders(p) = {},
         NEW q \in Readers, pc[q] = "fetch", pc'[q] # "fetch",
         \A r \in Readers \ {q} : pc'[r] = pc[r]
  PROVE  [DS!Next]_(DS!vars)
<1>1. QuietStep /\ TypeOK /\ TypeOK'
  BY QuietActionsAreQuiet, ReadStep DEF ReadInv, QueueInv, CommitInv
<1>2. objects' = objects /\ Used' = Used
  BY <1>1 DEF QuietStep, QuietPut, Used
<1>3. Readable' = Readable
  BY <1>1, ReadableKept
<1> QED BY <1>2, <1>3, LeavingIsAnswer

(* A quiet step in which one reader begins.                                *)
LEMMA QuietOpening ==
  ASSUME ReadInv, [Next]_vars, QuietActions, backend' = backend,
         \A p \in Puts : meta'[p].need = meta[p].need,
         NEW q \in Readers, NEW k \in Keys, OpenObject(q, k), pc[q] = "new"
  PROVE  [DS!Next]_(DS!vars)
<1>1. QuietStep /\ TypeOK /\ TypeOK'
  BY QuietActionsAreQuiet, ReadStep DEF ReadInv, QueueInv, CommitInv
<1>2. objects' = objects /\ Used' = Used
  BY <1>1 DEF QuietStep, QuietPut, Used
<1>3. Readable' = Readable
  BY <1>1, ReadableKept
<1>4. \A r \in Readers \ {q} : pc'[r] = pc[r]
  BY <1>1, OpenObjectPc, RequestSets
<1>5. CASE objects[k] = None
  <2>1. from' = from
    BY <1>5 DEF OpenObject
  <2> QED BY <1>4, <2>1, QuietUnnoticed
<1>6. CASE objects[k] # None
  <2>1. pc'[q] = "fetch" /\ from' = [from EXCEPT ![q] = objects[k]]
    BY <1>1, <1>6, RequestSets DEF TypeOK, OpenObject
  <2> QED BY <1>2, <1>3, <1>4, <1>6, <2>1, OpeningIsOpen
<1> QED BY <1>5, <1>6

(* Every step of the data path is one of the abstract store, or none.      *)
LEMMA RefinementStep == ReadInv /\ [Next]_vars => [DS!Next]_(DS!vars)
<1> SUFFICES ASSUME ReadInv, [Next]_vars PROVE [DS!Next]_(DS!vars)
  OBVIOUS
<1> USE DEF metaVars, siteVars, putVars, readVars, delVars, reaperVars
<1>0. TypeOK
  BY DEF ReadInv, QueueInv, CommitInv
<1>1. ASSUME NEW p \in Puts, NEW k \in Keys, PutBegin(p, k) PROVE [DS!Next]_(DS!vars)
  <2>1. p \notin Readers
    BY <1>1, RequestsAssumption DEF PutBegin, Readers
  <2>2. from' = from /\ \A r \in Readers : pc'[r] = pc[r]
    BY <1>0, <1>1, <2>1, RequestSets DEF TypeOK, PutBegin, StartFanout
  <2> QED BY <1>1, <2>2, QuietUnnoticed DEF QuietActions
<1>2. ASSUME NEW p \in Puts, NEW src \in Keys, NEW dst \in Keys, CopyBegin(p, src, dst)
      PROVE [DS!Next]_(DS!vars)
  <2>1. p \in Readers /\ OpenObject(p, src) /\ pc[p] = "new" /\ backend' = backend
    BY <1>2, RequestSets DEF CopyBegin
  <2>2. \A q \in Puts : meta'[q].need = meta[q].need
    <3>1. meta[p] \in Metas
      BY <1>0 DEF TypeOK
    <3> QED BY <1>0, <1>2, <3>1 DEF TypeOK, CopyBegin, Metas
  <2> QED BY <1>2, <2>1, <2>2, QuietOpening DEF QuietActions
<1>3. ASSUME NEW p \in Puts, FanoutOk(p) PROVE [DS!Next]_(DS!vars)
  <2>1. pc[p] = "fanout" /\ pc' = [pc EXCEPT ![p] = "commit"]
        /\ objects' = objects /\ from' = from
    BY <1>3 DEF FanoutOk
  <2>2. Used' = Used /\ \A r \in Readers : pc[r] = "fetch" => pc'[r] = "fetch"
    BY <1>0, <2>1, RequestSets DEF TypeOK, Used
  <2> QED BY <2>1, <2>2, UnnoticedIsChurn DEF DS!Next
<1>4. ASSUME NEW p \in Puts, FanoutFails(p) \/ PutStoreFails(p)
      PROVE [DS!Next]_(DS!vars)
  <2>1. from' = from /\ \A r \in Readers : pc[r] = "fetch" => pc'[r] = "fetch"
    BY <1>0, <1>4, RequestSets DEF TypeOK, FanoutFails, PutStoreFails
  <2> QED BY <1>4, <2>1, QuietUnnoticed DEF QuietActions
<1>5. ASSUME NEW p \in Puts, CopyFetched(p) PROVE [DS!Next]_(DS!vars)
  <2>1. p \in Readers /\ pc[p] = "fetch" /\ from' = from /\ backend' = backend
    BY <1>5, RequestSets DEF CopyFetched, StartFanout
  <2>2. pc'[p] # "fetch" /\ \A r \in Readers \ {p} : pc'[r] = pc[r]
    BY <1>0, <1>5, RequestSets DEF TypeOK, CopyFetched, StartFanout
  <2>3. Holders(p) = {}
    BY <2>1 DEF ReadInv, QueueInv, FreshStoresNothing, Holders
  <2>4. \A q \in Puts : meta'[q].need = meta[q].need \/ Holders(q) = {}
    BY <1>0, <1>5, <2>3 DEF TypeOK, CopyFetched, StartFanout
  <2> QED BY <1>5, <2>1, <2>2, <2>4, QuietLeaving DEF QuietActions
<1>6. ASSUME NEW g \in Gets, NEW k \in Keys, GetBegin(g, k) PROVE [DS!Next]_(DS!vars)
  <2>1. /\ g \in Readers /\ OpenObject(g, k) /\ pc[g] = "new"
        /\ backend' = backend /\ meta' = meta
    BY <1>6, RequestSets DEF GetBegin
  <2> QED BY <1>6, <2>1, QuietOpening DEF QuietActions
<1>7. ASSUME NEW q \in Readers, GetOk(q) \/ FetchFails(q) PROVE [DS!Next]_(DS!vars)
  <2>1. /\ pc[q] = "fetch" /\ from' = from /\ backend' = backend /\ meta' = meta
        /\ pc'[q] # "fetch" /\ \A r \in Readers \ {q} : pc'[r] = pc[r]
    BY <1>0, <1>7, RequestSets DEF TypeOK, GetOk, FetchFails
  <2> QED BY <1>7, <2>1, QuietLeaving DEF QuietActions
<1>8. ASSUME NEW q \in Puts \cup Gets, HangUp(q) PROVE [DS!Next]_(DS!vars)
  <2>1. /\ from' = from /\ backend' = backend /\ meta' = meta
        /\ pc'[q] # "fetch" /\ \A r \in Readers \ {q} : pc'[r] = pc[r]
    BY <1>0, <1>8, RequestSets DEF TypeOK, HangUp
  <2>2. CASE q \in Readers /\ pc[q] = "fetch"
    BY <1>8, <2>1, <2>2, QuietLeaving DEF QuietActions
  <2>3. CASE ~(q \in Readers /\ pc[q] = "fetch")
    BY <1>8, <2>1, <2>3, QuietUnnoticed DEF QuietActions
  <2> QED BY <2>2, <2>3
<1>9. ASSUME NEW d \in Dels, NEW times \in [Keys -> 0 .. MaxTimes], DelBegin(d, times)
      PROVE [DS!Next]_(DS!vars)
  <2>1. from' = from /\ \A r \in Readers : pc'[r] = pc[r]
    BY <1>0, <1>9, RequestsAssumption DEF TypeOK, DelBegin, Readers
  <2> QED BY <1>9, <2>1, QuietUnnoticed DEF QuietActions
<1>10. ASSUME NEW d \in Dels, DelNotify(d) \/ DelStoreFails(d) PROVE [DS!Next]_(DS!vars)
  <2>1. from' = from /\ \A r \in Readers : pc'[r] = pc[r]
    <3>1. d \notin Readers
      BY RequestsAssumption DEF Readers
    <3>2. from' = from /\ \A r \in Readers : pc'[r] = pc[r] \/ r = d
      BY <1>0, <1>10, RequestSets DEF TypeOK, DelNotify, DelStoreFails
    <3> QED BY <3>1, <3>2
  <2> QED BY <1>10, <2>1, QuietUnnoticed DEF QuietActions
<1>11. ASSUME QuietActions, UNCHANGED <<from, pc>> PROVE [DS!Next]_(DS!vars)
  BY <1>11, QuietUnnoticed
<1>12. ASSUME NEW q \in Readers, NEW s \in Sites, SiteAnswers(q, s) \/ SiteFailsRead(q, s)
       PROVE QuietActions /\ UNCHANGED <<from, pc>>
  BY <1>12 DEF SiteAnswers, SiteFailsRead, QuietActions
<1>13. ASSUME NEW d \in Dels, NEW k \in Keys, DelRead(d, k)
       PROVE QuietActions /\ UNCHANGED <<from, pc>>
  BY <1>13 DEF DelRead, QuietActions
<1>14. ASSUME NEW p \in Puts, NEW s \in Sites, SiteStores(p, s) \/ UploadFails(p, s)
       PROVE QuietActions /\ UNCHANGED <<from, pc>>
  BY <1>14 DEF SiteStores, UploadFails, QuietActions
<1>15. ASSUME Wake \/ ListPurge \/ SweepOver \/ BatchOver \/ ReaperStoreFails
       PROVE QuietActions /\ UNCHANGED <<from, pc>>
  BY <1>15 DEF Wake, ListPurge, SweepOver, BatchOver, ReaperStoreFails, QuietActions
<1>16. ASSUME NEW e \in batch, WriteEntry(e) PROVE QuietActions /\ UNCHANGED <<from, pc>>
  BY <1>16 DEF WriteEntry, QuietActions
<1>17. ASSUME NEW s \in Sites, SiteKeepsKeys(s) PROVE QuietActions /\ UNCHANGED <<from, pc>>
  BY <1>17 DEF SiteKeepsKeys, QuietActions
<1>18. ASSUME Finished \/ UNCHANGED vars PROVE QuietActions /\ UNCHANGED <<from, pc>>
  BY <1>18 DEF Finished, vars, QuietActions
<1>19. ASSUME NEW s \in Sites, SiteSweeps(s) \/ SweepFails(s) PROVE [DS!Next]_(DS!vars)
  <2>1. UNCHANGED <<objects, from, pc>>
    BY <1>19 DEF SiteSweeps, SweepFails
  <2>2. Used' = Used
    BY <2>1 DEF Used
  <2> QED BY <2>1, <2>2, UnnoticedIsChurn DEF DS!Next
<1> QED
  BY <1>1, <1>2, <1>3, <1>4, <1>5, <1>6, <1>7, <1>8, <1>9, <1>10, <1>11, <1>12, <1>13,
     <1>14, <1>15, <1>16, <1>17, <1>18, <1>19, CommitIsBind, DeleteIsUnbind,
     CrashIsInterrupt
     DEF Next, PutStep, DelStep, ReaperStep

(* The data path starts as an empty store.                                 *)
LEMMA RefinementInit == Init => DS!Init
<1> SUFFICES ASSUME Init PROVE DS!Init
  OBVIOUS
<1>1. Used = {}
  BY RequestSets DEF Init, Used
<1>2. Readable = {}
  <2> SUFFICES ASSUME NEW p \in Puts PROVE p \notin Readable
    BY DEF Readable
  <2>1. Holders(p) = {}
    BY DEF Init, Holders
  <2>2. Cardinality(Holders(p)) = 0
    BY <2>1, FS_EmptySet
  <2>3. meta[p].need = 1
    BY DEF Init
  <2> QED BY <2>2, <2>3 DEF Readable
<1>3. [r \in Readers |-> Reply(r)] = [r \in Readers |-> "idle"]
  BY DEF Init, Reply
<1> QED BY <1>1, <1>2, <1>3 DEF Init, DS!Init

(* The data path implements the abstract store.                            *)
THEOREM ImplementsDurableStoreCorrect == Spec => ImplementsDurableStore
<1>1. Init => DS!Init
  BY RefinementInit
<1>2. ReadInv /\ [Next]_vars => [DS!Next]_(DS!vars)
  BY RefinementStep
<1> QED BY <1>1, <1>2, ReadsCorrect, PTL DEF Spec, ImplementsDurableStore, DS!Spec
=============================================================================
