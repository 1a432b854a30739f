------------------------- MODULE ObjectStoreProofs -------------------------
(***************************************************************************)
(* Proofs about the data path, for any keys, sites, requests, code and     *)
(* fault bounds.                                                           *)
(***************************************************************************)
EXTENDS ObjectStoreProperties, FiniteSetTheorems, TLAPS

(* The kinds of requests.                                                  *)
LEMMA RequestSets ==
  /\ Puts \subseteq Requests /\ Gets \subseteq Requests /\ Dels \subseteq Requests
  /\ Readers \subseteq Requests /\ Copies \subseteq Readers /\ Copies \subseteq Puts
  /\ Gets \subseteq Readers
  BY RequestsAssumption DEF Requests, Readers

-----------------------------------------------------------------------------
(* Type correctness *)

(* A counted fault keeps the counters natural numbers.                     *)
LEMMA FaultType ==
  ASSUME TypeOK, \E f \in FaultKinds : Fault(f)
  PROVE  faults' \in [FaultKinds -> Nat]
  BY DEF TypeOK, Fault

(* Handing chunks to fanout_put gives the write well-formed metadata, and  *)
(* leaves all sites alone.                                                 *)
LEMMA StartFanoutType ==
  ASSUME TypeOK, NEW p \in Puts, NEW k \in Keys \cup {None}, StartFanout(p, k)
  PROVE  /\ pc' \in [Requests -> Phases]
         /\ meta' \in [Puts -> Metas]
         /\ task' \in [Puts -> [Sites -> TaskStates]]
         /\ backend' = backend
  <1>1. CASE "Erasure" \in Modes /\ pc' = [pc EXCEPT ![p] = "failed"]
             /\ UNCHANGED <<meta, task>>
    BY <1>1, RequestSets DEF TypeOK, Phases, StartFanout
  <1>2. CASE /\ pc' = [pc EXCEPT ![p] = "fanout"]
             /\ \E pl \in Placements :
                 /\ meta' = [meta EXCEPT ![p] =
                      [key |-> k, placed |-> pl[1], need |-> pl[2], confirmed |-> {}]]
                 /\ task' = [task EXCEPT ![p] =
                      [s \in Sites |-> IF s \in pl[1] THEN "sent" ELSE "idle"]]
    <2>1. PICK pl \in Placements :
            /\ meta' = [meta EXCEPT ![p] =
                 [key |-> k, placed |-> pl[1], need |-> pl[2], confirmed |-> {}]]
            /\ task' = [task EXCEPT ![p] =
                 [s \in Sites |-> IF s \in pl[1] THEN "sent" ELSE "idle"]]
      BY <1>2
    <2>2. pl[1] \in SUBSET Sites /\ pl[2] \in {1, DataChunks}
      BY DEF Placements
    <2>3. [key |-> k, placed |-> pl[1], need |-> pl[2], confirmed |-> {}] \in Metas
      BY <2>2 DEF Metas
    <2>4. meta' \in [Puts -> Metas]
      BY <2>1, <2>3 DEF TypeOK
    <2>5. task' \in [Puts -> [Sites -> TaskStates]]
      BY <2>1 DEF TypeOK, TaskStates
    <2> QED BY <1>2, <2>4, <2>5, RequestSets DEF TypeOK, Phases, StartFanout
  <1> QED BY <1>1, <1>2 DEF StartFanout

(* A reader opens a version that exists and asks sites only.               *)
LEMMA OpenObjectType ==
  ASSUME TypeOK, NEW r \in Readers, NEW k \in Keys, OpenObject(r, k)
  PROVE  /\ pc' \in [Requests -> Phases]
         /\ from' \in [Readers -> Puts \cup {None}]
         /\ got' \in [Readers -> [Sites -> Answers]]
  <1>1. pc' \in [Requests -> Phases]
    BY RequestSets DEF TypeOK, OpenObject, Phases
  <1>2. from' \in [Readers -> Puts \cup {None}]
    BY DEF TypeOK, OpenObject
  <1>3. \A v : [s \in Sites |-> IF s \in meta[v].placed THEN "asked" ELSE "idle"]
               \in [Sites -> Answers]
    BY DEF Answers
  <1>4. got' \in [Readers -> [Sites -> Answers]]
    <2> DEFINE ask == [s \in Sites |->
                 IF s \in meta[objects[k]].placed THEN "asked" ELSE "idle"]
    <2>1. got' = got \/ got' = [got EXCEPT ![r] = ask]
      BY DEF OpenObject
    <2>2. ask \in [Sites -> Answers]
      BY <1>3
    <2> HIDE DEF ask
    <2> QED BY <2>1, <2>2 DEF TypeOK
  <1> QED BY <1>1, <1>2, <1>4

(* The batch of a delete queues well-formed entries.                       *)
LEMMA DelWriteType ==
  ASSUME TypeOK, NEW d \in Dels, DelWrite(d)
  PROVE  /\ objects' \in [Keys -> Puts \cup {None}]
         /\ purge' \in SUBSET Entries
         /\ fate' \in [Puts -> Fates]
  <1>1. objects' \in [Keys -> Puts \cup {None}]
    BY DEF TypeOK, DelWrite
  <1>2. fate' \in [Puts -> Fates]
    BY DEF TypeOK, DelWrite, Fates
  <1>3. ASSUME NEW o \in found[d]
        PROVE  EntryFor(d, o) \in Entries
    <2>1. o.ver \in Puts /\ o.nth \in 1 .. MaxTimes
      BY <1>3 DEF TypeOK, Objects
    <2> QED BY <2>1 DEF TypeOK, Metas, Entries, Owners, EntryFor
  <1>4. purge' \in SUBSET Entries
    BY <1>3 DEF TypeOK, DelWrite
  <1> QED BY <1>1, <1>2, <1>4

(* The type invariant is inductive.                                        *)
LEMMA TypeStep == TypeOK /\ [Next]_vars => TypeOK'
<1> SUFFICES ASSUME TypeOK, [Next]_vars PROVE TypeOK'
  OBVIOUS
<1> USE DEF metaVars, siteVars, putVars, readVars, delVars, reaperVars
<1>1. ASSUME NEW p \in Puts, NEW k \in Keys, PutBegin(p, k) PROVE TypeOK'
  BY <1>1, StartFanoutType DEF TypeOK, PutBegin
<1>2. ASSUME NEW p \in Puts, NEW src \in Keys, NEW dst \in Keys, CopyBegin(p, src, dst)
      PROVE TypeOK'
  <2>1. p \in Readers
    BY <1>2, RequestSets DEF CopyBegin
  <2>2. [meta[p] EXCEPT !.key = dst] \in Metas
    <3>1. meta[p] \in Metas
      BY DEF TypeOK
    <3> QED BY <3>1 DEF Metas
  <2>3. meta' \in [Puts -> Metas]
    BY <1>2, <2>2 DEF TypeOK, CopyBegin
  <2> QED BY <1>2, <2>1, <2>3, OpenObjectType DEF TypeOK, CopyBegin
<1>3. ASSUME NEW p \in Puts, FanoutOk(p) PROVE TypeOK'
  <2>1. [meta[p] EXCEPT !.confirmed = Uploaded(p)] \in Metas
    <3>1. meta[p] \in Metas
      BY DEF TypeOK
    <3> QED BY <3>1 DEF Metas, Uploaded
  <2>2. meta' \in [Puts -> Metas]
    BY <1>3, <2>1 DEF TypeOK, FanoutOk
  <2> QED BY <1>3, <2>2, RequestSets DEF TypeOK, FanoutOk, Phases
<1>4. ASSUME NEW p \in Puts, FanoutFails(p) PROVE TypeOK'
  BY <1>4, RequestSets DEF TypeOK, FanoutFails, Phases
<1>5. ASSUME NEW p \in Puts, CommitMeta(p) PROVE TypeOK'
  BY <1>5, RequestSets DEF TypeOK, CommitMeta, Phases, Fates
<1>6. ASSUME NEW p \in Puts, CopyFetched(p) PROVE TypeOK'
  <2>1. meta[p].key \in Keys \cup {None}
    BY DEF TypeOK, Metas
  <2> QED BY <1>6, <2>1, StartFanoutType DEF TypeOK, CopyFetched
<1>7. ASSUME NEW p \in Puts, PutStoreFails(p) PROVE TypeOK'
  BY <1>7, FaultType, RequestSets DEF TypeOK, FaultKinds, PutStoreFails, Phases
<1>8. ASSUME NEW r \in Gets, NEW k \in Keys, GetBegin(r, k) PROVE TypeOK'
  BY <1>8, OpenObjectType, RequestSets DEF TypeOK, GetBegin
<1>9. ASSUME NEW r \in Readers, NEW s \in Sites, SiteAnswers(r, s) PROVE TypeOK'
  BY <1>9 DEF TypeOK, SiteAnswers, Answers
<1>10. ASSUME NEW r \in Readers, NEW s \in Sites, SiteFailsRead(r, s) PROVE TypeOK'
  BY <1>10, FaultType DEF TypeOK, FaultKinds, SiteFailsRead, Answers
<1>11. ASSUME NEW r \in Readers, GetOk(r) PROVE TypeOK'
  BY <1>11, RequestSets DEF TypeOK, GetOk, Phases
<1>12. ASSUME NEW r \in Readers, FetchFails(r) PROVE TypeOK'
  BY <1>12, RequestSets DEF TypeOK, FetchFails, Phases
<1>13. ASSUME NEW d \in Dels, NEW times \in [Keys -> 0 .. MaxTimes], DelBegin(d, times)
       PROVE  TypeOK'
  <2>1. pc' \in [Requests -> Phases]
    BY <1>13, RequestSets DEF TypeOK, DelBegin, Phases
  <2>2. todo' \in [Dels -> [Keys -> 0 .. MaxTimes]]
    BY <1>13 DEF TypeOK, DelBegin
  <2> QED BY <1>13, <2>1, <2>2 DEF TypeOK, DelBegin
<1>14. ASSUME NEW d \in Dels, NEW k \in Keys, DelRead(d, k) PROVE TypeOK'
  <2>1. todo[d][k] \in 1 .. MaxTimes
    BY <1>14, BoundsAssumption DEF TypeOK, DelRead
  <2>2. objects[k] # None => ObjectAt(d, k) \in Objects
    BY <2>1 DEF TypeOK, ObjectAt, Objects
  <2>3. found' \in [Dels -> SUBSET Objects]
    BY <1>14, <2>2 DEF TypeOK, DelRead
  <2>4. todo' \in [Dels -> [Keys -> 0 .. MaxTimes]]
    BY <1>14, <2>1, BoundsAssumption DEF TypeOK, DelRead
  <2> QED BY <1>14, <2>3, <2>4 DEF TypeOK, DelRead
<1>15. ASSUME NEW d \in Dels, DelWrite(d) PROVE TypeOK'
  <2>1. pc' \in [Requests -> Phases]
    BY <1>15, RequestSets DEF TypeOK, DelWrite, Phases
  <2>2. UNCHANGED <<permit, siteVars, putVars, readVars, delVars, reaperVars, faults>>
    BY <1>15 DEF DelWrite
  <2> QED BY <1>15, <2>1, <2>2, DelWriteType DEF TypeOK
<1>16. ASSUME NEW d \in Dels, DelNotify(d) PROVE TypeOK'
  BY <1>16, RequestSets DEF TypeOK, DelNotify, Phases
<1>17. ASSUME NEW d \in Dels, DelStoreFails(d) PROVE TypeOK'
  BY <1>17, FaultType, RequestSets DEF TypeOK, FaultKinds, DelStoreFails, Phases
<1>18. ASSUME NEW p \in Puts, NEW s \in Sites, SiteStores(p, s) PROVE TypeOK'
  BY <1>18 DEF TypeOK, SiteStores, TaskStates
<1>19. ASSUME NEW p \in Puts, NEW s \in Sites, UploadFails(p, s) PROVE TypeOK'
  <2>1. faults' \in [FaultKinds -> Nat]
    BY <1>19, FaultType DEF TypeOK, FaultKinds, UploadFails
  <2>2. task' \in [Puts -> [Sites -> TaskStates]]
    BY <1>19 DEF TypeOK, UploadFails, TaskStates
  <2>3. backend' \in [Sites -> SUBSET Puts]
    <3>1. \/ UNCHANGED backend
          \/ backend' = [backend EXCEPT ![s] = @ \cup {p}]
      BY <1>19 DEF UploadFails
    <3>2. backend \in [Sites -> SUBSET Puts] /\ backend[s] \cup {p} \in SUBSET Puts
      BY DEF TypeOK
    <3> QED BY <3>1, <3>2
  <2>4. UNCHANGED <<metaVars, pc, putVars, readVars, delVars, reaperVars, fate>>
    BY <1>19 DEF UploadFails
  <2> QED BY <2>1, <2>2, <2>3, <2>4 DEF TypeOK
<1>20. CASE Wake
  BY <1>20 DEF TypeOK, Wake
<1>21. CASE ListPurge
  BY <1>21 DEF TypeOK, ListPurge, SweepStates
<1>22. CASE SweepOver
  BY <1>22 DEF TypeOK, SweepOver
<1>23. CASE BatchOver
  BY <1>23 DEF TypeOK, BatchOver, SweepStates
<1>24. ASSUME NEW e \in batch, WriteEntry(e) PROVE TypeOK'
  <2>1. e \in Entries /\ Swept(e) \in Entries
    BY <1>24 DEF TypeOK, Entries, Swept
  <2> QED BY <1>24, <2>1 DEF TypeOK, WriteEntry
<1>25. CASE ReaperStoreFails
  BY <1>25, FaultType DEF TypeOK, FaultKinds, ReaperStoreFails, SweepStates
<1>26. ASSUME NEW s \in Sites, SiteSweeps(s) PROVE TypeOK'
  BY <1>26 DEF TypeOK, SiteSweeps, SweepStates
<1>27. ASSUME NEW s \in Sites, SweepFails(s) PROVE TypeOK'
  BY <1>27, FaultType DEF TypeOK, FaultKinds, SweepFails, SweepStates
<1>28. ASSUME NEW s \in Sites, SiteKeepsKeys(s) PROVE TypeOK'
  BY <1>28, FaultType DEF TypeOK, FaultKinds, SiteKeepsKeys, SweepStates
<1>29. ASSUME NEW r \in Puts \cup Gets, HangUp(r) PROVE TypeOK'
  BY <1>29, RequestSets DEF TypeOK, HangUp, Phases
<1>30. CASE Crash
  <2>1. task' \in [Puts -> [Sites -> TaskStates]]
    BY <1>30 DEF TypeOK, Crash, TaskStates
  <2>2. UNCHANGED <<objects, purge, backend, meta, from, got, todo, found, fate>>
    BY <1>30 DEF Crash, putVars, readVars, delVars
  <2>3. /\ pc' \in [Requests -> Phases] /\ permit' \in BOOLEAN
        /\ rpc' \in {"idle", "list", "sweep", "write"} /\ batch' \in SUBSET Entries
        /\ sweep' \in [Sites -> SweepStates]
    BY <1>30 DEF TypeOK, Crash, Phases, SweepStates
  <2> QED
    BY <1>30, <2>1, <2>2, <2>3, FaultType DEF TypeOK, FaultKinds, Crash
<1>31. CASE Finished \/ UNCHANGED vars
  BY <1>31 DEF TypeOK, Finished, vars
<1> QED
  BY <1>1, <1>2, <1>3, <1>4, <1>5, <1>6, <1>7, <1>8, <1>9, <1>10, <1>11, <1>12, <1>13,
     <1>14, <1>15, <1>16, <1>17, <1>18, <1>19, <1>20, <1>21, <1>22, <1>23, <1>24, <1>25,
     <1>26, <1>27, <1>28, <1>29, <1>30, <1>31
     DEF Next, PutStep, DelStep, ReaperStep

(* The types hold initially.                                               *)
LEMMA TypeInit == Init => TypeOK
<1> SUFFICES ASSUME Init PROVE TypeOK
  OBVIOUS
<1>1. [key |-> None, placed |-> {}, need |-> 1, confirmed |-> {}] \in Metas
  BY DEF Metas
<1>2. meta \in [Puts -> Metas]
  BY <1>1 DEF Init
<1>3. faults \in [FaultKinds -> Nat]
  BY DEF Init
<1>4. todo \in [Dels -> [Keys -> 0 .. MaxTimes]]
  BY BoundsAssumption DEF Init
<1> QED
  BY <1>2, <1>3, <1>4 DEF Init, TypeOK, Phases, TaskStates, Answers, SweepStates, Fates

(* Every variable keeps its type.                                          *)
THEOREM TypeCorrect == Spec => []TypeOK
<1>1. Init => TypeOK
  BY TypeInit
<1>2. TypeOK /\ [Next]_vars => TypeOK'
  BY TypeStep
<1> QED BY <1>1, <1>2, PTL DEF Spec

-----------------------------------------------------------------------------
(* What is bound was committed with its quorum and is not purged *)

(* Most steps are quiet: they bind nothing, commit nothing, remove nothing *)
(* from a site and queue nothing new.                                      *)
QuietPut(p) ==
  \/ /\ pc'[p] = pc[p] /\ meta'[p] = meta[p]
     /\ \A s \in Sites : task'[p][s] = "ok" => task[p][s] = "ok" \/ p \in backend'[s]
  \/ /\ pc[p] # "done" /\ pc'[p] \notin {"done", "commit"}
     /\ pc'[p] = "fanout" => \A s \in Sites : task'[p][s] # "ok"

QuietStep ==
  /\ objects' = objects
  /\ \A e \in purge' \cup batch' : \E f \in purge \cup batch : f.ver = e.ver
  /\ \A d \in Dels : \A o \in found'[d] : o \in found[d] \/ objects[o.key] = o.ver
  /\ \A s \in Sites : backend[s] \subseteq backend'[s]
  /\ \A p \in Puts : QuietPut(p)

(* A PUT that is over keeps its phase and its metadata in a quiet step.    *)
LEMMA QuietKeepsDone ==
  ASSUME QuietStep, NEW p \in Puts, pc[p] = "done"
  PROVE  pc'[p] = "done" /\ meta'[p] = meta[p]
  BY DEF QuietStep, QuietPut

(* A quiet step keeps the invariant.                                       *)
LEMMA QuietKeepsInv ==
  ASSUME CommitInv, TypeOK', QuietStep
  PROVE  CommitInv'
  <1>1. BoundIsCommitted'
    <2> SUFFICES ASSUME NEW k \in Keys, objects[k] # None
                 PROVE  pc'[objects[k]] = "done" /\ meta'[objects[k]].key = k
      BY DEF BoundIsCommitted, QuietStep
    <2>1. objects[k] \in Puts
      BY DEF CommitInv, TypeOK
    <2> QED BY <2>1, QuietKeepsDone DEF CommitInv, BoundIsCommitted
  <1>2. FoundIsCommitted'
    <2> SUFFICES ASSUME NEW d \in Dels, NEW o \in found'[d]
                 PROVE  pc'[o.ver] = "done" /\ meta'[o.ver].key = o.key
      BY DEF FoundIsCommitted
    <2>1. o.ver \in Puts /\ o.key \in Keys
      BY DEF TypeOK, Objects
    <2>2. pc[o.ver] = "done" /\ meta[o.ver].key = o.key
      BY <2>1, RequestsAssumption DEF QuietStep, CommitInv, FoundIsCommitted, BoundIsCommitted
    <2> QED BY <2>1, <2>2, QuietKeepsDone
  <1>3. RetiredForGood'
    <2> SUFFICES ASSUME NEW e \in purge' \cup batch'
                 PROVE  pc'[e.ver] = "done" /\ ~Bound(e.ver)'
      BY DEF RetiredForGood
    <2>1. e.ver \in Puts
      BY DEF TypeOK, Entries
    <2>2. pc[e.ver] = "done" /\ ~Bound(e.ver)
      BY DEF QuietStep, CommitInv, RetiredForGood
    <2> QED BY <2>1, <2>2, QuietKeepsDone DEF QuietStep, Bound
  <1>4. UploadedIsStored'
    <2> SUFFICES ASSUME NEW p \in Puts, NEW s \in Sites, pc'[p] = "fanout", task'[p][s] = "ok"
                 PROVE  p \in backend'[s]
      BY DEF UploadedIsStored
    <2> QED BY DEF QuietStep, QuietPut, CommitInv, UploadedIsStored
  <1>5. QuorumStored'
    <2> SUFFICES ASSUME NEW p \in Puts, pc'[p] = "commit" \/ Bound(p)'
                 PROVE  /\ meta'[p].confirmed \subseteq Holders(p)'
                        /\ Cardinality(meta'[p].confirmed) >= meta'[p].need
      BY DEF QuorumStored
    <2>1. Bound(p)' => Bound(p)
      BY DEF QuietStep, Bound
    <2>2. Bound(p) => pc[p] = "done"
      BY RequestsAssumption DEF CommitInv, BoundIsCommitted, Bound
    <2>3. meta'[p] = meta[p] /\ (pc[p] = "commit" \/ Bound(p))
      BY <2>1, <2>2, QuietKeepsDone DEF QuietStep, QuietPut
    <2>4. Holders(p) \subseteq Holders(p)'
      BY DEF QuietStep, Holders
    <2> QED BY <2>3, <2>4 DEF CommitInv, QuorumStored
  <1> QED BY <1>1, <1>2, <1>3, <1>4, <1>5 DEF CommitInv

(* Starting a fan-out is quiet: its version has not been committed.        *)
LEMMA StartFanoutQuiet ==
  ASSUME TypeOK, NEW p \in Puts, NEW k \in Keys \cup {None}, StartFanout(p, k),
         pc[p] \in {"new", "fetch"}, UNCHANGED <<objects, purge, found, batch>>
  PROVE  QuietStep
  <1>1. ASSUME NEW q \in Puts, q # p PROVE QuietPut(q)
    BY <1>1, RequestSets DEF TypeOK, StartFanout, QuietPut
  <1>2. pc'[p] \notin {"done", "commit"}
    BY RequestSets DEF TypeOK, StartFanout
  <1>3. ASSUME pc'[p] = "fanout", NEW s \in Sites PROVE task'[p][s] # "ok"
    <2>1. PICK S : task' = [task EXCEPT ![p] =
                              [z \in Sites |-> IF z \in S THEN "sent" ELSE "idle"]]
      BY <1>3, RequestSets DEF TypeOK, StartFanout
    <2> QED BY <2>1 DEF TypeOK
  <1>4. QuietPut(p)
    BY <1>2, <1>3 DEF QuietPut
  <1> QED BY <1>1, <1>4 DEF QuietStep, StartFanout

(* Opening an object moves no request but the reader, which is not over.   *)
LEMMA OpenObjectPc ==
  ASSUME TypeOK, NEW r \in Readers, NEW k \in Keys, OpenObject(r, k)
  PROVE  /\ pc'[r] \in {"failed", "fetch"}
         /\ \A q \in Requests \ {r} : pc'[q] = pc[q]
  BY RequestSets DEF TypeOK, OpenObject

(* The steps that are quiet.                                               *)
QuietActions ==
  \/ \E p \in Puts, k \in Keys : PutBegin(p, k)
  \/ \E p \in Puts, src \in Keys, dst \in Keys : CopyBegin(p, src, dst)
  \/ \E p \in Puts : FanoutFails(p) \/ CopyFetched(p) \/ PutStoreFails(p)
  \/ \E r \in Gets, k \in Keys : GetBegin(r, k)
  \/ \E r \in Readers, s \in Sites : SiteAnswers(r, s) \/ SiteFailsRead(r, s)
  \/ \E r \in Readers : GetOk(r) \/ FetchFails(r)
  \/ \E d \in Dels, times \in [Keys -> 0 .. MaxTimes] : DelBegin(d, times)
  \/ \E d \in Dels : DelNotify(d) \/ DelStoreFails(d) \/ \E k \in Keys : DelRead(d, k)
  \/ \E p \in Puts, s \in Sites : SiteStores(p, s) \/ UploadFails(p, s)
  \/ Wake \/ ListPurge \/ SweepOver \/ BatchOver \/ ReaperStoreFails
  \/ \E e \in batch : WriteEntry(e)
  \/ \E s \in Sites : SiteKeepsKeys(s)
  \/ \E r \in Puts \cup Gets : HangUp(r)
  \/ Crash
  \/ Finished
  \/ UNCHANGED vars

(* All of them are, so one proof of the invariant covers them.             *)
LEMMA QuietActionsAreQuiet == TypeOK /\ QuietActions => QuietStep
<1> SUFFICES ASSUME TypeOK, QuietActions PROVE QuietStep
  OBVIOUS
<1> USE DEF metaVars, siteVars, putVars, readVars, delVars, reaperVars
<1>1. ASSUME NEW p \in Puts, NEW k \in Keys, PutBegin(p, k) PROVE QuietStep
  BY <1>1, StartFanoutQuiet DEF PutBegin
<1>2. ASSUME NEW p \in Puts, NEW src \in Keys, NEW dst \in Keys, CopyBegin(p, src, dst)
      PROVE QuietStep
  <2>1. p \in Readers /\ p \in Requests
    BY <1>2, RequestSets DEF CopyBegin
  <2>2. OpenObject(p, src) /\ pc[p] = "new"
    BY <1>2 DEF CopyBegin
  <2>3. QuietPut(p)
    BY <2>1, <2>2, OpenObjectPc DEF QuietPut
  <2>4. ASSUME NEW q \in Puts, q # p PROVE QuietPut(q)
    BY <1>2, <2>1, <2>2, <2>4, OpenObjectPc, RequestSets DEF TypeOK, CopyBegin, QuietPut
  <2> QED BY <1>2, <2>3, <2>4 DEF QuietStep, CopyBegin
<1>3. ASSUME NEW p \in Puts, FanoutFails(p) PROVE QuietStep
  BY <1>3, RequestSets DEF TypeOK, FanoutFails, QuietStep, QuietPut
<1>4. ASSUME NEW p \in Puts, CopyFetched(p) PROVE QuietStep
  <2>1. meta[p].key \in Keys \cup {None}
    BY DEF TypeOK, Metas
  <2> QED BY <1>4, <2>1, StartFanoutQuiet DEF CopyFetched
<1>5. ASSUME NEW p \in Puts, PutStoreFails(p) PROVE QuietStep
  BY <1>5, RequestSets DEF TypeOK, PutStoreFails, QuietStep, QuietPut
<1>6. ASSUME NEW r \in Gets, NEW k \in Keys, GetBegin(r, k) PROVE QuietStep
  <2>1. OpenObject(r, k) /\ r \in Readers
    BY <1>6, RequestSets DEF GetBegin
  <2>2. ASSUME NEW q \in Puts PROVE pc'[q] = pc[q]
    BY <2>1, OpenObjectPc, RequestSets, RequestsAssumption
  <2> QED BY <1>6, <2>2 DEF GetBegin, QuietStep, QuietPut
<1>7. ASSUME NEW r \in Readers, NEW s \in Sites, SiteAnswers(r, s) \/ SiteFailsRead(r, s)
      PROVE QuietStep
  BY <1>7 DEF SiteAnswers, SiteFailsRead, QuietStep, QuietPut
<1>8. ASSUME NEW r \in Readers, GetOk(r) PROVE QuietStep
  <2>1. ASSUME NEW q \in Puts PROVE pc'[q] = pc[q]
    BY <1>8, RequestSets, RequestsAssumption DEF TypeOK, GetOk
  <2> QED BY <1>8, <2>1 DEF GetOk, QuietStep, QuietPut
<1>9. ASSUME NEW r \in Readers, FetchFails(r) PROVE QuietStep
  BY <1>9, RequestSets DEF TypeOK, FetchFails, QuietStep, QuietPut
<1>10. ASSUME NEW d \in Dels, NEW times \in [Keys -> 0 .. MaxTimes], DelBegin(d, times)
       PROVE  QuietStep
  <2>1. ASSUME NEW q \in Puts PROVE pc'[q] = pc[q]
    BY <1>10, RequestSets, RequestsAssumption DEF TypeOK, DelBegin
  <2> QED BY <1>10, <2>1 DEF DelBegin, QuietStep, QuietPut
<1>11. ASSUME NEW d \in Dels, DelNotify(d) \/ DelStoreFails(d) PROVE QuietStep
  <2>1. ASSUME NEW q \in Puts PROVE pc'[q] = pc[q]
    BY <1>11, RequestSets, RequestsAssumption DEF TypeOK, DelNotify, DelStoreFails
  <2> QED BY <1>11, <2>1 DEF DelNotify, DelStoreFails, QuietStep, QuietPut
<1>12. ASSUME NEW d \in Dels, NEW k \in Keys, DelRead(d, k) PROVE QuietStep
  <2>1. ASSUME NEW c \in Dels, NEW o \in found'[c]
        PROVE  o \in found[c] \/ objects[o.key] = o.ver
    BY <1>12, <2>1 DEF TypeOK, DelRead, ObjectAt
  <2> QED BY <1>12, <2>1 DEF DelRead, QuietStep, QuietPut
<1>13. ASSUME NEW p \in Puts, NEW s \in Sites, SiteStores(p, s) PROVE QuietStep
  <2>1. \A t \in Sites : backend[t] \subseteq backend'[t]
    BY <1>13 DEF TypeOK, SiteStores
  <2>2. p \in backend'[s]
    BY <1>13 DEF TypeOK, SiteStores
  <2>3. ASSUME NEW q \in Puts PROVE QuietPut(q)
    BY <1>13, <2>2 DEF TypeOK, SiteStores, QuietPut
  <2> QED BY <1>13, <2>1, <2>3 DEF SiteStores, QuietStep
<1>14. ASSUME NEW p \in Puts, NEW s \in Sites, UploadFails(p, s) PROVE QuietStep
  <2>1. \A t \in Sites : backend[t] \subseteq backend'[t]
    BY <1>14 DEF TypeOK, UploadFails
  <2>2. ASSUME NEW q \in Puts PROVE QuietPut(q)
    BY <1>14 DEF TypeOK, UploadFails, QuietPut
  <2> QED BY <1>14, <2>1, <2>2 DEF UploadFails, QuietStep
<1>15. CASE Wake \/ ListPurge \/ SweepOver \/ BatchOver \/ ReaperStoreFails
  BY <1>15 DEF Wake, ListPurge, SweepOver, BatchOver, ReaperStoreFails, QuietStep, QuietPut
<1>16. ASSUME NEW e \in batch, WriteEntry(e) PROVE QuietStep
  <2>1. Swept(e).ver = e.ver
    BY DEF Swept
  <2>2. ASSUME NEW f \in purge' \cup batch' PROVE \E g \in purge \cup batch : g.ver = f.ver
    BY <1>16, <2>1, <2>2 DEF WriteEntry
  <2> QED BY <1>16, <2>2 DEF WriteEntry, QuietStep, QuietPut
<1>17. ASSUME NEW s \in Sites, SiteKeepsKeys(s) PROVE QuietStep
  BY <1>17 DEF SiteKeepsKeys, QuietStep, QuietPut
<1>18. ASSUME NEW r \in Puts \cup Gets, HangUp(r) PROVE QuietStep
  BY <1>18, RequestSets DEF TypeOK, HangUp, QuietStep, QuietPut
<1>19. CASE Crash
  BY <1>19, RequestSets DEF TypeOK, Crash, QuietStep, QuietPut
<1>20. CASE Finished \/ UNCHANGED vars
  BY <1>20 DEF Finished, vars, QuietStep, QuietPut
<1> QED
  BY <1>1, <1>2, <1>3, <1>4, <1>5, <1>6, <1>7, <1>8, <1>9, <1>10, <1>11, <1>12, <1>13,
     <1>14, <1>15, <1>16, <1>17, <1>18, <1>19, <1>20 DEF QuietActions

(* A write that has its quorum: what it counted is stored.                 *)
LEMMA FanoutOkKeepsInv ==
  ASSUME CommitInv, TypeOK', NEW p \in Puts, FanoutOk(p)
  PROVE  CommitInv'
<1> USE DEF metaVars, siteVars, delVars, reaperVars
<1>1. pc[p] = "fanout" /\ pc'[p] = "commit"
  BY RequestSets DEF CommitInv, TypeOK, FanoutOk
<1>2. ASSUME NEW q \in Puts, q # p PROVE pc'[q] = pc[q] /\ meta'[q] = meta[q]
  BY <1>2, RequestSets DEF CommitInv, TypeOK, FanoutOk
<1>3. UNCHANGED <<objects, purge, backend, task, found, batch>>
  BY DEF FanoutOk
<1>4. BoundIsCommitted'
  BY <1>1, <1>2, <1>3 DEF CommitInv, BoundIsCommitted, TypeOK
<1>5. FoundIsCommitted'
  BY <1>1, <1>2, <1>3 DEF CommitInv, FoundIsCommitted, TypeOK, Objects
<1>6. RetiredForGood'
  BY <1>1, <1>2, <1>3 DEF CommitInv, RetiredForGood, TypeOK, Entries, Bound
<1>7. UploadedIsStored'
  BY <1>1, <1>2, <1>3 DEF CommitInv, UploadedIsStored
<1>8. QuorumStored'
  <2>1. ASSUME NEW q \in Puts, q # p, pc'[q] = "commit" \/ Bound(q)'
        PROVE  /\ meta'[q].confirmed \subseteq Holders(q)'
               /\ Cardinality(meta'[q].confirmed) >= meta'[q].need
    BY <1>2, <1>3, <2>1 DEF CommitInv, QuorumStored, Bound, Holders
  <2>2. meta'[p] = [meta[p] EXCEPT !.confirmed = Uploaded(p)] /\ meta[p] \in Metas
    BY DEF CommitInv, TypeOK, FanoutOk
  <2>3. meta'[p].confirmed = Uploaded(p) /\ meta'[p].need = meta[p].need
    BY <2>2 DEF Metas
  <2>4. Uploaded(p) \subseteq Holders(p)'
    <3>1. meta[p].placed \subseteq Sites
      BY <2>2 DEF Metas
    <3> QED BY <1>1, <1>3, <3>1 DEF CommitInv, UploadedIsStored, Uploaded, Holders
  <2>5. Cardinality(Uploaded(p)) >= meta[p].need
    BY DEF FanoutOk
  <2> QED BY <2>1, <2>3, <2>4, <2>5 DEF QuorumStored
<1> QED BY <1>4, <1>5, <1>6, <1>7, <1>8 DEF CommitInv

(* A write that binds its key: it had not been bound, found or queued.     *)
LEMMA CommitMetaKeepsInv ==
  ASSUME CommitInv, TypeOK', NEW p \in Puts, CommitMeta(p)
  PROVE  CommitInv'
<1> USE DEF siteVars, putVars, delVars, reaperVars
<1>1. pc[p] = "commit" /\ pc'[p] = "done"
  BY RequestSets DEF CommitInv, TypeOK, CommitMeta
<1>2. ASSUME NEW q \in Puts, q # p PROVE pc'[q] = pc[q]
  BY <1>2, RequestSets DEF CommitInv, TypeOK, CommitMeta
<1>3. UNCHANGED <<meta, purge, backend, task, found, batch>>
  BY DEF CommitMeta
<1>4. ASSUME NEW k \in Keys
      PROVE  objects'[k] = objects[k] \/ (k = meta[p].key /\ objects'[k] = p)
  BY DEF CommitInv, TypeOK, CommitMeta
<1>5. ASSUME NEW q \in Puts, q # p, Bound(q)' PROVE Bound(q)
  BY <1>4, <1>5 DEF Bound
<1>6. BoundIsCommitted'
  <2> SUFFICES ASSUME NEW k \in Keys, objects'[k] # None
               PROVE  pc'[objects'[k]] = "done" /\ meta[objects'[k]].key = k
    BY <1>3 DEF BoundIsCommitted
  <2>1. CASE objects'[k] = p /\ k = meta[p].key
    BY <1>1, <2>1
  <2>2. CASE objects'[k] = objects[k]
    <3>1. /\ objects[k] \in Puts /\ pc[objects[k]] = "done"
          /\ meta[objects[k]].key = k
      BY <2>2 DEF CommitInv, BoundIsCommitted, TypeOK
    <3> QED BY <1>1, <1>2, <2>2, <3>1
  <2> QED BY <1>4, <2>1, <2>2
<1>7. FoundIsCommitted'
  BY <1>1, <1>2, <1>3 DEF CommitInv, FoundIsCommitted, TypeOK, Objects
<1>8. RetiredForGood'
  <2> SUFFICES ASSUME NEW e \in purge \cup batch
               PROVE  pc'[e.ver] = "done" /\ ~Bound(e.ver)'
    BY <1>3 DEF RetiredForGood
  <2>1. e.ver \in Puts /\ pc[e.ver] = "done" /\ ~Bound(e.ver)
    BY DEF CommitInv, RetiredForGood, TypeOK, Entries
  <2> QED BY <1>1, <1>2, <1>5, <2>1
<1>9. UploadedIsStored'
  BY <1>1, <1>2, <1>3 DEF CommitInv, UploadedIsStored
<1>10. QuorumStored'
  <2> SUFFICES ASSUME NEW q \in Puts, pc'[q] = "commit" \/ Bound(q)'
               PROVE  /\ meta[q].confirmed \subseteq Holders(q)
                      /\ Cardinality(meta[q].confirmed) >= meta[q].need
    BY <1>3 DEF QuorumStored, Holders
  <2> QED BY <1>1, <1>2, <1>5 DEF CommitInv, QuorumStored
<1> QED BY <1>6, <1>7, <1>8, <1>9, <1>10 DEF CommitInv

(* A delete that writes its batch: what it queues was committed under a    *)
(* key it found, and that key is unbound in the same write.                *)
LEMMA DelWriteKeepsInv ==
  ASSUME CommitInv, TypeOK', NEW d \in Dels, DelWrite(d)
  PROVE  CommitInv'
<1> USE DEF siteVars, putVars, delVars, reaperVars
<1>1. ASSUME NEW q \in Puts PROVE pc'[q] = pc[q]
  BY RequestSets, RequestsAssumption DEF CommitInv, TypeOK, DelWrite
<1>2. UNCHANGED <<meta, backend, task, found, batch>>
  BY DEF DelWrite
<1>3. ASSUME NEW k \in Keys
      PROVE  objects'[k] = IF k \in FoundKeys(d) THEN None ELSE objects[k]
  BY DEF DelWrite
<1>4. ASSUME NEW q \in Puts, Bound(q)' PROVE Bound(q)
  BY <1>3, <1>4, RequestsAssumption DEF Bound
<1>5. BoundIsCommitted'
  BY <1>1, <1>2, <1>3 DEF CommitInv, BoundIsCommitted, TypeOK
<1>6. FoundIsCommitted'
  BY <1>1, <1>2 DEF CommitInv, FoundIsCommitted, TypeOK, Objects
<1>7. RetiredForGood'
  <2> SUFFICES ASSUME NEW e \in purge' \cup batch'
               PROVE  pc'[e.ver] = "done" /\ ~Bound(e.ver)'
    BY DEF RetiredForGood
  <2>1. CASE e \in purge \cup batch
    <3>1. e.ver \in Puts /\ pc[e.ver] = "done" /\ ~Bound(e.ver)
      BY <2>1 DEF CommitInv, RetiredForGood, TypeOK, Entries
    <3> QED BY <1>1, <1>4, <3>1
  <2>2. CASE \E o \in found[d] : e = EntryFor(d, o)
    <3>1. PICK o \in found[d] : e.ver = o.ver
      BY <2>2 DEF EntryFor
    <3>2. o.ver \in Puts /\ o.key \in Keys /\ pc[o.ver] = "done" /\ meta[o.ver].key = o.key
      BY DEF CommitInv, FoundIsCommitted, TypeOK, Objects
    <3>3. objects'[o.key] = None
      BY <1>3, <3>2 DEF FoundKeys
    <3>4. ASSUME NEW k \in Keys, objects'[k] = o.ver PROVE FALSE
      <4>1. objects[k] = o.ver
        BY <1>3, <3>2, <3>4, RequestsAssumption
      <4>2. k = o.key
        BY <3>2, <4>1, RequestsAssumption DEF CommitInv, BoundIsCommitted
      <4> QED BY <3>2, <3>3, <3>4, <4>2, RequestsAssumption
    <3> QED BY <1>1, <3>1, <3>2, <3>4 DEF Bound
  <2> QED BY <2>1, <2>2 DEF DelWrite
<1>8. UploadedIsStored'
  BY <1>1, <1>2 DEF CommitInv, UploadedIsStored
<1>9. QuorumStored'
  BY <1>1, <1>2, <1>4 DEF CommitInv, QuorumStored, Holders
<1> QED BY <1>5, <1>6, <1>7, <1>8, <1>9 DEF CommitInv

(* A sweep removes chunks of queued versions only.                         *)
LEMMA SweepKeepsInv ==
  ASSUME CommitInv, TypeOK', NEW s \in Sites, SiteSweeps(s) \/ SweepFails(s)
  PROVE  CommitInv'
<1> USE DEF metaVars, putVars, readVars, delVars
<1>1. UNCHANGED <<objects, purge, pc, task, meta, found, batch>>
  BY DEF SiteSweeps, SweepFails
<1>2. ASSUME NEW q \in Puts, pc[q] # "done" \/ Bound(q), NEW z \in Sites, q \in backend[z]
      PROVE  q \in backend'[z]
  <2>1. q \notin SweepKeys(s)
    BY <1>2 DEF CommitInv, RetiredForGood, SweepKeys
  <2>2. backend' = backend \/ backend' = [backend EXCEPT ![s] = @ \ SweepKeys(s)]
    BY DEF SiteSweeps, SweepFails
  <2>3. backend \in [Sites -> SUBSET Puts]
    BY DEF CommitInv, TypeOK
  <2> QED BY <1>2, <2>1, <2>2, <2>3
<1>3. BoundIsCommitted' /\ FoundIsCommitted' /\ RetiredForGood'
  BY <1>1 DEF CommitInv, BoundIsCommitted, FoundIsCommitted, RetiredForGood, Bound
<1>4. UploadedIsStored'
  BY <1>1, <1>2 DEF CommitInv, UploadedIsStored
<1>5. QuorumStored'
  <2> SUFFICES ASSUME NEW q \in Puts, pc[q] = "commit" \/ Bound(q)
               PROVE  /\ meta[q].confirmed \subseteq Holders(q)'
                      /\ Cardinality(meta[q].confirmed) >= meta[q].need
    BY <1>1 DEF QuorumStored, Bound
  <2>1. Holders(q) \subseteq Holders(q)'
    BY <1>2 DEF Holders
  <2> QED BY <2>1 DEF CommitInv, QuorumStored
<1> QED BY <1>3, <1>4, <1>5 DEF CommitInv

(* Every step keeps the invariant.                                         *)
LEMMA CommitStep == CommitInv /\ [Next]_vars => CommitInv'
<1> SUFFICES ASSUME CommitInv, [Next]_vars PROVE CommitInv'
  OBVIOUS
<1>1. TypeOK /\ TypeOK'
  BY TypeStep DEF CommitInv
<1>2. CASE QuietActions
  BY <1>1, <1>2, QuietActionsAreQuiet, QuietKeepsInv
<1>3. ASSUME NEW p \in Puts, FanoutOk(p) PROVE CommitInv'
  BY <1>1, <1>3, FanoutOkKeepsInv
<1>4. ASSUME NEW p \in Puts, CommitMeta(p) PROVE CommitInv'
  BY <1>1, <1>4, CommitMetaKeepsInv
<1>5. ASSUME NEW d \in Dels, DelWrite(d) PROVE CommitInv'
  BY <1>1, <1>5, DelWriteKeepsInv
<1>6. ASSUME NEW s \in Sites, SiteSweeps(s) \/ SweepFails(s) PROVE CommitInv'
  BY <1>1, <1>6, SweepKeepsInv
<1> QED
  BY <1>2, <1>3, <1>4, <1>5, <1>6 DEF Next, PutStep, DelStep, ReaperStep, QuietActions

(* The invariant holds initially, when nothing is bound or queued.         *)
LEMMA CommitInit == Init => CommitInv
<1> SUFFICES ASSUME Init PROVE CommitInv
  OBVIOUS
<1>1. TypeOK
  BY TypeInit
<1>2. BoundIsCommitted /\ FoundIsCommitted /\ RetiredForGood
  BY DEF Init, BoundIsCommitted, FoundIsCommitted, RetiredForGood
<1>3. UploadedIsStored
  BY DEF Init, UploadedIsStored
<1>4. \A p \in Puts : pc[p] = "new" /\ ~Bound(p)
  BY RequestSets, RequestsAssumption DEF Init, Bound
<1> QED BY <1>1, <1>2, <1>3, <1>4 DEF CommitInv, QuorumStored

(* What keys are bound to was committed with a quorum that is stored, and  *)
(* what the queue holds has lost its key for good.                         *)
THEOREM CommitCorrect == Spec => []CommitInv
<1>1. Init => CommitInv
  BY CommitInit
<1>2. CommitInv /\ [Next]_vars => CommitInv'
  BY CommitStep
<1> QED BY <1>1, <1>2, PTL DEF Spec

(* An acknowledged object keeps its quorum for as long as it is bound.     *)
THEOREM DurableCorrect == Spec => []Durable
<1>1. CommitInv => Durable
  BY DEF CommitInv, TypeOK, QuorumStored, Durable, Bound
<1> QED BY <1>1, CommitCorrect, PTL

(* The reaper works on nothing a key is bound to.                          *)
THEOREM NeverPurgesLiveCorrect == Spec => []NeverPurgesLive
<1>1. CommitInv => NeverPurgesLive
  BY DEF CommitInv, RetiredForGood, NeverPurgesLive, SweepKeys
<1> QED BY <1>1, CommitCorrect, PTL

-----------------------------------------------------------------------------
(* What is left of a version on the sites: what was deleted is queued      *)
(* until it is gone, and what stays for good is excused.                   *)

(* A version that was bound stays as it is, and is not bound again.        *)
LEMMA DoneIsFinal ==
  ASSUME CommitInv, [Next]_vars, NEW v \in Puts, pc[v] = "done"
  PROVE  /\ pc'[v] = "done" /\ meta'[v] = meta[v]
         /\ Bound(v)' => Bound(v)
<1>1. TypeOK
  BY DEF CommitInv
<1>2. CASE QuietActions
  BY <1>1, <1>2, QuietActionsAreQuiet, QuietKeepsDone DEF QuietStep, Bound
<1>3. ASSUME NEW p \in Puts, FanoutOk(p)
      PROVE  /\ pc'[v] = "done" /\ meta'[v] = meta[v] /\ (Bound(v)' => Bound(v))
  <2>1. p # v
    BY <1>3 DEF FanoutOk
  <2> QED BY <1>1, <1>3, <2>1, RequestSets DEF TypeOK, FanoutOk, metaVars, Bound
<1>4. ASSUME NEW p \in Puts, CommitMeta(p)
      PROVE  /\ pc'[v] = "done" /\ meta'[v] = meta[v] /\ (Bound(v)' => Bound(v))
  <2>1. p # v
    BY <1>4 DEF CommitMeta
  <2>2. Bound(v)' => Bound(v)
    BY <1>1, <1>4, <2>1 DEF TypeOK, CommitMeta, Bound
  <2> QED BY <1>1, <1>4, <2>2, RequestSets DEF TypeOK, CommitMeta, putVars
<1>5. ASSUME NEW d \in Dels, DelWrite(d)
      PROVE  /\ pc'[v] = "done" /\ meta'[v] = meta[v] /\ (Bound(v)' => Bound(v))
  <2>1. Bound(v)' => Bound(v)
    BY <1>5, RequestsAssumption DEF DelWrite, Bound
  <2> QED
    BY <1>1, <1>5, <2>1, RequestSets, RequestsAssumption DEF TypeOK, DelWrite, putVars
<1>6. ASSUME NEW s \in Sites, SiteSweeps(s) \/ SweepFails(s)
      PROVE  /\ pc'[v] = "done" /\ meta'[v] = meta[v] /\ (Bound(v)' => Bound(v))
  BY <1>6 DEF SiteSweeps, SweepFails, metaVars, putVars, Bound
<1> QED
  BY <1>2, <1>3, <1>4, <1>5, <1>6 DEF Next, PutStep, DelStep, ReaperStep, QuietActions

-----------------------------------------------------------------------------
(* Most steps are idle: they store, remove, bind and queue nothing.  An    *)
(* upload or a handler may end, and the reaper may begin or end a batch.   *)

KeepsSwept ==
  \/ faults'["key"] > 0
  \/ \A s \in Sites : sweep'[s] # "ok"
  \/ batch' = batch /\ sweep' = sweep

EndsPut(p) == pc'[p] = pc[p] \/ (pc[p] # "done" /\ pc'[p] \in {"failed", "lost"})

IdleStep ==
  /\ UNCHANGED <<objects, purge, meta, backend, fate>>
  /\ \A p \in Puts, s \in Sites : task'[p][s] = task[p][s] \/ task[p][s] = "sent"
  /\ \A p \in Puts : EndsPut(p)
  /\ faults["key"] > 0 => faults'["key"] > 0
  /\ KeepsSwept

(* A counted fault leaves a count that was positive positive.              *)
LEMMA FaultsStay ==
  ASSUME TypeOK, NEW f \in FaultKinds, Fault(f), faults["key"] > 0
  PROVE  faults'["key"] > 0
  BY DEF TypeOK, Fault, FaultKinds

(* An idle step keeps the invariant.                                       *)
LEMMA IdleKeepsQueue ==
  ASSUME QueueInv, CommitInv', IdleStep
  PROVE  QueueInv'
<1>1. ConfirmedIsPlaced'
  BY DEF QueueInv, ConfirmedIsPlaced, IdleStep
<1>2. FreshStoresNothing' /\ WritesHaveKeys'
  BY DEF QueueInv, FreshStoresNothing, WritesHaveKeys, IdleStep, EndsPut
<1>3. ConfirmedIsUploaded'
  <2> SUFFICES ASSUME NEW p \in Puts, NEW s \in meta[p].confirmed
               PROVE  task'[p][s] = "ok"
    BY DEF ConfirmedIsUploaded, IdleStep
  <2>1. s \in Sites
    BY DEF QueueInv, CommitInv, TypeOK, Metas
  <2> QED BY <2>1 DEF QueueInv, ConfirmedIsUploaded, IdleStep
<1>4. OnlyBoundHaveFates'
  BY DEF QueueInv, OnlyBoundHaveFates, IdleStep, EndsPut, Bound
<1>5. SweptIsGone'
  <2>1. ASSUME NEW e \in batch' PROVE e.left \subseteq Sites
    BY DEF CommitInv, TypeOK, Entries
  <2> QED BY <2>1 DEF QueueInv, SweptIsGone, IdleStep, KeepsSwept
<1>6. QueueCoversDeleted'
  BY DEF QueueInv, QueueCoversDeleted, IdleStep, Queued
<1> QED BY <1>1, <1>2, <1>3, <1>4, <1>5, <1>6 DEF QueueInv

IdleActions ==
  \/ \E p \in Puts : FanoutFails(p) \/ PutStoreFails(p)
  \/ \E r \in Gets, k \in Keys : GetBegin(r, k)
  \/ \E r \in Readers, s \in Sites : SiteAnswers(r, s) \/ SiteFailsRead(r, s)
  \/ \E r \in Readers : GetOk(r) \/ FetchFails(r)
  \/ \E d \in Dels, times \in [Keys -> 0 .. MaxTimes] : DelBegin(d, times)
  \/ \E d \in Dels : DelNotify(d) \/ DelStoreFails(d) \/ \E k \in Keys : DelRead(d, k)
  \/ Wake \/ ListPurge \/ SweepOver \/ BatchOver \/ ReaperStoreFails
  \/ \E s \in Sites : SiteKeepsKeys(s)
  \/ \E r \in Puts \cup Gets : HangUp(r)
  \/ Crash
  \/ Finished
  \/ UNCHANGED vars

(* All of these are idle steps.                                            *)
LEMMA IdleActionsAreIdle == TypeOK /\ IdleActions => IdleStep
<1> SUFFICES ASSUME TypeOK, IdleActions PROVE IdleStep
  OBVIOUS
<1> USE DEF metaVars, siteVars, putVars, readVars, delVars, reaperVars
<1>1. ASSUME NEW p \in Puts, FanoutFails(p) PROVE IdleStep
  BY <1>1, RequestSets DEF TypeOK, FanoutFails, IdleStep, EndsPut, KeepsSwept
<1>2. ASSUME NEW p \in Puts, PutStoreFails(p) PROVE IdleStep
  <2>1. faults["key"] > 0 => faults'["key"] > 0
    BY <1>2, FaultsStay DEF PutStoreFails, FaultKinds
  <2> QED
    BY <1>2, <2>1, RequestSets DEF TypeOK, PutStoreFails, IdleStep, EndsPut, KeepsSwept
<1>3. ASSUME NEW r \in Gets, NEW k \in Keys, GetBegin(r, k) PROVE IdleStep
  <2>1. OpenObject(r, k) /\ r \in Readers
    BY <1>3, RequestSets DEF GetBegin
  <2>2. ASSUME NEW q \in Puts PROVE pc'[q] = pc[q]
    BY <2>1, OpenObjectPc, RequestSets, RequestsAssumption
  <2> QED BY <1>3, <2>2 DEF GetBegin, IdleStep, EndsPut, KeepsSwept
<1>4. ASSUME NEW r \in Readers, NEW s \in Sites, SiteAnswers(r, s) PROVE IdleStep
  BY <1>4 DEF SiteAnswers, IdleStep, EndsPut, KeepsSwept
<1>5. ASSUME NEW r \in Readers, NEW s \in Sites, SiteFailsRead(r, s) PROVE IdleStep
  <2>1. faults["key"] > 0 => faults'["key"] > 0
    BY <1>5, FaultsStay DEF SiteFailsRead, FaultKinds
  <2> QED BY <1>5, <2>1 DEF SiteFailsRead, IdleStep, EndsPut, KeepsSwept
<1>6. ASSUME NEW r \in Readers, GetOk(r) PROVE IdleStep
  <2>1. ASSUME NEW q \in Puts PROVE pc'[q] = pc[q]
    BY <1>6, RequestSets, RequestsAssumption DEF TypeOK, GetOk
  <2> QED BY <1>6, <2>1 DEF GetOk, IdleStep, EndsPut, KeepsSwept
<1>7. ASSUME NEW r \in Readers, FetchFails(r) PROVE IdleStep
  BY <1>7, RequestSets DEF TypeOK, FetchFails, IdleStep, EndsPut, KeepsSwept
<1>8. ASSUME NEW d \in Dels, NEW times \in [Keys -> 0 .. MaxTimes], DelBegin(d, times)
      PROVE  IdleStep
  <2>1. ASSUME NEW q \in Puts PROVE pc'[q] = pc[q]
    BY <1>8, RequestSets, RequestsAssumption DEF TypeOK, DelBegin
  <2> QED BY <1>8, <2>1 DEF DelBegin, IdleStep, EndsPut, KeepsSwept
<1>9. ASSUME NEW d \in Dels, DelNotify(d) PROVE IdleStep
  <2>1. ASSUME NEW q \in Puts PROVE pc'[q] = pc[q]
    BY <1>9, RequestSets, RequestsAssumption DEF TypeOK, DelNotify
  <2> QED BY <1>9, <2>1 DEF DelNotify, IdleStep, EndsPut, KeepsSwept
<1>10. ASSUME NEW d \in Dels, DelStoreFails(d) PROVE IdleStep
  <2>1. ASSUME NEW q \in Puts PROVE pc'[q] = pc[q]
    BY <1>10, RequestSets, RequestsAssumption DEF TypeOK, DelStoreFails
  <2>2. faults["key"] > 0 => faults'["key"] > 0
    BY <1>10, FaultsStay DEF DelStoreFails, FaultKinds
  <2> QED BY <1>10, <2>1, <2>2 DEF DelStoreFails, IdleStep, EndsPut, KeepsSwept
<1>11. ASSUME NEW d \in Dels, NEW k \in Keys, DelRead(d, k) PROVE IdleStep
  BY <1>11 DEF DelRead, IdleStep, EndsPut, KeepsSwept
<1>12. CASE Wake \/ SweepOver
  BY <1>12 DEF Wake, SweepOver, IdleStep, EndsPut, KeepsSwept
<1>13. CASE ListPurge \/ BatchOver
  BY <1>13 DEF ListPurge, BatchOver, IdleStep, EndsPut, KeepsSwept
<1>14. CASE ReaperStoreFails
  <2>1. faults["key"] > 0 => faults'["key"] > 0
    BY <1>14, FaultsStay DEF ReaperStoreFails, FaultKinds
  <2> QED BY <1>14, <2>1 DEF ReaperStoreFails, IdleStep, EndsPut, KeepsSwept
<1>15. ASSUME NEW s \in Sites, SiteKeepsKeys(s) PROVE IdleStep
  <2>1. faults'["key"] > 0
    BY <1>15 DEF TypeOK, SiteKeepsKeys, Fault, FaultKinds
  <2> QED BY <1>15, <2>1 DEF SiteKeepsKeys, IdleStep, EndsPut, KeepsSwept
<1>16. ASSUME NEW r \in Puts \cup Gets, HangUp(r) PROVE IdleStep
  BY <1>16, RequestSets DEF TypeOK, HangUp, IdleStep, EndsPut, KeepsSwept
<1>17. CASE Crash
  <2>1. faults["key"] > 0 => faults'["key"] > 0
    BY <1>17, FaultsStay DEF Crash, FaultKinds
  <2>2. ASSUME NEW p \in Puts, NEW s \in Sites
        PROVE  task'[p][s] = task[p][s] \/ task[p][s] = "sent"
    BY <1>17 DEF Crash, Unfinished
  <2>3. ASSUME NEW p \in Puts PROVE EndsPut(p)
    BY <1>17, RequestSets DEF Crash, EndsPut
  <2>4. \A s \in Sites : sweep'[s] # "ok"
    BY <1>17 DEF Crash
  <2> QED BY <1>17, <2>1, <2>2, <2>3, <2>4 DEF Crash, IdleStep, KeepsSwept
<1>18. CASE Finished \/ UNCHANGED vars
  BY <1>18 DEF Finished, vars, IdleStep, EndsPut, KeepsSwept
<1> QED
  BY <1>1, <1>2, <1>3, <1>4, <1>5, <1>6, <1>7, <1>8, <1>9, <1>10, <1>11, <1>12, <1>13,
     <1>14, <1>15, <1>16, <1>17, <1>18 DEF IdleActions

-----------------------------------------------------------------------------
(* The steps that are not idle *)

(* A write that starts its uploads has stored nothing before.              *)
LEMMA StartFanoutKeepsQueue ==
  ASSUME QueueInv, CommitInv', NEW p \in Puts, NEW k \in Keys,
         StartFanout(p, k), pc[p] \in {"new", "fetch"},
         UNCHANGED <<objects, purge, batch, sweep, faults, fate>>
  PROVE  QueueInv'
<1>0. TypeOK
  BY DEF QueueInv, CommitInv
<1>1. /\ pc'[p] \in {"fanout", "failed"} /\ meta'[p].confirmed = {} /\ backend' = backend
      /\ fate[p] = "none" /\ ~Bound(p)
  <2>1. meta'[p].confirmed = {}
    BY <1>0 DEF TypeOK, StartFanout, QueueInv, FreshStoresNothing
  <2>2. fate[p] = "none"
    BY DEF QueueInv, OnlyBoundHaveFates
  <2>3. ~Bound(p)
    BY RequestsAssumption DEF QueueInv, CommitInv, BoundIsCommitted, Bound
  <2> QED BY <1>0, <2>1, <2>2, <2>3, RequestSets DEF TypeOK, StartFanout
<1>2. ASSUME NEW q \in Puts, q # p
      PROVE  pc'[q] = pc[q] /\ meta'[q] = meta[q] /\ task'[q] = task[q]
  BY <1>0, <1>2, RequestSets DEF TypeOK, StartFanout
<1>3. ConfirmedIsPlaced'
  BY <1>1, <1>2 DEF QueueInv, ConfirmedIsPlaced
<1>4. FreshStoresNothing' /\ WritesHaveKeys'
  <2>1. FreshStoresNothing'
    BY <1>1, <1>2 DEF QueueInv, FreshStoresNothing
  <2>2. pc'[p] = "fanout" => meta'[p].key = k
    BY <1>0, RequestSets DEF TypeOK, StartFanout
  <2>3. WritesHaveKeys'
    BY <1>1, <1>2, <2>2 DEF QueueInv, WritesHaveKeys
  <2> QED BY <2>1, <2>3
<1>5. ConfirmedIsUploaded'
  BY <1>1, <1>2 DEF QueueInv, ConfirmedIsUploaded
<1>6. OnlyBoundHaveFates'
  BY <1>1, <1>2 DEF QueueInv, OnlyBoundHaveFates, Bound
<1>7. SweptIsGone'
  <2>1. ASSUME NEW e \in batch PROVE e.ver \in Puts
    BY <1>0 DEF TypeOK, Entries
  <2> QED BY <1>1, <1>2, <2>1 DEF QueueInv, SweptIsGone
<1>8. QueueCoversDeleted'
  BY <1>1, <1>2 DEF QueueInv, QueueCoversDeleted, Queued
<1> QED BY <1>3, <1>4, <1>5, <1>6, <1>7, <1>8 DEF QueueInv

(* A copy that starts with a fetch has nothing to store yet.               *)
LEMMA CopyBeginKeepsQueue ==
  ASSUME QueueInv, CommitInv', NEW p \in Puts, NEW src \in Keys, NEW dst \in Keys,
         CopyBegin(p, src, dst)
  PROVE  QueueInv'
<1> USE DEF metaVars, siteVars, delVars, reaperVars
<1>0. TypeOK
  BY DEF QueueInv, CommitInv
<1>1. p \in Readers /\ OpenObject(p, src) /\ pc[p] = "new"
  BY RequestSets DEF CopyBegin
<1>2. pc'[p] \in {"fetch", "failed"} /\ fate[p] = "none" /\ ~Bound(p)
  <2>1. fate[p] = "none"
    BY <1>1 DEF QueueInv, OnlyBoundHaveFates
  <2>2. ~Bound(p)
    BY <1>1, RequestsAssumption DEF QueueInv, CommitInv, BoundIsCommitted, Bound
  <2> QED BY <1>0, <1>1, <2>1, <2>2, RequestSets DEF TypeOK, OpenObject
<1>3. ASSUME NEW q \in Puts, q # p PROVE pc'[q] = pc[q]
  BY <1>0, <1>1, <1>3, RequestSets DEF TypeOK, OpenObject
<1>4. ASSUME NEW q \in Puts
      PROVE  meta'[q].confirmed = meta[q].confirmed /\ meta'[q].placed = meta[q].placed
  <2>1. meta[p] \in Metas
    BY <1>0 DEF TypeOK
  <2> QED BY <1>0, <2>1 DEF TypeOK, CopyBegin, Metas
<1>5. UNCHANGED <<objects, purge, batch, sweep, faults, fate, task, backend>>
  BY DEF CopyBegin
<1>6. ConfirmedIsPlaced'
  BY <1>4 DEF QueueInv, ConfirmedIsPlaced
<1>7. FreshStoresNothing' /\ WritesHaveKeys'
  <2>1. FreshStoresNothing'
    BY <1>1, <1>2, <1>3, <1>4, <1>5 DEF QueueInv, FreshStoresNothing
  <2>2. meta'[p].key = dst
    <3>1. meta[p] \in Metas
      BY <1>0 DEF TypeOK
    <3> QED BY <1>0, <3>1 DEF TypeOK, CopyBegin, Metas
  <2>3. ASSUME NEW q \in Puts, q # p PROVE meta'[q] = meta[q]
    BY <1>0, <2>3 DEF TypeOK, CopyBegin
  <2>4. WritesHaveKeys'
    BY <1>2, <1>3, <2>2, <2>3 DEF QueueInv, WritesHaveKeys
  <2> QED BY <2>1, <2>4
<1>8. ConfirmedIsUploaded'
  BY <1>4, <1>5 DEF QueueInv, ConfirmedIsUploaded
<1>9. OnlyBoundHaveFates'
  BY <1>2, <1>3, <1>5 DEF QueueInv, OnlyBoundHaveFates, Bound
<1>10. SweptIsGone'
  <2>1. ASSUME NEW e \in batch PROVE e.ver \in Puts
    BY <1>0 DEF TypeOK, Entries
  <2> QED BY <1>4, <1>5, <2>1 DEF QueueInv, SweptIsGone
<1>11. QueueCoversDeleted'
  BY <1>4, <1>5 DEF QueueInv, QueueCoversDeleted, Queued
<1> QED BY <1>6, <1>7, <1>8, <1>9, <1>10, <1>11 DEF QueueInv

(* A write that has its quorum counts uploads that are over.               *)
LEMMA FanoutOkKeepsQueue ==
  ASSUME QueueInv, CommitInv', NEW p \in Puts, FanoutOk(p)
  PROVE  QueueInv'
<1> USE DEF metaVars, siteVars, delVars, reaperVars
<1>0. TypeOK
  BY DEF QueueInv, CommitInv
<1>1. pc[p] = "fanout" /\ pc'[p] = "commit"
  BY <1>0, RequestSets DEF TypeOK, FanoutOk
<1>2. ASSUME NEW q \in Puts, q # p PROVE pc'[q] = pc[q] /\ meta'[q] = meta[q]
  BY <1>0, <1>2, RequestSets DEF TypeOK, FanoutOk
<1>3. /\ meta'[p].confirmed = Uploaded(p) /\ meta'[p].placed = meta[p].placed
      /\ meta'[p].key = meta[p].key
  <2>1. meta[p] \in Metas
    BY <1>0 DEF TypeOK
  <2> QED BY <1>0, <2>1 DEF TypeOK, FanoutOk, Metas
<1>4. UNCHANGED <<objects, purge, batch, sweep, faults, fate, task, backend>>
  BY DEF FanoutOk
<1>5. fate[p] = "none"
  BY <1>1 DEF QueueInv, OnlyBoundHaveFates
<1>6. ConfirmedIsPlaced'
  BY <1>2, <1>3 DEF QueueInv, ConfirmedIsPlaced, Uploaded
<1>7. FreshStoresNothing' /\ WritesHaveKeys'
  BY <1>1, <1>2, <1>3, <1>4 DEF QueueInv, FreshStoresNothing, WritesHaveKeys
<1>8. ConfirmedIsUploaded'
  BY <1>2, <1>3, <1>4 DEF QueueInv, ConfirmedIsUploaded, Uploaded
<1>9. OnlyBoundHaveFates'
  BY <1>1, <1>2, <1>4, <1>5 DEF QueueInv, OnlyBoundHaveFates, Bound
<1>10. SweptIsGone'
  <2>1. ASSUME NEW e \in batch PROVE e.ver \in Puts /\ e.ver # p
    BY <1>0, <1>1 DEF TypeOK, Entries, QueueInv, CommitInv, RetiredForGood
  <2> QED BY <1>2, <1>4, <2>1 DEF QueueInv, SweptIsGone
<1>11. QueueCoversDeleted'
  BY <1>2, <1>4, <1>5 DEF QueueInv, QueueCoversDeleted, Queued
<1> QED BY <1>6, <1>7, <1>8, <1>9, <1>10, <1>11 DEF QueueInv

(* A chunk that is stored late is not one that was recorded as Confirmed:  *)
(* the upload of that one is over.                                         *)
LEMMA UploadKeepsQueue ==
  ASSUME QueueInv, CommitInv', NEW p \in Puts, NEW s \in Sites,
         SiteStores(p, s) \/ UploadFails(p, s)
  PROVE  QueueInv'
<1> USE DEF metaVars, putVars, readVars, delVars, reaperVars
<1>0. TypeOK
  BY DEF QueueInv, CommitInv
<1>1. UNCHANGED <<objects, purge, batch, sweep, fate, pc, meta>>
  BY DEF SiteStores, UploadFails
<1>2. task[p][s] = "sent"
  BY DEF SiteStores, UploadFails
<1>3. faults["key"] > 0 => faults'["key"] > 0
  BY <1>0, FaultsStay DEF SiteStores, UploadFails, FaultKinds
<1>4. ASSUME NEW q \in Puts, NEW t \in Sites, q # p \/ t # s
      PROVE  task'[q][t] = task[q][t] /\ (q \in backend'[t] <=> q \in backend[t])
  <2>1. \E x \in {"ok", "err"} : task' = [task EXCEPT ![p][s] = x]
    BY DEF SiteStores, UploadFails
  <2>2. task'[q][t] = task[q][t]
    BY <1>0, <1>4, <2>1 DEF TypeOK
  <2>3. backend' = backend \/ backend' = [backend EXCEPT ![s] = @ \cup {p}]
    BY DEF SiteStores, UploadFails
  <2>4. q \in backend'[t] <=> q \in backend[t]
    BY <1>0, <1>4, <2>3 DEF TypeOK
  <2> QED BY <2>2, <2>4
<1>5. s \notin meta[p].confirmed /\ pc[p] \notin {"new", "fetch"}
  BY <1>2 DEF QueueInv, ConfirmedIsUploaded, FreshStoresNothing
<1>6. ASSUME NEW q \in Puts PROVE meta[q].confirmed \subseteq Sites
  BY <1>0 DEF TypeOK, Metas
<1>7. ConfirmedIsPlaced'
  BY <1>1 DEF QueueInv, ConfirmedIsPlaced
<1>8. FreshStoresNothing' /\ WritesHaveKeys'
  BY <1>1, <1>4, <1>5 DEF QueueInv, FreshStoresNothing, WritesHaveKeys
<1>9. ConfirmedIsUploaded'
  BY <1>1, <1>4, <1>5, <1>6 DEF QueueInv, ConfirmedIsUploaded
<1>10. OnlyBoundHaveFates'
  BY <1>1 DEF QueueInv, OnlyBoundHaveFates, Bound
<1>11. SweptIsGone'
  <2> SUFFICES ASSUME NEW e \in batch, NEW t \in e.left, sweep[t] = "ok",
                      t \in meta[e.ver].confirmed
               PROVE  e.ver \notin backend'[t] \/ faults'["key"] > 0
    BY <1>1 DEF SweptIsGone
  <2>1. e.ver \in Puts /\ t \in Sites
    BY <1>0 DEF TypeOK, Entries
  <2>2. e.ver # p \/ t # s
    BY <1>5
  <2> QED BY <1>3, <1>4, <2>1, <2>2 DEF QueueInv, SweptIsGone
<1>12. QueueCoversDeleted'
  <2> SUFFICES ASSUME NEW v \in Puts, NEW t \in Sites, fate[v] = "deleted",
                      t \in meta[v].confirmed, v \in backend'[t]
               PROVE  Queued(v, t) \/ faults'["key"] > 0
    BY <1>1 DEF QueueCoversDeleted, Queued
  <2>1. v # p \/ t # s
    BY <1>5
  <2> QED BY <1>3, <1>4, <2>1 DEF QueueInv, QueueCoversDeleted
<1> QED BY <1>7, <1>8, <1>9, <1>10, <1>11, <1>12 DEF QueueInv

(* A write that binds its key: the version it replaces gets a fate.        *)
LEMMA CommitMetaKeepsQueue ==
  ASSUME QueueInv, CommitInv', NEW p \in Puts, CommitMeta(p)
  PROVE  QueueInv'
<1> USE DEF siteVars, putVars, delVars, reaperVars
<1>0. TypeOK
  BY DEF QueueInv, CommitInv
<1>1. pc[p] = "commit" /\ pc'[p] = "done"
  BY <1>0, RequestSets DEF TypeOK, CommitMeta
<1>2. ASSUME NEW q \in Puts, q # p PROVE pc'[q] = pc[q]
  BY <1>0, <1>2, RequestSets DEF TypeOK, CommitMeta
<1>3. UNCHANGED <<meta, purge, backend, task, batch, sweep, faults>>
  BY DEF CommitMeta
<1>4. meta[p].key \in Keys
  BY <1>1 DEF QueueInv, WritesHaveKeys
<1>5. ASSUME NEW k \in Keys
      PROVE  objects'[k] = IF k = meta[p].key THEN p ELSE objects[k]
  BY <1>0 DEF TypeOK, CommitMeta
<1>6. ASSUME NEW v \in Puts
      PROVE  fate'[v] = IF objects[meta[p].key] = v THEN "overwritten" ELSE fate[v]
  BY DEF CommitMeta
<1>7. ConfirmedIsPlaced' /\ ConfirmedIsUploaded'
  BY <1>3 DEF QueueInv, ConfirmedIsPlaced, ConfirmedIsUploaded
<1>8. FreshStoresNothing' /\ WritesHaveKeys'
  BY <1>1, <1>2, <1>3 DEF QueueInv, FreshStoresNothing, WritesHaveKeys
<1>9. OnlyBoundHaveFates'
  <2>1. Bound(p)'
    BY <1>4, <1>5 DEF Bound
  <2>2. ASSUME NEW v \in Puts, Bound(v) PROVE Bound(v)' \/ fate'[v] # "none"
    BY <1>5, <1>6, <2>2 DEF Bound
  <2>3. ASSUME NEW v \in Puts, objects[meta[p].key] = v PROVE pc[v] = "done"
    BY <1>4, <2>3, RequestsAssumption DEF QueueInv, CommitInv, BoundIsCommitted
  <2>4. ASSUME NEW v \in Puts, v # p
        PROVE  /\ pc'[v] \notin {"read", "notify"}
               /\ pc'[v] = "done" => Bound(v)' \/ fate'[v] # "none"
               /\ fate'[v] # "none" => pc'[v] = "done"
    BY <1>2, <1>6, <2>2, <2>3, <2>4 DEF QueueInv, OnlyBoundHaveFates
  <2> QED BY <1>1, <2>1, <2>4 DEF OnlyBoundHaveFates
<1>10. SweptIsGone'
  BY <1>3 DEF QueueInv, SweptIsGone
<1>11. QueueCoversDeleted'
  BY <1>3, <1>6 DEF QueueInv, QueueCoversDeleted, Queued
<1> QED BY <1>7, <1>8, <1>9, <1>10, <1>11 DEF QueueInv

(* A delete that writes its batch queues what it unbinds, at every site it *)
(* was placed on, or finds a version that was bound since it looked.       *)
LEMMA DelWriteKeepsQueue ==
  ASSUME QueueInv, CommitInv', NEW d \in Dels, DelWrite(d)
  PROVE  QueueInv'
<1> USE DEF siteVars, putVars, delVars, reaperVars
<1>0. TypeOK
  BY DEF QueueInv, CommitInv
<1>1. ASSUME NEW q \in Puts PROVE pc'[q] = pc[q]
  BY <1>0, RequestSets, RequestsAssumption DEF TypeOK, DelWrite
<1>2. UNCHANGED <<meta, backend, task, batch, sweep, faults>>
  BY DEF DelWrite
<1>3. ASSUME NEW k \in Keys
      PROVE  objects'[k] = IF k \in FoundKeys(d) THEN None ELSE objects[k]
  BY DEF DelWrite
<1>4. ASSUME NEW v \in Puts
      PROVE  fate'[v] = IF \E k \in FoundKeys(d) : objects[k] = v
                        THEN IF \E o \in found[d] : o.ver = v THEN "deleted" ELSE "raced"
                        ELSE fate[v]
  BY DEF DelWrite
<1>5. FoundKeys(d) \subseteq Keys
  BY <1>0 DEF TypeOK, Objects, FoundKeys
<1>6. ConfirmedIsPlaced' /\ ConfirmedIsUploaded'
  BY <1>2 DEF QueueInv, ConfirmedIsPlaced, ConfirmedIsUploaded
<1>7. FreshStoresNothing' /\ WritesHaveKeys'
  BY <1>1, <1>2 DEF QueueInv, FreshStoresNothing, WritesHaveKeys
<1>8. OnlyBoundHaveFates'
  <2> SUFFICES ASSUME NEW v \in Puts
               PROVE  /\ pc[v] \notin {"read", "notify"}
                      /\ pc[v] = "done" => Bound(v)' \/ fate'[v] # "none"
                      /\ fate'[v] # "none" => pc[v] = "done"
    BY <1>1 DEF OnlyBoundHaveFates
  <2>1. CASE \E k \in FoundKeys(d) : objects[k] = v
    <3>1. fate'[v] # "none"
      BY <1>4, <2>1
    <3>2. pc[v] = "done"
      BY <1>5, <2>1, RequestsAssumption DEF QueueInv, CommitInv, BoundIsCommitted
    <3> QED BY <3>1, <3>2
  <2>2. CASE ~\E k \in FoundKeys(d) : objects[k] = v
    <3>1. fate'[v] = fate[v]
      BY <1>4, <2>2
    <3>2. Bound(v) => Bound(v)'
      BY <1>3, <2>2 DEF Bound
    <3> QED BY <3>1, <3>2 DEF QueueInv, OnlyBoundHaveFates
  <2> QED BY <2>1, <2>2
<1>9. SweptIsGone'
  BY <1>2 DEF QueueInv, SweptIsGone
<1>10. QueueCoversDeleted'
  <2> SUFFICES ASSUME NEW v \in Puts, NEW s \in Sites, fate'[v] = "deleted",
                      s \in meta[v].confirmed, v \in backend[s]
               PROVE  Queued(v, s)' \/ faults["key"] > 0
    BY <1>2 DEF QueueCoversDeleted
  <2>1. CASE \E o \in found[d] : o.ver = v
    <3>1. PICK o \in found[d] : o.ver = v
      BY <2>1
    <3>2. EntryFor(d, o) \in purge'
      BY DEF DelWrite
    <3>3. s \in meta[v].placed
      BY DEF QueueInv, ConfirmedIsPlaced
    <3> QED BY <3>1, <3>2, <3>3 DEF Queued, EntryFor
  <2>2. CASE ~\E o \in found[d] : o.ver = v
    <3>1. fate[v] = "deleted"
      BY <1>4, <2>2
    <3>2. purge \subseteq purge'
      BY DEF DelWrite
    <3> QED BY <3>1, <3>2 DEF QueueInv, QueueCoversDeleted, Queued
  <2> QED BY <2>1, <2>2
<1> QED BY <1>6, <1>7, <1>8, <1>9, <1>10 DEF QueueInv

(* A site that is swept loses the chunks of all entries that list it.      *)
LEMMA SweepKeepsQueue ==
  ASSUME QueueInv, CommitInv', NEW s \in Sites, SiteSweeps(s) \/ SweepFails(s)
  PROVE  QueueInv'
<1> USE DEF metaVars, putVars, readVars, delVars
<1>0. TypeOK
  BY DEF QueueInv, CommitInv
<1>1. UNCHANGED <<objects, purge, pc, task, meta, batch, fate>>
  BY DEF SiteSweeps, SweepFails
<1>2. \A t \in Sites : backend'[t] \subseteq backend[t]
  <2>1. backend' = backend \/ backend' = [backend EXCEPT ![s] = @ \ SweepKeys(s)]
    BY DEF SiteSweeps, SweepFails
  <2> QED BY <1>0, <2>1 DEF TypeOK
<1>3. faults["key"] > 0 => faults'["key"] > 0
  BY <1>0, FaultsStay DEF SiteSweeps, SweepFails, FaultKinds
<1>4. ConfirmedIsPlaced' /\ ConfirmedIsUploaded'
  BY <1>1 DEF QueueInv, ConfirmedIsPlaced, ConfirmedIsUploaded
<1>5. FreshStoresNothing' /\ WritesHaveKeys'
  BY <1>1, <1>2 DEF QueueInv, FreshStoresNothing, WritesHaveKeys
<1>6. OnlyBoundHaveFates'
  BY <1>1 DEF QueueInv, OnlyBoundHaveFates, Bound
<1>7. SweptIsGone'
  <2> SUFFICES ASSUME NEW e \in batch, NEW t \in e.left, sweep'[t] = "ok",
                      t \in meta[e.ver].confirmed
               PROVE  e.ver \notin backend'[t] \/ faults'["key"] > 0
    BY <1>1 DEF SweptIsGone
  <2>1. t \in Sites
    BY <1>0 DEF TypeOK, Entries
  <2>2. CASE sweep[t] = "ok"
    BY <1>2, <1>3, <2>1, <2>2 DEF QueueInv, SweptIsGone
  <2>3. CASE sweep[t] # "ok"
    <3>1. t = s /\ backend' = [backend EXCEPT ![s] = @ \ SweepKeys(s)]
      BY <1>0, <2>1, <2>3 DEF TypeOK, SiteSweeps, SweepFails
    <3>2. e.ver \in SweepKeys(s)
      BY <3>1 DEF SweepKeys
    <3> QED BY <1>0, <3>1, <3>2 DEF TypeOK
  <2> QED BY <2>2, <2>3
<1>8. QueueCoversDeleted'
  BY <1>1, <1>2, <1>3 DEF QueueInv, QueueCoversDeleted, Queued
<1> QED BY <1>4, <1>5, <1>6, <1>7, <1>8 DEF QueueInv

(* An entry that is written back still lists the sites that are not done.  *)
LEMMA WriteEntryKeepsQueue ==
  ASSUME QueueInv, CommitInv', NEW e \in batch, WriteEntry(e)
  PROVE  QueueInv'
<1> USE DEF siteVars, putVars, readVars, delVars
<1>0. TypeOK
  BY DEF QueueInv, CommitInv
<1>1. UNCHANGED <<objects, backend, task, pc, meta, sweep, faults, fate>>
  BY DEF WriteEntry
<1>2. ConfirmedIsPlaced' /\ ConfirmedIsUploaded'
  BY <1>1 DEF QueueInv, ConfirmedIsPlaced, ConfirmedIsUploaded
<1>3. FreshStoresNothing' /\ WritesHaveKeys'
  BY <1>1 DEF QueueInv, FreshStoresNothing, WritesHaveKeys
<1>4. OnlyBoundHaveFates'
  BY <1>1 DEF QueueInv, OnlyBoundHaveFates, Bound
<1>5. SweptIsGone'
  <2>1. batch' \subseteq batch
    BY DEF WriteEntry
  <2> QED BY <1>1, <2>1 DEF QueueInv, SweptIsGone
<1>6. QueueCoversDeleted'
  <2> SUFFICES ASSUME NEW v \in Puts, NEW s \in Sites, fate[v] = "deleted",
                      s \in meta[v].confirmed, v \in backend[s], ~(faults["key"] > 0)
               PROVE  \E f \in purge' : f.ver = v /\ s \in f.left
    BY <1>1 DEF QueueCoversDeleted, Queued
  <2>1. PICK f \in purge : f.ver = v /\ s \in f.left
    BY DEF QueueInv, QueueCoversDeleted, Queued
  <2>2. CASE f # e
    <3>1. f \in purge'
      BY <2>2 DEF WriteEntry
    <3> QED BY <2>1, <3>1
  <2>3. CASE f = e
    <3>1. sweep[s] # "ok"
      BY <2>1, <2>3 DEF QueueInv, SweptIsGone
    <3>2. e \in Entries
      BY <1>0 DEF TypeOK
    <3>3. Swept(e).ver = v /\ s \in Swept(e).left
      BY <2>1, <2>3, <3>1, <3>2 DEF Swept, Entries
    <3>4. Swept(e) \in purge'
      BY <3>3 DEF WriteEntry
    <3> QED BY <3>3, <3>4
  <2> QED BY <2>2, <2>3
<1> QED BY <1>2, <1>3, <1>4, <1>5, <1>6 DEF QueueInv

-----------------------------------------------------------------------------
(* The theorems *)

(* Every step keeps the invariant.                                         *)
LEMMA QueueStep == QueueInv /\ [Next]_vars => QueueInv'
<1> SUFFICES ASSUME QueueInv, [Next]_vars PROVE QueueInv'
  OBVIOUS
<1>0. CommitInv /\ CommitInv' /\ TypeOK
  BY CommitStep DEF QueueInv, CommitInv
<1>1. CASE IdleActions
  BY <1>0, <1>1, IdleActionsAreIdle, IdleKeepsQueue
<1>2. ASSUME NEW p \in Puts, NEW k \in Keys, PutBegin(p, k) PROVE QueueInv'
  BY <1>0, <1>2, StartFanoutKeepsQueue DEF PutBegin, metaVars, reaperVars
<1>3. ASSUME NEW p \in Puts, CopyFetched(p) PROVE QueueInv'
  <2>1. meta[p].key \in Keys
    BY <1>3 DEF QueueInv, WritesHaveKeys, CopyFetched
  <2> QED BY <1>0, <1>3, <2>1, StartFanoutKeepsQueue DEF CopyFetched, metaVars, reaperVars
<1>4. ASSUME NEW p \in Puts, NEW src \in Keys, NEW dst \in Keys, CopyBegin(p, src, dst)
      PROVE QueueInv'
  BY <1>0, <1>4, CopyBeginKeepsQueue
<1>5. ASSUME NEW p \in Puts, FanoutOk(p) PROVE QueueInv'
  BY <1>0, <1>5, FanoutOkKeepsQueue
<1>6. ASSUME NEW p \in Puts, CommitMeta(p) PROVE QueueInv'
  BY <1>0, <1>6, CommitMetaKeepsQueue
<1>7. ASSUME NEW p \in Puts, NEW s \in Sites, SiteStores(p, s) \/ UploadFails(p, s)
      PROVE QueueInv'
  BY <1>0, <1>7, UploadKeepsQueue
<1>8. ASSUME NEW d \in Dels, DelWrite(d) PROVE QueueInv'
  BY <1>0, <1>8, DelWriteKeepsQueue
<1>9. ASSUME NEW s \in Sites, SiteSweeps(s) \/ SweepFails(s) PROVE QueueInv'
  BY <1>0, <1>9, SweepKeepsQueue
<1>10. ASSUME NEW e \in batch, WriteEntry(e) PROVE QueueInv'
  BY <1>0, <1>10, WriteEntryKeepsQueue
<1> QED
  BY <1>1, <1>2, <1>3, <1>4, <1>5, <1>6, <1>7, <1>8, <1>9, <1>10
     DEF Next, PutStep, DelStep, ReaperStep, IdleActions

(* The invariant holds initially.                                          *)
LEMMA QueueInit == Init => QueueInv
<1> SUFFICES ASSUME Init PROVE QueueInv
  OBVIOUS
<1>1. CommitInv
  BY CommitInit
<1>2. \A p \in Puts : /\ pc[p] = "new" /\ fate[p] = "none"
                      /\ meta[p].confirmed = {} /\ \A s \in Sites : task[p][s] = "idle"
  BY RequestSets DEF Init
<1>3. batch = {} /\ \A s \in Sites : backend[s] = {}
  BY DEF Init
<1>4. ConfirmedIsPlaced /\ FreshStoresNothing /\ WritesHaveKeys /\ ConfirmedIsUploaded
  BY <1>2, <1>3 DEF ConfirmedIsPlaced, FreshStoresNothing, WritesHaveKeys,
                    ConfirmedIsUploaded
<1>5. OnlyBoundHaveFates /\ SweptIsGone /\ QueueCoversDeleted
  BY <1>2, <1>3 DEF OnlyBoundHaveFates, SweptIsGone, QueueCoversDeleted
<1> QED BY <1>1, <1>4, <1>5 DEF QueueInv

(* What was deleted is queued until it is gone.                            *)
THEOREM QueueCorrect == Spec => []QueueInv
<1>1. Init => QueueInv
  BY QueueInit
<1>2. QueueInv /\ [Next]_vars => QueueInv'
  BY QueueStep
<1> QED BY <1>1, <1>2, PTL DEF Spec

(* The chunks nothing refers to are those of the cases LeftoverExcused     *)
(* lists.                                                                  *)
THEOREM LeftoversAreExcused == Spec => []LeftoverExcused
<1>1. QueueInv => LeftoverExcused
  <2> SUFFICES ASSUME QueueInv, NEW v \in Puts, NEW s \in Sites, v \in backend[s],
                      pc[v] \notin {"fanout", "commit", "failed", "lost"},
                      ~Bound(v), ~Queued(v, s), fate[v] \notin {"overwritten", "raced"}
               PROVE  fate[v] = "deleted" /\ (s \in meta[v].confirmed => faults["key"] > 0)
    BY DEF LeftoverExcused
  <2>1. pc[v] \in Phases /\ fate[v] \in Fates
    BY RequestSets DEF QueueInv, CommitInv, TypeOK
  <2>2. pc[v] = "done"
    BY <2>1 DEF QueueInv, FreshStoresNothing, OnlyBoundHaveFates, Phases
  <2>3. fate[v] = "deleted"
    BY <2>1, <2>2 DEF QueueInv, OnlyBoundHaveFates, Fates
  <2> QED BY <2>3 DEF QueueInv, QueueCoversDeleted
<1> QED BY <1>1, QueueCorrect, PTL

-----------------------------------------------------------------------------
(* The deletions and the reaper keep the promises of the purge queue *)

(* Most steps leave the queue alone, and a batch is part of it.            *)
LeavesQueue ==
  /\ purge' = purge
  /\ batch' = batch \/ batch' = purge \/ batch' = {}
  /\ \A d \in Dels : pc'[d] \in {"new", "read"} => pc[d] \in {"new", "read"}

LEMMA QueueLeft ==
  ASSUME PurgeInv, QueueInv', LeavesQueue
  PROVE  PurgeInv'
<1>1. BatchIsQueued'
  BY DEF PurgeInv, BatchIsQueued, LeavesQueue
<1>2. \A e \in purge : e.owner[1] \in Dels
  BY DEF PurgeInv, QueueInv, CommitInv, TypeOK, Entries, Owners
<1>3. QueuedOnce'
  BY <1>2 DEF PurgeInv, QueuedOnce, LeavesQueue
<1> QED BY <1>1, <1>3 DEF PurgeInv

(* A deletion queues the versions it has read, under its own name and for  *)
(* the first time.                                                         *)
QueuedBy(d) == {EntryFor(d, o) : o \in found[d]}

LEMMA DelWriteQueuesOnce ==
  ASSUME PurgeInv, QueueInv', NEW d \in Dels, DelWrite(d)
  PROVE  PurgeInv'
<1>0. TypeOK
  BY DEF PurgeInv, QueueInv, CommitInv
<1>1. purge' = purge \cup QueuedBy(d) /\ batch' = batch
  BY DEF DelWrite, QueuedBy, reaperVars
<1>2. pc[d] = "read" /\ pc'[d] = "notify" /\ \A c \in Dels \ {d} : pc'[c] = pc[c]
  BY <1>0, RequestSets DEF DelWrite, TypeOK
<1>3. ASSUME NEW e \in purge PROVE e.owner[1] \in Dels /\ e.owner[1] # d
  BY <1>0, <1>2 DEF TypeOK, Entries, Owners, PurgeInv, QueuedOnce
<1>4. ASSUME NEW e \in QueuedBy(d)
      PROVE  e.owner[1] = d /\ e = [owner |-> e.owner, ver |-> e.ver, left |-> meta[e.ver].placed]
  BY DEF QueuedBy, EntryFor
<1>5. BatchIsQueued'
  BY <1>1 DEF PurgeInv, BatchIsQueued
<1>6. QueuedOnce'
  <2>1. ASSUME NEW e \in purge', NEW f \in purge', e.owner = f.owner, e.ver = f.ver
        PROVE  e = f
    <3>1. CASE e \in purge /\ f \in purge
      BY <2>1, <3>1 DEF PurgeInv, QueuedOnce
    <3>2. CASE e \in QueuedBy(d) /\ f \in QueuedBy(d)
      BY <1>4, <2>1, <3>2
    <3> QED BY <1>1, <1>3, <1>4, <2>1, <3>1, <3>2
  <2>2. ASSUME NEW e \in purge' PROVE pc'[e.owner[1]] \notin {"new", "read"}
    <3>1. CASE e \in purge
      BY <1>2, <1>3, <3>1 DEF PurgeInv, QueuedOnce
    <3>2. CASE e \in QueuedBy(d)
      BY <1>2, <1>4, <3>2
    <3> QED BY <1>1, <3>1, <3>2
  <2> QED BY <2>1, <2>2 DEF QueuedOnce
<1> QED BY <1>5, <1>6 DEF PurgeInv

(* An entry that is written back takes the place of the one it was.        *)
LEMMA SweptSame ==
  ASSUME NEW e \in Entries
  PROVE  /\ Swept(e).owner = e.owner /\ Swept(e).ver = e.ver
         /\ Swept(e).left = {s \in e.left : sweep[s] # "ok"}
  BY DEF Swept, Entries

LEMMA WriteEntryQueuesOnce ==
  ASSUME PurgeInv, QueueInv', NEW e \in batch, WriteEntry(e)
  PROVE  PurgeInv'
<1>0. TypeOK /\ e \in Entries /\ e \in purge
  BY DEF PurgeInv, QueueInv, CommitInv, TypeOK, BatchIsQueued
<1>1. /\ purge' \subseteq (purge \ {e}) \cup {Swept(e)} /\ purge \ {e} \subseteq purge'
      /\ batch' = batch \ {e} /\ pc' = pc
  BY DEF WriteEntry
<1>2. BatchIsQueued'
  BY <1>1 DEF PurgeInv, BatchIsQueued
<1>3. ASSUME NEW f \in purge \ {e} PROVE f.owner # e.owner \/ f.ver # e.ver
  BY <1>0 DEF PurgeInv, QueuedOnce
<1>4. QueuedOnce'
  <2>1. ASSUME NEW f \in purge', NEW g \in purge', f.owner = g.owner, f.ver = g.ver
        PROVE  f = g
    <3>1. CASE f \in purge \ {e} /\ g \in purge \ {e}
      BY <2>1, <3>1 DEF PurgeInv, QueuedOnce
    <3> QED BY <1>0, <1>1, <1>3, <2>1, <3>1, SweptSame
  <2>2. ASSUME NEW f \in purge' PROVE pc'[f.owner[1]] \notin {"new", "read"}
    <3>1. \E g \in purge : g.owner = f.owner
      BY <1>0, <1>1, SweptSame
    <3> QED BY <1>1, <3>1 DEF PurgeInv, QueuedOnce
  <2> QED BY <2>1, <2>2 DEF QueuedOnce
<1> QED BY <1>2, <1>4 DEF PurgeInv

(* The other steps.                                                        *)
LEMMA OthersLeaveQueue ==
  ASSUME PurgeInv, [Next]_vars,
         ~\E d \in Dels : DelWrite(d), ~\E e \in batch : WriteEntry(e)
  PROVE  LeavesQueue
<1> USE DEF metaVars, siteVars, putVars, readVars, delVars, reaperVars
<1>0. TypeOK
  BY DEF PurgeInv, QueueInv, CommitInv
<1>1. ASSUME NEW r \in Puts \cup Gets, NEW x, pc' = [pc EXCEPT ![r] = x]
      PROVE  \A d \in Dels : pc'[d] = pc[d]
  BY <1>0, <1>1, RequestSets, RequestsAssumption DEF TypeOK
<1>2. \A r \in Readers : r \in Puts \cup Gets
  BY RequestsAssumption DEF Readers
<1>3. ASSUME NEW p \in Puts, NEW k, StartFanout(p, k)
      PROVE  \A d \in Dels : pc'[d] = pc[d]
  BY <1>1, <1>3 DEF StartFanout
<1>4. ASSUME NEW r \in Readers, NEW k, OpenObject(r, k)
      PROVE  \A d \in Dels : pc'[d] = pc[d]
  BY <1>1, <1>2, <1>4 DEF OpenObject
<1>5. ASSUME NEW p \in Puts, NEW k \in Keys, PutBegin(p, k) PROVE LeavesQueue
  BY <1>3, <1>5 DEF PutBegin, LeavesQueue
<1>6. ASSUME NEW p \in Puts, NEW src \in Keys, NEW dst \in Keys, CopyBegin(p, src, dst)
      PROVE LeavesQueue
  BY <1>4, <1>6, RequestSets DEF CopyBegin, LeavesQueue
<1>7. ASSUME NEW p \in Puts, PutStep(p) \/ PutStoreFails(p) PROVE LeavesQueue
  <2>1. CASE CopyFetched(p)
    BY <1>3, <2>1 DEF CopyFetched, LeavesQueue
  <2>2. CASE FanoutOk(p) \/ FanoutFails(p) \/ CommitMeta(p) \/ PutStoreFails(p)
    BY <1>1, <2>2 DEF FanoutOk, FanoutFails, CommitMeta, PutStoreFails, LeavesQueue
  <2> QED BY <1>7, <2>1, <2>2 DEF PutStep
<1>8. ASSUME NEW r \in Gets, NEW k \in Keys, GetBegin(r, k) PROVE LeavesQueue
  BY <1>4, <1>8, RequestSets DEF GetBegin, LeavesQueue
<1>9. ASSUME NEW r \in Readers, NEW s \in Sites, SiteAnswers(r, s) \/ SiteFailsRead(r, s)
      PROVE LeavesQueue
  BY <1>9 DEF SiteAnswers, SiteFailsRead, LeavesQueue
<1>10. ASSUME NEW r \in Readers, GetOk(r) \/ FetchFails(r) PROVE LeavesQueue
  BY <1>1, <1>2, <1>10 DEF GetOk, FetchFails, LeavesQueue
<1>11. ASSUME NEW d \in Dels, NEW times \in [Keys -> 0 .. MaxTimes], DelBegin(d, times)
       PROVE  LeavesQueue
  BY <1>0, <1>11, RequestSets DEF DelBegin, LeavesQueue, TypeOK
<1>12. ASSUME NEW d \in Dels,
              DelNotify(d) \/ DelStoreFails(d) \/ \E k \in Keys : DelRead(d, k)
       PROVE LeavesQueue
  BY <1>0, <1>12, RequestSets DEF DelNotify, DelStoreFails, DelRead, LeavesQueue, TypeOK
<1>13. ASSUME NEW p \in Puts, NEW s \in Sites, SiteStores(p, s) \/ UploadFails(p, s)
       PROVE LeavesQueue
  BY <1>13 DEF SiteStores, UploadFails, LeavesQueue
<1>14. CASE Wake \/ ListPurge \/ SweepOver \/ BatchOver \/ ReaperStoreFails
  BY <1>14 DEF Wake, ListPurge, SweepOver, BatchOver, ReaperStoreFails, LeavesQueue
<1>15. ASSUME NEW s \in Sites, SiteSweeps(s) \/ SweepFails(s) \/ SiteKeepsKeys(s)
       PROVE LeavesQueue
  BY <1>15 DEF SiteSweeps, SweepFails, SiteKeepsKeys, LeavesQueue
<1>16. ASSUME NEW r \in Puts \cup Gets, HangUp(r) PROVE LeavesQueue
  BY <1>1, <1>16 DEF HangUp, LeavesQueue
<1>17. CASE Crash
  BY <1>17, RequestSets DEF Crash, LeavesQueue
<1>18. CASE Finished \/ UNCHANGED vars
  BY <1>18 DEF Finished, vars, LeavesQueue
<1> QED
  BY <1>5, <1>6, <1>7, <1>8, <1>9, <1>10, <1>11, <1>12, <1>13, <1>14, <1>15, <1>16, <1>17,
     <1>18 DEF Next, DelStep, ReaperStep

LEMMA PurgeStep == PurgeInv /\ [Next]_vars => PurgeInv'
<1> SUFFICES ASSUME PurgeInv, [Next]_vars PROVE PurgeInv'
  OBVIOUS
<1>1. QueueInv'
  BY QueueStep DEF PurgeInv
<1>2. ASSUME NEW d \in Dels, DelWrite(d) PROVE PurgeInv'
  BY <1>1, <1>2, DelWriteQueuesOnce
<1>3. ASSUME NEW e \in batch, WriteEntry(e) PROVE PurgeInv'
  BY <1>1, <1>3, WriteEntryQueuesOnce
<1> QED BY <1>1, <1>2, <1>3, OthersLeaveQueue, QueueLeft

LEMMA PurgeInit == Init => PurgeInv
<1>1. Init => BatchIsQueued /\ QueuedOnce
  BY DEF Init, BatchIsQueued, QueuedOnce
<1> QED BY <1>1, QueueInit DEF PurgeInv

(* What is due, reported and there, job by job.                            *)
LEMMA JobsOfEntries ==
  ASSUME NEW es, NEW d, NEW v, NEW s
  PROVE  <<d, <<v, s>>>> \in Jobs(es) <=> \E e \in es : e.owner = d /\ e.ver = v /\ s \in e.left
<1>1. ASSUME <<d, <<v, s>>>> \in Jobs(es)
      PROVE  \E e \in es : e.owner = d /\ e.ver = v /\ s \in e.left
  <2>1. PICK e \in es : <<d, <<v, s>>>> \in {<<e.owner, <<e.ver, t>>>> : t \in e.left}
    BY <1>1 DEF Jobs
  <2>2. PICK t \in e.left : <<d, <<v, s>>>> = <<e.owner, <<e.ver, t>>>>
    BY <2>1
  <2>3. d = e.owner /\ v = e.ver /\ s = t
    BY <2>2
  <2> QED BY <2>2, <2>3
<1>2. ASSUME NEW e \in es, e.owner = d, e.ver = v, s \in e.left
      PROVE  <<d, <<v, s>>>> \in Jobs(es)
  BY <1>2 DEF Jobs
<1> QED BY <1>1, <1>2

LEMMA JobsOfTypes ==
  ASSUME NEW es, es \subseteq Entries
  PROVE  Jobs(es) \subseteq PQ!Jobs
<1>1. ASSUME NEW e \in es, NEW s \in e.left PROVE <<e.owner, <<e.ver, s>>>> \in PQ!Jobs
  <2>1. e.owner \in Owners /\ e.ver \in Puts /\ s \in Sites
    BY DEF Entries
  <2> QED BY <2>1 DEF PQ!Jobs
<1> QED BY <1>1 DEF Jobs

LEMMA DueTypes ==
  ASSUME PurgeInv
  PROVE  Due \subseteq PQ!Jobs /\ Reported \subseteq PQ!Jobs
<1>1. purge \subseteq Entries /\ batch \subseteq Entries
  BY DEF PurgeInv, QueueInv, CommitInv, TypeOK
<1>2. Jobs(purge) \subseteq PQ!Jobs /\ Jobs(batch) \subseteq PQ!Jobs
  BY <1>1, JobsOfTypes
<1> QED BY <1>2 DEF Due, Reported

LEMMA EqualJobs ==
  ASSUME NEW A, NEW B, A \subseteq PQ!Jobs, B \subseteq PQ!Jobs,
         \A d \in Owners, v \in Puts, s \in Sites :
            <<d, <<v, s>>>> \in A <=> <<d, <<v, s>>>> \in B
  PROVE  A = B
<1>1. \A j \in PQ!Jobs : \E d \in Owners, v \in Puts, s \in Sites : j = <<d, <<v, s>>>>
  BY DEF PQ!Jobs
<1> QED BY <1>1

LEMMA ReportedJobs ==
  ASSUME NEW d, NEW v, NEW s
  PROVE  /\ <<d, <<v, s>>>> \in Reported <=> <<d, <<v, s>>>> \in Jobs(batch) /\ sweep[s] = "ok"
         /\ <<d, <<v, s>>>> \in Reported'
              <=> <<d, <<v, s>>>> \in Jobs(batch') /\ sweep'[s] = "ok"
  BY DEF Reported, Jobs

LEMMA ThereChunks ==
  ASSUME NEW v \in Puts, NEW s \in Sites
  PROVE  /\ <<v, s>> \in There <=> v \in backend[s]
         /\ <<v, s>> \in There' <=> v \in backend'[s]
  BY DEF There

LEMMA EqualChunks ==
  ASSUME NEW A, NEW B, A \subseteq Puts \X Sites, B \subseteq Puts \X Sites,
         \A v \in Puts, s \in Sites : <<v, s>> \in A <=> <<v, s>> \in B
  PROVE  A = B
  OBVIOUS

LEMMA ThereType == There \subseteq Puts \X Sites /\ There' \subseteq Puts \X Sites
  BY DEF There

LEMMA JobsGrow ==
  ASSUME NEW es, NEW fs, es \subseteq fs
  PROVE  Jobs(es) \subseteq Jobs(fs)
  BY DEF Jobs

(* The jobs of a batch delete: what the batch lists of the site.           *)
JobsAt(s) == {j \in Jobs(batch) : j[2][2] = s}

LEMMA SweptJobs ==
  ASSUME PurgeInv, NEW s \in Sites
  PROVE  /\ JobsAt(s) \subseteq Due /\ JobsAt(s) \in SUBSET PQ!Jobs
         /\ \A d \in Owners, v \in Puts, t \in Sites :
              <<d, <<v, t>>>> \in JobsAt(s) <=> <<d, <<v, t>>>> \in Jobs(batch) /\ t = s
         /\ \A v \in Puts, t \in Sites :
              <<v, t>> \in PQ!ChunksOf(JobsAt(s)) <=> v \in SweepKeys(s) /\ t = s
<1>1. JobsAt(s) \subseteq Due
  BY JobsGrow DEF JobsAt, Due, PurgeInv, BatchIsQueued
<1>2. JobsAt(s) \in SUBSET PQ!Jobs
  BY <1>1, DueTypes
<1>3. \A d \in Owners, v \in Puts, t \in Sites :
        <<d, <<v, t>>>> \in JobsAt(s) <=> <<d, <<v, t>>>> \in Jobs(batch) /\ t = s
  BY DEF JobsAt
<1>4. ASSUME NEW v \in Puts, NEW t \in Sites
      PROVE  <<v, t>> \in PQ!ChunksOf(JobsAt(s)) <=> v \in SweepKeys(s) /\ t = s
  <2>1. ASSUME <<v, t>> \in PQ!ChunksOf(JobsAt(s)) PROVE v \in SweepKeys(s) /\ t = s
    <3>1. PICK j \in JobsAt(s) : j[2] = <<v, t>>
      BY <2>1 DEF PQ!ChunksOf
    <3>2. PICK d \in Owners, w \in Puts, u \in Sites : j = <<d, <<w, u>>>>
      BY <1>2 DEF PQ!Jobs
    <3>3. w = v /\ u = t
      BY <3>1, <3>2
    <3>4. <<d, <<v, t>>>> \in Jobs(batch) /\ t = s
      BY <1>3, <3>1, <3>2, <3>3
    <3>5. \E e \in batch : e.ver = v /\ s \in e.left
      BY <3>4, JobsOfEntries
    <3> QED BY <3>4, <3>5 DEF SweepKeys
  <2>2. ASSUME v \in SweepKeys(s), t = s PROVE <<v, t>> \in PQ!ChunksOf(JobsAt(s))
    <3>1. PICK e \in batch : e.ver = v /\ s \in e.left
      BY <2>2 DEF SweepKeys
    <3>2. e.owner \in Owners
      BY DEF PurgeInv, QueueInv, CommitInv, TypeOK, Entries
    <3>3. <<e.owner, <<v, s>>>> \in JobsAt(s)
      BY <1>3, <3>1, <3>2, JobsOfEntries
    <3> QED BY <2>2, <3>3 DEF PQ!ChunksOf
  <2> QED BY <2>1, <2>2
<1> QED BY <1>1, <1>2, <1>3, <1>4

(* A batch delete removes what is due there, and a site that keeps keys    *)
(* reports it only.                                                        *)
LEMMA SweepLosesKeys ==
  ASSUME PurgeInv, NEW s \in Sites, backend' = [backend EXCEPT ![s] = @ \ SweepKeys(s)]
  PROVE  There' = There \ PQ!ChunksOf(JobsAt(s))
<1>1. ASSUME NEW v \in Puts, NEW t \in Sites
      PROVE  <<v, t>> \in There' <=> <<v, t>> \in There \ PQ!ChunksOf(JobsAt(s))
  <2>1. v \in backend'[t] <=> v \in backend[t] /\ ~(t = s /\ v \in SweepKeys(s))
    BY DEF PurgeInv, QueueInv, CommitInv, TypeOK
  <2> QED BY <2>1, ThereChunks, SweptJobs
<1>2. There \ PQ!ChunksOf(JobsAt(s)) \subseteq Puts \X Sites
  BY ThereType
<1> QED BY <1>1, <1>2, ThereType, EqualChunks

LEMMA SweepReports ==
  ASSUME PurgeInv, PurgeInv', NEW s \in Sites, batch' = batch,
         sweep' = [sweep EXCEPT ![s] = "ok"]
  PROVE  Reported' = Reported \cup JobsAt(s)
<1>1. ASSUME NEW d \in Owners, NEW v \in Puts, NEW t \in Sites
      PROVE  <<d, <<v, t>>>> \in Reported' <=> <<d, <<v, t>>>> \in Reported \cup JobsAt(s)
  <2>1. sweep'[t] = "ok" <=> t = s \/ sweep[t] = "ok"
    BY DEF PurgeInv, QueueInv, CommitInv, TypeOK
  <2>2. <<d, <<v, t>>>> \in JobsAt(s) <=> <<d, <<v, t>>>> \in Jobs(batch) /\ t = s
    BY SweptJobs
  <2> QED BY <2>1, <2>2, ReportedJobs
<1>2. Reported' \subseteq PQ!Jobs
  <2>1. batch' \subseteq Entries
    BY DEF PurgeInv, QueueInv, CommitInv, TypeOK
  <2>2. Jobs(batch') \subseteq PQ!Jobs
    BY <2>1, JobsOfTypes
  <2> QED BY <2>2 DEF Reported, Jobs
<1>3. Reported \cup JobsAt(s) \subseteq PQ!Jobs
  BY SweptJobs, DueTypes
<1> QED BY <1>1, <1>2, <1>3, EqualJobs

LEMMA SweepStepIsSweep ==
  ASSUME PurgeInv, PurgeInv', NEW s \in Sites, SiteSweeps(s) \/ SweepFails(s)
  PROVE  [PQ!Next]_(PQ!vars)
<1>1. /\ purge' = purge /\ batch' = batch
      /\ faults'["key"] > 0 <=> faults["key"] > 0
      /\ sweep[s] = "sent"
  BY DEF SiteSweeps, SweepFails, Fault, metaVars, FaultKinds, PurgeInv, QueueInv, CommitInv,
         TypeOK
<1>2. Due' = Due
  BY <1>1 DEF Due
<1>3. CASE SiteSweeps(s)
  <2>1. Reported' = Reported \cup JobsAt(s)
    BY <1>1, <1>3, SweepReports DEF SiteSweeps
  <2>2. There' = There \ PQ!ChunksOf(JobsAt(s))
    BY <1>3, SweepLosesKeys DEF SiteSweeps
  <2>3. PQ!Sweep(JobsAt(s), TRUE)
    BY <1>1, <1>2, <2>1, <2>2, SweptJobs DEF PQ!Sweep
  <2> QED BY <2>3, SweptJobs DEF PQ!Next
<1>4. CASE SweepFails(s)
  <2>1. sweep' = [sweep EXCEPT ![s] = "err"]
    BY <1>4 DEF SweepFails
  <2>2. \A t \in Sites : sweep'[t] = "ok" <=> sweep[t] = "ok"
    BY <1>1, <2>1 DEF PurgeInv, QueueInv, CommitInv, TypeOK
  <2>3. Reported' = Reported
    <3>0. batch \subseteq Entries
      BY DEF PurgeInv, QueueInv, CommitInv, TypeOK
    <3>1. \A j \in Jobs(batch) : j[2][2] \in Sites
      BY <3>0, JobsOfTypes DEF PQ!Jobs
    <3>2. Reported' = {j \in Jobs(batch) : sweep'[j[2][2]] = "ok"}
      BY <1>1 DEF Reported
    <3> QED BY <2>2, <3>1, <3>2 DEF Reported
  <2>4. CASE backend' = backend
    <3>1. There' = There
      BY <2>4 DEF There
    <3>2. (faults["key"] > 0)' = (faults["key"] > 0)
      BY <1>1
    <3>3. UNCHANGED PQ!vars
      BY <1>2, <2>3, <3>1, <3>2 DEF PQ!vars
    <3> QED BY <3>3
  <2>5. CASE backend' = [backend EXCEPT ![s] = @ \ SweepKeys(s)]
    <3>1. There' = There \ PQ!ChunksOf(JobsAt(s))
      BY <2>5, SweepLosesKeys
    <3>2. PQ!Sweep(JobsAt(s), FALSE)
      BY <1>1, <1>2, <2>3, <3>1, SweptJobs DEF PQ!Sweep
    <3> QED BY <3>2, SweptJobs DEF PQ!Next
  <2> QED BY <1>4, <2>4, <2>5 DEF SweepFails
<1> QED BY <1>3, <1>4

LEMMA SiteKeepsKeysIsLie ==
  ASSUME PurgeInv, PurgeInv', NEW s \in Sites, SiteKeepsKeys(s)
  PROVE  PQ!Next
<1>1. purge' = purge /\ batch' = batch /\ backend' = backend
  BY DEF SiteKeepsKeys, metaVars, siteVars
<1>2. Due' = Due /\ There' = There
  BY <1>1 DEF Due, There
<1>3. Reported' = Reported \cup JobsAt(s)
  BY <1>1, SweepReports DEF SiteKeepsKeys
<1>4. faults'["key"] > 0
  BY DEF SiteKeepsKeys, Fault, PurgeInv, QueueInv, CommitInv, TypeOK, FaultKinds
<1>5. PQ!Lie(JobsAt(s))
  BY <1>2, <1>3, <1>4, SweptJobs DEF PQ!Lie
<1> QED BY <1>5, SweptJobs DEF PQ!Next

(* An upload that ends may store a chunk.                                  *)
LEMMA UploadIsArrive ==
  ASSUME PurgeInv, NEW p \in Puts, NEW s \in Sites, SiteStores(p, s) \/ UploadFails(p, s)
  PROVE  [PQ!Next]_(PQ!vars)
<1>0. TypeOK
  BY DEF PurgeInv, QueueInv, CommitInv
<1>1. /\ purge' = purge /\ batch' = batch /\ sweep' = sweep
      /\ faults'["key"] > 0 <=> faults["key"] > 0
  BY <1>0 DEF SiteStores, UploadFails, Fault, metaVars, reaperVars, FaultKinds, TypeOK
<1>2. Due' = Due /\ Reported' = Reported
  BY <1>1 DEF Due, Reported
<1>3. CASE backend' = backend
  <2>1. There' = There
    BY <1>3 DEF There
  <2> QED BY <1>1, <1>2, <2>1 DEF PQ!vars
<1>4. CASE backend' = [backend EXCEPT ![s] = @ \cup {p}]
  <2>1. ASSUME NEW v \in Puts, NEW t \in Sites
        PROVE  <<v, t>> \in There' <=> <<v, t>> \in There \cup {<<p, s>>}
    BY <1>0, <1>4, ThereChunks DEF TypeOK
  <2>2. There \cup {<<p, s>>} \subseteq Puts \X Sites
    BY ThereType
  <2>3. There' = There \cup {<<p, s>>}
    BY <2>1, <2>2, ThereType, EqualChunks
  <2>4. PQ!Arrive({<<p, s>>})
    BY <1>1, <1>2, <2>3 DEF PQ!Arrive
  <2> QED BY <2>4 DEF PQ!Next
<1> QED BY <1>3, <1>4 DEF SiteStores, UploadFails

(* A deletion makes due what no entry of its own lists yet.                *)
LEMMA DelWriteIsEnqueue ==
  ASSUME PurgeInv, PurgeInv', NEW d \in Dels, DelWrite(d)
  PROVE  PQ!Next
<1> DEFINE js == Jobs(QueuedBy(d))
<1>1. /\ purge' = purge \cup QueuedBy(d) /\ batch' = batch /\ sweep' = sweep
      /\ backend' = backend /\ faults' = faults /\ pc[d] = "read"
  BY DEF DelWrite, QueuedBy, reaperVars, siteVars
<1>2. Due' = Due \cup js
  BY <1>1 DEF Due, Jobs
<1>3. Reported' = Reported /\ There' = There
  BY <1>1 DEF Reported, There
<1>4. js \in SUBSET PQ!Jobs
  <2>1. QueuedBy(d) \subseteq Entries
    BY <1>1 DEF PurgeInv, QueueInv, CommitInv, TypeOK
  <2> QED BY <2>1, JobsOfTypes
<1>5. js \cap Due = {}
  <2>1. ASSUME NEW c, NEW v, NEW s, <<c, <<v, s>>>> \in js PROVE <<c, <<v, s>>>> \notin Due
    <3>1. c[1] = d
      BY <2>1, JobsOfEntries DEF QueuedBy, EntryFor
    <3>2. \A e \in purge : e.owner[1] # d
      BY <1>1 DEF PurgeInv, QueuedOnce
    <3> QED BY <3>1, <3>2, JobsOfEntries DEF Due
  <2>2. \A j \in PQ!Jobs : \E c \in Owners, v \in Puts, s \in Sites : j = <<c, <<v, s>>>>
    BY DEF PQ!Jobs
  <2> HIDE DEF js
  <2> QED BY <1>4, <2>1, <2>2
<1> HIDE DEF js
<1>6. PQ!Enqueue(js)
  BY <1>1, <1>2, <1>3, <1>5 DEF PQ!Enqueue
<1> QED BY <1>4, <1>6 DEF PQ!Next

(* An entry that is removed or written back is settled where its sites     *)
(* have reported.                                                          *)
LEMMA WriteEntryIsSettle ==
  ASSUME PurgeInv, PurgeInv', NEW e \in batch, WriteEntry(e)
  PROVE  PQ!Next
<1> DEFINE js == Reported \cap Jobs({e})
<1>0. e \in Entries /\ e \in purge /\ batch \subseteq purge /\ purge \subseteq Entries
  BY DEF PurgeInv, QueueInv, CommitInv, TypeOK, BatchIsQueued
<1>1. /\ purge' = (purge \ {e}) \cup (IF Swept(e).left = {} THEN {} ELSE {Swept(e)})
      /\ batch' = batch \ {e} /\ sweep' = sweep /\ backend' = backend /\ faults' = faults
  BY DEF WriteEntry, siteVars
<1>2. \A f \in purge \ {e} : f.owner # e.owner \/ f.ver # e.ver
  BY <1>0 DEF PurgeInv, QueuedOnce
<1>3. \A d, v, s : <<d, <<v, s>>>> \in js <=>
        d = e.owner /\ v = e.ver /\ s \in e.left /\ sweep[s] = "ok"
  <2> TAKE d, v, s
  <2>1. <<d, <<v, s>>>> \in Jobs({e}) <=> d = e.owner /\ v = e.ver /\ s \in e.left
    BY JobsOfEntries
  <2>2. <<d, <<v, s>>>> \in Jobs({e}) => <<d, <<v, s>>>> \in Jobs(batch)
    BY JobsGrow
  <2> QED BY <2>1, <2>2, ReportedJobs
<1>4. js \subseteq Reported /\ js \in SUBSET PQ!Jobs
  BY DueTypes
<1> HIDE DEF js
<1>5. Due' = Due \ js
  <2>1. ASSUME NEW d \in Owners, NEW v \in Puts, NEW s \in Sites
        PROVE  <<d, <<v, s>>>> \in Due' <=> <<d, <<v, s>>>> \in Due \ js
    <3>1. <<d, <<v, s>>>> \in Due' <=>
            \E f \in purge' : f.owner = d /\ f.ver = v /\ s \in f.left
      BY JobsOfEntries DEF Due
    <3>2. <<d, <<v, s>>>> \in Due <=>
            \E f \in purge : f.owner = d /\ f.ver = v /\ s \in f.left
      BY JobsOfEntries DEF Due
    <3>3. CASE d = e.owner /\ v = e.ver
      <4>1. <<d, <<v, s>>>> \in Due <=> s \in e.left
        BY <1>0, <1>2, <3>2, <3>3
      <4>2. (\E f \in purge' : f.owner = d /\ f.ver = v /\ s \in f.left)
              <=> s \in Swept(e).left
        BY <1>0, <1>1, <1>2, <3>3, SweptSame
      <4> QED BY <1>0, <1>3, <3>1, <3>3, <4>1, <4>2, SweptSame
    <3>4. CASE ~(d = e.owner /\ v = e.ver)
      <4>1. (\E f \in purge' : f.owner = d /\ f.ver = v /\ s \in f.left)
              <=> \E f \in purge : f.owner = d /\ f.ver = v /\ s \in f.left
        BY <1>0, <1>1, <3>4, SweptSame
      <4>2. <<d, <<v, s>>>> \notin js
        BY <1>3, <3>4
      <4> QED BY <3>1, <3>2, <4>1, <4>2
    <3> QED BY <3>3, <3>4
  <2>2. Due' \subseteq PQ!Jobs /\ Due \ js \subseteq PQ!Jobs
    <3>1. purge' \subseteq Entries
      BY DEF PurgeInv, QueueInv, CommitInv, TypeOK
    <3> QED BY <3>1, JobsOfTypes, DueTypes DEF Due
  <2> QED BY <2>1, <2>2, EqualJobs
<1>6. Reported' = Reported \ js
  <2>1. ASSUME NEW d \in Owners, NEW v \in Puts, NEW s \in Sites
        PROVE  <<d, <<v, s>>>> \in Reported' <=> <<d, <<v, s>>>> \in Reported \ js
    <3>1. <<d, <<v, s>>>> \in Jobs(batch') <=>
            /\ <<d, <<v, s>>>> \in Jobs(batch)
            /\ ~(d = e.owner /\ v = e.ver)
      <4>1. \A f \in batch : f = e <=> f.owner = e.owner /\ f.ver = e.ver
        BY <1>0, <1>2
      <4> QED BY <1>1, <4>1, JobsOfEntries
    <3>2. <<d, <<v, s>>>> \in Jobs(batch) /\ d = e.owner /\ v = e.ver => s \in e.left
      BY <1>0, <1>2, JobsOfEntries
    <3> QED BY <1>1, <1>3, <3>1, <3>2, ReportedJobs
  <2>2. Reported' \subseteq PQ!Jobs /\ Reported \ js \subseteq PQ!Jobs
    <3>1. Reported' \subseteq Reported
      BY <1>1 DEF Reported, Jobs
    <3> QED BY <3>1, DueTypes
  <2> QED BY <2>1, <2>2, EqualJobs
<1>7. There' = There
  BY <1>1 DEF There
<1>8. PQ!Settle(js)
  BY <1>1, <1>4, <1>5, <1>6, <1>7 DEF PQ!Settle
<1> QED BY <1>4, <1>8 DEF PQ!Next

(* A new batch, a batch that is over or given up, and a crash leave        *)
(* nothing reported.                                                       *)
LEMMA NewBatchIsDrop ==
  ASSUME PurgeInv, ListPurge \/ BatchOver \/ ReaperStoreFails \/ Crash, PurgeInv'
  PROVE  PQ!Next
<1>1. /\ purge' = purge /\ backend' = backend
      /\ faults'["key"] > 0 <=> faults["key"] > 0
  BY DEF ListPurge, BatchOver, ReaperStoreFails, Crash, Fault, metaVars, siteVars, FaultKinds,
         PurgeInv, QueueInv, CommitInv, TypeOK
<1>2. \A s \in Sites : sweep'[s] # "ok"
  BY DEF ListPurge, BatchOver, ReaperStoreFails, Crash
<1>3. Due' = Due /\ There' = There
  BY <1>1 DEF Due, There
<1>4. Reported' = {}
  <2>1. batch' \subseteq Entries
    BY DEF PurgeInv, QueueInv, CommitInv, TypeOK
  <2>2. \A j \in Jobs(batch') : j[2][2] \in Sites
    BY <2>1, JobsOfTypes DEF PQ!Jobs
  <2>3. Reported' = {j \in Jobs(batch') : sweep'[j[2][2]] = "ok"}
    BY DEF Reported, Jobs
  <2> QED BY <1>2, <2>2, <2>3
<1>5. PQ!Drop
  BY <1>1, <1>3, <1>4 DEF PQ!Drop
<1> QED BY <1>5 DEF PQ!Next

(* All other steps change nothing of it.                                   *)
QueueUnseen ==
  /\ UNCHANGED <<purge, batch, sweep, backend>>
  /\ faults'["key"] > 0 <=> faults["key"] > 0

LEMMA UnseenIsStutter ==
  ASSUME QueueUnseen
  PROVE  UNCHANGED PQ!vars
<1>1. Due' = Due /\ Reported' = Reported /\ There' = There
  BY DEF QueueUnseen, Due, Reported, There
<1>2. (faults["key"] > 0)' = (faults["key"] > 0)
  BY DEF QueueUnseen
<1> QED BY <1>1, <1>2 DEF PQ!vars

LEMMA OthersAreUnseen ==
  ASSUME TypeOK, [Next]_vars,
         ~\E d \in Dels : DelWrite(d), ~\E e \in batch : WriteEntry(e),
         ~\E p \in Puts, s \in Sites : SiteStores(p, s) \/ UploadFails(p, s),
         ~\E s \in Sites : SiteSweeps(s) \/ SweepFails(s) \/ SiteKeepsKeys(s),
         ~(ListPurge \/ BatchOver \/ ReaperStoreFails \/ Crash)
  PROVE  QueueUnseen
<1> USE DEF metaVars, siteVars, putVars, readVars, delVars, reaperVars, QueueUnseen
<1>1. ASSUME NEW f \in {"site", "store"}, Fault(f)
      PROVE  faults'["key"] > 0 <=> faults["key"] > 0
  BY <1>1 DEF TypeOK, Fault, FaultKinds
<1>2. ASSUME NEW p \in Puts, NEW k \in Keys, PutBegin(p, k) PROVE QueueUnseen
  BY <1>2 DEF PutBegin, StartFanout
<1>3. ASSUME NEW p \in Puts, NEW src \in Keys, NEW dst \in Keys, CopyBegin(p, src, dst)
      PROVE QueueUnseen
  BY <1>3 DEF CopyBegin
<1>4. ASSUME NEW p \in Puts, PutStep(p) PROVE QueueUnseen
  BY <1>4 DEF PutStep, FanoutOk, FanoutFails, CommitMeta, CopyFetched, StartFanout
<1>5. ASSUME NEW p \in Puts, PutStoreFails(p) PROVE QueueUnseen
  BY <1>1, <1>5 DEF PutStoreFails
<1>6. ASSUME NEW r \in Gets, NEW k \in Keys, GetBegin(r, k) PROVE QueueUnseen
  BY <1>6 DEF GetBegin
<1>7. ASSUME NEW r \in Readers, NEW s \in Sites, SiteAnswers(r, s) PROVE QueueUnseen
  BY <1>7 DEF SiteAnswers
<1>8. ASSUME NEW r \in Readers, NEW s \in Sites, SiteFailsRead(r, s) PROVE QueueUnseen
  BY <1>1, <1>8 DEF SiteFailsRead
<1>9. ASSUME NEW r \in Readers, GetOk(r) \/ FetchFails(r) PROVE QueueUnseen
  BY <1>9 DEF GetOk, FetchFails
<1>10. ASSUME NEW d \in Dels, NEW times \in [Keys -> 0 .. MaxTimes], DelBegin(d, times)
       PROVE  QueueUnseen
  BY <1>10 DEF DelBegin
<1>11. ASSUME NEW d \in Dels, DelNotify(d) \/ \E k \in Keys : DelRead(d, k)
       PROVE QueueUnseen
  BY <1>11 DEF DelNotify, DelRead
<1>12. ASSUME NEW d \in Dels, DelStoreFails(d) PROVE QueueUnseen
  BY <1>1, <1>12 DEF DelStoreFails
<1>13. CASE Wake \/ SweepOver
  BY <1>13 DEF Wake, SweepOver
<1>14. ASSUME NEW r \in Puts \cup Gets, HangUp(r) PROVE QueueUnseen
  BY <1>14 DEF HangUp
<1>15. CASE Finished \/ UNCHANGED vars
  BY <1>15 DEF Finished, vars
<1> QED
  BY <1>2, <1>3, <1>4, <1>5, <1>6, <1>7, <1>8, <1>9, <1>10, <1>11, <1>12, <1>13, <1>14,
     <1>15 DEF Next, DelStep, ReaperStep

LEMMA PurgeQueueStep == PurgeInv /\ PurgeInv' /\ [Next]_vars => [PQ!Next]_(PQ!vars)
<1> SUFFICES ASSUME PurgeInv, PurgeInv', [Next]_vars PROVE [PQ!Next]_(PQ!vars)
  OBVIOUS
<1>0. TypeOK
  BY DEF PurgeInv, QueueInv, CommitInv
<1>1. ASSUME NEW d \in Dels, DelWrite(d) PROVE PQ!Next
  BY <1>1, DelWriteIsEnqueue
<1>2. ASSUME NEW e \in batch, WriteEntry(e) PROVE PQ!Next
  BY <1>2, WriteEntryIsSettle
<1>3. ASSUME NEW p \in Puts, NEW s \in Sites, SiteStores(p, s) \/ UploadFails(p, s)
      PROVE [PQ!Next]_(PQ!vars)
  BY <1>3, UploadIsArrive
<1>4. ASSUME NEW s \in Sites, SiteSweeps(s) \/ SweepFails(s) PROVE [PQ!Next]_(PQ!vars)
  BY <1>4, SweepStepIsSweep
<1>5. ASSUME NEW s \in Sites, SiteKeepsKeys(s) PROVE PQ!Next
  BY <1>5, SiteKeepsKeysIsLie
<1>6. CASE ListPurge \/ BatchOver \/ ReaperStoreFails \/ Crash
  BY <1>6, NewBatchIsDrop
<1>7. QueueUnseen => UNCHANGED PQ!vars
  BY UnseenIsStutter
<1> QED BY <1>0, <1>1, <1>2, <1>3, <1>4, <1>5, <1>6, <1>7, OthersAreUnseen

LEMMA PurgeQueueInit == Init => PQ!Init
<1> SUFFICES ASSUME Init PROVE PQ!Init
  OBVIOUS
<1>1. purge = {} /\ batch = {}
  BY DEF Init
<1>2. Due = {} /\ Reported = {}
  BY <1>1 DEF Due, Reported, Jobs
<1>3. There \in SUBSET (Puts \X Sites)
  BY ThereType
<1>4. (faults["key"] > 0) = FALSE
  BY DEF Init, FaultKinds
<1> QED BY <1>2, <1>3, <1>4 DEF PQ!Init

(* Deletions, uploads, sites that fail or hide errors, crashes and the     *)
(* reaper keep what PurgeQueue promises: a chunk is deleted only while an  *)
(* entry lists it, and an entry drops it only when its site has reported   *)
(* the deletion since the entry was queued.                                *)
THEOREM ImplementsPurgeQueueCorrect == Spec => ImplementsPurgeQueue
<1>1. PurgeInv /\ [Next]_vars => PurgeInv'
  BY PurgeStep
<1>2. Spec => []PurgeInv
  BY PurgeInit, <1>1, PTL DEF Spec
<1>3. Spec => PQ!Init /\ [][PQ!Next]_(PQ!vars)
  BY PurgeQueueInit, PurgeQueueStep, <1>2, PTL DEF Spec
<1> QED BY <1>3 DEF ImplementsPurgeQueue, PQ!Spec

-----------------------------------------------------------------------------
(* No wake-up is lost *)

LEMMA AttendedStep == TypeOK /\ QueueAttended /\ [Next]_vars => QueueAttended'
<1> SUFFICES ASSUME TypeOK, QueueAttended, [Next]_vars PROVE QueueAttended'
  OBVIOUS
<1> USE DEF metaVars, siteVars, putVars, readVars, delVars, reaperVars
(* Deletions that still owe a wake-up are left alone by requests of others.*)
<1>1. ASSUME NEW r \in Puts \cup Gets, NEW x, pc' = [pc EXCEPT ![r] = x]
      PROVE  \A d \in Dels : pc'[d] = pc[d]
  BY <1>1, RequestSets, RequestsAssumption DEF TypeOK
<1>2. \A r \in Readers : r \in Puts \cup Gets
  BY RequestsAssumption DEF Readers
<1>3. ASSUME NEW f \in {"site", "key", "store", "crash"}, Fault(f), faults["store"] > 0
      PROVE  faults'["store"] > 0
  BY <1>3 DEF TypeOK, Fault, FaultKinds
<1>4. ASSUME NEW p \in Puts, NEW k, StartFanout(p, k)
      PROVE  \A d \in Dels : pc'[d] = pc[d]
  BY <1>1, <1>4 DEF StartFanout
<1>5. ASSUME NEW r \in Readers, NEW k, OpenObject(r, k)
      PROVE  \A d \in Dels : pc'[d] = pc[d]
  BY <1>1, <1>2, <1>5 DEF OpenObject
<1>6. ASSUME NEW p \in Puts, NEW k \in Keys, PutBegin(p, k) PROVE QueueAttended'
  BY <1>4, <1>6 DEF PutBegin, QueueAttended
<1>7. ASSUME NEW p \in Puts, NEW src \in Keys, NEW dst \in Keys, CopyBegin(p, src, dst)
      PROVE QueueAttended'
  BY <1>5, <1>7, RequestSets DEF CopyBegin, QueueAttended
<1>8. ASSUME NEW p \in Puts, PutStep(p) PROVE QueueAttended'
  <2>1. CASE CopyFetched(p)
    BY <1>4, <2>1 DEF CopyFetched, QueueAttended
  <2>2. CASE FanoutOk(p) \/ FanoutFails(p) \/ CommitMeta(p)
    BY <1>1, <2>2 DEF FanoutOk, FanoutFails, CommitMeta, QueueAttended
  <2> QED BY <1>8, <2>1, <2>2 DEF PutStep
<1>9. ASSUME NEW p \in Puts, PutStoreFails(p) PROVE QueueAttended'
  BY <1>1, <1>3, <1>9 DEF PutStoreFails, QueueAttended
<1>10. ASSUME NEW r \in Gets, NEW k \in Keys, GetBegin(r, k) PROVE QueueAttended'
  BY <1>5, <1>10, RequestSets DEF GetBegin, QueueAttended
<1>11. ASSUME NEW r \in Readers, NEW s \in Sites, SiteAnswers(r, s) PROVE QueueAttended'
  BY <1>11 DEF SiteAnswers, QueueAttended
<1>12. ASSUME NEW r \in Readers, NEW s \in Sites, SiteFailsRead(r, s) PROVE QueueAttended'
  BY <1>3, <1>12 DEF SiteFailsRead, QueueAttended
<1>13. ASSUME NEW r \in Readers, GetOk(r) \/ FetchFails(r) PROVE QueueAttended'
  BY <1>1, <1>2, <1>13 DEF GetOk, FetchFails, QueueAttended
<1>14. ASSUME NEW d \in Dels, NEW times \in [Keys -> 0 .. MaxTimes], DelBegin(d, times)
       PROVE QueueAttended'
  <2>1. \A c \in Dels : pc[c] = "notify" => pc'[c] = "notify"
    BY <1>14, RequestSets DEF DelBegin, TypeOK
  <2> QED BY <1>14, <2>1 DEF DelBegin, QueueAttended
<1>15. ASSUME NEW d \in Dels, NEW k \in Keys, DelRead(d, k) PROVE QueueAttended'
  BY <1>15 DEF DelRead, QueueAttended
<1>16. ASSUME NEW d \in Dels, DelWrite(d) PROVE QueueAttended'
  <2>1. pc'[d] = "notify"
    BY <1>16, RequestSets DEF DelWrite, TypeOK
  <2> QED BY <2>1 DEF QueueAttended
<1>17. ASSUME NEW d \in Dels, DelNotify(d) PROVE QueueAttended'
  BY <1>17 DEF DelNotify, QueueAttended
<1>18. ASSUME NEW d \in Dels, DelStoreFails(d) PROVE QueueAttended'
  <2>1. \A c \in Dels : pc[c] = "notify" => pc'[c] = "notify"
    BY <1>18, RequestSets DEF DelStoreFails, TypeOK
  <2> QED BY <1>3, <1>18, <2>1 DEF DelStoreFails, QueueAttended
<1>19. ASSUME NEW p \in Puts, NEW s \in Sites, SiteStores(p, s) \/ UploadFails(p, s)
       PROVE QueueAttended'
  BY <1>3, <1>19 DEF SiteStores, UploadFails, QueueAttended
<1>20. CASE Wake \/ ListPurge \/ SweepOver \/ BatchOver
  BY <1>20 DEF Wake, ListPurge, SweepOver, BatchOver, QueueAttended
<1>21. ASSUME NEW e \in batch, WriteEntry(e) PROVE QueueAttended'
  BY <1>21 DEF WriteEntry, QueueAttended
<1>22. CASE ReaperStoreFails
  BY <1>22 DEF ReaperStoreFails, Fault, FaultKinds, TypeOK, QueueAttended
<1>23. ASSUME NEW s \in Sites, SiteSweeps(s) \/ SweepFails(s) \/ SiteKeepsKeys(s)
       PROVE QueueAttended'
  BY <1>23 DEF SiteSweeps, SweepFails, SiteKeepsKeys, QueueAttended
<1>24. ASSUME NEW r \in Puts \cup Gets, HangUp(r) PROVE QueueAttended'
  BY <1>1, <1>24 DEF HangUp, QueueAttended
<1>25. CASE Crash
  BY <1>25 DEF Crash, QueueAttended
<1>26. CASE Finished \/ UNCHANGED vars
  BY <1>26 DEF Finished, vars, QueueAttended
<1> QED
  BY <1>6, <1>7, <1>8, <1>9, <1>10, <1>11, <1>12, <1>13, <1>14, <1>15, <1>16, <1>17,
     <1>18, <1>19, <1>20, <1>21, <1>22, <1>23, <1>24, <1>25, <1>26
     DEF Next, DelStep, ReaperStep

(* However many deletions race with the reaper and with crashes between a  *)
(* deletion's batch and its wake-up: while entries are queued the reaper   *)
(* waits only if it is about to be woken, or the store failed before.      *)
THEOREM QueueAttendedCorrect == Spec => []QueueAttended
<1>1. Init => TypeOK /\ QueueAttended
  BY TypeInit DEF Init, QueueAttended
<1>2. TypeOK /\ QueueAttended /\ [Next]_vars => (TypeOK /\ QueueAttended)'
  BY TypeStep, AttendedStep
<1> QED BY <1>1, <1>2, PTL DEF Spec
=============================================================================
