-------------------------- MODULE MultipartProofs --------------------------
(***************************************************************************)
(* Proofs about multipart uploads: a completion misses no part that was    *)
(* acknowledged, no part is removed before its object is committed, and no *)
(* part is forgotten on a site.                                            *)
(***************************************************************************)
EXTENDS Multipart, FiniteSetTheorems, SequenceTheorems, TLAPS

(* The kinds of requests.                                                  *)
LEMMA RequestSets ==
  /\ PartPuts \subseteq Requests /\ Removers \subseteq Requests
  /\ Completes \subseteq Removers /\ Aborts \subseteq Removers
  /\ PartPuts \cap Removers = {} /\ Completes \cap Aborts = {}
  BY RequestsAssumption DEF Requests, Removers

-----------------------------------------------------------------------------
(* Types *)

(* A list of parts is a sequence that is not empty.                        *)
LEMMA ListOfParts ==
  ASSUME NEW ps \in Lists
  PROVE  ps \in Seq(PartPuts) /\ ps # <<>>
<1>1. PICK k \in 1 .. MaxListed : ps \in [1 .. k -> PartPuts]
  BY DEF Lists
<1>2. k \in Nat /\ k > 0
  BY BoundsAssumption
<1> QED
  BY <1>1, <1>2, BoundsAssumption

(* The numbers of the parts that a completion lists are numbers of the     *)
(* upload.                                                                 *)
LEMMA NamesNumbered ==
  ASSUME RecordTypes, HomesStored, NamesAcknowledged, NEW c \in Completes
  PROVE  /\ DOMAIN named[c] = 1 .. Len(named[c])
         /\ Len(named[c]) \in Nat /\ Len(got[c]) \in Nat
         /\ \A i \in DOMAIN named[c] : NumberOf(c, i) \in NumbersOf(c) \cap Numbers
         /\ NumbersOf(c) \subseteq Numbers
<1>1. named[c] \in Seq(PartPuts) /\ got[c] \in Seq(PartPuts)
  BY DEF RecordTypes
<1>2. DOMAIN named[c] = 1 .. Len(named[c]) /\ Len(named[c]) \in Nat /\ Len(got[c]) \in Nat
  BY <1>1, LenProperties
<1>3. ASSUME NEW i \in DOMAIN named[c]
      PROVE  NumberOf(c, i) \in Numbers
  <2>1. named[c][i] \in PartPuts
    BY <1>1, <1>2, ElementOfSeq
  <2>2. pc[named[c][i]] = "done"
    BY DEF NamesAcknowledged
  <2> QED
    BY <2>1, <2>2 DEF HomesStored, NumberOf
<1> QED
  BY <1>2, <1>3 DEF NumbersOf

(* So is the number a completion fetches next.                             *)
LEMMA NextIsNamed ==
  ASSUME RecordTypes, HomesStored, NamesAcknowledged, NEW c \in Completes,
         Len(got[c]) < Len(named[c])
  PROVE  NextNumber(c) \in NumbersOf(c) /\ NextNumber(c) \in Numbers
<1>1. Len(got[c]) + 1 \in DOMAIN named[c]
  BY NamesNumbered
<1> QED
  BY <1>1, NamesNumbered DEF NextNumber

(* Fetching a part extends what has been fetched by it.                    *)
LEMMA FetchType ==
  ASSUME RecordTypes, HomesStored, NamesAcknowledged, FetchesListed, NEW c \in Completes,
         FetchPart(c)
  PROVE  got' \in [Completes -> Seq(PartPuts)]
<1> DEFINE p == listed[c][NextNumber(c)]
<1>1. CASE UNCHANGED got
  BY <1>1 DEF RecordTypes
<1>2. CASE got' = [got EXCEPT ![c] = Append(@, p.ver)]
  <2>1. NextNumber(c) \in NumbersOf(c) /\ NextNumber(c) \in Numbers
    BY NextIsNamed DEF FetchPart
  <2>2. p \in Records /\ p # None
    BY <2>1, RequestSets DEF FetchPart, FetchesListed, RecordTypes
  <2>3. p.ver \in PartPuts
    BY <2>2 DEF Records
  <2>4. Append(got[c], p.ver) \in Seq(PartPuts)
    BY <2>3 DEF RecordTypes
  <2> QED
    BY <1>2, <2>4 DEF RecordTypes
<1> QED
  BY <1>1, <1>2 DEF FetchPart

(* A client lists parts it has uploaded.                                   *)
LEMMA NamedType ==
  ASSUME RecordTypes, NEW c \in Completes, NEW ps \in Lists, CompleteBegin(c, ps)
  PROVE  named' \in [Completes -> Seq(PartPuts)]
  BY ListOfParts DEF RecordTypes, CompleteBegin

(* Steps of part uploads keep the types.                                   *)
LEMMA PartTypes ==
  ASSUME RecordTypes, HomesStored, NEW w \in PartPuts, NEW n, NEW s,
         \/ PartAcquire(w) \/ PartFails(w) \/ PartCommit(w) \/ PartStoreFails(w)
         \/ n \in Numbers /\ PartBegin(w, n)
         \/ s \in Sites /\ (PartOk(w, s) \/ SiteStores(w, s) \/ UploadFails(w, s))
  PROVE  RecordTypes'
<1> USE DEF RecordTypes, storeVars, siteVars, partVars, removeVars, history, GoTo, Phases, Over
<1>1. w \in Requests
  BY RequestSets
<1>2. CASE n \in Numbers /\ PartBegin(w, n)
  BY <1>1, <1>2 DEF PartBegin
<1>3. CASE PartAcquire(w)
  <2>1. [t \in Sites |-> "sent"] \in [Sites -> {"idle", "sent", "ok", "err"}]
    OBVIOUS
  <2> QED
    BY <1>1, <1>3, <2>1 DEF PartAcquire
<1>4. CASE s \in Sites /\ PartOk(w, s)
  BY <1>1, <1>4 DEF PartOk
<1>5. CASE PartFails(w) \/ PartStoreFails(w)
  BY <1>1, <1>5 DEF PartFails, PartStoreFails
<1>6. CASE PartCommit(w)
  <2>1. [ver |-> w, site |-> home[w]] \in Records
    BY <1>6 DEF PartCommit, HomesStored, Records
  <2> QED
    BY <1>1, <1>6, <2>1 DEF PartCommit
<1>7. CASE s \in Sites /\ SiteStores(w, s)
  <2>1. task' \in [PartPuts -> [Sites -> {"idle", "sent", "ok", "err"}]]
    BY <1>7 DEF SiteStores
  <2>2. backend' \in [Sites -> SUBSET PartPuts]
    BY <1>7 DEF SiteStores
  <2> QED
    BY <1>7, <2>1, <2>2 DEF SiteStores
<1>8. CASE s \in Sites /\ UploadFails(w, s)
  <2>1. task' \in [PartPuts -> [Sites -> {"idle", "sent", "ok", "err"}]]
    BY <1>8 DEF UploadFails
  <2>2. backend' = backend \/ backend' = [backend EXCEPT ![s] = @ \cup {w}]
    BY <1>8 DEF UploadFails
  <2>3. backend' \in [Sites -> SUBSET PartPuts]
    <3>1. CASE backend' = [backend EXCEPT ![s] = @ \cup {w}]
      <4>1. backend[s] \cup {w} \in SUBSET PartPuts
        BY <1>8
      <4> QED
        BY <1>8, <3>1, <4>1 DEF RecordTypes
    <3> QED
      BY <2>2, <3>1
  <2>4. /\ upload' = upload /\ parts' = parts /\ object' = object /\ pc' = pc
        /\ number' = number /\ home' = home /\ named' = named /\ listed' = listed
        /\ got' = got /\ todo' = todo /\ swept' = swept /\ missed' = missed
        /\ removed' = removed
    BY <1>8 DEF UploadFails
  <2> QED
    BY <2>1, <2>3, <2>4
<1> QED
  BY <1>2, <1>3, <1>4, <1>5, <1>6, <1>7, <1>8

(* Steps of completions keep the types.                                    *)
LEMMA CompleteTypes ==
  ASSUME PartInv, NEW c \in Completes,
         \/ \E ps \in Lists : CompleteBegin(c, ps)
         \/ CompleteStep(c) \/ FetchFails(c) \/ PutObjectFails(c)
  PROVE  RecordTypes'
<1> USE DEF history
<1>1. c \in Requests /\ c \in Removers
  BY RequestSets
<1>2. CASE \E ps \in Lists : CompleteBegin(c, ps)
  <2>1. PICK ps \in Lists : CompleteBegin(c, ps)
    BY <1>2
  <2>2. named' \in [Completes -> Seq(PartPuts)]
    BY <2>1, NamedType DEF PartInv
  <2> QED
    BY <1>1, <2>1, <2>2 DEF PartInv, CompleteBegin, RecordTypes, storeVars, siteVars, partVars,
                           GoTo, Phases, Over
<1>3. CASE FetchPart(c)
  <2>1. got' \in [Completes -> Seq(PartPuts)]
    BY <1>3, FetchType DEF PartInv
  <2>2. pc' \in [Requests -> Phases]
    BY <1>1, <1>3 DEF FetchPart, PartInv, RecordTypes, GoTo, Phases, Over
  <2> QED
    BY <1>3, <2>1, <2>2 DEF PartInv, FetchPart, RecordTypes, storeVars, siteVars, partVars
<1>4. CASE PutObject(c) \/ FetchFails(c) \/ PutObjectFails(c)
  BY <1>1, <1>4 DEF PartInv, PutObject, FetchFails, PutObjectFails, RecordTypes, storeVars,
                    siteVars, partVars, removeVars, GoTo, Phases, Over
<1>5. CASE CompleteCommit(c)
  BY <1>1, <1>5 DEF PartInv, CompleteCommit, RecordTypes, siteVars, partVars, GoTo, Phases, Over,
                    ToClean
<1> QED
  BY <1>2, <1>3, <1>4, <1>5 DEF CompleteStep

(* Steps of removers keep the types.                                       *)
LEMMA RemoveTypes ==
  ASSUME RecordTypes, CleansListed, NEW r \in Removers, NEW n, NEW s,
         \/ List(r) \/ DropUpload(r) \/ DropParts(r) \/ RemoverStoreFails(r) \/ AbortBegin(r)
         \/ n \in Numbers /\ s \in Sites /\ (CleanOne(r, n, s) \/ CleanFails(r, n, s))
  PROVE  RecordTypes'
<1> USE DEF RecordTypes, storeVars, siteVars, partVars, removeVars, history, GoTo, Phases, Over
<1>1. r \in Requests
  BY RequestSets
<1>2. CASE List(r)
  <2>1. pc' \in [Requests -> Phases]
    BY <1>1, <1>2 DEF List
  <2>2. ToClean(parts) \in SUBSET (Numbers \X Sites)
    BY DEF ToClean
  <2>3. todo' \in [Removers -> SUBSET (Numbers \X Sites)]
    BY <1>2, <2>2 DEF List
  <2> QED
    BY <1>2, <2>1, <2>3 DEF List
<1>3. CASE DropUpload(r) \/ RemoverStoreFails(r) \/ AbortBegin(r)
  <2>1. pc' \in [Requests -> Phases]
    BY <1>1, <1>3 DEF DropUpload, RemoverStoreFails, AbortBegin
  <2> QED
    BY <1>3, <2>1 DEF DropUpload, RemoverStoreFails, AbortBegin
<1>4. CASE DropParts(r)
  BY <1>1, <1>4 DEF DropParts, Records
<1>5. CASE n \in Numbers /\ s \in Sites /\ (CleanOne(r, n, s) \/ CleanFails(r, n, s))
  <2>1. listed[r][n] \in Records /\ listed[r][n] # None
    BY <1>5 DEF CleanOne, CleanFails, CleansListed
  <2>2. listed[r][n].ver \in PartPuts
    BY <2>1 DEF Records
  <2>3. CASE CleanOne(r, n, s)
    BY <1>1, <1>5, <2>2, <2>3 DEF CleanOne
  <2>4. CASE CleanFails(r, n, s)
    BY <1>1, <1>5, <2>2, <2>4 DEF CleanFails
  <2> QED
    BY <1>5, <2>3, <2>4
<1> QED
  BY <1>2, <1>3, <1>4, <1>5

-----------------------------------------------------------------------------
(* What steps leave alone *)

KeepsStored == \A w \in PartPuts, s \in Sites : StoredOrSwept(w, s) => StoredOrSwept(w, s)'

(* No part upload is begun, confirmed by a site or has its record chosen.  *)
UploadsRest ==
  /\ number' = number /\ home' = home
  /\ \A w \in PartPuts :
        pc'[w] = pc[w] \/ pc'[w] = "failed" \/ (pc'[w] # "commit" /\ number[w] \in Numbers)
  /\ \A w \in PartPuts, s \in Sites : task'[w][s] = "ok" => task[w][s] = "ok"

(* What UploadPart acknowledged keeps its number.                          *)
DoneStays ==
  \A w \in PartPuts : pc[w] = "done" => pc'[w] = "done" /\ number'[w] = number[w]

(* No completion or abort reads, fetches, commits or deletes anything.     *)
RemoversRest ==
  /\ DoneStays
  /\ named' = named /\ listed' = listed /\ got' = got
  /\ object' = object /\ swept' = swept
  /\ \A r \in Removers :
        /\ pc'[r] = pc[r] \/ pc'[r] \notin {"new", "fetch", "commit", "missing", "clean"}
        /\ (pc'[r] = pc[r] /\ todo'[r] \subseteq todo[r]) \/ todo'[r] = {}

(* Records of parts stay on their sites if stored parts do.                *)
LEMMA RecordsFrame ==
  ASSUME PartInv, KeepsStored, parts' = parts \/ \A n \in Numbers : parts'[n] = None
  PROVE  RecordsStored'
<1> SUFFICES ASSUME NEW n \in Numbers, parts'[n] # None
             PROVE  StoredOrSwept(parts[n].ver, parts[n].site)'
  BY DEF RecordsStored
<1>1. parts' = parts
  OBVIOUS
<1>2. parts[n] \in Records /\ parts[n] # None
  BY <1>1 DEF PartInv, RecordTypes
<1>3. parts[n].ver \in PartPuts /\ parts[n].site \in Sites
  BY <1>2 DEF Records
<1>4. StoredOrSwept(parts[n].ver, parts[n].site)
  BY <1>2 DEF PartInv, RecordsStored
<1> QED
  BY <1>1, <1>3, <1>4 DEF KeepsStored, StoredOrSwept

(* Uploads stay stored while no upload makes progress.                     *)
LEMMA UploadsFrame ==
  ASSUME PartInv, KeepsStored, UploadsRest
  PROVE  UploadsStored' /\ HomesStored'
<1>1. UploadsStored'
  BY DEF PartInv, KeepsStored, UploadsRest, UploadsStored
<1>2. ASSUME NEW w \in PartPuts, pc'[w] \in {"wait", "fanout", "commit", "done"}
      PROVE  number'[w] \in Numbers
  BY <1>2 DEF PartInv, HomesStored, UploadsRest
<1>3. ASSUME NEW w \in PartPuts, pc'[w] = "commit"
      PROVE  home'[w] \in Sites /\ StoredOrSwept(w, home[w])'
  BY <1>3 DEF PartInv, HomesStored, UploadsRest, KeepsStored, StoredOrSwept
<1> QED
  BY <1>1, <1>2, <1>3 DEF HomesStored

(* What removers have listed stays stored if their lists stay.             *)
LEMMA ListedFrame ==
  ASSUME PartInv, KeepsStored, listed' = listed
  PROVE  ListedStored'
<1> SUFFICES ASSUME NEW r \in Removers, NEW n \in Numbers, listed[r][n] # None
             PROVE  StoredOrSwept(listed[r][n].ver, listed[r][n].site)'
  BY DEF ListedStored
<1>1. listed[r][n] \in Records
  BY DEF PartInv, RecordTypes
<1>2. listed[r][n].ver \in PartPuts /\ listed[r][n].site \in Sites
  BY <1>1 DEF Records
<1> QED
  BY <1>2 DEF PartInv, ListedStored, KeepsStored

(* What a completion lists keeps its numbers.                              *)
LEMMA NumbersFrame ==
  ASSUME PartInv, DoneStays, NEW c \in Completes, named'[c] = named[c]
  PROVE  /\ \A i \in DOMAIN named[c] : NumberOf(c, i)' = NumberOf(c, i)
         /\ NumbersOf(c)' = NumbersOf(c)
         /\ \A i \in DOMAIN named'[c] : pc'[named'[c][i]] = "done"
         /\ Len(got[c]) < Len(named[c]) /\ got'[c] = got[c] => NextNumber(c)' = NextNumber(c)
<1>1. ASSUME NEW i \in DOMAIN named[c]
      PROVE  NumberOf(c, i)' = NumberOf(c, i) /\ pc'[named'[c][i]] = "done"
  <2>1. named[c] \in Seq(PartPuts)
    BY DEF PartInv, RecordTypes
  <2>2. named[c][i] \in PartPuts
    BY <2>1, LenProperties, ElementOfSeq
  <2>3. pc[named[c][i]] = "done"
    BY DEF PartInv, NamesAcknowledged
  <2> QED
    BY <2>2, <2>3 DEF DoneStays, NumberOf
<1>2. NumbersOf(c)' = NumbersOf(c)
  BY <1>1 DEF NumbersOf
<1>3. ASSUME Len(got[c]) < Len(named[c]), got'[c] = got[c]
      PROVE  NextNumber(c)' = NextNumber(c)
  <2>1. Len(got[c]) + 1 \in DOMAIN named[c]
    BY <1>3, NamesNumbered DEF PartInv
  <2> QED
    BY <1>1, <1>3, <2>1 DEF NextNumber, NumberOf
<1> QED
  BY <1>1, <1>2, <1>3

(* The conjuncts about removers stay while removers rest.                  *)
LEMMA RemoversFrame ==
  ASSUME PartInv, RemoversRest
  PROVE  /\ NamesAcknowledged' /\ FetchesListed' /\ CleansListed' /\ CleansAfterCommit'
         /\ MissingPartWasSwept' /\ PartsKeptUntilCommit'
<1>1. ASSUME NEW c \in Completes
      PROVE  /\ NumbersOf(c)' = NumbersOf(c)
             /\ \A i \in DOMAIN named'[c] : pc'[named'[c][i]] = "done"
             /\ Len(got[c]) < Len(named[c]) => NextNumber(c)' = NextNumber(c)
  BY NumbersFrame DEF RemoversRest
<1>2. NamesAcknowledged'
  BY <1>1 DEF NamesAcknowledged
<1>3. FetchesListed' /\ CleansAfterCommit'
  BY <1>1, RequestSets DEF PartInv, RemoversRest, FetchesListed, CleansAfterCommit
<1>4. CleansListed'
  BY RequestSets DEF PartInv, RemoversRest, CleansListed
<1>5. MissingPartWasSwept'
  BY <1>1, RequestSets DEF PartInv, RemoversRest, FetchesListed, MissingPartWasSwept
<1>6. PartsKeptUntilCommit'
  BY RequestSets DEF PartInv, RemoversRest, PartsKeptUntilCommit
<1> QED
  BY <1>2, <1>3, <1>4, <1>5, <1>6

-----------------------------------------------------------------------------
(* Every step keeps the invariant *)

(* The initial state satisfies the invariant.                              *)
LEMMA PartInit == Init => PartInv
<1> SUFFICES ASSUME Init PROVE PartInv
  OBVIOUS
<1>1. <<>> \in Seq(PartPuts) /\ DOMAIN <<>> = {}
  OBVIOUS
<1>2. RecordTypes
  BY <1>1 DEF Init, RecordTypes, Records, Phases
<1>3. UploadsStored /\ HomesStored
  BY RequestSets DEF Init, UploadsStored, HomesStored
<1>4. RecordsStored /\ ListedStored
  BY DEF Init, RecordsStored, ListedStored
<1>5. NamesAcknowledged
  BY <1>1 DEF Init, NamesAcknowledged
<1>6. FetchesListed /\ CleansListed /\ CleansAfterCommit
  BY RequestSets DEF Init, FetchesListed, CleansListed, CleansAfterCommit
<1>7. MissingPartWasSwept /\ PartsKeptUntilCommit
  BY RequestSets DEF Init, MissingPartWasSwept, PartsKeptUntilCommit
<1> QED
  BY <1>2, <1>3, <1>4, <1>5, <1>6, <1>7 DEF PartInv

(* Steps of part uploads: a confirmed part is stored, and is what becomes  *)
(* the record.                                                             *)
LEMMA PartKeeps ==
  ASSUME PartInv, NEW w \in PartPuts, NEW n, NEW s,
         \/ PartAcquire(w) \/ PartFails(w) \/ PartCommit(w) \/ PartStoreFails(w)
         \/ n \in Numbers /\ PartBegin(w, n)
         \/ s \in Sites /\ (PartOk(w, s) \/ SiteStores(w, s) \/ UploadFails(w, s))
  PROVE  PartInv'
<1> USE DEF storeVars, siteVars, partVars, removeVars, history, GoTo
<1>1. RecordTypes'
  BY PartTypes DEF PartInv
<1>2. w \in Requests /\ w \notin Removers
  BY RequestSets
<1>3. RemoversRest
  <2>1. pc' = pc \/ \E phase \in Phases : pc' = [pc EXCEPT ![w] = phase]
    BY DEF Phases, Over, PartBegin, PartAcquire, PartOk, PartFails, PartCommit, PartStoreFails,
       SiteStores, UploadFails
  <2>2. \A r \in Requests \ {w} : pc'[r] = pc[r]
    BY <1>2, <2>1 DEF PartInv, RecordTypes
  <2>3. /\ named' = named /\ listed' = listed /\ got' = got /\ todo' = todo
        /\ object' = object /\ swept' = swept
    BY DEF PartBegin, PartAcquire, PartOk, PartFails, PartCommit, PartStoreFails, SiteStores,
       UploadFails
  <2>4. pc[w] = "done" => pc' = pc
    BY DEF PartBegin, PartAcquire, PartOk, PartFails, PartCommit, PartStoreFails, SiteStores,
       UploadFails
  <2>5. number' = number \/ (pc[w] = "new" /\ number' = [number EXCEPT ![w] = n])
    BY DEF PartBegin, PartAcquire, PartOk, PartFails, PartCommit, PartStoreFails, SiteStores,
       UploadFails
  <2>6. DoneStays
    BY <2>2, <2>4, <2>5, RequestSets DEF DoneStays, PartInv, RecordTypes
  <2> QED
    BY <1>2, <2>2, <2>3, <2>6, RequestSets DEF RemoversRest
<1>4. KeepsStored
  <2>1. CASE s \in Sites /\ (SiteStores(w, s) \/ UploadFails(w, s))
    <3>1. backend' = backend \/ backend' = [backend EXCEPT ![s] = @ \cup {w}]
      BY <2>1 DEF SiteStores, UploadFails
    <3>2. \A t \in Sites : backend[t] \subseteq backend'[t]
      BY <2>1, <3>1 DEF PartInv, RecordTypes
    <3> QED
      BY <1>3, <3>2 DEF RemoversRest, KeepsStored, StoredOrSwept
  <2>2. CASE backend' = backend /\ swept' = swept
    BY <2>2 DEF KeepsStored, StoredOrSwept
  <2> QED
    BY <2>1, <2>2 DEF PartBegin, PartAcquire, PartOk, PartFails, PartCommit, PartStoreFails
<1>5. /\ NamesAcknowledged' /\ FetchesListed' /\ CleansListed' /\ CleansAfterCommit'
      /\ MissingPartWasSwept' /\ PartsKeptUntilCommit'
  BY <1>3, RemoversFrame
<1>6. ListedStored'
  BY <1>3, <1>4, ListedFrame DEF RemoversRest
<1>7. CASE n \in Numbers /\ PartBegin(w, n)
  <2>1. RecordsStored'
    BY <1>4, <1>7, RecordsFrame DEF PartBegin
  <2>2. UploadsStored'
    BY <1>4, <1>7 DEF PartInv, UploadsStored, KeepsStored, PartBegin
  <2>3. HomesStored'
    <3>1. number'[w] = n /\ pc'[w] \in {"wait", "failed"}
      BY <1>2, <1>7 DEF PartInv, RecordTypes, PartBegin
    <3>2. \A v \in PartPuts \ {w} : pc'[v] = pc[v] /\ number'[v] = number[v]
      BY <1>7, RequestSets DEF PartInv, RecordTypes, PartBegin
    <3>3. home' = home /\ backend' = backend /\ swept' = swept
      BY <1>7 DEF PartBegin
    <3> QED
      BY <1>7, <3>1, <3>2, <3>3 DEF PartInv, HomesStored, StoredOrSwept
  <2> QED
    BY <1>1, <1>5, <1>6, <2>1, <2>2, <2>3 DEF PartInv
<1>8. CASE s \in Sites /\ PartOk(w, s)
  <2>1. RecordsStored'
    BY <1>4, <1>8, RecordsFrame DEF PartOk
  <2>2. UploadsStored'
    BY <1>4, <1>8 DEF PartInv, UploadsStored, KeepsStored, PartOk
  <2>3. StoredOrSwept(w, s)
    BY <1>8 DEF PartInv, UploadsStored, PartOk
  <2>4. HomesStored'
    <3>1. pc[w] = "fanout" /\ home'[w] = s
      BY <1>2, <1>8 DEF PartInv, RecordTypes, PartOk
    <3>2. \A v \in PartPuts \ {w} : pc'[v] = pc[v] /\ home'[v] = home[v]
      BY <1>8, RequestSets DEF PartInv, RecordTypes, PartOk
    <3>3. number' = number /\ backend' = backend /\ swept' = swept
      BY <1>8 DEF PartOk
    <3> QED
      BY <1>8, <2>3, <3>1, <3>2, <3>3 DEF PartInv, HomesStored, StoredOrSwept
  <2> QED
    BY <1>1, <1>5, <1>6, <2>1, <2>2, <2>4 DEF PartInv
<1>9. CASE s \in Sites /\ SiteStores(w, s)
  <2>1. RecordsStored'
    BY <1>4, <1>9, RecordsFrame DEF SiteStores
  <2>2. UploadsStored'
    BY <1>9 DEF PartInv, RecordTypes, UploadsStored, StoredOrSwept, SiteStores
  <2>3. HomesStored'
    BY <1>4, <1>9 DEF PartInv, HomesStored, KeepsStored, StoredOrSwept, SiteStores
  <2> QED
    BY <1>1, <1>5, <1>6, <2>1, <2>2, <2>3 DEF PartInv
<1>10. CASE PartCommit(w)
  <2>1. number[w] \in Numbers /\ home[w] \in Sites /\ StoredOrSwept(w, home[w])
    BY <1>10 DEF PartInv, HomesStored, PartCommit
  <2>2. UploadsRest
    BY <1>2, <1>10, <2>1 DEF PartInv, RecordTypes, UploadsRest, PartCommit
  <2>3. UploadsStored' /\ HomesStored'
    BY <1>4, <2>2, UploadsFrame
  <2>4. RecordsStored'
    BY <1>10, <2>1 DEF PartInv, RecordTypes, RecordsStored, StoredOrSwept, PartCommit
  <2> QED
    BY <1>1, <1>5, <1>6, <2>3, <2>4 DEF PartInv
<1>11. CASE PartAcquire(w) \/ PartFails(w) \/ PartStoreFails(w)
        \/ (s \in Sites /\ UploadFails(w, s))
  <2>1. UploadsRest
    <3>1. CASE PartAcquire(w)
      <4>1. number[w] \in Numbers
        BY <3>1 DEF PartInv, HomesStored, PartAcquire
      <4> QED
        BY <1>2, <3>1, <4>1 DEF PartInv, RecordTypes, UploadsRest, PartAcquire
    <3>2. CASE PartFails(w) \/ PartStoreFails(w)
      <4>1. pc' = [pc EXCEPT ![w] = "failed"]
        BY <3>2 DEF PartFails, PartStoreFails
      <4>2. number' = number /\ home' = home /\ task' = task
        BY <3>2 DEF PartFails, PartStoreFails
      <4> QED
        BY <1>2, <4>1, <4>2 DEF PartInv, RecordTypes, UploadsRest
    <3>3. CASE s \in Sites /\ UploadFails(w, s)
      BY <3>3 DEF PartInv, RecordTypes, UploadsRest, UploadFails
    <3> QED
      BY <1>11, <3>1, <3>2, <3>3
  <2>2. UploadsStored' /\ HomesStored'
    BY <1>4, <2>1, UploadsFrame
  <2>3. RecordsStored'
    BY <1>4, <1>11, RecordsFrame DEF PartAcquire, PartFails, PartStoreFails, UploadFails
  <2> QED
    BY <1>1, <1>5, <1>6, <2>2, <2>3 DEF PartInv
<1> QED
  BY <1>7, <1>8, <1>9, <1>10, <1>11

(* A completion begins: what it names is acknowledged, what it has done is *)
(* nothing.                                                                *)
LEMMA CompleteBeginKeeps ==
  ASSUME PartInv, NEW c \in Completes, NEW ps \in Lists, CompleteBegin(c, ps)
  PROVE  PartInv'
<1> USE DEF storeVars, siteVars, partVars, history
<1>1. RecordTypes'
  BY CompleteTypes
<1>2. c \in Requests /\ c \in Removers /\ c \notin PartPuts /\ c \notin Aborts
  BY RequestSets
<1>3. /\ pc[c] = "new"
      /\ \/ pc' = [pc EXCEPT ![c] = "list"]
         \/ pc' = [pc EXCEPT ![c] = "failed"]
      /\ named' = [named EXCEPT ![c] = ps]
      /\ parts' = parts /\ object' = object /\ backend' = backend /\ task' = task
      /\ number' = number /\ home' = home /\ listed' = listed /\ got' = got
      /\ todo' = todo /\ swept' = swept
  BY DEF CompleteBegin, GoTo
<1>4. KeepsStored
  BY <1>3 DEF KeepsStored, StoredOrSwept
<1>5. \A q \in Requests \ {c} : pc'[q] = pc[q]
  BY <1>3 DEF PartInv, RecordTypes
<1>6. DoneStays /\ UploadsRest
  BY <1>2, <1>3, <1>5, RequestSets DEF UploadsRest, DoneStays
<1>7. UploadsStored' /\ HomesStored' /\ RecordsStored' /\ ListedStored'
  BY <1>3, <1>4, <1>6, UploadsFrame, RecordsFrame, ListedFrame
<1>8. /\ \A q \in Removers \ {c} : pc'[q] = pc[q]
      /\ \A d \in Completes \ {c} : pc'[d] = pc[d] /\ named'[d] = named[d]
      /\ pc'[c] \in {"list", "failed"} /\ named'[c] = ps
  BY <1>2, <1>3, <1>5, RequestSets DEF PartInv, RecordTypes
<1>9. ASSUME NEW d \in Completes \ {c}
      PROVE  /\ NumbersOf(d)' = NumbersOf(d)
             /\ \A i \in DOMAIN named'[d] : pc'[named'[d][i]] = "done"
             /\ Len(got[d]) < Len(named[d]) => NextNumber(d)' = NextNumber(d)
  BY <1>3, <1>6, <1>8, NumbersFrame
<1>10. NamesAcknowledged'
  <2>1. \A i \in DOMAIN ps : pc[ps[i]] = "done" /\ ps[i] \in PartPuts
    BY ListOfParts, LenProperties, ElementOfSeq DEF CompleteBegin
  <2>2. \A i \in DOMAIN ps : pc'[ps[i]] = "done"
    BY <2>1, <1>6 DEF DoneStays
  <2> QED
    BY <1>8, <1>9, <2>2 DEF NamesAcknowledged
<1>11. FetchesListed'
  BY <1>3, <1>8, <1>9 DEF PartInv, FetchesListed
<1>12. CleansListed' /\ CleansAfterCommit'
  BY <1>3, <1>8, RequestSets DEF PartInv, CleansListed, CleansAfterCommit
<1>13. MissingPartWasSwept'
  BY <1>3, <1>8, <1>9 DEF PartInv, FetchesListed, MissingPartWasSwept
<1>14. PartsKeptUntilCommit'
  BY <1>2, <1>3, <1>8, RequestSets DEF PartInv, PartsKeptUntilCommit
<1> QED
  BY <1>1, <1>7, <1>10, <1>11, <1>12, <1>13, <1>14 DEF PartInv

(* Reading the part records: they name what is stored.                     *)
LEMMA ListKeeps ==
  ASSUME PartInv, NEW r \in Removers, List(r)
  PROVE  PartInv'
<1> USE DEF storeVars, siteVars, partVars, history
<1>1. RecordTypes'
  BY RemoveTypes DEF PartInv
<1>2. r \in Requests /\ r \notin PartPuts
  BY RequestSets
<1>3. /\ pc[r] = "list"
      /\ \E phase \in {"clean", "fetch", "failed"} : pc' = [pc EXCEPT ![r] = phase]
      /\ listed' = [listed EXCEPT ![r] = parts]
      /\ named' = named /\ got' = got
      /\ parts' = parts /\ object' = object /\ backend' = backend /\ task' = task
      /\ number' = number /\ home' = home /\ swept' = swept
  BY DEF List, GoTo
<1>4. KeepsStored
  BY <1>3 DEF KeepsStored, StoredOrSwept
<1>5. \A q \in Requests \ {r} : pc'[q] = pc[q]
  BY <1>3 DEF PartInv, RecordTypes
<1>6. UploadsRest /\ DoneStays
  BY <1>2, <1>3, <1>5, RequestSets DEF UploadsRest, DoneStays
<1>7. UploadsStored' /\ HomesStored' /\ RecordsStored'
  BY <1>3, <1>4, <1>6, UploadsFrame, RecordsFrame
<1>8. /\ \A q \in Removers \ {r} : pc'[q] = pc[q] /\ listed'[q] = listed[q]
      /\ listed'[r] = parts
  BY <1>3, <1>5, RequestSets DEF PartInv, RecordTypes
<1>9. ListedStored'
  BY <1>3, <1>8 DEF PartInv, ListedStored, RecordsStored, StoredOrSwept
<1>10. ASSUME NEW c \in Completes
       PROVE  /\ NumbersOf(c)' = NumbersOf(c)
              /\ \A i \in DOMAIN named'[c] : pc'[named'[c][i]] = "done"
              /\ Len(got[c]) < Len(named[c]) => NextNumber(c)' = NextNumber(c)
  BY <1>3, <1>6, NumbersFrame
<1>11. NamesAcknowledged'
  BY <1>10 DEF NamesAcknowledged
<1>12. PartsKeptUntilCommit'
  BY <1>3, <1>5, <1>8, RequestSets DEF PartInv, RecordTypes, PartsKeptUntilCommit
<1>13. CASE r \in Aborts
  <2>1. pc' = [pc EXCEPT ![r] = "clean"] /\ todo' = [todo EXCEPT ![r] = ToClean(parts)]
    BY <1>13 DEF List, GoTo
  <2>2. /\ pc'[r] = "clean" /\ todo'[r] = ToClean(parts)
        /\ \A q \in Removers \ {r} : todo'[q] = todo[q]
    BY <1>2, <2>1 DEF PartInv, RecordTypes
  <2>3. \A c \in Completes : pc'[c] = pc[c] /\ listed'[c] = listed[c]
    BY <1>8, <1>13, RequestSets
  <2>4. FetchesListed' /\ CleansAfterCommit'
    BY <1>3, <1>10, <2>3 DEF PartInv, FetchesListed, CleansAfterCommit
  <2>5. CleansListed'
    BY <1>8, <2>2 DEF PartInv, CleansListed, ToClean
  <2>6. MissingPartWasSwept'
    BY <1>3, <1>10, <2>3 DEF PartInv, FetchesListed, MissingPartWasSwept
  <2> QED
    BY <1>1, <1>7, <1>9, <1>11, <1>12, <2>4, <2>5, <2>6 DEF PartInv
<1>14. CASE r \in Completes
  <2>1. /\ todo' = todo
        /\ pc' = [pc EXCEPT ![r] = IF \E n \in NumbersOf(r) : parts[n] = None
                                   THEN "failed" ELSE "fetch"]
    BY <1>14, RequestSets DEF List, GoTo
  <2>2. pc'[r] = IF \E n \in NumbersOf(r) : parts[n] = None THEN "failed" ELSE "fetch"
    BY <1>2, <2>1 DEF PartInv, RecordTypes
  <2>4. FetchesListed'
    BY <1>3, <1>8, <1>10, <2>2, RequestSets DEF PartInv, FetchesListed
  <2>5. CleansAfterCommit'
    BY <1>3, <1>8, <2>2, RequestSets DEF PartInv, CleansAfterCommit
  <2>6. CleansListed'
    <3>1. todo[r] = {}
      BY <1>3 DEF PartInv, CleansListed
    <3> QED
      BY <1>8, <2>1, <3>1 DEF PartInv, CleansListed
  <2>7. MissingPartWasSwept'
    BY <1>3, <1>8, <1>10, <2>2, RequestSets DEF PartInv, FetchesListed, MissingPartWasSwept
  <2> QED
    BY <1>1, <1>7, <1>9, <1>11, <1>12, <2>4, <2>5, <2>6, <2>7 DEF PartInv
<1> QED
  BY <1>13, <1>14 DEF Removers

(* Fetching a part and storing the object of all of them: a listed part is *)
(* on the site of its record unless it has been swept.                     *)
LEMMA FetchKeeps ==
  ASSUME PartInv, NEW c \in Completes, FetchPart(c) \/ PutObject(c)
  PROVE  PartInv'
<1> USE DEF storeVars, siteVars, partVars, removeVars, history
<1>1. RecordTypes'
  BY CompleteTypes DEF CompleteStep
<1>2. c \in Requests /\ c \in Removers /\ c \notin PartPuts /\ c \notin Aborts
  BY RequestSets
<1>3. /\ pc[c] = "fetch"
      /\ pc' = pc \/ \E phase \in {"missing", "commit"} : pc' = [pc EXCEPT ![c] = phase]
      /\ got' = got \/ \E f : got' = [got EXCEPT ![c] = f]
      /\ parts' = parts /\ object' = object /\ backend' = backend /\ task' = task
      /\ number' = number /\ home' = home /\ named' = named /\ listed' = listed
      /\ todo' = todo /\ swept' = swept
  <2>1. CASE PutObject(c)
    BY <2>1 DEF PutObject, GoTo
  <2>2. CASE FetchPart(c)
    BY <2>2 DEF FetchPart, GoTo
  <2> QED
    BY <2>1, <2>2
<1>4. KeepsStored
  BY <1>3 DEF KeepsStored, StoredOrSwept
<1>5. /\ \A q \in Requests \ {c} : pc'[q] = pc[q]
      /\ \A d \in Completes \ {c} : got'[d] = got[d]
      /\ pc'[c] \in {"fetch", "missing", "commit"}
  BY <1>2, <1>3 DEF PartInv, RecordTypes
<1>6. UploadsRest /\ DoneStays
  BY <1>2, <1>3, <1>5, RequestSets DEF UploadsRest, DoneStays
<1>7. UploadsStored' /\ HomesStored' /\ RecordsStored' /\ ListedStored'
  BY <1>3, <1>4, <1>6, UploadsFrame, RecordsFrame, ListedFrame
<1>8. ASSUME NEW d \in Completes
      PROVE  /\ NumbersOf(d)' = NumbersOf(d)
             /\ \A i \in DOMAIN named'[d] : pc'[named'[d][i]] = "done"
             /\ Len(got[d]) < Len(named[d]) /\ got'[d] = got[d] =>
                   NextNumber(d)' = NextNumber(d)
  BY <1>3, <1>6, NumbersFrame
<1>9. NamesAcknowledged'
  BY <1>8 DEF NamesAcknowledged
<1>10. pc'[c] = "missing" => FetchPart(c) /\ got' = got
  BY <1>2, <1>3 DEF PutObject, FetchPart, GoTo, PartInv, RecordTypes
<1>11. FetchesListed'
  <2>1. pc'[c] = "missing" => Len(got'[c]) < Len(named'[c])
    BY <1>3, <1>10 DEF FetchPart
  <2> QED
    BY <1>2, <1>3, <1>5, <1>8, <2>1, RequestSets DEF PartInv, FetchesListed
<1>12. CleansListed' /\ CleansAfterCommit'
  BY <1>3, <1>5, RequestSets DEF PartInv, CleansListed, CleansAfterCommit
<1>13. MissingPartWasSwept'
  <2>1. ASSUME NEW d \in Completes \ {c}, pc'[d] = "missing"
        PROVE  LET p == listed'[d][NextNumber(d)'] IN <<p.ver, p.site>> \in swept'
    <3>1. pc[d] = "missing" /\ got'[d] = got[d]
      BY <1>5, <2>1, RequestSets
    <3>2. NextNumber(d)' = NextNumber(d)
      BY <1>8, <3>1 DEF PartInv, FetchesListed
    <3> QED
      BY <1>3, <3>1, <3>2 DEF PartInv, MissingPartWasSwept
  <2>2. ASSUME pc'[c] = "missing"
        PROVE  LET p == listed'[c][NextNumber(c)'] IN <<p.ver, p.site>> \in swept'
    <3> DEFINE p == listed[c][NextNumber(c)]
    <3>1. FetchPart(c) /\ got' = got /\ Len(got[c]) < Len(named[c])
      BY <1>10, <2>2 DEF FetchPart
    <3>2. NextNumber(c) \in NumbersOf(c) /\ NextNumber(c) \in Numbers
      BY <3>1, NextIsNamed DEF PartInv
    <3>3. p # None /\ StoredOrSwept(p.ver, p.site)
      BY <1>2, <1>3, <3>2 DEF PartInv, FetchesListed, ListedStored
    <3>4. p.ver \notin backend[p.site]
      BY <1>2, <1>3, <2>2, <3>1 DEF FetchPart, PartInv, RecordTypes
    <3>5. <<p.ver, p.site>> \in swept
      BY <3>3, <3>4 DEF StoredOrSwept
    <3>6. NextNumber(c)' = NextNumber(c)
      BY <1>8, <3>1
    <3> QED
      BY <1>3, <3>5, <3>6
  <2> QED
    BY <2>1, <2>2 DEF MissingPartWasSwept
<1>14. PartsKeptUntilCommit'
  BY <1>2, <1>3, <1>5, RequestSets DEF PartInv, PartsKeptUntilCommit
<1> QED
  BY <1>1, <1>7, <1>9, <1>11, <1>12, <1>13, <1>14 DEF PartInv

(* The object is bound, and only then does the clean-up begin.             *)
LEMMA CommitKeeps ==
  ASSUME PartInv, NEW c \in Completes, CompleteCommit(c)
  PROVE  PartInv'
<1> USE DEF storeVars, siteVars, partVars, history
<1>1. RecordTypes'
  BY CompleteTypes DEF CompleteStep
<1>2. c \in Requests /\ c \in Removers /\ c \notin PartPuts /\ c \notin Aborts
  BY RequestSets
<1>3. /\ pc[c] = "commit"
      /\ pc' = [pc EXCEPT ![c] = "clean"]
      /\ todo' = [todo EXCEPT ![c] = ToClean(listed[c])]
      /\ object' = c
      /\ parts' = parts /\ backend' = backend /\ task' = task
      /\ number' = number /\ home' = home /\ named' = named /\ listed' = listed
      /\ got' = got /\ swept' = swept
  BY DEF CompleteCommit, GoTo
<1>4. KeepsStored
  BY <1>3 DEF KeepsStored, StoredOrSwept
<1>5. \A q \in Requests \ {c} : pc'[q] = pc[q]
  BY <1>3 DEF PartInv, RecordTypes
<1>6. UploadsRest /\ DoneStays
  BY <1>2, <1>3, <1>5, RequestSets DEF UploadsRest, DoneStays
<1>7. UploadsStored' /\ HomesStored' /\ RecordsStored' /\ ListedStored'
  BY <1>3, <1>4, <1>6, UploadsFrame, RecordsFrame, ListedFrame
<1>8. /\ \A q \in Removers \ {c} : pc'[q] = pc[q] /\ todo'[q] = todo[q]
      /\ pc'[c] = "clean" /\ todo'[c] = ToClean(listed[c])
  BY <1>2, <1>3, <1>5, RequestSets DEF PartInv, RecordTypes
<1>9. ASSUME NEW d \in Completes
      PROVE  /\ NumbersOf(d)' = NumbersOf(d)
             /\ \A i \in DOMAIN named'[d] : pc'[named'[d][i]] = "done"
             /\ Len(got[d]) < Len(named[d]) => NextNumber(d)' = NextNumber(d)
  BY <1>3, <1>6, NumbersFrame
<1>10. object' # None
  BY <1>3, RequestsAssumption
<1>11. NamesAcknowledged' /\ FetchesListed' /\ CleansAfterCommit' /\ PartsKeptUntilCommit'
  BY <1>3, <1>8, <1>9, <1>10, RequestSets
     DEF PartInv, NamesAcknowledged, FetchesListed, CleansAfterCommit, PartsKeptUntilCommit
<1>12. CleansListed'
  BY <1>3, <1>8 DEF PartInv, CleansListed, ToClean
<1>13. MissingPartWasSwept'
  BY <1>3, <1>8, <1>9, RequestSets DEF PartInv, FetchesListed, MissingPartWasSwept
<1> QED
  BY <1>1, <1>7, <1>11, <1>12, <1>13 DEF PartInv

(* Deleting a part: it is swept from then on, and was listed by an abort   *)
(* or by a completion that has committed.                                  *)
LEMMA CleanKeeps ==
  ASSUME PartInv, NEW r \in Removers, NEW n \in Numbers, NEW s \in Sites,
         CleanOne(r, n, s) \/ CleanFails(r, n, s)
  PROVE  PartInv'
<1> USE DEF storeVars, siteVars, partVars
<1> DEFINE v == listed[r][n].ver
<1>1. RecordTypes'
  BY RemoveTypes DEF PartInv
<1>2. /\ pc[r] = "clean" /\ <<n, s>> \in todo[r]
      /\ todo' = [todo EXCEPT ![r] = @ \ {<<n, s>>}]
      /\ parts' = parts /\ object' = object /\ task' = task /\ pc' = pc
      /\ number' = number /\ home' = home /\ named' = named /\ listed' = listed
      /\ got' = got
      /\ \/ backend' = [backend EXCEPT ![s] = @ \ {v}] /\ swept' = swept \cup {<<v, s>>}
         \/ backend' = backend /\ swept' = swept
  BY DEF CleanOne, CleanFails
<1>3. KeepsStored
  <2>1. CASE backend' = backend /\ swept' = swept
    BY <2>1 DEF KeepsStored, StoredOrSwept
  <2>2. CASE backend' = [backend EXCEPT ![s] = @ \ {v}] /\ swept' = swept \cup {<<v, s>>}
    <3>1. \A w \in PartPuts, t \in Sites :
            w \in backend[t] => w \in backend'[t] \/ <<w, t>> = <<v, s>>
      BY <2>2 DEF PartInv, RecordTypes
    <3> QED
      BY <2>2, <3>1 DEF KeepsStored, StoredOrSwept
  <2> QED
    BY <1>2, <2>1, <2>2
<1>4. UploadsRest /\ DoneStays
  BY <1>2 DEF UploadsRest, DoneStays
<1>5. UploadsStored' /\ HomesStored' /\ RecordsStored' /\ ListedStored'
  BY <1>2, <1>3, <1>4, UploadsFrame, RecordsFrame, ListedFrame
<1>6. ASSUME NEW d \in Completes
      PROVE  /\ NumbersOf(d)' = NumbersOf(d)
             /\ \A i \in DOMAIN named'[d] : pc'[named'[d][i]] = "done"
             /\ Len(got[d]) < Len(named[d]) => NextNumber(d)' = NextNumber(d)
  BY <1>2, <1>4, NumbersFrame
<1>7. NamesAcknowledged' /\ FetchesListed' /\ CleansAfterCommit'
  BY <1>2, <1>6 DEF PartInv, NamesAcknowledged, FetchesListed, CleansAfterCommit
<1>8. \A q \in Removers : todo'[q] \subseteq todo[q]
  BY <1>2 DEF PartInv, RecordTypes
<1>9. CleansListed'
  BY <1>2, <1>8 DEF PartInv, CleansListed
<1>10. swept \subseteq swept'
  BY <1>2
<1>11. MissingPartWasSwept'
  BY <1>2, <1>6, <1>10 DEF PartInv, FetchesListed, MissingPartWasSwept
<1>12. PartsKeptUntilCommit'
  <2>1. CASE r \in Completes
    BY <1>2, <2>1 DEF PartInv, CleansAfterCommit, PartsKeptUntilCommit
  <2>2. CASE r \in Aborts
    BY <1>2, <2>2 DEF PartsKeptUntilCommit
  <2> QED
    BY <2>1, <2>2 DEF Removers
<1> QED
  BY <1>1, <1>5, <1>7, <1>9, <1>11, <1>12 DEF PartInv

(* Steps that delete, fetch and bind nothing: the upload's record, errors, *)
(* hang-ups and crashes.                                                   *)
LEMMA RestKeeps ==
  ASSUME PartInv,
         \/ Create \/ Crash \/ Finished \/ UNCHANGED vars
         \/ \E c \in Completes : FetchFails(c) \/ PutObjectFails(c)
         \/ \E a \in Aborts : AbortBegin(a)
         \/ \E r \in Removers : DropUpload(r) \/ DropParts(r) \/ RemoverStoreFails(r)
         \/ \E r \in Requests : LookupFails(r) \/ HangUp(r)
  PROVE  PartInv'
<1> USE DEF storeVars, siteVars, partVars, removeVars, history, vars
<1>1. RecordTypes'
  <2>1. CASE Create \/ Finished \/ UNCHANGED vars
    BY <2>1 DEF PartInv, RecordTypes, Create, Finished
  <2>2. CASE \E c \in Completes : FetchFails(c) \/ PutObjectFails(c)
    BY <2>2, CompleteTypes
  <2>3. CASE \E a \in Aborts : AbortBegin(a)
    BY <2>3, RemoveTypes, RequestSets DEF PartInv
  <2>4. CASE \E r \in Removers : DropUpload(r) \/ DropParts(r) \/ RemoverStoreFails(r)
    BY <2>4, RemoveTypes DEF PartInv
  <2>5. CASE \E r \in Requests : LookupFails(r) \/ HangUp(r)
    <3>1. pc' \in [Requests -> Phases]
      BY <2>5 DEF PartInv, RecordTypes, LookupFails, HangUp, GoTo, Phases, Over
    <3>2. todo' \in [Removers -> SUBSET (Numbers \X Sites)]
      BY <2>5 DEF PartInv, RecordTypes, LookupFails, HangUp
    <3> QED
      BY <2>5, <3>1, <3>2 DEF PartInv, RecordTypes, LookupFails, HangUp
  <2>6. CASE Crash
    <3>1. pc' \in [Requests -> Phases]
      BY <2>6 DEF PartInv, RecordTypes, Crash, Phases, Over
    <3>2. task' \in [PartPuts -> [Sites -> {"idle", "sent", "ok", "err"}]]
      BY <2>6 DEF PartInv, RecordTypes, Crash
    <3>3. todo' \in [Removers -> SUBSET (Numbers \X Sites)]
      BY <2>6 DEF Crash
    <3> QED
      BY <2>6, <3>1, <3>2, <3>3 DEF PartInv, RecordTypes, Crash
  <2> QED
    BY <2>1, <2>2, <2>3, <2>4, <2>5, <2>6
<1>2. /\ object' = object /\ backend' = backend /\ swept' = swept
      /\ number' = number /\ home' = home /\ named' = named /\ listed' = listed
      /\ got' = got
  BY DEF Create, Crash, Finished, FetchFails, PutObjectFails, AbortBegin, DropUpload, DropParts,
     RemoverStoreFails, LookupFails, HangUp
<1>3. parts' = parts \/ \A n \in Numbers : parts'[n] = None
  BY DEF Create, Crash, Finished, FetchFails, PutObjectFails, AbortBegin, DropUpload, DropParts,
     RemoverStoreFails, LookupFails, HangUp
<1>4. \A w \in PartPuts, s \in Sites : task'[w][s] = "ok" => task[w][s] = "ok"
  <2>1. CASE Crash
    BY <2>1 DEF Crash
  <2>2. CASE task' = task
    BY <2>2
  <2> QED
    BY <2>1, <2>2 DEF Create, Finished, FetchFails, PutObjectFails, AbortBegin, DropUpload,
       DropParts, RemoverStoreFails, LookupFails, HangUp
<1>5. \A r \in Requests :
        \/ pc'[r] = pc[r] /\ (r \in Removers => todo'[r] \subseteq todo[r])
        \/ /\ pc'[r] = "failed" \/ (r \in Removers /\ pc'[r] \in {"list", "drop", "done"})
           /\ pc[r] # "done" /\ (r \in Removers => todo'[r] = {})
  <2>1. CASE Create \/ Finished \/ UNCHANGED vars
    BY <2>1 DEF Create, Finished
  <2>2. CASE Crash
    BY <2>2 DEF Crash, Over
  <2>3. CASE \E r \in Requests : HangUp(r)
    <3>1. PICK q \in Requests : HangUp(q)
      BY <2>3
    <3>2. pc[q] # "done" /\ pc' = [pc EXCEPT ![q] = "failed"]
      BY <3>1 DEF HangUp, GoTo
    <3>3. \A r \in Removers : todo'[r] = IF r = q THEN {} ELSE todo[r]
      BY <3>1 DEF HangUp
    <3> QED
      BY <3>2, <3>3 DEF PartInv, RecordTypes
  <2>4. ASSUME NEW q \in Requests, q \in Removers => todo[q] = {}, todo' = todo,
               pc[q] # "done", NEW phase,
               phase = "failed" \/ (q \in Removers /\ phase \in {"list", "drop", "done"}),
               pc' = [pc EXCEPT ![q] = phase]
        PROVE  \A r \in Requests :
                 \/ pc'[r] = pc[r] /\ (r \in Removers => todo'[r] \subseteq todo[r])
                 \/ /\ \/ pc'[r] = "failed"
                       \/ r \in Removers /\ pc'[r] \in {"list", "drop", "done"}
                    /\ pc[r] # "done" /\ (r \in Removers => todo'[r] = {})
    BY <2>4 DEF PartInv, RecordTypes
  <2>5. CASE \E c \in Completes : FetchFails(c) \/ PutObjectFails(c)
    BY <2>4, <2>5, RequestSets DEF FetchFails, PutObjectFails, GoTo, PartInv, CleansListed
  <2>6. CASE \E a \in Aborts : AbortBegin(a)
    BY <2>4, <2>6, RequestSets DEF AbortBegin, GoTo, PartInv, CleansListed
  <2>7. CASE \E r \in Removers : DropUpload(r) \/ DropParts(r) \/ RemoverStoreFails(r)
    <3>1. PICK q \in Removers : DropUpload(q) \/ DropParts(q) \/ RemoverStoreFails(q)
      BY <2>7
    <3>2. todo[q] = {} /\ todo' = todo /\ pc[q] # "done" /\ q \in Requests
      BY <3>1, RequestSets
         DEF PartInv, CleansListed, DropUpload, DropParts, RemoverStoreFails
    <3>3. PICK phase \in {"failed", "drop", "done"} : pc' = [pc EXCEPT ![q] = phase]
      BY <3>1 DEF DropUpload, DropParts, RemoverStoreFails, GoTo
    <3> QED
      BY <2>4, <3>2, <3>3
  <2>8. CASE \E r \in Requests : LookupFails(r)
    <3>1. PICK q \in Requests : LookupFails(q)
      BY <2>8
    <3>2. pc[q] \in {"new", "wait"} /\ todo' = todo /\ pc' = [pc EXCEPT ![q] = "failed"]
      BY <3>1 DEF LookupFails, GoTo
    <3>3. q \in Removers => todo[q] = {}
      BY <3>2 DEF PartInv, CleansListed
    <3> QED
      BY <2>4, <3>2, <3>3
  <2> QED
    BY <2>1, <2>2, <2>3, <2>5, <2>6, <2>7, <2>8
<1>6. KeepsStored
  BY <1>2 DEF KeepsStored, StoredOrSwept
<1>7. UploadsRest
  BY <1>2, <1>4, <1>5, RequestSets DEF UploadsRest
<1>8. DoneStays
  BY <1>2, <1>5, RequestSets DEF DoneStays
<1>9. RemoversRest
  BY <1>2, <1>5, <1>8, RequestSets DEF RemoversRest
<1> QED
  BY <1>1, <1>2, <1>3, <1>6, <1>7, <1>9, UploadsFrame, RecordsFrame, ListedFrame, RemoversFrame
     DEF PartInv

(* Every step of the specification keeps the invariant.                    *)
LEMMA PartNext == PartInv /\ [Next]_vars => PartInv'
<1> SUFFICES ASSUME PartInv, [Next]_vars PROVE PartInv'
  OBVIOUS
<1>1. CASE \/ \E w \in PartPuts, n \in Numbers : PartBegin(w, n)
           \/ \E w \in PartPuts : PartStep(w) \/ PartStoreFails(w)
           \/ \E w \in PartPuts, s \in Sites : SiteStores(w, s) \/ UploadFails(w, s)
  BY <1>1, PartKeeps DEF PartStep
<1>2. CASE \E c \in Completes, ps \in Lists : CompleteBegin(c, ps)
  BY <1>2, CompleteBeginKeeps
<1>3. CASE \E c \in Completes : CompleteStep(c)
  BY <1>3, FetchKeeps, CommitKeeps DEF CompleteStep
<1>4. CASE \E r \in Removers : List(r)
  BY <1>4, ListKeeps
<1>5. CASE \E r \in Removers, n \in Numbers, s \in Sites : CleanOne(r, n, s) \/ CleanFails(r, n, s)
  BY <1>5, CleanKeeps
<1>6. CASE \/ Create \/ Crash \/ Finished \/ UNCHANGED vars
           \/ \E c \in Completes : FetchFails(c) \/ PutObjectFails(c)
           \/ \E a \in Aborts : AbortBegin(a)
           \/ \E r \in Removers : DropUpload(r) \/ DropParts(r) \/ RemoverStoreFails(r)
           \/ \E r \in Requests : LookupFails(r) \/ HangUp(r)
  BY <1>6, RestKeeps
<1> QED
  BY <1>1, <1>2, <1>3, <1>4, <1>5, <1>6 DEF Next, RemoveStep

(* The invariant holds in every state that multipart requests reach.       *)
THEOREM PartInvCorrect == Spec => []PartInv
  BY PartInit, PartNext, PTL DEF Spec

(* A completion fails for want of a part only if some clean-up had begun   *)
(* to delete that part, whatever sites, requests, errors and crashes there *)
(* are: an acknowledged part is on the site its record names.              *)
THEOREM MissingPartWasSweptCorrect == Spec => []MissingPartWasSwept
<1>1. PartInv => MissingPartWasSwept
  BY DEF PartInv
<1> QED
  BY <1>1, PartInvCorrect, PTL

(* No part is deleted before an object made of the parts is committed or   *)
(* an abort was asked for, whichever step fails and whoever hangs up.      *)
THEOREM PartsKeptUntilCommitCorrect == Spec => []PartsKeptUntilCommit
<1>1. PartInv => PartsKeptUntilCommit
  BY DEF PartInv
<1> QED
  BY <1>1, PartInvCorrect, PTL

-----------------------------------------------------------------------------
(* No part is forgotten: what every step leaves as it was *)

Ended == {"drop"} \cup Over

(* Acknowledged parts, uploads that landed, removers that are past their   *)
(* clean-up and what clean-ups have done stay so; nothing but an upload    *)
(* under way adds a part object.                                           *)
Lasting ==
  /\ \A w \in PartPuts : pc[w] = "done" =>
        pc'[w] = "done" /\ number'[w] = number[w] /\ home'[w] = home[w]
  /\ \A w \in PartPuts, s \in Sites :
        pc[w] \in {"commit", "done"} /\ task[w][s] = "ok" => task'[w][s] = "ok"
  /\ \A w \in PartPuts, s \in Sites : w \in backend'[s] =>
        w \in backend[s] \/ task[w][s] = "sent"
  /\ \A r \in Removers : pc[r] \in Ended => pc'[r] \in Ended /\ listed'[r] = listed[r]
  /\ upload = "gone" => upload' = "gone"
  /\ swept \subseteq swept' /\ missed \subseteq missed' /\ removed \subseteq removed'

(* Faults are counted up.                                                  *)
LEMMA FaultsCount ==
  ASSUME faults \in Nat, [Next]_vars
  PROVE  faults' \in Nat
<1>1. faults' = faults \/ faults' = faults + 1
  BY DEF Next, vars, Create, PartBegin, PartStep, PartAcquire, PartFails, PartCommit, PartOk,
     PartStoreFails, SiteStores, UploadFails, CompleteBegin, CompleteStep, PutObject,
     CompleteCommit, FetchPart, FetchFails, PutObjectFails, AbortBegin, RemoveStep, List,
     DropUpload, DropParts, CleanOne, RemoverStoreFails, CleanFails, LookupFails, HangUp, Crash,
     Finished, Fault
<1> QED
  BY <1>1

(* Steps of part uploads.                                                  *)
LEMMA PartLasting ==
  ASSUME RecordTypes, NEW w \in PartPuts, NEW n, NEW s,
         \/ PartAcquire(w) \/ PartFails(w) \/ PartCommit(w) \/ PartStoreFails(w)
         \/ n \in Numbers /\ PartBegin(w, n)
         \/ s \in Sites /\ (PartOk(w, s) \/ SiteStores(w, s) \/ UploadFails(w, s))
  PROVE  /\ Lasting
         /\ \A r \in Removers : pc'[r] = pc[r]
         /\ upload' = upload /\ listed' = listed /\ todo' = todo
         /\ UNCHANGED history
<1> USE DEF storeVars, siteVars, partVars, removeVars, history, GoTo
<1>1. w \in Requests /\ w \notin Removers
  BY RequestSets
<1>2. /\ upload' = upload /\ listed' = listed /\ todo' = todo
      /\ swept' = swept /\ missed' = missed /\ removed' = removed
      /\ \A v \in PartPuts \ {w} : /\ pc'[v] = pc[v] /\ number'[v] = number[v]
                                   /\ home'[v] = home[v]
      /\ \A r \in Removers : pc'[r] = pc[r]
  BY <1>1, RequestSets DEF RecordTypes, PartBegin, PartAcquire, PartOk, PartFails, PartCommit,
     PartStoreFails, SiteStores, UploadFails
<1>3. pc[w] = "done" => pc'[w] = "done" /\ number'[w] = number[w] /\ home'[w] = home[w]
  BY <1>1 DEF RecordTypes, PartBegin, PartAcquire, PartOk, PartFails, PartCommit, PartStoreFails,
     SiteStores, UploadFails
<1>4. CASE s \in Sites /\ (SiteStores(w, s) \/ UploadFails(w, s))
  <2>1. /\ task[w][s] = "sent"
        /\ \E x : task' = [task EXCEPT ![w][s] = x]
        /\ backend' = backend \/ backend' = [backend EXCEPT ![s] = @ \cup {w}]
    BY <1>4 DEF SiteStores, UploadFails
  <2>2. \A v \in PartPuts, t \in Sites : task[v][t] = "ok" => task'[v][t] = "ok"
    <3>1. \A v \in PartPuts, t \in Sites :
            task'[v][t] = task[v][t] \/ (v = w /\ t = s)
      BY <1>4, <2>1 DEF RecordTypes
    <3> QED
      BY <2>1, <3>1
  <2>3. \A v \in PartPuts, t \in Sites : v \in backend'[t] =>
          v \in backend[t] \/ task[v][t] = "sent"
    <3>1. CASE backend' = [backend EXCEPT ![s] = @ \cup {w}]
      <4>1. \A t \in Sites : backend'[t] = IF t = s THEN backend[s] \cup {w} ELSE backend[t]
        BY <1>4, <3>1 DEF RecordTypes
      <4> QED
        BY <2>1, <4>1
    <3> QED
      BY <2>1, <3>1
  <2> QED
    BY <1>2, <1>3, <2>2, <2>3 DEF Lasting
<1>5. CASE UNCHANGED siteVars
  BY <1>2, <1>3, <1>5 DEF Lasting
<1>6. CASE PartAcquire(w)
  <2>1. \A v \in PartPuts, t \in Sites :
          pc[v] \in {"commit", "done"} /\ task[v][t] = "ok" => task'[v][t] = "ok"
    BY <1>6 DEF RecordTypes, PartAcquire
  <2>2. backend' = backend
    BY <1>6 DEF PartAcquire
  <2> QED
    BY <1>2, <1>3, <2>1, <2>2 DEF Lasting
<1> QED
  BY <1>2, <1>4, <1>5, <1>6 DEF PartBegin, PartOk, PartFails, PartCommit, PartStoreFails

(* Steps of completions and aborts: only what they sweep leaves its site.  *)
LEMMA RemoverLasting ==
  ASSUME PartInv, NEW r \in Removers,
         \/ r \in Completes /\ \E ps \in Lists : CompleteBegin(r, ps)
         \/ r \in Completes /\ (CompleteStep(r) \/ FetchFails(r) \/ PutObjectFails(r))
         \/ AbortBegin(r) \/ RemoveStep(r) \/ RemoverStoreFails(r)
         \/ \E n \in Numbers, s \in Sites : CleanFails(r, n, s)
  PROVE  /\ Lasting
         /\ \A w \in PartPuts : pc'[w] = pc[w]
         /\ \A q \in Removers \ {r} :
               pc'[q] = pc[q] /\ listed'[q] = listed[q] /\ todo'[q] = todo[q]
         /\ task' = task /\ number' = number /\ home' = home
         /\ permits' = permits
<1> USE DEF storeVars, siteVars, partVars, history, removeVars, GoTo, PartInv, RecordTypes
<1>1. r \in Requests /\ r \notin PartPuts
  BY RequestSets
<1>2. task' = task /\ number' = number /\ home' = home /\ permits' = permits
  BY DEF CompleteBegin, CompleteStep, FetchFails, PutObjectFails, AbortBegin, RemoveStep,
     RemoverStoreFails, CleanFails, CleanOne, List, DropUpload, DropParts, PutObject,
     CompleteCommit, FetchPart
<1>3. pc' = pc \/ \E phase \in Phases : pc' = [pc EXCEPT ![r] = phase]
  BY DEF CompleteBegin, CompleteStep, FetchFails, PutObjectFails, AbortBegin, RemoveStep,
     RemoverStoreFails, CleanFails, CleanOne, List, DropUpload, DropParts, PutObject,
     CompleteCommit, FetchPart, Phases, Over
<1>4. /\ \A w \in PartPuts : pc'[w] = pc[w]
      /\ \A q \in Removers \ {r} : pc'[q] = pc[q]
  BY <1>1, <1>3, RequestSets
<1>5. \A q \in Removers \ {r} : listed'[q] = listed[q] /\ todo'[q] = todo[q]
  <2>1. /\ listed' = listed \/ \E x : listed' = [listed EXCEPT ![r] = x]
        /\ todo' = todo \/ \E x : todo' = [todo EXCEPT ![r] = x]
    BY DEF CompleteBegin, CompleteStep, FetchFails, PutObjectFails, AbortBegin, RemoveStep,
       RemoverStoreFails, CleanFails, CleanOne, List, DropUpload, DropParts, PutObject,
       CompleteCommit, FetchPart
  <2> QED
    BY <2>1
<1>6. \A t \in Sites : backend'[t] \subseteq backend[t]
  <2>1. backend' = backend \/ \E t \in Sites : \E v : backend' = [backend EXCEPT ![t] = @ \ {v}]
    BY DEF CompleteBegin, CompleteStep, FetchFails, PutObjectFails, AbortBegin, RemoveStep,
       RemoverStoreFails, CleanFails, CleanOne, List, DropUpload, DropParts, PutObject,
       CompleteCommit, FetchPart
  <2> QED
    BY <2>1
<1>7. pc[r] \in Ended => pc'[r] \in Ended /\ listed'[r] = listed[r]
  BY <1>1 DEF CompleteBegin, CompleteStep, FetchFails, PutObjectFails, AbortBegin, RemoveStep,
     RemoverStoreFails, CleanFails, CleanOne, List, DropUpload, DropParts, PutObject,
     CompleteCommit, FetchPart, Ended, Over
<1>8. upload = "gone" => upload' = "gone"
  BY DEF CompleteBegin, CompleteStep, FetchFails, PutObjectFails, AbortBegin, RemoveStep,
     RemoverStoreFails, CleanFails, CleanOne, List, DropUpload, DropParts, PutObject,
     CompleteCommit, FetchPart
<1>9. swept \subseteq swept' /\ missed \subseteq missed' /\ removed \subseteq removed'
  BY DEF CompleteBegin, CompleteStep, FetchFails, PutObjectFails, AbortBegin, RemoveStep,
     RemoverStoreFails, CleanFails, CleanOne, List, DropUpload, DropParts, PutObject,
     CompleteCommit, FetchPart
<1>10. Lasting
  BY <1>2, <1>4, <1>5, <1>6, <1>7, <1>8, <1>9, RequestSets DEF Lasting
<1> QED
  BY <1>2, <1>4, <1>5, <1>10

(* Creation, failed look-ups, hang-ups, crashes and stuttering.            *)
LEMMA RestLasting ==
  ASSUME PartInv,
         \/ Create \/ Crash \/ Finished \/ UNCHANGED vars
         \/ \E r \in Requests : LookupFails(r) \/ HangUp(r)
  PROVE  /\ Lasting
         /\ \A r \in Requests :
               \/ pc'[r] = pc[r]
               \/ /\ pc[r] \notin Over /\ pc'[r] = "failed"
                  /\ pc[r] = "new" => upload # "none" /\ r \in Removers
         /\ \A w \in PartPuts, s \in Sites : task[w][s] = "ok" => task'[w][s] = "ok"
         /\ parts' = parts /\ backend' = backend /\ number' = number /\ home' = home
         /\ listed' = listed /\ UNCHANGED history
         /\ \A r \in Removers : pc'[r] = "clean" => pc[r] = "clean" /\ todo'[r] = todo[r]
         /\ upload' = upload \/ Create
<1> USE DEF storeVars, siteVars, partVars, removeVars, history, vars, PartInv, RecordTypes
<1>1. /\ parts' = parts /\ backend' = backend /\ number' = number /\ home' = home
      /\ listed' = listed
      /\ swept' = swept /\ missed' = missed /\ removed' = removed
      /\ upload' = upload \/ Create
  BY DEF Create, Crash, Finished, LookupFails, HangUp
<1>2. \A w \in PartPuts, s \in Sites : task[w][s] = "ok" => task'[w][s] = "ok"
  <2>1. CASE Crash
    <3>1. PICK cut \in SUBSET Unfinished :
            task' = [w \in PartPuts |-> [s \in Sites |->
              IF <<w, s>> \in cut THEN "err" ELSE task[w][s]]]
      BY <2>1 DEF Crash
    <3>2. \A w \in PartPuts, s \in Sites : <<w, s>> \in cut => task[w][s] = "sent"
      BY DEF Unfinished
    <3> QED
      BY <3>1, <3>2
  <2>2. CASE task' = task
    BY <2>2
  <2> QED
    BY <2>1, <2>2 DEF Create, Finished, LookupFails, HangUp
<1>3. /\ \A r \in Requests :
           \/ pc'[r] = pc[r]
           \/ /\ pc[r] \notin Over /\ pc'[r] = "failed"
              /\ pc[r] = "new" => upload # "none" /\ r \in Removers
      /\ \A r \in Removers : pc'[r] = "clean" => pc[r] = "clean" /\ todo'[r] = todo[r]
  <2>1. CASE Crash
    BY <2>1, RequestSets DEF Crash, Over
  <2>2. CASE Create \/ Finished \/ UNCHANGED vars
    BY <2>2 DEF Create, Finished
  <2>3. CASE \E q \in Requests : LookupFails(q) \/ HangUp(q)
    <3>1. PICK q \in Requests : LookupFails(q) \/ HangUp(q)
      BY <2>3
    <3>2. /\ pc' = [pc EXCEPT ![q] = "failed"] /\ pc[q] \notin Over
          /\ pc[q] = "new" => upload # "none" /\ q \in Removers
      BY <3>1 DEF LookupFails, HangUp, GoTo, Over
    <3>3. \A r \in Removers \ {q} : todo'[r] = todo[r]
      BY <3>1 DEF LookupFails, HangUp
    <3>4. /\ \A r \in Requests \ {q} : pc'[r] = pc[r]
          /\ pc'[q] = "failed"
      BY <3>2
    <3> QED
      BY <3>2, <3>3, <3>4, RequestSets
  <2> QED
    BY <2>1, <2>2, <2>3
<1>4. upload = "gone" => upload' = "gone"
  BY DEF Create, Crash, Finished, LookupFails, HangUp
<1>5. Lasting
  BY <1>1, <1>2, <1>3, <1>4, RequestSets DEF Lasting, Ended, Over
<1> QED
  BY <1>1, <1>2, <1>3, <1>5

(* Every step is one of these.                                             *)
LEMMA StepsLast ==
  ASSUME PartInv, [Next]_vars
  PROVE  Lasting
<1>1. CASE \/ \E w \in PartPuts, n \in Numbers : PartBegin(w, n)
           \/ \E w \in PartPuts : PartStep(w) \/ PartStoreFails(w)
           \/ \E w \in PartPuts, s \in Sites : SiteStores(w, s) \/ UploadFails(w, s)
  BY <1>1, PartLasting DEF PartStep, PartInv
<1>2. CASE \/ \E c \in Completes, ps \in Lists : CompleteBegin(c, ps)
           \/ \E c \in Completes : CompleteStep(c) \/ FetchFails(c) \/ PutObjectFails(c)
           \/ \E a \in Aborts : AbortBegin(a)
           \/ \E r \in Removers : RemoveStep(r) \/ RemoverStoreFails(r)
           \/ \E r \in Removers, n \in Numbers, s \in Sites : CleanFails(r, n, s)
  BY <1>2, RemoverLasting, RequestSets
<1>3. CASE Create \/ Crash \/ Finished \/ UNCHANGED vars \/ \E r \in Requests : LookupFails(r) \/ HangUp(r)
  BY <1>3, RestLasting
<1> QED
  BY <1>1, <1>2, <1>3 DEF Next

(* A record is put by PartCommit, listed by List and dropped by DropParts, *)
(* a part is over with PartCommit, an upload gone with DropUpload, and a   *)
(* part is swept by CleanOne.                                              *)
LEMMA Causes ==
  ASSUME PartInv, [Next]_vars
  PROVE  /\ \/ parts' = parts
            \/ \E w \in PartPuts : PartCommit(w)
            \/ \E r \in Removers : DropParts(r)
         /\ \A r \in Removers : listed'[r] = listed[r] \/ List(r)
         /\ \A w \in PartPuts : pc'[w] = "done" => pc[w] = "done" \/ PartCommit(w)
         /\ \A w \in PartPuts : pc'[w] = "commit" =>
               (pc[w] = "commit" /\ home'[w] = home[w]) \/ \E s \in Sites : PartOk(w, s)
         /\ \/ removed' = removed /\ (upload' = upload \/ Create)
            \/ \E r \in Removers : DropUpload(r)
         /\ \A r \in Removers : pc'[r] = "drop" => pc[r] = "drop" \/ DropUpload(r)
         /\ swept' = swept \/ \E r \in Removers, n \in Numbers, s \in Sites : CleanOne(r, n, s)
<1> USE DEF storeVars, siteVars, partVars, removeVars, history, vars, GoTo, PartInv, RecordTypes
<1>1. ASSUME NEW w \in PartPuts,
             \/ PartStep(w) \/ PartStoreFails(w) \/ \E n \in Numbers : PartBegin(w, n)
             \/ \E s \in Sites : SiteStores(w, s) \/ UploadFails(w, s)
      PROVE  /\ parts' = parts \/ PartCommit(w)
             /\ \A v \in PartPuts : pc'[v] = "done" => pc[v] = "done" \/ PartCommit(v)
             /\ \A v \in PartPuts : pc'[v] = "commit" =>
                   (pc[v] = "commit" /\ home'[v] = home[v]) \/ \E s \in Sites : PartOk(v, s)
             /\ upload' = upload /\ listed' = listed /\ UNCHANGED history
             /\ \A r \in Removers : pc'[r] = pc[r]
  <2>1. (\A r \in Removers : pc'[r] = pc[r]) /\ UNCHANGED history
    BY <1>1, PartLasting DEF PartStep
  <2>2. /\ parts' = parts \/ PartCommit(w)
        /\ upload' = upload /\ listed' = listed
    BY <1>1 DEF PartStep, PartAcquire, PartFails, PartCommit, PartOk, PartStoreFails, PartBegin,
       SiteStores, UploadFails
  <2>3. \A v \in PartPuts \ {w} : pc'[v] = pc[v] /\ home'[v] = home[v]
    BY <1>1, RequestSets DEF PartStep, PartAcquire, PartFails, PartCommit, PartOk, PartStoreFails,
       PartBegin, SiteStores, UploadFails
  <2>4. pc'[w] = "done" => pc[w] = "done" \/ PartCommit(w)
    BY <1>1, RequestSets DEF PartStep, PartAcquire, PartFails, PartOk, PartStoreFails, PartBegin,
       SiteStores, UploadFails
  <2>5. pc'[w] = "commit" =>
          (pc[w] = "commit" /\ home'[w] = home[w]) \/ \E s \in Sites : PartOk(w, s)
    BY <1>1, RequestSets DEF PartStep, PartAcquire, PartFails, PartCommit, PartStoreFails,
       PartBegin, SiteStores, UploadFails
  <2> QED
    BY <2>1, <2>2, <2>3, <2>4, <2>5
<1>2. ASSUME NEW r \in Removers,
             \/ r \in Completes /\ \E ps \in Lists : CompleteBegin(r, ps)
             \/ r \in Completes /\ (CompleteStep(r) \/ FetchFails(r) \/ PutObjectFails(r))
             \/ AbortBegin(r) \/ RemoveStep(r) \/ RemoverStoreFails(r)
             \/ \E n \in Numbers, s \in Sites : CleanFails(r, n, s)
      PROVE  /\ parts' = parts \/ DropParts(r)
             /\ listed' = listed \/ List(r)
             /\ (upload' = upload /\ removed' = removed) \/ DropUpload(r)
             /\ pc'[r] = "drop" => pc[r] = "drop" \/ DropUpload(r)
             /\ swept' = swept \/ \E n \in Numbers, s \in Sites : CleanOne(r, n, s)
             /\ \A w \in PartPuts : pc'[w] = pc[w] /\ home'[w] = home[w]
             /\ \A q \in Removers \ {r} : pc'[q] = pc[q] /\ listed'[q] = listed[q]
  <2>1. /\ \A w \in PartPuts : pc'[w] = pc[w] /\ home'[w] = home[w]
        /\ \A q \in Removers \ {r} : pc'[q] = pc[q] /\ listed'[q] = listed[q]
    BY <1>2, RemoverLasting
  <2>2. /\ parts' = parts \/ DropParts(r)
        /\ listed' = listed \/ List(r)
        /\ (upload' = upload /\ removed' = removed) \/ DropUpload(r)
        /\ swept' = swept \/ \E n \in Numbers, s \in Sites : CleanOne(r, n, s)
    <3>1. CASE \E n \in Numbers, s \in Sites : CleanOne(r, n, s)
      BY <3>1 DEF CleanOne
    <3>2. CASE ~ \E n \in Numbers, s \in Sites : CleanOne(r, n, s)
      BY <1>2, <3>2 DEF CompleteBegin, CompleteStep, FetchFails, PutObjectFails, AbortBegin,
         RemoveStep, RemoverStoreFails, CleanFails, PutObject, CompleteCommit, FetchPart,
         DropParts, DropUpload, List
    <3> QED
      BY <3>1, <3>2
  <2>3. pc'[r] = "drop" => pc[r] = "drop" \/ DropUpload(r)
    BY <1>2, RequestSets DEF CompleteBegin, CompleteStep, FetchFails, PutObjectFails, AbortBegin,
       RemoveStep, RemoverStoreFails, CleanFails, CleanOne, PutObject, CompleteCommit,
       FetchPart, DropParts, List
  <2> QED
    BY <2>1, <2>2, <2>3
<1>3. CASE Create \/ Crash \/ Finished \/ UNCHANGED vars
           \/ \E r \in Requests : LookupFails(r) \/ HangUp(r)
  BY <1>3, RestLasting, RequestSets
<1>4. CASE \/ \E w \in PartPuts, n \in Numbers : PartBegin(w, n)
           \/ \E w \in PartPuts : PartStep(w) \/ PartStoreFails(w)
           \/ \E w \in PartPuts, s \in Sites : SiteStores(w, s) \/ UploadFails(w, s)
  BY <1>1, <1>4
<1>5. CASE \/ \E c \in Completes, ps \in Lists : CompleteBegin(c, ps)
           \/ \E c \in Completes : CompleteStep(c) \/ FetchFails(c) \/ PutObjectFails(c)
           \/ \E a \in Aborts : AbortBegin(a)
           \/ \E r \in Removers : RemoveStep(r) \/ RemoverStoreFails(r)
           \/ \E r \in Removers, n \in Numbers, s \in Sites : CleanFails(r, n, s)
  <2>1. PICK r \in Removers :
             \/ r \in Completes /\ \E ps \in Lists : CompleteBegin(r, ps)
             \/ r \in Completes /\ (CompleteStep(r) \/ FetchFails(r) \/ PutObjectFails(r))
             \/ AbortBegin(r) \/ RemoveStep(r) \/ RemoverStoreFails(r)
             \/ \E n \in Numbers, s \in Sites : CleanFails(r, n, s)
    BY <1>5, RequestSets
  <2>2. /\ parts' = parts \/ DropParts(r)
        /\ listed' = listed \/ List(r)
        /\ (upload' = upload /\ removed' = removed) \/ DropUpload(r)
        /\ pc'[r] = "drop" => pc[r] = "drop" \/ DropUpload(r)
        /\ swept' = swept \/ \E n \in Numbers, s \in Sites : CleanOne(r, n, s)
        /\ \A w \in PartPuts : pc'[w] = pc[w] /\ home'[w] = home[w]
        /\ \A q \in Removers \ {r} : pc'[q] = pc[q] /\ listed'[q] = listed[q]
    BY <2>1, <1>2
  <2> QED
    BY <2>2
<1> QED
  BY <1>3, <1>4, <1>5 DEF Next

-----------------------------------------------------------------------------
(* No part is forgotten: the parts of the invariant *)

(* A part that is committed or acknowledged is on the site of its record.  *)
LEMMA UploadedNext ==
  ASSUME PartInv, PartsUploaded, [Next]_vars
  PROVE  PartsUploaded'
<1> SUFFICES ASSUME NEW w \in PartPuts, pc'[w] \in {"commit", "done"}
             PROVE  home'[w] \in Sites /\ task'[w][home'[w]] = "ok"
  BY DEF PartsUploaded, UploadedHome
<1>1. Lasting
  BY StepsLast
<1>2. CASE pc[w] = "done"
  BY <1>1, <1>2 DEF Lasting, PartsUploaded, UploadedHome
<1>3. CASE PartCommit(w)
  BY <1>3 DEF PartCommit, siteVars, partVars, PartsUploaded, UploadedHome
<1>4. CASE pc[w] = "commit" /\ home'[w] = home[w]
  BY <1>1, <1>4 DEF Lasting, PartsUploaded, UploadedHome
<1>5. CASE \E s \in Sites : PartOk(w, s)
  BY <1>5 DEF PartOk, siteVars, PartInv, RecordTypes
<1> QED
  BY <1>2, <1>3, <1>4, <1>5, Causes

(* Records and lists of records name parts that were acknowledged.         *)
LEMMA AcknowledgedNext ==
  ASSUME PartInv, RecordsAcknowledged, [Next]_vars
  PROVE  RecordsAcknowledged'
<1> USE DEF Acknowledged, RecordsAcknowledged
<1>1. ASSUME NEW n \in Numbers, NEW p \in Records, Acknowledged(p, n), p # None
      PROVE  pc'[p.ver] = "done" /\ number'[p.ver] = n /\ home'[p.ver] = p.site
  BY <1>1, StepsLast DEF Lasting, Records
<1>2. ASSUME NEW n \in Numbers, parts'[n] # None
      PROVE  /\ pc'[parts'[n].ver] = "done" /\ number'[parts'[n].ver] = n
             /\ home'[parts'[n].ver] = parts'[n].site
  <2>1. CASE parts'[n] = parts[n]
    BY <1>1, <1>2, <2>1 DEF PartInv, RecordTypes
  <2>2. CASE \E w \in PartPuts : PartCommit(w)
    <3>1. PICK w \in PartPuts : PartCommit(w)
      BY <2>2
    <3>2. pc'[w] = "done" /\ number' = number /\ home' = home
      BY <3>1, RequestSets DEF PartCommit, GoTo, partVars, PartInv, RecordTypes
    <3>3. parts' = [parts EXCEPT ![number[w]] = [ver |-> w, site |-> home[w]]]
      BY <3>1 DEF PartCommit
    <3>4. CASE n = number[w]
      BY <3>2, <3>3, <3>4 DEF PartInv, RecordTypes
    <3>5. CASE n # number[w]
      <4>1. parts'[n] = parts[n]
        BY <3>3, <3>5 DEF PartInv, RecordTypes
      <4> QED
        BY <2>1, <4>1
    <3> QED
      BY <3>4, <3>5
  <2>3. CASE \E r \in Removers : DropParts(r)
    BY <1>2, <2>3 DEF DropParts
  <2> QED
    BY <2>1, <2>2, <2>3, Causes
<1>3. ASSUME NEW r \in Removers, NEW n \in Numbers, listed'[r][n] # None
      PROVE  /\ pc'[listed'[r][n].ver] = "done" /\ number'[listed'[r][n].ver] = n
             /\ home'[listed'[r][n].ver] = listed'[r][n].site
  <2>1. CASE listed'[r] = listed[r]
    <3>1. listed[r][n] \in Records /\ listed[r][n] # None
      BY <1>3, <2>1 DEF PartInv, RecordTypes
    <3> QED
      BY <1>1, <2>1, <3>1
  <2>2. CASE List(r)
    <3>1. listed'[r] = parts
      BY <2>2 DEF List, PartInv, RecordTypes
    <3> QED
      BY <1>1, <1>3, <3>1 DEF PartInv, RecordTypes
  <2> QED
    BY <2>1, <2>2, Causes
<1> QED
  BY <1>2, <1>3

(* A clean-up begins with all that is listed and goes on with less.        *)
LEMMA CleanCauses ==
  ASSUME PartInv, [Next]_vars, NEW r \in Removers, pc'[r] = "clean"
  PROVE  \/ todo'[r] = ToClean(listed'[r])
         \/ /\ pc[r] = "clean" /\ listed'[r] = listed[r]
            /\ \/ todo'[r] = todo[r]
               \/ \E n \in Numbers, s \in Sites : CleanOne(r, n, s) \/ CleanFails(r, n, s)
<1> USE DEF storeVars, siteVars, partVars, history, removeVars, vars, GoTo, PartInv, RecordTypes
<1>1. CASE \/ \E w \in PartPuts, n \in Numbers : PartBegin(w, n)
           \/ \E w \in PartPuts : PartStep(w) \/ PartStoreFails(w)
           \/ \E w \in PartPuts, s \in Sites : SiteStores(w, s) \/ UploadFails(w, s)
  <2>1. pc'[r] = pc[r] /\ listed' = listed /\ todo' = todo
    BY <1>1, PartLasting DEF PartStep
  <2> QED
    BY <2>1
<1>2. CASE Create \/ Crash \/ Finished \/ UNCHANGED vars \/ \E q \in Requests : LookupFails(q) \/ HangUp(q)
  BY <1>2, RestLasting, RequestSets
<1>3. ASSUME NEW q \in Removers,
             \/ q \in Completes /\ \E ps \in Lists : CompleteBegin(q, ps)
             \/ q \in Completes /\ (CompleteStep(q) \/ FetchFails(q) \/ PutObjectFails(q))
             \/ AbortBegin(q) \/ RemoveStep(q) \/ RemoverStoreFails(q)
             \/ \E n \in Numbers, s \in Sites : CleanFails(q, n, s)
      PROVE  \/ todo'[r] = ToClean(listed'[r])
             \/ /\ pc[r] = "clean" /\ listed'[r] = listed[r]
                /\ \/ todo'[r] = todo[r]
                   \/ \E n \in Numbers, s \in Sites : CleanOne(r, n, s) \/ CleanFails(r, n, s)
  <2>1. CASE q # r
    <3>1. pc'[r] = pc[r] /\ listed'[r] = listed[r] /\ todo'[r] = todo[r]
      BY <1>3, <2>1, RemoverLasting
    <3> QED
      BY <3>1
  <2>2. CASE q = r
    <3>1. r \in Requests
      BY RequestSets
    <3>2. CASE List(r)
      BY <3>1, <3>2 DEF List
    <3>3. CASE r \in Completes /\ CompleteCommit(r)
      BY <3>3 DEF CompleteCommit
    <3>4. CASE \E n \in Numbers, s \in Sites : CleanOne(r, n, s) \/ CleanFails(r, n, s)
      BY <3>4 DEF CleanOne, CleanFails
    <3>5. CASE \/ r \in Completes /\ \E ps \in Lists : CompleteBegin(r, ps)
               \/ r \in Completes /\ (PutObject(r) \/ FetchFails(r) \/ PutObjectFails(r))
               \/ AbortBegin(r) \/ DropUpload(r) \/ DropParts(r) \/ RemoverStoreFails(r)
      BY <3>1, <3>5 DEF CompleteBegin, PutObject, FetchFails, PutObjectFails, AbortBegin,
         DropUpload, DropParts, RemoverStoreFails
    <3>6. CASE r \in Completes /\ FetchPart(r)
      BY <3>1, <3>6 DEF FetchPart
    <3> QED
      BY <1>3, <2>2, <3>2, <3>3, <3>4, <3>5, <3>6 DEF CompleteStep, RemoveStep
  <2> QED
    BY <2>1, <2>2
<1>4. CASE \/ \E c \in Completes, ps \in Lists : CompleteBegin(c, ps)
           \/ \E c \in Completes : CompleteStep(c) \/ FetchFails(c) \/ PutObjectFails(c)
           \/ \E a \in Aborts : AbortBegin(a)
           \/ \E q \in Removers : RemoveStep(q) \/ RemoverStoreFails(q)
           \/ \E q \in Removers, n \in Numbers, s \in Sites : CleanFails(q, n, s)
  BY <1>3, <1>4, RequestSets
<1> QED
  BY <1>1, <1>2, <1>4 DEF Next


(* A clean-up is past what it has deleted or failed to delete.             *)
LEMMA CleanedNext ==
  ASSUME PartInv, UploadLives, CleanedIsGone, [Next]_vars
  PROVE  CleanedIsGone'
<1> SUFFICES ASSUME NEW r \in Removers, NEW n \in Numbers, NEW s \in Sites,
                    r \in removed' \/ pc'[r] = "clean", listed'[r][n] # None
             PROVE  \/ <<n, s>> \in todo'[r]
                    \/ <<listed'[r][n].ver, s>> \in missed' \cup swept'
  BY DEF CleanedIsGone
<1>1. Lasting
  BY StepsLast
<1>2. CASE r \in removed
  <2>1. pc[r] \in Ended /\ listed'[r] = listed[r]
    BY <1>1, <1>2 DEF UploadLives, Ended, Lasting
  <2>2. todo[r] = {}
    BY <2>1 DEF PartInv, CleansListed, Ended, Over
  <2> QED
    BY <1>1, <1>2, <2>1, <2>2 DEF CleanedIsGone, Lasting
<1>3. CASE r \in removed' /\ r \notin removed
  <2>1. DropUpload(r)
    <3>1. PICK q \in Removers : DropUpload(q)
      BY <1>3, Causes
    <3> QED
      BY <1>3, <3>1 DEF DropUpload
  <2>2. /\ pc[r] = "clean" /\ todo[r] = {} /\ listed' = listed
        /\ swept' = swept /\ missed' = missed
    BY <2>1 DEF DropUpload, removeVars
  <2> QED
    BY <2>2 DEF CleanedIsGone
<1>4. CASE pc'[r] = "clean"
  <2>1. CASE todo'[r] = ToClean(listed'[r])
    BY <2>1 DEF ToClean
  <2>2. CASE /\ pc[r] = "clean" /\ listed'[r] = listed[r] /\ todo'[r] = todo[r]
    BY <1>1, <2>2 DEF CleanedIsGone, Lasting
  <2>3. ASSUME NEW m \in Numbers, NEW t \in Sites,
               CleanOne(r, m, t) \/ CleanFails(r, m, t)
        PROVE  \/ <<n, s>> \in todo'[r]
               \/ <<listed'[r][n].ver, s>> \in missed' \cup swept'
    <3>1. /\ pc[r] = "clean" /\ listed' = listed
          /\ todo'[r] = todo[r] \ {<<m, t>>}
          /\ <<listed[r][m].ver, t>> \in missed' \cup swept'
      BY <2>3 DEF CleanOne, CleanFails, PartInv, RecordTypes
    <3>2. CASE <<n, s>> = <<m, t>>
      <4>1. n = m /\ s = t
        BY <3>2
      <4> QED
        BY <3>1, <4>1
    <3>3. CASE <<n, s>> # <<m, t>>
      BY <1>1, <3>1, <3>3 DEF CleanedIsGone, Lasting
    <3> QED
      BY <3>2, <3>3
  <2> QED
    BY <1>4, <2>1, <2>2, <2>3, CleanCauses
<1> QED
  BY <1>2, <1>3, <1>4

(* What a clean-up has deleted is an acknowledged part, and stays off the  *)
(* site of its record.                                                     *)
LEMMA SweptNext ==
  ASSUME PartInv, PartsUploaded, RecordsAcknowledged, SweptIsGone, [Next]_vars
  PROVE  SweptIsGone'
<1> SUFFICES ASSUME NEW w \in PartPuts, NEW s \in Sites, <<w, s>> \in swept'
             PROVE  pc'[w] = "done" /\ (s = home'[w] => w \notin backend'[s])
  BY DEF SweptIsGone
<1>1. Lasting
  BY StepsLast
<1>2. CASE <<w, s>> \in swept
  <2>1. pc[w] = "done" /\ (s = home[w] => w \notin backend[s] /\ task[w][s] = "ok")
    BY <1>2 DEF SweptIsGone, PartsUploaded, UploadedHome
  <2> QED
    BY <1>1, <2>1 DEF Lasting
<1>3. CASE <<w, s>> \notin swept
  <2>1. PICK r \in Removers, n \in Numbers, t \in Sites : CleanOne(r, n, t)
    BY <1>3, Causes
  <2>2. /\ <<n, t>> \in todo[r] /\ swept' = swept \cup {<<listed[r][n].ver, t>>}
        /\ backend' = [backend EXCEPT ![t] = @ \ {listed[r][n].ver}]
    BY <2>1 DEF CleanOne
  <2>3. w = listed[r][n].ver /\ s = t
    <3>1. <<w, s>> = <<listed[r][n].ver, t>>
      BY <1>3, <2>2
    <3> QED
      BY <3>1
  <2>4. listed[r][n] # None
    BY <2>2 DEF PartInv, CleansListed
  <2>5. pc[w] = "done"
    BY <2>3, <2>4 DEF RecordsAcknowledged, Acknowledged
  <2>6. w \notin backend'[s]
    BY <2>2, <2>3 DEF PartInv, RecordTypes
  <2> QED
    BY <1>1, <2>5, <2>6 DEF Lasting
<1> QED
  BY <1>2, <1>3

(* Nothing begins before the upload is there.                              *)
LEMMA NothingRuns ==
  ASSUME PartInv, [Next]_vars, upload = "none", \A r \in Requests : pc[r] = "new"
  PROVE  \A r \in Requests : pc'[r] = "new"
<1> USE RequestSets DEF PartInv, RecordTypes, Over
<1>1. CASE Create \/ Crash \/ Finished \/ UNCHANGED vars \/ \E r \in Requests : LookupFails(r) \/ HangUp(r)
  BY <1>1, RestLasting
<1>2. CASE \E w \in PartPuts, s \in Sites : SiteStores(w, s) \/ UploadFails(w, s)
  BY <1>2 DEF SiteStores, UploadFails
<1>3. ASSUME NEW w \in PartPuts,
             PartStep(w) \/ PartStoreFails(w) \/ \E n \in Numbers : PartBegin(w, n)
      PROVE  FALSE
  BY <1>3 DEF PartBegin, PartStep, PartAcquire, PartFails, PartCommit, PartOk, PartStoreFails
<1>4. ASSUME NEW r \in Removers,
             \/ r \in Completes /\ \E ps \in Lists : CompleteBegin(r, ps)
             \/ r \in Completes /\ (CompleteStep(r) \/ FetchFails(r) \/ PutObjectFails(r))
             \/ AbortBegin(r) \/ RemoveStep(r) \/ RemoverStoreFails(r)
             \/ \E n \in Numbers, s \in Sites : CleanFails(r, n, s)
      PROVE  FALSE
  BY <1>4 DEF CompleteBegin, CompleteStep, FetchFails, PutObjectFails, AbortBegin, RemoveStep,
     RemoverStoreFails, CleanFails, CleanOne, List, DropUpload, DropParts, PutObject,
     CompleteCommit, FetchPart
<1> QED
  BY <1>1, <1>2, <1>3, <1>4 DEF Next

(* An upload is gone when a remover that is past its clean-up has dropped  *)
(* it.                                                                     *)
LEMMA UploadNext ==
  ASSUME PartInv, UploadLives, [Next]_vars
  PROVE  UploadLives'
<1>1. Lasting
  BY StepsLast
<1>2. \/ removed' = removed /\ (upload' = upload \/ Create)
      \/ \E r \in Removers : DropUpload(r)
  BY Causes
<1>3. ASSUME NEW r \in Removers, DropUpload(r)
      PROVE  upload' = "gone" /\ removed' = removed \cup {r} /\ pc'[r] = "drop"
  BY <1>3, RequestSets DEF DropUpload, GoTo, PartInv, RecordTypes
<1>4. ASSUME upload' = "none"
      PROVE  \A r \in Requests : pc'[r] = "new"
  <2>1. upload = "none"
    BY <1>2, <1>3, <1>4 DEF Create
  <2> QED
    BY <2>1, NothingRuns DEF UploadLives
<1>5. upload' = "gone" <=> removed' # {}
  <2>1. CASE removed' = removed /\ (upload' = upload \/ Create)
    BY <2>1 DEF Create, UploadLives
  <2>2. CASE \E r \in Removers : DropUpload(r)
    BY <1>3, <2>2
  <2> QED
    BY <1>2, <2>1, <2>2
<1>6. ASSUME NEW r \in removed'
      PROVE  pc'[r] \in Ended
  <2>1. CASE r \in removed
    <3>1. r \in Removers
      BY <2>1 DEF PartInv, RecordTypes
    <3> QED
      BY <1>1, <2>1, <3>1 DEF UploadLives, Lasting, Ended
  <2>2. CASE r \notin removed
    BY <1>2, <1>3, <1>6, <2>2 DEF Ended
  <2> QED
    BY <2>1, <2>2
<1>7. ASSUME NEW r \in Removers, pc'[r] = "drop"
      PROVE  r \in removed'
  <2>1. CASE pc[r] = "drop"
    BY <1>1, <2>1 DEF UploadLives, Lasting
  <2>2. CASE DropUpload(r)
    BY <1>3, <2>2
  <2> QED
    BY <1>7, <2>1, <2>2, Causes
<1> QED
  BY <1>4, <1>5, <1>6, <1>7 DEF UploadLives, Ended

(* An UploadPart goes through the phases of an UploadPart.                 *)
LEMMA PhasesNext ==
  ASSUME PartInv, PartPhases, [Next]_vars
  PROVE  PartPhases'
<1> USE DEF PartInv, RecordTypes, GoTo, Over
<1> SUFFICES ASSUME NEW w \in PartPuts
             PROVE  pc'[w] \in {"new", "wait", "fanout", "commit"} \cup Over
  BY DEF PartPhases
<1>1. pc[w] \in {"new", "wait", "fanout", "commit"} \cup Over
  BY DEF PartPhases
<1>2. CASE \E v \in PartPuts, n \in Numbers : PartBegin(v, n)
  BY <1>1, <1>2, RequestSets DEF PartBegin
<1>3. CASE \E v \in PartPuts : PartStep(v) \/ PartStoreFails(v)
  BY <1>1, <1>3, RequestSets DEF PartStep, PartAcquire, PartFails, PartCommit, PartOk,
     PartStoreFails
<1>4. CASE \E v \in PartPuts, s \in Sites : SiteStores(v, s) \/ UploadFails(v, s)
  BY <1>1, <1>4 DEF SiteStores, UploadFails
<1>5. CASE Create \/ Crash \/ Finished \/ UNCHANGED vars \/ \E r \in Requests : LookupFails(r) \/ HangUp(r)
  BY <1>1, <1>5, RestLasting, RequestSets
<1>6. CASE \/ \E c \in Completes, ps \in Lists : CompleteBegin(c, ps)
           \/ \E c \in Completes : CompleteStep(c) \/ FetchFails(c) \/ PutObjectFails(c)
           \/ \E a \in Aborts : AbortBegin(a)
           \/ \E r \in Removers : RemoveStep(r) \/ RemoverStoreFails(r)
           \/ \E r \in Removers, n \in Numbers, s \in Sites : CleanFails(r, n, s)
  BY <1>1, <1>6, RemoverLasting, RequestSets
<1> QED
  BY <1>2, <1>3, <1>4, <1>5, <1>6 DEF Next


(* Which requests hold a permit, and how a step changes that.              *)
LEMMA BusyStep ==
  ASSUME PartInv, PartPhases, [Next]_vars
  PROVE  \/ Busy' = Busy /\ permits' = permits
         \/ \E w \in PartPuts \ Busy :
               Busy' = Busy \cup {w} /\ permits > 0 /\ permits' = permits - 1
         \/ \E w \in Busy : Busy' = Busy \ {w} /\ permits' = permits + 1
         \/ Busy' = {} /\ permits' = MaxUploads
<1> USE DEF PartInv, RecordTypes, GoTo
<1>1. ASSUME NEW w \in PartPuts, NEW phase \in Phases, pc' = [pc EXCEPT ![w] = phase]
      PROVE  \A v \in PartPuts : pc'[v] = IF v = w THEN phase ELSE pc[v]
  BY <1>1, RequestSets
<1>2. ASSUME \A v \in PartPuts : pc'[v] = pc[v]
      PROVE  Busy' = Busy
  BY <1>2 DEF Busy
<1>3. ASSUME NEW w \in PartPuts,
             \/ PartAcquire(w) \/ PartFails(w) \/ PartCommit(w) \/ PartStoreFails(w)
             \/ \E n \in Numbers : PartBegin(w, n)
             \/ \E s \in Sites : PartOk(w, s) \/ SiteStores(w, s) \/ UploadFails(w, s)
             \/ LookupFails(w) \/ HangUp(w)
      PROVE  \/ Busy' = Busy /\ permits' = permits
             \/ /\ w \notin Busy /\ Busy' = Busy \cup {w}
                /\ permits > 0 /\ permits' = permits - 1
             \/ w \in Busy /\ Busy' = Busy \ {w} /\ permits' = permits + 1
  <2>1. CASE PartAcquire(w)
    <3>1. \A v \in PartPuts : pc'[v] = IF v = w THEN "fanout" ELSE pc[v]
      BY <1>1, <2>1 DEF PartAcquire, Phases
    <3> QED
      BY <2>1, <3>1 DEF PartAcquire, Busy
  <2>2. CASE PartFails(w) \/ PartCommit(w) \/ PartStoreFails(w)
    <3>1. PICK phase \in {"done", "failed"} :
            \A v \in PartPuts : pc'[v] = IF v = w THEN phase ELSE pc[v]
      BY <1>1, <2>2 DEF PartFails, PartCommit, PartStoreFails, Phases, Over
    <3>2. w \in Busy /\ Busy' = Busy \ {w}
      BY <2>2, <3>1 DEF PartFails, PartCommit, PartStoreFails, Busy
    <3>3. permits' = permits + 1
      BY <2>2 DEF PartFails, PartCommit, PartStoreFails
    <3> QED
      BY <3>2, <3>3
  <2>3. CASE \E n \in Numbers : PartBegin(w, n)
    <3>1. PICK phase \in {"wait", "failed"} :
            \A v \in PartPuts : pc'[v] = IF v = w THEN phase ELSE pc[v]
      BY <1>1, <2>3 DEF PartBegin, Phases, Over
    <3> QED
      BY <2>3, <3>1 DEF PartBegin, Busy
  <2>4. CASE \E s \in Sites : PartOk(w, s)
    <3>1. \A v \in PartPuts : pc'[v] = IF v = w THEN "commit" ELSE pc[v]
      BY <1>1, <2>4 DEF PartOk, Phases
    <3> QED
      BY <2>4, <3>1 DEF PartOk, Busy
  <2>5. CASE \E s \in Sites : SiteStores(w, s) \/ UploadFails(w, s)
    BY <1>2, <2>5 DEF SiteStores, UploadFails
  <2>6. CASE HangUp(w)
    <3>1. \A v \in PartPuts : pc'[v] = IF v = w THEN "failed" ELSE pc[v]
      BY <1>1, <2>6 DEF HangUp, Phases, Over
    <3>2. pc[w] \in {"wait", "fanout", "commit"}
      BY <2>6 DEF HangUp, PartPhases, Over
    <3>3. permits' = IF pc[w] # "wait" THEN permits + 1 ELSE permits
      BY <2>6 DEF HangUp
    <3>4. CASE pc[w] = "wait"
      BY <3>1, <3>3, <3>4 DEF Busy
    <3>5. CASE pc[w] # "wait"
      <4>1. w \in Busy /\ Busy' = Busy \ {w}
        BY <3>1, <3>2, <3>5 DEF Busy
      <4> QED
        BY <3>3, <3>5, <4>1
    <3> QED
      BY <3>4, <3>5
  <2>7. CASE LookupFails(w)
    <3>1. \A v \in PartPuts : pc'[v] = IF v = w THEN "failed" ELSE pc[v]
      BY <1>1, <2>7 DEF LookupFails, Phases, Over
    <3>2. pc[w] \in {"new", "wait"} /\ permits' = permits
      BY <2>7 DEF LookupFails
    <3> QED
      BY <3>1, <3>2 DEF Busy
  <2> QED
    BY <1>3, <2>1, <2>2, <2>3, <2>4, <2>5, <2>6, <2>7
<1>4. CASE Crash
  BY <1>4, RequestSets DEF Crash, Busy, Over
<1>5. CASE Create \/ Finished \/ UNCHANGED vars
  <2>1. pc' = pc /\ permits' = permits
    BY <1>5 DEF Create, Finished, vars
  <2> QED
    BY <1>2, <2>1
<1>6. ASSUME NEW r \in Removers, LookupFails(r) \/ HangUp(r)
      PROVE  Busy' = Busy /\ permits' = permits
  <2>1. r \in Requests /\ r \notin PartPuts
    BY RequestSets
  <2>2. pc' = [pc EXCEPT ![r] = "failed"] /\ permits' = permits
    BY <1>6, <2>1 DEF LookupFails, HangUp
  <2> QED
    BY <1>2, <2>1, <2>2, RequestSets
<1>7. CASE \/ \E c \in Completes, ps \in Lists : CompleteBegin(c, ps)
           \/ \E c \in Completes : CompleteStep(c) \/ FetchFails(c) \/ PutObjectFails(c)
           \/ \E a \in Aborts : AbortBegin(a)
           \/ \E r \in Removers : RemoveStep(r) \/ RemoverStoreFails(r)
           \/ \E r \in Removers, n \in Numbers, s \in Sites : CleanFails(r, n, s)
  BY <1>2, <1>7, RemoverLasting, RequestSets
<1>8. CASE \/ \E w \in PartPuts, n \in Numbers : PartBegin(w, n)
           \/ \E w \in PartPuts : PartStep(w) \/ PartStoreFails(w)
           \/ \E w \in PartPuts, s \in Sites : SiteStores(w, s) \/ UploadFails(w, s)
           \/ \E w \in PartPuts : LookupFails(w) \/ HangUp(w)
  <2>1. PICK w \in PartPuts :
             \/ PartAcquire(w) \/ PartFails(w) \/ PartCommit(w) \/ PartStoreFails(w)
             \/ \E n \in Numbers : PartBegin(w, n)
             \/ \E s \in Sites : PartOk(w, s) \/ SiteStores(w, s) \/ UploadFails(w, s)
             \/ LookupFails(w) \/ HangUp(w)
    BY <1>8 DEF PartStep
  <2>2. \/ Busy' = Busy /\ permits' = permits
        \/ w \notin Busy /\ Busy' = Busy \cup {w} /\ permits > 0 /\ permits' = permits - 1
        \/ w \in Busy /\ Busy' = Busy \ {w} /\ permits' = permits + 1
    BY <1>3, <2>1
  <2> QED
    BY <2>2
<1>9. CASE \E r \in Requests : LookupFails(r) \/ HangUp(r)
  <2>1. CASE \E w \in PartPuts : LookupFails(w) \/ HangUp(w)
    BY <1>8, <2>1
  <2>2. CASE \E r \in Removers : LookupFails(r) \/ HangUp(r)
    BY <1>6, <2>2
  <2> QED
    BY <1>9, <2>1, <2>2 DEF Requests
<1> QED
  BY <1>4, <1>5, <1>7, <1>8, <1>9 DEF Next

(* Every permit is free or with an UploadPart.                             *)
LEMMA PermitsNext ==
  ASSUME PartInv, PartPhases, PermitsCounted, [Next]_vars
  PROVE  PermitsCounted'
<1> USE DEF PermitsCounted
<1>1. IsFiniteSet(Busy) /\ Cardinality(Busy) \in Nat
  <2>1. Busy \subseteq PartPuts
    BY DEF Busy
  <2> QED
    BY <2>1, FS_Subset, FS_CardinalityType, RequestsAssumption
<1>2. MaxUploads \in Nat /\ permits \in Nat /\ permits + Cardinality(Busy) = MaxUploads
  BY BoundsAssumption
<1>3. ASSUME NEW w \in PartPuts \ Busy, Busy' = Busy \cup {w}, permits > 0,
             permits' = permits - 1
      PROVE  PermitsCounted'
  <2>1. Cardinality(Busy') = Cardinality(Busy) + 1
    BY <1>1, <1>3, FS_AddElement
  <2> QED
    BY <1>1, <1>2, <1>3, <2>1
<1>4. ASSUME NEW w \in Busy, Busy' = Busy \ {w}, permits' = permits + 1
      PROVE  PermitsCounted'
  <2>1. Cardinality(Busy') = Cardinality(Busy) - 1
    BY <1>1, <1>4, FS_RemoveElement
  <2> QED
    BY <1>1, <1>2, <1>4, <2>1
<1>5. CASE Busy' = {} /\ permits' = MaxUploads
  <2>1. Cardinality(Busy') = 0
    BY <1>5, FS_EmptySet
  <2> QED
    BY <1>2, <1>5, <2>1
<1>6. CASE Busy' = Busy /\ permits' = permits
  BY <1>6
<1> QED
  BY <1>3, <1>4, <1>5, <1>6, BusyStep

(* A part is accounted for once it is acknowledged, and from then on.      *)
LEMMA AccountedNext ==
  ASSUME CleanInv, [Next]_vars
  PROVE  PartsAccounted'
<1> USE DEF CleanInv
<1> SUFFICES ASSUME NEW w \in PartPuts, NEW s \in Sites, pc'[w] = "done",
                    ~Replaced(w)', <<w, s>> \notin missed' \cup swept'
             PROVE  \/ Recorded(w)' /\ upload' = "open"
                    \/ upload' = "gone" /\ \A r \in removed' : ~HadListed(r, w)'
  BY DEF PartsAccounted, Accounted
<1>1. Lasting
  BY StepsLast
<1>2. w \in Requests
  BY RequestSets
(* An UploadPart that ends now is recorded, or a remover has read before.  *)
<1>3. CASE PartCommit(w)
  <2>1. pc[w] = "commit" /\ number' = number /\ upload' = upload /\ UNCHANGED history
        /\ listed' = listed
    BY <1>3 DEF PartCommit, partVars, removeVars
  <2>2. number[w] \in Numbers
    BY <2>1 DEF PartInv, HomesStored
  <2>3. upload \in {"open", "gone"}
    BY <1>2, <2>1 DEF UploadLives, PartInv, RecordTypes
  <2>4. Recorded(w)'
    <3>1. parts'[number[w]] = [ver |-> w, site |-> home[w]]
      BY <1>3, <2>2 DEF PartCommit, PartInv, RecordTypes
    <3>2. parts'[number[w]] # None
      <4>1. home[w] \in Sites
        BY <2>1 DEF PartInv, HomesStored
      <4>2. [ver |-> w, site |-> home[w]] # None
        BY <4>1, RequestsAssumption
      <4> QED
        BY <3>1, <4>2
    <3> QED
      BY <2>1, <3>1, <3>2 DEF Recorded
  <2>5. ASSUME NEW r \in removed'
        PROVE  ~HadListed(r, w)'
    <3>1. r \in Removers
      BY <2>1 DEF history, PartInv, RecordTypes
    <3>2. listed[r][number[w]] = None \/ listed[r][number[w]].ver # w
      BY <2>1, <2>2, <3>1 DEF RecordsAcknowledged, Acknowledged
    <3> QED
      BY <2>1, <3>2 DEF HadListed
  <2> QED
    BY <2>1, <2>3, <2>4, <2>5
<1>4. CASE pc[w] = "done"
  <2>1. number'[w] = number[w] /\ number[w] \in Numbers
    BY <1>1, <1>4 DEF Lasting, PartInv, HomesStored
  <2>2. <<w, s>> \notin missed \cup swept
    BY <1>1 DEF Lasting
  <2>3. ~Replaced(w)
    BY <1>1, <2>1 DEF Replaced, Lasting
  <2>4. \/ Recorded(w) /\ upload = "open"
        \/ upload = "gone" /\ \A r \in removed : ~HadListed(r, w)
    BY <1>4, <2>2, <2>3 DEF PartsAccounted, Accounted
(* A remover that drops the upload has not listed the part.                *)
  <2>5. ASSUME NEW r \in Removers, DropUpload(r), \A q \in removed : ~HadListed(q, w)
        PROVE  upload' = "gone" /\ \A q \in removed' : ~HadListed(q, w)'
    <3>1. pc[r] = "clean" /\ todo[r] = {} /\ listed' = listed /\ upload' = "gone"
          /\ removed' = removed \cup {r}
      BY <2>5 DEF DropUpload, removeVars
    <3>2. ~HadListed(r, w)
      BY <2>1, <2>2, <3>1 DEF CleanedIsGone, HadListed
    <3> QED
      BY <2>1, <2>5, <3>1, <3>2 DEF HadListed
  <2>6. CASE upload = "gone" /\ \A r \in removed : ~HadListed(r, w)
    <3>1. CASE \E r \in Removers : DropUpload(r)
      BY <2>5, <2>6, <3>1
    <3>2. CASE removed' = removed
      <4>1. \A r \in removed : r \in Removers /\ pc[r] \in Ended
        BY DEF UploadLives, Ended, PartInv, RecordTypes
      <4>2. \A r \in removed : listed'[r] = listed[r]
        BY <1>1, <4>1 DEF Lasting
      <4> QED
        BY <1>1, <2>1, <2>6, <3>2, <4>2 DEF HadListed, Lasting
    <3> QED
      BY <3>1, <3>2, Causes
  <2>7. CASE Recorded(w) /\ upload = "open"
    <3>1. parts[number[w]] # None /\ parts[number[w]].ver = w /\ removed = {}
      BY <2>7 DEF Recorded, UploadLives
    <3>2. CASE parts' = parts /\ upload' = upload
      BY <2>1, <2>7, <3>2 DEF Recorded
    <3>3. CASE \E r \in Removers : DropUpload(r)
      BY <2>5, <3>1, <3>3
    <3>4. CASE \E v \in PartPuts : PartCommit(v)
      <4>1. PICK v \in PartPuts : PartCommit(v)
        BY <3>4
      <4>2. /\ parts' = [parts EXCEPT ![number[v]] = [ver |-> v, site |-> home[v]]]
            /\ number' = number /\ upload' = upload /\ pc[v] = "commit"
        BY <4>1 DEF PartCommit, partVars
      <4>3. pc'[v] = "done" /\ v # w
        BY <1>4, <4>1, <4>2, RequestSets DEF PartCommit, GoTo, PartInv, RecordTypes
      <4>4. number[v] # number[w]
        BY <4>2, <4>3 DEF Replaced
      <4>5. parts'[number[w]] = parts[number[w]]
        BY <2>1, <4>2, <4>4 DEF PartInv, RecordTypes
      <4> QED
        BY <2>1, <2>7, <3>1, <4>2, <4>5 DEF Recorded
    <3>5. ~ \E r \in Removers : DropParts(r)
      BY <2>7, <3>1 DEF DropParts, UploadLives
    <3>6. ~Create
      BY <2>7 DEF Create
    <3>7. parts' = parts \/ \E v \in PartPuts : PartCommit(v)
      BY <3>5, Causes
    <3>8. upload' = upload \/ \E r \in Removers : DropUpload(r)
      BY <3>6, Causes
    <3> QED
      BY <3>2, <3>3, <3>4, <3>7, <3>8
  <2> QED
    BY <2>4, <2>6, <2>7
<1> QED
  BY <1>3, <1>4, Causes

-----------------------------------------------------------------------------
(* No part is forgotten: the theorems *)

(* The invariant holds before the upload is created.                       *)
LEMMA CleanInit == Init => CleanInv
<1> SUFFICES ASSUME Init PROVE CleanInv
  OBVIOUS
<1>1. PartInv
  BY PartInit
<1>2. \A r \in Requests : pc[r] = "new"
  BY DEF Init
<1>3. faults \in Nat /\ swept = {} /\ removed = {} /\ upload = "none"
  BY DEF Init
<1>4. PartsUploaded /\ PartPhases /\ PartsAccounted
  BY <1>2, RequestSets DEF PartsUploaded, UploadedHome, PartPhases, PartsAccounted
<1>5. RecordsAcknowledged
  BY DEF Init, RecordsAcknowledged, Acknowledged
<1>6. CleanedIsGone /\ SweptIsGone /\ UploadLives
  BY <1>2, <1>3, RequestSets DEF CleanedIsGone, SweptIsGone, UploadLives
<1>7. PermitsCounted
  <2>1. Busy = {}
    BY <1>2, RequestSets DEF Busy
  <2>2. Cardinality(Busy) = 0
    BY <2>1, FS_EmptySet
  <2> QED
    BY <2>2, BoundsAssumption DEF Init, PermitsCounted
<1> QED
  BY <1>1, <1>3, <1>4, <1>5, <1>6, <1>7 DEF CleanInv

(* Every step of the specification keeps the invariant.                    *)
LEMMA CleanNext == CleanInv /\ [Next]_vars => CleanInv'
<1> SUFFICES ASSUME CleanInv, [Next]_vars PROVE CleanInv'
  OBVIOUS
<1>1. PartInv'
  BY PartNext DEF CleanInv
<1>2. faults' \in Nat
  BY FaultsCount DEF CleanInv
<1>3. PartsUploaded'
  BY UploadedNext DEF CleanInv
<1>4. RecordsAcknowledged'
  BY AcknowledgedNext DEF CleanInv
<1>5. CleanedIsGone' /\ SweptIsGone'
  BY CleanedNext, SweptNext DEF CleanInv
<1>6. UploadLives' /\ PartPhases' /\ PermitsCounted'
  BY UploadNext, PhasesNext, PermitsNext DEF CleanInv
<1>7. PartsAccounted'
  BY AccountedNext
<1> QED
  BY <1>1, <1>2, <1>3, <1>4, <1>5, <1>6, <1>7 DEF CleanInv

(* The invariant holds in every state that multipart requests reach.       *)
THEOREM CleanInvCorrect == Spec => []CleanInv
  BY CleanInit, CleanNext, PTL DEF Spec

(* No site keeps an acknowledged part of an upload that is gone, but for   *)
(* the four exceptions, however often uploads, completions and aborts are  *)
(* cut short, fail and are made again: cleanup_parts on every site before  *)
(* delete_multipart_upload leaves no other.                                *)
THEOREM NoPartForgottenCorrect == Spec => []NoPartForgotten
<1>1. CleanInv => NoPartForgotten
  <2> SUFFICES ASSUME CleanInv, NEW w \in PartPuts, NEW s \in Sites, pc[w] = "done",
                      w \in backend[s]
               PROVE  Accounted(w, s) /\ (<<w, s>> \in swept => s # home[w])
    BY DEF NoPartForgotten, Accounted
  <2> QED
    BY DEF CleanInv, PartsAccounted, SweptIsGone
<1> QED
  BY <1>1, CleanInvCorrect, PTL

(* The types of the variables, and that permits are neither lost nor made  *)
(* on any path out of upload_part: there are never more than the           *)
(* semaphore was created with, and never fewer than none.                  *)
THEOREM MultipartTypeCorrect == Spec => []TypeOK
<1>1. CleanInv => TypeOK
  <2> SUFFICES ASSUME CleanInv PROVE TypeOK
    OBVIOUS
  <2>1. Cardinality(Busy) \in Nat
    <3>1. Busy \subseteq PartPuts
      BY DEF Busy
    <3> QED
      BY <3>1, FS_Subset, FS_CardinalityType, RequestsAssumption
  <2>2. permits \in 0 .. MaxUploads
    BY <2>1, BoundsAssumption DEF CleanInv, PermitsCounted
  <2>3. \A r \in Removers : todo[r] # {} => pc[r] = "clean"
    BY DEF CleanInv, PartInv, CleansListed
  <2> QED
    BY <2>2, <2>3 DEF CleanInv, PartInv, TypeOK
<1> QED
  BY <1>1, CleanInvCorrect, PTL

-----------------------------------------------------------------------------
(* Completions fetch and commit what they have read *)

CompletionOk(c) ==
  /\ pc[c] = "new" => named[c] = <<>>
  /\ pc[c] \in {"new", "list"} =>
        got[c] = <<>> /\ listed[c] = [n \in Numbers |-> None]
  /\ Len(got[c]) <= Len(named[c])
  /\ \A i \in DOMAIN got[c] : /\ listed[c][NumberOf(c, i)] # None
                              /\ got[c][i] = listed[c][NumberOf(c, i)].ver
  /\ pc[c] \in {"list", "fetch", "commit"} => named[c] # <<>>
  /\ pc[c] = "commit" => Len(got[c]) = Len(named[c])
  /\ object = c => pc[c] \in {"clean", "drop"} \cup Over

(* The invariant says the same of every completion.                        *)
LEMMA EveryCompletion ==
  /\ CompleteInv <=> CleanInv /\ \A c \in Completes : CompletionOk(c)
  /\ CompleteInv' <=> CleanInv' /\ \A c \in Completes : CompletionOk(c)'
<1>1. CompleteInv <=> CleanInv /\ \A c \in Completes : CompletionOk(c)
  BY DEF CompleteInv, StartsEmpty, FetchedAsListed, CommitsAll, CompletionOk
<1>2. CompleteInv' <=> CleanInv' /\ \A c \in Completes : CompletionOk(c)'
  BY DEF CompleteInv, StartsEmpty, FetchedAsListed, CommitsAll, CompletionOk
<1> QED BY <1>1, <1>2

(* A completion that at most stops, fails or drops its parts.              *)
Rests(c) ==
  /\ named'[c] = named[c] /\ listed'[c] = listed[c] /\ got'[c] = got[c]
  /\ pc'[c] = pc[c] \/ pc'[c] \in {"drop"} \cup Over
  /\ object' = c => object = c

(* What a completion lists and has fetched are sequences, the second no    *)
(* longer than the first.                                                  *)
LEMMA FetchedIsNamed ==
  ASSUME PartInv, NEW c \in Completes, Len(got[c]) <= Len(named[c])
  PROVE  DOMAIN got[c] = 1 .. Len(got[c]) /\ DOMAIN got[c] \subseteq DOMAIN named[c]
<1>1. got[c] \in Seq(PartPuts)
  BY DEF PartInv, RecordTypes
<1>2. DOMAIN got[c] = 1 .. Len(got[c])
  BY <1>1, LenProperties
<1> QED
  BY <1>2, NamesNumbered DEF PartInv

LEMMA RestingStaysOk ==
  ASSUME PartInv, [Next]_vars, NEW c \in Completes, CompletionOk(c), Rests(c)
  PROVE  CompletionOk(c)'
<1>1. DoneStays
  BY StepsLast DEF Lasting, DoneStays
<1>2. \A i \in DOMAIN got[c] : NumberOf(c, i)' = NumberOf(c, i)
  BY <1>1, FetchedIsNamed, NumbersFrame DEF CompletionOk, Rests
<1> QED
  BY <1>2 DEF CompletionOk, Rests, Over

(* The steps by which a completion gets on.                                *)
GetsOn(c) ==
  \/ \E ps \in Lists : CompleteBegin(c, ps)
  \/ List(c) \/ PutObject(c) \/ CompleteCommit(c) \/ FetchPart(c)

LEMMA CompletionMoves ==
  ASSUME PartInv, [Next]_vars, NEW c \in Completes
  PROVE  Rests(c) \/ GetsOn(c)
<1> USE DEF storeVars, siteVars, partVars, history, removeVars, GoTo, PartInv, RecordTypes
<1>0. c \in Requests /\ c \in Removers /\ c \notin PartPuts /\ c \notin Aborts
  BY RequestSets
<1>1. CASE \/ \E w \in PartPuts, n \in Numbers : PartBegin(w, n)
           \/ \E w \in PartPuts : PartStep(w) \/ PartStoreFails(w)
           \/ \E w \in PartPuts, s \in Sites : SiteStores(w, s) \/ UploadFails(w, s)
  <2>1. pc'[c] = pc[c]
    BY <1>0, <1>1, PartLasting DEF PartStep
  <2>2. named' = named /\ listed' = listed /\ got' = got /\ object' = object
    BY <1>1 DEF PartBegin, PartStep, PartStoreFails, PartAcquire, PartFails, PartCommit, PartOk,
       SiteStores, UploadFails
  <2> QED BY <2>1, <2>2 DEF Rests
<1>2. ASSUME NEW r \in Completes, \E ps \in Lists : CompleteBegin(r, ps)
      PROVE  Rests(c) \/ GetsOn(c)
  <2>1. CASE r # c
    BY <1>0, <1>2, <2>1, RequestSets DEF CompleteBegin, Rests
  <2> QED BY <1>2, <2>1 DEF GetsOn
<1>3. ASSUME NEW r \in Completes, CompleteStep(r) \/ FetchFails(r) \/ PutObjectFails(r)
      PROVE  Rests(c) \/ GetsOn(c)
  <2>1. CASE r # c
    BY <1>0, <1>3, <2>1, RequestSets
       DEF CompleteStep, PutObject, CompleteCommit, FetchPart, FetchFails, PutObjectFails, Rests
  <2>2. CASE FetchFails(c) \/ PutObjectFails(c)
    BY <1>0, <2>2 DEF FetchFails, PutObjectFails, Rests, Over
  <2> QED BY <1>3, <2>1, <2>2 DEF GetsOn, CompleteStep
<1>4. ASSUME NEW r \in Removers,
             \/ r # c /\ AbortBegin(r)
             \/ DropUpload(r) \/ DropParts(r) \/ RemoverStoreFails(r)
      PROVE  Rests(c)
  <2>1. named' = named /\ listed' = listed /\ got' = got /\ object' = object
    BY <1>4 DEF AbortBegin, DropUpload, DropParts, RemoverStoreFails
  <2>2. CASE r = c
    <3>1. pc' = [pc EXCEPT ![c] = "drop"] \/ pc' = [pc EXCEPT ![c] = "done"]
          \/ pc' = [pc EXCEPT ![c] = "failed"]
      BY <1>4, <2>2 DEF DropUpload, DropParts, RemoverStoreFails
    <3>2. pc'[c] \in {"drop", "done", "failed"}
      BY <1>0, <3>1
    <3> QED BY <2>1, <3>2 DEF Rests, Over
  <2>3. CASE r # c
    <3>1. \E phase : pc' = [pc EXCEPT ![r] = phase]
      BY <1>4 DEF AbortBegin, DropUpload, DropParts, RemoverStoreFails
    <3>2. pc'[c] = pc[c]
      BY <1>0, <2>3, <3>1
    <3> QED BY <2>1, <3>2 DEF Rests
  <2> QED BY <2>2, <2>3
<1>5. ASSUME NEW r \in Removers, List(r)
      PROVE  Rests(c) \/ GetsOn(c)
  <2>1. CASE r # c
    BY <1>0, <1>5, <2>1, RequestSets DEF List, Rests
  <2> QED BY <1>5, <2>1 DEF GetsOn
<1>6. ASSUME NEW r \in Removers, NEW n \in Numbers, NEW s \in Sites,
             CleanOne(r, n, s) \/ CleanFails(r, n, s)
      PROVE  Rests(c)
  BY <1>6 DEF CleanOne, CleanFails, Rests
<1>7. CASE Create \/ Crash \/ Finished \/ UNCHANGED vars \/ \E r \in Requests : LookupFails(r) \/ HangUp(r)
  <2>1. pc'[c] = pc[c] \/ pc'[c] = "failed"
    BY <1>0, <1>7, RestLasting
  <2>2. named' = named /\ listed' = listed /\ got' = got /\ object' = object
    BY <1>7 DEF Create, Crash, Finished, HangUp, LookupFails, storeVars, partVars, history, vars
  <2> QED BY <2>1, <2>2 DEF Rests, Over
<1>8. Aborts \subseteq Removers
  BY RequestSets
<1> QED
  BY <1>0, <1>1, <1>2, <1>3, <1>4, <1>5, <1>6, <1>7, <1>8 DEF Next, RemoveStep

(* What a completion does keeps it in order.                               *)
LEMMA GettingOnStaysOk ==
  ASSUME CompleteInv, NEW c \in Completes, GetsOn(c)
  PROVE  CompletionOk(c)'
<1> USE DEF storeVars, siteVars, partVars, removeVars, GoTo
<1>0. c \in Requests /\ c \in Removers /\ c \notin Aborts
  BY RequestSets
<1>1. CompletionOk(c) /\ PartInv /\ RecordTypes
  BY EveryCompletion DEF CleanInv, PartInv
<1>2. Len(<<>>) = 0 /\ DOMAIN <<>> = {}
  OBVIOUS
<1>3. ASSUME NEW ps \in Lists, CompleteBegin(c, ps)
      PROVE  CompletionOk(c)'
  <2>1. pc[c] = "new" /\ pc'[c] \in {"list", "failed"} /\ named'[c] = ps
    BY <1>0, <1>1, <1>3 DEF CompleteBegin, RecordTypes
  <2>2. ps # <<>> /\ Len(ps) \in Nat
    BY ListOfParts, LenProperties
  <2>3. got'[c] = <<>> /\ listed'[c] = [n \in Numbers |-> None] /\ object' # c
    BY <1>1, <1>3, <2>1 DEF CompletionOk, CompleteBegin, Over
  <2> QED BY <1>2, <2>1, <2>2, <2>3 DEF CompletionOk
<1>4. CASE List(c)
  <2>1. pc[c] = "list" /\ pc'[c] \in {"fetch", "failed"}
    BY <1>0, <1>1, <1>4 DEF List, RecordTypes
  <2>2. got'[c] = <<>> /\ named'[c] = named[c] /\ named[c] # <<>> /\ object' # c
    BY <1>1, <1>4, <2>1 DEF CompletionOk, List, Over
  <2>3. Len(named[c]) \in Nat
    BY <1>1, NamesNumbered DEF PartInv
  <2> QED BY <1>2, <2>1, <2>2, <2>3 DEF CompletionOk
<1>5. CASE PutObject(c)
  <2>1. pc[c] = "fetch" /\ pc'[c] = "commit" /\ Len(got[c]) = Len(named[c])
    BY <1>0, <1>1, <1>5 DEF PutObject, RecordTypes
  <2>2. /\ named' = named /\ listed' = listed /\ got' = got /\ object' = object
        /\ number' = number
    BY <1>5 DEF PutObject
  <2>3. named[c] # <<>> /\ object # c
    BY <1>1, <2>1 DEF CompletionOk, Over
  <2> QED BY <1>1, <2>1, <2>2, <2>3 DEF CompletionOk, NumberOf
<1>6. CASE CompleteCommit(c)
  <2>1. pc[c] = "commit" /\ pc'[c] = "clean"
    BY <1>0, <1>1, <1>6 DEF CompleteCommit, RecordTypes
  <2>2. named' = named /\ listed' = listed /\ got' = got /\ number' = number
    BY <1>6 DEF CompleteCommit
  <2> QED BY <1>1, <2>1, <2>2 DEF CompletionOk, NumberOf
<1>7. CASE FetchPart(c)
  <2> DEFINE p == listed[c][NextNumber(c)]
  <2>1. /\ pc[c] = "fetch" /\ pc'[c] \in {"fetch", "missing"}
        /\ named' = named /\ listed' = listed /\ object' = object /\ number' = number
        /\ Len(got[c]) < Len(named[c])
    BY <1>0, <1>1, <1>7 DEF FetchPart, RecordTypes
  <2>2. p \in Records /\ p # None
    BY <1>0, <1>1, <2>1, NextIsNamed DEF PartInv, FetchesListed, RecordTypes
  <2>3. CASE got' = got
    BY <1>1, <2>1, <2>3 DEF CompletionOk, NumberOf, Over
  <2>4. CASE got' = [got EXCEPT ![c] = Append(@, p.ver)]
    <3>1. got[c] \in Seq(PartPuts) /\ p.ver \in PartPuts
      BY <1>1, <2>2 DEF RecordTypes, Records
    <3>2. /\ Len(got'[c]) = Len(got[c]) + 1 /\ DOMAIN got'[c] = 1 .. Len(got[c]) + 1
          /\ got'[c][Len(got[c]) + 1] = p.ver
          /\ \A i \in 1 .. Len(got[c]) : got'[c][i] = got[c][i]
          /\ Len(got[c]) \in Nat /\ DOMAIN got[c] = 1 .. Len(got[c])
      <4>1. got'[c] = Append(got[c], p.ver)
        BY <1>1, <2>4 DEF RecordTypes
      <4> QED BY <3>1, <4>1, LenProperties
    <3>3. Len(got'[c]) <= Len(named[c])
      BY <1>1, <2>1, <3>2, NamesNumbered DEF PartInv
    <3>4. ASSUME NEW i \in DOMAIN got'[c]
          PROVE  /\ listed[c][NumberOf(c, i)] # None
                 /\ got'[c][i] = listed[c][NumberOf(c, i)].ver
      <4>1. CASE i \in DOMAIN got[c]
        BY <1>1, <3>2, <4>1 DEF CompletionOk
      <4>2. CASE i = Len(got[c]) + 1
        BY <2>2, <3>2, <4>2 DEF NextNumber
      <4> QED BY <3>2, <3>4, <4>1, <4>2
    <3> QED BY <1>1, <2>1, <3>3, <3>4 DEF CompletionOk, NumberOf, Over
  <2> QED BY <1>7, <2>3, <2>4 DEF FetchPart
<1> QED BY <1>3, <1>4, <1>5, <1>6, <1>7 DEF GetsOn

LEMMA CompleteInit == Init => CompleteInv
<1> SUFFICES ASSUME Init PROVE CompleteInv
  OBVIOUS
<1>1. ASSUME NEW c \in Completes
      PROVE  CompletionOk(c)
  <2>1. pc[c] = "new" /\ object # c /\ named[c] = <<>> /\ got[c] = <<>>
        /\ listed[c] = [n \in Numbers |-> None]
    BY RequestSets, RequestsAssumption DEF Init
  <2>2. DOMAIN <<>> = {} /\ Len(<<>>) = 0
    OBVIOUS
  <2> QED BY <2>1, <2>2 DEF CompletionOk
<1> QED BY <1>1, CleanInit, EveryCompletion

LEMMA CompleteNext == CompleteInv /\ [Next]_vars => CompleteInv'
<1> SUFFICES ASSUME CompleteInv, [Next]_vars PROVE CompleteInv'
  OBVIOUS
<1>1. CleanInv /\ PartInv /\ CleanInv'
  BY CleanNext DEF CompleteInv, CleanInv
<1>2. ASSUME NEW c \in Completes
      PROVE  CompletionOk(c)'
  <2>1. CompletionOk(c)
    BY EveryCompletion
  <2> QED BY <1>1, <2>1, CompletionMoves, RestingStaysOk, GettingOnStaysOk
<1> QED BY <1>1, <1>2, EveryCompletion

(* The invariant holds in every state that multipart requests reach.       *)
THEOREM CompleteInvCorrect == Spec => []CompleteInv
  BY CompleteInit, CompleteNext, PTL DEF Spec

-----------------------------------------------------------------------------
(* A multipart upload keeps its promises *)

(* What a record names can be read, until the end is wanted.               *)
RecordsReadable ==
  EndIsWanted \/ \A n \in Numbers : parts[n] # None => parts[n].ver \in Readable

LEMMA RecordedIsReadable == CleanInv => RecordsReadable
<1> SUFFICES ASSUME CleanInv, ~EndIsWanted, NEW n \in Numbers, parts[n] # None
             PROVE  parts[n].ver \in Readable
  BY DEF RecordsReadable
<1>1. parts[n].ver \in PartPuts /\ parts[n].site \in Sites
  BY DEF CleanInv, PartInv, RecordTypes, Records
<1>2. home[parts[n].ver] = parts[n].site
  BY DEF CleanInv, RecordsAcknowledged, Acknowledged
<1>3. swept = {}
  BY DEF CleanInv, PartInv, PartsKeptUntilCommit, EndIsWanted
<1>4. parts[n].ver \in backend[parts[n].site]
  BY <1>3 DEF CleanInv, PartInv, RecordsStored, StoredOrSwept
<1> QED BY <1>1, <1>2, <1>4 DEF Readable

(* A step of tasks, sites, fetches and clean-ups.                          *)
Quiet ==
  /\ upload' = upload /\ parts' = parts /\ AskedFor' = AskedFor /\ Seen' = Seen
  /\ BoundTo' = BoundTo /\ EndIsWanted' = EndIsWanted

LEMMA QuietIsChurn ==
  ASSUME CleanInv', Quiet
  PROVE  MU!Next
<1>0. RecordsReadable'
  BY RecordedIsReadable, PTL
<1>1. PartsNow' = PartsNow
  BY DEF Quiet, PartsNow
<1>2. Readable' \in SUBSET PartPuts
  BY DEF Readable
<1>3. ASSUME ~EndIsWanted
      PROVE  MU!Recorded \subseteq Readable'
  <2> SUFFICES ASSUME NEW n \in Numbers, PartsNow[n] # None
               PROVE  PartsNow[n] \in Readable'
    BY DEF MU!Recorded
  <2>1. parts[n] # None /\ PartsNow[n] = parts[n].ver
    BY DEF PartsNow, Version
  <2>2. ~EndIsWanted' /\ parts'[n] = parts[n]
    BY <1>3 DEF Quiet
  <2>3. parts'[n].ver \in Readable'
    BY <1>0, <2>1, <2>2 DEF RecordsReadable
  <2> QED BY <2>1, <2>2, <2>3
<1>4. MU!Churn(Readable')
  BY <1>1, <1>3 DEF MU!Churn, Quiet
<1> QED BY <1>2, <1>4 DEF MU!Next

(* What completions are asked for stays while they list the same.          *)
LEMMA AskedStays ==
  ASSUME PartInv, [Next]_vars, named' = named
  PROVE  AskedFor' = AskedFor
<1>1. DoneStays
  BY StepsLast DEF Lasting, DoneStays
<1>2. ASSUME NEW c \in Completes
      PROVE  [i \in DOMAIN named'[c] |-> NumberOf(c, i)']
             = [i \in DOMAIN named[c] |-> NumberOf(c, i)]
  BY <1>1, NumbersFrame
<1> QED BY <1>2 DEF AskedFor

(* What completions have seen and bound stays while they have.             *)
LEMMA SeenStays ==
  ASSUME \A c \in Completes : listed'[c] = listed[c]
  PROVE  Seen' = Seen
<1>1. \A c \in Completes : SeenBy(c)' = SeenBy(c)
  BY DEF SeenBy
<1> QED BY <1>1 DEF Seen

LEMMA EndStays ==
  ASSUME object' = object, \A a \in Aborts : pc'[a] = "new" <=> pc[a] = "new"
  PROVE  EndIsWanted' = EndIsWanted
  BY DEF EndIsWanted

(* The steps that the promise does not tell apart.                         *)
LEMMA QuietParts ==
  ASSUME CompleteInv, [Next]_vars,
         \/ \E w \in PartPuts, n \in Numbers : PartBegin(w, n)
         \/ \E w \in PartPuts : PartAcquire(w) \/ PartFails(w) \/ PartStoreFails(w)
         \/ \E w \in PartPuts, s \in Sites : PartOk(w, s) \/ SiteStores(w, s) \/ UploadFails(w, s)
  PROVE  Quiet
<1> USE DEF storeVars, siteVars, partVars, removeVars, GoTo
<1>1. PartInv /\ RecordTypes
  BY DEF CompleteInv, CleanInv, PartInv
<1>2. /\ upload' = upload /\ parts' = parts /\ named' = named /\ listed' = listed
      /\ got' = got /\ object' = object
  BY DEF PartBegin, PartAcquire, PartFails, PartStoreFails, PartOk, SiteStores, UploadFails
<1>3. \A r \in Removers : pc'[r] = pc[r]
  BY <1>1, PartLasting
<1>4. /\ AskedFor' = AskedFor /\ Seen' = Seen /\ BoundTo' = BoundTo
      /\ EndIsWanted' = EndIsWanted
  BY <1>1, <1>2, <1>3, AskedStays, SeenStays, EndStays, RequestSets DEF BoundTo
<1> QED BY <1>2, <1>4 DEF Quiet

LEMMA QuietRemovers ==
  ASSUME CompleteInv, [Next]_vars, NEW r \in Removers,
         \/ r \in Completes /\ (PutObject(r) \/ FetchFails(r) \/ PutObjectFails(r))
         \/ r \in Completes /\ FetchPart(r)
         \/ r \in Aborts /\ List(r)
         \/ RemoverStoreFails(r)
         \/ \E n \in Numbers, s \in Sites : CleanOne(r, n, s) \/ CleanFails(r, n, s)
  PROVE  Quiet
<1> USE DEF storeVars, siteVars, partVars, removeVars, GoTo
<1>1. PartInv /\ RecordTypes /\ r \in Requests
  BY RequestSets DEF CompleteInv, CleanInv, PartInv
<1>2. upload' = upload /\ parts' = parts /\ named' = named /\ object' = object
  BY DEF PutObject, FetchFails, PutObjectFails, FetchPart, List, RemoverStoreFails, CleanOne,
     CleanFails
<1>3. \A c \in Completes : listed'[c] = listed[c]
  BY <1>1, RequestSets DEF RecordTypes, PutObject, FetchFails, PutObjectFails, FetchPart, List,
     RemoverStoreFails, CleanOne, CleanFails
<1>4. \A a \in Aborts : pc'[a] = "new" <=> pc[a] = "new"
  <2>1. pc' = pc \/ \E phase \in Phases \ {"new"} : pc' = [pc EXCEPT ![r] = phase]
    BY DEF PutObject, FetchFails, PutObjectFails, FetchPart, List, RemoverStoreFails, CleanOne,
       CleanFails, Phases, Over
  <2>2. r \in Aborts => pc[r] # "new"
    BY RequestSets DEF List, RemoverStoreFails, CleanOne, CleanFails
  <2> QED BY <1>1, <2>1, <2>2, RequestSets DEF RecordTypes
<1>5. object # None => got'[object] = got[object]
  <2>1. got' = got \/ (r \in Completes /\ FetchPart(r))
    BY DEF PutObject, FetchFails, PutObjectFails, List, RemoverStoreFails, CleanOne, CleanFails
  <2>2. ASSUME FetchPart(r), r \in Completes
        PROVE  got'[object] = got[object] \/ object = None
    <3>1. object # r
      BY <2>2 DEF CompleteInv, CommitsAll, FetchPart, Over
    <3>2. object \in Completes \cup {None}
      BY <1>1 DEF RecordTypes
    <3> QED BY <1>1, <2>2, <3>1, <3>2 DEF RecordTypes, FetchPart
  <2> QED BY <2>1, <2>2
<1>6. /\ AskedFor' = AskedFor /\ Seen' = Seen /\ BoundTo' = BoundTo
      /\ EndIsWanted' = EndIsWanted
  BY <1>1, <1>2, <1>3, <1>4, <1>5, AskedStays, SeenStays, EndStays DEF BoundTo
<1> QED BY <1>2, <1>6 DEF Quiet

LEMMA QuietRest ==
  ASSUME CompleteInv, [Next]_vars,
         Crash \/ Finished \/ UNCHANGED vars \/ \E r \in Requests : HangUp(r)
  PROVE  Quiet
<1> USE DEF storeVars, siteVars, partVars, removeVars, vars
<1>1. /\ upload' = upload /\ parts' = parts /\ named' = named /\ listed' = listed
      /\ got' = got /\ object' = object
  BY DEF Crash, Finished, HangUp
<1>2. \A r \in Requests : pc'[r] = "new" <=> pc[r] = "new"
  <2>1. CASE Crash
    BY <2>1 DEF Crash, Over
  <2>2. CASE \E q \in Requests : HangUp(q)
    BY <2>2 DEF HangUp, GoTo, CompleteInv, CleanInv, PartInv, RecordTypes
  <2>3. CASE Finished \/ UNCHANGED vars
    BY <2>3 DEF Finished
  <2> QED BY <2>1, <2>2, <2>3
<1>3. /\ AskedFor' = AskedFor /\ Seen' = Seen /\ BoundTo' = BoundTo
      /\ EndIsWanted' = EndIsWanted
  BY <1>1, <1>2, AskedStays, SeenStays, EndStays, RequestSets
     DEF BoundTo, CompleteInv, CleanInv
<1> QED BY <1>1, <1>3 DEF Quiet

(* An abort whose look-up of the upload fails was asked for all the same.  *)
LEMMA LookupIsQuietOrAskEnd ==
  ASSUME CompleteInv, [Next]_vars, NEW r \in Requests, LookupFails(r)
  PROVE  Quiet \/ MU!Next
<1> USE DEF storeVars, siteVars, partVars, removeVars
<1>1. PartInv /\ pc \in [Requests -> Phases]
  BY DEF CompleteInv, CleanInv, PartInv, RecordTypes
<1>2. /\ upload' = upload /\ parts' = parts /\ named' = named /\ listed' = listed
      /\ got' = got /\ object' = object /\ backend' = backend /\ home' = home
      /\ pc' = [pc EXCEPT ![r] = "failed"]
  BY DEF LookupFails, GoTo
<1>3. AskedFor' = AskedFor /\ Seen' = Seen /\ BoundTo' = BoundTo
  BY <1>1, <1>2, AskedStays, SeenStays DEF BoundTo
<1>4. CASE r \in Aborts
  <2>1. upload # "none"
    BY <1>4, RequestSets DEF LookupFails
  <2>2. EndIsWanted'
    BY <1>1, <1>2, <1>4 DEF EndIsWanted
  <2>3. PartsNow' = PartsNow /\ Readable' = Readable
    BY <1>2 DEF PartsNow, Readable
  <2>4. MU!AskEnd
    BY <1>2, <1>3, <2>1, <2>2, <2>3 DEF MU!AskEnd
  <2> QED BY <2>4 DEF MU!Next
<1>5. CASE r \notin Aborts
  <2>1. \A a \in Aborts : pc'[a] = pc[a]
    BY <1>1, <1>2, <1>5, RequestSets
  <2>2. EndIsWanted' = EndIsWanted
    BY <1>2, <2>1, EndStays
  <2> QED BY <1>2, <1>3, <2>2 DEF Quiet
<1> QED BY <1>4, <1>5

(* A part is recorded once it can be read where its record says.           *)
LEMMA CommitIsRecord ==
  ASSUME CompleteInv, [Next]_vars, NEW w \in PartPuts, PartCommit(w)
  PROVE  MU!Next
<1> USE DEF storeVars, siteVars, partVars, removeVars, GoTo
<1>1. CleanInv /\ PartInv /\ RecordTypes /\ w \in Requests
  BY RequestSets DEF CompleteInv, CleanInv, PartInv
<1>2. pc[w] = "commit" /\ number[w] \in Numbers /\ home[w] \in Sites
  BY <1>1 DEF PartCommit, PartInv, HomesStored
<1>3. upload # "none"
  BY <1>1, <1>2 DEF CleanInv, UploadLives
<1>4. EndIsWanted \/ w \in Readable
  <2>1. StoredOrSwept(w, home[w])
    BY <1>1, <1>2 DEF PartInv, HomesStored
  <2>2. EndIsWanted \/ swept = {}
    BY <1>1 DEF PartInv, PartsKeptUntilCommit, EndIsWanted
  <2> QED BY <1>2, <2>1, <2>2 DEF StoredOrSwept, Readable
<1>5. /\ upload' = upload /\ named' = named /\ listed' = listed /\ got' = got
      /\ object' = object /\ backend' = backend /\ home' = home
  BY DEF PartCommit
<1>6. \A r \in Removers : pc'[r] = pc[r]
  BY <1>1, PartLasting
<1>7. /\ Readable' = Readable /\ AskedFor' = AskedFor /\ Seen' = Seen
      /\ BoundTo' = BoundTo /\ EndIsWanted' = EndIsWanted
  BY <1>1, <1>5, <1>6, AskedStays, SeenStays, EndStays, RequestSets DEF Readable, BoundTo
<1>8. PartsNow' = [PartsNow EXCEPT ![number[w]] = w]
  <2>1. [ver |-> w, site |-> home[w]] # None
    BY <1>2, RequestsAssumption
  <2>2. \A n \in Numbers : parts'[n] =
          IF n = number[w] THEN [ver |-> w, site |-> home[w]] ELSE parts[n]
    BY <1>1, <1>2 DEF PartCommit, RecordTypes
  <2>3. \A n \in Numbers : Version(parts'[n]) =
          IF n = number[w] THEN w ELSE Version(parts[n])
    BY <2>1, <2>2 DEF Version
  <2> QED BY <2>3 DEF PartsNow
<1>9. MU!Record(number[w], w)
  BY <1>3, <1>4, <1>5, <1>7, <1>8 DEF MU!Record
<1> QED BY <1>2, <1>9 DEF MU!Next

(* A completion is asked for numbers,                                      *)
LEMMA BeginIsAsk ==
  ASSUME CompleteInv, NEW c \in Completes, NEW ps \in Lists, CompleteBegin(c, ps)
  PROVE  MU!Next
<1> USE DEF storeVars, siteVars, partVars, removeVars, GoTo
<1> DEFINE ns == [i \in DOMAIN ps |-> number[ps[i]]]
<1>1. RecordTypes /\ HomesStored /\ c \in Requests
  BY RequestSets DEF CompleteInv, CleanInv, PartInv
<1>2. ns \in MU!NumberLists
  <2>1. PICK k \in 1 .. MaxListed : ps \in [1 .. k -> PartPuts]
    BY DEF Lists
  <2>2. \A i \in 1 .. k : number[ps[i]] \in Numbers
    BY <1>1, <2>1 DEF CompleteBegin, HomesStored
  <2>3. ns \in [1 .. k -> Numbers]
    BY <2>1, <2>2
  <2> QED BY <2>3 DEF MU!NumberLists
<1>3. AskedFor[c] = <<>>
  <2>1. named[c] = <<>>
    BY DEF CompleteInv, StartsEmpty, CompleteBegin
  <2> QED BY <2>1 DEF AskedFor
<1>4. AskedFor' = [AskedFor EXCEPT ![c] = ns]
  <2>1. /\ named'[c] = ps /\ number' = number
        /\ \A d \in Completes \ {c} : named'[d] = named[d]
    BY <1>1 DEF CompleteBegin, RecordTypes
  <2> QED BY <2>1 DEF AskedFor, NumberOf
<1>5. /\ upload # "none" /\ upload' = upload /\ parts' = parts /\ listed' = listed
      /\ got' = got /\ object' = object /\ backend' = backend /\ home' = home
  BY DEF CompleteBegin
<1>6. \A a \in Aborts : pc'[a] = pc[a]
  BY <1>1, RequestSets DEF CompleteBegin, RecordTypes
<1>7. /\ PartsNow' = PartsNow /\ Readable' = Readable /\ Seen' = Seen
      /\ BoundTo' = BoundTo /\ EndIsWanted' = EndIsWanted
  BY <1>5, <1>6, SeenStays, EndStays DEF PartsNow, Readable, BoundTo
<1> HIDE DEF ns
<1>8. MU!Ask(c, ns)
  BY <1>3, <1>4, <1>5, <1>7 DEF MU!Ask
<1> QED BY <1>2, <1>8 DEF MU!Next

(* A completion that lists parts is asked for as many numbers.             *)
LEMMA NamedIsAsked ==
  ASSUME RecordTypes, NEW c \in Completes, named[c] # <<>>
  PROVE  AskedFor[c] # <<>> /\ DOMAIN AskedFor[c] = DOMAIN named[c]
<1>1. AskedFor[c] = [i \in DOMAIN named[c] |-> NumberOf(c, i)]
  BY DEF AskedFor
<1>2. named[c] \in Seq(PartPuts)
  BY DEF RecordTypes
<1>3. 1 \in DOMAIN named[c]
  BY <1>2, EmptySeq, LenProperties
<1> QED BY <1>1, <1>3

(* looks at the records once,                                              *)
LEMMA ListIsLook ==
  ASSUME CompleteInv, [Next]_vars, NEW c \in Completes, List(c)
  PROVE  MU!Next
<1> USE DEF storeVars, siteVars, partVars, removeVars, GoTo
<1>1. PartInv /\ RecordTypes /\ c \in Requests /\ c \in Removers /\ c \notin Aborts
  BY RequestSets DEF CompleteInv, CleanInv, PartInv
<1>2. AskedFor[c] # <<>>
  BY <1>1, NamedIsAsked DEF CompleteInv, CommitsAll, List
<1>3. Seen[c] = MU!NoParts
  <2>1. listed[c] = [n \in Numbers |-> None]
    BY DEF CompleteInv, StartsEmpty, List
  <2> QED BY <2>1 DEF Seen, SeenBy, Version, MU!NoParts
<1>4. Seen' = [Seen EXCEPT ![c] = PartsNow]
  <2>1. listed' = [listed EXCEPT ![c] = parts]
    BY DEF List
  <2>2. SeenBy(c)' = PartsNow
    BY <1>1, <2>1 DEF RecordTypes, SeenBy, PartsNow
  <2>3. \A d \in Completes \ {c} : SeenBy(d)' = SeenBy(d)
    BY <1>1, <2>1, RequestSets DEF RecordTypes, SeenBy
  <2> QED BY <2>2, <2>3 DEF Seen
<1>5. /\ upload' = upload /\ parts' = parts /\ named' = named /\ got' = got
      /\ object' = object /\ backend' = backend /\ home' = home
  BY DEF List
<1>6. \A a \in Aborts : pc'[a] = pc[a]
  BY <1>1, RequestSets DEF List, RecordTypes
<1>7. /\ PartsNow' = PartsNow /\ Readable' = Readable /\ AskedFor' = AskedFor
      /\ BoundTo' = BoundTo /\ EndIsWanted' = EndIsWanted
  BY <1>1, <1>5, <1>6, AskedStays, EndStays DEF PartsNow, Readable, BoundTo
<1>8. MU!Look(c)
  BY <1>2, <1>3, <1>4, <1>5, <1>7 DEF MU!Look
<1> QED BY <1>8 DEF MU!Next

(* and binds the object to what it has seen there.                         *)
LEMMA CommitIsBind ==
  ASSUME CompleteInv, [Next]_vars, NEW c \in Completes, CompleteCommit(c)
  PROVE  MU!Next
<1> USE DEF siteVars, partVars, GoTo
<1>1. RecordTypes /\ PartInv
  BY DEF CompleteInv, CleanInv, PartInv
<1>2. pc[c] = "commit"
  BY DEF CompleteCommit
<1>3. /\ named[c] # <<>> /\ got[c] \in Seq(PartPuts) /\ DOMAIN got[c] = DOMAIN named[c]
      /\ \A i \in DOMAIN named[c] : NumberOf(c, i) \in Numbers
  <2>1. Len(got[c]) = Len(named[c]) /\ named[c] # <<>>
    BY <1>2 DEF CompleteInv, CommitsAll
  <2>2. named[c] \in Seq(PartPuts) /\ got[c] \in Seq(PartPuts)
    BY <1>1 DEF RecordTypes
  <2> QED BY <1>1, <2>1, <2>2, LenProperties, NamesNumbered DEF PartInv
<1>4. /\ AskedFor[c] # <<>> /\ DOMAIN AskedFor[c] = DOMAIN named[c]
      /\ \A i \in DOMAIN named[c] : AskedFor[c][i] = NumberOf(c, i)
  BY <1>1, <1>3, NamedIsAsked DEF AskedFor
<1>5. ASSUME NEW i \in DOMAIN named[c]
      PROVE  Seen[c][AskedFor[c][i]] = got[c][i] /\ got[c][i] # None
  <2>1. /\ listed[c][NumberOf(c, i)] # None
        /\ got[c][i] = listed[c][NumberOf(c, i)].ver
    BY <1>3 DEF CompleteInv, FetchedAsListed
  <2>2. got[c][i] \in PartPuts
    BY <1>3, LenProperties, ElementOfSeq
  <2>3. Seen[c][NumberOf(c, i)] = listed[c][NumberOf(c, i)].ver
    BY <1>3, <2>1 DEF Seen, SeenBy, Version
  <2> QED BY <1>4, <2>1, <2>2, <2>3, RequestsAssumption
<1>6. /\ object' = c /\ upload' = upload /\ parts' = parts /\ named' = named
      /\ got' = got /\ listed' = listed /\ backend' = backend /\ home' = home
  BY DEF CompleteCommit
<1>7. c # None
  BY RequestsAssumption
<1>8. BoundTo' = [i \in DOMAIN AskedFor[c] |-> Seen[c][AskedFor[c][i]]]
  <2>1. BoundTo' = got[c]
    BY <1>6, <1>7 DEF BoundTo
  <2>2. got[c] = [i \in DOMAIN got[c] |-> got[c][i]]
    BY <1>3
  <2> QED BY <1>3, <1>4, <1>5, <2>1, <2>2
<1>9. /\ PartsNow' = PartsNow /\ Readable' = Readable /\ AskedFor' = AskedFor
      /\ Seen' = Seen /\ EndIsWanted'
  BY <1>1, <1>6, <1>7, AskedStays, SeenStays DEF PartsNow, Readable, EndIsWanted
<1>10. MU!Bind(c)
  BY <1>4, <1>5, <1>6, <1>8, <1>9 DEF MU!Bind
<1> QED BY <1>10 DEF MU!Next

(* An upload is opened, its end asked for, and its records dropped after.  *)
LEMMA CreateIsOpen ==
  ASSUME Create
  PROVE  MU!Next
<1>1. /\ parts' = parts /\ object' = object /\ backend' = backend /\ pc' = pc
      /\ number' = number /\ home' = home
      /\ named' = named /\ listed' = listed /\ got' = got
  BY DEF Create, siteVars, partVars, removeVars
<1>2. MU!Open
  BY <1>1 DEF Create, MU!Open, PartsNow, Version, Readable, AskedFor, NumberOf, Seen,
     SeenBy, BoundTo, EndIsWanted
<1> QED BY <1>2 DEF MU!Next

LEMMA AbortIsAskEnd ==
  ASSUME CompleteInv, [Next]_vars, NEW a \in Aborts, AbortBegin(a)
  PROVE  MU!Next
<1> USE DEF storeVars, siteVars, partVars, removeVars, GoTo
<1>1. pc'[a] \in {"list", "failed"}
  BY RequestSets DEF AbortBegin, CompleteInv, CleanInv, PartInv, RecordTypes
<1>2. EndIsWanted'
  BY <1>1 DEF EndIsWanted
<1>3. /\ PartsNow' = PartsNow /\ Readable' = Readable /\ AskedFor' = AskedFor
      /\ Seen' = Seen /\ BoundTo' = BoundTo
  BY AskedStays, SeenStays
     DEF AbortBegin, PartsNow, Readable, BoundTo, CompleteInv, CleanInv
<1>4. MU!AskEnd
  BY <1>2, <1>3 DEF MU!AskEnd, AbortBegin
<1> QED BY <1>4 DEF MU!Next

LEMMA DropIsCloseOrForget ==
  ASSUME CompleteInv, [Next]_vars, NEW r \in Removers, DropUpload(r) \/ DropParts(r)
  PROVE  MU!Next
<1> USE DEF storeVars, siteVars, partVars, history, removeVars, GoTo
<1>1. PartInv /\ RecordTypes /\ CleanInv /\ r \in Requests
  BY RequestSets DEF CompleteInv, CleanInv, PartInv
<1>2. pc[r] \in {"clean", "drop"}
  BY DEF DropUpload, DropParts
<1>3. /\ named' = named /\ listed' = listed /\ got' = got /\ object' = object
      /\ backend' = backend /\ home' = home
  BY DEF DropUpload, DropParts
<1>4. \A a \in Aborts : pc'[a] = "new" <=> pc[a] = "new"
  <2>1. \E phase \in {"drop", "done"} : pc' = [pc EXCEPT ![r] = phase]
    BY DEF DropUpload, DropParts
  <2> QED BY <1>1, <1>2, <2>1, RequestSets DEF RecordTypes
<1>5. /\ Readable' = Readable /\ AskedFor' = AskedFor /\ Seen' = Seen
      /\ BoundTo' = BoundTo /\ EndIsWanted' = EndIsWanted
  BY <1>1, <1>3, <1>4, AskedStays, SeenStays, EndStays DEF Readable, BoundTo
<1>6. CASE DropUpload(r)
  <2>1. pc[r] = "clean" /\ upload' = "gone" /\ parts' = parts
    BY <1>6 DEF DropUpload
  <2>2. upload # "none"
    BY <1>1, <2>1 DEF CleanInv, UploadLives
  <2>3. EndIsWanted
    BY <1>1, <2>1 DEF CleanInv, PartInv, CleansAfterCommit, EndIsWanted, Removers
  <2>4. MU!Close
    BY <1>5, <2>1, <2>2, <2>3 DEF MU!Close, PartsNow
  <2> QED BY <2>4 DEF MU!Next
<1>7. CASE DropParts(r)
  <2>1. pc[r] = "drop" /\ upload' = upload /\ parts' = [n \in Numbers |-> None]
    BY <1>7 DEF DropParts
  <2>2. upload = "gone"
    BY <1>1, <2>1 DEF CleanInv, UploadLives
  <2>3. PartsNow' = MU!NoParts
    BY <2>1 DEF PartsNow, Version, MU!NoParts
  <2>4. MU!Forget
    BY <1>5, <2>1, <2>2, <2>3 DEF MU!Forget
  <2> QED BY <2>4 DEF MU!Next
<1> QED BY <1>6, <1>7

(* Every step of the requests is one that the promise allows.              *)
LEMMA UploadStep == CompleteInv /\ [Next]_vars => MU!Next
<1> SUFFICES ASSUME CompleteInv, [Next]_vars PROVE MU!Next
  OBVIOUS
<1>1. CleanInv'
  BY CleanNext DEF CompleteInv
<1>2. Quiet => MU!Next
  BY <1>1, QuietIsChurn
<1>3. CASE \/ \E w \in PartPuts, n \in Numbers : PartBegin(w, n)
           \/ \E w \in PartPuts : PartStep(w) \/ PartStoreFails(w)
           \/ \E w \in PartPuts, s \in Sites : SiteStores(w, s) \/ UploadFails(w, s)
  BY <1>2, <1>3, QuietParts, CommitIsRecord DEF PartStep
<1>4. CASE \/ \E c \in Completes, ps \in Lists : CompleteBegin(c, ps)
           \/ \E c \in Completes : CompleteStep(c) \/ FetchFails(c) \/ PutObjectFails(c)
  BY <1>2, <1>4, QuietRemovers, BeginIsAsk, CommitIsBind, RequestSets DEF CompleteStep
<1>5. CASE \/ \E a \in Aborts : AbortBegin(a)
           \/ \E r \in Removers : RemoveStep(r) \/ RemoverStoreFails(r)
           \/ \E r \in Removers, n \in Numbers, s \in Sites : CleanFails(r, n, s)
  <2>1. \A r \in Removers : List(r) => MU!Next
    BY <1>2, QuietRemovers, ListIsLook DEF Removers
  <2>2. ASSUME NEW r \in Removers,
               RemoverStoreFails(r)
               \/ \E n \in Numbers, s \in Sites : CleanOne(r, n, s) \/ CleanFails(r, n, s)
        PROVE  MU!Next
    BY <1>2, <2>2, QuietRemovers
  <2> QED BY <1>5, <2>1, <2>2, AbortIsAskEnd, DropIsCloseOrForget DEF RemoveStep
<1>6. CASE Create
  BY <1>6, CreateIsOpen
<1>7. CASE Crash \/ Finished \/ UNCHANGED vars
           \/ \E r \in Requests : LookupFails(r) \/ HangUp(r)
  BY <1>2, <1>7, QuietRest, LookupIsQuietOrAskEnd
<1> QED BY <1>3, <1>4, <1>5, <1>6, <1>7 DEF Next

(* An upload starts as its promise does.                                   *)
LEMMA UploadInit == Init => MU!Init
<1> SUFFICES ASSUME Init PROVE MU!Init
  OBVIOUS
<1>1. PartsNow = MU!NoParts
  BY DEF Init, PartsNow, Version, MU!NoParts
<1>2. Readable = {}
  BY DEF Init, Readable
<1>3. AskedFor = [c \in Completes |-> <<>>]
  <2>1. \A c \in Completes : named[c] = <<>>
    BY DEF Init
  <2> QED BY <2>1 DEF AskedFor
<1>4. Seen = [c \in Completes |-> MU!NoParts]
  BY RequestSets DEF Init, Seen, SeenBy, Version, MU!NoParts
<1>5. BoundTo = None /\ ~EndIsWanted
  BY RequestSets DEF Init, BoundTo, EndIsWanted
<1> QED BY <1>1, <1>2, <1>3, <1>4, <1>5 DEF Init, MU!Init

(* However many uploads, completions and aborts of one multipart upload    *)
(* there are, however they interleave, fail and crash: the object is bound *)
(* to the very parts that one read of the records showed, parts can be     *)
(* read while they may be needed, and records are dropped last.            *)
THEOREM ImplementsMultipartUploadCorrect == Spec => ImplementsMultipartUpload
<1>1. Init => MU!Init
  BY UploadInit
<1>2. CompleteInv /\ [Next]_vars => [MU!Next]_(MU!vars)
  BY UploadStep
<1> QED BY <1>1, <1>2, CompleteInvCorrect, PTL DEF Spec, ImplementsMultipartUpload, MU!Spec
=============================================================================
