----------------------------- MODULE Multipart -----------------------------
(***************************************************************************)
(* One multipart upload: concurrent UploadPart, CompleteMultipartUpload    *)
(* and AbortMultipartUpload requests on the upload's records in the store, *)
(* the part objects on the sites and the semaphore of part uploads.        *)
(*                                                                         *)
(* Every UploadPart stores its body under a fresh key, so a part object is *)
(* named by the request that made it.  What the object that a completion   *)
(* stores goes through is in ObjectStore; here it is one step.             *)
(***************************************************************************)
EXTENDS Naturals, Sequences, FiniteSets

CONSTANTS
  Sites,           \* storage sites
  Numbers,         \* part numbers
  PartPuts,        \* UploadPart requests, and the part objects they store
  Completes,       \* CompleteMultipartUpload requests
  Aborts,          \* AbortMultipartUpload requests
  None,            \* no part record, no object
  MaxListed,       \* how many parts a completion lists
  MaxRemovers,     \* how many completions and aborts are made
  MaxUploads,      \* permits of the upload semaphore
  MaxFaults        \* how many errors of sites and of the store, hang-ups and crashes

Removers == Completes \cup Aborts
Requests == PartPuts \cup Removers

ASSUME NumbersAssumption == Numbers \subseteq Nat
ASSUME RequestsAssumption ==
  /\ PartPuts \cap Removers = {} /\ Completes \cap Aborts = {}
  /\ None \notin PartPuts \cup Completes \cup [ver : PartPuts, site : Sites]
  /\ IsFiniteSet(PartPuts)
ASSUME BoundsAssumption ==
  /\ MaxUploads \in Nat \ {0} /\ MaxListed \in Nat /\ MaxRemovers \in Nat /\ MaxFaults \in Nat

VARIABLES
  upload,   \* the upload's record
  parts,    \* its part records, one per number
  object,   \* the completion the key is bound by
  backend,  \* the part objects every site stores
  task,     \* upload task of every part object and site
  permits,  \* free permits of the semaphore
  pc,       \* where every request is
  number,   \* the number an UploadPart names
  home,     \* the site an UploadPart picks for its record
  named,    \* the parts the client of a completion lists
  listed,   \* the part records a completion or abort has read
  got,      \* the part objects a completion has fetched
  todo,     \* part numbers and sites that are not cleaned up yet
  faults,   \* how many faults have happened
  \* history, not in the code
  swept,    \* the part objects and sites that a clean-up has deleted from
  missed,   \* those where its deletion failed
  removed   \* the completions and aborts that deleted the upload's record

storeVars  == <<upload, parts, object>>
siteVars   == <<backend, task>>
partVars   == <<number, home>>
removeVars == <<named, listed, got, todo>>
history    == <<swept, missed, removed>>
vars == <<upload, parts, object, backend, task, permits, pc, number, home, named,
          listed, got, todo, faults, swept, missed, removed>>

(* A request has failed when it was answered with an error, was dropped or *)
(* was lost with the process.                                              *)
Over == {"done", "failed", "missing"}
Phases == {"new", "wait", "fanout", "list", "fetch", "commit", "clean", "drop"} \cup Over
Records == [ver : PartPuts, site : Sites] \cup {None}
Lists == UNION {[1 .. k -> PartPuts] : k \in 1 .. MaxListed}

Fault == faults < MaxFaults /\ faults' = faults + 1

GoTo(r, phase) == pc' = [pc EXCEPT ![r] = phase]

Init ==
  /\ upload = "none"
  /\ parts = [n \in Numbers |-> None]
  /\ object = None
  /\ backend = [s \in Sites |-> {}]
  /\ task = [w \in PartPuts |-> [s \in Sites |-> "idle"]]
  /\ permits = MaxUploads
  /\ pc = [r \in Requests |-> "new"]
  /\ number = [w \in PartPuts |-> 0]
  /\ home = [w \in PartPuts |-> None]
  /\ named = [c \in Completes |-> <<>>]
  /\ listed = [r \in Removers |-> [n \in Numbers |-> None]]
  /\ got = [c \in Completes |-> <<>>]
  /\ todo = [r \in Removers |-> {}]
  /\ faults = 0
  /\ swept = {}
  /\ missed = {}
  /\ removed = {}

Create ==
  /\ upload = "none"
  /\ upload' = "open"
  /\ UNCHANGED <<parts, object, siteVars, permits, pc, partVars, removeVars, faults, history>>

-----------------------------------------------------------------------------
(* UploadPart *)

(* The record is looked up first; only then is a permit awaited, and with  *)
(* it the bucket is looked up.                                             *)
PartBegin(w, n) ==
  /\ pc[w] = "new" /\ upload # "none"
  /\ number' = [number EXCEPT ![w] = n]
  /\ \/ GoTo(w, IF upload = "open" THEN "wait" ELSE "failed") /\ UNCHANGED faults
     \/ Fault /\ GoTo(w, "failed")
  /\ UNCHANGED <<storeVars, siteVars, permits, home, removeVars, history>>

(* The store fails to look up the upload, or the bucket of a part.         *)
LookupFails(r) ==
  /\ \/ r \in Removers /\ pc[r] = "new" /\ upload # "none"
     \/ r \in PartPuts /\ pc[r] = "wait" /\ permits > 0
  /\ Fault
  /\ GoTo(r, "failed")
  /\ UNCHANGED <<storeVars, siteVars, permits, partVars, removeVars, history>>

PartAcquire(w) ==
  /\ pc[w] = "wait" /\ permits > 0
  /\ permits' = permits - 1
  /\ GoTo(w, "fanout")
  /\ task' = [task EXCEPT ![w] = [s \in Sites |-> "sent"]]
  /\ UNCHANGED <<storeVars, backend, partVars, removeVars, faults, history>>

(* Mutant of PartOk: the part is recorded on any site it was sent to.      *)
PartOkAnySite(w, s) ==
  /\ pc[w] = "fanout"
  /\ \E t \in Sites : task[w][t] = "ok"
  /\ home' = [home EXCEPT ![w] = s]
  /\ GoTo(w, "commit")
  /\ UNCHANGED <<storeVars, siteVars, permits, number, removeVars, faults, history>>

(* One replica is a quorum.  The record names the first confirmed site in  *)
(* the order of the clients; any site may be the first.                    *)
PartOk(w, s) ==
  /\ pc[w] = "fanout"
  /\ task[w][s] = "ok"
  /\ home' = [home EXCEPT ![w] = s]
  /\ GoTo(w, "commit")
  /\ UNCHANGED <<storeVars, siteVars, permits, number, removeVars, faults, history>>

(* Mutant of PartFails: the error path keeps the permit.                   *)
PartFailsKeepsPermit(w) ==
  /\ pc[w] = "fanout" /\ \A s \in Sites : task[w][s] = "err"
  /\ GoTo(w, "failed")
  /\ UNCHANGED <<storeVars, siteVars, permits, partVars, removeVars, faults, history>>

PartFails(w) ==
  /\ pc[w] = "fanout" /\ \A s \in Sites : task[w][s] = "err"
  /\ permits' = permits + 1
  /\ GoTo(w, "failed")
  /\ UNCHANGED <<storeVars, siteVars, partVars, removeVars, faults, history>>

(* put_part replaces the record of that number, and does not ask whether   *)
(* the upload is still there.                                              *)
PartCommit(w) ==
  /\ pc[w] = "commit"
  /\ parts' = [parts EXCEPT ![number[w]] = [ver |-> w, site |-> home[w]]]
  /\ permits' = permits + 1
  /\ GoTo(w, "done")
  /\ UNCHANGED <<upload, object, siteVars, partVars, removeVars, faults, history>>

PartStoreFails(w) ==
  /\ pc[w] = "commit"
  /\ Fault
  /\ permits' = permits + 1
  /\ GoTo(w, "failed")
  /\ UNCHANGED <<storeVars, siteVars, partVars, removeVars, history>>

SiteStores(w, s) ==
  /\ task[w][s] = "sent"
  /\ task' = [task EXCEPT ![w][s] = "ok"]
  /\ backend' = [backend EXCEPT ![s] = @ \cup {w}]
  /\ UNCHANGED <<storeVars, permits, pc, partVars, removeVars, faults, history>>

(* An upload fails, or its answer is lost.  What fails one upload of a     *)
(* part may fail the others, and counts as one fault.                      *)
UploadFails(w, s) ==
  /\ task[w][s] = "sent"
  /\ Fault \/ ((\E t \in Sites : task[w][t] = "err") /\ UNCHANGED faults)
  /\ task' = [task EXCEPT ![w][s] = "err"]
  /\ \/ UNCHANGED backend
     \/ backend' = [backend EXCEPT ![s] = @ \cup {w}]
  /\ UNCHANGED <<storeVars, permits, pc, partVars, removeVars, history>>

-----------------------------------------------------------------------------
(* CompleteMultipartUpload and AbortMultipartUpload *)

(* A client lists parts it was given an ETag for, here as the handler      *)
(* sorts them; it may list one twice, or two of one number.  The code      *)
(* reads only the numbers.                                                 *)
CompleteBegin(c, ps) ==
  /\ pc[c] = "new" /\ upload # "none"
  /\ Cardinality({r \in Removers : pc[r] # "new"}) < MaxRemovers
  /\ \A i \in DOMAIN ps : pc[ps[i]] = "done"
  /\ \A i, j \in DOMAIN ps : i < j => number[ps[i]] <= number[ps[j]]
  /\ named' = [named EXCEPT ![c] = ps]
  /\ GoTo(c, IF upload = "open" THEN "list" ELSE "failed")
  /\ UNCHANGED <<storeVars, siteVars, permits, partVars, listed, got, todo, faults, history>>

AbortBegin(a) ==
  /\ pc[a] = "new" /\ upload # "none"
  /\ Cardinality({r \in Removers : pc[r] # "new"}) < MaxRemovers
  /\ GoTo(a, IF upload = "open" THEN "list" ELSE "failed")
  /\ UNCHANGED <<storeVars, siteVars, permits, partVars, removeVars, faults, history>>

(* What cleanup_parts has to delete: every listed part, on every site.     *)
ToClean(ps) == {n \in Numbers : ps[n] # None} \X Sites

NumberOf(c, i) == number[named[c][i]]

NumbersOf(c) == {NumberOf(c, i) : i \in DOMAIN named[c]}

(* The part records are read once.                                         *)
List(r) ==
  /\ pc[r] = "list"
  /\ listed' = [listed EXCEPT ![r] = parts]
  /\ IF r \in Aborts
     THEN GoTo(r, "clean") /\ todo' = [todo EXCEPT ![r] = ToClean(parts)]
     ELSE /\ GoTo(r, IF \E n \in NumbersOf(r) : parts[n] = None THEN "failed" ELSE "fetch")
          /\ UNCHANGED todo
  /\ UNCHANGED <<storeVars, siteVars, permits, partVars, named, got, faults, history>>

(* Parts are fetched in the order of their numbers, each from the one site *)
(* its record names.                                                       *)
NextNumber(c) == NumberOf(c, Len(got[c]) + 1)

(* Mutant of FetchPart: the record is read again when the part is fetched. *)
FetchPartAgain(c) ==
  LET p == IF parts[NextNumber(c)] = None THEN listed[c][NextNumber(c)]
           ELSE parts[NextNumber(c)] IN
  /\ pc[c] = "fetch" /\ Len(got[c]) < Len(named[c])
  /\ \/ /\ p.ver \in backend[p.site]
        /\ got' = [got EXCEPT ![c] = Append(@, p.ver)]
        /\ UNCHANGED pc
     \/ /\ p.ver \notin backend[p.site]
        /\ GoTo(c, "missing")
        /\ UNCHANGED got
  /\ UNCHANGED <<storeVars, siteVars, permits, partVars, named, listed, todo, faults, history>>

FetchPart(c) ==
  LET p == listed[c][NextNumber(c)] IN
  /\ pc[c] = "fetch" /\ Len(got[c]) < Len(named[c])
  /\ \/ /\ p.ver \in backend[p.site]
        /\ got' = [got EXCEPT ![c] = Append(@, p.ver)]
        /\ UNCHANGED pc
     \/ /\ p.ver \notin backend[p.site]
        /\ GoTo(c, "missing")
        /\ UNCHANGED got
  /\ UNCHANGED <<storeVars, siteVars, permits, partVars, named, listed, todo, faults, history>>

FetchFails(c) ==
  /\ pc[c] = "fetch" /\ Len(got[c]) < Len(named[c])
  /\ Fault
  /\ GoTo(c, "failed")
  /\ UNCHANGED <<storeVars, siteVars, permits, partVars, removeVars, history>>

PutObject(c) ==
  /\ pc[c] = "fetch" /\ Len(got[c]) = Len(named[c])
  /\ GoTo(c, "commit")
  /\ UNCHANGED <<storeVars, siteVars, permits, partVars, removeVars, faults, history>>

(* Mutant of PutObjectFails: parts are cleaned up on the error path too.   *)
PutObjectFailsCleans(c) ==
  /\ pc[c] = "fetch" /\ Len(got[c]) = Len(named[c])
  /\ GoTo(c, "clean")
  /\ todo' = [todo EXCEPT ![c] = ToClean(listed[c])]
  /\ UNCHANGED <<storeVars, siteVars, permits, partVars, named, listed, got, faults, history>>

PutObjectFails(c) ==
  /\ pc[c] = "fetch" /\ Len(got[c]) = Len(named[c])
  /\ GoTo(c, "failed")
  /\ UNCHANGED <<storeVars, siteVars, permits, partVars, removeVars, faults, history>>

(* Mutant of CompleteCommit: only the parts the client lists are cleaned   *)
(* up, not all that were uploaded.                                         *)
CompleteCommitCleansNamed(c) ==
  /\ pc[c] = "commit"
  /\ object' = c
  /\ GoTo(c, "clean")
  /\ todo' = [todo EXCEPT ![c] = NumbersOf(c) \X Sites]
  /\ UNCHANGED <<upload, parts, siteVars, permits, partVars, named, listed, got, faults, history>>

CompleteCommit(c) ==
  /\ pc[c] = "commit"
  /\ object' = c
  /\ GoTo(c, "clean")
  /\ todo' = [todo EXCEPT ![c] = ToClean(listed[c])]
  /\ UNCHANGED <<upload, parts, siteVars, permits, partVars, named, listed, got, faults, history>>

(* cleanup_parts goes from part to part and deletes each from site after   *)
(* site; errors are ignored.                                               *)
IsNext(r, n) == n \in Numbers /\ \A t \in todo[r] : n <= t[1]

CleanOne(r, n, s) ==
  /\ pc[r] = "clean" /\ <<n, s>> \in todo[r] /\ IsNext(r, n)
  /\ todo' = [todo EXCEPT ![r] = @ \ {<<n, s>>}]
  /\ backend' = [backend EXCEPT ![s] = @ \ {listed[r][n].ver}]
  /\ swept' = swept \cup {<<listed[r][n].ver, s>>}
  /\ UNCHANGED <<storeVars, task, permits, pc, partVars, named, listed, got, faults, missed,
                 removed>>

CleanFails(r, n, s) ==
  /\ pc[r] = "clean" /\ <<n, s>> \in todo[r] /\ IsNext(r, n)
  /\ Fault
  /\ todo' = [todo EXCEPT ![r] = @ \ {<<n, s>>}]
  /\ missed' = missed \cup {<<listed[r][n].ver, s>>}
  /\ UNCHANGED <<storeVars, siteVars, permits, pc, partVars, named, listed, got, swept, removed>>

(* Mutant of DropUpload: the clean-up is not awaited.                      *)
DropUploadEarly(r) ==
  /\ pc[r] = "clean"
  /\ upload' = "gone"
  /\ removed' = removed \cup {r}
  /\ GoTo(r, "drop")
  /\ UNCHANGED <<parts, object, siteVars, permits, partVars, removeVars, faults, swept, missed>>

(* The upload's record goes first, then, in a batch, its part records.     *)
DropUpload(r) ==
  /\ pc[r] = "clean" /\ todo[r] = {}
  /\ upload' = "gone"
  /\ removed' = removed \cup {r}
  /\ GoTo(r, "drop")
  /\ UNCHANGED <<parts, object, siteVars, permits, partVars, removeVars, faults, swept, missed>>

DropParts(r) ==
  /\ pc[r] = "drop"
  /\ parts' = [n \in Numbers |-> None]
  /\ GoTo(r, "done")
  /\ UNCHANGED <<upload, object, siteVars, permits, partVars, removeVars, faults, history>>

RemoverStoreFails(r) ==
  /\ pc[r] \in {"list", "commit", "drop"} \/ (pc[r] = "clean" /\ todo[r] = {})
  /\ Fault
  /\ GoTo(r, "failed")
  /\ UNCHANGED <<storeVars, siteVars, permits, partVars, removeVars, history>>

-----------------------------------------------------------------------------
(* Hang-ups and crashes *)

(* The handler is dropped at an await, and its permit with it.             *)
HangUp(r) ==
  /\ \/ pc[r] \in {"wait", "fanout", "fetch", "commit"}
     \/ pc[r] = "clean" /\ ToClean(listed[r]) # {}
  /\ Fault
  /\ permits' = IF r \in PartPuts /\ pc[r] # "wait" THEN permits + 1 ELSE permits
  /\ todo' = [q \in Removers |-> IF q = r THEN {} ELSE todo[q]]
  /\ GoTo(r, "failed")
  /\ UNCHANGED <<storeVars, siteVars, partVars, named, listed, got, history>>

Unfinished == {ws \in PartPuts \X Sites : task[ws[1]][ws[2]] = "sent"}

Crash ==
  /\ Fault
  /\ \E cut \in SUBSET Unfinished :
       task' = [w \in PartPuts |-> [s \in Sites |->
         IF <<w, s>> \in cut THEN "err" ELSE task[w][s]]]
  /\ pc' = [r \in Requests |-> IF pc[r] \in Over \cup {"new"} THEN pc[r] ELSE "failed"]
  /\ permits' = MaxUploads
  /\ todo' = [r \in Removers |-> {}]
  /\ UNCHANGED <<storeVars, backend, partVars, named, listed, got, history>>

Finished ==
  /\ \A r \in Requests : pc[r] \in Over \cup {"new"}
  /\ Unfinished = {}
  /\ UNCHANGED vars

PartStep(w) ==
  \/ PartAcquire(w) \/ PartFails(w) \/ PartCommit(w)
  \/ \E s \in Sites : PartOk(w, s)

CompleteStep(c) ==
  PutObject(c) \/ CompleteCommit(c) \/ FetchPart(c)

RemoveStep(r) ==
  \/ List(r) \/ DropUpload(r) \/ DropParts(r)
  \/ \E n \in Numbers, s \in Sites : CleanOne(r, n, s)

Next ==
  \/ Create
  \/ \E w \in PartPuts, n \in Numbers : PartBegin(w, n)
  \/ \E w \in PartPuts : PartStep(w) \/ PartStoreFails(w)
  \/ \E w \in PartPuts, s \in Sites : SiteStores(w, s) \/ UploadFails(w, s)
  \/ \E c \in Completes, ps \in Lists : CompleteBegin(c, ps)
  \/ \E c \in Completes : CompleteStep(c) \/ FetchFails(c) \/ PutObjectFails(c)
  \/ \E a \in Aborts : AbortBegin(a)
  \/ \E r \in Removers : RemoveStep(r) \/ RemoverStoreFails(r)
  \/ \E r \in Removers, n \in Numbers, s \in Sites : CleanFails(r, n, s)
  \/ \E r \in Requests : LookupFails(r) \/ HangUp(r)
  \/ Crash
  \/ Finished

Spec == Init /\ [][Next]_vars

(* What handlers, tasks and sites do without a fault or a hang-up.         *)
Progress ==
  \/ \E w \in PartPuts : PartStep(w) \/ \E s \in Sites : SiteStores(w, s)
  \/ \E c \in Completes : CompleteStep(c)
  \/ \E r \in Removers : RemoveStep(r)

-----------------------------------------------------------------------------
RecordTypes ==
  /\ upload \in {"none", "open", "gone"}
  /\ parts \in [Numbers -> Records]
  /\ object \in Completes \cup {None}
  /\ backend \in [Sites -> SUBSET PartPuts]
  /\ task \in [PartPuts -> [Sites -> {"idle", "sent", "ok", "err"}]]
  /\ pc \in [Requests -> Phases]
  /\ number \in [PartPuts -> Numbers \cup {0}]
  /\ home \in [PartPuts -> Sites \cup {None}]
  /\ named \in [Completes -> Seq(PartPuts)]
  /\ listed \in [Removers -> [Numbers -> Records]]
  /\ got \in [Completes -> Seq(PartPuts)]
  /\ todo \in [Removers -> SUBSET (Numbers \X Sites)]
  /\ swept \in SUBSET (PartPuts \X Sites) /\ missed \in SUBSET (PartPuts \X Sites)
  /\ removed \in SUBSET Removers

(* Types of the variables, and where a clean-up may have work left.        *)
TypeOK ==
  /\ RecordTypes
  /\ permits \in 0 .. MaxUploads
  /\ \A r \in Removers : todo[r] # {} => pc[r] = "clean"

(* A completion fails for want of a part only if a clean-up by somebody    *)
(* else had deleted that part from the site its record names: what         *)
(* UploadPart acknowledged is there, however few replicas had landed.      *)
MissingPartWasSwept ==
  \A c \in Completes : pc[c] = "missing" =>
     LET p == listed[c][NextNumber(c)] IN <<p.ver, p.site>> \in swept

(* Parts are deleted only once the object made of them is committed or an  *)
(* abort was asked for, so that until then a completion can be retried     *)
(* after any error, hang-up or crash.                                      *)
PartsKeptUntilCommit ==
  swept # {} => object # None \/ \E a \in Aborts : pc[a] # "new"

Recorded(w) == parts[number[w]] # None /\ parts[number[w]].ver = w

Replaced(w) == \E v \in PartPuts \ {w} : pc[v] = "done" /\ number[v] = number[w]

HadListed(r, w) == listed[r][number[w]] # None /\ listed[r][number[w]].ver = w

(* No site keeps an acknowledged part when its upload is gone: a clean-up  *)
(* that was cut short can be done again.  There are four exceptions: the   *)
(* part was uploaded again, its record came when every request that        *)
(* removed the upload had read the records, the deletion on that very site *)
(* failed, or the part came to a site that its record does not name after  *)
(* a clean-up had been there (cleanup_parts, delete_multipart_upload).     *)
NoPartForgotten ==
  \A w \in PartPuts, s \in Sites : pc[w] = "done" /\ w \in backend[s] =>
    \/ Recorded(w) /\ upload = "open"
    \/ Replaced(w)
    \/ upload = "gone" /\ \A r \in removed : ~HadListed(r, w)
    \/ <<w, s>> \in missed
    \/ s # home[w] /\ <<w, s>> \in swept

(* No request waits for good: while one is under way, something can go on  *)
(* without a further fault, and every such step takes a request, an upload *)
(* or a clean-up one further.  Permits come back on every path out of      *)
(* upload_part, or the part uploads that wait for one would be stuck.      *)
NoneStuck == (\E r \in Requests : pc[r] \notin Over \cup {"new"}) => ENABLED Progress

(* Why MissingPartWasSwept and PartsKeptUntilCommit hold.  What has been   *)
(* reported stored is on its site until a clean-up deletes it, and so is   *)
(* what a record names,                                                    *)
StoredOrSwept(w, s) == w \in backend[s] \/ <<w, s>> \in swept

UploadsStored ==
  \A w \in PartPuts, s \in Sites : task[w][s] = "ok" => StoredOrSwept(w, s)

HomesStored ==
  \A w \in PartPuts :
     /\ pc[w] \in {"wait", "fanout", "commit", "done"} => number[w] \in Numbers
     /\ pc[w] = "commit" => home[w] \in Sites /\ StoredOrSwept(w, home[w])

RecordsStored ==
  \A n \in Numbers : parts[n] # None => StoredOrSwept(parts[n].ver, parts[n].site)

ListedStored ==
  \A r \in Removers, n \in Numbers :
     listed[r][n] # None => StoredOrSwept(listed[r][n].ver, listed[r][n].site)

(* what a completion fetches is listed,                                    *)
NamesAcknowledged ==
  \A c \in Completes : \A i \in DOMAIN named[c] : pc[named[c][i]] = "done"

FetchesListed ==
  \A c \in Completes :
     /\ pc[c] \in {"fetch", "commit", "missing"} =>
           \A n \in NumbersOf(c) : listed[c][n] # None
     /\ pc[c] = "missing" => Len(got[c]) < Len(named[c])

(* and what is cleaned up is listed, for a completion after its commit.    *)
CleansListed ==
  \A r \in Removers : \A t \in todo[r] :
     pc[r] = "clean" /\ listed[r][t[1]] # None

CleansAfterCommit ==
  \A c \in Completes : pc[c] = "clean" => object # None

PartInv ==
  /\ RecordTypes
  /\ UploadsStored
  /\ HomesStored
  /\ RecordsStored
  /\ ListedStored
  /\ NamesAcknowledged
  /\ FetchesListed
  /\ CleansListed
  /\ CleansAfterCommit
  /\ MissingPartWasSwept
  /\ PartsKeptUntilCommit

(* Why NoPartForgotten and the bounds of permits hold.  A part that is or  *)
(* was recorded has been stored on the site of its record, for good,       *)
UploadedHome(w) ==
  pc[w] \in {"commit", "done"} => home[w] \in Sites /\ task[w][home[w]] = "ok"

PartsUploaded == \A w \in PartPuts : UploadedHome(w)

(* by an UploadPart that is over,                                          *)
Acknowledged(p, n) ==
  p # None => pc[p.ver] = "done" /\ number[p.ver] = n /\ home[p.ver] = p.site

RecordsAcknowledged ==
  \A n \in Numbers : /\ Acknowledged(parts[n], n)
                     /\ \A r \in Removers : Acknowledged(listed[r][n], n)

(* a clean-up is past what it has deleted or failed to delete, and what it *)
(* has deleted comes back on another site than that of the record only,    *)
CleanedIsGone ==
  \A r \in Removers, n \in Numbers, s \in Sites :
     /\ r \in removed \/ pc[r] = "clean"
     /\ listed[r][n] # None
     => \/ <<n, s>> \in todo[r]
        \/ <<listed[r][n].ver, s>> \in missed
        \/ <<listed[r][n].ver, s>> \in swept

SweptIsGone ==
  \A w \in PartPuts, s \in Sites : <<w, s>> \in swept =>
     pc[w] = "done" /\ (s = home[w] => w \notin backend[s])

(* and until then a part is recorded, or nobody has to account for it,     *)
Accounted(w, s) ==
  \/ Recorded(w) /\ upload = "open"
  \/ Replaced(w)
  \/ upload = "gone" /\ \A r \in removed : ~HadListed(r, w)
  \/ <<w, s>> \in missed \cup swept

PartsAccounted ==
  \A w \in PartPuts, s \in Sites : pc[w] = "done" => Accounted(w, s)

(* nothing runs before the upload is created, and it goes when a remover   *)
(* drops it,                                                               *)
UploadLives ==
  /\ upload = "none" => \A r \in Requests : pc[r] = "new"
  /\ upload = "gone" <=> removed # {}
  /\ \A r \in removed : pc[r] \in {"drop"} \cup Over
  /\ \A r \in Removers : pc[r] = "drop" => r \in removed

(* and every permit is free or with an UploadPart that stores its part.    *)
PartPhases ==
  \A w \in PartPuts : pc[w] \in {"new", "wait", "fanout", "commit"} \cup Over

Busy == {w \in PartPuts : pc[w] \in {"fanout", "commit"}}

PermitsCounted == permits \in Nat /\ permits + Cardinality(Busy) = MaxUploads

CleanInv ==
  /\ PartInv
  /\ faults \in Nat
  /\ PartsUploaded
  /\ RecordsAcknowledged
  /\ CleanedIsGone
  /\ SweptIsGone
  /\ UploadLives
  /\ PartPhases
  /\ PermitsCounted
  /\ PartsAccounted

(* Why the object is the one that MultipartUpload allows.  A completion    *)
(* reads the records once and fetches what they say, part by part,         *)
StartsEmpty ==
  \A c \in Completes :
     /\ pc[c] = "new" => named[c] = <<>>
     /\ pc[c] \in {"new", "list"} =>
           got[c] = <<>> /\ listed[c] = [n \in Numbers |-> None]

FetchedAsListed ==
  \A c \in Completes :
     /\ Len(got[c]) <= Len(named[c])
     /\ \A i \in DOMAIN got[c] : /\ listed[c][NumberOf(c, i)] # None
                                 /\ got[c][i] = listed[c][NumberOf(c, i)].ver

(* and commits when it has them all; what it has bound no longer changes.  *)
CommitsAll ==
  \A c \in Completes :
     /\ pc[c] \in {"list", "fetch", "commit"} => named[c] # <<>>
     /\ pc[c] = "commit" => Len(got[c]) = Len(named[c])
     /\ object = c => pc[c] \in {"clean", "drop"} \cup Over

CompleteInv ==
  /\ CleanInv
  /\ StartsEmpty
  /\ FetchedAsListed
  /\ CommitsAll

(* The object holds the very parts the client listed by number and ETag,   *)
(* as the S3 specification beside the code says ETags are for.  It does    *)
(* not hold: ETags are ignored, and a part may have been uploaded again.   *)
CompletesNamedParts ==
  \A c \in Completes : object = c => got[c] = named[c]

(* What a multipart upload promises, as MultipartUpload states it: the     *)
(* object is bound to the very parts that one read of the records showed,  *)
(* parts are readable while they can be needed, and records go last.       *)
Version(p) == IF p = None THEN None ELSE p.ver

PartsNow      == [n \in Numbers |-> Version(parts[n])]
Readable      == {w \in PartPuts : home[w] \in Sites /\ w \in backend[home[w]]}
AskedFor      == [c \in Completes |-> [i \in DOMAIN named[c] |-> NumberOf(c, i)]]
SeenBy(c)     == [n \in Numbers |-> Version(listed[c][n])]
Seen          == [c \in Completes |-> SeenBy(c)]
BoundTo       == IF object = None THEN None ELSE got[object]
EndIsWanted   == object # None \/ \E a \in Aborts : pc[a] # "new"

MU == INSTANCE MultipartUpload WITH
  Versions <- PartPuts, Completers <- Completes,
  phase <- upload, part <- PartsNow, readable <- Readable, asked <- AskedFor,
  view <- Seen, object <- BoundTo, ended <- EndIsWanted

ImplementsMultipartUpload == MU!Spec
=============================================================================
