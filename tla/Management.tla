----------------------------- MODULE Management -----------------------------
(***************************************************************************)
(* The runtime configuration of the gateway: the management handlers that  *)
(* change it and the admin users, the copy of it that the process keeps in *)
(* memory, the one in the metadata store, and the site clients that the    *)
(* process builds once, when it starts.  The S3 side is seen from here:    *)
(* which sites a bucket and an object come to depend on.                   *)
(*                                                                         *)
(* A handler never awaits: it interleaves with the others as a thread.     *)
(* Of a site only its name is modelled: credentials, endpoint and region   *)
(* have no part in what is said here.                                      *)
(***************************************************************************)
EXTENDS Naturals, FiniteSets

CONSTANTS
  Names,           \* site names
  Users,           \* names of admin users
  Requests,        \* requests to the management API
  Slots,           \* places in the list of sites
  None,            \* Rust's None: nothing stored, no bucket, no object, no site
  Counts,          \* the data_chunks and parity_chunks that are asked for
  Imports,         \* the configurations that are imported
  Saved,           \* what the store has before the first start
  DefaultUploads,  \* default_max_concurrent_uploads
  MaxPermits,      \* tokio's Semaphore::MAX_PERMITS
  MaxStops,        \* how often the process ends
  MaxStoreErrors   \* how many RocksDB calls fail

VARIABLES
  up,        \* the process: "down", "running", or "stuck" in its start
  conf,      \* the configuration in memory, behind an ArcSwap
  stored,    \* the configuration in the metadata store
  clients,   \* the site names of the clients, fixed at the start
  users,     \* the credentials column family
  pc,        \* where every request is
  copy,      \* the configuration a request is about to put in place
  user,      \* the user a request is about
  bucket,    \* the sites the bucket has a backend bucket on
  object,    \* what the metadata of the object say
  stops,     \* how often the process has ended
  errors,    \* how many calls of the store have failed
  \* history, not in the code
  dropped,   \* the sites that a request asked to take away
  reused,    \* a request gave a site the name of another
  imported,  \* a whole configuration was put in place
  clean,     \* no change of the configuration has overlapped another or has
             \* failed since the start, or since the last one that was saved alone
  alone,     \* the change under way, if no other began with it or after it
  hadUsers   \* there has been an admin user

memoryVars  == <<up, conf, clients>>
requestVars == <<pc, copy, user>>
s3Vars      == <<bucket, object>>
countVars   == <<stops, errors>>
siteHistory == <<dropped, reused, imported>>
saveHistory == <<clean, alone>>
vars == <<up, conf, stored, clients, users, pc, copy, user, bucket, object, stops,
          errors, dropped, reused, imported, clean, alone, hadUsers>>

-----------------------------------------------------------------------------
(* Configurations *)

(* A site keeps its place in the list of sites.  What order they have there*)
(* is left out: where the code takes the first site of a name that two     *)
(* have, the model takes either.                                           *)
Lists == [Slots -> Names \cup {None}]

Configs == [sites : Lists, data : Nat, parity : Nat, uploads : Nat, tls : BOOLEAN]

ASSUME NumbersAssumption ==
  /\ Counts \subseteq Nat
  /\ MaxPermits \in Nat /\ DefaultUploads \in 1 .. MaxPermits
  /\ MaxStops \in Nat /\ MaxStoreErrors \in Nat
ASSUME NamesAssumption == None \notin Users \cup Names \cup Requests /\ IsFiniteSet(Slots)

(* Counts of chunks to code with, and an upload limit that tokio takes.    *)
(* Whether there are sites for that many chunks is not asked: only         *)
(* update_erasure compares the two, and remove_site does not.              *)
Sound(c) == c.data > 0 /\ c.parity > 0 /\ c.uploads \in 1 .. MaxPermits

NoSites == [i \in Slots |-> None]

(* RuntimeConfig::default.                                                 *)
Default == [sites |-> NoSites, data |-> 2, parity |-> 1, uploads |-> DefaultUploads,
            tls |-> FALSE]

Used(ss) == {i \in Slots : ss[i] # None}

NamesIn(ss) == {ss[i] : i \in Used(ss)}

Distinct(ss) == \A i, j \in Used(ss) : ss[i] = ss[j] => i = j

ASSUME ConfigsAssumption ==
  /\ Imports \subseteq Configs
  /\ Saved \subseteq Configs \cup {None}
  /\ None \notin Configs
  /\ \A c \in Saved \ {None} : Distinct(c.sites) /\ Sound(c)

(* What a handler makes of the configuration it has read; None when it     *)
(* answers with an error instead.                                          *)
AddSite(c, n, i) ==
  IF n \in NamesIn(c.sites) THEN None ELSE [c EXCEPT !.sites[i] = n]

(* The site gets the name in the body of the request, which may be that of *)
(* another site.                                                           *)
UpdateSite(c, n, i, new) ==
  IF c.sites[i] # n THEN None ELSE [c EXCEPT !.sites[i] = new]

RemoveSite(c, n) ==
  IF n \notin NamesIn(c.sites) THEN None
  ELSE [c EXCEPT !.sites = [i \in Slots |-> IF @[i] = n THEN None ELSE @[i]]]

(* Mutant of UpdateErasure: counts are not compared with zero.             *)
UpdateErasureUnvalidated(c, k, m) ==
  IF k + m > Cardinality(Used(c.sites)) /\ Used(c.sites) # {} THEN None
  ELSE [c EXCEPT !.data = k, !.parity = m]

UpdateErasure(c, k, m) ==
  IF k = 0 \/ m = 0 \/ (k + m > Cardinality(Used(c.sites)) /\ Used(c.sites) # {}) THEN None
  ELSE [c EXCEPT !.data = k, !.parity = m]

SetTls(c, on) == [c EXCEPT !.tls = on]

Init ==
  /\ up = "down"
  /\ conf = Default
  /\ stored \in Saved
  /\ clients = NoSites
  /\ users = {}
  /\ pc = [r \in Requests |-> "new"]
  /\ copy = [r \in Requests |-> None]
  /\ user = [r \in Requests |-> None]
  /\ bucket = None
  /\ object = None
  /\ stops = 0
  /\ errors = 0
  /\ dropped = {}
  /\ reused = FALSE
  /\ imported = FALSE
  /\ clean = TRUE
  /\ alone = None
  /\ hadUsers = FALSE

-----------------------------------------------------------------------------
(* The process *)

(* load_from_db: the default configuration if none is stored.              *)
Loaded == IF stored = None THEN Default ELSE stored

(* main loads the configuration and builds one client per site from it.  A *)
(* semaphore of more permits than tokio allows panics there, before the    *)
(* servers listen.                                                         *)
Start ==
  LET c == Loaded IN
  /\ up = "down"
  /\ up' = IF c.uploads <= MaxPermits THEN "running" ELSE "stuck"
  /\ conf' = c
  /\ clients' = c.sites
  /\ dropped' = dropped \ NamesIn(c.sites)
  /\ clean' = TRUE
  /\ UNCHANGED <<stored, users, requestVars, s3Vars, countVars, reused, imported, alone,
                 hadUsers>>

InFlight == {"update", "save", "put", "create", "delete"}

Running == {r \in Requests : pc[r] \in InFlight}

(* The requests that are changing the configuration.                       *)
Changing == {r \in Requests : pc[r] \in {"update", "save", "put"}}

Stop ==
  /\ up = "running" /\ stops < MaxStops
  /\ up' = "down"
  /\ stops' = stops + 1
  /\ pc' = [r \in Requests |-> IF r \in Running THEN "over" ELSE pc[r]]
  /\ copy' = [r \in Requests |-> None]
  /\ user' = [r \in Requests |-> None]
  /\ alone' = None
  /\ UNCHANGED <<conf, clients, stored, users, s3Vars, errors, siteHistory, clean, hadUsers>>

-----------------------------------------------------------------------------
(* Changing the configuration *)

GoTo(r, phase) == pc' = [pc EXCEPT ![r] = phase]

(* The request is answered, with success or an error, or lost with the     *)
(* process: what it held goes with it.                                     *)
End(r) ==
  /\ GoTo(r, "over")
  /\ copy' = [copy EXCEPT ![r] = None]
  /\ user' = [user EXCEPT ![r] = None]

(* Mutant of Change: the handler goes on after a refusal.                  *)
ChangeUnrefused(r, c) ==
  /\ up = "running" /\ pc[r] = "new"
  /\ GoTo(r, "update")
  /\ copy' = [copy EXCEPT ![r] = c]
  /\ clean' = (clean /\ Changing = {})
  /\ alone' = IF Changing = {} THEN r ELSE None
  /\ UNCHANGED <<memoryVars, stored, users, user, s3Vars, countVars, hadUsers>>

(* A handler loads the configuration and changes a copy of it.             *)
Change(r, c) ==
  /\ up = "running" /\ pc[r] = "new"
  /\ IF c = None
     THEN GoTo(r, "over") /\ UNCHANGED <<copy, saveHistory>>
     ELSE /\ GoTo(r, "update")
          /\ copy' = [copy EXCEPT ![r] = c]
          /\ clean' = (clean /\ Changing = {})
          /\ alone' = IF Changing = {} THEN r ELSE None
  /\ UNCHANGED <<memoryVars, stored, users, user, s3Vars, countVars, hadUsers>>

AddSiteBegin(r, n, i) ==
  /\ conf.sites[i] = None
  /\ Change(r, AddSite(conf, n, i))
  /\ UNCHANGED siteHistory

UpdateSiteBegin(r, n, i, new) ==
  /\ n \in NamesIn(conf.sites) => conf.sites[i] = n
  /\ Change(r, UpdateSite(conf, n, i, new))
  /\ dropped' = dropped \cup (({n} \cap NamesIn(conf.sites)) \ {new})
  /\ reused' = (reused \/ (new # n /\ {n, new} \subseteq NamesIn(conf.sites)))
  /\ UNCHANGED imported

RemoveSiteBegin(r, n) ==
  /\ Change(r, RemoveSite(conf, n))
  /\ dropped' = dropped \cup ({n} \cap NamesIn(conf.sites))
  /\ UNCHANGED <<reused, imported>>

(* Either count may be left out of the request.                            *)
UpdateErasureBegin(r, k, m) ==
  /\ Change(r, UpdateErasure(conf, k, m))
  /\ UNCHANGED siteHistory

UpdateTlsBegin(r, on) ==
  /\ Change(r, SetTls(conf, on))
  /\ UNCHANGED siteHistory

(* save_full_config takes the body as it is.                               *)
ImportBegin(r, c) ==
  /\ Change(r, c)
  /\ dropped' = dropped \cup (Names \ NamesIn(c.sites))
  /\ reused' = (reused \/ ~Distinct(c.sites))
  /\ imported' = TRUE

(* Mutant of Update: site changes are hot-reloaded into the clients.       *)
UpdateHot(r) ==
  /\ pc[r] = "update"
  /\ conf' = copy[r]
  /\ clients' = copy[r].sites
  /\ GoTo(r, "save")
  /\ UNCHANGED <<up, stored, users, copy, user, s3Vars, countVars, siteHistory,
                 saveHistory, hadUsers>>

(* SharedRuntimeConfig::update.                                            *)
Update(r) ==
  /\ pc[r] = "update"
  /\ conf' = copy[r]
  /\ GoTo(r, "save")
  /\ UNCHANGED <<up, clients, stored, users, copy, user, s3Vars, countVars, siteHistory,
                 saveHistory, hadUsers>>

(* save_to_db reads the configuration again, which another handler may     *)
(* have replaced by then,                                                  *)
ReadBack(r) ==
  /\ pc[r] = "save"
  /\ copy' = [copy EXCEPT ![r] = conf]
  /\ GoTo(r, "put")
  /\ UNCHANGED <<memoryVars, stored, users, user, s3Vars, countVars, siteHistory,
                 saveHistory, hadUsers>>

(* Mutant of StoreConfig: a configuration without sites is not stored.     *)
StoreConfigUnlessEmpty(r) ==
  /\ pc[r] = "put"
  /\ stored' = IF Used(copy[r].sites) = {} THEN stored ELSE copy[r]
  /\ End(r)
  /\ clean' = (clean \/ alone = r)
  /\ alone' = None
  /\ UNCHANGED <<memoryVars, users, s3Vars, countVars, siteHistory, hadUsers>>

(* and stores what it has read, whatever was stored in between.            *)
StoreConfig(r) ==
  /\ pc[r] = "put"
  /\ stored' = copy[r]
  /\ End(r)
  /\ clean' = (clean \/ alone = r)
  /\ alone' = None
  /\ UNCHANGED <<memoryVars, users, s3Vars, countVars, siteHistory, hadUsers>>

StoreFails(r) ==
  /\ pc[r] \in {"put", "create", "delete"}
  /\ errors < MaxStoreErrors
  /\ errors' = errors + 1
  /\ End(r)
  /\ clean' = (clean /\ pc[r] # "put")
  /\ alone' = IF alone = r THEN None ELSE alone
  /\ UNCHANGED <<memoryVars, stored, users, s3Vars, stops, siteHistory, hadUsers>>

-----------------------------------------------------------------------------
(* Admin users *)

UserBegin(r, u, refused, phase) ==
  /\ up = "running" /\ pc[r] = "new"
  /\ IF refused
     THEN GoTo(r, "over") /\ UNCHANGED user
     ELSE GoTo(r, phase) /\ user' = [user EXCEPT ![r] = u]
  /\ UNCHANGED <<memoryVars, stored, users, copy, s3Vars, countVars, siteHistory, saveHistory,
                 hadUsers>>

CreateUserBegin(r, u) == UserBegin(r, u, u \in users, "create")

CreateUser(r) ==
  /\ pc[r] = "create"
  /\ users' = users \cup {user[r]}
  /\ hadUsers' = TRUE
  /\ End(r)
  /\ UNCHANGED <<memoryVars, stored, s3Vars, countVars, siteHistory, saveHistory>>

(* The users are listed and counted first, whoever is to be deleted.       *)
DeleteUserBegin(r, u) == UserBegin(r, u, Cardinality(users) <= 1, "delete")

DeleteUser(r) ==
  /\ pc[r] = "delete"
  /\ users' = users \ {user[r]}
  /\ End(r)
  /\ UNCHANGED <<memoryVars, stored, s3Vars, countVars, siteHistory,
                 saveHistory, hadUsers>>

-----------------------------------------------------------------------------
(* What the S3 handlers make of it *)

Configured == Used(conf.sites) # {}

(* create_bucket makes a backend bucket on the site of every client.       *)
CreateBucket ==
  /\ up = "running" /\ Configured
  /\ bucket = None
  /\ bucket' = NamesIn(clients)
  /\ UNCHANGED <<memoryVars, stored, users, requestVars, object, countVars, siteHistory,
                 saveHistory, hadUsers>>

(* The clients a PUT sends chunks to, how many of the chunks make a quorum *)
(* and whether they are coded: every client for a replica, k+m of them, by *)
(* position, for an erasure coded object.                                  *)
Targets ==
  {<<Used(clients), 1, FALSE>>} \cup
  {<<S, conf.data, TRUE>> : S \in {T \in SUBSET Used(clients) :
      conf.data > 0 /\ conf.parity > 0 /\ Cardinality(T) = conf.data + conf.parity}}

(* Requests go to the first client of a name.  Of two sites with one name  *)
(* it need not be the one with the backend bucket that the bucket records. *)
Twins == {i \in Used(clients) : \E j \in Used(clients) \ {i} : clients[i] = clients[j]}

(* Chunks are stored on the sites on which the bucket has a backend        *)
(* bucket; with a quorum of them the object is bound.                      *)
Backed == {i \in Used(clients) : clients[i] \in bucket}

PutObject ==
  /\ up = "running" /\ Configured
  /\ bucket # None
  /\ \E t \in Targets :
       /\ Cardinality(t[1] \cap Backed) >= t[2]
       /\ object' = [sites |-> {clients[i] : i \in t[1]}, coded |-> t[3],
                     apart |-> \A i, j \in t[1] : clients[i] = clients[j] => i = j]
  /\ UNCHANGED <<memoryVars, stored, users, requestVars, bucket, countVars, siteHistory,
                 saveHistory, hadUsers>>

(* A GET looks for the client of every site in the object's metadata, and  *)
(* panics if there is none.                                                *)
GetPanics == object # None /\ ~(object.sites \subseteq NamesIn(clients))

(* It tells the chunks of an answer by the site that sent them: of two on  *)
(* one site the second is taken for the first.                             *)
GetMixesUp == object # None /\ object.coded /\ ~object.apart

(* No chunk of a replicated object is sure to be stored.                   *)
PutFails == bucket # None /\ Backed \ Twins = {}

-----------------------------------------------------------------------------
ConfigStep(r) ==
  \/ \E n \in Names, i \in Slots : AddSiteBegin(r, n, i)
  \/ \E n, new \in Names, i \in Slots : UpdateSiteBegin(r, n, i, new)
  \/ \E n \in Names : RemoveSiteBegin(r, n)
  \/ \E k \in Counts \cup {conf.data}, m \in Counts \cup {conf.parity} :
       UpdateErasureBegin(r, k, m)
  \/ \E on \in BOOLEAN : UpdateTlsBegin(r, on)
  \/ \E c \in Imports : ImportBegin(r, c)
  \/ Update(r) \/ ReadBack(r) \/ StoreConfig(r)

UserStep(r) ==
  \/ \E u \in Users : CreateUserBegin(r, u) \/ DeleteUserBegin(r, u)
  \/ CreateUser(r) \/ DeleteUser(r)

Next ==
  \/ Start \/ Stop
  \/ \E r \in Requests : ConfigStep(r) \/ UserStep(r) \/ StoreFails(r)
  \/ CreateBucket \/ PutObject

Spec == Init /\ [][Next]_vars

-----------------------------------------------------------------------------
Phases == InFlight \cup {"new", "over"}

Objects == [sites : SUBSET Names, coded : BOOLEAN, apart : BOOLEAN]

(* Types of the variables: whatever is put in memory or stored is a whole  *)
(* configuration.                                                          *)
TypeOK ==
  /\ up \in {"down", "running", "stuck"}
  /\ conf \in Configs
  /\ stored \in Configs \cup {None}
  /\ clients \in Lists
  /\ users \in SUBSET Users
  /\ pc \in [Requests -> Phases]
  /\ copy \in [Requests -> Configs \cup {None}]
  /\ user \in [Requests -> Users \cup {None}]
  /\ bucket \in {None} \cup SUBSET Names
  /\ object \in Objects \cup {None}
  /\ stops \in Nat /\ errors \in Nat
  /\ dropped \in SUBSET Names
  /\ reused \in BOOLEAN /\ imported \in BOOLEAN /\ clean \in BOOLEAN
  /\ alone \in Requests \cup {None}
  /\ hadUsers \in BOOLEAN
  /\ \A r \in Requests : /\ pc[r] \in {"update", "put"} => copy[r] # None
                         /\ pc[r] \in {"create", "delete"} => user[r] # None

(* An object's sites all have a client, and some site that the bucket is   *)
(* on has one of its own, unless a request asked for the site to be taken  *)
(* away, gave two sites one name, or the bucket was made before there were *)
(* clients: lost updates, failed saves and restarts never cost a site that *)
(* data are on.                                                            *)
SitesKept ==
  up = "running" =>
    /\ GetPanics => object.sites \cap dropped # {}
    /\ PutFails => Used(clients) = {} \/ bucket = {} \/ bucket \cap dropped # {} \/ reused

(* Reads tell chunks apart, unless a site was given the name of another;   *)
(* the counts of chunks are positive and the upload limit is one that the  *)
(* process can start with, in every interleaving of the handlers, unless a *)
(* configuration was imported.                                             *)
ConfigSound ==
  /\ GetMixesUp => reused
  /\ ~Sound(conf) \/ up = "stuck" => imported

(* With no change of the configuration under way the store has what memory *)
(* has, since the start or since the last change that was saved without    *)
(* another one under way: what a failed save or two overlapping changes    *)
(* have left apart, the next change alone puts right (save_to_db).         *)
StoredIsMemory ==
  up = "running" /\ Changing = {} /\ clean =>
    conf = Loaded

(* "Prevent deleting the last admin user" (web/api.rs:538): once there is  *)
(* an admin user there always is one, however its deletions interleave.    *)
AdminRemains == hadUsers => users # {}
=============================================================================
