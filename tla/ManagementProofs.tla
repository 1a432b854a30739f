-------------------------- MODULE ManagementProofs --------------------------
(***************************************************************************)
(* Proofs about the management API: no interleaving of its handlers, no    *)
(* failed save and no restart costs a site that data are on, and a change  *)
(* that is made and saved alone leaves the store with what memory has.     *)
(***************************************************************************)
EXTENDS Management, FiniteSetTheorems, TLAPS

-----------------------------------------------------------------------------
(* Types *)

(* The default configuration is a configuration.                           *)
LEMMA DefaultType == Default \in Configs
  BY NumbersAssumption DEF Default, NoSites, Configs, Lists

(* What a process starts from is a configuration.                          *)
LEMMA LoadedType == ASSUME TypeOK PROVE Loaded \in Configs
  BY DefaultType DEF TypeOK, Loaded

(* The names of a list are names of sites.                                 *)
LEMMA NamesType == ASSUME NEW ss \in Lists PROVE NamesIn(ss) \subseteq Names
  BY DEF Lists, NamesIn, Used

(* What a handler makes of a configuration is one, or nothing.             *)
LEMMA ChangedTypes ==
  ASSUME NEW c \in Configs
  PROVE  /\ \A n \in Names, i \in Slots : AddSite(c, n, i) \in Configs \cup {None}
         /\ \A n, new \in Names, i \in Slots : UpdateSite(c, n, i, new) \in Configs \cup {None}
         /\ \A n \in Names : RemoveSite(c, n) \in Configs \cup {None}
         /\ \A k, m \in Nat : UpdateErasure(c, k, m) \in Configs \cup {None}
         /\ \A on \in BOOLEAN : SetTls(c, on) \in Configs
<1> USE DEF Configs, Lists
<1>1. \A n \in Names, i \in Slots : AddSite(c, n, i) \in Configs \cup {None}
  BY DEF AddSite
<1>2. \A n, new \in Names, i \in Slots : UpdateSite(c, n, i, new) \in Configs \cup {None}
  BY DEF UpdateSite
<1>3. \A n \in Names : RemoveSite(c, n) \in Configs \cup {None}
  BY DEF RemoveSite
<1>4. \A k, m \in Nat : UpdateErasure(c, k, m) \in Configs \cup {None}
  BY DEF UpdateErasure
<1>5. \A on \in BOOLEAN : SetTls(c, on) \in Configs
  BY DEF SetTls
<1> QED
  BY <1>1, <1>2, <1>3, <1>4, <1>5

(* A change of the configuration keeps the types, if it makes a            *)
(* configuration of the one it has read and the history stays of its type. *)
LEMMA ChangeTypes ==
  ASSUME TypeOK, NEW r \in Requests, NEW c \in Configs \cup {None}, Change(r, c),
         dropped' \in SUBSET Names, reused' \in BOOLEAN, imported' \in BOOLEAN
  PROVE  TypeOK'
<1> USE DEF memoryVars, s3Vars, countVars, saveHistory
<1>1. pc' \in [Requests -> Phases] /\ copy' \in [Requests -> Configs \cup {None}]
  BY DEF TypeOK, Change, GoTo, Phases, InFlight
<1>2. \A q \in Requests : pc'[q] \in {"update", "put"} => copy'[q] # None
  BY DEF TypeOK, Change, GoTo
<1>3. \A q \in Requests : pc'[q] \in {"create", "delete"} => user'[q] # None
  BY DEF TypeOK, Change, GoTo
<1>4. clean' \in BOOLEAN /\ alone' \in Requests \cup {None}
  BY DEF TypeOK, Change
<1> QED
  BY <1>1, <1>2, <1>3, <1>4 DEF TypeOK, Change

(* What TypeOK says of requests after one of them has ended.               *)
LEMMA EndTypes ==
  ASSUME TypeOK, NEW r \in Requests, End(r)
  PROVE  /\ pc' \in [Requests -> Phases]
         /\ copy' \in [Requests -> Configs \cup {None}]
         /\ user' \in [Requests -> Users \cup {None}]
         /\ \A q \in Requests : /\ pc'[q] \in {"update", "put"} => copy'[q] # None
                                /\ pc'[q] \in {"create", "delete"} => user'[q] # None
  BY DEF TypeOK, End, GoTo, Phases, InFlight

(* Changes of the configuration keep the types.                            *)
LEMMA ConfigTypes ==
  ASSUME TypeOK, NEW r \in Requests, ConfigStep(r)
  PROVE  TypeOK'
<1> USE DEF memoryVars, s3Vars, countVars, siteHistory, saveHistory
<1>0. conf \in Configs /\ conf.data \in Nat /\ conf.parity \in Nat /\ Counts \subseteq Nat
  BY NumbersAssumption DEF TypeOK, Configs
<1>1. ASSUME NEW n \in Names, NEW i \in Slots, AddSiteBegin(r, n, i)
      PROVE  TypeOK'
  <2>1. AddSite(conf, n, i) \in Configs \cup {None}
    BY <1>0, ChangedTypes
  <2> QED
    BY <1>1, <2>1, ChangeTypes DEF AddSiteBegin, TypeOK
<1>2. ASSUME NEW n \in Names, NEW new \in Names, NEW i \in Slots, UpdateSiteBegin(r, n, i, new)
      PROVE  TypeOK'
  <2>1. UpdateSite(conf, n, i, new) \in Configs \cup {None}
    BY <1>0, ChangedTypes
  <2> QED
    BY <1>2, <2>1, ChangeTypes DEF UpdateSiteBegin, TypeOK
<1>3. ASSUME NEW n \in Names, RemoveSiteBegin(r, n)
      PROVE  TypeOK'
  <2>1. RemoveSite(conf, n) \in Configs \cup {None}
    BY <1>0, ChangedTypes
  <2> QED
    BY <1>3, <2>1, ChangeTypes DEF RemoveSiteBegin, TypeOK
<1>4. ASSUME NEW k \in Counts \cup {conf.data}, NEW m \in Counts \cup {conf.parity},
             UpdateErasureBegin(r, k, m)
      PROVE  TypeOK'
  <2>1. UpdateErasure(conf, k, m) \in Configs \cup {None}
    BY <1>0, ChangedTypes
  <2> QED
    BY <1>4, <2>1, ChangeTypes DEF UpdateErasureBegin, TypeOK
<1>5. ASSUME NEW on \in BOOLEAN, UpdateTlsBegin(r, on)
      PROVE  TypeOK'
  <2>1. SetTls(conf, on) \in Configs \cup {None}
    BY <1>0, ChangedTypes
  <2> QED
    BY <1>5, <2>1, ChangeTypes DEF UpdateTlsBegin, TypeOK
<1>6. ASSUME NEW c \in Imports, ImportBegin(r, c)
      PROVE  TypeOK'
  <2>1. c \in Configs \cup {None}
    BY ConfigsAssumption
  <2>2. Distinct(c.sites) \in BOOLEAN
    BY DEF Distinct
  <2> QED
    BY <1>6, <2>1, <2>2, ChangeTypes DEF ImportBegin, TypeOK
<1>7. CASE Update(r)
  BY <1>7 DEF TypeOK, Update, GoTo, Phases, InFlight
<1>8. CASE ReadBack(r)
  <2>1. /\ pc' \in [Requests -> Phases] /\ copy' \in [Requests -> Configs \cup {None}]
        /\ \A q \in Requests : pc'[q] \in {"update", "put"} => copy'[q] # None
    BY <1>8, ConfigsAssumption DEF TypeOK, ReadBack, GoTo, Phases, InFlight
  <2>2. \A q \in Requests : pc'[q] \in {"create", "delete"} => user'[q] # None
    BY <1>8 DEF TypeOK, ReadBack, GoTo
  <2> QED
    BY <1>8, <2>1, <2>2 DEF TypeOK, ReadBack
<1>9. CASE StoreConfig(r)
  BY <1>9, EndTypes DEF TypeOK, StoreConfig
<1> QED
  BY <1>1, <1>2, <1>3, <1>4, <1>5, <1>6, <1>7, <1>8, <1>9 DEF ConfigStep

(* Changes of the admin users keep the types.                              *)
LEMMA UserTypes ==
  ASSUME TypeOK, NEW r \in Requests, UserStep(r) \/ StoreFails(r)
  PROVE  TypeOK'
<1> USE DEF memoryVars, s3Vars, countVars, siteHistory, saveHistory
<1>1. ASSUME NEW u \in Users, CreateUserBegin(r, u) \/ DeleteUserBegin(r, u)
      PROVE  TypeOK'
  <2>1. /\ pc' \in [Requests -> Phases] /\ user' \in [Requests -> Users \cup {None}]
        /\ copy' = copy
    BY <1>1 DEF TypeOK, CreateUserBegin, DeleteUserBegin, UserBegin, GoTo, Phases, InFlight
  <2>2. \A q \in Requests : pc'[q] \in {"update", "put"} => pc'[q] = pc[q]
    BY <1>1 DEF TypeOK, CreateUserBegin, DeleteUserBegin, UserBegin, GoTo
  <2>3. \A q \in Requests : pc'[q] \in {"create", "delete"} => user'[q] # None
    BY <1>1, NamesAssumption DEF TypeOK, CreateUserBegin, DeleteUserBegin, UserBegin, GoTo
  <2> QED
    BY <1>1, <2>1, <2>2, <2>3 DEF TypeOK, CreateUserBegin, DeleteUserBegin, UserBegin
<1>2. CASE CreateUser(r)
  BY <1>2, EndTypes DEF TypeOK, CreateUser
<1>3. CASE DeleteUser(r)
  BY <1>3, EndTypes DEF TypeOK, DeleteUser
<1>4. CASE StoreFails(r)
  <2>1. errors' \in Nat
    BY <1>4 DEF TypeOK, StoreFails
  <2>3. clean' \in BOOLEAN /\ alone' \in Requests \cup {None}
    BY <1>4 DEF TypeOK, StoreFails
  <2>2. End(r)
    BY <1>4 DEF StoreFails
  <2> QED
    BY <1>4, <2>1, <2>2, <2>3, EndTypes DEF TypeOK, StoreFails
<1> QED
  BY <1>1, <1>2, <1>3, <1>4 DEF UserStep

(* Starts, ends and the S3 handlers keep the types.                        *)
LEMMA OtherTypes ==
  ASSUME TypeOK, Start \/ Stop \/ CreateBucket \/ PutObject
  PROVE  TypeOK'
<1> USE DEF memoryVars, requestVars, s3Vars, countVars, siteHistory, saveHistory
<1>1. CASE Start
  <2>1. Loaded \in Configs /\ Loaded.sites \in Lists
    BY LoadedType DEF Configs
  <2> QED
    BY <1>1, <2>1 DEF TypeOK, Start
<1>2. CASE Stop
  <2>1. /\ pc' \in [Requests -> Phases]
        /\ \A q \in Requests : pc'[q] \notin InFlight
    BY <1>2 DEF TypeOK, Stop, Phases, InFlight, Running
  <2>2. \A q \in Requests : pc'[q] \notin {"update", "put", "create", "delete"}
    BY <2>1 DEF InFlight
  <2>3. /\ copy' \in [Requests -> Configs \cup {None}]
        /\ user' \in [Requests -> Users \cup {None}]
        /\ up' = "down" /\ stops' \in Nat
    BY <1>2, NumbersAssumption DEF TypeOK, Stop
  <2> QED
    BY <1>2, <2>1, <2>2, <2>3 DEF TypeOK, Stop
<1>3. CASE CreateBucket
  BY <1>3, NamesType DEF TypeOK, CreateBucket
<1>4. CASE PutObject
  <2>1. PICK t \in Targets :
          object' = [sites |-> {clients[i] : i \in t[1]}, coded |-> t[3],
                     apart |-> \A i, j \in t[1] : clients[i] = clients[j] => i = j]
    BY <1>4 DEF PutObject
  <2>2. t[1] \subseteq Used(clients) /\ t[3] \in BOOLEAN
    <3>1. CASE t = <<Used(clients), 1, FALSE>>
      BY <3>1
    <3>2. CASE \E S \in SUBSET Used(clients) : t = <<S, conf.data, TRUE>>
      BY <3>2
    <3> QED
      BY <3>1, <3>2 DEF Targets
  <2>3. {clients[i] : i \in t[1]} \in SUBSET Names
    BY <2>2 DEF TypeOK, Lists, Used
  <2>4. object' \in Objects
    BY <2>1, <2>2, <2>3 DEF Objects
  <2> QED
    BY <1>4, <2>4 DEF TypeOK, PutObject
<1> QED
  BY <1>1, <1>2, <1>3, <1>4

(* The types hold at the start.                                            *)
LEMMA TypeInit == ASSUME Init PROVE TypeOK
<1>1. stored \in Configs \cup {None} /\ conf \in Configs /\ clients \in Lists
  BY DefaultType, ConfigsAssumption DEF Init, NoSites, Lists
<1>2. /\ pc \in [Requests -> Phases]
      /\ \A r \in Requests : pc[r] = "new"
  BY DEF Init, Phases
<1> QED
  BY <1>1, <1>2 DEF Init, TypeOK

(* Every step keeps the types.                                             *)
LEMMA TypeStep == ASSUME TypeOK, [Next]_vars PROVE TypeOK'
<1>1. CASE UNCHANGED vars
  BY <1>1 DEF vars, TypeOK
<1>2. CASE Next
  BY <1>2, ConfigTypes, UserTypes, OtherTypes DEF Next
<1> QED
  BY <1>1, <1>2

(* Every variable keeps its type, for any number of sites and requests.    *)
THEOREM ManagementTypeCorrect == Spec => []TypeOK
  BY TypeInit, TypeStep, PTL DEF Spec

-----------------------------------------------------------------------------
(* Sites are kept, and configurations stay usable                          *)

(* The configurations that can still come to be in memory: the one there,  *)
(* the one a start would load, and those the requests hold.                *)
Held == ({conf, Loaded} \cup {copy[r] : r \in Requests}) \ {None}

(* Requests are under way only while the process runs.                     *)
RunInv == up # "running" => \A r \in Requests : pc[r] \notin InFlight /\ copy[r] = None

(* No configuration has lost a client's site that nobody asked to drop.    *)
KeepsClients == \A c \in Held : NamesIn(clients) \subseteq NamesIn(c.sites) \cup dropped

(* Data are on sites with a client, or on dropped ones.                    *)
DataKept ==
  /\ bucket # None => bucket \subseteq NamesIn(clients) \cup dropped
  /\ object # None => object.sites \subseteq NamesIn(clients) \cup dropped

(* No two sites have one name, unless a request gave it to them.           *)
NamesApart ==
  ~reused =>
    /\ \A c \in Held : Distinct(c.sites)
    /\ Distinct(clients)
    /\ object # None => object.apart

(* Every configuration is usable, unless one was imported.                 *)
AllSound == ~imported => (\A c \in Held : Sound(c)) /\ up # "stuck"

SiteInv == TypeOK /\ RunInv /\ KeepsClients /\ DataKept /\ NamesApart /\ AllSound

(* Nothing is a configuration that no handler made.                        *)
LEMMA HeldTypes == ASSUME TypeOK PROVE conf \in Held /\ Loaded \in Held /\ Held \subseteq Configs
  BY LoadedType, ConfigsAssumption DEF TypeOK, Held

(* A site's name stays in the list unless it is dropped; a list without    *)
(* two sites of one name stays one unless a name is given twice.           *)
LEMMA ChangedSites ==
  ASSUME NEW c \in Configs
  PROVE  /\ \A n \in Names, i \in Slots :
              /\ c.sites[i] = None
              /\ AddSite(c, n, i) # None
              => /\ NamesIn(c.sites) \subseteq NamesIn(AddSite(c, n, i).sites)
                 /\ Distinct(c.sites) => Distinct(AddSite(c, n, i).sites)
         /\ \A n, new \in Names, i \in Slots :
              UpdateSite(c, n, i, new) # None
              => /\ NamesIn(c.sites)
                      \subseteq NamesIn(UpdateSite(c, n, i, new).sites) \cup ({n} \ {new})
                 /\ /\ Distinct(c.sites)
                    /\ new = n \/ new \notin NamesIn(c.sites)
                    => Distinct(UpdateSite(c, n, i, new).sites)
         /\ \A n \in Names :
              RemoveSite(c, n) # None
              => /\ NamesIn(c.sites) \subseteq NamesIn(RemoveSite(c, n).sites) \cup {n}
                 /\ Distinct(c.sites) => Distinct(RemoveSite(c, n).sites)
<1>0. c.sites \in [Slots -> Names \cup {None}] /\ None \notin Names
  BY NamesAssumption DEF Configs, Lists
<1>1. ASSUME NEW n \in Names, NEW i \in Slots, c.sites[i] = None, AddSite(c, n, i) # None
      PROVE  /\ NamesIn(c.sites) \subseteq NamesIn(AddSite(c, n, i).sites)
             /\ Distinct(c.sites) => Distinct(AddSite(c, n, i).sites)
  <2> DEFINE s == AddSite(c, n, i).sites
  <2>1. n \notin NamesIn(c.sites) /\ s = [c.sites EXCEPT ![i] = n]
    BY <1>1 DEF AddSite, Configs
  <2> HIDE DEF s
  <2>2. s[i] = n /\ \A j \in Slots \ {i} : s[j] = c.sites[j]
    BY <1>0, <2>1
  <2>3. NamesIn(c.sites) \subseteq NamesIn(s)
    BY <1>1, <2>2 DEF NamesIn, Used
  <2>4. ASSUME Distinct(c.sites) PROVE Distinct(s)
    BY <2>1, <2>2, <2>4 DEF Distinct, NamesIn, Used
  <2> QED
    BY <2>3, <2>4 DEF s
<1>2. ASSUME NEW n \in Names, NEW new \in Names, NEW i \in Slots, UpdateSite(c, n, i, new) # None
      PROVE  /\ NamesIn(c.sites)
                  \subseteq NamesIn(UpdateSite(c, n, i, new).sites) \cup ({n} \ {new})
             /\ Distinct(c.sites) /\ (new = n \/ new \notin NamesIn(c.sites))
                => Distinct(UpdateSite(c, n, i, new).sites)
  <2> DEFINE s == UpdateSite(c, n, i, new).sites
  <2>1. c.sites[i] = n /\ s = [c.sites EXCEPT ![i] = new]
    BY <1>2 DEF UpdateSite, Configs
  <2> HIDE DEF s
  <2>2. s[i] = new /\ \A j \in Slots \ {i} : s[j] = c.sites[j]
    BY <1>0, <2>1
  <2>3. NamesIn(c.sites) \subseteq NamesIn(s) \cup ({n} \ {new})
    BY <1>0, <2>1, <2>2 DEF NamesIn, Used
  <2>4. ASSUME Distinct(c.sites), new = n \/ new \notin NamesIn(c.sites) PROVE Distinct(s)
    BY <1>0, <2>1, <2>2, <2>4 DEF Distinct, NamesIn, Used
  <2> QED
    BY <2>3, <2>4 DEF s
<1>3. ASSUME NEW n \in Names, RemoveSite(c, n) # None
      PROVE  /\ NamesIn(c.sites) \subseteq NamesIn(RemoveSite(c, n).sites) \cup {n}
             /\ Distinct(c.sites) => Distinct(RemoveSite(c, n).sites)
  <2> DEFINE s == RemoveSite(c, n).sites
  <2>1. s = [i \in Slots |-> IF c.sites[i] = n THEN None ELSE c.sites[i]]
    BY <1>3 DEF RemoveSite, Configs
  <2> HIDE DEF s
  <2>2. NamesIn(c.sites) \subseteq NamesIn(s) \cup {n}
    BY <2>1 DEF NamesIn, Used
  <2>3. ASSUME Distinct(c.sites) PROVE Distinct(s)
    BY <2>1, <2>3 DEF Distinct, Used
  <2> QED
    BY <2>2, <2>3 DEF s
<1> QED
  BY <1>1, <1>2, <1>3

(* Only the counts of chunks can make a configuration unusable, and they   *)
(* are compared with zero.                                                 *)
LEMMA ChangedSound ==
  ASSUME NEW c \in Configs, Sound(c)
  PROVE  /\ \A n \in Names, i \in Slots : AddSite(c, n, i) # None => Sound(AddSite(c, n, i))
         /\ \A n, new \in Names, i \in Slots :
              UpdateSite(c, n, i, new) # None => Sound(UpdateSite(c, n, i, new))
         /\ \A n \in Names : RemoveSite(c, n) # None => Sound(RemoveSite(c, n))
         /\ \A k, m \in Nat : UpdateErasure(c, k, m) # None => Sound(UpdateErasure(c, k, m))
         /\ \A on \in BOOLEAN : Sound(SetTls(c, on))
<1> USE DEF Configs, Sound
<1>1. \A n \in Names, i \in Slots : AddSite(c, n, i) # None => Sound(AddSite(c, n, i))
  BY DEF AddSite
<1>2. \A n, new \in Names, i \in Slots :
        UpdateSite(c, n, i, new) # None => Sound(UpdateSite(c, n, i, new))
  BY DEF UpdateSite
<1>3. \A n \in Names : RemoveSite(c, n) # None => Sound(RemoveSite(c, n))
  BY DEF RemoveSite
<1>4. \A k, m \in Nat : UpdateErasure(c, k, m) # None => Sound(UpdateErasure(c, k, m))
  BY DEF UpdateErasure
<1>5. \A on \in BOOLEAN : Sound(SetTls(c, on))
  BY DEF SetTls
<1> QED
  BY <1>1, <1>2, <1>3, <1>4, <1>5

(* The changes that leave the list of sites as it is.                      *)
LEMMA KeptSites ==
  ASSUME NEW c \in Configs
  PROVE  /\ \A k, m \in Nat : UpdateErasure(c, k, m) # None => UpdateErasure(c, k, m).sites = c.sites
         /\ \A on \in BOOLEAN : SetTls(c, on).sites = c.sites
<1>1. \A k, m \in Nat : UpdateErasure(c, k, m) # None => UpdateErasure(c, k, m).sites = c.sites
  BY DEF UpdateErasure, Configs
<1>2. \A on \in BOOLEAN : SetTls(c, on).sites = c.sites
  BY DEF SetTls, Configs
<1> QED
  BY <1>1, <1>2

(* Requests are under way only while the process runs: every step keeps it.*)
LEMMA RunInvStep == ASSUME TypeOK, RunInv, Next PROVE RunInv'
<1> USE DEF memoryVars, requestVars, s3Vars, countVars, siteHistory, saveHistory
<1>1. CASE Start
  BY <1>1 DEF RunInv, Start, TypeOK
<1>2. CASE Stop
  BY <1>2 DEF RunInv, Stop, Running, InFlight, TypeOK
<1>3. CASE CreateBucket \/ PutObject
  BY <1>3 DEF RunInv, CreateBucket, PutObject
<1>4. ASSUME NEW r \in Requests, ConfigStep(r) \/ UserStep(r) \/ StoreFails(r)
      PROVE  RunInv'
  <2>1. up = "running"
    <3>1. \/ pc[r] \in InFlight
          \/ \E c : Change(r, c)
          \/ \E u, refused, phase : UserBegin(r, u, refused, phase)
      BY <1>4 DEF ConfigStep, UserStep, AddSiteBegin, UpdateSiteBegin, RemoveSiteBegin,
                  UpdateErasureBegin, UpdateTlsBegin, ImportBegin, Update, ReadBack,
                  StoreConfig, CreateUserBegin, DeleteUserBegin, CreateUser, DeleteUser,
                  StoreFails, InFlight
    <3> QED
      BY <3>1 DEF RunInv, Change, UserBegin
  <2>2. up' = up
    BY <1>4 DEF ConfigStep, UserStep, AddSiteBegin, UpdateSiteBegin, RemoveSiteBegin,
                UpdateErasureBegin, UpdateTlsBegin, ImportBegin, Change, Update, ReadBack,
                StoreConfig, CreateUserBegin, DeleteUserBegin, UserBegin, CreateUser,
                DeleteUser, StoreFails
  <2> QED
    BY <2>1, <2>2 DEF RunInv
<1> QED
  BY <1>1, <1>2, <1>3, <1>4 DEF Next

(* A step that puts no new configuration in anyone's hands, and leaves the *)
(* rest as it is, keeps what is said of sites.                             *)
LEMMA HeldShrinks ==
  ASSUME SiteInv, Held' \subseteq Held,
         UNCHANGED <<up, clients, s3Vars, siteHistory>>
  PROVE  KeepsClients' /\ DataKept' /\ NamesApart' /\ AllSound'
<1> USE DEF s3Vars, siteHistory
<1>1. KeepsClients'
  BY DEF SiteInv, KeepsClients, NamesIn, Used
<1>2. DataKept'
  BY DEF SiteInv, DataKept, NamesIn, Used
<1>3. NamesApart'
  BY DEF SiteInv, NamesApart, Distinct, Used
<1>4. AllSound'
  BY DEF SiteInv, AllSound
<1> QED
  BY <1>1, <1>2, <1>3, <1>4

(* A handler that makes a configuration of the one in memory adds it to    *)
(* the ones held.                                                          *)
LEMMA ChangeHolds ==
  ASSUME TypeOK, NEW r \in Requests, NEW c, Change(r, c)
  PROVE  /\ Held' \subseteq Held \cup ({c} \ {None})
         /\ UNCHANGED <<up, clients, s3Vars>>
<1> USE DEF memoryVars
<1>1. \A q \in Requests : copy'[q] = copy[q] \/ copy'[q] = c
  BY DEF Change, TypeOK
<1>2. conf' = conf /\ Loaded' = Loaded /\ UNCHANGED <<up, clients, s3Vars>>
  BY DEF Change, Loaded
<1> QED
  BY <1>1, <1>2 DEF Held

(* Such a handler keeps what is said of sites, if what it makes does.      *)
LEMMA ChangeKeeps ==
  ASSUME SiteInv, NEW r \in Requests, NEW c, Change(r, c),
         dropped \subseteq dropped', reused => reused', imported => imported',
         c # None => NamesIn(clients) \subseteq NamesIn(c.sites) \cup dropped',
         c # None /\ ~reused' => Distinct(c.sites),
         c # None /\ ~imported' => Sound(c),
         reused \in BOOLEAN, reused' \in BOOLEAN, imported \in BOOLEAN, imported' \in BOOLEAN
  PROVE  KeepsClients' /\ DataKept' /\ NamesApart' /\ AllSound'
<1>1. /\ Held' \subseteq Held \cup ({c} \ {None})
      /\ up' = up /\ clients' = clients /\ bucket' = bucket /\ object' = object
  BY ChangeHolds DEF SiteInv, s3Vars
<1>2. KeepsClients'
  <2> SUFFICES ASSUME NEW d \in Held'
               PROVE  NamesIn(clients) \subseteq NamesIn(d.sites) \cup dropped'
    BY <1>1 DEF KeepsClients, NamesIn, Used
  <2>1. CASE d \in Held
    BY <2>1 DEF SiteInv, KeepsClients
  <2>2. CASE d = c /\ c # None
    BY <2>2
  <2> QED
    BY <1>1, <2>1, <2>2
<1>3. DataKept'
  BY <1>1 DEF SiteInv, DataKept, NamesIn, Used
<1>4. NamesApart'
  BY <1>1 DEF SiteInv, NamesApart, Distinct, Used
<1>5. AllSound'
  BY <1>1 DEF SiteInv, AllSound
<1> QED
  BY <1>2, <1>3, <1>4, <1>5

(* The handlers that change the configuration keep what is said of sites.  *)
LEMMA ConfigKeeps ==
  ASSUME SiteInv, NEW r \in Requests, ConfigStep(r)
  PROVE  KeepsClients' /\ DataKept' /\ NamesApart' /\ AllSound'
<1> USE DEF memoryVars, s3Vars, countVars, siteHistory, saveHistory
<1>0. /\ TypeOK /\ conf \in Configs /\ conf.data \in Nat /\ conf.parity \in Nat
      /\ Counts \subseteq Nat /\ conf \in Held
      /\ NamesIn(clients) \subseteq NamesIn(conf.sites) \cup dropped
      /\ ~reused => Distinct(conf.sites)
      /\ ~imported => Sound(conf)
      /\ reused \in BOOLEAN /\ imported \in BOOLEAN
  BY NumbersAssumption, HeldTypes
     DEF SiteInv, TypeOK, Configs, KeepsClients, NamesApart, AllSound
<1>1. ASSUME NEW n \in Names, NEW i \in Slots, AddSiteBegin(r, n, i)
      PROVE  KeepsClients' /\ DataKept' /\ NamesApart' /\ AllSound'
  BY <1>0, <1>1, ChangedSites, ChangedSound, ChangeKeeps DEF AddSiteBegin
<1>2. ASSUME NEW n \in Names, NEW new \in Names, NEW i \in Slots, UpdateSiteBegin(r, n, i, new)
      PROVE  KeepsClients' /\ DataKept' /\ NamesApart' /\ AllSound'
  <2>1. UpdateSite(conf, n, i, new) # None
        => /\ NamesIn(conf.sites)
                \subseteq NamesIn(UpdateSite(conf, n, i, new).sites) \cup ({n} \ {new})
           /\ Distinct(conf.sites) /\ (new = n \/ new \notin NamesIn(conf.sites))
              => Distinct(UpdateSite(conf, n, i, new).sites)
    BY <1>0, ChangedSites
  <2>2. ~imported /\ UpdateSite(conf, n, i, new) # None => Sound(UpdateSite(conf, n, i, new))
    BY <1>0, ChangedSound
  <2>3. UpdateSite(conf, n, i, new) # None => n \in NamesIn(conf.sites)
    BY <1>0, NamesAssumption DEF UpdateSite, NamesIn, Used
  <2>4. /\ Change(r, UpdateSite(conf, n, i, new))
        /\ dropped' = dropped \cup (({n} \cap NamesIn(conf.sites)) \ {new})
        /\ reused' = (reused \/ (new # n /\ {n, new} \subseteq NamesIn(conf.sites)))
        /\ imported' = imported
    BY <1>2 DEF UpdateSiteBegin
  <2>5. /\ ~reused' => ~reused
        /\ ~reused' /\ UpdateSite(conf, n, i, new) # None
           => new = n \/ new \notin NamesIn(conf.sites)
    BY <2>4, <2>3
  <2>6. reused' \in BOOLEAN /\ (reused => reused')
    BY <1>0, <2>4
  <2>7. UpdateSite(conf, n, i, new) # None
        => NamesIn(clients) \subseteq NamesIn(UpdateSite(conf, n, i, new).sites) \cup dropped'
    BY <1>0, <2>1, <2>4, <2>3
  <2> QED
    BY <1>0, <2>1, <2>2, <2>4, <2>5, <2>6, <2>7, ChangeKeeps
<1>3. ASSUME NEW n \in Names, RemoveSiteBegin(r, n)
      PROVE  KeepsClients' /\ DataKept' /\ NamesApart' /\ AllSound'
  <2>1. RemoveSite(conf, n) # None => n \in NamesIn(conf.sites)
    BY DEF RemoveSite
  <2>2. /\ Change(r, RemoveSite(conf, n))
        /\ dropped' = dropped \cup ({n} \cap NamesIn(conf.sites))
        /\ reused' = reused /\ imported' = imported
    BY <1>3 DEF RemoveSiteBegin
  <2> QED
    BY <1>0, <2>1, <2>2, ChangedSites, ChangedSound, ChangeKeeps
<1>4. ASSUME NEW k \in Counts \cup {conf.data}, NEW m \in Counts \cup {conf.parity},
             UpdateErasureBegin(r, k, m)
      PROVE  KeepsClients' /\ DataKept' /\ NamesApart' /\ AllSound'
  <2>1. k \in Nat /\ m \in Nat
    BY <1>0
  <2> QED
    BY <1>0, <1>4, <2>1, KeptSites, ChangedSound, ChangeKeeps DEF UpdateErasureBegin
<1>5. ASSUME NEW on \in BOOLEAN, UpdateTlsBegin(r, on)
      PROVE  KeepsClients' /\ DataKept' /\ NamesApart' /\ AllSound'
  BY <1>0, <1>5, KeptSites, ChangedSound, ChangeKeeps DEF UpdateTlsBegin
<1>6. ASSUME NEW c \in Imports, ImportBegin(r, c)
      PROVE  KeepsClients' /\ DataKept' /\ NamesApart' /\ AllSound'
  <2>1. Distinct(c.sites) \in BOOLEAN
    BY DEF Distinct
  <2>2. /\ Change(r, c)
        /\ dropped' = dropped \cup (Names \ NamesIn(c.sites))
        /\ reused' = (reused \/ ~Distinct(c.sites))
        /\ imported' = TRUE
    BY <1>6 DEF ImportBegin
  <2>3. NamesIn(clients) \subseteq Names
    BY <1>0, NamesType DEF TypeOK
  <2>4. NamesIn(clients) \subseteq NamesIn(c.sites) \cup dropped'
    BY <2>2, <2>3
  <2>5. reused' \in BOOLEAN /\ (reused => reused') /\ (~reused' => Distinct(c.sites))
    BY <1>0, <2>1, <2>2
  <2> QED
    BY <1>0, <2>2, <2>4, <2>5, ChangeKeeps
<1>7. CASE Update(r)
  <2>1. Held' \subseteq Held
    BY <1>0, <1>7 DEF Update, Held, Loaded, TypeOK
  <2> QED
    BY <1>7, <2>1, HeldShrinks DEF Update
<1>8. CASE ReadBack(r)
  <2>1. \A q \in Requests : copy'[q] \in {copy[q], conf}
    BY <1>0, <1>8 DEF ReadBack, TypeOK
  <2>2. Held' \subseteq Held
    BY <1>8, <2>1 DEF ReadBack, Held, Loaded
  <2> QED
    BY <1>8, <2>2, HeldShrinks DEF ReadBack
<1>9. CASE StoreConfig(r)
  <2>1. \A q \in Requests : copy'[q] \in {copy[q], None}
    BY <1>0, <1>9 DEF StoreConfig, End, TypeOK
  <2>2. Loaded' \in Held
    BY <1>0, <1>9, ConfigsAssumption DEF StoreConfig, Held, Loaded, TypeOK
  <2>3. Held' \subseteq Held
    BY <1>9, <2>1, <2>2 DEF StoreConfig, Held
  <2> QED
    BY <1>9, <2>3, HeldShrinks DEF StoreConfig
<1> QED
  BY <1>1, <1>2, <1>3, <1>4, <1>5, <1>6, <1>7, <1>8, <1>9 DEF ConfigStep

(* The handlers of admin users, and calls of the store that fail, put no   *)
(* new configuration in anyone's hands.                                    *)
LEMMA UserKeeps ==
  ASSUME SiteInv, NEW r \in Requests, UserStep(r) \/ StoreFails(r)
  PROVE  KeepsClients' /\ DataKept' /\ NamesApart' /\ AllSound'
<1> USE DEF memoryVars, s3Vars, countVars, siteHistory, saveHistory
<1>1. ASSUME NEW u \in Users, CreateUserBegin(r, u) \/ DeleteUserBegin(r, u)
      PROVE  /\ Held' \subseteq Held
             /\ UNCHANGED <<up, clients, s3Vars, siteHistory>>
  BY <1>1 DEF CreateUserBegin, DeleteUserBegin, UserBegin, Held, Loaded
<1>2. ASSUME CreateUser(r) \/ DeleteUser(r) \/ StoreFails(r)
      PROVE  /\ Held' \subseteq Held
             /\ UNCHANGED <<up, clients, s3Vars, siteHistory>>
  <2>1. End(r) /\ UNCHANGED <<memoryVars, stored, s3Vars, siteHistory>>
    BY <1>2 DEF CreateUser, DeleteUser, StoreFails
  <2>2. \A q \in Requests : copy'[q] \in {copy[q], None}
    BY <2>1 DEF End, SiteInv, TypeOK
  <2> QED
    BY <2>1, <2>2 DEF Held, Loaded
<1> QED
  BY <1>1, <1>2, HeldShrinks DEF UserStep

(* Starts, ends and the S3 handlers keep what is said of sites: a start    *)
(* gives a client to every site of the configuration it loads, and only to *)
(* those.                                                                  *)
LEMMA OtherKeeps ==
  ASSUME SiteInv, Start \/ Stop \/ CreateBucket \/ PutObject
  PROVE  KeepsClients' /\ DataKept' /\ NamesApart' /\ AllSound'
<1> USE DEF memoryVars, requestVars, s3Vars, countVars, siteHistory, saveHistory
<1>1. CASE Start
  <2>1. /\ Loaded \in Held /\ Loaded # None /\ Loaded' = Loaded
        /\ \A r \in Requests : copy[r] = None
    BY <1>1, HeldTypes, ConfigsAssumption DEF SiteInv, RunInv, Start, Loaded
  <2>2. /\ conf' = Loaded /\ clients' = Loaded.sites /\ copy' = copy
        /\ dropped' = dropped \ NamesIn(clients')
        /\ bucket' = bucket /\ object' = object /\ reused' = reused /\ imported' = imported
    BY <1>1 DEF Start
  <2>3. Held' = {Loaded}
    BY <2>1, <2>2 DEF Held
  <2>4. NamesIn(clients) \subseteq NamesIn(clients') \cup dropped'
    BY <2>1, <2>2 DEF SiteInv, KeepsClients
  <2>5. dropped \subseteq NamesIn(clients') \cup dropped'
    BY <2>2
  <2>6. KeepsClients'
    BY <2>2, <2>3 DEF KeepsClients, NamesIn, Used
  <2>7. DataKept'
    <3>1. NamesIn(clients)' = NamesIn(clients')
      BY DEF NamesIn, Used
    <3> QED
      BY <2>2, <2>4, <2>5, <3>1 DEF SiteInv, DataKept
  <2>8. NamesApart'
    BY <2>1, <2>2, <2>3 DEF SiteInv, NamesApart, Distinct, Used
  <2>9. ~imported => Sound(Loaded)
    BY <2>1 DEF SiteInv, AllSound
  <2>10. ~imported => up' # "stuck"
    BY <1>1, <2>9, NumbersAssumption DEF Start, Sound
  <2>11. AllSound'
    BY <2>2, <2>3, <2>9, <2>10 DEF AllSound
  <2> QED
    BY <2>6, <2>7, <2>8, <2>11
<1>2. CASE Stop
  <2>1. /\ conf' = conf /\ Loaded' = Loaded /\ clients' = clients /\ bucket' = bucket
        /\ object' = object /\ UNCHANGED siteHistory /\ up' = "down"
        /\ \A r \in Requests : copy'[r] = None
    BY <1>2 DEF Stop, Loaded
  <2>2. Held' \subseteq Held
    BY <2>1 DEF Held
  <2>3. KeepsClients'
    BY <2>1, <2>2 DEF SiteInv, KeepsClients, NamesIn, Used
  <2>4. DataKept'
    BY <2>1 DEF SiteInv, DataKept, NamesIn, Used
  <2>5. NamesApart'
    BY <2>1, <2>2 DEF SiteInv, NamesApart, Distinct, Used
  <2>6. AllSound'
    BY <2>1, <2>2 DEF SiteInv, AllSound
  <2> QED
    BY <2>3, <2>4, <2>5, <2>6
<1>3. CASE CreateBucket
  <2>1. /\ Held' = Held /\ up' = up /\ clients' = clients /\ object' = object
        /\ UNCHANGED siteHistory /\ bucket' = NamesIn(clients)
    BY <1>3 DEF CreateBucket, Held, Loaded
  <2> QED
    BY <2>1 DEF SiteInv, KeepsClients, DataKept, NamesApart, AllSound, Distinct, NamesIn, Used
<1>4. CASE PutObject
  <2>1. PICK t \in Targets :
          object' = [sites |-> {clients[i] : i \in t[1]}, coded |-> t[3],
                     apart |-> \A i, j \in t[1] : clients[i] = clients[j] => i = j]
    BY <1>4 DEF PutObject
  <2>2. t[1] \subseteq Used(clients)
    <3>1. CASE t = <<Used(clients), 1, FALSE>>
      BY <3>1
    <3>2. CASE \E S \in SUBSET Used(clients) : t = <<S, conf.data, TRUE>>
      BY <3>2
    <3> QED
      BY <3>1, <3>2 DEF Targets
  <2>3. /\ Held' = Held /\ up' = up /\ clients' = clients /\ bucket' = bucket
        /\ UNCHANGED siteHistory
    BY <1>4 DEF PutObject, Held, Loaded
  <2>4. object'.sites \subseteq NamesIn(clients)
    BY <2>1, <2>2 DEF NamesIn
  <2>5. Distinct(clients) => object'.apart
    BY <2>1, <2>2 DEF Distinct
  <2> QED
    BY <2>3, <2>4, <2>5
       DEF SiteInv, KeepsClients, DataKept, NamesApart, AllSound, Distinct, NamesIn, Used
<1> QED
  BY <1>1, <1>2, <1>3, <1>4

(* What is said of sites holds in every state.                             *)
LEMMA SiteInvCorrect == Spec => []SiteInv
<1>1. ASSUME Init PROVE SiteInv
  <2>1. TypeOK
    BY <1>1, TypeInit
  <2>2. /\ \A r \in Requests : pc[r] = "new" /\ copy[r] = None
        /\ conf = Default /\ clients = NoSites /\ bucket = None /\ object = None
        /\ stored \in Saved /\ up = "down"
    BY <1>1 DEF Init
  <2>3. NamesIn(clients) = {} /\ Distinct(clients)
    BY <2>2 DEF NamesIn, Distinct, Used, NoSites
  <2>4. Distinct(Default.sites) /\ Sound(Default)
    BY NumbersAssumption DEF Default, Distinct, Used, NoSites, Sound
  <2>5. \A c \in Held : Distinct(c.sites) /\ Sound(c)
    BY <2>2, <2>4, ConfigsAssumption DEF Held, Loaded
  <2> QED
    BY <2>1, <2>2, <2>3, <2>5
       DEF SiteInv, RunInv, InFlight, KeepsClients, DataKept, NamesApart, AllSound
<1>2. ASSUME SiteInv, [Next]_vars PROVE SiteInv'
  <2>1. TypeOK'
    BY <1>2, TypeStep DEF SiteInv
  <2>2. CASE UNCHANGED vars
    <3>1. RunInv'
      BY <1>2, <2>2 DEF SiteInv, RunInv, vars
    <3>2. Held' \subseteq Held /\ UNCHANGED <<up, clients, s3Vars, siteHistory>>
      BY <2>2 DEF vars, Held, Loaded, s3Vars, siteHistory
    <3> QED
      BY <1>2, <2>1, <3>1, <3>2, HeldShrinks DEF SiteInv
  <2>3. CASE Next
    <3>1. RunInv'
      BY <1>2, <2>3, RunInvStep DEF SiteInv
    <3>2. KeepsClients' /\ DataKept' /\ NamesApart' /\ AllSound'
      BY <1>2, <2>3, ConfigKeeps, UserKeeps, OtherKeeps DEF Next
    <3> QED
      BY <2>1, <3>1, <3>2 DEF SiteInv
  <2> QED
    BY <1>2, <2>2, <2>3
<1> QED
  BY <1>1, <1>2, PTL DEF Spec

(* A site that data are on is lost only by a request that asked for it, or *)
(* because two sites were given one name: no lost update, failed save or   *)
(* restart takes it away (management handlers, SharedRuntimeConfig, main). *)
THEOREM SitesAreKept == Spec => []SitesKept
<1>1. ASSUME SiteInv, up = "running" PROVE GetPanics => object.sites \cap dropped # {}
  BY <1>1 DEF GetPanics, SiteInv, DataKept
<1>2. ASSUME SiteInv, up = "running", PutFails, ~reused, bucket # {},
             bucket \cap dropped = {}
      PROVE  FALSE
  <2>1. bucket # None /\ bucket \subseteq NamesIn(clients) \cup dropped /\ Distinct(clients)
    BY <1>2 DEF PutFails, SiteInv, DataKept, NamesApart
  <2>2. PICK i \in Used(clients) : clients[i] \in bucket
    BY <1>2, <2>1 DEF NamesIn
  <2>3. i \in Backed /\ i \notin Twins
    BY <2>1, <2>2 DEF Backed, Twins, Distinct
  <2> QED
    BY <1>2, <2>3 DEF PutFails
<1>3. SiteInv => SitesKept
  BY <1>1, <1>2 DEF SitesKept
<1> QED
  BY <1>3, SiteInvCorrect, PTL

(* Reads tell chunks apart and the configuration can be used and started   *)
(* from, unless a name was given twice or a configuration imported.        *)
THEOREM ConfigIsSound == Spec => []ConfigSound
<1>1. SiteInv => ConfigSound
  BY HeldTypes DEF SiteInv, NamesApart, AllSound, ConfigSound, GetMixesUp
<1> QED
  BY <1>1, SiteInvCorrect, PTL

-----------------------------------------------------------------------------
(* Memory and the store                                                    *)

(* A change that is alone is the only one, and saves what memory has.      *)
AloneInv ==
  alone # None => /\ Changing = {alone}
                  /\ pc[alone] = "put" => copy[alone] = conf

(* Memory and the store differ only between such a change and its save,    *)
(* once what came before is put right.                                     *)
Settled ==
  up = "running" /\ clean =>
    /\ Changing # {} => alone # None
    /\ (\A r \in Changing : pc[r] = "update") => conf = Loaded

StoreInv == TypeOK /\ RunInv /\ AloneInv /\ Settled

(* What another request does leaves a change that is alone as it is.       *)
LEMMA AloneStays ==
  ASSUME AloneInv, Changing' = Changing, conf' = conf, alone' = alone,
         alone # None => pc'[alone] = pc[alone] /\ copy'[alone] = copy[alone]
  PROVE  AloneInv'
  BY DEF AloneInv

(* The changes of the configuration keep it.                               *)
LEMMA ConfigSettles ==
  ASSUME StoreInv, NEW r \in Requests, ConfigStep(r)
  PROVE  AloneInv' /\ Settled'
<1> USE DEF memoryVars, s3Vars, countVars, siteHistory, saveHistory
<1>0. TypeOK /\ RunInv /\ AloneInv /\ Settled /\ None \notin Requests
  BY NamesAssumption DEF StoreInv
<1>1. ASSUME NEW c, Change(r, c)
      PROVE  AloneInv' /\ Settled'
  <2>1. /\ up = "running" /\ pc[r] = "new" /\ r \notin Changing
        /\ up' = up /\ conf' = conf /\ Loaded' = Loaded
        /\ \A q \in Requests \ {r} : pc'[q] = pc[q] /\ copy'[q] = copy[q]
    BY <1>0, <1>1 DEF Change, GoTo, TypeOK, Loaded, Changing
  <2>2. CASE c = None
    <3>1. /\ pc'[r] = "over" /\ copy' = copy /\ clean' = clean /\ alone' = alone
      BY <1>0, <1>1, <2>2 DEF Change, GoTo, TypeOK
    <3>2. Changing' = Changing
      BY <2>1, <3>1 DEF Changing
    <3>3. alone # None => alone \in Requests \ {r}
      BY <1>0, <2>1 DEF AloneInv, Changing
    <3>4. AloneInv'
      BY <1>0, <2>1, <3>1, <3>2, <3>3, AloneStays
    <3>5. \A q \in Changing : pc'[q] = pc[q]
      BY <2>1 DEF Changing
    <3>6. Settled'
      BY <1>0, <2>1, <3>1, <3>2, <3>5 DEF Settled
    <3> QED
      BY <3>4, <3>6
  <2>3. CASE c # None
    <3>1. /\ pc'[r] = "update" /\ clean' = (clean /\ Changing = {})
          /\ alone' = IF Changing = {} THEN r ELSE None
      BY <1>0, <1>1, <2>3 DEF Change, GoTo, TypeOK
    <3>2. Changing' = Changing \cup {r}
      BY <2>1, <3>1 DEF Changing
    <3>3. AloneInv'
      BY <3>1, <3>2 DEF AloneInv
    <3>4. ASSUME clean' PROVE alone' # None /\ conf' = Loaded'
      BY <1>0, <2>1, <3>1, <3>4 DEF Settled
    <3>5. Settled'
      BY <3>4 DEF Settled
    <3> QED
      BY <3>3, <3>5
  <2> QED
    BY <2>2, <2>3
<1>2. CASE Update(r)
  <2>1. /\ r \in Changing /\ pc'[r] = "save" /\ copy' = copy /\ up' = up
        /\ clean' = clean /\ alone' = alone
        /\ \A q \in Requests \ {r} : pc'[q] = pc[q]
    BY <1>0, <1>2 DEF Update, GoTo, TypeOK, Changing
  <2>2. Changing' = Changing
    BY <2>1 DEF Changing
  <2>3. alone # None => alone = r
    BY <1>0, <2>1 DEF AloneInv
  <2>4. AloneInv'
    BY <1>0, <2>1, <2>2, <2>3 DEF AloneInv
  <2>5. Settled'
    BY <1>0, <2>1, <2>2 DEF Settled
  <2> QED
    BY <2>4, <2>5
<1>3. CASE ReadBack(r)
  <2>1. /\ r \in Changing /\ pc'[r] = "put" /\ copy'[r] = conf /\ conf' = conf /\ up' = up
        /\ clean' = clean /\ alone' = alone
        /\ \A q \in Requests \ {r} : pc'[q] = pc[q]
    BY <1>0, <1>3 DEF ReadBack, GoTo, TypeOK, Changing
  <2>2. Changing' = Changing
    BY <2>1 DEF Changing
  <2>3. alone # None => alone = r
    BY <1>0, <2>1 DEF AloneInv
  <2>4. AloneInv'
    BY <1>0, <2>1, <2>2, <2>3 DEF AloneInv
  <2>5. Settled'
    BY <1>0, <2>1, <2>2 DEF Settled
  <2> QED
    BY <2>4, <2>5
<1>4. CASE StoreConfig(r)
  <2>1. /\ r \in Changing /\ pc[r] = "put" /\ pc'[r] = "over" /\ conf' = conf
        /\ stored' = copy[r] /\ clean' = (clean \/ alone = r) /\ alone' = None /\ up' = up
        /\ \A q \in Requests \ {r} : pc'[q] = pc[q]
    BY <1>0, <1>4 DEF StoreConfig, End, GoTo, TypeOK, Changing
  <2>2. AloneInv'
    BY <2>1 DEF AloneInv
  <2>3. ASSUME up = "running", clean' PROVE Changing' = {} /\ conf' = Loaded'
    <3>1. alone = r
      BY <1>0, <2>1, <2>3 DEF Settled, AloneInv
    <3>2. Changing = {r} /\ copy[r] = conf /\ conf # None
      BY <1>0, <2>1, <3>1, ConfigsAssumption DEF AloneInv, TypeOK
    <3>3. Changing' = {}
      BY <2>1, <3>2 DEF Changing
    <3> QED
      BY <2>1, <3>2, <3>3 DEF Loaded
  <2>4. Settled'
    BY <2>1, <2>3 DEF Settled
  <2> QED
    BY <2>2, <2>4
<1> QED
  BY <1>1, <1>2, <1>3, <1>4
     DEF ConfigStep, AddSiteBegin, UpdateSiteBegin, RemoveSiteBegin, UpdateErasureBegin,
         UpdateTlsBegin, ImportBegin

(* The other requests keep it: they change neither memory nor the store.   *)
LEMMA UserSettles ==
  ASSUME StoreInv, NEW r \in Requests, UserStep(r) \/ StoreFails(r)
  PROVE  AloneInv' /\ Settled'
<1> USE DEF memoryVars, s3Vars, countVars, siteHistory, saveHistory
<1>0. TypeOK /\ RunInv /\ AloneInv /\ Settled /\ None \notin Requests
  BY NamesAssumption DEF StoreInv
<1>1. ASSUME pc[r] \notin {"update", "save", "put"}, pc'[r] \notin {"update", "save", "put"},
             \A q \in Requests \ {r} : pc'[q] = pc[q] /\ copy'[q] = copy[q],
             UNCHANGED <<up, conf, stored, clean, alone>>
      PROVE  AloneInv' /\ Settled'
  <2>1. Changing' = Changing /\ r \notin Changing /\ Loaded' = Loaded
    BY <1>1 DEF Changing, Loaded
  <2>2. alone # None => alone \in Requests \ {r}
    BY <1>0, <2>1 DEF AloneInv, Changing
  <2>3. AloneInv'
    BY <1>0, <1>1, <2>1, <2>2, AloneStays
  <2>4. \A q \in Changing : pc'[q] = pc[q]
    BY <1>1, <2>1 DEF Changing
  <2>5. Settled'
    BY <1>0, <1>1, <2>1, <2>4 DEF Settled
  <2> QED
    BY <2>3, <2>5
<1>2. ASSUME NEW u \in Users, CreateUserBegin(r, u) \/ DeleteUserBegin(r, u)
      PROVE  AloneInv' /\ Settled'
  <2>1. /\ pc[r] = "new" /\ pc'[r] \in {"over", "create", "delete"}
        /\ \A q \in Requests \ {r} : pc'[q] = pc[q] /\ copy'[q] = copy[q]
        /\ UNCHANGED <<up, conf, stored, clean, alone>>
    BY <1>0, <1>2 DEF CreateUserBegin, DeleteUserBegin, UserBegin, GoTo, TypeOK
  <2> QED
    BY <1>1, <2>1
<1>3. CASE CreateUser(r) \/ DeleteUser(r)
  <2>1. /\ pc[r] \in {"create", "delete"} /\ pc'[r] = "over"
        /\ \A q \in Requests \ {r} : pc'[q] = pc[q] /\ copy'[q] = copy[q]
        /\ UNCHANGED <<up, conf, stored, clean, alone>>
    BY <1>0, <1>3 DEF CreateUser, DeleteUser, End, GoTo, TypeOK
  <2> QED
    BY <1>1, <2>1
<1>4. CASE StoreFails(r)
  <2>1. /\ pc[r] \in {"put", "create", "delete"} /\ pc'[r] = "over"
        /\ \A q \in Requests \ {r} : pc'[q] = pc[q] /\ copy'[q] = copy[q]
        /\ UNCHANGED <<up, conf, stored>>
        /\ clean' = (clean /\ pc[r] # "put")
        /\ alone' = IF alone = r THEN None ELSE alone
    BY <1>0, <1>4 DEF StoreFails, End, GoTo, TypeOK
  <2>2. CASE pc[r] = "put"
    <3>1. r \in Changing /\ ~clean'
      BY <2>1, <2>2 DEF Changing
    <3>2. alone' = None
      BY <1>0, <2>1, <3>1 DEF AloneInv
    <3> QED
      BY <3>1, <3>2 DEF AloneInv, Settled
  <2>3. CASE pc[r] # "put"
    <3>1. alone # r
      BY <1>0, <2>1, <2>3 DEF AloneInv, Changing
    <3>2. clean' = clean
      BY <1>0, <2>1, <2>3 DEF TypeOK
    <3> QED
      BY <1>1, <2>1, <2>3, <3>1, <3>2
  <2> QED
    BY <2>2, <2>3
<1> QED
  BY <1>2, <1>3, <1>4 DEF UserStep

(* In every state.                                                         *)
LEMMA StoreInvCorrect == Spec => []StoreInv
<1> USE DEF memoryVars, requestVars, s3Vars, countVars, siteHistory, saveHistory
<1>1. ASSUME Init PROVE StoreInv
  BY <1>1, TypeInit DEF Init, StoreInv, RunInv, AloneInv, Settled, InFlight
<1>2. ASSUME StoreInv, [Next]_vars PROVE StoreInv'
  <2>1. TypeOK'
    BY <1>2, TypeStep DEF StoreInv
  <2>2. CASE UNCHANGED vars
    BY <1>2, <2>1, <2>2 DEF StoreInv, RunInv, AloneInv, Settled, Changing, Loaded, vars
  <2>3. CASE Next
    <3>1. RunInv'
      BY <1>2, <2>3, RunInvStep DEF StoreInv
    <3>2. CASE Start
      <4>1. \A r \in Requests : pc[r] \notin InFlight
        BY <1>2, <3>2 DEF StoreInv, RunInv, Start
      <4>2. conf' = Loaded /\ Loaded' = Loaded /\ pc' = pc /\ alone' = alone
        BY <3>2 DEF Start, Loaded
      <4>3. Changing = {} /\ Changing' = {}
        BY <4>1, <4>2 DEF Changing, InFlight
      <4>4. AloneInv' /\ Settled'
        BY <1>2, <4>2, <4>3 DEF StoreInv, AloneInv, Settled
      <4> QED
        BY <2>1, <3>1, <4>4 DEF StoreInv
    <3>3. CASE Stop
      BY <2>1, <3>1, <3>3 DEF Stop, StoreInv, AloneInv, Settled
    <3>4. CASE CreateBucket \/ PutObject
      BY <1>2, <2>1, <3>1, <3>4
         DEF CreateBucket, PutObject, StoreInv, AloneInv, Settled, Changing, Loaded
    <3>5. ASSUME NEW r \in Requests, ConfigStep(r) \/ UserStep(r) \/ StoreFails(r)
          PROVE  StoreInv'
      BY <1>2, <2>1, <3>1, <3>5, ConfigSettles, UserSettles DEF StoreInv
    <3> QED
      BY <2>3, <3>2, <3>3, <3>4, <3>5 DEF Next
  <2> QED
    BY <1>2, <2>2, <2>3
<1> QED
  BY <1>1, <1>2, PTL DEF Spec

(* A gateway that is restarted has the configuration it had, since the     *)
(* last change that was made and saved alone, whatever overlapped or       *)
(* failed before that (update, save_to_db).                                *)
THEOREM StoreKeepsUp == Spec => []StoredIsMemory
<1>1. StoreInv => StoredIsMemory
  BY DEF StoreInv, Settled, StoredIsMemory
<1> QED
  BY <1>1, StoreInvCorrect, PTL
=============================================================================
