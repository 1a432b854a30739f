---------------------------- MODULE DurableStore ----------------------------
(***************************************************************************)
(* What the S3Prism gateway promises about objects, without saying how.    *)
(*                                                                         *)
(* A key of a bucket is bound to at most one version (the MVP is           *)
(* unversioned, latest write wins).  A version may be bound only when      *)
(* enough of its chunks are stored to read it back, it stays readable for  *)
(* as long as it is bound, and once it has been unbound no key ever sees   *)
(* it again.  A read works on the version that was bound when it started;  *)
(* when no site fails it, it returns that version unless the version has   *)
(* been unbound since.                                                     *)
(***************************************************************************)
CONSTANTS Keys,      \* object keys
          Versions,  \* every write stores a version of its own
          Readers,   \* requests that fetch an object
          NoVersion  \* what an unbound key is bound to

VARIABLES bound,     \* the version every key is bound to
          used,      \* the versions that have ever been bound
          readable,  \* the versions that can be read back now
          view,      \* the version a reader has to return
          reply      \* what a reader was answered

vars == <<bound, used, readable, view, reply>>

Bound == {v \in Versions : \E k \in Keys : bound[k] = v}

Replies == {"idle", "open", "data", "error", "excused"}

TypeOK ==
  /\ bound \in [Keys -> Versions \cup {NoVersion}]
  /\ used \in SUBSET Versions
  /\ readable \in SUBSET Versions
  /\ view \in [Readers -> Versions \cup {NoVersion}]
  /\ reply \in [Readers -> Replies]

Init ==
  /\ bound = [k \in Keys |-> NoVersion]
  /\ used = {}
  /\ readable = {}
  /\ view = [r \in Readers |-> NoVersion]
  /\ reply = [r \in Readers |-> "idle"]

(* Chunks arrive, are lost or are reclaimed; never so many that a bound    *)
(* version can no longer be read.                                          *)
Churn ==
  /\ readable' \in SUBSET Versions
  /\ Bound \subseteq readable'
  /\ UNCHANGED <<bound, used, view, reply>>

Bind(k, v) ==
  /\ v \in readable \ used
  /\ bound' = [bound EXCEPT ![k] = v]
  /\ used' = used \cup {v}
  /\ UNCHANGED <<readable, view, reply>>

Unbind(ks) ==
  /\ bound' = [k \in Keys |-> IF k \in ks THEN NoVersion ELSE bound[k]]
  /\ UNCHANGED <<used, readable, view, reply>>

Open(r, k) ==
  /\ reply[r] = "idle"
  /\ bound[k] # NoVersion
  /\ view' = [view EXCEPT ![r] = bound[k]]
  /\ reply' = [reply EXCEPT ![r] = "open"]
  /\ UNCHANGED <<bound, used, readable>>

(* A read may fail for no other reason than that its version was unbound   *)
(* under it, unless a site failed it or its client gave up ("excused").    *)
Answer(r, a) ==
  /\ reply[r] = "open"
  /\ a \in {"data", "error", "excused"}
  /\ a = "error" => view[r] \notin Bound
  /\ reply' = [reply EXCEPT ![r] = a]
  /\ UNCHANGED <<bound, used, readable, view>>

(* A crash of the gateway closes every open read at once.                  *)
Interrupt ==
  /\ reply' \in [Readers -> Replies]
  /\ \A r \in Readers :
        reply'[r] # reply[r] => reply[r] = "open" /\ reply'[r] \in {"data", "excused"}
  /\ UNCHANGED <<bound, used, readable, view>>

Next ==
  \/ Churn
  \/ \E k \in Keys, v \in Versions : Bind(k, v)
  \/ \E ks \in SUBSET Keys : Unbind(ks)
  \/ \E r \in Readers, k \in Keys : Open(r, k)
  \/ \E r \in Readers, a \in Replies : Answer(r, a)
  \/ Interrupt

Spec == Init /\ [][Next]_vars
=============================================================================
