------------------------------ MODULE Listing ------------------------------
(***************************************************************************)
(* ListObjectsV2: the pages the gateway makes of a bucket's keys, and a    *)
(* client that follows the continuation tokens from page to page while     *)
(* others put and delete objects.                                          *)
(*                                                                         *)
(* Keys are numbered in their byte order.  What a prefix and a delimiter   *)
(* make of them is a constant of the request: the keys that start with the *)
(* prefix, which lie together, and the common prefix that a key is rolled  *)
(* up in.                                                                  *)
(***************************************************************************)
EXTENDS Naturals, FiniteSets

CONSTANTS
  KeyCount,   \* how many object keys a bucket may have
  Groups,     \* common prefixes
  None,       \* Rust's None: no common prefix, no max-keys, no token
  Requests,   \* the listings a client may want
  MaxKeys,    \* the most keys of a page, 1000 in the code
  MaxErrors   \* how many pages are not answered

Keys == 1 .. KeyCount

(* match: the keys that start with the prefix; group: the common prefix of *)
(* a key that has the delimiter behind the prefix; max: max-keys; after:   *)
(* start-after, 0 if there is none.                                        *)
Listings == [match : SUBSET Keys, group : [Keys -> Groups \cup {None}],
             max : Nat \cup {None}, after : Nat]

ASSUME KeysAssumption == KeyCount \in Nat
ASSUME NoneAssumption == None \notin Groups \cup Nat
ASSUME ListingsAssumption == Requests \subseteq Listings /\ None \notin Requests
(* Keys with a common prefix lie together.                                 *)
ASSUME PrefixesAssumption ==
  \A q \in Requests : \A i, j \in q.match : \A k \in q.match :
    q.group[i] # None /\ q.group[i] = q.group[j] /\ i < k /\ k < j => q.group[k] = q.group[i]
ASSUME BoundsAssumption == MaxKeys \in Nat \ {0} /\ MaxErrors \in Nat

VARIABLES
  keys,     \* objects column family: the keys of the bucket
  phase,    \* where the client is
  req,      \* the listing it wants
  after,    \* the last token it was given, or start-after
  got,      \* the keys it was given
  pages,    \* on how many pages it saw every common prefix
  errors,   \* how many pages were not answered
  \* history, not in the code
  always,   \* the keys that have been in the bucket since the listing began
  grown     \* a key was put since then

clientVars == <<phase, req, after, got, pages>>
vars == <<keys, phase, req, after, got, pages, errors, always, grown>>

Init ==
  /\ keys \in SUBSET Keys
  /\ phase = "new"
  /\ req = None
  /\ after = 0
  /\ got = {}
  /\ pages = [g \in Groups |-> 0]
  /\ errors = 0
  /\ always = {}
  /\ grown = FALSE

-----------------------------------------------------------------------------
(* A page: list_objects scans the keys that start with the prefix, in      *)
(* order, and leaves its loop at the first key that does not fit.          *)

Limit == IF req.max = None \/ req.max > MaxKeys THEN MaxKeys ELSE req.max

(* Mutant of Seen: the token's own key is not left out.                    *)
SeenAgain == {k \in keys \cap req.match : k >= after}

Seen == {k \in keys \cap req.match : k > after}

Plain == {k \in Seen : req.group[k] = None}

Before(S, k) == {j \in S : j < k}

FirstOf(S, n) == {k \in S : Cardinality(Before(S, k)) < n}

Contents == FirstOf(Plain, Limit)

Rest == Plain \ Contents

(* Mutant of CommonPrefixes: the scan goes on to the end of the bucket.    *)
CommonPrefixesOfAll == {req.group[k] : k \in Seen \ Plain}

(* Common prefixes do not count towards the limit.                         *)
CommonPrefixes ==
  {req.group[k] : k \in {j \in Seen \ Plain : \A r \in Rest : j < r}}

Truncated == Rest # {}

Last(S) == CHOOSE k \in S : \A j \in S : j <= k

(* Mutant of Token: the first key that did not fit.                        *)
TokenOfNext ==
  IF Truncated /\ Contents # {} THEN CHOOSE k \in Rest : \A j \in Rest : k <= j ELSE None

(* NextContinuationToken is the last key of the page: a page without keys  *)
(* has none, truncated or not.                                             *)
Token == IF Truncated /\ Contents # {} THEN Last(Contents) ELSE None

-----------------------------------------------------------------------------
(* The client *)

Begin(q) ==
  /\ phase = "new"
  /\ phase' = "paging"
  /\ req' = q
  /\ after' = q.after
  /\ always' = keys
  /\ UNCHANGED <<keys, got, pages, errors, grown>>

(* What the client keeps of a page.                                        *)
Keep ==
  /\ got' = got \cup Contents
  /\ pages' = [g \in Groups |-> IF g \in CommonPrefixes THEN pages[g] + 1 ELSE pages[g]]

(* Mutant of NextPage: a page that says it is truncated has a token.       *)
NextPageTrusting ==
  /\ phase = "paging"
  /\ Keep
  /\ after' = IF Truncated THEN Token ELSE after
  /\ phase' = IF Truncated THEN "paging" ELSE "done"
  /\ UNCHANGED <<keys, req, errors, always, grown>>

(* Mutant of NextPage: start-after takes precedence over the token.        *)
NextPageFromStart ==
  /\ phase = "paging"
  /\ Keep
  /\ phase' = IF Truncated THEN "paging" ELSE "done"
  /\ UNCHANGED <<keys, req, after, errors, always, grown>>

(* It asks for the next page, and goes on while it is given a token.       *)
NextPage ==
  /\ phase = "paging"
  /\ Keep
  /\ after' = IF Token = None THEN after ELSE Token
  /\ phase' = IF Token # None THEN "paging" ELSE IF Truncated THEN "cut" ELSE "done"
  /\ UNCHANGED <<keys, req, errors, always, grown>>

(* No page: no site is configured, the bucket is gone, the store fails or  *)
(* the answer is lost.  The client asks for the same page again, or gives  *)
(* up.                                                                     *)
PageFails ==
  /\ phase = "paging"
  /\ errors < MaxErrors
  /\ errors' = errors + 1
  /\ phase' \in {"paging", "failed"}
  /\ UNCHANGED <<keys, req, after, got, pages, always, grown>>

-----------------------------------------------------------------------------
(* Others, while it pages *)

PutObject(k) ==
  /\ phase = "paging"
  /\ keys' = keys \cup {k}
  /\ grown' = TRUE
  /\ UNCHANGED <<clientVars, errors, always>>

DeleteObject(k) ==
  /\ phase = "paging"
  /\ keys' = keys \ {k}
  /\ always' = always \ {k}
  /\ UNCHANGED <<clientVars, errors, grown>>

Next ==
  \/ \E q \in Requests : Begin(q)
  \/ NextPage \/ PageFails
  \/ \E k \in Keys : PutObject(k) \/ DeleteObject(k)

Spec == Init /\ [][Next]_vars

(* The client asks for the next page as long as it is given tokens, and    *)
(* the gateway answers, or fails to a bounded number of times.             *)
FairSpec == Spec /\ WF_vars(NextPage)

-----------------------------------------------------------------------------
(* Types of the variables: a client that pages knows what it wants and     *)
(* where it is.                                                            *)
TypeOK ==
  /\ keys \in SUBSET Keys
  /\ phase \in {"new", "paging", "done", "cut", "failed"}
  /\ req \in Requests \cup {None}
  /\ after \in Nat
  /\ got \in SUBSET Keys
  /\ pages \in [Groups -> Nat]
  /\ errors \in Nat
  /\ always \in SUBSET Keys
  /\ grown \in BOOLEAN
  /\ phase # "new" => req # None

(* The client has been given key k, as it is or rolled up.                 *)
Given(k) == IF req.group[k] = None THEN k \in got ELSE pages[req.group[k]] > 0

(* A client that has followed the tokens to the end was given every key    *)
(* that was there all the time and that it asked for, whatever was put and *)
(* deleted between its pages; only max-keys=0 cuts a listing short.        *)
NothingSkipped ==
  phase = "done" \/ (phase = "cut" /\ Limit > 0) =>
    \A k \in always \cap req.match : k > req.after => Given(k)

(* A page starts behind everything the client was given, so no key comes   *)
(* twice, not even one that was deleted and put again.                     *)
EntriesInOrder ==
  phase = "paging" => \A k \in Contents, j \in got : j < k

(* A common prefix that lies between the last key of a page and the first  *)
(* that did not fit is on the next page as well, but on no third, unless   *)
(* keys are put meanwhile.                                                 *)
PrefixesAtMostTwice == ~grown => \A g \in Groups : pages[g] <= 2

(* Paging ends, however many keys are put while it goes on: every page     *)
(* with a token moves on by a key at least.                                *)
PagingEnds == phase = "paging" ~> phase \in {"done", "cut", "failed"}
=============================================================================
