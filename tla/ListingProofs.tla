--------------------------- MODULE ListingProofs ---------------------------
(***************************************************************************)
(* Proofs about object listing: following the tokens, a client is given    *)
(* every key it asked for that stays in the bucket, and none twice.        *)
(***************************************************************************)
EXTENDS Listing, FiniteSetTheorems, WellFoundedInduction, TLAPS

-----------------------------------------------------------------------------
(* A page                                                                  *)

(* Naturals have a smallest one.                                           *)
LEMMA HasFirst ==
  ASSUME NEW S \in SUBSET Nat, S # {}
  PROVE  \E k \in S : \A j \in S : k <= j
<1> DEFINE less == {ss \in Nat \X Nat : ss[1] < ss[2]}
<1>1. IsWellFoundedOn(less, Nat)
  BY NatLessThanWellFounded DEF OpToRel
<1>2. PICK k \in S : \A j \in S : ~(<<j, k>> \in less)
  <2> HIDE DEF less
  <2> QED
    BY <1>1, WFMin
<1>3. \A j \in S : ~(j < k)
  BY <1>2
<1>4. \A j \in S : k <= j
  BY <1>3
<1> QED
  BY <1>4

(* Any keys are finitely many naturals.                                    *)
LEMMA KeysFinite ==
  ASSUME NEW S \in SUBSET Keys
  PROVE  IsFiniteSet(S) /\ S \subseteq Nat /\ \A k \in S : k <= KeyCount
<1>1. IsFiniteSet(Keys)
  <2>1. 1 \in Int /\ KeyCount \in Int
    BY KeysAssumption
  <2> QED
    BY <2>1, FS_Interval DEF Keys
<1>2. Keys \subseteq Nat /\ \A k \in Keys : k <= KeyCount
  BY KeysAssumption DEF Keys
<1>3. IsFiniteSet(S)
  BY <1>1, FS_Subset
<1> QED
  BY <1>2, <1>3

(* The first n of some keys are keys up to one of them, without a gap.     *)
LEMMA FirstIsPrefix ==
  ASSUME NEW S \in SUBSET Keys, NEW n \in Nat,
         NEW k \in FirstOf(S, n), NEW j \in S, j < k
  PROVE  j \in FirstOf(S, n)
<1>1. IsFiniteSet(S) /\ S \subseteq Nat
  BY KeysFinite
<1>2. k \in S /\ Cardinality(Before(S, k)) < n
  BY DEF FirstOf
<1>3. Before(S, k) \subseteq S /\ Before(S, j) \subseteq Before(S, k)
  <2>1. j \in Nat /\ k \in Nat /\ \A i \in S : i \in Nat
    BY <1>1, <1>2
  <2>2. \A i \in S : i < j => i < k
    BY <2>1
  <2> QED
    BY <2>2 DEF Before
<1>4. IsFiniteSet(Before(S, k))
  BY <1>1, <1>3, FS_Subset
<1>5. /\ IsFiniteSet(Before(S, j))
      /\ Cardinality(Before(S, j)) <= Cardinality(Before(S, k))
  BY <1>3, <1>4, FS_Subset
<1>6. Cardinality(Before(S, j)) \in Nat /\ Cardinality(Before(S, k)) \in Nat
  BY <1>4, <1>5, FS_CardinalityType
<1>7. Cardinality(Before(S, j)) < n
  BY <1>2, <1>5, <1>6
<1> QED
  BY <1>7 DEF FirstOf

(* A page has a key unless there is none to give.                          *)
LEMMA EmptyPage ==
  ASSUME NEW S \in SUBSET Keys, NEW n \in Nat, n > 0, FirstOf(S, n) = {}
  PROVE  S = {}
<1> SUFFICES ASSUME S # {} PROVE FALSE
  OBVIOUS
<1>1. S \subseteq Nat
  BY KeysFinite
<1>2. PICK k \in S : \A j \in S : k <= j
  BY <1>1, HasFirst
<1>3. Before(S, k) = {}
  <2>1. \A j \in S : ~(j < k)
    BY <1>1, <1>2
  <2> QED
    BY <2>1 DEF Before
<1>4. Cardinality(Before(S, k)) = 0
  BY <1>3, FS_EmptySet
<1> QED
  BY <1>4 DEF FirstOf

(* Some keys have a largest one.                                           *)
LEMMA LastIsLast ==
  ASSUME NEW S \in SUBSET Keys, S # {}
  PROVE  Last(S) \in S /\ \A j \in S : j <= Last(S)
<1> DEFINE bounds == {n \in Nat : \A j \in S : j <= n}
<1>1. S \subseteq Nat /\ \A j \in S : j >= 1
  BY KeysAssumption DEF Keys
<1>2. KeyCount \in bounds
  BY KeysAssumption, KeysFinite
<1>3. PICK n \in bounds : \A m \in bounds : n <= m
  <2>1. bounds # {} /\ bounds \in SUBSET Nat
    BY <1>2
  <2> HIDE DEF bounds
  <2> QED
    BY <2>1, HasFirst
<1>4. n \in S
  <2> SUFFICES ASSUME n \notin S PROVE FALSE
    OBVIOUS
  <2>1. n \in Nat /\ n >= 1 /\ \A j \in S : j <= n /\ j # n
    <3>1. n \in Nat /\ \A j \in S : j <= n
      BY <1>3
    <3>2. PICK j \in S : TRUE
      OBVIOUS
    <3>3. n >= 1
      BY <1>1, <3>1, <3>2
    <3> QED
      BY <3>1, <3>3
  <2>2. n - 1 \in bounds
    <3>1. n - 1 \in Nat
      BY <2>1
    <3>2. \A j \in S : j <= n - 1
      BY <1>1, <2>1
    <3> QED
      BY <3>1, <3>2
  <2>3. ~(n <= n - 1)
    BY <2>1
  <2> QED
    BY <1>3, <2>2, <2>3
<1>5. \E k \in S : \A j \in S : j <= k
  BY <1>3, <1>4
<1> QED
  BY <1>5 DEF Last

-----------------------------------------------------------------------------
(* Paging                                                                  *)

(* A listing's parts.                                                      *)
LEMMA RequestTypes ==
  ASSUME TypeOK, phase # "new"
  PROVE  /\ req \in Requests /\ req.match \subseteq Keys /\ req.after \in Nat
         /\ req.group \in [Keys -> Groups \cup {None}]
         /\ Limit \in Nat
<1>1. req \in Requests /\ req \in Listings
  BY ListingsAssumption DEF TypeOK
<1>2. req.max \in Nat \cup {None} /\ MaxKeys \in Nat
  BY <1>1, BoundsAssumption DEF Listings
<1> QED
  BY <1>1, <1>2 DEF Listings, Limit

(* What is on a page, and where it ends: up to the token, or to the end if *)
(* there is none, everything is on it.                                     *)
LEMMA PageFacts ==
  ASSUME TypeOK, phase = "paging"
  PROVE  /\ Seen \in SUBSET Keys /\ Contents \subseteq Plain /\ Plain \subseteq Seen
         /\ \A k \in Seen : k > after
         /\ Token # None => /\ Token \in Contents /\ Token > after
                            /\ \A k \in Contents : k <= Token
                            /\ \A k \in Seen : k <= Token =>
                                 IF req.group[k] = None THEN k \in Contents
                                 ELSE req.group[k] \in CommonPrefixes
                            /\ \A k \in Plain : k > Token => k \in Rest
         /\ ~Truncated => \A k \in Seen : IF req.group[k] = None THEN k \in Contents
                                          ELSE req.group[k] \in CommonPrefixes
         /\ Truncated /\ Token = None => Limit = 0
<1>0. /\ req.match \subseteq Keys /\ Limit \in Nat /\ after \in Nat /\ keys \subseteq Keys
      /\ Keys \subseteq Nat
  BY RequestTypes, KeysFinite DEF TypeOK
<1>1. /\ Seen \in SUBSET Keys /\ Plain \subseteq Seen /\ Contents \subseteq Plain
      /\ \A k \in Seen : k > after
  BY <1>0 DEF Seen, Plain, Contents, FirstOf
<1>2. Contents \in SUBSET Keys /\ Plain \in SUBSET Keys /\ None \notin Keys
  BY <1>0, <1>1, NoneAssumption
<1>3. ASSUME Token # None
      PROVE  /\ Token \in Contents /\ Token > after
             /\ \A k \in Contents : k <= Token
             /\ \A k \in Seen : k <= Token =>
                  IF req.group[k] = None THEN k \in Contents
                  ELSE req.group[k] \in CommonPrefixes
             /\ \A k \in Plain : k > Token => k \in Rest
  <2>1. Contents # {} /\ Token = Last(Contents)
    BY <1>3 DEF Token
  <2>2. Token \in Contents /\ \A k \in Contents : k <= Token
    BY <1>2, <2>1, LastIsLast
  <2>3. ASSUME NEW k \in Plain, k <= Token PROVE k \in Contents
    <3>1. CASE k = Token
      BY <2>2, <3>1
    <3>2. CASE k # Token
      <4>1. k < Token
        BY <1>0, <1>2, <2>2, <2>3, <3>2
      <4>2. Token \in FirstOf(Plain, Limit)
        BY <2>2 DEF Contents
      <4> QED
        BY <1>0, <1>2, <4>1, <4>2, FirstIsPrefix DEF Contents
    <3> QED
      BY <3>1, <3>2
  <2>4. \A r \in Rest : r > Token
    <3> SUFFICES ASSUME NEW r \in Rest PROVE r > Token
      OBVIOUS
    <3>1. r \in Plain /\ r \notin Contents /\ r \in Nat /\ Token \in Nat
      BY <1>0, <1>2, <2>2 DEF Rest
    <3> QED
      BY <2>3, <3>1
  <2>5. ASSUME NEW k \in Seen, k <= Token, req.group[k] # None
        PROVE  req.group[k] \in CommonPrefixes
    <3>1. k \in Nat /\ Token \in Nat /\ \A r \in Rest : r \in Nat
      BY <1>0, <1>1, <1>2, <2>2 DEF Rest
    <3>2. \A r \in Rest : k < r
      BY <2>4, <2>5, <3>1
    <3> QED
      BY <2>5, <3>2 DEF CommonPrefixes, Plain
  <2>6. \A k \in Seen : k <= Token => IF req.group[k] = None THEN k \in Contents
                                      ELSE req.group[k] \in CommonPrefixes
    BY <2>3, <2>5 DEF Plain
  <2>7. ASSUME NEW k \in Plain, k > Token PROVE k \in Rest
    <3>1. k \in Nat /\ Token \in Nat
      BY <1>0, <1>2, <2>2
    <3>2. ~(k <= Token)
      BY <2>7, <3>1
    <3> QED
      BY <2>2, <3>2 DEF Rest
  <2> QED
    BY <1>1, <2>2, <2>6, <2>7
<1>4. ASSUME ~Truncated
      PROVE  \A k \in Seen : IF req.group[k] = None THEN k \in Contents
                             ELSE req.group[k] \in CommonPrefixes
  BY <1>4 DEF Truncated, Rest, Plain, CommonPrefixes
<1>5. ASSUME Truncated, Token = None PROVE Limit = 0
  <2>1. Contents = {}
    <3> SUFFICES ASSUME Contents # {} PROVE FALSE
      OBVIOUS
    <3>1. Token \in Contents
      BY <1>2, <1>5, LastIsLast DEF Token
    <3> QED
      BY <1>2, <1>5, <3>1
  <2>2. Plain # {}
    BY <1>5 DEF Truncated, Rest
  <2> QED
    <3> SUFFICES ASSUME Limit # 0 PROVE FALSE
      OBVIOUS
    <3>1. Limit \in Nat /\ Limit > 0 /\ FirstOf(Plain, Limit) = {}
      BY <1>0, <2>1 DEF Contents
    <3> QED
      BY <1>2, <2>2, <3>1, EmptyPage
<1> QED
  BY <1>1, <1>3, <1>4, <1>5

(* What a client that pages has been given, and what it has not reached    *)
(* yet.                                                                    *)
GivenUpTo ==
  /\ phase = "new" => got = {}
  /\ phase = "paging" =>
       /\ always \subseteq keys
       /\ \A k \in got : k <= after
       /\ \A k \in always \cap req.match : req.after < k /\ k <= after => Given(k)

Skipless ==
  /\ phase = "done" => \A k \in always \cap req.match : req.after < k => Given(k)
  /\ phase = "cut" => Limit = 0

PageInv == TypeOK /\ GivenUpTo /\ Skipless

(* A page keeps it: what is behind the token stays for the next page.      *)
LEMMA NextPageKeeps ==
  ASSUME PageInv, NextPage
  PROVE  PageInv'
<1>0. /\ TypeOK /\ phase = "paging" /\ req' = req /\ keys' = keys /\ always' = always
      /\ got' = got \cup Contents /\ errors' = errors /\ grown' = grown
      /\ pages' = [g \in Groups |-> IF g \in CommonPrefixes THEN pages[g] + 1 ELSE pages[g]]
      /\ after' = IF Token = None THEN after ELSE Token
      /\ phase' = IF Token # None THEN "paging" ELSE IF Truncated THEN "cut" ELSE "done"
  BY DEF PageInv, NextPage, Keep
<1>1. /\ req \in Requests /\ req.match \subseteq Keys /\ req.after \in Nat
      /\ req.group \in [Keys -> Groups \cup {None}]
      /\ after \in Nat /\ pages \in [Groups -> Nat] /\ always \subseteq keys
      /\ keys \subseteq Keys /\ got \subseteq Keys /\ Keys \subseteq Nat
  BY <1>0, RequestTypes, KeysFinite DEF PageInv, TypeOK, GivenUpTo
<1>2. Contents \subseteq Seen /\ Contents \subseteq Keys
  BY <1>0, PageFacts
<1>3. TypeOK'
  <2>1. pages' \in [Groups -> Nat]
    BY <1>0, <1>1
  <2>2. after' \in Nat
    BY <1>0, <1>1, <1>2, PageFacts
  <2> QED
    BY <1>0, <1>1, <1>2, <2>1, <2>2 DEF TypeOK
<1>4. \A k \in Keys : Given(k) => Given(k)'
  <2> SUFFICES ASSUME NEW k \in Keys, Given(k) PROVE Given(k)'
    OBVIOUS
  <2>1. CASE req.group[k] = None
    BY <1>0, <2>1 DEF Given
  <2>2. CASE req.group[k] # None
    <3>1. req.group[k] \in Groups /\ pages[req.group[k]] > 0
      BY <1>1, <2>2 DEF Given
    <3>2. pages'[req.group[k]] > 0
      BY <1>0, <1>1, <3>1
    <3> QED
      BY <1>0, <2>2, <3>2 DEF Given
  <2> QED
    BY <2>1, <2>2
<1>5. ASSUME NEW k \in Keys,
             IF req.group[k] = None THEN k \in Contents ELSE req.group[k] \in CommonPrefixes
      PROVE  Given(k)'
  <2>1. CASE req.group[k] = None
    BY <1>0, <1>5, <2>1 DEF Given
  <2>2. CASE req.group[k] # None
    <3>1. req.group[k] \in Groups /\ req.group[k] \in CommonPrefixes
      BY <1>1, <1>5, <2>2
    <3>2. pages'[req.group[k]] > 0
      BY <1>0, <1>1, <3>1
    <3> QED
      BY <1>0, <2>2, <3>2 DEF Given
  <2> QED
    BY <2>1, <2>2
<1>6. \A k \in always \cap req.match : req.after < k /\ ~(k <= after) => k \in Seen
  <2> SUFFICES ASSUME NEW k \in always \cap req.match, ~(k <= after) PROVE k \in Seen
    OBVIOUS
  <2>1. k \in Nat /\ k > after
    BY <1>1
  <2> QED
    BY <1>1, <2>1 DEF Seen
<1>7. CASE Token # None
  <2>1. phase' = "paging" /\ after' = Token
    BY <1>0, <1>7
  <2>2. Token \in Nat /\ after < Token
    BY <1>0, <1>1, <1>2, <1>7, PageFacts
  <2>3. \A k \in got' : k <= after'
    <3>1. \A k \in got : k \in Nat /\ k <= after
      BY <1>0, <1>1 DEF PageInv, GivenUpTo
    <3>2. \A k \in got : k <= Token
      BY <1>1, <2>2, <3>1
    <3> QED
      BY <1>0, <1>7, <2>1, <3>2, PageFacts
  <2>4. \A k \in always \cap req.match : req.after < k /\ k <= Token => Given(k)'
    <3> SUFFICES ASSUME NEW k \in always \cap req.match, req.after < k, k <= Token
                 PROVE  Given(k)'
      OBVIOUS
    <3>1. k \in Keys
      BY <1>1
    <3>2. CASE k <= after
      BY <1>0, <1>4, <3>1, <3>2 DEF PageInv, GivenUpTo
    <3>3. CASE ~(k <= after)
      BY <1>0, <1>5, <1>6, <1>7, <3>1, <3>3, PageFacts
    <3> QED
      BY <3>2, <3>3
  <2>5. GivenUpTo'
    BY <1>0, <1>1, <2>1, <2>3, <2>4 DEF GivenUpTo
  <2>6. Skipless'
    BY <2>1 DEF Skipless
  <2> QED
    BY <1>3, <2>5, <2>6 DEF PageInv
<1>8. CASE Token = None /\ Truncated
  <2>1. phase' = "cut" /\ Limit' = Limit
    BY <1>0, <1>8 DEF Limit
  <2>2. Limit = 0
    BY <1>0, <1>8, PageFacts
  <2> QED
    BY <1>3, <2>1, <2>2 DEF PageInv, GivenUpTo, Skipless
<1>9. CASE Token = None /\ ~Truncated
  <2>1. phase' = "done"
    BY <1>0, <1>9
  <2>2. \A k \in always \cap req.match : req.after < k => Given(k)'
    <3> SUFFICES ASSUME NEW k \in always \cap req.match, req.after < k
                 PROVE  Given(k)'
      OBVIOUS
    <3>1. k \in Keys
      BY <1>1
    <3>2. CASE k <= after
      BY <1>0, <1>4, <3>1, <3>2 DEF PageInv, GivenUpTo
    <3>3. CASE ~(k <= after)
      BY <1>0, <1>5, <1>6, <1>9, <3>1, <3>3, PageFacts
    <3> QED
      BY <3>2, <3>3
  <2>3. Skipless'
    BY <1>0, <2>1, <2>2 DEF Skipless
  <2> QED
    BY <1>3, <2>1, <2>3 DEF PageInv, GivenUpTo
<1> QED
  BY <1>7, <1>8, <1>9

(* In every state.                                                         *)
LEMMA PageInvCorrect == Spec => []PageInv
<1>1. ASSUME Init PROVE PageInv
  BY <1>1 DEF Init, PageInv, TypeOK, GivenUpTo, Skipless
<1>2. ASSUME PageInv, [Next]_vars PROVE PageInv'
  <2>0. TypeOK /\ GivenUpTo /\ Skipless
    BY <1>2 DEF PageInv
  <2>1. ASSUME NEW q \in Requests, Begin(q) PROVE PageInv'
    <3>1. q \in Listings /\ q # None
      BY ListingsAssumption
    <3>2. /\ phase = "new" /\ phase' = "paging" /\ req' = q /\ after' = q.after
          /\ q.after \in Nat /\ always' = keys /\ keys' = keys /\ got' = got /\ got = {}
      BY <2>0, <2>1, <3>1 DEF Begin, Listings, GivenUpTo
    <3>3. TypeOK'
      BY <2>0, <2>1, <3>1, <3>2 DEF TypeOK, Begin
    <3>4. \A k \in keys : ~(q.after < k /\ k <= q.after)
      <4>1. \A k \in keys : k \in Nat
        BY <2>0, KeysFinite DEF TypeOK
      <4> QED
        BY <3>2, <4>1
    <3> QED
      BY <3>2, <3>3, <3>4 DEF PageInv, GivenUpTo, Skipless
  <2>2. CASE NextPage
    BY <1>2, <2>2, NextPageKeeps
  <2>3. CASE PageFails
    BY <2>0, <2>3 DEF PageFails, PageInv, TypeOK, GivenUpTo, Skipless, Given
  <2>4. ASSUME NEW k \in Keys, PutObject(k) PROVE PageInv'
    BY <2>0, <2>4 DEF PutObject, clientVars, PageInv, TypeOK, GivenUpTo, Skipless, Given
  <2>5. ASSUME NEW k \in Keys, DeleteObject(k) PROVE PageInv'
    BY <2>0, <2>5 DEF DeleteObject, clientVars, PageInv, TypeOK, GivenUpTo, Skipless, Given
  <2>6. CASE UNCHANGED vars
    BY <2>0, <2>6 DEF vars, PageInv, TypeOK, GivenUpTo, Skipless, Given, Limit
  <2> QED
    BY <1>2, <2>1, <2>2, <2>3, <2>4, <2>5, <2>6 DEF Next
<1> QED
  BY <1>1, <1>2, PTL DEF Spec

(* Every variable keeps its type.                                          *)
THEOREM ListingTypeCorrect == Spec => []TypeOK
<1>1. PageInv => TypeOK
  BY DEF PageInv
<1> QED
  BY <1>1, PageInvCorrect, PTL

(* Following the tokens, no key is skipped that stays in the bucket        *)
(* (list_objects, list_objects_v2_response).                               *)
THEOREM NoneIsSkipped == Spec => []NothingSkipped
<1>1. PageInv => NothingSkipped
  BY RequestTypes DEF PageInv, Skipless, NothingSkipped
<1> QED
  BY <1>1, PageInvCorrect, PTL

(* And none comes twice, whatever is put and deleted meanwhile.            *)
THEOREM NoneComesTwice == Spec => []EntriesInOrder
<1>1. ASSUME PageInv, phase = "paging", NEW k \in Contents, NEW j \in got PROVE j < k
  <2>1. k \in Nat /\ j \in Nat /\ after \in Nat /\ j <= after /\ k > after
    BY <1>1, PageFacts, KeysFinite DEF PageInv, TypeOK, GivenUpTo
  <2> QED
    BY <2>1
<1>2. PageInv => EntriesInOrder
  BY <1>1 DEF EntriesInOrder
<1> QED
  BY <1>2, PageInvCorrect, PTL

-----------------------------------------------------------------------------
(* Common prefixes                                                         *)

(* The keys of a common prefix.                                            *)
Members(g) == {k \in req.match : req.group[k] = g}

(* While no key is put: a common prefix that was on a page has no key left *)
(* behind the next one that fits, and one that was on two is behind.       *)
BehindOnce ==
  (phase = "paging" /\ ~grown) =>
    \A g \in Groups : pages[g] >= 1 =>
      \A k \in keys \cap req.match : k > after /\ req.group[k] = None =>
        \A j \in Members(g) : j < k

BehindTwice ==
  (phase = "paging" /\ ~grown) =>
    \A g \in Groups : pages[g] >= 2 => \A j \in Members(g) : j <= after

PrefixInv ==
  /\ TypeOK /\ BehindOnce /\ BehindTwice /\ PrefixesAtMostTwice
  /\ phase = "new" => pages = [g \in Groups |-> 0]

(* A page keeps it.                                                        *)
LEMMA NextPageCounts ==
  ASSUME PrefixInv, NextPage, ~grown
  PROVE  BehindOnce' /\ BehindTwice' /\ PrefixesAtMostTwice'
<1>0. /\ TypeOK /\ phase = "paging" /\ req' = req /\ keys' = keys
      /\ \A g \in Groups :
           pages'[g] = IF g \in CommonPrefixes THEN pages[g] + 1 ELSE pages[g]
      /\ after' = IF Token = None THEN after ELSE Token
      /\ phase' = "paging" => Token # None
  BY DEF PrefixInv, NextPage, Keep, Members
<1>1. /\ req \in Requests /\ req.match \subseteq Keys /\ after \in Nat
      /\ req.group \in [Keys -> Groups \cup {None}]
      /\ pages \in [Groups -> Nat] /\ Keys \subseteq Nat /\ keys \subseteq Keys
  BY <1>0, RequestTypes, KeysFinite DEF TypeOK
<1>2. Seen \subseteq Keys /\ Plain \subseteq Seen /\ \A k \in Seen : k > after
  BY <1>0, PageFacts
<1>3. ASSUME NEW g \in Groups, g \in CommonPrefixes
      PROVE  \E j \in Members(g) : j \in Seen /\ \A r \in Rest : j < r
  BY <1>3 DEF CommonPrefixes, Seen, Members
<1>4. ASSUME NEW g \in Groups, g \in CommonPrefixes
      PROVE  pages[g] <= 1
  <2> SUFFICES ASSUME ~(pages[g] <= 1) PROVE FALSE
    OBVIOUS
  <2>1. pages[g] >= 2
    BY <1>1
  <2>2. PICK j \in Members(g) : j \in Seen
    BY <1>3, <1>4
  <2>3. j <= after
    BY <1>0, <2>1 DEF PrefixInv, BehindTwice
  <2>4. j > after /\ j \in Nat
    BY <1>1, <1>2, <2>2
  <2> QED
    BY <1>1, <2>3, <2>4
<1>5. PrefixesAtMostTwice'
  <2>1. \A g \in Groups : pages[g] <= 2 /\ pages[g] \in Nat
    BY <1>1 DEF PrefixInv, PrefixesAtMostTwice
  <2>2. \A g \in Groups : pages'[g] <= 2
    BY <1>0, <1>4, <2>1
  <2> QED
    BY <2>2 DEF PrefixesAtMostTwice
<1>6. CASE phase' # "paging"
  BY <1>5, <1>6 DEF BehindOnce, BehindTwice
<1>7. CASE phase' = "paging"
  <2>1. Token # None /\ after' = Token /\ Token \in Nat /\ Token > after
        /\ Token \in Plain
    BY <1>0, <1>1, <1>2, <1>7, PageFacts
  <2>2. ASSUME NEW g \in Groups, pages'[g] >= 1,
               NEW k \in keys \cap req.match, k > Token, req.group[k] = None,
               NEW j \in Members(g)
        PROVE  j < k
    <3>1. k \in Nat /\ k > after /\ k \in Plain /\ k \in Rest /\ j \in Nat
      <4>0. k \in Nat /\ j \in Nat
        BY <1>1 DEF Members
      <4>1. k \in Nat /\ j \in Nat /\ k > after
        BY <1>1, <2>1, <2>2, <4>0
      <4>2. k \in Plain
        BY <2>2, <4>1 DEF Plain, Seen
      <4> QED
        BY <1>0, <2>1, <2>2, <4>1, <4>2, PageFacts
    <3>2. CASE pages[g] >= 1
      BY <1>0, <2>2, <3>1, <3>2 DEF PrefixInv, BehindOnce
    <3>3. CASE ~(pages[g] >= 1)
      <4>1. g \in CommonPrefixes
        BY <1>0, <2>2, <3>3
      <4>2. PICK i \in Members(g) : i < k
        BY <1>3, <3>1, <4>1
      <4>3. /\ i \in req.match /\ j \in req.match /\ i \in Nat
            /\ req.group[i] = g /\ req.group[j] = g /\ g # None
        BY <1>1, NoneAssumption DEF Members
      <4>4. ~(k < j)
        <5> SUFFICES ASSUME k < j PROVE FALSE
          OBVIOUS
        <5>1. i < k /\ req.group[i] = req.group[j] /\ req.group[i] # None /\ k \in req.match
          BY <2>2, <4>2, <4>3
        <5>2. req.group[k] = req.group[i]
          BY <1>1, <4>3, <5>1, PrefixesAssumption
        <5> QED
          BY <2>2, <5>1, <5>2
      <4>5. k # j
        BY <2>2, <4>3
      <4> QED
        BY <3>1, <4>4, <4>5
    <3> QED
      BY <3>2, <3>3
  <2>3. ASSUME NEW g \in Groups, pages'[g] >= 2, NEW j \in Members(g)
        PROVE  j <= Token
    <3>1. j \in Nat
      BY <1>1 DEF Members
    <3>2. CASE pages[g] >= 2
      <4>1. j <= after
        BY <1>0, <3>2 DEF PrefixInv, BehindTwice
      <4> QED
        BY <1>1, <2>1, <3>1, <4>1
    <3>3. CASE ~(pages[g] >= 2)
      <4>1. pages[g] >= 1
        BY <1>0, <1>1, <2>3, <3>3
      <4>2. Token \in keys \cap req.match /\ req.group[Token] = None
        BY <2>1 DEF Plain, Seen
      <4>3. j < Token
        BY <1>0, <2>1, <4>1, <4>2 DEF PrefixInv, BehindOnce
      <4> QED
        BY <2>1, <3>1, <4>3
    <3> QED
      BY <3>2, <3>3
  <2>4. BehindOnce'
    BY <1>0, <2>1, <2>2 DEF BehindOnce, Members
  <2>5. BehindTwice'
    BY <1>0, <2>1, <2>3 DEF BehindTwice, Members
  <2> QED
    BY <1>5, <2>4, <2>5
<1> QED
  BY <1>6, <1>7

(* A common prefix is on two pages at most, unless keys are put meanwhile. *)
THEOREM PrefixesRepeatOnce == Spec => []PrefixesAtMostTwice
<1>1. ASSUME Init PROVE PrefixInv
  <2>1. TypeOK
    BY <1>1 DEF Init, TypeOK
  <2> QED
    BY <1>1, <2>1 DEF Init, PrefixInv, BehindOnce, BehindTwice, PrefixesAtMostTwice
<1>2. ASSUME TypeOK, PrefixInv, TypeOK', [Next]_vars PROVE PrefixInv'
  <2>0. BehindOnce /\ BehindTwice /\ PrefixesAtMostTwice
    BY <1>2 DEF PrefixInv
  <2>1. ASSUME NEW q \in Requests, Begin(q) PROVE PrefixInv'
    <3>1. phase' = "paging" /\ pages' = [g \in Groups |-> 0]
      BY <1>2, <2>1 DEF Begin, PrefixInv
    <3> QED
      BY <1>2, <3>1 DEF PrefixInv, BehindOnce, BehindTwice, PrefixesAtMostTwice
  <2>2. CASE NextPage
    <3>1. grown' = grown /\ phase' # "new"
      BY <2>2 DEF NextPage
    <3>2. CASE grown
      BY <1>2, <3>1, <3>2 DEF PrefixInv, BehindOnce, BehindTwice, PrefixesAtMostTwice
    <3>3. CASE ~grown
      BY <1>2, <2>2, <3>1, <3>3, NextPageCounts DEF PrefixInv
    <3> QED
      BY <3>2, <3>3
  <2>3. CASE PageFails
    BY <1>2, <2>0, <2>3
       DEF PageFails, PrefixInv, BehindOnce, BehindTwice, PrefixesAtMostTwice, Members
  <2>4. ASSUME NEW k \in Keys, PutObject(k) PROVE PrefixInv'
    BY <1>2, <2>4
       DEF PutObject, clientVars, PrefixInv, BehindOnce, BehindTwice, PrefixesAtMostTwice
  <2>5. ASSUME NEW k \in Keys, DeleteObject(k) PROVE PrefixInv'
    <3>1. /\ keys' \subseteq keys /\ phase' = phase /\ req' = req /\ after' = after
          /\ pages' = pages /\ grown' = grown /\ phase = "paging"
      BY <2>5 DEF DeleteObject, clientVars
    <3> QED
      BY <1>2, <2>0, <3>1 DEF PrefixInv, BehindOnce, BehindTwice, PrefixesAtMostTwice, Members
  <2>6. CASE UNCHANGED vars
    BY <1>2, <2>0, <2>6
       DEF vars, PrefixInv, BehindOnce, BehindTwice, PrefixesAtMostTwice, Members
  <2> QED
    BY <1>2, <2>1, <2>2, <2>3, <2>4, <2>5, <2>6 DEF Next
<1>3. PrefixInv => PrefixesAtMostTwice
  BY DEF PrefixInv
<1> QED
  BY <1>1, <1>2, <1>3, ListingTypeCorrect, PTL DEF Spec
=============================================================================
