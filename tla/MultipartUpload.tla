-------------------------- MODULE MultipartUpload --------------------------
(***************************************************************************)
(* What a multipart upload promises, whatever becomes of its requests, of  *)
(* the sites and of the process: an object is bound to the very parts that *)
(* one look at the records showed, in the order they were asked for; a     *)
(* recorded part can be read until a completion has bound its object or    *)
(* the end of the upload was asked for; and the records go only after.     *)
(***************************************************************************)
EXTENDS Naturals, Sequences

CONSTANTS
  Numbers,     \* part numbers
  Versions,    \* parts that clients upload
  Completers,  \* completions
  None,        \* no part, no object
  MaxListed    \* how many numbers a completion is asked for

VARIABLES
  phase,     \* whether the upload is not created, open or gone
  part,      \* the part recorded under every number
  readable,  \* the parts that can be read where their record would say
  asked,     \* the numbers every completion was asked for
  view,      \* the parts that every completion has seen recorded
  object,    \* the parts that the object is bound to
  ended      \* whether an object was bound, or an abort asked for

vars == <<phase, part, readable, asked, view, object, ended>>

NoParts == [n \in Numbers |-> None]

Init ==
  /\ phase = "none"
  /\ part = NoParts
  /\ readable = {}
  /\ asked = [c \in Completers |-> <<>>]
  /\ view = [c \in Completers |-> NoParts]
  /\ object = None
  /\ ended = FALSE

Open ==
  /\ phase = "none"
  /\ phase' = "open"
  /\ UNCHANGED <<part, readable, asked, view, object, ended>>

Recorded == {part[n] : n \in Numbers} \ {None}

(* Sites take and lose parts, but lose none that may still be needed.      *)
Churn(rs) ==
  /\ ended \/ Recorded \subseteq rs
  /\ readable' = rs
  /\ UNCHANGED <<phase, part, asked, view, object, ended>>

Record(n, w) ==
  /\ phase # "none" /\ (ended \/ w \in readable)
  /\ part' = [part EXCEPT ![n] = w]
  /\ UNCHANGED <<phase, readable, asked, view, object, ended>>

NumberLists == UNION {[1 .. k -> Numbers] : k \in 1 .. MaxListed}

Ask(c, ns) ==
  /\ phase # "none" /\ asked[c] = <<>>
  /\ asked' = [asked EXCEPT ![c] = ns]
  /\ UNCHANGED <<phase, part, readable, view, object, ended>>

(* A completion looks at the records once.                                 *)
Look(c) ==
  /\ asked[c] # <<>> /\ view[c] = NoParts
  /\ view' = [view EXCEPT ![c] = part]
  /\ UNCHANGED <<phase, part, readable, asked, object, ended>>

Bind(c) ==
  /\ asked[c] # <<>> /\ \A i \in DOMAIN asked[c] : view[c][asked[c][i]] # None
  /\ object' = [i \in DOMAIN asked[c] |-> view[c][asked[c][i]]]
  /\ ended' = TRUE
  /\ UNCHANGED <<phase, part, readable, asked, view>>

AskEnd ==
  /\ phase # "none"
  /\ ended' = TRUE
  /\ UNCHANGED <<phase, part, readable, asked, view, object>>

Close ==
  /\ phase # "none" /\ ended
  /\ phase' = "gone"
  /\ UNCHANGED <<part, readable, asked, view, object, ended>>

Forget ==
  /\ phase = "gone"
  /\ part' = NoParts
  /\ UNCHANGED <<phase, readable, asked, view, object, ended>>

Next ==
  \/ Open \/ AskEnd \/ Close \/ Forget
  \/ \E rs \in SUBSET Versions : Churn(rs)
  \/ \E n \in Numbers, w \in Versions : Record(n, w)
  \/ \E c \in Completers : Look(c) \/ Bind(c)
  \/ \E c \in Completers, ns \in NumberLists : Ask(c, ns)

Spec == Init /\ [][Next]_vars
=============================================================================
