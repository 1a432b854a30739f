----------------------------- MODULE MCListing -----------------------------
(* A small instance of object listing for TLC: the keys a, b/1, b/2, c,    *)
(* d/1 and e, in this order.                                               *)
EXTENDS Listing

CONSTANTS B, D   \* the common prefixes b/ and d/

Flat == [k \in Keys |-> None]

BySlash == [k \in Keys |-> IF k \in {2, 3} THEN B ELSE IF k = 5 THEN D ELSE None]

(* Everything; everything by "/"; what starts with b/; the same with an    *)
(* empty delimiter, which every key has right behind the prefix.           *)
Shapes == {<<Keys, Flat>>, <<Keys, BySlash>>, <<{2, 3}, Flat>>,
           <<{2, 3}, [k \in Keys |-> B]>>}

MCRequests ==
  {[match |-> s[1], group |-> s[2], max |-> m, after |-> a] :
     s \in Shapes, m \in {None, 0, 1, 2}, a \in {0, 2}}
=============================================================================
