------------------------------- MODULE Bytes -------------------------------
(***************************************************************************)
(* Bodies of objects, as sequences of bytes.                               *)
(*                                                                         *)
(* The bytes of a body are told apart by their place in it, so that what   *)
(* is right for this body is right for all.                                *)
(***************************************************************************)
EXTENDS Naturals, Sequences

Seqs == INSTANCE SequencesExt

Body(n) == [i \in 1 .. n |-> i]

(* The pieces of a body, one behind the other.                             *)
Joined(pieces) == Seqs!FlattenSeq(pieces)

Least(a, b) == IF a < b THEN a ELSE b
=============================================================================
