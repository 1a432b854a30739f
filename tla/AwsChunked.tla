----------------------------- MODULE AwsChunked -----------------------------
(***************************************************************************)
(* decode_aws_chunked: the payload of a body in the aws-chunked encoding,  *)
(* a sequence of chunks with a header that says their size and an empty    *)
(* chunk at the end.                                                       *)
(***************************************************************************)
EXTENDS Bytes, FiniteSets

(* A chunk as it arrives: the size in its header, if there is one that can *)
(* be read, and the bytes that follow, at most as many.                    *)
Chunk(readable, size, data) == [readable |-> readable, size |-> size, data |-> data]

(* Mutant of Complete: what is there of a chunk is taken.                  *)
CompleteUnchecked(c) == c.readable /\ c.size > 0

(* The loop goes on behind a chunk that has a header, is not the empty one *)
(* and is there in full.                                                   *)
Complete(c) == c.readable /\ c.size > 0 /\ Len(c.data) = c.size

(* The chunks up to the first that ends the loop.                          *)
Taken(wire) == {i \in DOMAIN wire : \A j \in 1 .. i : Complete(wire[j])}

DecodeChunked(wire) == Joined([i \in 1 .. Cardinality(Taken(wire)) |-> wire[i].data])
=============================================================================
