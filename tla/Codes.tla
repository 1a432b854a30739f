------------------------------- MODULE Codes -------------------------------
(***************************************************************************)
(* What the codes of bodies promise the data path: erasure coding for what *)
(* a read collects, of one piece or in blocks, and the aws-chunked         *)
(* encoding for what a PUT is sent.                                        *)
(***************************************************************************)
EXTENDS ObjectStoreProperties, ErasureCoding, AwsChunked, FiniteSetsExt

CONSTANTS
  MaxBody,     \* bodies have up to so many bytes
  MaxParity,   \* parity shards up to so many
  MaxBlock     \* blocks of up to so many bytes

ASSUME SizesAssumption == MaxBody \in Nat /\ MaxParity \in Nat /\ MaxBlock \in Nat

Counts == 0 .. Cardinality(Sites)

(* Any c of the chunks of a body decode to it, however long it is.         *)
Decodable(c) ==
  \A kept \in kSubset(c, 0 .. DataChunks + ParityChunks - 1), n \in 1 .. MaxBody :
    Decode(Lost(Encode(Body(n), DataChunks, ParityChunks), kept),
           DataChunks, ParityChunks, n) = Body(n)

DecodableCounts == {c \in Counts : Decodable(c)}

(* Of a replicated version every chunk is the object.                      *)
Replicated(v) == "Replica" \in Modes /\ meta[v].placed = Sites

(* A fetch that has collected enough chunks to go on decodes them to the   *)
(* object that was written, whichever chunks they are: the quorum that a   *)
(* PUT waits for and a fetch stops at is the one that the code needs, and  *)
(* padding is cut off (get_erasure_coded, encode, decode).                 *)
ReadsDecode ==
  \A r \in Readers :
    from[r] # None /\ Enough(r) =>
      Replicated(from[r]) \/ Cardinality(Found(r)) \in DecodableCounts

(* Why: a write that has been sent went where its code has chunks for, and *)
(* waits for as many as the code needs.                                    *)
Sent == {"fanout", "commit", "done"}

LaidOutAsCoded ==
  \A p \in Puts : pc[p] \in Sent => <<meta[p].placed, meta[p].need>> \in Placements

CodedInv == ReadInv /\ LaidOutAsCoded

(* So do c of the chunks of every block, if a body is coded in blocks and  *)
(* c are enough; what cannot be coded is refused.                          *)
BlockLengths(n, size) ==
  LET count == (n + size - 1) \div size
  IN  [b \in 1 .. count |-> IF b < count THEN size ELSE n - (b - 1) * size]

BlocksDecodable(c) ==
  \A n \in 0 .. MaxBody, size \in 0 .. MaxBlock, k \in 0 .. c, m \in 0 .. MaxParity :
    LET coded == EncodeBlocks(Body(n), size, k, m)
    IN  IF n = 0 \/ size = 0 \/ k = 0 \/ m = 0 THEN coded = Failed
        ELSE \A kept \in kSubset(c, 0 .. k + m - 1) :
               DecodeBlocks(coded, [b \in DOMAIN coded |-> kept],
                            BlockLengths(n, size), k, m) = Body(n)

BlockCounts == {c \in Counts : BlocksDecodable(c)}

(* The chunks that a fetch has collected when it goes on decode to the     *)
(* object also if they were coded in blocks, for every layout that so many *)
(* chunks are enough for, every size of a block and length of the body     *)
(* (encode_blocks, decode_blocks).                                         *)
BlocksDecode ==
  \A r \in Readers :
    from[r] # None /\ Enough(r) => Cardinality(Found(r)) \in BlockCounts

(* The members of a finite set of numbers in order.                        *)
Below(S, x) == {y \in S : y < x}

InOrder(S) ==
  [i \in 1 .. Cardinality(S) |-> CHOOSE x \in S : Cardinality(Below(S, x)) = i - 1]

(* A body sent in chunks, cut in any way, of which so many bytes arrive    *)
(* before the connection ends: chunk i starts at starts[i].                *)
EndOf(starts, i, n) == IF i < Len(starts) THEN starts[i + 1] - 1 ELSE n

Wire(body, starts, arrived) ==
  [i \in 1 .. Len(starts) |->
     LET end == EndOf(starts, i, Len(body))
     IN  Chunk(starts[i] <= arrived, end + 1 - starts[i],
               SubSeq(body, starts[i], Least(end, arrived)))]

(* A chunked body is decoded to the chunks that have arrived in full: to   *)
(* the whole body if all of it has, and never to bytes that were not sent  *)
(* as part of it.                                                          *)
ChunksDecode(n) ==
  \A cuts \in SUBSET (2 .. n), arrived \in 0 .. n :
    LET wire  == Wire(Body(n), InOrder({1} \cup cuts), arrived)
        whole == {p \in (cuts \cup {n + 1}) : p - 1 <= arrived}
    IN  /\ DecodeChunked(wire) =
             IF whole = {} THEN <<>> ELSE SubSeq(Body(n), 1, Max(whole) - 1)
        /\ arrived = n =>
             DecodeChunked(Append(wire, Chunk(TRUE, 0, <<>>))) = Body(n)

ChunkedLengths == {n \in 1 .. MaxBody : ChunksDecode(n)}

(* A PUT goes on with the payload its client sent, whatever its length and *)
(* however it was cut into chunks (decode_aws_chunked).                    *)
ChunkedDecodes ==
  \A p \in Puts \ Copies : pc[p] # "new" => 1 .. MaxBody \subseteq ChunkedLengths
=============================================================================
