--------------------------- MODULE ErasureCoding ---------------------------
(***************************************************************************)
(* The erasure code: how a body is cut into shards and put together again, *)
(* of one piece as the handlers do it, or block by block.                  *)
(***************************************************************************)
EXTENDS Bytes, FiniteSets

Zero == 0

(* An error: no shards, or no bytes.  What can be coded has some of both.  *)
Failed == <<>>

Larger(a, b) == IF a > b THEN a ELSE b

(* Mutant of ShardSize: the division rounds down.                          *)
ShardSizeDown(n, k) ==
  LET size == Larger(n \div k, 2)
  IN  size + (size % 2)

(* reed-solomon-simd wants shards of an even size, of two bytes at least.  *)
ShardSize(n, k) ==
  LET size == Larger((n + k - 1) \div k, 2)
  IN  size + (size % 2)

(* The last shards with data are filled up with zeros; there may be shards *)
(* of nothing but zeros.                                                   *)
DataShards(body, k) ==
  LET size == ShardSize(Len(body), k)
  IN  [i \in 0 .. k - 1 |-> [j \in 1 .. size |->
         IF i * size + j <= Len(body) THEN body[i * size + j] ELSE Zero]]

(* What reed-solomon-simd promises of a parity shard: with enough others,  *)
(* it says what the data shards were.                                      *)
ParityShard(data, i) == [number |-> i, of |-> data]

Encode(body, k, m) ==
  IF k = 0 \/ m = 0 \/ body = <<>> THEN Failed
  ELSE LET data == DataShards(body, k)
       IN  [i \in 0 .. k + m - 1 |-> IF i < k THEN data[i] ELSE ParityShard(data, i - k)]

(* restored_original: any k shards give back the others; without a parity  *)
(* shard among them there is nothing to give back.                         *)
Restored(shards, k) ==
  LET p == CHOOSE i \in DOMAIN shards : i >= k IN shards[p].of

(* Shards that are there are taken as they are; zeros behind the body are  *)
(* cut off.                                                                *)
Decode(shards, k, m, n) ==
  IF k = 0 \/ m = 0 \/ Cardinality(DOMAIN shards) < k THEN Failed
  ELSE LET all == [i \in 1 .. k |-> IF i - 1 \in DOMAIN shards THEN shards[i - 1]
                                    ELSE Restored(shards, k)[i - 1]]
           data == Joined(all)
       IN  SubSeq(data, 1, Least(n, Len(data)))

Lost(shards, kept) == [i \in kept |-> shards[i]]

-----------------------------------------------------------------------------
(* encode_blocks and decode_blocks: a body in blocks, each coded by itself.*)
(* A block size of zero makes an empty block, which cannot be coded.       *)

(* Mutant of Blocks: the last block is dropped if it is not full.          *)
FullBlocks(body, size) ==
  [b \in 1 .. Len(body) \div size |-> SubSeq(body, (b - 1) * size + 1, b * size)]

Blocks(body, size) ==
  [b \in 1 .. (Len(body) + size - 1) \div size |->
     SubSeq(body, (b - 1) * size + 1, Least(b * size, Len(body)))]

EncodeBlocks(body, size, k, m) ==
  IF body = <<>> \/ size = 0 \/ k = 0 \/ m = 0 THEN Failed
  ELSE [b \in DOMAIN Blocks(body, size) |-> Encode(Blocks(body, size)[b], k, m)]

(* Of block b the shards with the indexes kept[b] are left; lengths has    *)
(* the length of every block.  A block that cannot be decoded is an error. *)
DecodeBlocks(coded, kept, lengths, k, m) ==
  LET blocks == [b \in DOMAIN coded |-> Decode(Lost(coded[b], kept[b]), k, m, lengths[b])]
  IN  IF DOMAIN lengths # DOMAIN coded \/ \E b \in DOMAIN coded : blocks[b] = Failed
      THEN Failed ELSE Joined(blocks)

=============================================================================
