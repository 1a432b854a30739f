----------------------------- MODULE CodeProofs -----------------------------
(***************************************************************************)
(* Proofs about the codes: bodies of any length, coded with any numbers of *)
(* shards, whole or in blocks, and sent in any chunks, are what is decoded *)
(* again; and the quorum of the data path is what the code needs.          *)
(***************************************************************************)
EXTENDS Codes, ReadProofs, SequenceTheorems

-----------------------------------------------------------------------------
(* Induction.  The library's theorems take the property as an operator;    *)
(* here it is a set, and what is shown is that it holds all numbers.       *)

Precedes == {p \in Nat \X Nat : p[1] < p[2]}

LEMMA PrecedesWellFounded == IsWellFoundedOn(Precedes, Nat)
  BY NatLessThanWellFounded DEF OpToRel, Precedes

LEMMA LeastNumber ==
  ASSUME NEW T, T \subseteq Nat, T # {}
  PROVE  \E x \in T : \A y \in T : x <= y
<1>1. PICK x \in T : \A y \in T : ~(<<y, x>> \in Precedes)
  BY PrecedesWellFounded, WFMin
<1>2. ASSUME NEW y \in T PROVE x <= y
  <2>1. <<y, x>> \in Nat \X Nat /\ ~(<<y, x>>[1] < <<y, x>>[2])
    BY <1>1 DEF Precedes
  <2> QED
    BY <2>1
<1> QED
  BY <1>2

LEMMA Induction ==
  ASSUME NEW T, 0 \in T, \A n \in Nat : n \in T => n + 1 \in T
  PROVE  Nat \subseteq T
<1> SUFFICES ASSUME Nat \ T # {}
             PROVE  FALSE
  OBVIOUS
<1>1. PICK x \in Nat \ T : \A y \in Nat \ T : x <= y
  BY LeastNumber
<1>2. x # 0 /\ x - 1 \in Nat /\ x - 1 \in T
  BY <1>1
<1>3. (x - 1) + 1 \in T
  BY <1>2
<1> QED
  BY <1>1, <1>3

-----------------------------------------------------------------------------
(* Sequences of sequences *)

(* f flattens the first n of them one after the other.                     *)
Unrolled(seqs, f, n) ==
  /\ DOMAIN f = 1 .. n
  /\ \A i \in 1 .. n : f[i] = IF i = 1 THEN seqs[i] ELSE f[i - 1] \o seqs[i]

LEMMA UnrolledExists ==
  ASSUME NEW seqs, NEW n \in Nat
  PROVE  \E f : Unrolled(seqs, f, n)
<1> DEFINE T == {i \in Nat : \E f : Unrolled(seqs, f, i)}
<1>1. 0 \in T
  <2>1. Unrolled(seqs, [i \in 1 .. 0 |-> i], 0)
    BY DEF Unrolled
  <2> QED
    BY <2>1
<1>2. ASSUME NEW i \in Nat, i \in T
      PROVE  i + 1 \in T
  <2>1. PICK f : Unrolled(seqs, f, i)
    BY <1>2
  <2> DEFINE g == [j \in 1 .. i + 1 |->
                     IF j <= i THEN f[j] ELSE IF j = 1 THEN seqs[j] ELSE f[i] \o seqs[j]]
  <2>2. ASSUME NEW j \in 1 .. i + 1
        PROVE  g[j] = IF j = 1 THEN seqs[j] ELSE g[j - 1] \o seqs[j]
    <3>1. CASE j <= i
      <4>1. j \in 1 .. i
        BY <3>1
      <4>0. f[j] = IF j = 1 THEN seqs[j] ELSE f[j - 1] \o seqs[j]
        BY <2>1, <4>1 DEF Unrolled
      <4>3. g[j] = f[j]
        BY <3>1
      <4>2. j # 1 => j - 1 \in 1 .. i + 1 /\ g[j - 1] = f[j - 1]
        BY <3>1
      <4> QED
        BY <4>0, <4>2, <4>3
    <3>2. CASE j = i + 1
      <4>1. i # 0 => g[i] = f[i] /\ j # 1
        BY <3>2
      <4>2. g[j] = IF j = 1 THEN seqs[j] ELSE f[i] \o seqs[j]
        BY <3>2
      <4>3. j - 1 = i
        BY <3>2
      <4> HIDE DEF g
      <4> QED
        BY <3>2, <4>1, <4>2, <4>3
    <3> QED
      BY <3>1, <3>2
  <2>3. Unrolled(seqs, g, i + 1)
    BY <2>2 DEF Unrolled
  <2> QED
    BY <2>3
<1>3. Nat \subseteq T
  <2> HIDE DEF T
  <2> QED
    BY <1>1, <1>2, Induction
<1> QED
  BY <1>3

LEMMA FlattenUnrolls ==
  ASSUME NEW seqs, Len(seqs) \in Nat \ {0}
  PROVE  \E f : Unrolled(seqs, f, Len(seqs)) /\ Joined(seqs) = f[Len(seqs)]
<1> DEFINE Rule(f) == f = [i \in 1 .. Len(seqs) |->
                             IF i = 1 THEN seqs[i] ELSE f[i - 1] \o seqs[i]]
           g == CHOOSE f : Rule(f)
<1>1. PICK f : Unrolled(seqs, f, Len(seqs))
  BY UnrolledExists
<1>2. \E h : Rule(h)
  <2> DEFINE h == [i \in 1 .. Len(seqs) |-> f[i]]
  <2>1. h = [i \in 1 .. Len(seqs) |-> IF i = 1 THEN seqs[i] ELSE h[i - 1] \o seqs[i]]
    <3>1. ASSUME NEW i \in 1 .. Len(seqs)
          PROVE  h[i] = IF i = 1 THEN seqs[i] ELSE h[i - 1] \o seqs[i]
      <4>1. i # 1 => h[i - 1] = f[i - 1]
        OBVIOUS
      <4> QED
        BY <1>1, <4>1 DEF Unrolled
    <3> QED
      BY <3>1
  <2> QED
    BY <2>1
<1>3. Rule(g)
  BY <1>2
<1>4. Unrolled(seqs, g, Len(seqs))
  <2> HIDE DEF g
  <2> QED
    BY <1>3 DEF Unrolled
<1>5. Joined(seqs) = g[Len(seqs)]
  BY DEF Joined, Seqs!FlattenSeq
<1> QED
  BY <1>4, <1>5

(* A sequence that is cut in pieces, each behind the one before, is what   *)
(* the pieces are put together to: cut[i] is where piece i ends.           *)
Pieces(s, cut, seqs) ==
  /\ cut[0] = 0
  /\ \A i \in 1 .. Len(seqs) :
       /\ cut[i - 1] <= cut[i]
       /\ seqs[i] = SubSeq(s, cut[i - 1] + 1, cut[i])

LEMMA FlattenPieces ==
  ASSUME NEW S, NEW s \in Seq(S), NEW seqs \in Seq(Seq(S)),
         NEW cut \in [0 .. Len(seqs) -> 0 .. Len(s)], Pieces(s, cut, seqs)
  PROVE  Joined(seqs) = SubSeq(s, 1, cut[Len(seqs)])
<1>0. Len(seqs) \in Nat /\ Len(s) \in Nat
  BY LenProperties
<1>1. CASE Len(seqs) = 0
  <2>1. seqs = <<>>
    BY <1>1, EmptySeq
  <2>2. Joined(seqs) = <<>>
    BY <1>1, <2>1 DEF Joined, Seqs!FlattenSeq
  <2>3. SubSeq(s, 1, 0) = <<>>
    BY SubSeqEmpty
  <2> QED
    BY <1>1, <2>2, <2>3 DEF Pieces
<1>2. CASE Len(seqs) # 0
  <2>1. PICK f : Unrolled(seqs, f, Len(seqs)) /\ Joined(seqs) = f[Len(seqs)]
    BY <1>0, <1>2, FlattenUnrolls
  <2> DEFINE T == {i \in Nat : i \in 1 .. Len(seqs) => f[i] = SubSeq(s, 1, cut[i])}
  <2>2. 0 \in T
    OBVIOUS
  <2>3. ASSUME NEW i \in Nat, i \in T
        PROVE  i + 1 \in T
    <3> SUFFICES ASSUME i + 1 \in 1 .. Len(seqs)
                 PROVE  f[i + 1] = SubSeq(s, 1, cut[i + 1])
      OBVIOUS
    <3>0. (i + 1) - 1 = i /\ i \in 0 .. Len(seqs) /\ i + 1 \in 0 .. Len(seqs)
      BY <1>0
    <3>5. cut[i] <= cut[i + 1] /\ seqs[i + 1] = SubSeq(s, cut[i] + 1, cut[i + 1])
      <4>1. /\ cut[(i + 1) - 1] <= cut[i + 1]
            /\ seqs[i + 1] = SubSeq(s, cut[(i + 1) - 1] + 1, cut[i + 1])
        BY DEF Pieces
      <4> QED
        BY <3>0, <4>1
    <3>1. cut[i] \in 0 .. Len(s) /\ cut[i + 1] \in cut[i] .. Len(s)
      BY <1>0, <3>0, <3>5
    <3>6. f[i + 1] = IF i + 1 = 1 THEN seqs[i + 1] ELSE f[i] \o seqs[i + 1]
      <4>1. f[i + 1] = IF i + 1 = 1 THEN seqs[i + 1] ELSE f[(i + 1) - 1] \o seqs[i + 1]
        BY <2>1 DEF Unrolled
      <4> QED
        BY <3>0, <4>1
    <3>2. CASE i = 0
      <4>1. f[i + 1] = seqs[i + 1] /\ cut[i] = 0
        BY <3>2, <3>6 DEF Pieces
      <4>2. cut[i] + 1 = 1
        BY <4>1
      <4> QED
        BY <3>5, <4>1, <4>2
    <3>3. CASE i # 0
      <4>1. f[i] = SubSeq(s, 1, cut[i])
        BY <2>3, <3>0, <3>3
      <4>2. f[i + 1] = f[i] \o seqs[i + 1]
        <5>1. i + 1 # 1
          BY <3>3
        <5> QED
          BY <3>6, <5>1
      <4>3. /\ 1 \in 1 .. Len(s) + 1 /\ cut[i] \in (1 - 1) .. Len(s)
            /\ cut[i + 1] \in cut[i] .. Len(s)
        BY <1>0, <3>1
      <4>4. SubSeq(s, 1, cut[i]) \o SubSeq(s, cut[i] + 1, cut[i + 1]) = SubSeq(s, 1, cut[i + 1])
        BY <4>3, ConcatAdjacentSubSeq
      <4> QED
        BY <3>5, <4>1, <4>2, <4>4
    <3> QED
      BY <3>2, <3>3
  <2>4. Nat \subseteq T
    <3> HIDE DEF T
    <3> QED
      BY <2>2, <2>3, Induction
  <2> QED
    BY <1>0, <1>2, <2>1, <2>4
<1> QED
  BY <1>1, <1>2

LEMMA LeastOfTwo ==
  ASSUME NEW a \in Int, NEW b \in Int
  PROVE  /\ a <= b => Least(a, b) = a
         /\ b <= a => Least(a, b) = b
  BY DEF Least

LEMMA FunctionIsSequence ==
  ASSUME NEW S, NEW n \in Nat, NEW f \in [1 .. n -> S]
  PROVE  f \in Seq(S) /\ Len(f) = n
<1>1. f \in Seq(S)
  BY SeqDef
<1>2. Len(f) \in Nat /\ DOMAIN f = 1 .. Len(f)
  BY <1>1, LenProperties
<1>3. 1 .. Len(f) = 1 .. n
  BY <1>2
<1>4. Len(f) = n
  BY <1>2, <1>3
<1> QED
  BY <1>1, <1>4

LEMMA BodyIsSequence ==
  ASSUME NEW n \in Nat
  PROVE  Body(n) \in Seq(Nat) /\ Len(Body(n)) = n
<1>1. Body(n) \in [1 .. n -> Nat]
  BY DEF Body
<1> QED
  BY <1>1, FunctionIsSequence

(* k shards are enough for all bytes.                                      *)
LEMMA ShardsHold ==
  ASSUME NEW n \in Nat \ {0}, NEW k \in Nat \ {0}
  PROVE  ShardSize(n, k) \in Nat \ {0} /\ n <= k * ShardSize(n, k)
<1> DEFINE q == (n + k - 1) \div k
           size == Larger(q, 2)
<1>1. q \in Nat /\ n + k - 1 < k * q + k
  BY SMT
<1>2. n <= k * q
  BY <1>1
<1>3. size \in Nat \ {0} /\ q <= size
  BY <1>1 DEF Larger
<1> HIDE DEF q, size
<1>4. size % 2 \in {0, 1}
  BY <1>3
<1> DEFINE r == size % 2
<1>5. r \in {0, 1}
  BY <1>4
<1> HIDE DEF r
<1>6. k * (size + r) = k * q + k * ((size + r) - q)
  BY <1>1, <1>3, <1>5
<1>7. k * ((size + r) - q) >= 0
  BY <1>1, <1>3, <1>5
<1>8. ShardSize(n, k) = size + r
  BY DEF ShardSize, size, q, r
<1>9. k * q \in Nat /\ k * ((size + r) - q) \in Int
  BY <1>1, <1>3, <1>5
<1> QED
  BY <1>2, <1>3, <1>5, <1>6, <1>7, <1>8, <1>9

(* If one of the k shards with data is lost and k are left, one of these   *)
(* is a parity shard.                                                      *)
LEMMA ParityLeft ==
  ASSUME NEW k \in Nat \ {0}, NEW m \in Nat \ {0}, NEW kept \in SUBSET (0 .. k + m - 1),
         k <= Cardinality(kept), NEW i \in 0 .. k - 1, i \notin kept
  PROVE  \E p \in kept : p >= k
<1> SUFFICES ASSUME \A p \in kept : p < k
             PROVE  FALSE
  BY SMT
<1>1. kept \subseteq (0 .. k - 1) \ {i}
  OBVIOUS
<1> DEFINE S == 0 .. k - 1
<1>2. IsFiniteSet(S) /\ Cardinality(S) = k
  <2>1. 0 \in Int /\ k - 1 \in Int
    OBVIOUS
  <2>2. /\ IsFiniteSet(S)
        /\ Cardinality(S) = IF 0 > k - 1 THEN 0 ELSE (k - 1) - 0 + 1
    BY <2>1, FS_Interval, Zenon
  <2> HIDE DEF S
  <2> QED
    BY <2>2
<1>3. i \in S /\ kept \subseteq S \ {i}
  BY <1>1
<1> HIDE DEF S
<1>4. IsFiniteSet(S \ {i}) /\ Cardinality(S \ {i}) = k - 1
  BY <1>2, <1>3, FS_RemoveElement
<1>5. Cardinality(kept) \in Nat /\ Cardinality(kept) <= k - 1
  <2>1. IsFiniteSet(kept) /\ Cardinality(kept) <= Cardinality(S \ {i})
    BY <1>3, <1>4, FS_Subset
  <2> QED
    BY <1>4, <2>1, FS_CardinalityType
<1> QED
  BY <1>5

(* Enough shards, of data or parity, say what all the data shards were.    *)
LEMMA DataShardsKnown ==
  ASSUME NEW body \in Seq(Nat), body # <<>>,
         NEW k \in Nat \ {0}, NEW m \in Nat \ {0},
         NEW kept \in SUBSET (0 .. k + m - 1), k <= Cardinality(kept), NEW i \in 1 .. k
  PROVE  LET shards == Lost(Encode(body, k, m), kept)
         IN  (IF i - 1 \in DOMAIN shards THEN shards[i - 1]
                                         ELSE Restored(shards, k)[i - 1])
               = DataShards(body, k)[i - 1]
<1> DEFINE data == DataShards(body, k)
           shards == Lost(Encode(body, k, m), kept)
<1>1. /\ DOMAIN shards = kept
      /\ \A j \in kept : shards[j] = IF j < k THEN data[j] ELSE ParityShard(data, j - k)
  BY DEF Lost, Encode
<1>2. CASE i - 1 \in kept
  BY <1>1, <1>2
<1>3. CASE i - 1 \notin kept
  <2> DEFINE p == CHOOSE j \in DOMAIN shards : j >= k
  <2>1. p \in kept /\ p >= k
    <3>1. i - 1 \in 0 .. k - 1
      OBVIOUS
    <3>2. \E j \in kept : j >= k
      BY <1>3, <3>1, ParityLeft
    <3> QED
      BY <1>1, <3>2
  <2> HIDE DEF p
  <2>2. shards[p] = ParityShard(data, p - k)
    <3>1. ~(p < k)
      BY <2>1
    <3> HIDE DEF shards, data
    <3> QED
      BY <1>1, <2>1, <3>1
  <2>3. Restored(shards, k) = data
    <3>1. Restored(shards, k) = shards[p].of
      BY DEF Restored, p
    <3> QED
      BY <2>2, <3>1 DEF ParityShard
  <2> QED
    BY <1>1, <1>3, <2>3
<1> QED
  BY <1>2, <1>3

(* The body with the zeros behind it.                                      *)
Padded(body, k) ==
  [j \in 1 .. k * ShardSize(Len(body), k) |-> IF j <= Len(body) THEN body[j] ELSE Zero]

LEMMA DataShardsArePieces ==
  ASSUME NEW body \in Seq(Nat), body # <<>>, NEW k \in Nat \ {0}
  PROVE  Joined([i \in 1 .. k |-> DataShards(body, k)[i - 1]]) = Padded(body, k)
<1> DEFINE n == Len(body)
           size == ShardSize(n, k)
           s == Padded(body, k)
           seqs == [i \in 1 .. k |-> DataShards(body, k)[i - 1]]
           cut == [i \in 0 .. k |-> i * size]
<1>1. n \in Nat \ {0} /\ body \in [1 .. n -> Nat]
  BY EmptySeq, LenProperties
<1>2. size \in Nat \ {0}
  BY <1>1, ShardsHold
<1>3. k * size \in Nat
  BY <1>2
<1>4. s \in Seq(Nat) /\ Len(s) = k * size
  <2>1. s \in [1 .. k * size -> Nat]
    BY <1>1 DEF Padded, Zero
  <2> HIDE DEF s
  <2> QED
    BY <1>3, <2>1, FunctionIsSequence
<1>5. ASSUME NEW i \in 1 .. k
      PROVE  /\ (i - 1) * size \in Nat /\ i * size = (i - 1) * size + size
             /\ i * size <= k * size
  <2>1. k * size = i * size + (k - i) * size /\ i * size = (i - 1) * size + size
    BY <1>2
  <2>2. (k - i) * size >= 0 /\ (i - 1) * size >= 0 /\ (k - i) * size \in Int
        /\ (i - 1) * size \in Int
    BY <1>2
  <2> QED
    BY <2>1, <2>2, <1>2
<1>6. ASSUME NEW i \in 1 .. k
      PROVE  /\ seqs[i] \in Seq(Nat)
             /\ seqs[i] = SubSeq(s, (i - 1) * size + 1, i * size)
  <2> DEFINE a == (i - 1) * size
  <2>1. a \in Nat /\ i * size = a + size /\ a + size <= k * size
    BY <1>5
  <2>2. seqs[i] = [j \in 1 .. size |-> IF a + j <= n THEN body[a + j] ELSE Zero]
    <3>1. i - 1 \in 0 .. k - 1
      OBVIOUS
    <3> QED
      BY <3>1 DEF DataShards
  <2> HIDE DEF a
  <2>3. seqs[i] \in [1 .. size -> Nat]
    BY <1>1, <2>1, <2>2 DEF Zero
  <2>4. seqs[i] \in Seq(Nat) /\ Len(seqs[i]) = size
    BY <1>2, <2>3, FunctionIsSequence
  <2> DEFINE t == SubSeq(s, a + 1, a + size)
  <2>5. /\ t \in Seq(Nat) /\ Len(t) = size
        /\ \A j \in 1 .. size : t[j] = s[(a + 1) + j - 1]
    <3>0. a \in Nat /\ size \in Nat \ {0} /\ Len(s) \in Nat /\ a + size <= Len(s)
      BY <1>2, <1>3, <1>4, <2>1
    <3> HIDE DEF size, s
    <3>1. \A j \in a + 1 .. a + size : s[j] \in Nat
      <4>1. \A j \in a + 1 .. a + size : j \in 1 .. Len(s)
        BY <3>0
      <4> QED
        BY <1>4, <4>1, ElementOfSeq
    <3>2. a + 1 \in Int /\ a + size \in Int /\ a + 1 <= a + size
          /\ (a + size) - (a + 1) + 1 = size
      BY <3>0
    <3> QED
      BY <3>1, <3>2, SubSeqProperties
  <2>6. ASSUME NEW j \in 1 .. size
        PROVE  seqs[i][j] = t[j]
    <3>1. (a + 1) + j - 1 = a + j /\ a + j \in 1 .. k * size
      BY <1>2, <1>3, <2>1
    <3>2. s[a + j] = IF a + j <= n THEN body[a + j] ELSE Zero
      BY <3>1 DEF Padded
    <3>3. t[j] = s[a + j]
      BY <2>5, <3>1
    <3>4. seqs[i][j] = IF a + j <= n THEN body[a + j] ELSE Zero
      BY <2>2
    <3> QED
      BY <3>2, <3>3, <3>4
  <2> HIDE DEF t
  <2>7. seqs[i] = t
    BY <2>4, <2>5, <2>6, SeqEqual
  <2> QED
    BY <2>1, <2>4, <2>7 DEF t, a
<1>7. seqs \in Seq(Seq(Nat)) /\ Len(seqs) = k
  <2>1. seqs \in [1 .. k -> Seq(Nat)]
    BY <1>6
  <2> HIDE DEF seqs
  <2> QED
    BY <2>1, FunctionIsSequence
<1>8. cut \in [0 .. k -> 0 .. Len(s)]
  <2>1. ASSUME NEW i \in 0 .. k
        PROVE  i * size \in 0 .. k * size
    <3>1. CASE i = 0
      BY <1>2, <1>3, <3>1
    <3>2. CASE i # 0
      <4>1. i \in 1 .. k
        BY <3>2
      <4>2. (i - 1) * size \in Nat /\ i * size = (i - 1) * size + size /\ i * size <= k * size
        BY <1>5, <4>1
      <4> HIDE DEF size
      <4> QED
        BY <1>2, <1>3, <4>2
    <3> QED
      BY <3>1, <3>2
  <2> QED
    BY <1>4, <2>1
<1>9. Pieces(s, cut, seqs)
  <2>1. cut[0] = 0
    BY <1>2
  <2>2. ASSUME NEW i \in 1 .. k
        PROVE  cut[i - 1] <= cut[i] /\ seqs[i] = SubSeq(s, cut[i - 1] + 1, cut[i])
    <3>1. cut[i - 1] = (i - 1) * size /\ cut[i] = i * size
      OBVIOUS
    <3>2. (i - 1) * size <= i * size
      BY <1>2, <1>5
    <3> HIDE DEF cut, seqs
    <3> QED
      BY <3>1, <3>2, <1>6
  <2> HIDE DEF cut, s, seqs
  <2> QED
    BY <1>7, <2>1, <2>2 DEF Pieces
<1>10. cut[k] = k * size
  OBVIOUS
<1> HIDE DEF s, seqs, cut, size
<1>11. Joined(seqs) = SubSeq(s, 1, k * size)
  BY <1>4, <1>7, <1>8, <1>9, <1>10, FlattenPieces
<1>12. Joined(seqs) = s
  BY <1>4, <1>11, SubSeqFull
<1> QED
  BY <1>12 DEF s, seqs

(* Enough shards of a body decode to it, whichever they are.               *)
LEMMA DecodesToBody ==
  ASSUME NEW body \in Seq(Nat), body # <<>>,
         NEW k \in Nat \ {0}, NEW m \in Nat \ {0},
         NEW kept \in SUBSET (0 .. k + m - 1), k <= Cardinality(kept)
  PROVE  Decode(Lost(Encode(body, k, m), kept), k, m, Len(body)) = body
<1> DEFINE n == Len(body)
           shards == Lost(Encode(body, k, m), kept)
           all == [i \in 1 .. k |-> IF i - 1 \in DOMAIN shards THEN shards[i - 1]
                                    ELSE Restored(shards, k)[i - 1]]
           s == Padded(body, k)
<1>1. n \in Nat \ {0} /\ body \in [1 .. n -> Nat]
  BY EmptySeq, LenProperties
<1>2. all = [i \in 1 .. k |-> DataShards(body, k)[i - 1]]
  BY DataShardsKnown
<1>3. Joined(all) = s
  BY <1>2, DataShardsArePieces
<1>4. DOMAIN shards = kept
  BY DEF Lost
<1>5. Cardinality(kept) \in Nat
  <2>1. 0 \in Int /\ k + m - 1 \in Int
    OBVIOUS
  <2>2. IsFiniteSet(kept)
    BY <2>1, FS_Interval, FS_Subset
  <2> QED
    BY <2>2, FS_CardinalityType
<1>6. Decode(shards, k, m, n) = SubSeq(Joined(all), 1, Least(n, Len(Joined(all))))
  <2>1. k # 0 /\ m # 0 /\ ~(Cardinality(DOMAIN shards) < k)
    BY <1>4, <1>5
  <2> HIDE DEF shards
  <2> QED
    BY <2>1 DEF Decode
<1>7. ShardSize(n, k) \in Nat \ {0} /\ n <= k * ShardSize(n, k)
  BY <1>1, ShardsHold
<1> DEFINE total == k * ShardSize(n, k)
<1>8. total \in Nat /\ n <= total
  BY <1>7
<1>9. s = [j \in 1 .. total |-> IF j <= n THEN body[j] ELSE Zero]
  BY DEF Padded
<1> HIDE DEF total, s, shards
<1>10. s \in Seq(Nat) /\ Len(s) = total
  <2>1. s \in [1 .. total -> Nat]
    BY <1>1, <1>9 DEF Zero
  <2> QED
    BY <1>8, <2>1, FunctionIsSequence
<1>11. Decode(shards, k, m, n) = SubSeq(s, 1, n)
  <2>1. Least(n, Len(s)) = n
    <3>1. Least(n, total) = n
      BY <1>1, <1>8, LeastOfTwo
    <3> QED
      BY <1>10, <3>1
  <2> QED
    BY <1>3, <1>6, <2>1
<1>12. SubSeq(s, 1, n) = body
  <2>1. \A i \in 1 .. n : s[i] \in Nat /\ s[i] = body[i]
    BY <1>1, <1>8, <1>9
  <2>2. /\ SubSeq(s, 1, n) \in Seq(Nat) /\ Len(SubSeq(s, 1, n)) = n
        /\ \A i \in 1 .. n - 1 + 1 : SubSeq(s, 1, n)[i] = s[1 + i - 1]
    BY <1>1, <2>1, SubSeqProperties
  <2>3. \A i \in 1 .. n : SubSeq(s, 1, n)[i] = body[i]
    BY <1>1, <2>1, <2>2
  <2> QED
    BY <1>1, <2>2, <2>3, SeqEqual
<1> QED
  BY <1>11, <1>12 DEF shards

LEMMA BlockBounds ==
  ASSUME NEW n \in Nat \ {0}, NEW size \in Nat \ {0},
         NEW count, count = (n + size - 1) \div size
  PROVE  /\ count \in Nat \ {0}
         /\ n <= count * size
         /\ \A b \in 1 .. count :
              /\ (b - 1) * size \in Nat
              /\ b * size = (b - 1) * size + size
              /\ (b - 1) * size < n
              /\ b < count => b * size < n
<1>1. /\ count \in Int
      /\ size * count <= n + size - 1
      /\ n + size - 1 < size * count + size
  BY SMT
<1>2. n <= count * size /\ count * size < n + size
  BY <1>1
<1>3. count \in Nat \ {0}
  <2> SUFFICES ASSUME count <= 0
               PROVE  FALSE
    BY <1>1
  <2>1. count * size <= 0
    BY <1>1
  <2> QED
    BY <1>1, <1>2, <2>1
<1>4. ASSUME NEW b \in 1 .. count
      PROVE  /\ (b - 1) * size \in Nat
             /\ b * size = (b - 1) * size + size
             /\ (b - 1) * size < n
             /\ b < count => b * size < n
  <2>1. /\ (b - 1) * size \in Nat
        /\ b * size = (b - 1) * size + size
    BY <1>3
  <2>2. count * size = b * size + (count - b) * size /\ (count - b) * size \in Nat
    BY <1>3
  <2>3. b < count => (count - b) * size = (count - b - 1) * size + size
                     /\ (count - b - 1) * size \in Nat
    BY <1>3
  <2> QED
    BY <1>2, <1>3, <2>1, <2>2, <2>3

<1> QED
  BY <1>2, <1>3, <1>4

LEMMA BlocksArePieces ==
  ASSUME NEW n \in Nat \ {0}, NEW size \in Nat \ {0}
  PROVE  LET blocks == Blocks(Body(n), size)
             lengths == BlockLengths(n, size)
         IN  /\ DOMAIN lengths = DOMAIN blocks
             /\ \A b \in DOMAIN blocks :
                  /\ blocks[b] \in Seq(Nat) /\ blocks[b] # <<>>
                  /\ Len(blocks[b]) = lengths[b]
             /\ Joined(blocks) = Body(n)
<1> DEFINE s == Body(n)
           count == (n + size - 1) \div size
           upto(b) == Least(b * size, n)
           cut == [b \in 0 .. count |-> upto(b)]
           blocks == Blocks(s, size)
           lengths == BlockLengths(n, size)
<1>1. s \in Seq(Nat) /\ Len(s) = n /\ SubSeq(s, 1, n) = s
  BY BodyIsSequence, SubSeqFull
<1>2. blocks = [b \in 1 .. count |-> SubSeq(s, (b - 1) * size + 1, upto(b))]
  BY <1>1 DEF Blocks
<1>3. lengths = [b \in 1 .. count |-> IF b < count THEN size ELSE n - (b - 1) * size]
  BY DEF BlockLengths
<1> HIDE DEF s, blocks, lengths
<1>4. /\ count \in Nat \ {0}
      /\ n <= count * size
      /\ \A b \in 1 .. count :
           /\ (b - 1) * size \in Nat
           /\ b * size = (b - 1) * size + size
           /\ (b - 1) * size < n
           /\ b < count => b * size < n
  BY BlockBounds
<1> HIDE DEF count
<1>5. ASSUME NEW b \in 1 .. count
      PROVE  /\ upto(b - 1) = (b - 1) * size
             /\ upto(b) = IF b < count THEN b * size ELSE n
             /\ upto(b) \in upto(b - 1) + 1 .. n
             /\ lengths[b] = upto(b) - upto(b - 1)
  <2>1. /\ (b - 1) * size \in Nat
        /\ b * size = (b - 1) * size + size
        /\ (b - 1) * size < n
        /\ b < count => b * size < n
    BY <1>4
  <2>2. upto(b - 1) = (b - 1) * size
    BY <2>1, LeastOfTwo
  <2>3. upto(b) = IF b < count THEN b * size ELSE n
    <3>1. CASE b < count
      BY <2>1, <3>1, LeastOfTwo
    <3>2. CASE b = count
      BY <1>4, <2>1, <3>2, LeastOfTwo
    <3> QED
      BY <1>4, <3>1, <3>2
  <2> DEFINE a == (b - 1) * size
             e == b * size
  <2>4. lengths[b] = IF b < count THEN size ELSE n - a
    BY <1>3
  <2> HIDE DEF a, e, upto
  <2> QED
    BY <1>4, <2>1, <2>2, <2>3, <2>4 DEF a, e
<1>6. ASSUME NEW b \in 1 .. count
      PROVE  /\ blocks[b] = SubSeq(s, upto(b - 1) + 1, upto(b))
             /\ blocks[b] \in Seq(Nat) /\ blocks[b] # <<>>
             /\ Len(blocks[b]) = lengths[b]
  <2>1. /\ upto(b - 1) \in Nat /\ upto(b) \in upto(b - 1) + 1 .. n
        /\ lengths[b] = upto(b) - upto(b - 1)
    BY <1>4, <1>5
  <2>2. blocks[b] = SubSeq(s, upto(b - 1) + 1, upto(b))
    <3>1. blocks[b] = SubSeq(s, (b - 1) * size + 1, upto(b))
      BY <1>2
    <3> HIDE DEF upto
    <3> QED
      BY <1>5, <3>1
  <2> DEFINE lo == upto(b - 1) + 1
             hi == upto(b)
  <2>3. lo \in Int /\ hi \in Int /\ lo <= hi /\ lo \in Nat \ {0} /\ hi <= n
        /\ hi - lo + 1 = lengths[b] /\ lengths[b] \in Nat \ {0}
    BY <2>1
  <2> HIDE DEF lo, hi, upto
  <2>4. \A i \in lo .. hi : s[i] \in Nat
    <3>1. \A i \in lo .. hi : i \in 1 .. Len(s)
      BY <1>1, <2>3
    <3> QED
      BY <1>1, <3>1, ElementOfSeq
  <2>5. SubSeq(s, lo, hi) \in Seq(Nat) /\ Len(SubSeq(s, lo, hi)) = lengths[b]
    BY <2>3, <2>4, SubSeqProperties
  <2>6. SubSeq(s, lo, hi) # <<>>
    BY <2>3, <2>5, EmptySeq
  <2> QED
    BY <2>2, <2>5, <2>6 DEF lo, hi
<1>7. DOMAIN blocks = 1 .. count /\ DOMAIN lengths = 1 .. count
  BY <1>2, <1>3
<1>8. blocks \in Seq(Seq(Nat)) /\ Len(blocks) = count
  <2>1. blocks \in [1 .. count -> Seq(Nat)]
    BY <1>2, <1>6
  <2> QED
    BY <1>4, <2>1, FunctionIsSequence
<1>9. cut \in [0 .. count -> 0 .. Len(s)] /\ cut[0] = 0 /\ cut[count] = n
  <2>1. upto(0) = 0
    <3>1. 1 \in 1 .. count /\ 1 - 1 = 0
      BY <1>4
    <3>2. upto(1 - 1) = (1 - 1) * size
      BY <1>5, <3>1
    <3> QED
      BY <3>1, <3>2
  <2>2. upto(count) = n
    <3>1. count \in 1 .. count /\ ~(count < count)
      BY <1>4
    <3> HIDE DEF upto
    <3> QED
      BY <1>5, <3>1
  <2>3. ASSUME NEW b \in 0 .. count
        PROVE  upto(b) \in 0 .. n
    <3>1. CASE b = 0
      BY <2>1, <3>1
    <3>2. CASE b # 0
      <4>1. b \in 1 .. count
        BY <3>2
      <4>2. upto(b - 1) \in Nat /\ upto(b) \in upto(b - 1) + 1 .. n
        BY <1>4, <1>5, <4>1
      <4> HIDE DEF upto
      <4> QED
        BY <4>2
    <3> QED
      BY <3>1, <3>2
  <2> HIDE DEF upto
  <2> QED
    BY <1>1, <1>4, <2>1, <2>2, <2>3
<1>10. Pieces(s, cut, blocks)
  <2>1. ASSUME NEW b \in 1 .. count
        PROVE  cut[b - 1] <= cut[b] /\ blocks[b] = SubSeq(s, cut[b - 1] + 1, cut[b])
    <3>1. cut[b - 1] = upto(b - 1) /\ cut[b] = upto(b)
      BY <1>4
    <3>2. upto(b - 1) \in Nat /\ upto(b) \in upto(b - 1) + 1 .. n
      BY <1>4, <1>5
    <3>3. blocks[b] = SubSeq(s, upto(b - 1) + 1, upto(b))
      BY <1>6
    <3> HIDE DEF upto, cut
    <3> QED
      BY <3>1, <3>2, <3>3
  <2> HIDE DEF cut
  <2> QED
    BY <1>8, <1>9, <2>1 DEF Pieces
<1> HIDE DEF cut, upto
<1>11. Joined(blocks) = SubSeq(s, 1, n)
  BY <1>1, <1>8, <1>9, <1>10, FlattenPieces
<1> QED
  BY <1>1, <1>6, <1>7, <1>11 DEF s, blocks, lengths

(* Enough shards of every block decode to the body.                        *)
LEMMA BlocksDecodeToBody ==
  ASSUME NEW n \in Nat \ {0}, NEW size \in Nat \ {0}, NEW k \in Nat \ {0}, NEW m \in Nat \ {0},
         NEW kept \in SUBSET (0 .. k + m - 1), k <= Cardinality(kept)
  PROVE  LET coded == EncodeBlocks(Body(n), size, k, m)
         IN  DecodeBlocks(coded, [b \in DOMAIN coded |-> kept], BlockLengths(n, size), k, m)
               = Body(n)
<1> DEFINE coded == EncodeBlocks(Body(n), size, k, m)
           blocks == Blocks(Body(n), size)
           lengths == BlockLengths(n, size)
           keep == [b \in DOMAIN coded |-> kept]
           decoded == [b \in DOMAIN coded |-> Decode(Lost(coded[b], keep[b]), k, m, lengths[b])]
<1>1. /\ DOMAIN lengths = DOMAIN blocks
      /\ \A b \in DOMAIN blocks :
           /\ blocks[b] \in Seq(Nat) /\ blocks[b] # <<>>
           /\ Len(blocks[b]) = lengths[b]
      /\ Joined(blocks) = Body(n)
  BY BlocksArePieces
<1>2. coded = [b \in DOMAIN blocks |-> Encode(blocks[b], k, m)]
  <2>1. Body(n) # <<>>
    BY BodyIsSequence, EmptySeq
  <2> QED
    BY <2>1 DEF EncodeBlocks
<1>3. DecodeBlocks(coded, keep, lengths, k, m) =
        IF DOMAIN lengths # DOMAIN coded \/ \E b \in DOMAIN coded : decoded[b] = Failed
        THEN Failed ELSE Joined(decoded)
  BY DEF DecodeBlocks
<1> HIDE DEF blocks, lengths, coded
<1>4. DOMAIN coded = DOMAIN blocks
  BY <1>2
<1>5. ASSUME NEW b \in DOMAIN blocks
      PROVE  Decode(Lost(coded[b], keep[b]), k, m, lengths[b]) = blocks[b]
  <2>1. coded[b] = Encode(blocks[b], k, m)
    BY <1>2, Zenon
  <2>2. keep[b] = kept
    BY <1>4, Zenon
  <2> DEFINE body == blocks[b]
  <2>3. body \in Seq(Nat) /\ body # <<>> /\ Len(body) = lengths[b]
    BY <1>1
  <2>4. coded[b] = Encode(body, k, m)
    BY <2>1
  <2> HIDE DEF body
  <2>5. Decode(Lost(Encode(body, k, m), kept), k, m, Len(body)) = body
    BY <2>3, DecodesToBody
  <2> HIDE DEF keep
  <2>6. Decode(Lost(coded[b], keep[b]), k, m, lengths[b]) = body
    BY <2>2, <2>3, <2>4, <2>5
  <2> QED
    BY <2>6 DEF body
<1>6. blocks = [b \in DOMAIN blocks |-> blocks[b]]
  BY DEF blocks, Blocks
<1> HIDE DEF keep
<1>7. decoded = blocks
  BY <1>5, <1>4, <1>6
<1> HIDE DEF decoded
<1> QED
  BY <1>1, <1>3, <1>4, <1>7 DEF Failed, coded, keep, lengths

-----------------------------------------------------------------------------
(* Chunks *)

LEMMA RanksGrow ==
  ASSUME NEW S, S \subseteq Nat, IsFiniteSet(S)
  PROVE  /\ \A x \in S : Cardinality(Below(S, x)) \in 0 .. Cardinality(S) - 1
         /\ \A x, y \in S : x < y => Cardinality(Below(S, x)) < Cardinality(Below(S, y))
<1>1. ASSUME NEW x \in S
      PROVE  /\ IsFiniteSet(Below(S, x)) /\ Cardinality(Below(S, x)) \in Nat
             /\ IsFiniteSet(Below(S, x) \cup {x})
             /\ Cardinality(Below(S, x) \cup {x}) = Cardinality(Below(S, x)) + 1
  <2>1. Below(S, x) \in SUBSET S /\ x \notin Below(S, x)
    BY DEF Below
  <2>2. IsFiniteSet(Below(S, x))
    BY <2>1, FS_Subset
  <2> QED
    BY <2>1, <2>2, FS_AddElement, FS_CardinalityType
<1>2. ASSUME NEW x \in S
      PROVE  Cardinality(Below(S, x)) \in 0 .. Cardinality(S) - 1
  <2> DEFINE b == Cardinality(Below(S, x))
  <2>1. Below(S, x) \cup {x} \in SUBSET S
    BY DEF Below
  <2>2. Cardinality(Below(S, x) \cup {x}) <= Cardinality(S)
    BY <2>1, FS_Subset
  <2>3. Cardinality(S) \in Nat
    BY FS_CardinalityType
  <2>4. b \in Nat /\ b + 1 <= Cardinality(S)
    BY <1>1, <2>2, Zenon
  <2> HIDE DEF b
  <2>5. b \in 0 .. Cardinality(S) - 1
    BY <2>3, <2>4
  <2> QED
    BY <2>5 DEF b
<1>3. ASSUME NEW x \in S, NEW y \in S, x < y
      PROVE  Cardinality(Below(S, x)) < Cardinality(Below(S, y))
  <2> DEFINE b == Cardinality(Below(S, x))
             c == Cardinality(Below(S, y))
  <2>1. Below(S, x) \cup {x} \in SUBSET Below(S, y)
    <3>1. \A z \in S : z < x => z < y
      BY <1>3
    <3> QED
      BY <1>3, <3>1 DEF Below
  <2>2. Cardinality(Below(S, x) \cup {x}) <= Cardinality(Below(S, y))
    BY <1>1, <2>1, FS_Subset
  <2>3. b \in Nat /\ c \in Nat /\ b + 1 <= c
    BY <1>1, <2>2, Zenon
  <2> HIDE DEF b, c
  <2>4. b < c
    BY <2>3
  <2> QED
    BY <2>4 DEF b, c
<1> QED
  BY <1>2, <1>3

(* InOrder(S) has every member of S, from the least to the largest.        *)
LEMMA InOrderIsSorted ==
  ASSUME NEW S, S \subseteq Nat, IsFiniteSet(S)
  PROVE  LET s == InOrder(S)
         IN  /\ Cardinality(S) \in Nat
             /\ s \in [1 .. Cardinality(S) -> S]
             /\ \A i, j \in 1 .. Cardinality(S) : i < j => s[i] < s[j]
             /\ \A x \in S : \E i \in 1 .. Cardinality(S) : s[i] = x
<1> DEFINE N == Cardinality(S)
           rank(x) == Cardinality(Below(S, x))
           f == [x \in S |-> rank(x)]
           s == InOrder(S)
<1>1. N \in Nat
  BY FS_CardinalityType
<1>2. /\ \A x \in S : rank(x) \in 0 .. N - 1
      /\ \A x, y \in S : x < y => rank(x) < rank(y)
  BY RanksGrow
<1> HIDE DEF rank, N
<1>3. \A x, y \in S : rank(x) = rank(y) => x = y
  BY <1>1, <1>2
<1>4. \A i \in 0 .. N - 1 : \E x \in S : rank(x) = i
  <2> DEFINE T == 0 .. N - 1
  <2>1. IsFiniteSet(T) /\ Cardinality(T) = N
    <3>1. 0 \in Int /\ N - 1 \in Int
      BY <1>1
    <3>2. /\ IsFiniteSet(T)
          /\ Cardinality(T) = IF 0 > N - 1 THEN 0 ELSE (N - 1) - 0 + 1
      BY <3>1, FS_Interval, Zenon
    <3> HIDE DEF T
    <3> QED
      BY <1>1, <3>2
  <2>2. f \in [S -> T]
    BY <1>2
  <2>3. f \in Injection(S, T)
    BY <1>3, <2>2 DEF Injection, IsInjective
  <2> HIDE DEF T, f
  <2>4. f \in Surjection(S, T)
    BY <2>1, <2>3, FS_Injection DEF N
  <2>5. \A i \in T : \E x \in S : f[x] = i
    BY <2>4 DEF Surjection
  <2> QED
    BY <2>5 DEF T, f
<1>5. ASSUME NEW i \in 1 .. N
      PROVE  s[i] \in S /\ rank(s[i]) = i - 1
  <2>1. \E x \in S : rank(x) = i - 1
    <3>1. i - 1 \in 0 .. N - 1
      BY <1>1
    <3> QED
      BY <1>4, <3>1
  <2>2. s[i] = CHOOSE x \in S : rank(x) = i - 1
    BY DEF InOrder, rank, N
  <2> QED
    BY <2>1, <2>2
<1>6. s \in [1 .. N -> S]
  <2>1. s = [i \in 1 .. N |-> s[i]]
    BY DEF InOrder, N
  <2> HIDE DEF s
  <2> QED
    BY <1>5, <2>1
<1> HIDE DEF s
<1>7. ASSUME NEW i \in 1 .. N, NEW j \in 1 .. N, i < j
      PROVE  s[i] < s[j]
  <2>1. /\ s[i] \in S /\ s[j] \in S /\ rank(s[i]) = i - 1 /\ rank(s[j]) = j - 1
    BY <1>5
  <2>2. s[i] # s[j]
    <3>1. i - 1 # j - 1
      BY <1>1, <1>7
    <3> QED
      BY <2>1, <3>1
  <2>3. ~(s[j] < s[i])
    <3>1. s[j] < s[i] => rank(s[j]) < rank(s[i])
      BY <1>2, <2>1
    <3>2. rank(s[i]) < rank(s[j])
      BY <1>1, <1>7, <2>1
    <3>3. rank(s[i]) \in Int /\ rank(s[j]) \in Int
      BY <1>1, <2>1
    <3> QED
      BY <3>1, <3>2, <3>3
  <2>4. s[i] \in Nat /\ s[j] \in Nat
    BY <2>1
  <2> QED
    BY <2>2, <2>3, <2>4
<1>8. ASSUME NEW x \in S
      PROVE  \E i \in 1 .. N : s[i] = x
  <2>1. rank(x) \in 0 .. N - 1
    BY <1>2
  <2> DEFINE i == rank(x) + 1
  <2>2. i \in 1 .. N /\ i - 1 = rank(x)
    BY <1>1, <2>1
  <2> HIDE DEF i
  <2>3. rank(s[i]) = rank(x) /\ s[i] \in S
    BY <1>5, <2>2
  <2> QED
    BY <1>3, <2>2, <2>3
<1> QED
  BY <1>1, <1>6, <1>7, <1>8 DEF N, s

(* A set of numbers that has all numbers below its members.                *)
LEMMA Prefix ==
  ASSUME NEW N \in Nat, NEW T \in SUBSET (1 .. N),
         \A i \in T : \A j \in 1 .. i : j \in T
  PROVE  Cardinality(T) \in 0 .. N /\ T = 1 .. Cardinality(T)
<1>1. \E t \in 0 .. N : T = 1 .. t
  <2>1. CASE T = 1 .. N
    BY <2>1
  <2>2. CASE T # 1 .. N
    <3> DEFINE U == (1 .. N) \ T
    <3>1. U \subseteq Nat /\ U # {}
      <4>1. U # {}
        BY <2>2, Zenon
      <4> QED
        BY <4>1, SMT
    <3> HIDE DEF U
    <3>2. PICK x \in U : \A y \in U : x <= y
      BY <3>1, LeastNumber
    <3>3. x \in 1 .. N /\ x \notin T /\ \A y \in 1 .. N : y < x => y \in T
      <4>1. \A y \in 1 .. N : y < x => ~(x <= y)
        BY <3>2 DEF U
      <4> QED
        BY <3>2, <4>1 DEF U
    <3>4. x - 1 \in 0 .. N
      BY <3>3
    <3>5. T = 1 .. x - 1
      <4>1. ASSUME NEW y \in T
            PROVE  y < x
        <5>1. y \in 1 .. N /\ (x \in 1 .. y => x \in T)
          OBVIOUS
        <5> QED
          BY <3>3, <5>1
      <4>2. \A y : y \in 1 .. x - 1 <=> y \in 1 .. N /\ y < x
        BY <3>3
      <4> QED
        BY <3>3, <4>1, <4>2
    <3> QED
      BY <3>4, <3>5
  <2> QED
    BY <2>1, <2>2
<1>2. PICK t \in 0 .. N : T = 1 .. t
  BY <1>1
<1>3. Cardinality(1 .. t) = t
  <2>1. 1 \in Int /\ t \in Int
    OBVIOUS
  <2>2. Cardinality(1 .. t) = IF 1 > t THEN 0 ELSE t - 1 + 1
    BY <2>1, FS_Interval, Zenon
  <2> QED
    BY <2>2
<1> QED
  BY <1>2, <1>3

(* Where the chunks of a body of n bytes end that start at starts: each    *)
(* ends where the next starts.                                             *)
Ends(starts, n) == [i \in 0 .. Len(starts) |-> IF i = 0 THEN 0 ELSE EndOf(starts, i, n)]

(* Starts of chunks that cut a body of n bytes.                            *)
IsCut(starts, n) ==
  /\ starts \in Seq(1 .. n) /\ Len(starts) # 0 /\ starts[1] = 1
  /\ \A i, j \in 1 .. Len(starts) : i < j => starts[i] < starts[j]

LEMMA EndsGrow ==
  ASSUME NEW n \in Nat, NEW starts, IsCut(starts, n)
  PROVE  LET end == Ends(starts, n)
             N   == Len(starts)
         IN  /\ end \in [0 .. N -> 0 .. n] /\ end[0] = 0 /\ end[N] = n
             /\ \A i \in 1 .. N : starts[i] = end[i - 1] + 1 /\ end[i - 1] < end[i]
             /\ \A i, j \in 0 .. N : i <= j => end[i] <= end[j]
<1> DEFINE end == Ends(starts, n)
           N == Len(starts)
<1>1. N \in Nat \ {0} /\ \A i \in 1 .. N : starts[i] \in 1 .. n
  BY LenProperties DEF IsCut
<1>2. \A i \in 0 .. N : end[i] = IF i = 0 THEN 0 ELSE IF i < N THEN starts[i + 1] - 1 ELSE n
  BY DEF Ends, EndOf
<1>3. end = [i \in 0 .. N |-> end[i]]
  BY DEF Ends
<1>4. \A i, j \in 1 .. N : i < j => starts[i] < starts[j]
  BY DEF IsCut
<1>5. starts[1] = 1
  BY DEF IsCut
<1> HIDE DEF end, N
<1>6. end[0] = 0 /\ end[N] = n
  BY <1>1, <1>2
<1>7. ASSUME NEW i \in 0 .. N
      PROVE  end[i] \in 0 .. n /\ (i < N => end[i] = starts[i + 1] - 1)
  <2>1. CASE i < N
    <3>1. i + 1 \in 1 .. N
      BY <1>1, <2>1
    <3>2. starts[i + 1] \in 1 .. n
      BY <1>1, <3>1
    <3>3. end[i] = starts[i + 1] - 1
      <4>1. CASE i = 0
        BY <1>2, <1>5, <4>1
      <4>2. CASE i # 0
        BY <1>2, <2>1, <4>2
      <4> QED
        BY <4>1, <4>2
    <3> QED
      BY <3>2, <3>3
  <2>2. CASE i = N
    BY <1>1, <1>6, <2>2
  <2> QED
    BY <1>1, <2>1, <2>2
<1>8. ASSUME NEW i \in 1 .. N
      PROVE  starts[i] = end[i - 1] + 1 /\ end[i - 1] < end[i]
  <2>1. i - 1 \in 0 .. N /\ i - 1 < N /\ (i - 1) + 1 = i /\ i \in 0 .. N
    BY <1>1
  <2>2. end[i - 1] = starts[i] - 1 /\ starts[i] \in 1 .. n
    BY <1>1, <1>7, <2>1
  <2>3. CASE i < N
    <3>1. i + 1 \in 1 .. N /\ i < i + 1 /\ end[i] = starts[i + 1] - 1
      BY <1>1, <1>7, <2>1, <2>3
    <3>2. starts[i] < starts[i + 1] /\ starts[i + 1] \in 1 .. n
      BY <1>1, <1>4, <3>1
    <3> QED
      BY <2>2, <3>1, <3>2
  <2>4. CASE i = N
    BY <1>6, <2>2, <2>4
  <2> QED
    BY <1>1, <2>3, <2>4
<1>9. ASSUME NEW i \in 0 .. N, NEW j \in 0 .. N, i <= j
      PROVE  end[i] <= end[j]
  <2>1. CASE j = N
    BY <1>6, <1>7, <2>1
  <2>2. CASE i = j
    BY <1>7, <2>2
  <2>3. CASE i < j /\ j < N
    <3>1. /\ i + 1 \in 1 .. N /\ j + 1 \in 1 .. N /\ i + 1 < j + 1
          /\ end[i] = starts[i + 1] - 1 /\ end[j] = starts[j + 1] - 1
      BY <1>1, <1>7, <2>3
    <3>2. starts[i + 1] < starts[j + 1] /\ starts[i + 1] \in 1 .. n /\ starts[j + 1] \in 1 .. n
      BY <1>1, <1>4, <3>1
    <3> QED
      BY <3>1, <3>2
  <2> QED
    BY <1>1, <1>9, <2>1, <2>2, <2>3
<1>10. end \in [0 .. N -> 0 .. n]
  BY <1>3, <1>7
<1> QED
  BY <1>6, <1>8, <1>9, <1>10 DEF end, N

(* The chunk at i is there in full if the bytes up to its end are.         *)
LEMMA CompleteChunks ==
  ASSUME NEW n \in Nat, NEW starts, IsCut(starts, n), NEW arrived \in 0 .. n,
         NEW i \in 1 .. Len(starts)
  PROVE  LET end == Ends(starts, n)
             c   == Wire(Body(n), starts, arrived)[i]
         IN  /\ Complete(c) <=> end[i] <= arrived
             /\ Complete(c) =>
                  /\ c.data = SubSeq(Body(n), end[i - 1] + 1, end[i])
                  /\ c.data \in Seq(Nat)
<1> DEFINE body == Body(n)
           end == Ends(starts, n)
           N == Len(starts)
           c == Wire(body, starts, arrived)[i]
           lo == end[i - 1]
           hi == end[i]
<1>1. body \in Seq(Nat) /\ Len(body) = n
  BY BodyIsSequence
<1>2. N \in Nat
  BY LenProperties DEF IsCut
<1>3. /\ end \in [0 .. N -> 0 .. n]
      /\ starts[i] = end[i - 1] + 1 /\ end[i - 1] < end[i]
  BY EndsGrow
<1>4. lo \in 0 .. n /\ hi \in 0 .. n /\ lo < hi /\ starts[i] = lo + 1
  <2>1. i - 1 \in 0 .. N /\ i \in 0 .. N
    BY <1>2
  <2> HIDE DEF end
  <2> QED
    BY <1>3, <2>1
<1>5. end[i] = EndOf(starts, i, n)
  <2>1. i \in 0 .. N /\ i # 0
    BY <1>2
  <2> QED
    BY <2>1 DEF Ends
<1>6. c = Chunk(starts[i] <= arrived, hi + 1 - starts[i],
                SubSeq(body, starts[i], Least(hi, arrived)))
  BY <1>1, <1>5 DEF Wire
<1> HIDE DEF body, end, c, lo, hi
<1> DEFINE there == Least(hi, arrived)
           data == SubSeq(body, lo + 1, there)
<1>7. /\ there \in 0 .. n
      /\ hi <= arrived => there = hi
      /\ ~(hi <= arrived) => there = arrived
  BY <1>4, LeastOfTwo
<1> HIDE DEF there
<1>8. data \in Seq(Nat) /\ Len(data) = IF lo + 1 <= there THEN there - (lo + 1) + 1 ELSE 0
  <2>1. \A j \in lo + 1 .. there : body[j] \in Nat
    <3>1. \A j \in lo + 1 .. there : j \in 1 .. Len(body)
      BY <1>1, <1>4, <1>7
    <3> QED
      BY <1>1, <3>1, ElementOfSeq
  <2>2. lo + 1 \in Int /\ there \in Int
    BY <1>4, <1>7
  <2> QED
    BY <2>1, <2>2, SubSeqProperties
<1>9. c.readable = (lo + 1 <= arrived) /\ c.size = hi + 1 - (lo + 1) /\ c.data = data
  BY <1>4, <1>6 DEF Chunk, there
<1> HIDE DEF data
<1>10. Complete(c) <=> (lo + 1 <= arrived /\ hi + 1 - (lo + 1) > 0 /\ Len(data) = hi + 1 - (lo + 1))
  BY <1>9 DEF Complete
<1>11. CASE hi <= arrived
  <2>1. lo + 1 <= there /\ lo + 1 <= arrived /\ there - (lo + 1) + 1 = hi + 1 - (lo + 1)
    BY <1>4, <1>7, <1>11
  <2>2. Len(data) = hi + 1 - (lo + 1) /\ hi + 1 - (lo + 1) > 0
    BY <1>4, <1>8, <2>1
  <2>3. Complete(c)
    BY <1>10, <2>1, <2>2
  <2>4. c.data = SubSeq(body, lo + 1, hi)
    BY <1>7, <1>9, <1>11 DEF data
  <2> QED
    BY <1>8, <1>9, <1>11, <2>3, <2>4 DEF c, body, end, lo, hi
<1>12. CASE ~(hi <= arrived)
  <2>1. ~Complete(c)
    <3>1. CASE lo + 1 <= arrived
      <4>1. Len(data) = arrived - (lo + 1) + 1
        BY <1>7, <1>8, <1>12, <3>1
      <4>2. arrived - (lo + 1) + 1 # hi + 1 - (lo + 1)
        BY <1>4, <1>12
      <4> QED
        BY <1>10, <4>1, <4>2
    <3>2. CASE ~(lo + 1 <= arrived)
      BY <1>10, <3>2
    <3> QED
      BY <3>1, <3>2
  <2> QED
    BY <1>12, <2>1 DEF c, body, end, hi
<1> QED
  BY <1>11, <1>12

(* The first t pieces of a body are the body up to the end of the last.    *)
LEMMA JoinedChunks ==
  ASSUME NEW n \in Nat, NEW starts, IsCut(starts, n), NEW t \in 0 .. Len(starts),
         NEW wire, \A i \in 1 .. t :
           /\ wire[i].data = SubSeq(Body(n), Ends(starts, n)[i - 1] + 1, Ends(starts, n)[i])
           /\ wire[i].data \in Seq(Nat)
  PROVE  Joined([i \in 1 .. t |-> wire[i].data]) = SubSeq(Body(n), 1, Ends(starts, n)[t])
<1> DEFINE body == Body(n)
           end == Ends(starts, n)
           N == Len(starts)
           pieces == [i \in 1 .. t |-> wire[i].data]
           cut == [i \in 0 .. t |-> end[i]]
<1>1. body \in Seq(Nat) /\ Len(body) = n
  BY BodyIsSequence
<1>2. N \in Nat /\ t \in Nat /\ t <= N
  BY LenProperties DEF IsCut
<1>3. /\ end \in [0 .. N -> 0 .. n] /\ end[0] = 0
      /\ \A i \in 1 .. N : end[i - 1] < end[i]
  BY EndsGrow
<1> HIDE DEF end
<1>4. pieces \in Seq(Seq(Nat)) /\ Len(pieces) = t
  <2>1. pieces \in [1 .. t -> Seq(Nat)]
    OBVIOUS
  <2> HIDE DEF pieces
  <2> QED
    BY <1>2, <2>1, FunctionIsSequence
<1>5. cut \in [0 .. t -> 0 .. Len(body)]
  <2>1. \A i \in 0 .. t : i \in 0 .. N
    BY <1>2
  <2> QED
    BY <1>1, <1>3, <2>1
<1>6. Pieces(body, cut, pieces)
  <2>1. cut[0] = 0
    BY <1>2, <1>3
  <2>2. ASSUME NEW i \in 1 .. t
        PROVE  cut[i - 1] <= cut[i] /\ pieces[i] = SubSeq(body, cut[i - 1] + 1, cut[i])
    <3>1. i - 1 \in 0 .. t /\ i \in 0 .. t /\ i \in 1 .. N /\ i - 1 \in 0 .. N /\ i \in 0 .. N
      BY <1>2
    <3>2. cut[i - 1] = end[i - 1] /\ cut[i] = end[i]
      BY <3>1
    <3>3. end[i - 1] < end[i] /\ end[i - 1] \in 0 .. n /\ end[i] \in 0 .. n
      BY <1>3, <3>1
    <3>4. pieces[i] = SubSeq(body, end[i - 1] + 1, end[i])
      BY DEF end
    <3> HIDE DEF cut, pieces
    <3> QED
      BY <3>2, <3>3, <3>4
  <2> HIDE DEF cut, pieces
  <2> QED
    BY <1>4, <2>1, <2>2 DEF Pieces
<1>7. cut[t] = end[t]
  BY <1>2
<1> HIDE DEF cut, pieces, body
<1>8. Joined(pieces) = SubSeq(body, 1, end[t])
  BY <1>1, <1>4, <1>5, <1>6, <1>7, FlattenPieces
<1> QED
  BY <1>8 DEF pieces, body, end

(* The cuts of a body, in order.                                           *)
LEMMA CutsInOrder ==
  ASSUME NEW n \in Nat \ {0}, NEW cuts \in SUBSET (2 .. n)
  PROVE  LET starts == InOrder({1} \cup cuts)
         IN  /\ IsCut(starts, n)
             /\ \A i \in 2 .. Len(starts) : starts[i] \in cuts
             /\ \A x \in cuts : \E i \in 2 .. Len(starts) : starts[i] = x
<1> DEFINE S == {1} \cup cuts
           starts == InOrder(S)
           N == Cardinality(S)
<1>1. S \subseteq 1 .. n /\ 1 \in S /\ S \subseteq Nat
  OBVIOUS
<1>2. cuts = S \ {1}
  OBVIOUS
<1>3. IsFiniteSet(S)
  <2>1. 1 \in Int /\ n \in Int
    OBVIOUS
  <2> QED
    BY <1>1, <2>1, FS_Interval, FS_Subset
<1> HIDE DEF S
<1>4. /\ N \in Nat
      /\ starts \in [1 .. N -> S]
      /\ \A i, j \in 1 .. N : i < j => starts[i] < starts[j]
      /\ \A x \in S : \E i \in 1 .. N : starts[i] = x
  BY <1>1, <1>3, InOrderIsSorted
<1> HIDE DEF starts, N
<1>5. starts \in Seq(1 .. n) /\ Len(starts) = N
  <2>1. starts \in [1 .. N -> 1 .. n]
    BY <1>1, <1>4
  <2> QED
    BY <1>4, <2>1, FunctionIsSequence
<1>6. PICK one \in 1 .. N : starts[one] = 1
  BY <1>1, <1>4
<1>7. N # 0 /\ starts[1] = 1
  <2>1. 1 \in 1 .. N
    BY <1>4, <1>6
  <2>2. starts[1] \in 1 .. n
    BY <1>1, <1>4, <2>1
  <2>3. ~(1 < one)
    BY <1>4, <1>6, <2>1, <2>2
  <2> QED
    BY <1>6, <2>1, <2>3
<1>8. IsCut(starts, n)
  BY <1>4, <1>5, <1>7 DEF IsCut
<1>9. ASSUME NEW i \in 2 .. N
      PROVE  starts[i] \in cuts
  <2>1. i \in 1 .. N /\ 1 \in 1 .. N /\ 1 < i
    BY <1>4
  <2>2. starts[1] < starts[i] /\ starts[i] \in S
    BY <1>4, <2>1
  <2> QED
    BY <1>2, <1>7, <2>2
<1>10. ASSUME NEW x \in cuts
       PROVE  \E i \in 2 .. N : starts[i] = x
  <2>1. PICK i \in 1 .. N : starts[i] = x
    BY <1>2, <1>4
  <2>2. i # 1
    BY <1>2, <1>7, <2>1
  <2>3. i \in 2 .. N
    BY <1>4, <2>2
  <2> QED
    BY <2>1, <2>3
<1> QED
  BY <1>5, <1>8, <1>9, <1>10 DEF S, starts

(* What is decoded of any wire whose first t chunks, and no more, are      *)
(* complete pieces of a body.                                              *)
LEMMA DecodedChunks ==
  ASSUME NEW n \in Nat, NEW starts, IsCut(starts, n), NEW t \in 0 .. Len(starts),
         NEW wire, Taken(wire) = 1 .. t,
         \A i \in 1 .. t :
           /\ wire[i].data = SubSeq(Body(n), Ends(starts, n)[i - 1] + 1, Ends(starts, n)[i])
           /\ wire[i].data \in Seq(Nat)
  PROVE  DecodeChunked(wire) = SubSeq(Body(n), 1, Ends(starts, n)[t])
<1>1. t \in Nat
  BY LenProperties DEF IsCut
<1>2. Cardinality(1 .. t) = t
  <2>1. 1 \in Int /\ t \in Int
    BY <1>1
  <2>2. Cardinality(1 .. t) = IF 1 > t THEN 0 ELSE t - 1 + 1
    BY <2>1, FS_Interval, Zenon
  <2> QED
    BY <1>1, <2>2
<1>3. DecodeChunked(wire) = Joined([i \in 1 .. t |-> wire[i].data])
  BY <1>2 DEF DecodeChunked
<1> QED
  BY <1>3, JoinedChunks

(* Of the chunks that have been sent those are taken that have arrived.    *)
LEMMA TakenOfWire ==
  ASSUME NEW n \in Nat, NEW starts, IsCut(starts, n), NEW arrived \in 0 .. n
  PROVE  \E t \in 0 .. Len(starts) :
           /\ Taken(Wire(Body(n), starts, arrived)) = 1 .. t
           /\ \A i \in 1 .. Len(starts) : i <= t <=> Ends(starts, n)[i] <= arrived
<1> DEFINE end == Ends(starts, n)
           N == Len(starts)
           wire == Wire(Body(n), starts, arrived)
           T == {i \in 1 .. N : end[i] <= arrived}
           t == Cardinality(T)
<1>1. N \in Nat
  BY LenProperties DEF IsCut
<1>2. /\ end \in [0 .. N -> 0 .. n]
      /\ \A i, j \in 0 .. N : i <= j => end[i] <= end[j]
  BY EndsGrow
<1>3. \A i \in 1 .. N : Complete(wire[i]) <=> end[i] <= arrived
  BY CompleteChunks
<1>4. DOMAIN wire = 1 .. N
  BY DEF Wire
<1> HIDE DEF end, wire, N
<1>5. ASSUME NEW i \in T, NEW j \in 1 .. i
      PROVE  j \in T
  <2>1. i \in 1 .. N /\ j \in 1 .. N /\ i \in 0 .. N /\ j \in 0 .. N /\ j <= i
    BY <1>1
  <2>2. end[j] <= end[i] /\ end[i] <= arrived /\ end[i] \in 0 .. n /\ end[j] \in 0 .. n
    BY <1>2, <2>1
  <2> QED
    BY <2>1, <2>2
<1>6. Taken(wire) = T
  <2>1. Taken(wire) = {i \in 1 .. N : \A j \in 1 .. i : Complete(wire[j])}
    BY <1>4 DEF Taken
  <2>2. ASSUME NEW i \in 1 .. N
        PROVE  (\A j \in 1 .. i : Complete(wire[j])) <=> end[i] <= arrived
    <3>1. i \in 1 .. i /\ \A j \in 1 .. i : j \in 1 .. N
      BY <1>1
    <3>2. ASSUME end[i] <= arrived, NEW j \in 1 .. i
          PROVE  Complete(wire[j])
      <4>1. i \in T
        BY <3>2
      <4>2. j \in T
        BY <1>5, <4>1
      <4> QED
        BY <1>3, <4>2
    <3> HIDE DEF T
    <3> QED
      BY <1>3, <3>1, <3>2
  <2> QED
    BY <2>1, <2>2
<1> HIDE DEF T
<1>7. t \in 0 .. N /\ T = 1 .. t
  <2>1. T \in SUBSET (1 .. N)
    BY DEF T
  <2> QED
    BY <1>1, <1>5, <2>1, Prefix
<1> HIDE DEF t
<1>8. ASSUME NEW i \in 1 .. N
      PROVE  i <= t <=> end[i] <= arrived
  <2>1. i \in T <=> end[i] <= arrived
    BY DEF T
  <2>2. i \in 1 .. t <=> i <= t
    BY <1>1, <1>7
  <2> QED
    BY <1>7, <2>1, <2>2
<1> QED
  BY <1>6, <1>7, <1>8 DEF end, wire, N

LEMMA ChunksDecodeToBody ==
  ASSUME NEW n \in Nat \ {0}
  PROVE  ChunksDecode(n)
<1> SUFFICES ASSUME NEW cuts \in SUBSET (2 .. n), NEW arrived \in 0 .. n
             PROVE  LET wire  == Wire(Body(n), InOrder({1} \cup cuts), arrived)
                        whole == {p \in (cuts \cup {n + 1}) : p - 1 <= arrived}
                    IN  /\ DecodeChunked(wire) =
                             IF whole = {} THEN <<>> ELSE SubSeq(Body(n), 1, Max(whole) - 1)
                        /\ arrived = n =>
                             DecodeChunked(Append(wire, Chunk(TRUE, 0, <<>>))) = Body(n)
  BY DEF ChunksDecode
<1> DEFINE body == Body(n)
           starts == InOrder({1} \cup cuts)
           end == Ends(starts, n)
           N == Len(starts)
           wire == Wire(body, starts, arrived)
           whole == {p \in (cuts \cup {n + 1}) : p - 1 <= arrived}
<1>1. /\ IsCut(starts, n)
      /\ \A i \in 2 .. N : starts[i] \in cuts
      /\ \A x \in cuts : \E i \in 2 .. N : starts[i] = x
  BY CutsInOrder
<1> HIDE DEF starts
<1>2. N \in Nat \ {0}
  BY <1>1, LenProperties DEF IsCut
<1>3. /\ end \in [0 .. N -> 0 .. n] /\ end[0] = 0 /\ end[N] = n
      /\ \A i \in 1 .. N : starts[i] = end[i - 1] + 1 /\ end[i - 1] < end[i]
      /\ \A i, j \in 0 .. N : i <= j => end[i] <= end[j]
  BY <1>1, EndsGrow
<1>4. \A i \in 1 .. N :
        /\ Complete(wire[i]) <=> end[i] <= arrived
        /\ Complete(wire[i]) =>
             /\ wire[i].data = SubSeq(body, end[i - 1] + 1, end[i])
             /\ wire[i].data \in Seq(Nat)
  BY <1>1, CompleteChunks
<1>5. PICK t \in 0 .. N :
        /\ Taken(wire) = 1 .. t
        /\ \A i \in 1 .. N : i <= t <=> end[i] <= arrived
  BY <1>1, TakenOfWire
<1>6. t \in Nat /\ t <= N
  BY <1>2
<1>7. body \in Seq(Nat) /\ Len(body) = n /\ SubSeq(body, 1, n) = body
  BY BodyIsSequence, SubSeqFull
<1>8. DecodeChunked(wire) = SubSeq(body, 1, end[t])
  <2>1. ASSUME NEW i \in 1 .. t
        PROVE  /\ wire[i].data = SubSeq(body, end[i - 1] + 1, end[i])
               /\ wire[i].data \in Seq(Nat)
    <3>1. i \in 1 .. N /\ i <= t
      BY <1>2, <1>6
    <3> QED
      BY <1>4, <1>5, <3>1
  <2> QED
    BY <1>1, <1>5, <2>1, DecodedChunks
(* The chunks that are whole end where the first t end.                    *)
<1>9. \A p : p \in cuts \cup {n + 1} <=> \E i \in 1 .. N : p = end[i] + 1
  <2>1. ASSUME NEW i \in 1 .. N
        PROVE  end[i] + 1 \in cuts \cup {n + 1}
    <3>1. CASE i = N
      BY <1>3, <3>1
    <3>2. CASE i # N
      <4>1. i + 1 \in 2 .. N /\ i + 1 \in 1 .. N /\ (i + 1) - 1 = i
        BY <1>2, <3>2
      <4> HIDE DEF end
      <4>2. starts[i + 1] \in cuts
        BY <1>1, <4>1
      <4>3. starts[i + 1] = end[(i + 1) - 1] + 1
        BY <1>3, <4>1
      <4> QED
        BY <4>1, <4>2, <4>3
    <3> QED
      BY <3>1, <3>2
  <2>2. ASSUME NEW x \in cuts
        PROVE  \E i \in 1 .. N : x = end[i] + 1
    <3>1. PICK j \in 2 .. N : starts[j] = x
      BY <1>1
    <3>2. j \in 1 .. N /\ j - 1 \in 1 .. N
      BY <1>2
    <3>3. x = end[j - 1] + 1
      BY <1>3, <3>1, <3>2
    <3> QED
      BY <3>2, <3>3
  <2>3. N \in 1 .. N /\ n + 1 = end[N] + 1
    BY <1>2, <1>3
  <2> HIDE DEF end, N
  <2> QED
    BY <2>1, <2>2, <2>3
<1>10. \A i \in 1 .. N : end[i] + 1 \in whole <=> i <= t
  <2>1. ASSUME NEW i \in 1 .. N
        PROVE  end[i] + 1 \in whole <=> i <= t
    <3>1. end[i] \in 0 .. n
      <4>1. i \in 0 .. N
        BY <1>2
      <4> HIDE DEF end, N
      <4> QED
        BY <1>3, <4>1
    <3>2. (end[i] + 1) - 1 = end[i]
      BY <3>1
    <3>3. end[i] + 1 \in cuts \cup {n + 1}
      BY <1>9
    <3> HIDE DEF end, N
    <3> QED
      BY <1>5, <3>2, <3>3
  <2> QED
    BY <2>1
<1>11. \A p \in whole : \E i \in 1 .. N : p = end[i] + 1 /\ i <= t
  <2>1. ASSUME NEW p \in whole
        PROVE  \E i \in 1 .. N : p = end[i] + 1 /\ i <= t
    <3>1. PICK i \in 1 .. N : p = end[i] + 1
      BY <1>9
    <3>2. i <= t
      BY <1>10, <3>1
    <3> QED
      BY <3>1, <3>2
  <2> QED
    BY <2>1
<1> HIDE DEF end, N, whole, wire, body
<1>12. DecodeChunked(wire) = IF whole = {} THEN <<>> ELSE SubSeq(body, 1, Max(whole) - 1)
  <2>1. CASE t = 0
    <3>1. whole = {}
      BY <1>11, <2>1
    <3>2. DecodeChunked(wire) = SubSeq(body, 1, 0)
      BY <1>3, <1>8, <2>1
    <3>3. SubSeq(body, 1, 0) = <<>>
      BY SubSeqEmpty
    <3> QED
      BY <3>1, <3>2, <3>3
  <2>2. CASE t # 0
    <3>1. t \in 1 .. N /\ t <= t
      BY <1>6, <2>2
    <3>2. end[t] + 1 \in whole /\ end[t] \in 0 .. n
      <4>1. t \in 0 .. N
        OBVIOUS
      <4> QED
        BY <1>3, <1>10, <3>1, <4>1
    <3>3. ASSUME NEW p \in whole
          PROVE  p \in Int /\ end[t] + 1 >= p
      <4>1. PICK i \in 1 .. N : p = end[i] + 1 /\ i <= t
        BY <1>11
      <4>2. i \in 0 .. N /\ t \in 0 .. N
        BY <1>2
      <4>3. end[i] <= end[t] /\ end[i] \in 0 .. n
        BY <1>3, <4>1, <4>2
      <4> QED
        BY <3>2, <4>1, <4>3
    <3>4. Max(whole) = end[t] + 1
      <4> DEFINE best == CHOOSE x \in whole : \A y \in whole : x >= y
      <4>1. best \in whole /\ \A y \in whole : best >= y
        BY <3>2, <3>3
      <4>2. best >= end[t] + 1 /\ end[t] + 1 >= best /\ best \in Int
        BY <3>2, <3>3, <4>1
      <4>3. Max(whole) = best
        BY DEF Max
      <4> HIDE DEF best
      <4> QED
        BY <3>2, <4>2, <4>3
    <3>5. Max(whole) - 1 = end[t]
      BY <3>2, <3>4
    <3> QED
      BY <1>8, <3>2, <3>5
  <2> QED
    BY <2>1, <2>2
<1>13. ASSUME arrived = n
       PROVE  DecodeChunked(Append(wire, Chunk(TRUE, 0, <<>>))) = body
  <2> DEFINE last == Chunk(TRUE, 0, <<>>)
             all == Append(wire, last)
  <2>1. DOMAIN all = 1 .. N + 1 /\ all[N + 1] = last /\ \A i \in 1 .. N : all[i] = wire[i]
    <3>1. wire = [i \in 1 .. N |-> wire[i]]
      BY DEF wire, Wire, N
    <3>2. wire \in Seq({wire[i] : i \in 1 .. N}) /\ Len(wire) = N
      <4>1. wire \in [1 .. N -> {wire[i] : i \in 1 .. N}]
        BY <3>1
      <4> QED
        BY <1>2, <4>1, FunctionIsSequence
    <3> HIDE DEF last
    <3> QED
      BY <1>2, <3>2, AppendProperties
  <2>2. ~Complete(last)
    BY DEF Complete, Chunk
  <2> HIDE DEF all, last
  <2>3. \A i \in 1 .. N : Complete(all[i])
    <3>1. ASSUME NEW i \in 1 .. N
          PROVE  end[i] <= n
      <4>1. i \in 0 .. N
        BY <1>2
      <4> QED
        BY <1>3, <4>1
    <3> QED
      BY <1>4, <1>13, <2>1, <3>1
  <2>4. Taken(all) = 1 .. N
    <3>1. Taken(all) = {i \in 1 .. N + 1 : \A j \in 1 .. i : Complete(all[j])}
      BY <2>1 DEF Taken
    <3>2. ASSUME NEW i \in 1 .. N + 1
          PROVE  (\A j \in 1 .. i : Complete(all[j])) <=> i \in 1 .. N
      <4>1. CASE i = N + 1
        <5>1. i \in 1 .. i /\ i \notin 1 .. N
          BY <1>2, <4>1
        <5> QED
          BY <2>1, <2>2, <4>1, <5>1
      <4>2. CASE i # N + 1
        <5>1. i \in 1 .. N /\ \A j \in 1 .. i : j \in 1 .. N
          BY <1>2, <4>2
        <5> QED
          BY <2>3, <5>1
      <4> QED
        BY <4>1, <4>2
    <3>3. \A i \in 1 .. N : i \in 1 .. N + 1
      BY <1>2
    <3> QED
      BY <3>1, <3>2, <3>3
  <2>5. \A i \in 1 .. N :
          /\ all[i].data = SubSeq(Body(n), end[i - 1] + 1, end[i])
          /\ all[i].data \in Seq(Nat)
    BY <1>4, <2>1, <2>3 DEF body
  <2>6. N \in 0 .. N
    BY <1>2
  <2>7. DecodeChunked(all) = SubSeq(Body(n), 1, end[N])
    BY <1>1, <2>4, <2>5, <2>6, DecodedChunks DEF end, N
  <2> QED
    BY <1>3, <1>7, <2>7 DEF body, all, last
<1> QED
  BY <1>12, <1>13 DEF wire, whole, starts, body

-----------------------------------------------------------------------------
(* The quorum of the data path and the code *)

(* A step that does not send the chunks of a write leaves its layout alone.*)
KeepsLayout(p) ==
  /\ pc'[p] \in Sent => pc[p] \in Sent
  /\ meta'[p].placed = meta[p].placed /\ meta'[p].need = meta[p].need

LEMMA StartFanoutLaysOut ==
  ASSUME TypeOK, NEW q \in Puts, NEW k, StartFanout(q, k), NEW p \in Puts
  PROVE  KeepsLayout(p) \/ <<meta'[p].placed, meta'[p].need>> \in Placements
<1>1. CASE p # q
  BY <1>1, RequestSets DEF TypeOK, StartFanout, KeepsLayout
<1>2. CASE p = q /\ pc' = [pc EXCEPT ![q] = "failed"] /\ UNCHANGED <<meta, task>>
  BY <1>2, RequestSets DEF TypeOK, KeepsLayout, Sent
<1>3. ASSUME p = q, NEW pl \in Placements,
             meta' = [meta EXCEPT ![q] =
               [key |-> k, placed |-> pl[1], need |-> pl[2], confirmed |-> {}]]
      PROVE  <<meta'[p].placed, meta'[p].need>> \in Placements
  <2>1. pl = <<pl[1], pl[2]>>
    BY DEF Placements
  <2>2. meta'[p] = [key |-> k, placed |-> pl[1], need |-> pl[2], confirmed |-> {}]
    BY <1>3 DEF TypeOK
  <2> QED
    BY <2>1, <2>2
<1> QED
  BY <1>1, <1>2, <1>3 DEF StartFanout

LEMMA LayoutMoves ==
  ASSUME TypeOK, [Next]_vars, NEW p \in Puts
  PROVE  KeepsLayout(p) \/ <<meta'[p].placed, meta'[p].need>> \in Placements
<1> USE DEF metaVars, siteVars, putVars, readVars, delVars, reaperVars
<1>0. /\ meta \in [Puts -> Metas] /\ pc \in [Requests -> Phases] /\ p \in Requests
      /\ \A q \in Copies : q \in Puts /\ q \in Requests
      /\ \A r \in Gets \cup Dels : r \in Requests /\ r # p
      /\ \A r \in Readers : r \in Requests
  BY RequestsAssumption DEF TypeOK, Requests, Readers
<1>1. CASE \E q \in Puts, k \in Keys : PutBegin(q, k)
  BY <1>1, StartFanoutLaysOut DEF PutBegin
<1>2. CASE \E q \in Puts : CopyFetched(q)
  BY <1>2, StartFanoutLaysOut DEF CopyFetched
<1>3. ASSUME NEW q \in Puts, NEW src \in Keys, NEW dst \in Keys, CopyBegin(q, src, dst)
      PROVE  KeepsLayout(p)
  <2>1. meta'[p].placed = meta[p].placed /\ meta'[p].need = meta[p].need
    BY <1>0, <1>3 DEF CopyBegin, Metas
  <2>2. pc' = [pc EXCEPT ![q] = "failed"] \/ pc' = [pc EXCEPT ![q] = "fetch"]
    BY <1>3 DEF CopyBegin, OpenObject
  <2> QED
    BY <1>0, <2>1, <2>2 DEF KeepsLayout, Sent
<1>4. ASSUME NEW q \in Puts, FanoutOk(q)
      PROVE  KeepsLayout(p)
  <2>1. meta'[p].placed = meta[p].placed /\ meta'[p].need = meta[p].need
    BY <1>0, <1>4 DEF FanoutOk, Metas
  <2> QED
    BY <1>0, <1>4, <2>1 DEF FanoutOk, KeepsLayout, Sent
<1>5. ASSUME UNCHANGED meta,
             \/ UNCHANGED pc
             \/ \E r \in Gets \cup Dels, ph \in Phases : pc' = [pc EXCEPT ![r] = ph]
             \/ \E r \in Requests, ph \in Phases \ Sent : pc' = [pc EXCEPT ![r] = ph]
             \/ \E q \in Puts : pc[q] = "commit" /\ pc' = [pc EXCEPT ![q] = "done"]
             \/ pc' = [r \in Requests |->
                  IF pc[r] \in {"new", "done", "failed"} THEN pc[r] ELSE "lost"]
      PROVE  KeepsLayout(p)
  <2>1. pc'[p] \in Sent => pc[p] \in Sent
    <3>1. CASE \E r \in Gets \cup Dels, ph \in Phases : pc' = [pc EXCEPT ![r] = ph]
      <4>1. PICK r \in Gets \cup Dels, ph \in Phases : pc' = [pc EXCEPT ![r] = ph]
        BY <3>1
      <4>2. r \in Requests /\ r # p
        BY RequestsAssumption DEF Requests
      <4> QED
        BY <1>0, <4>1, <4>2
    <3>2. CASE \E r \in Requests, ph \in Phases \ Sent : pc' = [pc EXCEPT ![r] = ph]
      <4>1. PICK r \in Requests, ph \in Phases \ Sent : pc' = [pc EXCEPT ![r] = ph]
        BY <3>2
      <4> QED
        BY <1>0, <4>1
    <3>3. CASE \E q \in Puts : pc[q] = "commit" /\ pc' = [pc EXCEPT ![q] = "done"]
      BY <1>0, <3>3 DEF Sent
    <3>4. CASE pc' = [r \in Requests |->
                 IF pc[r] \in {"new", "done", "failed"} THEN pc[r] ELSE "lost"]
      BY <1>0, <3>4 DEF Sent
    <3> QED
      BY <1>5, <3>1, <3>2, <3>3, <3>4
  <2> QED
    BY <1>5, <2>1 DEF KeepsLayout
<1>6. CASE \E q \in Puts : FanoutFails(q) \/ CommitMeta(q) \/ PutStoreFails(q)
  BY <1>0, <1>5, <1>6 DEF FanoutFails, CommitMeta, PutStoreFails, Phases, Sent
<1>7. CASE \E r \in Gets, k \in Keys : GetBegin(r, k)
  BY <1>0, <1>5, <1>7 DEF GetBegin, OpenObject, Phases
<1>8. CASE \E r \in Readers, s \in Sites : SiteAnswers(r, s) \/ SiteFailsRead(r, s)
  BY <1>5, <1>8 DEF SiteAnswers, SiteFailsRead
<1>9. CASE \E r \in Readers : GetOk(r) \/ FetchFails(r)
  BY <1>0, <1>5, <1>9 DEF GetOk, FetchFails, Phases, Sent
<1>10. CASE \E d \in Dels :
         DelStep(d) \/ DelStoreFails(d) \/ \E times \in [Keys -> 0 .. MaxTimes] : DelBegin(d, times)
  BY <1>0, <1>5, <1>10
     DEF DelStep, DelWrite, DelNotify, DelRead, DelStoreFails, DelBegin, Phases
<1>11. CASE \E q \in Puts, s \in Sites : SiteStores(q, s) \/ UploadFails(q, s)
  BY <1>5, <1>11 DEF SiteStores, UploadFails
<1>12. CASE ReaperStep \/ ReaperStoreFails
  BY <1>5, <1>12 DEF ReaperStep, Wake, ListPurge, SweepOver, BatchOver, WriteEntry,
                     ReaperStoreFails
<1>13. CASE \E s \in Sites : SiteSweeps(s) \/ SweepFails(s) \/ SiteKeepsKeys(s)
  BY <1>5, <1>13 DEF SiteSweeps, SweepFails, SiteKeepsKeys
<1>14. CASE \E r \in Puts \cup Gets : HangUp(r)
  <2>1. PICK r \in Puts \cup Gets : HangUp(r)
    BY <1>14
  <2>2. r \in Requests /\ "lost" \in Phases \ Sent
    BY RequestSets DEF Phases, Sent
  <2> QED
    BY <1>5, <2>1, <2>2 DEF HangUp
<1>15. CASE Crash
  BY <1>5, <1>15 DEF Crash
<1>16. CASE Finished \/ UNCHANGED vars
  BY <1>5, <1>16 DEF Finished, vars
<1> HIDE DEF metaVars, siteVars, putVars, readVars, delVars, reaperVars
<1> QED
  BY <1>1, <1>2, <1>3, <1>4, <1>6, <1>7, <1>8, <1>9, <1>10, <1>11, <1>12, <1>13, <1>14,
     <1>15, <1>16 DEF Next, PutStep

LEMMA CodedStep == CodedInv /\ [Next]_vars => CodedInv'
<1> SUFFICES ASSUME CodedInv, [Next]_vars
             PROVE  CodedInv'
  OBVIOUS
<1>1. ReadInv'
  BY ReadStep DEF CodedInv
<1>2. TypeOK
  BY DEF CodedInv, ReadInv, QueueInv, CommitInv
<1>3. LaidOutAsCoded'
  <2> SUFFICES ASSUME NEW p \in Puts, pc'[p] \in Sent
               PROVE  <<meta'[p].placed, meta'[p].need>> \in Placements
    BY DEF LaidOutAsCoded, Placements, Sent
  <2>1. CASE KeepsLayout(p)
    BY <2>1 DEF KeepsLayout, CodedInv, LaidOutAsCoded
  <2> QED
    BY <1>2, <2>1, LayoutMoves
<1> QED
  BY <1>1, <1>3 DEF CodedInv

LEMMA CodedInit == Init => CodedInv
<1> SUFFICES ASSUME Init
             PROVE  CodedInv
  OBVIOUS
<1>1. \A p \in Puts : pc[p] = "new"
  BY RequestSets DEF Init
<1>2. LaidOutAsCoded
  BY <1>1 DEF LaidOutAsCoded, Sent
<1> QED
  BY <1>2, ReadInit DEF CodedInv

LEMMA CodedAlways == Spec => []CodedInv
  BY CodedInit, CodedStep, PTL DEF Spec

(* Enough chunks for the quorum of an erasure coded version are enough for *)
(* its code.                                                               *)
LEMMA EnoughDecode ==
  ASSUME NEW c \in Nat, DataChunks <= c, ParityChunks # 0
  PROVE  Decodable(c)
<1> SUFFICES ASSUME NEW kept \in kSubset(c, 0 .. DataChunks + ParityChunks - 1),
                    NEW n \in 1 .. MaxBody
             PROVE  Decode(Lost(Encode(Body(n), DataChunks, ParityChunks), kept),
                           DataChunks, ParityChunks, n) = Body(n)
  BY DEF Decodable
<1>1. /\ kept \in SUBSET (0 .. DataChunks + ParityChunks - 1)
      /\ DataChunks <= Cardinality(kept)
  BY DEF kSubset
<1>2. n \in Nat /\ n # 0
  BY SizesAssumption
<1>3. Body(n) \in Seq(Nat) /\ Len(Body(n)) = n /\ Body(n) # <<>>
  BY <1>2, BodyIsSequence, EmptySeq
<1>4. DataChunks \in Nat \ {0} /\ ParityChunks \in Nat \ {0}
  BY CodeAssumption
<1> DEFINE body == Body(n)
<1> HIDE DEF body
<1>5. Decode(Lost(Encode(body, DataChunks, ParityChunks), kept),
             DataChunks, ParityChunks, Len(body)) = body
  BY <1>1, <1>3, <1>4, DecodesToBody DEF body
<1> QED
  BY <1>3, <1>5 DEF body

(* A fetch that goes on decodes what it has to the object.                 *)
THEOREM ReadsDecodeCorrect == Spec => []ReadsDecode
<1>1. ASSUME CodedInv, NEW r \in Readers, from[r] # None, Enough(r)
      PROVE  Replicated(from[r]) \/ Cardinality(Found(r)) \in DecodableCounts
  <2> DEFINE v == from[r]
             c == Cardinality(Found(r))
  <2>1. v \in Puts /\ pc[v] = "done" /\ meta[v] \in Metas
    BY <1>1 DEF CodedInv, ReadInv, QueueInv, CommitInv, TypeOK, ReadsAreTruthful, Truthful
  <2>2. <<meta[v].placed, meta[v].need>> \in Placements
    BY <1>1, <2>1 DEF CodedInv, LaidOutAsCoded, Sent
  <2>3. c \in Nat /\ c \in Counts
    <3>1. Found(r) \in SUBSET Sites /\ Sites \in SUBSET Sites
      BY DEF Found
    <3>2. c \in Nat /\ Cardinality(Sites) \in Nat /\ c <= Cardinality(Sites)
      BY <3>1, FiniteSites, FS_Subset
    <3> QED
      BY <3>2 DEF Counts
  <2>4. CASE "Replica" \in Modes /\ meta[v].placed = Sites
    BY <2>4 DEF Replicated
  <2>5. CASE ParityChunks # 0 /\ meta[v].need = DataChunks
    <3>1. DataChunks <= c
      BY <1>1, <2>3, <2>5, CodeAssumption DEF Enough
    <3> HIDE DEF c
    <3> QED
      BY <2>3, <2>5, <3>1, EnoughDecode DEF DecodableCounts, c
  <2> QED
    BY <2>2, <2>4, <2>5 DEF Placements
<1>2. CodedInv => ReadsDecode
  BY <1>1 DEF ReadsDecode
<1> QED
  BY <1>2, CodedAlways, PTL

(* Any number of chunks is enough for the codes that need no more.         *)
LEMMA BlocksAlwaysDecode ==
  ASSUME NEW c \in Nat
  PROVE  BlocksDecodable(c)
<1> SUFFICES ASSUME NEW n \in 0 .. MaxBody, NEW size \in 0 .. MaxBlock,
                    NEW k \in 0 .. c, NEW m \in 0 .. MaxParity
             PROVE  LET coded == EncodeBlocks(Body(n), size, k, m)
                    IN  IF n = 0 \/ size = 0 \/ k = 0 \/ m = 0 THEN coded = Failed
                        ELSE \A kept \in kSubset(c, 0 .. k + m - 1) :
                               DecodeBlocks(coded, [b \in DOMAIN coded |-> kept],
                                            BlockLengths(n, size), k, m) = Body(n)
  BY DEF BlocksDecodable
<1>1. n \in Nat /\ size \in Nat /\ k \in Nat /\ m \in Nat /\ k <= c
  BY SizesAssumption
<1>2. CASE n = 0 \/ size = 0 \/ k = 0 \/ m = 0
  <2>1. n = 0 => Body(n) = <<>>
    BY BodyIsSequence, EmptySeq
  <2> QED
    BY <1>2, <2>1 DEF EncodeBlocks
<1>3. ASSUME ~(n = 0 \/ size = 0 \/ k = 0 \/ m = 0), NEW kept \in kSubset(c, 0 .. k + m - 1)
      PROVE  LET coded == EncodeBlocks(Body(n), size, k, m)
             IN  DecodeBlocks(coded, [b \in DOMAIN coded |-> kept],
                              BlockLengths(n, size), k, m) = Body(n)
  <2>1. kept \in SUBSET (0 .. k + m - 1) /\ k <= Cardinality(kept)
    BY <1>1 DEF kSubset
  <2>2. n \in Nat \ {0} /\ size \in Nat \ {0} /\ k \in Nat \ {0} /\ m \in Nat \ {0}
    BY <1>1, <1>3
  <2> QED
    BY <2>1, <2>2, BlocksDecodeToBody
<1> QED
  BY <1>2, <1>3

(* So does a fetch of an object that was coded in blocks.                  *)
THEOREM BlocksDecodeCorrect == Spec => []BlocksDecode
<1>1. ASSUME NEW r \in Readers
      PROVE  Cardinality(Found(r)) \in BlockCounts
  <2>1. Found(r) \in SUBSET Sites /\ Sites \in SUBSET Sites
    BY DEF Found
  <2>2. /\ Cardinality(Found(r)) \in Nat /\ Cardinality(Sites) \in Nat
        /\ Cardinality(Found(r)) <= Cardinality(Sites)
    BY <2>1, FiniteSites, FS_Subset, SitesAssumption
  <2>3. BlocksDecodable(Cardinality(Found(r)))
    BY <2>2, BlocksAlwaysDecode
  <2> QED
    BY <2>2, <2>3 DEF BlockCounts, Counts
<1>2. BlocksDecode
  BY <1>1 DEF BlocksDecode
<1> QED
  BY <1>2, PTL

(* A PUT goes on with the payload its client sent.                         *)
THEOREM ChunkedDecodesCorrect == Spec => []ChunkedDecodes
<1>1. 1 .. MaxBody \subseteq ChunkedLengths
  <2>1. \A n \in 1 .. MaxBody : n \in Nat \ {0}
    BY SizesAssumption
  <2> QED
    BY <2>1, ChunksDecodeToBody DEF ChunkedLengths
<1>2. ChunkedDecodes
  BY <1>1 DEF ChunkedDecodes
<1> QED
  BY <1>2, PTL
=============================================================================
