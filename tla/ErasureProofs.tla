--------------------------- MODULE ErasureProofs ---------------------------
(***************************************************************************)
(* What is restored is what was put, for every blob, every pair of         *)
(* parameters, any damage and any number of repairs.                       *)
(***************************************************************************)
EXTENDS Erasure, FiniteSetTheorems, SequenceTheorems, TLAPS

-----------------------------------------------------------------------------
(* Arithmetic of the shard size.                                           *)

LEMMA DivMod ==
    ASSUME NEW a \in Nat, NEW s \in Nat, s >= 1
    PROVE  /\ a \div s \in Nat /\ a % s \in Nat
           /\ a = (a \div s) * s + (a % s) /\ a % s < s
<1>1. a \div s \in Nat
  OBVIOUS
<1>2. a % s \in 0..(s - 1)
  OBVIOUS
<1>3. a = (a \div s) * s + (a % s)
  OBVIOUS
<1>. QED  BY <1>1, <1>2, <1>3

\* k shards of ShardSize hold the data, with less than a byte of padding each.
LEMMA SizeHolds ==
    ASSUME NEW len \in Nat, NEW k \in Nat, k >= 1
    PROVE  /\ ShardSize(len, k) \in Nat /\ ShardSize(len, k) >= 1
           /\ k * ShardSize(len, k) >= len
           /\ k * ShardSize(len, k) < len + k \/ ShardSize(len, k) = 1
<1>. DEFINE a == len + k - 1
            q == a \div k
<1>1. a \in Nat
  OBVIOUS
<1>2. q \in Nat /\ a % k \in Nat /\ a = q * k + (a % k) /\ a % k < k
  BY <1>1, DivMod
<1>3. q * k >= len /\ q * k < len + k
  <2>. HIDE DEF q
  <2>1. q * k \in Nat
    BY <1>2
  <2>. QED  BY <1>2, <2>1
<1>4. ShardSize(len, k) = IF q < 1 THEN 1 ELSE q
  BY DEF ShardSize, Larger
<1>. HIDE DEF q
<1>5. q * k = k * q
  BY <1>2
<1>6. CASE q = 0
  BY <1>3, <1>4, <1>6
<1>7. CASE q >= 1
  BY <1>2, <1>3, <1>4, <1>5, <1>7
<1>. QED  BY <1>2, <1>6, <1>7

\* Byte x of k shards of size s is byte (x-1) % s + 1 of shard (x-1) \div s + 1.
LEMMA BytePlace ==
    ASSUME NEW k \in Nat, NEW s \in Nat, s >= 1, NEW x \in 1..(k * s)
    PROVE  \E i \in 1..k, j \in 1..s :
                /\ i = ((x - 1) \div s) + 1 /\ j = ((x - 1) % s) + 1
                /\ (i - 1) * s + j = x
<1>. DEFINE a == x - 1
            q == a \div s
            m == a % s
<1>1. a \in Nat /\ k * s \in Nat /\ a < k * s
  OBVIOUS
<1>2. q \in Nat /\ m \in Nat /\ a = q * s + m /\ m < s
  BY <1>1, DivMod
<1>. HIDE DEF q, m
<1>3. q < k
  <2>. SUFFICES ASSUME q >= k PROVE FALSE
    BY <1>2
  <2>1. PICK d \in Nat : q = k + d
    BY <1>2
  <2>2. q * s = k * s + d * s /\ d * s \in Nat
    BY <2>1
  <2>. QED  BY <1>1, <1>2, <2>2
<1>4. q + 1 \in 1..k /\ m + 1 \in 1..s /\ (q + 1 - 1) * s + (m + 1) = x
  BY <1>2, <1>3
<1>5. q = (x - 1) \div s /\ m = (x - 1) % s
  BY DEF q, m
<1>6. \E i \in 1..k, j \in 1..s : i = q + 1 /\ j = m + 1 /\ (i - 1) * s + j = x
  <2>. PICK i : i = q + 1  OBVIOUS
  <2>. PICK j : j = m + 1  OBVIOUS
  <2>1. i \in 1..k /\ j \in 1..s /\ i - 1 = q
    BY <1>2, <1>4
  <2>2. q * s + j = x
    BY <1>2
  <2>3. (i - 1) * s + j = x
    BY <2>1, <2>2, Zenon
  <2>. QED  BY <2>1, <2>3, Zenon
<1>. QED  BY <1>5, <1>6

LEMMA SubSeqIs ==
    ASSUME NEW s, NEW m \in Int, NEW n \in Int, \A i \in m..n : s[i] \in Nat,
           NEW t, t = SubSeq(s, m, n)
    PROVE  /\ t \in Seq(Nat) /\ Len(t) = IF m <= n THEN n - m + 1 ELSE 0
           /\ \A i \in 1..(n - m + 1) : t[i] = s[m + i - 1]
BY SubSeqProperties

LEMMA FunIsSeq ==
    ASSUME NEW S, NEW n \in Nat, NEW f \in [1..n -> S]
    PROVE  f \in Seq(S) /\ Len(f) = n /\ DOMAIN f = 1..n
<1>1. f \in Seq(S)
  BY SeqDef
<1>2. DOMAIN f = 1..n /\ DOMAIN f = 1..Len(f) /\ Len(f) \in Nat
  BY <1>1, LenProperties
<1>. QED  BY <1>1, <1>2

-----------------------------------------------------------------------------
(* What the coders make of the data.                                       *)

Bytes(data, k, i) == Slice(data, ShardSize(Len(data), k), i)
Rows(data, k) == [i \in 1..k |-> Bytes(data, k, i)]

LEMMA SliceBytes ==
    ASSUME NEW data \in Seq(Nat), NEW size \in Nat, NEW i \in Nat, i >= 1
    PROVE  /\ Slice(data, size, i) \in Seq(Nat) /\ Len(Slice(data, size, i)) = size
           /\ \A j \in 1..size : Slice(data, size, i)[j] =
                 IF (i - 1) * size + j <= Len(data) THEN data[(i - 1) * size + j] ELSE 0
<1>. DEFINE s == Slice(data, size, i)
<1>0. (i - 1) * size \in Nat /\ Len(data) \in Nat
  BY LenProperties
<1>1. ASSUME NEW j \in 1..size
      PROVE  (IF (i - 1) * size + j <= Len(data) THEN data[(i - 1) * size + j] ELSE 0) \in Nat
  <2>. PICK o \in Nat : o = (i - 1) * size
    BY <1>0
  <2>. QED  BY LenProperties
<1>2. s \in [1..size -> Nat]
  BY <1>1 DEF Slice
<1>3. s \in Seq(Nat) /\ Len(s) = size
  <2>. HIDE DEF s
  <2>. QED  BY <1>2, FunIsSeq
<1>. QED  BY <1>3 DEF Slice

LEMMA DataShardIs ==
    ASSUME NEW bytes \in Seq(Nat)
    PROVE  /\ DataShard(bytes) \in Shard /\ IsShard(DataShard(bytes))
           /\ DataShard(bytes).size = Len(bytes) /\ DataShard(bytes).of = <<bytes>>
<1>. PICK o : o = <<bytes>>  OBVIOUS
<1>. PICK d : d = [row |-> 0, size |-> Len(bytes), of |-> o]  OBVIOUS
<1>1. Len(bytes) \in Nat
  BY LenProperties
<1>2. o \in [1..1 -> Seq(Nat)] /\ o[1] = bytes
  OBVIOUS
<1>3. o \in Seq(Seq(Nat)) /\ Len(o) = 1 /\ DOMAIN o = {1}
  BY <1>2, FunIsSeq
<1>4. d.size = Len(bytes) /\ d.of = o /\ d \in Shard
  BY <1>1, <1>3 DEF Shard
<1>5. IsShard(d)
  <2>1. Len(d.of) = 1 /\ \A j \in DOMAIN d.of : d.of[j] = bytes
    BY <1>2, <1>3, <1>4
  <2>2. \A j \in DOMAIN d.of : Len(d.of[j]) = d.size
    BY <2>1, <1>4
  <2>. QED  BY <1>4, <2>1, <2>2 DEF IsShard
<1>. QED  BY <1>4, <1>5 DEF DataShard

\* n shards of one size: the first k hold the data, the others all of the rows.
LEMMA RsShards ==
    ASSUME NEW data \in Seq(Nat), NEW p \in Params, p.k # 0, NEW sh,
           sh = RsEncode(data, p).out
    PROVE  /\ RsEncode(data, p).tag = "ok"
           /\ sh \in Seq(Shard) /\ Len(sh) = Larger(p.k, p.n) /\ Larger(p.k, p.n) \in Nat
           /\ DOMAIN sh = 1..Larger(p.k, p.n)
           /\ \A i \in 1..Larger(p.k, p.n) :
                /\ IsShard(sh[i]) /\ sh[i].size = ShardSize(Len(data), p.k)
                /\ i <= p.k => sh[i] = DataShard(Bytes(data, p.k, i))
                /\ i > p.k => sh[i].of = Rows(data, p.k)
<1>. DEFINE size == ShardSize(Len(data), p.k)
            N == Larger(p.k, p.n)
            rows == Rows(data, p.k)
<1>1. /\ p.k \in Nat /\ p.n \in Nat /\ p.k >= 1 /\ N \in Nat /\ N >= p.k
      /\ Len(data) \in Nat
  BY ErasureAssumption, LenProperties DEF Params, Larger
<1>2. size \in Nat /\ size >= 1
  BY <1>1, SizeHolds
<1>. HIDE DEF size
<1>3. \A i \in 1..p.k : Bytes(data, p.k, i) \in Seq(Nat) /\ Len(Bytes(data, p.k, i)) = size
  <2>. TAKE i \in 1..p.k
  <2>1. Bytes(data, p.k, i) = Slice(data, size, i)
    BY DEF Bytes, size
  <2>2. i \in Nat /\ i >= 1
    BY <1>1
  <2>. QED  BY <2>1, <2>2, <1>2, SliceBytes
<1>4. rows \in [1..p.k -> Seq(Nat)] /\ \A i \in 1..p.k : rows[i] = Bytes(data, p.k, i)
  BY <1>3 DEF Rows
<1>. HIDE DEF rows
<1>5. rows \in Seq(Seq(Nat)) /\ Len(rows) = p.k /\ DOMAIN rows = 1..p.k
  BY <1>1, <1>4, FunIsSeq
<1>. DEFINE e(i) == IF i <= p.k THEN DataShard(rows[i])
                    ELSE [row |-> i - p.k, size |-> size, of |-> rows]
<1>6. RsEncode(data, p) = Ok([i \in 1..N |-> e(i)])
  BY <1>1 DEF RsEncode, rows, size, Rows, Bytes
<1>7. RsEncode(data, p).tag = "ok" /\ sh = [i \in 1..N |-> e(i)]
  BY <1>6 DEF Ok
<1>8. ASSUME NEW i \in 1..N
      PROVE  /\ e(i) \in Shard /\ IsShard(e(i)) /\ e(i).size = size
             /\ i <= p.k => e(i) = DataShard(Bytes(data, p.k, i))
             /\ i > p.k => e(i).of = rows
  <2>. HIDE DEF N
  <2>1. CASE i <= p.k
    <3>1. i \in 1..p.k /\ e(i) = DataShard(Bytes(data, p.k, i))
      BY <2>1, <1>1, <1>4
    <3>2. DataShard(Bytes(data, p.k, i)).size = size
      BY <3>1, <1>3, DataShardIs
    <3>. QED  BY <2>1, <3>1, <3>2, <1>1, <1>3, DataShardIs
  <2>2. CASE ~(i <= p.k)
    <3>1. e(i) = [row |-> i - p.k, size |-> size, of |-> rows]
      BY <2>2
    <3>2. i - p.k \in Nat
      BY <2>2, <1>1
    <3>. PICK x : x = [row |-> i - p.k, size |-> size, of |-> rows]  OBVIOUS
    <3>3. x \in Shard /\ x.size = size /\ x.of = rows
      BY <3>2, <1>2, <1>5 DEF Shard
    <3>4. IsShard(x)
      BY <3>3, <1>1, <1>3, <1>4, <1>5 DEF IsShard
    <3>. QED  BY <2>2, <3>1, <3>3, <3>4
  <2>. QED  BY <2>1, <2>2
<1>. HIDE DEF e, N
<1>9. sh \in [1..N -> Shard] /\ \A i \in 1..N : sh[i] = e(i)
  BY <1>7, <1>8
<1>10. sh \in Seq(Shard) /\ Len(sh) = N /\ DOMAIN sh = 1..N
  BY <1>1, <1>9, FunIsSeq
<1>. QED  BY <1>1, <1>7, <1>8, <1>9, <1>10 DEF N, rows, size

LEMMA CopiesShards ==
    ASSUME NEW data \in Seq(Nat), NEW p \in Params, p.k = 1, NEW sh,
           sh = CopiesEncode(data, p).out
    PROVE  /\ CopiesEncode(data, p).tag = "ok"
           /\ sh \in Seq(Shard) /\ Len(sh) = Larger(p.n, 1) /\ Larger(p.n, 1) \in Nat
           /\ DOMAIN sh = 1..Larger(p.n, 1)
           /\ \A i \in 1..Larger(p.n, 1) : sh[i] = DataShard(data)
           /\ IsShard(DataShard(data))
<1>. DEFINE N == Larger(p.n, 1)
<1>1. p.n \in Nat /\ N \in Nat
  BY ErasureAssumption DEF Params, Larger
<1>2. CopiesEncode(data, p) = Ok([i \in 1..N |-> DataShard(data)])
  BY DEF CopiesEncode
<1>3. CopiesEncode(data, p).tag = "ok" /\ sh = [i \in 1..N |-> DataShard(data)]
  BY <1>2 DEF Ok
<1>4. DataShard(data) \in Shard /\ IsShard(DataShard(data))
  BY DataShardIs
<1>. HIDE DEF N
<1>5. sh \in [1..N -> Shard] /\ \A i \in 1..N : sh[i] = DataShard(data)
  BY <1>3, <1>4
<1>6. sh \in Seq(Shard) /\ Len(sh) = N /\ DOMAIN sh = 1..N
  BY <1>1, <1>5, FunIsSeq
<1>. QED  BY <1>1, <1>3, <1>4, <1>5, <1>6 DEF N

-----------------------------------------------------------------------------
(* What the coders make of the shards that are left.                       *)

\* Every slot is empty or holds the shard that was put there.
Remains(slots, sh) ==
    /\ slots \in Seq(Shard \cup {None}) /\ DOMAIN slots = DOMAIN sh
    /\ \A i \in DOMAIN sh : slots[i] = None \/ slots[i] = sh[i]

\* A missing data shard is rebuilt, as it was, if some parity shard is there.
LEMMA Rebuilt ==
    ASSUME NEW data \in Seq(Nat), NEW p \in Params, p.k # 0, NEW sh,
           sh = RsEncode(data, p).out, NEW slots, Remains(slots, sh), NEW i \in 1..p.k
    PROVE  Reconstruct(slots, p.k)[i] =
              IF slots[i] # None \/ \E j \in Present(slots) : j > p.k
              THEN DataShard(Bytes(data, p.k, i)) ELSE None
<1>. DEFINE N == Larger(p.k, p.n)
            par == {j \in Present(slots) : j > p.k}
            rows == slots[CHOOSE j \in par : TRUE].of
            fits == /\ \A j \in par : slots[j].of = rows
                    /\ \A j \in Present(slots) \ par : slots[j].of = <<rows[j]>>
<1>1. /\ p.k \in Nat /\ N \in Nat /\ p.k <= N
      /\ DOMAIN sh = 1..N
      /\ \A j \in 1..N : j <= p.k => sh[j] = DataShard(Bytes(data, p.k, j))
      /\ \A j \in 1..N : j > p.k => sh[j].of = Rows(data, p.k)
  BY ErasureAssumption, RsShards DEF Params, Larger
<1>2. i \in 1..N /\ i <= p.k /\ ~(i > p.k) /\ DOMAIN slots = 1..N
  BY <1>1 DEF Remains
<1>3. Reconstruct(slots, p.k)[i] =
         IF i > p.k \/ slots[i] # None \/ par = {} THEN slots[i]
         ELSE IF fits THEN DataShard(rows[i]) ELSE DataShard(<<>>)
  BY <1>2 DEF Reconstruct
<1>4. \A j \in Present(slots) : j \in 1..N /\ slots[j] # None /\ slots[j] = sh[j]
  BY <1>1, <1>2 DEF Present, Remains
<1>5. slots[i] # None => slots[i] = DataShard(Bytes(data, p.k, i))
  BY <1>1, <1>2 DEF Remains
<1>6. ASSUME par # {} PROVE fits /\ rows[i] = Bytes(data, p.k, i)
  <2>1. \A j \in par : slots[j].of = Rows(data, p.k)
    BY <1>1, <1>4
  <2>2. rows = Rows(data, p.k)
    BY <1>6, <2>1
  <2>. HIDE DEF rows
  <2>3. \A j \in 1..p.k : rows[j] = Bytes(data, p.k, j)
    BY <2>2 DEF Rows
  <2>4. ASSUME NEW j \in Present(slots) \ par PROVE slots[j].of = <<rows[j]>>
    <3>1. j \in 1..p.k /\ slots[j] = DataShard(Bytes(data, p.k, j))
      BY <1>1, <1>4
    <3>. QED  BY <3>1, <2>3 DEF DataShard
  <2>. QED  BY <2>1, <2>2, <2>3, <2>4
<1>. HIDE DEF rows, fits
<1>7. (\E j \in Present(slots) : j > p.k) <=> par # {}
  OBVIOUS
<1>. HIDE DEF par
<1>. QED  BY <1>2, <1>3, <1>5, <1>6, <1>7

\* The first k shards, without the padding, are the data.
LEMMA Joined ==
    ASSUME NEW data \in Seq(Nat), NEW k \in Nat, k >= 1, NEW full,
           \A i \in 1..k : full[i] = DataShard(Bytes(data, k, i))
    PROVE  Truncate(Concat(full, k), Len(data)) = data
<1>. PICK size : size = ShardSize(Len(data), k)  OBVIOUS
<1>. PICK c : c = Concat(full, k)  OBVIOUS
<1>1. Len(data) \in Nat /\ size \in Nat /\ size >= 1 /\ k * size >= Len(data) /\ k * size \in Nat
  <2>1. Len(data) \in Nat
    BY LenProperties
  <2>2. size \in Nat /\ size >= 1 /\ k * size >= Len(data)
    BY <2>1, SizeHolds
  <2>. QED  BY <2>1, <2>2
<1>2. ASSUME NEW i \in 1..k
      PROVE  /\ full[i].size = size /\ full[i].of[1] = Slice(data, size, i)
             /\ \A j \in 1..size : Slice(data, size, i)[j] =
                    IF (i - 1) * size + j <= Len(data) THEN data[(i - 1) * size + j] ELSE 0
  <2>1. i \in Nat /\ i >= 1 /\ full[i] = DataShard(Slice(data, size, i))
    BY DEF Bytes
  <2>2. /\ Slice(data, size, i) \in Seq(Nat) /\ Len(Slice(data, size, i)) = size
        /\ \A j \in 1..size : Slice(data, size, i)[j] =
                IF (i - 1) * size + j <= Len(data) THEN data[(i - 1) * size + j] ELSE 0
    BY <2>1, <1>1, SliceBytes
  <2>3. full[i].size = size /\ full[i].of[1] = Slice(data, size, i)
    BY <2>1, <2>2 DEF DataShard
  <2>. QED  BY <2>2, <2>3
<1>3. full[1].size = size
  <2>1. 1 \in 1..k
    OBVIOUS
  <2>. QED  BY <2>1, <1>2
<1>4. c = [x \in 1..(k * size) |-> full[((x - 1) \div size) + 1].of[1][((x - 1) % size) + 1]]
  BY <1>3 DEF Concat
<1>5. ASSUME NEW x \in 1..(k * size)
      PROVE  c[x] = IF x <= Len(data) THEN data[x] ELSE 0
  <2>1. PICK i \in 1..k, j \in 1..size :
            /\ i = ((x - 1) \div size) + 1 /\ j = ((x - 1) % size) + 1
            /\ (i - 1) * size + j = x
    BY <1>1, BytePlace
  <2>2. c[x] = full[i].of[1][j]
    BY <1>4, <2>1
  <2>. QED  BY <2>1, <2>2, <1>2
<1>6. c \in [1..(k * size) -> Nat]
  <2>1. \A x \in 1..(k * size) : c[x] \in Nat
    BY <1>5, <1>1, LenProperties
  <2>2. DOMAIN c = 1..(k * size) /\ c = [x \in 1..(k * size) |-> c[x]]
    BY <1>4
  <2>. QED  BY <2>1, <2>2
<1>7. c \in Seq(Nat) /\ Len(c) = k * size
  BY <1>1, <1>6, FunIsSeq
<1>. PICK l \in Nat : l = Len(data) /\ l <= k * size
  BY <1>1
<1>8. Truncate(c, l) = SubSeq(c, 1, l)
  <2>1. (IF l < Len(c) THEN l ELSE Len(c)) = l
    BY <1>1, <1>7
  <2>. QED  BY <2>1 DEF Truncate
<1>9. \A x \in 1..l : x \in 1..(k * size) /\ c[x] \in Nat /\ c[x] = data[x]
  BY <1>1, <1>5, <1>6
<1>. PICK d : d = SubSeq(c, 1, l)  OBVIOUS
<1>10. d \in Seq(Nat) /\ Len(d) = l /\ \A x \in 1..l : d[x] = c[x]
  <2>1. d \in Seq(Nat) /\ Len(d) = (IF 1 <= l THEN l - 1 + 1 ELSE 0)
        /\ \A x \in 1..(l - 1 + 1) : d[x] = c[1 + x - 1]
    <3>1. 1 \in Int /\ l \in Int /\ \A x \in 1..l : c[x] \in Nat
      BY <1>9
    <3>. QED  BY <3>1, SubSeqProperties
  <2>2. \A x \in 1..l : 1 + x - 1 = x
    OBVIOUS
  <2>. QED  BY <2>1, <2>2
<1>11. d = data
  BY <1>9, <1>10, SeqEqual
<1>. QED  BY <1>8, <1>11

LEMMA PresentFinite ==
    ASSUME NEW slots \in Seq(Shard \cup {None})
    PROVE  /\ IsFiniteSet(Present(slots)) /\ Cardinality(Present(slots)) \in Nat
           /\ Present(slots) \subseteq 1..Len(slots)
<1>1. Len(slots) \in Nat /\ DOMAIN slots = 1..Len(slots)
  BY LenProperties
<1>2. Present(slots) \in SUBSET (1..Len(slots))
  BY <1>1 DEF Present
<1>3. IsFiniteSet(1..Len(slots))
  BY <1>1, FS_Interval
<1>4. IsFiniteSet(Present(slots))
  BY <1>2, <1>3, FS_Subset
<1>. QED  BY <1>2, <1>4, FS_CardinalityType

LEMMA RsBack ==
    ASSUME NEW data \in Seq(Nat), NEW p \in Params, p.k # 0, NEW sh,
           sh = RsEncode(data, p).out, NEW slots, Remains(slots, sh)
    PROVE  LET d == RsDecode(slots, p, Len(data))
           IN  /\ d.tag = "ok" => d.out = data
               /\ Valid(p) /\ Cardinality(Present(slots)) >= p.k => d.tag = "ok"
<1>. PICK full : full = IF p.n > p.k THEN Reconstruct(slots, p.k) ELSE slots  OBVIOUS
<1>. DEFINE N == Larger(p.k, p.n)
            few == Present(slots) = {} \/ Cardinality(Present(slots)) < p.k
            hole == \E i \in 1..p.k : full[i] = None
            out == Truncate(Concat(full, p.k), Len(data))
<1>1. /\ p.k \in Nat /\ p.n \in Nat /\ p.k >= 1 /\ N \in Nat /\ p.k <= N /\ p.n <= N
      /\ p.n >= p.k => N = p.n
  BY ErasureAssumption DEF Params, Larger
<1>2. DOMAIN sh = 1..N /\ \A i \in 1..N : i <= p.k => sh[i] = DataShard(Bytes(data, p.k, i))
  BY RsShards
<1>. HIDE DEF N
<1>3. /\ slots \in Seq(Shard \cup {None}) /\ Len(slots) = N /\ DOMAIN slots = 1..N
      /\ \A i \in 1..N : slots[i] = None \/ slots[i] = sh[i]
  <2>1. slots \in Seq(Shard \cup {None}) /\ DOMAIN slots = 1..N
        /\ \A i \in 1..N : slots[i] = None \/ slots[i] = sh[i]
    BY <1>2 DEF Remains
  <2>2. DOMAIN slots = 1..Len(slots) /\ Len(slots) \in Nat
    BY <2>1, LenProperties
  <2>. QED  BY <1>1, <2>1, <2>2
<1>4. /\ IsFiniteSet(Present(slots)) /\ Cardinality(Present(slots)) \in Nat
      /\ Present(slots) \subseteq 1..N
  BY <1>3, PresentFinite
<1>5. RsDecode(slots, p, Len(data)) =
         IF N # p.n THEN Err("Backend")
         ELSE IF few THEN Err("Unavailable")
         ELSE IF hole THEN Err("Unavailable") ELSE Ok(out)
  BY <1>3 DEF RsDecode
<1>6. \A i \in 1..p.k : i \in 1..N /\ (full[i] # None => full[i] = DataShard(Bytes(data, p.k, i)))
  <2>. SUFFICES ASSUME NEW i \in 1..p.k, full[i] # None
                PROVE  full[i] = DataShard(Bytes(data, p.k, i))
    BY <1>1
  <2>1. CASE p.n > p.k
    <3>1. full[i] = Reconstruct(slots, p.k)[i]
      BY <2>1
    <3>2. full[i] = IF slots[i] # None \/ \E j \in Present(slots) : j > p.k
                    THEN DataShard(Bytes(data, p.k, i)) ELSE None
      BY <3>1, Rebuilt, Zenon
    <3>. QED  BY <3>2, Zenon
  <2>2. CASE ~(p.n > p.k)
    BY <2>2, <1>1, <1>2, <1>3
  <2>. QED  BY <2>1, <2>2
<1>7. ~hole => out = data
  BY <1>1, <1>6, Joined
<1>8. ASSUME p.n >= p.k, Cardinality(Present(slots)) >= p.k
      PROVE  ~few /\ ~hole
  <2>1. ~few
    BY <1>1, <1>4, <1>8, FS_EmptySet
  <2>2. ASSUME NEW i \in 1..p.k, full[i] = None PROVE FALSE
    <3>0. i \in 1..N /\ N = p.n /\ DataShard(Bytes(data, p.k, i)) # None
      <4>1. i \in 1..N /\ N = p.n
        BY <1>1, <1>8
      <4>2. DataShard(Bytes(data, p.k, i)) \in Shard
        <5>1. sh[i] \in Shard
          BY <4>1, RsShards DEF IsShard, N
        <5>. QED  BY <4>1, <5>1, <1>2
      <4>. QED  BY <4>1, <4>2, NoneAssumption
    <3>1. slots[i] = None /\ Present(slots) \subseteq 1..p.k
      <4>1. CASE p.n > p.k
        <5>1. slots[i] = None /\ ~ \E j \in Present(slots) : j > p.k
          BY <2>2, <3>0, <4>1, Rebuilt
        <5>. QED  BY <5>1, <1>1, <1>4
      <4>2. CASE ~(p.n > p.k)
        BY <2>2, <3>0, <4>2, <1>1, <1>4, <1>8
      <4>. QED  BY <4>1, <4>2
    <3>2. Present(slots) \in SUBSET ((1..p.k) \ {i})
      BY <3>1 DEF Present
    <3>3. IsFiniteSet((1..p.k) \ {i}) /\ Cardinality((1..p.k) \ {i}) = p.k - 1
      <4>. PICK k \in Nat : k = p.k /\ k >= 1
        BY <1>1
      <4>0. 1 \in Int /\ k \in Int
        OBVIOUS
      <4>1. IsFiniteSet(1..k) /\ Cardinality(1..k) = IF 1 > k THEN 0 ELSE k - 1 + 1
        BY <4>0, FS_Interval, Zenon
      <4>. PICK K : K = 1..k  OBVIOUS
      <4>2. IsFiniteSet(K) /\ Cardinality(K) = k /\ i \in K
        BY <4>1
      <4>3. IsFiniteSet(K \ {i}) /\ Cardinality(K \ {i}) = k - 1
        BY <4>2, FS_RemoveElement
      <4>. QED  BY <4>3
    <3>4. Cardinality(Present(slots)) <= p.k - 1
      BY <3>2, <3>3, FS_Subset
    <3>. QED  BY <3>4, <1>1, <1>4, <1>8
  <2>. QED  BY <2>1, <2>2
<1>. HIDE DEF few, hole, out
<1>9. RsDecode(slots, p, Len(data)).tag = "ok" => RsDecode(slots, p, Len(data)).out = data
  BY <1>5, <1>7 DEF Ok, Err
<1>10. ASSUME Valid(p), Cardinality(Present(slots)) >= p.k
       PROVE  RsDecode(slots, p, Len(data)).tag = "ok"
  BY <1>1, <1>5, <1>8, <1>10 DEF Ok, Valid
<1>. QED  BY <1>9, <1>10

LEMMA Least ==
    ASSUME NEW T \in SUBSET Nat, T # {}
    PROVE  \E x \in T : \A y \in T : x <= y
<1>. DEFINE R == OpToRel(<, Nat)
<1>1. IsWellFoundedOn(R, Nat)
  BY NatLessThanWellFounded
<1>2. \A x, y \in Nat : y < x => <<y, x>> \in R
  BY DEF OpToRel
<1>. HIDE DEF R
<1>3. PICK x \in T : \A y \in T : ~ (<<y, x>> \in R)
  BY <1>1, WFMin
<1>4. \A y \in T : ~(y < x)
  BY <1>2, <1>3, Zenon
<1>5. \A y \in T : x <= y
  BY <1>4
<1>. QED  BY <1>5, Zenon

LEMMA CopiesBack ==
    ASSUME NEW data \in Seq(Nat), NEW p \in Params, p.k = 1, NEW sh,
           sh = CopiesEncode(data, p).out, NEW slots, Remains(slots, sh)
    PROVE  LET d == CopiesDecode(slots, p, Len(data))
           IN  /\ d.tag = "ok" => d.out = data
               /\ Cardinality(Present(slots)) >= p.k => d.tag = "ok"
<1>. DEFINE first == slots[CHOOSE i \in Present(slots) : \A j \in Present(slots) : i <= j]
            N == Larger(p.n, 1)
<1>1. N \in Nat /\ DOMAIN sh = 1..N /\ \A i \in 1..N : sh[i] = DataShard(data)
  BY CopiesShards
<1>2. slots \in Seq(Shard \cup {None}) /\ \A i \in Present(slots) : slots[i] = DataShard(data)
  BY <1>1 DEF Remains, Present
<1>3. IsFiniteSet(Present(slots)) /\ Present(slots) \subseteq Nat
  <2>1. Len(slots) \in Nat
    BY <1>2, LenProperties
  <2>. QED  BY <1>2, <2>1, PresentFinite
<1>4. Present(slots) # {} => first = DataShard(data)
  <2>. SUFFICES ASSUME Present(slots) # {}
                PROVE  \E i \in Present(slots) : \A j \in Present(slots) : i <= j
    BY <1>2
  <2>. QED  BY <1>3, Least
<1>5. /\ Len(data) \in Nat
      /\ DataShard(data).size = Len(data) /\ DataShard(data).of[1] = data
  BY LenProperties DEF DataShard
<1>6. Truncate(data, Len(data)) = data
  BY SubSeqFull DEF Truncate
<1>7. CopiesDecode(slots, p, Len(data)) =
        IF Present(slots) = {} THEN Err("Unavailable")
        ELSE IF first.size < Len(data) THEN Err("Integrity")
        ELSE Ok(Truncate(first.of[1], Len(data)))
  BY DEF CopiesDecode
<1>. HIDE DEF first
<1>8. CopiesDecode(slots, p, Len(data)) =
        IF Present(slots) = {} THEN Err("Unavailable") ELSE Ok(data)
  <2>1. ~(Len(data) < Len(data))
    BY <1>5
  <2>. QED  BY <1>4, <1>5, <1>6, <1>7, <2>1
<1>9. Cardinality(Present(slots)) >= p.k => Present(slots) # {}
  <2>1. Present(slots) = {} => Cardinality(Present(slots)) = 0
    BY FS_EmptySet
  <2>. QED  BY <2>1
<1>. QED  BY <1>8, <1>9 DEF Ok, Err

LEMMA EncodeIs ==
    ASSUME NEW data \in Seq(Nat), NEW p \in Params, Encode(data, p).tag = "ok", NEW sh,
           sh = Encode(data, p).out
    PROVE  /\ sh \in Seq(Shard) /\ \A i \in DOMAIN sh : sh[i] \in Shard /\ IsShard(sh[i])
           /\ coder = "rs" => sh = RsEncode(data, p).out /\ p.k # 0
           /\ coder # "rs" => sh = CopiesEncode(data, p).out /\ p.k = 1
<1>1. CASE coder = "rs"
  <2>1. p.k # 0 /\ sh = RsEncode(data, p).out
    BY <1>1 DEF Encode, RsEncode, Err
  <2>2. sh \in Seq(Shard) /\ \A i \in DOMAIN sh : IsShard(sh[i])
    BY <2>1, RsShards
  <2>. QED  BY <1>1, <2>1, <2>2 DEF IsShard
<1>2. CASE coder # "rs"
  <2>1. p.k = 1 /\ sh = CopiesEncode(data, p).out
    BY <1>2 DEF Encode, CopiesEncode, Err
  <2>2. sh \in Seq(Shard) /\ \A i \in DOMAIN sh : IsShard(sh[i])
    BY <2>1, CopiesShards
  <2>. QED  BY <1>2, <2>1, <2>2 DEF IsShard
<1>. QED  BY <1>1, <1>2

\* Whatever the coder: what it decodes is the data, and k shards are enough.
LEMMA Back ==
    ASSUME NEW data \in Seq(Nat), NEW p \in Params, Encode(data, p).tag = "ok", NEW sh,
           sh = Encode(data, p).out, NEW slots, Remains(slots, sh),
           NEW d, d = Decode(slots, p, Len(data))
    PROVE  /\ d.tag = "ok" => d.out = data
           /\ Valid(p) /\ Cardinality(Present(slots)) >= p.k => d.tag = "ok"
<1>0. /\ coder = "rs" => sh = RsEncode(data, p).out /\ p.k # 0
      /\ coder # "rs" => sh = CopiesEncode(data, p).out /\ p.k = 1
  BY EncodeIs
<1>1. CASE coder = "rs"
  <2>1. d = RsDecode(slots, p, Len(data))
    BY <1>1 DEF Decode
  <2>. QED  BY <1>0, <1>1, <2>1, RsBack
<1>2. CASE coder # "rs"
  <2>1. d = CopiesDecode(slots, p, Len(data))
    BY <1>2 DEF Decode
  <2>. QED  BY <1>0, <1>2, <2>1, CopiesBack
<1>. QED  BY <1>1, <1>2

LEMMA SplitAt ==
    ASSUME NEW n \in Nat, NEW head \in Seq(Nat), Len(head) = n, NEW tail \in Seq(Nat),
           NEW bytes \in Seq(Nat), Len(bytes) = n + Len(tail),
           \A i \in 1..(n + Len(tail)) :
                bytes[i] = IF i <= n THEN head[i] ELSE tail[i - n]
    PROVE  SubSeq(bytes, 1, n) = head /\ SubSeq(bytes, n + 1, Len(bytes)) = tail
<1>0. Len(tail) \in Nat /\ \A i \in 1..(n + Len(tail)) : bytes[i] \in Nat
  BY LenProperties
<1>1. SubSeq(bytes, 1, n) = head
  <2>. PICK h : h = SubSeq(bytes, 1, n)  OBVIOUS
  <2>1. \A i \in 1..n : bytes[i] = head[i] /\ bytes[i] \in Nat
    BY <1>0
  <2>2. 1 \in Int /\ n \in Int
    OBVIOUS
  <2>3. /\ h \in Seq(Nat) /\ Len(h) = (IF 1 <= n THEN n - 1 + 1 ELSE 0)
        /\ \A i \in 1..(n - 1 + 1) : h[i] = bytes[1 + i - 1]
    BY <2>1, <2>2, SubSeqIs
  <2>4. Len(h) = n /\ \A i \in 1..n : h[i] = head[i]
    BY <2>1, <2>3
  <2>. QED  BY <2>3, <2>4, SeqEqual
<1>2. SubSeq(bytes, n + 1, Len(bytes)) = tail
  <2>. PICK l \in Int : l = Len(bytes) /\ l = n + Len(tail)
    BY <1>0
  <2>. PICK m \in Int : m = n + 1
    OBVIOUS
  <2>. PICK t : t = SubSeq(bytes, m, l)  OBVIOUS
  <2>1. \A i \in 1..Len(tail) : m + i - 1 \in m..l /\ bytes[m + i - 1] = tail[i]
    <3>. TAKE i \in 1..Len(tail)
    <3>. PICK j : j = m + i - 1  OBVIOUS
    <3>1. j \in 1..(n + Len(tail)) /\ ~(j <= n) /\ j - n = i /\ j \in m..l
      BY <1>0
    <3>2. bytes[j] = tail[i]
      BY <3>1
    <3>. QED  BY <3>1, <3>2
  <2>2. \A i \in m..l : bytes[i] \in Nat
    BY <1>0
  <2>3. /\ t \in Seq(Nat) /\ Len(t) = (IF m <= l THEN l - m + 1 ELSE 0)
        /\ \A i \in 1..(l - m + 1) : t[i] = bytes[m + i - 1]
    BY <2>2, SubSeqIs
  <2>4. Len(t) = Len(tail) /\ l - m + 1 = Len(tail)
    BY <2>3, <1>0
  <2>5. \A i \in 1..Len(tail) : t[i] = tail[i]
    BY <2>1, <2>3, <2>4
  <2>. QED  BY <2>3, <2>4, <2>5, SeqEqual
<1>. QED  BY <1>1, <1>2

\* The envelope opens with the key it was sealed with, and with no other.
LEMMA Opened ==
    ASSUME NEW ns \in Namespace, NEW nonce \in Nonce, NEW text \in Text, NEW other \in Namespace
    PROVE  /\ Encrypt(ns, nonce, text) \in Seq(Nat)
           /\ Decrypt(other, Encrypt(ns, nonce, text)) =
                 IF other = ns THEN Ok(text) ELSE Err("Crypto")
<1>. PICK ct : ct = Aead(ns, nonce, text)  OBVIOUS
<1>. PICK bytes : bytes = nonce \o ct  OBVIOUS
<1>1. nonce \in Seq(Nat) /\ Len(nonce) = NonceLen /\ NonceLen \in Nat /\ ct \in Seq(Nat)
  BY ErasureAssumption
<1>2. /\ Len(nonce) \in Nat /\ Len(ct) \in Nat
      /\ \A i \in 1..Len(nonce) : nonce[i] \in Nat
      /\ \A i \in 1..Len(ct) : ct[i] \in Nat
  BY <1>1, LenProperties
<1>3. /\ bytes \in Seq(Nat) /\ Len(bytes) = Len(nonce) + Len(ct)
      /\ \A i \in 1..(Len(nonce) + Len(ct)) :
            bytes[i] = IF i <= Len(nonce) THEN nonce[i] ELSE ct[i - Len(nonce)]
  BY <1>1, ConcatProperties
<1>4. SubSeq(bytes, 1, NonceLen) = nonce /\ SubSeq(bytes, NonceLen + 1, Len(bytes)) = ct
  BY <1>1, <1>2, <1>3, SplitAt
<1>6. ~(Len(bytes) < NonceLen)
  BY <1>1, <1>2, <1>3
<1>7. Decrypt(other, bytes) =
        IF ~ \E q \in Text : nonce \in Nonce /\ Aead(other, nonce, q) = ct THEN Err("Crypto")
        ELSE Ok(CHOOSE q \in Text : nonce \in Nonce /\ Aead(other, nonce, q) = ct)
  BY <1>4, <1>6 DEF Decrypt
<1>8. \A q \in Text : Aead(other, nonce, q) = ct <=> other = ns /\ q = text
  BY ErasureAssumption
<1>9. CASE other = ns
  <2>1. (CHOOSE q \in Text : nonce \in Nonce /\ Aead(other, nonce, q) = ct) = text
    BY <1>8, <1>9
  <2>2. \E q \in Text : nonce \in Nonce /\ Aead(other, nonce, q) = ct
    BY <1>8, <1>9
  <2>. QED  BY <1>3, <1>7, <1>9, <2>1, <2>2 DEF Encrypt
<1>10. CASE other # ns
  <2>1. ~ \E q \in Text : nonce \in Nonce /\ Aead(other, nonce, q) = ct
    BY <1>8, <1>10
  <2>. QED  BY <1>3, <1>7, <1>10, <2>1 DEF Encrypt
<1>. QED  BY <1>9, <1>10

-----------------------------------------------------------------------------
(* The inductive invariant: a manifest records the shards of what was      *)
(* sent, by the coder and the parameters of the put, and the anchor has a  *)
(* slot for each. Its point is that the contract does not occur in it.     *)

Sent == [data : Seq(Nat), ns : Namespace, text : Text \cup {None}]

Made(b) == Encode(sent[b].data, manifest[b].erasure)

StoredInv(b) ==
    /\ manifest[b].erasure \in Params /\ sent[b].data \in Seq(Nat)
    /\ Made(b).tag = "ok"
    /\ manifest[b].ciphertext_len = Len(sent[b].data)
    /\ manifest[b].shards = [i \in DOMAIN Made(b).out |->
           [sha256 |-> Sha256(Made(b).out[i]), size |-> Made(b).out[i].size]]
    /\ DOMAIN anchor[b] = DOMAIN Made(b).out
    /\ sent[b].text # None =>
        \E nonce \in Nonce :
            sent[b].data = Encrypt(sent[b].ns, nonce, sent[b].text)

BlobInv(b) ==
    /\ \A i \in DOMAIN anchor[b] : anchor[b][i] = None \/ IsShard(anchor[b][i])
    /\ manifest[b] = None => anchor[b] = <<>> /\ sent[b] = None
    /\ manifest[b] # None => sent[b] \in Sent /\ StoredInv(b)

SeenInv ==
    seen.tag = "ok" /\ seen.ns # None =>
        /\ seen.blob \in Blob /\ manifest[seen.blob] # None
        /\ seen.out = sent[seen.blob].data
        /\ sent[seen.blob].text # None =>
            seen.opened = IF seen.ns = sent[seen.blob].ns THEN Ok(sent[seen.blob].text)
                          ELSE Err("Crypto")

IInv ==
    /\ coder \in Coders /\ contract \in Params \cup {None}
    /\ manifest \in [Blob -> Manifest \cup {None}]
    /\ anchor \in [Blob -> Seq(Shard \cup {None})]
    /\ sent \in [Blob -> Sent \cup {None}]
    /\ \A b \in Blob : BlobInv(b)
    /\ SeenInv

\* What is collected of a blob is what was put, where it is still that.
LEMMA CollectedIs ==
    ASSUME IInv, NEW b \in Blob, manifest[b] # None, NEW sh, sh = Made(b).out
    PROVE  /\ sh \in Seq(Shard) /\ \A i \in DOMAIN sh : sh[i] \in Shard /\ IsShard(sh[i])
           /\ DOMAIN manifest[b].shards = DOMAIN sh /\ DOMAIN anchor[b] = DOMAIN sh
           /\ \A i \in DOMAIN sh : /\ manifest[b].shards[i].sha256 = Sha256(sh[i])
                                   /\ manifest[b].shards[i].size = sh[i].size
           /\ \A i \in DOMAIN sh : Collected(b)[i] # None => anchor[b][i] = sh[i]
           /\ Remains(Collected(b), sh)
<1>0. sent[b].data \in Seq(Nat) /\ manifest[b].erasure \in Params /\ Made(b).tag = "ok"
  BY DEF IInv, BlobInv, StoredInv
<1>1. sh \in Seq(Shard) /\ \A i \in DOMAIN sh : sh[i] \in Shard /\ IsShard(sh[i])
  BY <1>0, EncodeIs DEF Made
<1>2. /\ manifest[b].shards = [i \in DOMAIN sh |-> [sha256 |-> Sha256(sh[i]), size |-> sh[i].size]]
      /\ DOMAIN anchor[b] = DOMAIN sh
  BY DEF IInv, BlobInv, StoredInv
<1>3. /\ DOMAIN manifest[b].shards = DOMAIN sh
      /\ \A i \in DOMAIN sh : /\ manifest[b].shards[i].sha256 = Sha256(sh[i])
                              /\ manifest[b].shards[i].size = sh[i].size
  BY <1>2
<1>. PICK c : c = Collected(b)  OBVIOUS
<1>4. c = [i \in DOMAIN sh |->
              IF anchor[b][i] # None /\ Sha256(anchor[b][i]) = manifest[b].shards[i].sha256
              THEN anchor[b][i] ELSE None]
  BY <1>3 DEF Collected
<1>5. \A x, y : Sha256(x) = Sha256(y) => x = y
  BY DEF Sha256
<1>6. \A i \in DOMAIN sh : \/ c[i] = None
                           \/ c[i] = sh[i] /\ anchor[b][i] = sh[i]
  BY <1>3, <1>4, <1>5
<1>. PICK n \in Nat : n = Len(sh) /\ DOMAIN sh = 1..n
  BY <1>1, LenProperties
<1>7. c \in [1..n -> Shard \cup {None}]
  <2>1. \A i \in 1..n : c[i] \in Shard \cup {None}
    BY <1>1, <1>6
  <2>2. c = [i \in 1..n |-> c[i]]
    BY <1>4
  <2>. QED  BY <2>1, <2>2
<1>8. c \in Seq(Shard \cup {None}) /\ DOMAIN c = DOMAIN sh
  BY <1>7, FunIsSeq
<1>9. Remains(c, sh)
  BY <1>6, <1>8 DEF Remains
<1>. QED  BY <1>1, <1>2, <1>3, <1>6, <1>9

\* GetBackup::restore and RepairShards on what a blob has left.
LEMMA RestoreIs ==
    ASSUME IInv, NEW b \in Blob, manifest[b] # None, NEW sh, sh = Made(b).out
    PROVE  /\ Restore(b).tag = "ok" => Restore(b).out = sent[b].data
           /\ Valid(manifest[b].erasure) =>
                (Restore(b).tag = "ok" <=> Available(b) >= manifest[b].erasure.k)
           /\ Restore(b).tag = "ok" => \A i \in DOMAIN anchor[b] : Repaired(b)[i] = sh[i]
           /\ Repaired(b) \in Seq(Shard \cup {None}) /\ DOMAIN Repaired(b) = DOMAIN sh
           /\ \A i \in DOMAIN sh : Repaired(b)[i] = None \/ IsShard(Repaired(b)[i])
<1>. PICK data : data = sent[b].data  OBVIOUS
<1>. PICK p : p = manifest[b].erasure  OBVIOUS
<1>. PICK c : c = Collected(b)  OBVIOUS
<1>. PICK d : d = Decode(c, p, Len(data))  OBVIOUS
<1>0. /\ data \in Seq(Nat) /\ p \in Params /\ Encode(data, p).tag = "ok" /\ sh = Encode(data, p).out
      /\ manifest[b].ciphertext_len = Len(data)
  BY DEF IInv, BlobInv, StoredInv, Made
<1>1. /\ sh \in Seq(Shard) /\ Remains(c, sh) /\ DOMAIN anchor[b] = DOMAIN sh
      /\ \A i \in DOMAIN sh : sh[i] \in Shard /\ IsShard(sh[i])
      /\ \A i \in DOMAIN sh : c[i] # None => anchor[b][i] = sh[i]
  BY CollectedIs
<1>2. /\ d.tag = "ok" => d.out = data
      /\ Valid(p) /\ Cardinality(Present(c)) >= p.k => d.tag = "ok"
  BY <1>0, <1>1, Back
<1>3. Cardinality(Present(c)) \in Nat /\ p.k \in Nat
  BY <1>0, <1>1, PresentFinite, ErasureAssumption DEF Remains, Params
<1>4. Restore(b) = IF ~(Cardinality(Present(c)) >= p.k) THEN Err("Unavailable") ELSE d
  BY <1>0 DEF Restore, Available, IsReconstructable
<1>5. Restore(b).tag = "ok" => Cardinality(Present(c)) >= p.k /\ d.tag = "ok" /\ Restore(b) = d
  BY <1>4 DEF Err
<1>6. Valid(p) => (Restore(b).tag = "ok" <=> Available(b) >= p.k)
  BY <1>2, <1>4, <1>5 DEF Available
<1>7. Repaired(b) =
        IF ~(Cardinality(Present(c)) >= p.k) \/ d.tag # "ok" \/ Encode(d.out, p).tag # "ok"
        THEN anchor[b]
        ELSE [i \in DOMAIN anchor[b] |-> IF c[i] = None THEN Encode(d.out, p).out[i] ELSE anchor[b][i]]
  BY <1>0 DEF Repaired, Available, IsReconstructable
<1>8. Repaired(b) = IF Cardinality(Present(c)) >= p.k /\ d.tag = "ok" THEN sh ELSE anchor[b]
  <2>1. CASE Cardinality(Present(c)) >= p.k /\ d.tag = "ok"
    <3>1. Encode(d.out, p).tag = "ok" /\ Encode(d.out, p).out = sh
      BY <2>1, <1>0, <1>2
    <3>2. Repaired(b) = [i \in DOMAIN sh |-> IF c[i] = None THEN sh[i] ELSE anchor[b][i]]
      BY <2>1, <3>1, <1>1, <1>7
    <3>3. Repaired(b) = [i \in DOMAIN sh |-> sh[i]]
      BY <3>2, <1>1
    <3>4. sh = [i \in DOMAIN sh |-> sh[i]]
      BY <1>1, LenProperties
    <3>. QED  BY <2>1, <3>3, <3>4
  <2>2. CASE ~(Cardinality(Present(c)) >= p.k /\ d.tag = "ok")
    BY <2>2, <1>7
  <2>. QED  BY <2>1, <2>2
<1>9. /\ anchor[b] \in Seq(Shard \cup {None})
      /\ \A i \in DOMAIN anchor[b] : anchor[b][i] = None \/ IsShard(anchor[b][i])
  BY DEF IInv, BlobInv
<1>10. sh \in Seq(Shard \cup {None})
  BY <1>1, SeqMonotonic
<1>11. /\ Repaired(b) \in Seq(Shard \cup {None}) /\ DOMAIN Repaired(b) = DOMAIN sh
       /\ \A i \in DOMAIN sh : Repaired(b)[i] = None \/ IsShard(Repaired(b)[i])
  BY <1>1, <1>8, <1>9, <1>10
<1>12. Restore(b).tag = "ok" => \A i \in DOMAIN anchor[b] : Repaired(b)[i] = sh[i]
  BY <1>5, <1>8
<1>. QED  BY <1>2, <1>5, <1>6, <1>11, <1>12

-----------------------------------------------------------------------------
\* A blob nothing happens to keeps its invariant.
LEMMA Untouched ==
    ASSUME NEW b \in Blob, BlobInv(b), coder' = coder,
           manifest'[b] = manifest[b], anchor'[b] = anchor[b], sent'[b] = sent[b]
    PROVE  BlobInv(b)'
<1>1. Made(b)' = Made(b)
  BY DEF Made, Encode
<1>2. StoredInv(b) => StoredInv(b)'
  BY <1>1 DEF StoredInv
<1>. QED  BY <1>2 DEF BlobInv

LEMMA PutStep ==
    ASSUME IInv, NEW b \in Blob, NEW ns \in Namespace, NEW data \in Seq(Nat),
           NEW text \in Text \cup {None},
           text # None => \E nonce \in Nonce : data = Encrypt(ns, nonce, text),
           Put(b, ns, data, text)
    PROVE  IInv'
<1>. PICK r : r = Encode(data, contract)  OBVIOUS
<1>. PICK sh : sh = r.out  OBVIOUS
<1>0. /\ contract \in Params /\ manifest[b] = None /\ UNCHANGED <<coder, contract>>
      /\ manifest \in [Blob -> Manifest \cup {None}]
      /\ anchor \in [Blob -> Seq(Shard \cup {None})]
      /\ sent \in [Blob -> Sent \cup {None}]
  BY DEF IInv, Put
<1>1. CASE r.tag = "ok"
  <2>. PICK m : m = [erasure |-> contract, ciphertext_len |-> Len(data),
                     shards |-> [i \in DOMAIN sh |->
                                   [sha256 |-> Sha256(sh[i]), size |-> sh[i].size]]]
    OBVIOUS
  <2>. PICK s : s = [data |-> data, ns |-> ns, text |-> text]  OBVIOUS
  <2>1. /\ anchor' = [anchor EXCEPT ![b] = sh] /\ manifest' = [manifest EXCEPT ![b] = m]
        /\ sent' = [sent EXCEPT ![b] = s] /\ seen' = Answer(b, Ok(<<>>))
    BY <1>1 DEF Put
  <2>2. sh \in Seq(Shard) /\ \A i \in DOMAIN sh : sh[i] \in Shard /\ IsShard(sh[i])
    BY <1>0, <1>1, EncodeIs
  <2>3. sh \in Seq(Shard \cup {None})
    BY <2>2, SeqMonotonic
  <2>4. m \in Manifest /\ m # None
    <3>. PICK n \in Nat : n = Len(sh) /\ DOMAIN sh = 1..n
      BY <2>2, LenProperties
    <3>. PICK e : e = [i \in DOMAIN sh |-> [sha256 |-> Sha256(sh[i]), size |-> sh[i].size]]
      OBVIOUS
    <3>1. \A i \in 1..n : [sha256 |-> Sha256(sh[i]), size |-> sh[i].size]
                             \in [sha256 : [sha256 : Shard], size : Nat]
      BY <2>2 DEF Sha256, Shard
    <3>2. e \in [1..n -> [sha256 : [sha256 : Shard], size : Nat]]
      BY <3>1
    <3>3. e \in Seq([sha256 : [sha256 : Shard], size : Nat])
      BY <3>2, FunIsSeq
    <3>4. m = [erasure |-> contract, ciphertext_len |-> Len(data), shards |-> e]
      OBVIOUS
    <3>5. Len(data) \in Nat
      BY LenProperties
    <3>. PICK S : S = Seq([sha256 : [sha256 : Shard], size : Nat])  OBVIOUS
    <3>6. m \in [erasure : Params, ciphertext_len : Nat, shards : S]
      <4>1. e \in S /\ contract \in Params
        BY <3>3, <1>0
      <4>. QED  BY <3>4, <3>5, <4>1
    <3>7. m \in Manifest
      BY <3>6, Zenon DEF Manifest
    <3>. QED  BY <3>7, NoneAssumption
  <2>5. s \in Sent /\ s.data = data /\ s.ns = ns /\ s.text = text
    BY DEF Sent
  <2>6. /\ manifest' \in [Blob -> Manifest \cup {None}] /\ manifest'[b] = m
        /\ anchor' \in [Blob -> Seq(Shard \cup {None})] /\ anchor'[b] = sh
        /\ sent' \in [Blob -> Sent \cup {None}] /\ sent'[b] = s
        /\ \A c \in Blob \ {b} : /\ manifest'[c] = manifest[c] /\ anchor'[c] = anchor[c]
                                 /\ sent'[c] = sent[c]
    BY <1>0, <2>1, <2>3, <2>4, <2>5
  <2>7. m.erasure = contract /\ m.ciphertext_len = Len(data)
        /\ m.shards = [i \in DOMAIN sh |-> [sha256 |-> Sha256(sh[i]), size |-> sh[i].size]]
    OBVIOUS
  <2>8. Made(b)' = r
    <3>1. Encode(data, contract)' = Encode(data, contract)
      BY <1>0 DEF Encode
    <3>2. sent'[b].data = data /\ manifest'[b].erasure = contract
      BY <2>5, <2>6, <2>7
    <3>. QED  BY <1>0, <3>1, <3>2 DEF Made, Encode
  <2>9. StoredInv(b)'
    BY <1>0, <1>1, <2>5, <2>6, <2>7, <2>8 DEF StoredInv
  <2>10. BlobInv(b)'
    BY <2>2, <2>4, <2>5, <2>6, <2>9 DEF BlobInv
  <2>11. \A c \in Blob : BlobInv(c)'
    BY <1>0, <2>6, <2>10, Untouched DEF IInv
  <2>12. SeenInv'
    BY <2>1 DEF SeenInv, Answer
  <2>. QED  BY <1>0, <2>6, <2>11, <2>12 DEF IInv
<1>2. CASE r.tag # "ok"
  <2>1. /\ UNCHANGED <<anchor, manifest, sent>>
        /\ seen' = IF r.tag = "panic" THEN seen ELSE Answer(None, r)
    BY <1>2 DEF Put
  <2>2. SeenInv'
    BY <1>2, <2>1 DEF IInv, SeenInv, Answer
  <2>3. \A c \in Blob : BlobInv(c)'
    BY <1>0, <2>1, Untouched DEF IInv
  <2>. QED  BY <1>0, <2>1, <2>2, <2>3 DEF IInv
<1>. QED  BY <1>1, <1>2

LEMMA GetStep ==
    ASSUME IInv, NEW b \in Blob, NEW ns \in Namespace, Get(b, ns)
    PROVE  IInv'
<1>. USE DEF Get
<1>. PICK r : r = Restore(b)  OBVIOUS
<1>. PICK o : o = IF r.tag = "ok" THEN Decrypt(ns, r.out) ELSE None  OBVIOUS
<1>1. /\ seen' = [Answer(b, r) EXCEPT !.opened = o, !.ns = ns]
      /\ manifest[b] # None /\ UNCHANGED <<coder, contract, manifest, anchor, sent>>
  OBVIOUS
<1>2. /\ seen'.tag = r.tag /\ seen'.out = r.out /\ seen'.blob = b
      /\ seen'.opened = o /\ seen'.ns = ns
  BY <1>1 DEF Answer
<1>3. r.tag = "ok" => r.out = sent[b].data
  BY <1>1, RestoreIs
<1>4. ASSUME r.tag = "ok", sent[b].text # None
      PROVE  o = IF ns = sent[b].ns THEN Ok(sent[b].text) ELSE Err("Crypto")
  <2>1. sent[b] \in Sent
    BY <1>1 DEF IInv, BlobInv
  <2>2. PICK nonce \in Nonce : sent[b].data = Encrypt(sent[b].ns, nonce, sent[b].text)
    BY <1>1, <1>4 DEF IInv, BlobInv, StoredInv
  <2>3. o = Decrypt(ns, Encrypt(sent[b].ns, nonce, sent[b].text))
    BY <1>3, <1>4, <2>2
  <2>4. sent[b].ns \in Namespace /\ sent[b].text \in Text
    BY <2>1, <1>4 DEF Sent
  <2>. QED  BY <2>3, <2>4, Opened
<1>5. SeenInv'
  BY <1>1, <1>2, <1>3, <1>4 DEF SeenInv
<1>6. \A c \in Blob : BlobInv(c)'
  BY <1>1, Untouched DEF IInv
<1>. QED  BY <1>1, <1>5, <1>6 DEF IInv

\* Whatever else is done to the shards of one blob, slot by slot.
LEMMA AnchorStep ==
    ASSUME IInv, NEW b \in Blob, NEW a \in Seq(Shard \cup {None}),
           DOMAIN a = DOMAIN anchor[b], \A i \in DOMAIN a : a[i] = None \/ IsShard(a[i]),
           manifest[b] # None, anchor' = [anchor EXCEPT ![b] = a],
           UNCHANGED <<coder, contract, manifest, seen, sent>>
    PROVE  IInv'
<1>1. /\ anchor' \in [Blob -> Seq(Shard \cup {None})] /\ anchor'[b] = a
      /\ \A c \in Blob \ {b} : anchor'[c] = anchor[c]
  BY DEF IInv
<1>2. Made(b)' = Made(b)
  BY DEF Made, Encode
<1>3. StoredInv(b)'
  BY <1>1, <1>2 DEF IInv, BlobInv, StoredInv
<1>4. BlobInv(b)'
  BY <1>1, <1>3 DEF IInv, BlobInv
<1>5. \A c \in Blob : BlobInv(c)'
  BY <1>1, <1>4, Untouched DEF IInv
<1>6. SeenInv'
  BY DEF IInv, SeenInv
<1>. QED  BY <1>1, <1>5, <1>6 DEF IInv

LEMMA RepairStep == ASSUME IInv, NEW b \in Blob, Repair(b) PROVE IInv'
<1>. PICK sh : sh = Made(b).out  OBVIOUS
<1>. PICK a : a = Repaired(b)  OBVIOUS
<1>1. /\ manifest[b] # None /\ anchor' = [anchor EXCEPT ![b] = a]
      /\ UNCHANGED <<coder, contract, manifest, seen, sent>>
  BY DEF Repair
<1>2. /\ a \in Seq(Shard \cup {None}) /\ DOMAIN a = DOMAIN sh
      /\ \A i \in DOMAIN sh : a[i] = None \/ IsShard(a[i])
  BY <1>1, RestoreIs
<1>3. DOMAIN anchor[b] = DOMAIN sh
  BY <1>1, CollectedIs
<1>. QED  BY <1>1, <1>2, <1>3, AnchorStep

LEMMA DamageStep ==
    ASSUME IInv, NEW b \in Blob, NEW i \in DOMAIN anchor[b], Damage(b, i)
    PROVE  IInv'
<1>1. PICK x \in {None, DataShard(<<>>)} \cup {anchor[b][j] : j \in DOMAIN anchor[b]} :
        anchor' = [anchor EXCEPT ![b][i] = x]
  BY DEF Damage
<1>. PICK a : a = [anchor[b] EXCEPT ![i] = x]  OBVIOUS
<1>2. /\ anchor[b] \in Seq(Shard \cup {None}) /\ anchor \in [Blob -> Seq(Shard \cup {None})]
      /\ \A j \in DOMAIN anchor[b] : anchor[b][j] = None \/ IsShard(anchor[b][j])
      /\ manifest[b] = None => anchor[b] = <<>>
  BY DEF IInv, BlobInv
<1>3. x \in Shard \cup {None} /\ (x = None \/ IsShard(x))
  <2>1. DataShard(<<>>) \in Shard /\ IsShard(DataShard(<<>>))
    <3>1. <<>> \in Seq(Nat)
      BY EmptySeq
    <3>. QED  BY <3>1, DataShardIs
  <2>. QED  BY <2>1, <1>1, <1>2 DEF IsShard
<1>4. DOMAIN anchor[b] = 1..Len(anchor[b]) /\ Len(anchor[b]) \in Nat
  BY <1>2, LenProperties
<1>5. a \in Seq(Shard \cup {None}) /\ DOMAIN a = DOMAIN anchor[b]
  <2>1. a \in Seq(Shard \cup {None})
    BY <1>2, <1>3, <1>4, ExceptSeq
  <2>. QED  BY <2>1
<1>6. \A j \in DOMAIN a : a[j] = None \/ IsShard(a[j])
  BY <1>2, <1>3, <1>5
<1>7. manifest[b] # None
  <2>1. CASE manifest[b] = None
    <3>1. Len(anchor[b]) = 0
      BY <2>1, <1>2
    <3>. QED  BY <3>1, <1>4
  <2>. QED  BY <2>1
<1>8. anchor' = [anchor EXCEPT ![b] = a]
  BY <1>1, <1>2
<1>. QED  BY <1>5, <1>6, <1>7, <1>8, AnchorStep DEF Damage

LEMMA NextInv == IInv /\ [Next]_vars => IInv'
<1>. SUFFICES ASSUME IInv, [Next]_vars PROVE IInv'
  OBVIOUS
<1>1. ASSUME NEW p \in Params, Register(p) PROVE IInv'
  <2>1. /\ contract' \in Params \cup {None} /\ UNCHANGED <<coder, manifest, anchor, seen, sent>>
    BY <1>1 DEF Register
  <2>2. \A b \in Blob : BlobInv(b)'
    BY <2>1, Untouched DEF IInv
  <2>. QED  BY <2>1, <2>2 DEF IInv, SeenInv
<1>2. ASSUME NEW b \in Blob, NEW ns \in Namespace, NEW nonce \in Nonce, NEW text \in Text,
             Put(b, ns, Encrypt(ns, nonce, text), text)
      PROVE  IInv'
  <2>1. Encrypt(ns, nonce, text) \in Seq(Nat)
    BY Opened
  <2>. QED  BY <1>2, <2>1, PutStep
<1>3. ASSUME NEW b \in Blob, NEW ns \in Namespace, NEW data \in Raw, Put(b, ns, data, None)
      PROVE  IInv'
  BY <1>3, PutStep, ErasureAssumption
<1>4. CASE UNCHANGED vars
  <2>1. UNCHANGED <<coder, contract, manifest, anchor, seen, sent>>
    BY <1>4 DEF vars
  <2>2. \A b \in Blob : BlobInv(b)'
    BY <2>1, Untouched DEF IInv
  <2>. QED  BY <2>1, <2>2 DEF IInv, SeenInv
<1>. QED  BY <1>1, <1>2, <1>3, <1>4, GetStep, RepairStep, DamageStep DEF Next

LEMMA InitInv == Init => IInv
<1>. SUFFICES ASSUME Init PROVE IInv
  OBVIOUS
<1>. USE DEF Init
<1>1. <<>> \in Seq(Shard \cup {None}) /\ DOMAIN <<>> = {}
  OBVIOUS
<1>2. \A b \in Blob : BlobInv(b)
  BY <1>1 DEF BlobInv
<1>3. SeenInv
  BY DEF SeenInv, Answer, Err
<1>. QED  BY <1>1, <1>2, <1>3 DEF IInv

\* The inductive invariant holds of every behaviour.
LEMMA Inductive == Spec => []IInv
BY InitInv, NextInv, PTL DEF Spec

-----------------------------------------------------------------------------
\* Manifests, shards and answers are well formed, whatever the parameters a
\* contract carries.
THEOREM TypeCorrect == Spec => []TypeOK
<1>1. IInv => TypeOK
  <2>. SUFFICES ASSUME IInv, NEW b \in Blob
                PROVE  /\ \A i \in DOMAIN anchor[b] : anchor[b][i] = None \/ IsShard(anchor[b][i])
                       /\ manifest[b] = None => anchor[b] = <<>> /\ sent[b] = None
                       /\ manifest[b] # None =>
                            /\ manifest[b].erasure \in Params
                            /\ manifest[b].ciphertext_len \in Nat
                            /\ DOMAIN manifest[b].shards = DOMAIN anchor[b]
                            /\ sent[b].data \in Seq(Nat)
    BY DEF IInv, TypeOK
  <2>1. BlobInv(b)
    BY DEF IInv
  <2>2. ASSUME manifest[b] # None
        PROVE  /\ manifest[b].erasure \in Params
               /\ manifest[b].ciphertext_len \in Nat
               /\ DOMAIN manifest[b].shards = DOMAIN anchor[b]
               /\ sent[b].data \in Seq(Nat)
    <3>1. DOMAIN manifest[b].shards = DOMAIN anchor[b]
      BY <2>2, CollectedIs
    <3>2. StoredInv(b)
      BY <2>1, <2>2 DEF BlobInv
    <3>. QED  BY <3>1, <3>2, LenProperties DEF StoredInv
  <2>. QED  BY <2>1, <2>2 DEF BlobInv
<1>. QED  BY <1>1, Inductive, PTL

\* A get answers the bytes that were put or an error: whatever the coder, the
\* parameters of the contract then and now, the shards that were lost, rotten or
\* swapped, and the repairs in between. It is the hash of every shard in the
\* manifest, and the manifest's own parameters, that get_backup.rs relies on.
THEOREM RestoreIsFaithful == Spec => []RestoredIsOriginal
<1>1. IInv => RestoredIsOriginal
  BY DEF IInv, SeenInv, RestoredIsOriginal
<1>. QED  BY <1>1, Inductive, PTL

\* "Any k of n shards reconstruct the blob", and fewer than k do not.
THEOREM AnyKSuffice == Spec => []AnyKRestore
<1>1. IInv => AnyKRestore
  BY RestoreIs DEF AnyKRestore
<1>. QED  BY <1>1, Inductive, PTL

\* "RS encode is deterministic, so hashes match the manifest": repairing a blob
\* that can be restored makes every shard what it was at the put.
THEOREM RepairRestoresAll == Spec => []RepairIsExact
<1>1. IInv => RepairIsExact
  <2>. SUFFICES ASSUME IInv, NEW b \in Blob, manifest[b] # None, Restore(b).tag = "ok",
                       NEW i \in DOMAIN anchor[b]
                PROVE  Sha256(Repaired(b)[i]) = manifest[b].shards[i].sha256
    BY DEF RepairIsExact
  <2>. PICK sh : sh = Made(b).out  OBVIOUS
  <2>1. Repaired(b)[i] = sh[i]
    BY RestoreIs
  <2>2. manifest[b].shards[i].sha256 = Sha256(sh[i])
    <3>1. i \in DOMAIN sh
      BY CollectedIs
    <3>. QED  BY <3>1, CollectedIs
  <2>. QED  BY <2>1, <2>2
<1>. QED  BY <1>1, Inductive, PTL

\* "Sizes are uniform so they leak nothing": one size for all shards of a blob,
\* enough for its bytes, and less than one byte of padding per data shard.
THEOREM ShardsAreUniform == Spec => []UniformShards
<1>1. IInv => UniformShards
  <2>. SUFFICES ASSUME IInv, NEW b \in Blob, manifest[b] # None, coder = "rs"
                PROVE  LET m == manifest[b]
                           size == m.shards[1].size
                       IN  /\ \A i \in DOMAIN m.shards : m.shards[i].size = size
                           /\ Valid(m.erasure) => Len(m.shards) = m.erasure.n
                           /\ m.erasure.k * size >= m.ciphertext_len
                           /\ m.erasure.k * size < m.ciphertext_len + m.erasure.k \/ size = 1
    BY DEF UniformShards
  <2>. PICK data : data = sent[b].data  OBVIOUS
  <2>. PICK p : p = manifest[b].erasure  OBVIOUS
  <2>. PICK sh : sh = Made(b).out  OBVIOUS
  <2>. PICK size : size = ShardSize(Len(data), p.k)  OBVIOUS
  <2>. PICK shards : shards = manifest[b].shards  OBVIOUS
  <2>0. /\ data \in Seq(Nat) /\ p \in Params /\ manifest[b].ciphertext_len = Len(data)
        /\ sh = RsEncode(data, p).out /\ p.k # 0
    <3>1. /\ data \in Seq(Nat) /\ p \in Params /\ manifest[b].ciphertext_len = Len(data)
          /\ Encode(data, p).tag = "ok" /\ sh = Encode(data, p).out
      BY DEF IInv, BlobInv, StoredInv, Made
    <3>2. sh = RsEncode(data, p).out /\ p.k # 0
      BY <3>1, EncodeIs
    <3>. QED  BY <3>1, <3>2
  <2>1. /\ DOMAIN sh = 1..Larger(p.k, p.n) /\ Larger(p.k, p.n) \in Nat
        /\ \A i \in 1..Larger(p.k, p.n) : sh[i].size = size
    <3>1. /\ DOMAIN sh = 1..Larger(p.k, p.n) /\ Larger(p.k, p.n) \in Nat
          /\ \A i \in 1..Larger(p.k, p.n) : sh[i].size = ShardSize(Len(data), p.k)
      BY <2>0, RsShards
    <3>. QED  BY <3>1
  <2>2. p.k \in Nat /\ p.n \in Nat /\ p.k >= 1 /\ Larger(p.k, p.n) >= 1
        /\ (Valid(p) => Larger(p.k, p.n) = p.n)
    BY <2>0, ErasureAssumption DEF Params, Larger, Valid
  <2>3. DOMAIN shards = DOMAIN sh /\ \A i \in DOMAIN sh : shards[i].size = sh[i].size
    BY CollectedIs
  <2>4. \A i \in DOMAIN shards : shards[i].size = size
    BY <2>1, <2>3
  <2>5. shards[1].size = size
    BY <2>1, <2>2, <2>3, <2>4
  <2>6. Len(shards) = Larger(p.k, p.n)
    <3>. PICK S : S = [sha256 : [sha256 : Shard], size : Nat]  OBVIOUS
    <3>1. shards \in Seq(S)
      BY DEF IInv, Manifest
    <3>2. DOMAIN shards = 1..Len(shards) /\ Len(shards) \in Nat
      BY <3>1, LenProperties
    <3>. QED  BY <3>2, <2>1, <2>3
  <2>7. /\ p.k * size >= Len(data)
        /\ p.k * size < Len(data) + p.k \/ size = 1
    <3>1. Len(data) \in Nat
      BY <2>0, LenProperties
    <3>. QED  BY <3>1, <2>2, SizeHolds
  <2>. QED  BY <2>0, <2>2, <2>4, <2>5, <2>6, <2>7
<1>. QED  BY <1>1, Inductive, PTL

\* What the SDK opens after a get is the plaintext it sealed, and the key of
\* another namespace opens nothing.
THEOREM OnlyOwnKeyOpens == Spec => []OpensWithOwnKeyOnly
<1>1. IInv => OpensWithOwnKeyOnly
  BY DEF IInv, SeenInv, OpensWithOwnKeyOnly
<1>. QED  BY <1>1, Inductive, PTL
=============================================================================
