------------------------------ MODULE Erasure ------------------------------
(***************************************************************************)
(* From an app's plaintext to its shards and back: the SDK's envelope, the *)
(* coders behind the ErasureCoder port, and the way PutBackup, GetBackup   *)
(* and RepairShards use them with the parameters of the app's contract,    *)
(* which reach the coder as the app sent them.                             *)
(*                                                                         *)
(* Abstraction. Each use-case is one step here: their interleavings and    *)
(* their peers are BlobLifecycle's. SHA-256 and AES-GCM are ideal, and so  *)
(* is the arithmetic of the Reed-Solomon library: a parity shard stands    *)
(* for the data shards it was computed from, and any k shards of one code  *)
(* word give the others.                                                   *)
(***************************************************************************)
EXTENDS Integers, Sequences, FiniteSets, Domain

CONSTANTS
    Blob,
    Coders,       \* the adapters a node-agent may be built with: "rs", "copies"
    MaxParam,     \* k and n are unsigned integers up to it (255)
    Namespace,    \* an app's namespaces: a content key is derived for each
    NonceLen,     \* NONCE_LEN
    Nonce,        \* nonces: sequences of NonceLen bytes
    Text,         \* plaintexts: byte sequences
    Raw,          \* other byte sequences apps may upload
    Aead(_, _, _),\* namespace (for its key), nonce, plaintext -> ciphertext and tag
    None

ASSUME ErasureAssumption ==
    /\ MaxParam \in Nat /\ NonceLen \in Nat
    /\ Nonce \subseteq Seq(Nat) /\ \A v \in Nonce : Len(v) = NonceLen
    /\ Text \subseteq Seq(Nat) /\ Raw \subseteq Seq(Nat)
    /\ \A ns \in Namespace, v \in Nonce, p \in Text :
        /\ Aead(ns, v, p) \in Seq(Nat)
        /\ \A ns2 \in Namespace, p2 \in Text :
            Aead(ns, v, p) = Aead(ns2, v, p2) => ns = ns2 /\ p = p2

VARIABLES
    coder,      \* the adapter the node-agents are built with
    contract,   \* the erasure parameters of the app that puts
    manifest,   \* Blob -> what PutBackup recorded, or None
    anchor,     \* Blob -> its shards, by index
    seen,       \* the last answer to a get or put, as the app has it
    \* history, never read by the program
    sent        \* Blob -> the bytes, the namespace and the plaintext (None if raw)

vars == <<coder, contract, manifest, anchor, seen, sent>>

Ok(x)  == [tag |-> "ok", out |-> x]
Err(e) == [tag |-> e, out |-> <<>>]

-----------------------------------------------------------------------------
(* The envelope: nonce, then ciphertext and tag. *)

\* Mutant: the nonce is appended.
EncryptSuffixed(ns, nonce, text) == Aead(ns, nonce, text) \o nonce

Encrypt(ns, nonce, text) == nonce \o Aead(ns, nonce, text)

Decrypt(ns, bytes) ==
    LET nonce  == SubSeq(bytes, 1, NonceLen)
        ct     == SubSeq(bytes, NonceLen + 1, Len(bytes))
        Opens(p) == nonce \in Nonce /\ Aead(ns, nonce, p) = ct
    IN  IF Len(bytes) < NonceLen \/ ~ \E p \in Text : Opens(p) THEN Err("Crypto")
        ELSE Ok(CHOOSE p \in Text : Opens(p))

Sha256(shard) == [sha256 |-> shard]

-----------------------------------------------------------------------------
(* The coders. A data shard holds bytes; a parity shard of row r > 0 stands *)
(* for the data shards it was computed from.                               *)

Params == [k : 0..MaxParam, n : 0..MaxParam]
Valid(p) == p.k # 0 /\ p.n >= p.k

Shard == [row : Nat, size : Nat, of : Seq(Seq(Nat))]

DataShard(bytes) == [row |-> 0, size |-> Len(bytes), of |-> <<bytes>>]
Larger(a, b) == IF a < b THEN b ELSE a

\* Mutant: rounded down.
ShardSizeFloor(len, k) == Larger(len \div k, 1)

\* Fixed-size, zero-padded shards, at least one byte long.
ShardSize(len, k) == Larger((len + k - 1) \div k, 1)

\* Mutant: the last shard is not padded.
SliceUnpadded(data, size, i) ==
    SubSeq(data, (i - 1) * size + 1, IF i * size < Len(data) THEN i * size ELSE Len(data))

\* Bytes i*size.. of the data, then zeros.
Slice(data, size, i) ==
    [j \in 1..size |-> IF (i - 1) * size + j <= Len(data)
                       THEN data[(i - 1) * size + j] ELSE 0]

RsEncode(data, p) ==
    IF p.k = 0 THEN Err("panic")
    ELSE LET size == ShardSize(Len(data), p.k)
             rows == [i \in 1..p.k |-> Slice(data, size, i)]
         IN  Ok([i \in 1..Larger(p.k, p.n) |->
                    IF i <= p.k THEN DataShard(rows[i])
                    ELSE [row |-> i - p.k, size |-> size, of |-> rows]])

Present(slots) == {i \in DOMAIN slots : slots[i] # None}

\* ReedSolomon::reconstruct, given at least k shards: parity rows that fit the
\* other shards give the missing data, a mixture gives other bytes.
Reconstruct(slots, k) ==
    LET par == {i \in Present(slots) : i > k}
        rows == slots[CHOOSE i \in par : TRUE].of
        fits == /\ \A i \in par : slots[i].of = rows
                /\ \A i \in Present(slots) \ par : slots[i].of = <<rows[i]>>
    IN  [i \in DOMAIN slots |->
            IF i > k \/ slots[i] # None \/ par = {} THEN slots[i]
            ELSE IF fits THEN DataShard(rows[i]) ELSE DataShard(<<>>)]

\* The first k shards, one after the other. They have the size of the first.
Concat(shards, k) ==
    LET size == shards[1].size
    IN  [x \in 1..(k * size) |->
            shards[((x - 1) \div size) + 1].of[1][((x - 1) % size) + 1]]

\* Mutant: the padding stays.
TruncateNot(bytes, len) == bytes

Truncate(bytes, len) == SubSeq(bytes, 1, IF len < Len(bytes) THEN len ELSE Len(bytes))

RsDecode(slots, p, len) ==
    IF Len(slots) # p.n THEN Err("Backend")
    ELSE IF Present(slots) = {} \/ Cardinality(Present(slots)) < p.k THEN Err("Unavailable")
    ELSE LET full == IF p.n > p.k THEN Reconstruct(slots, p.k) ELSE slots
         IN  IF \E i \in 1..p.k : full[i] = None THEN Err("Unavailable")
             ELSE Ok(Truncate(Concat(full, p.k), len))

\* The passthrough coder: n copies, of which any one is the blob.
CopiesEncode(data, p) ==
    IF p.k # 1 THEN Err("Backend")
    ELSE Ok([i \in 1..Larger(p.n, 1) |-> DataShard(data)])

CopiesDecode(slots, p, len) ==
    LET first == slots[CHOOSE i \in Present(slots) : \A j \in Present(slots) : i <= j]
    IN  IF p.k # 1 THEN Err("Backend")
        ELSE IF Present(slots) = {} THEN Err("Unavailable")
        ELSE IF first.size < len THEN Err("Integrity")
        ELSE Ok(Truncate(first.of[1], len))

Encode(data, p) == IF coder = "rs" THEN RsEncode(data, p) ELSE CopiesEncode(data, p)
Decode(slots, p, len) ==
    IF coder = "rs" THEN RsDecode(slots, p, len) ELSE CopiesDecode(slots, p, len)

-----------------------------------------------------------------------------
(* The use-cases. *)

Manifest ==
    [erasure : Params, ciphertext_len : Nat,
     shards : Seq([sha256 : [sha256 : Shard], size : Nat])]

\* What is not there can be told from what is: the code's Option.
ASSUME NoneAssumption == None \notin Shard /\ None \notin Manifest

Answer(b, r) == [blob |-> b, tag |-> r.tag, out |-> r.out, opened |-> None, ns |-> None]

Init ==
    /\ coder \in Coders
    /\ contract = None
    /\ manifest = [b \in Blob |-> None]
    /\ anchor = [b \in Blob |-> <<>>]
    /\ seen = Answer(None, Err("none"))
    /\ sent = [b \in Blob |-> None]

\* RegisterApp: the parameters are deserialized and taken as they are. Every
\* registration is a new app; blobs of earlier ones stay.
Register(p) ==
    /\ contract' = p
    /\ UNCHANGED <<coder, manifest, anchor, seen, sent>>

\* PutBackup, from the upload to the acknowledgement. A panic ends the request
\* without one.
Put(b, ns, data, text) ==
    /\ contract # None /\ manifest[b] = None
    /\ LET r == Encode(data, contract)
       IN  IF r.tag = "ok"
           THEN /\ anchor' = [anchor EXCEPT ![b] = r.out]
                /\ manifest' = [manifest EXCEPT ![b] =
                       [erasure |-> contract, ciphertext_len |-> Len(data),
                        shards |-> [i \in DOMAIN r.out |->
                                       [sha256 |-> Sha256(r.out[i]), size |-> r.out[i].size]]]]
                /\ sent' = [sent EXCEPT ![b] = [data |-> data, ns |-> ns, text |-> text]]
                /\ seen' = Answer(b, Ok(<<>>))
           ELSE /\ seen' = IF r.tag = "panic" THEN seen ELSE Answer(None, r)
                /\ UNCHANGED <<anchor, manifest, sent>>
    /\ UNCHANGED <<coder, contract>>

\* The shards of b whose hash is the manifest's; any other is an erasure.
Collected(b) ==
    [i \in DOMAIN manifest[b].shards |->
        IF anchor[b][i] # None /\ Sha256(anchor[b][i]) = manifest[b].shards[i].sha256
        THEN anchor[b][i] ELSE None]

Available(b) == Cardinality(Present(Collected(b)))

\* Mutant: decodes by the app's contract of today.
RestoreByContract(b) ==
    LET m == manifest[b]
    IN  IF ~IsReconstructable(Available(b), m.erasure.k) THEN Err("Unavailable")
        ELSE Decode(Collected(b), contract, m.ciphertext_len)

\* GetBackup::restore.
Restore(b) ==
    LET m == manifest[b]
    IN  IF ~IsReconstructable(Available(b), m.erasure.k) THEN Err("Unavailable")
        ELSE Decode(Collected(b), m.erasure, m.ciphertext_len)

\* An app gets a blob, and opens it with the key of one of its namespaces.
Get(b, ns) ==
    /\ manifest[b] # None
    /\ LET r == Restore(b)
       IN  seen' = [Answer(b, r) EXCEPT
               !.opened = IF r.tag = "ok" THEN Decrypt(ns, r.out) ELSE None, !.ns = ns]
    /\ UNCHANGED <<coder, contract, manifest, anchor, sent>>

\* Mutant: encodes by the app's contract of today.
RepairedByContract(b) ==
    LET m == manifest[b]
        d == Decode(Collected(b), m.erasure, m.ciphertext_len)
        fresh == Encode(d.out, contract)
    IN  IF ~IsReconstructable(Available(b), m.erasure.k) \/ d.tag # "ok" \/ fresh.tag # "ok"
        THEN anchor[b]
        ELSE [i \in DOMAIN anchor[b] |->
                 IF Collected(b)[i] = None /\ i \in DOMAIN fresh.out THEN fresh.out[i]
                 ELSE anchor[b][i]]

\* What RepairShards leaves on the anchor: the bad shards are taken from the
\* blob, decoded and encoded once more.
Repaired(b) ==
    LET m == manifest[b]
        d == Decode(Collected(b), m.erasure, m.ciphertext_len)
        fresh == Encode(d.out, m.erasure)
    IN  IF ~IsReconstructable(Available(b), m.erasure.k) \/ d.tag # "ok" \/ fresh.tag # "ok"
        THEN anchor[b]
        ELSE [i \in DOMAIN anchor[b] |->
                 IF Collected(b)[i] = None THEN fresh.out[i] ELSE anchor[b][i]]

Repair(b) ==
    /\ manifest[b] # None
    /\ anchor' = [anchor EXCEPT ![b] = Repaired(b)]
    /\ UNCHANGED <<coder, contract, manifest, seen, sent>>

\* A shard is lost, rots, or is overwritten by another one.
Damage(b, i) ==
    /\ \E x \in {None, DataShard(<<>>)} \cup {anchor[b][j] : j \in DOMAIN anchor[b]} :
        anchor' = [anchor EXCEPT ![b][i] = x]
    /\ UNCHANGED <<coder, contract, manifest, seen, sent>>

Next ==
    \/ \E p \in Params : Register(p)
    \/ \E b \in Blob, ns \in Namespace :
        \/ \E nonce \in Nonce, text \in Text : Put(b, ns, Encrypt(ns, nonce, text), text)
        \/ \E data \in Raw : Put(b, ns, data, None)
        \/ Get(b, ns)
    \/ \E b \in Blob :
        \/ Repair(b)
        \/ \E i \in DOMAIN anchor[b] : Damage(b, i)

Spec == Init /\ [][Next]_vars

-----------------------------------------------------------------------------
(* Properties. *)

IsShard(x) ==
    /\ x \in Shard /\ Len(x.of) >= 1
    /\ \A j \in DOMAIN x.of : Len(x.of[j]) = x.size

\* Manifests, shards and answers stay well formed: every shard has the bytes its
\* size says, the anchor has a place for every shard of the manifest.
TypeOK ==
    /\ coder \in Coders
    /\ contract \in Params \cup {None}
    /\ \A b \in Blob :
        /\ \A i \in DOMAIN anchor[b] : anchor[b][i] = None \/ IsShard(anchor[b][i])
        /\ manifest[b] = None => anchor[b] = <<>> /\ sent[b] = None
        /\ manifest[b] # None =>
            /\ manifest[b].erasure \in Params
            /\ manifest[b].ciphertext_len \in Nat
            /\ DOMAIN manifest[b].shards = DOMAIN anchor[b]
            /\ sent[b].data \in Seq(Nat)

\* A get answers the bytes that were put or an error, never other bytes: with
\* any parameters a contract may carry, any damage, after any repairs, and
\* though the app's contract is another by then.
RestoredIsOriginal ==
    seen.tag = "ok" /\ seen.ns # None => seen.out = sent[seen.blob].data

\* "Any k of n shards reconstruct the blob", exactly: with parameters that
\* ErasureParams::new accepts, a restore succeeds if and only if k of the
\* blob's shards are what was put.
AnyKRestore ==
    \A b \in Blob : manifest[b] # None /\ Valid(manifest[b].erasure) =>
        (Restore(b).tag = "ok" <=> Available(b) >= manifest[b].erasure.k)

\* "RS encode is deterministic, so hashes match the manifest": a repair of a
\* blob that can be restored leaves every shard as it was put.
RepairIsExact ==
    \A b \in Blob : manifest[b] # None /\ Restore(b).tag = "ok" =>
        \A i \in DOMAIN anchor[b] : Sha256(Repaired(b)[i]) = manifest[b].shards[i].sha256

\* "Sizes are uniform so they leak nothing": the shards of a blob have one
\* size, they hold the whole blob, and padding is less than one byte per shard
\* or all of an empty blob's.
UniformShards ==
    \A b \in Blob : manifest[b] # None /\ coder = "rs" =>
        LET m == manifest[b]
            size == m.shards[1].size
        IN  /\ \A i \in DOMAIN m.shards : m.shards[i].size = size
            /\ Valid(m.erasure) => Len(m.shards) = m.erasure.n
            /\ m.erasure.k * size >= m.ciphertext_len
            /\ m.erasure.k * size < m.ciphertext_len + m.erasure.k \/ size = 1

\* What the SDK opens is the plaintext it sealed, and only the key of the same
\* namespace opens it.
OpensWithOwnKeyOnly ==
    seen.tag = "ok" /\ seen.ns # None /\ sent[seen.blob].text # None =>
        LET s == sent[seen.blob]
        IN  seen.opened = IF seen.ns = s.ns THEN Ok(s.text) ELSE Err("Crypto")

\* "Encode data into exactly params.n shards", of which any k suffice: a put
\* that was acknowledged can be restored as long as nothing is damaged.
AcceptedIsRestorable ==
    \A b \in Blob : manifest[b] # None /\ Present(Collected(b)) = DOMAIN anchor[b] =>
        Restore(b).tag = "ok"
=============================================================================
