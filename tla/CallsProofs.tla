----------------------------- MODULE CallsProofs -----------------------------
(***************************************************************************)
(* The adapters keep the promise of their ports, and the SDK's answers     *)
(* mean what they say, for any number of callers, blobs, shards, payloads, *)
(* lost messages, restarts and clock ticks.                                *)
(***************************************************************************)
EXTENDS Calls, FiniteSetTheorems, SequenceTheorems, TLAPS

-----------------------------------------------------------------------------
(* The QUIC frames.                                                        *)

\* The part of a sequence where another one was put.
LEMMA PartOf ==
    ASSUME NEW s \in Seq(Nat), NEW part \in Seq(Nat), NEW m \in Nat, m >= 1,
           NEW n \in Nat, n = m + Len(part) - 1, n <= Len(s),
           \A i \in 1..Len(part) : s[m + i - 1] = part[i]
    PROVE  SubSeq(s, m, n) = part
<1>. PICK t : t = SubSeq(s, m, n)  OBVIOUS
<1>0. Len(part) \in Nat /\ Len(s) \in Nat /\ m \in Int /\ n \in Int
  BY LenProperties
<1>1. \A i \in m..n : s[i] \in Nat
  BY <1>0, LenProperties
<1>2. /\ t \in Seq(Nat) /\ Len(t) = (IF m <= n THEN n - m + 1 ELSE 0)
      /\ \A i \in 1..(n - m + 1) : t[i] = s[m + i - 1]
  BY <1>0, <1>1, SubSeqProperties
<1>3. n - m + 1 = Len(part) /\ Len(t) = Len(part)
  BY <1>0, <1>2
<1>4. \A i \in 1..Len(t) : t[i] = part[i]
  BY <1>2, <1>3
<1>. QED  BY <1>2, <1>3, <1>4, SeqEqual

LEMMA Bytes16 ==
    ASSUME NEW n \in Nat, n < 65536
    PROVE  /\ n % 65536 = n /\ n \div 256 \in Nat /\ n % 256 \in Nat
           /\ 256 * (n \div 256) + (n % 256) = n
<1>1. n % 65536 = n
  OBVIOUS
<1>2. n \div 256 \in Nat /\ n % 256 \in Nat
  OBVIOUS
<1>3. 256 * (n \div 256) + (n % 256) = n
  OBVIOUS
<1>. QED  BY <1>1, <1>2, <1>3

\* What a request's frame looks like.
IsFrame(buf, op, key, payload) ==
    /\ buf \in Seq(Nat) /\ Len(buf) = 3 + Len(key) + Len(payload)
    /\ buf[1] = op /\ buf[2] \in Nat /\ buf[3] \in Nat /\ 256 * buf[2] + buf[3] = Len(key)
    /\ \A i \in 1..Len(key) : buf[3 + i] = key[i]
    /\ \A i \in 1..Len(payload) : buf[3 + Len(key) + i] = payload[i]

\* Cut out by its offset.
LEMMA CutOut ==
    ASSUME NEW s \in Seq(Nat), NEW part \in Seq(Nat), NEW m \in Nat, m + Len(part) <= Len(s),
           \A i \in 1..Len(part) : s[m + i] = part[i]
    PROVE  SubSeq(s, m + 1, m + Len(part)) = part
<1>1. Len(part) \in Nat /\ Len(s) \in Nat
  BY LenProperties
<1>. PICK a \in Nat : a = m + 1  OBVIOUS
<1>. PICK e \in Nat : e = m + Len(part)
  BY <1>1
<1>2. \A i \in 1..Len(part) : s[a + i - 1] = part[i]
  <2>. TAKE i \in 1..Len(part)
  <2>1. a + i - 1 = m + i
    BY <1>1
  <2>. QED  BY <2>1
<1>3. a >= 1 /\ e = a + Len(part) - 1 /\ e <= Len(s)
  BY <1>1
<1>4. SubSeq(s, a, e) = part
  BY <1>2, <1>3, PartOf
<1>. QED  BY <1>4

LEMMA Parses ==
    ASSUME NEW op, NEW key \in Seq(Nat), NEW payload \in Seq(Nat),
           NEW buf, IsFrame(buf, op, key, payload)
    PROVE  ParseRequest(buf) = [op |-> op, key |-> key, payload |-> payload]
<1>. PICK n \in Nat : n = Len(key)
  BY LenProperties
<1>. PICK l \in Nat : l = Len(payload)
  BY LenProperties
<1>. PICK m \in Nat : m = 3 + n
  OBVIOUS
<1>0. buf \in Seq(Nat) /\ Len(buf) = m + l
  BY DEF IsFrame
<1>1. SubSeq(buf, 3 + 1, 3 + Len(key)) = key
  <2>1. \A i \in 1..Len(key) : buf[3 + i] = key[i]
    BY DEF IsFrame
  <2>2. 3 + Len(key) <= Len(buf)
    BY <1>0
  <2>. QED  BY <2>1, <2>2, <1>0, CutOut
<1>2. SubSeq(buf, m + 1, m + Len(payload)) = payload
  <2>1. \A i \in 1..Len(payload) : buf[m + i] = payload[i]
    BY DEF IsFrame
  <2>2. m + Len(payload) <= Len(buf)
    BY <1>0
  <2>. QED  BY <2>1, <2>2, <1>0, CutOut
<1>3. ~(Len(buf) < 3 \/ Len(buf) < 3 + n)
  BY <1>0
<1>4. 256 * buf[2] + buf[3] = n /\ buf[1] = op
  BY DEF IsFrame
<1>5. ParseRequest(buf) = [op |-> buf[1], key |-> SubSeq(buf, 4, 3 + n),
                           payload |-> SubSeq(buf, 4 + n, Len(buf))]
  <2>. PICK sum : sum = 256 * buf[2] + buf[3]  OBVIOUS
  <2>1. ParseRequest(buf) =
            IF Len(buf) < 3 \/ Len(buf) < 3 + sum THEN None
            ELSE [op |-> buf[1], key |-> SubSeq(buf, 4, 3 + sum),
                  payload |-> SubSeq(buf, 4 + sum, Len(buf))]
    BY Zenon DEF ParseRequest
  <2>2. sum = n
    BY <1>4
  <2>. QED  BY <2>1, <2>2, <1>3, Zenon
<1>6. 4 = 3 + 1 /\ 4 + n = m + 1 /\ Len(buf) = m + Len(payload)
  BY <1>0
<1>7. SubSeq(buf, 4, 3 + n) = key
  BY <1>1, <1>6
<1>8. SubSeq(buf, 4 + n, Len(buf)) = payload
  BY <1>2, <1>6
<1>. QED  BY <1>4, <1>5, <1>7, <1>8, Zenon

IsJoin(c, a, b) ==
    /\ c \in Seq(Nat) /\ Len(c) = Len(a) + Len(b)
    /\ \A i \in 1..Len(a) : c[i] = a[i]
    /\ \A i \in 1..Len(b) : c[Len(a) + i] = b[i]

LEMMA Appended ==
    ASSUME NEW a \in Seq(Nat), NEW b \in Seq(Nat)
    PROVE  a \o b \in Seq(Nat) /\ IsJoin(a \o b, a, b)
  BY DEF IsJoin

\* The first three bytes: the operation and the length of the key.
IsHead(head, op, n) ==
    /\ head \in Seq(Nat) /\ Len(head) = 3
    /\ head[1] = op /\ 256 * head[2] + head[3] = n

LEMMA Built ==
    ASSUME NEW op, NEW key \in Seq(Nat), NEW head, IsHead(head, op, Len(key)),
           NEW payload \in Seq(Nat),
           NEW a \in Seq(Nat), IsJoin(a, head, key), NEW buf, IsJoin(buf, a, payload)
    PROVE  IsFrame(buf, op, key, payload)
<1>. PICK n \in Nat : n = Len(key)
  BY LenProperties
<1>0. head \in Seq(Nat) /\ Len(head) = 3 /\ head[1] = op /\ 256 * head[2] + head[3] = n
  BY DEF IsHead
<1>1. Len(a) = 3 + n /\ buf \in Seq(Nat) /\ Len(buf) = 3 + n + Len(payload)
  BY <1>0 DEF IsJoin
<1>2. \A i \in 1..n : buf[3 + i] = key[i]
  <2>. TAKE i \in 1..n
  <2>1. 3 + i \in 1..Len(a)
    BY <1>1
  <2>2. buf[3 + i] = a[3 + i]
    BY <2>1 DEF IsJoin
  <2>3. a[3 + i] = key[i]
    BY <1>0 DEF IsJoin
  <2>. QED  BY <2>2, <2>3
<1>3. /\ 1 \in 1..Len(head) /\ 2 \in 1..Len(head) /\ 3 \in 1..Len(head)
      /\ 1 \in 1..Len(a) /\ 2 \in 1..Len(a) /\ 3 \in 1..Len(a)
  BY <1>0, <1>1
<1>4. buf[1] = head[1] /\ buf[2] = head[2] /\ buf[3] = head[3]
  BY <1>3 DEF IsJoin
<1>5. head[2] \in Nat /\ head[3] \in Nat
  BY <1>0, <1>3, LenProperties
<1>6. \A i \in 1..Len(payload) : buf[3 + n + i] = payload[i]
  BY <1>1 DEF IsJoin
<1>. QED  BY <1>0, <1>1, <1>2, <1>4, <1>5, <1>6 DEF IsFrame

LEMMA FrameOf ==
    ASSUME NEW op, NEW key \in Seq(Nat), NEW head \in Seq(Nat), IsHead(head, op, Len(key)),
           NEW payload \in Seq(Nat)
    PROVE  IsFrame((head \o key) \o payload, op, key, payload)
BY Appended, Built, Zenon

\* parse_request gives back what encode_request was given, for every key that
\* fits its length field and every payload.
LEMMA FrameRoundTrip ==
    ASSUME NEW op \in Nat, NEW key \in Seq(Nat), Len(key) < 65536, NEW payload \in Seq(Nat)
    PROVE  ParseRequest(EncodeRequest(op, key, payload)) =
              [op |-> op, key |-> key, payload |-> payload]
<1>. DEFINE hi == (Len(key) % 65536) \div 256
            lo == (Len(key) % 65536) % 256
            head == <<op, hi, lo>>
<1>1. EncodeRequest(op, key, payload) = (head \o key) \o payload
  BY DEF EncodeRequest
<1>2. hi \in Nat /\ lo \in Nat /\ 256 * hi + lo = Len(key)
  <2>1. Len(key) \in Nat
    BY LenProperties
  <2>. QED  BY <2>1, Bytes16
<1>. HIDE DEF hi, lo
<1>3. head \in Seq(Nat) /\ IsHead(head, op, Len(key))
  BY <1>2 DEF IsHead
<1>. HIDE DEF head
<1>4. IsFrame((head \o key) \o payload, op, key, payload)
  BY <1>3, FrameOf
<1>. QED  BY <1>1, <1>4, Parses

-----------------------------------------------------------------------------
(* The inductive invariant. What a port call may rely on at each hop: its  *)
(* keys are those of the call until a server has acted, and an answer that *)
(* its adapter takes for success was given after all of them were served.  *)

Request ==
    [via : {"meta", "s3", "peer", "quic"}, op : {"get", "list", "put", "del"},
     keys : SUBSET Key, val : Value \cup {None}]

\* What each adapter is asked for.
ReqOK(q) ==
    /\ q.op = "put" => q.val \in Value
    /\ q.op = "del" => q.val = None /\ q.via \in {"meta", "s3"}
    /\ q.op = "list" => q.via = "meta"
    /\ q.via \in {"peer", "quic"} => \E b \in Blob : q.keys = {PeerKey(b)}

Requests == {q \in Request : ReqOK(q)}

Users == {"none", "put", "get", "delete", "list"}

CallState ==
    [pc : {"idle", "asked", "ready", "presign", "sent", "deleting", "answered", "replied"},
     user : Users, blob : Blob \cup {None},
     plan : Seq(Requests), todo : SUBSET Key, got : SUBSET (Key \cup Value),
     resp : Seq(Nat), exp : Nat, risk : BOOLEAN, life : 0..MaxRestarts,
     known : Blob \cup {None}]

\* An answer on its way back to the adapter.
AnswerInv(r, q) ==
    /\ r.resp # <<>>
    /\ r.got \subseteq IF q.op = "list" THEN Key ELSE Value
    /\ q.via = "meta" => r.resp[1] \in {200, 403} /\ (r.resp[1] = 200 => r.todo = {})
    /\ q.via = "s3" =>
        (r.resp[1] = 200 \/ (q.op = "get" /\ r.resp[1] \in {403, 404}) => r.todo = {})
    /\ q.via = "peer" =>
        (r.resp[1] = 200 \/ (q.op = "get" /\ r.resp[1] = 404) => r.todo = {})
    /\ q.via = "quic" /\ q.op = "get" =>
        /\ r.resp[1] = ST_OK => r.todo = {} /\ r.got = {Tail(r.resp)}
        /\ r.resp[1] = ST_NOT_FOUND => r.todo = {} /\ r.got = {}
    /\ q.via = "quic" /\ q.op = "put" =>
        r.got = {} /\ (r.resp[1] = ST_OK => r.todo = {})

StepInv(r) ==
    /\ r.pc \in {"idle", "asked", "ready", "replied"} => r.todo = {} /\ r.got = {}
    /\ r.pc \notin {"idle", "replied"} => r.plan # <<>>
    /\ r.pc \in {"presign", "sent"} => r.todo = Head(r.plan).keys /\ r.got = {}
    /\ r.pc = "presign" => Head(r.plan).via = "s3" /\ Head(r.plan).op # "del"
    /\ r.pc = "deleting" =>
        Head(r.plan).via = "s3" /\ Head(r.plan).op = "del" /\ r.got = {}
    /\ r.pc = "answered" => AnswerInv(r, Head(r.plan))
    /\ r.pc = "replied" => r.resp # <<>>

LateWrite == [todo : SUBSET Key, val : Value \cup {None}]

\* All but the calls.
World ==
    /\ store \in [Key -> Value \cup {None}]
    /\ result.by \in Caller \cup {None} /\ result.tag \in {"none", "ok", "error"}
    /\ late \subseteq LateWrite
    /\ seen.tag \in {"none", "ok", "server", "encoding", "transport"}
    /\ used \subseteq Blob /\ doomed \subseteq Blob
    /\ now \in 0..MaxNow /\ asks \in 0..MaxAsks /\ own \in 0..MaxOwn
    /\ restarts \in 0..MaxRestarts
    /\ acked \in [Blob -> 0..MaxRestarts \cup {None}]

IInv ==
    /\ World
    /\ call \in [Caller -> CallState]
    /\ \A c \in Caller : StepInv(call[c])

-----------------------------------------------------------------------------
(* The plans of the use-cases.                                             *)

LEMMA KeysAre ==
    /\ AppKey \in Key /\ NsKey \in Key /\ Manifests \subseteq Key /\ MetaKeys \subseteq Key
    /\ \A b \in Blob : ManKey(b) \in Key /\ PeerKey(b) \in PeerKeys /\ Bucket(b) \subseteq Key
    /\ \A b \in Blob : \A i \in Index : S3Key(b, i) \in Key /\ S3Key(b, i) \in Bucket(b)
    /\ PeerKeys \subseteq Key
<1>1. MetaKeys \subseteq Key /\ PeerKeys \subseteq Key
  BY DEF Key
<1>2. AppKey \in MetaKeys /\ NsKey \in MetaKeys /\ Manifests \subseteq MetaKeys
  BY DEF MetaKeys
<1>3. \A b \in Blob : ManKey(b) \in Manifests /\ PeerKey(b) \in PeerKeys
  BY DEF Manifests, PeerKeys
<1>4. \A b \in Blob : Bucket(b) \subseteq Key
  <2>. SUFFICES ASSUME NEW b \in Blob, NEW k \in Bucket(b)
                PROVE  k \in Key
    OBVIOUS
  <2>1. Bucket(b) \in {Bucket(c) : c \in Blob}
    OBVIOUS
  <2>2. k \in UNION {Bucket(c) : c \in Blob}
    BY <2>1
  <2>. QED  BY <2>2 DEF Key
<1>5. \A b \in Blob : \A i \in Index : S3Key(b, i) \in Bucket(b)
  BY DEF Bucket
<1>. QED  BY <1>1, <1>2, <1>3, <1>4, <1>5

LEMMA SingleIs ==
    ASSUME NEW q \in Requests
    PROVE  <<q>> \in Seq(Requests) /\ Len(<<q>>) = 1 /\ <<q>>[1] = q /\ <<q>> # <<>>
  OBVIOUS

LEMMA JoinIs ==
    ASSUME NEW a \in Seq(Requests), NEW b \in Seq(Requests)
    PROVE  /\ a \o b \in Seq(Requests) /\ Len(a \o b) = Len(a) + Len(b)
           /\ \A i \in 1..Len(a) : (a \o b)[i] = a[i]
           /\ \A i \in 1..Len(b) : (a \o b)[Len(a) + i] = b[i]
           /\ a # <<>> => a \o b # <<>>
  OBVIOUS

LEMMA FunIsSeq ==
    ASSUME NEW n \in Nat, NEW f, f = [i \in 1..n |-> f[i]], \A i \in 1..n : f[i] \in Requests
    PROVE  f \in Seq(Requests) /\ Len(f) = n
  OBVIOUS

LEMMA LookIs ==
    ASSUME NEW k \in Key
    PROVE  /\ PortReq("meta", "get", {k}, None) \in Requests
           /\ Look(k) = <<PortReq("meta", "get", {k}, None)>>
           /\ Look(k) \in Seq(Requests) /\ Look(k) # <<>>
<1>1. PortReq("meta", "get", {k}, None) \in Requests
  BY DEF PortReq, Requests, Request, ReqOK
<1>. QED  BY <1>1, SingleIs DEF Look

LEMMA ReadAllIs ==
    /\ PortReq("meta", "list", Manifests, None) \in Requests
    /\ ReadAll = <<PortReq("meta", "list", Manifests, None)>>
    /\ ReadAll \in Seq(Requests)
<1>1. PortReq("meta", "list", Manifests, None) \in Requests
  BY KeysAre DEF PortReq, Requests, Request, ReqOK
<1>. QED  BY <1>1, SingleIs DEF ReadAll

LEMMA ShardsAre ==
    ASSUME NEW b \in Blob, NEW op, NEW v,
           (op = "get" /\ v = None) \/ (op = "put" /\ v \in Value)
    PROVE  /\ Shards(op, b, v) \in Seq(Requests) /\ Len(Shards(op, b, v)) = Cardinality(Index)
           /\ Cardinality(Index) \in Nat /\ Index = 1..Cardinality(Index)
           /\ \A i \in Index : Shards(op, b, v)[i] = PortReq("s3", op, {S3Key(b, i)}, v)
<1>1. \A i \in Index : PortReq("s3", op, {S3Key(b, i)}, v) \in Requests
  BY KeysAre DEF PortReq, Requests, Request, ReqOK
<1>. PICK n \in Nat : n = Cardinality(Index)
  BY FS_CardinalityType, CallsAssumption
<1>2. Index = 1..n
  BY CallsAssumption
<1>. PICK f : f = Shards(op, b, v)  OBVIOUS
<1>3. \A i \in 1..n : f[i] = PortReq("s3", op, {S3Key(b, i)}, v)
  BY <1>2 DEF Shards
<1>4. f = [i \in 1..n |-> f[i]]
  BY <1>2 DEF Shards
<1>5. f \in Seq(Requests) /\ Len(f) = n
  BY <1>1, <1>2, <1>3, <1>4, FunIsSeq
<1>. QED  BY <1>2, <1>3, <1>5

LEMMA WritesAre ==
    ASSUME NEW b \in Blob
    PROVE  /\ PortReq("meta", "put", {ManKey(b)}, Upload) \in Requests
           /\ PortReq("s3", "del", Bucket(b), None) \in Requests
           /\ PortReq("meta", "del", {ManKey(b)}, None) \in Requests
<1>1. PortReq("meta", "put", {ManKey(b)}, Upload) \in Requests
  BY KeysAre, CallsAssumption DEF PortReq, Requests, Request, ReqOK
<1>2. PortReq("s3", "del", Bucket(b), None) \in Requests
  BY KeysAre DEF PortReq, Requests, Request, ReqOK
<1>3. PortReq("meta", "del", {ManKey(b)}, None) \in Requests
  BY KeysAre DEF PortReq, Requests, Request, ReqOK
<1>. QED  BY <1>1, <1>2, <1>3

LEMMA TwoIs ==
    ASSUME NEW q \in Requests, NEW w \in Requests
    PROVE  <<q, w>> \in Seq(Requests) /\ Len(<<q, w>>) = 2 /\ <<q, w>>[1] = q /\ <<q, w>>[2] = w
  OBVIOUS

LEMMA PlansAre ==
    ASSUME NEW b \in Blob
    PROVE  /\ PutPlan(b, Upload) \in Seq(Requests) /\ PutPlan(b, Upload) # <<>>
           /\ GetPlan(b) \in Seq(Requests) /\ GetPlan(b) # <<>>
           /\ DeletePlan(b) \in Seq(Requests) /\ DeletePlan(b) # <<>>
<1>1. \A k \in {NsKey, AppKey, ManKey(b)} : Look(k) \in Seq(Requests) /\ Look(k) # <<>>
  BY KeysAre, LookIs
<1>2. /\ Shards("put", b, Upload) \in Seq(Requests) /\ Shards("get", b, None) \in Seq(Requests)
      /\ ReadAll \in Seq(Requests)
  BY ReadAllIs, ShardsAre, CallsAssumption
<1>3. /\ <<PortReq("meta", "put", {ManKey(b)}, Upload)>> \in Seq(Requests)
      /\ <<PortReq("s3", "del", Bucket(b), None), PortReq("meta", "del", {ManKey(b)}, None)>>
            \in Seq(Requests)
  BY WritesAre, SingleIs, TwoIs
<1>5. PutPlan(b, Upload) \in Seq(Requests) /\ PutPlan(b, Upload) # <<>>
  <2>1. Look(NsKey) \o Look(AppKey) \in Seq(Requests) /\ Look(NsKey) \o Look(AppKey) # <<>>
    BY <1>1, JoinIs
  <2>2. /\ Look(NsKey) \o Look(AppKey) \o ReadAll \in Seq(Requests)
        /\ Look(NsKey) \o Look(AppKey) \o ReadAll # <<>>
    BY <2>1, <1>2, JoinIs
  <2>3. /\ Look(NsKey) \o Look(AppKey) \o ReadAll \o Shards("put", b, Upload) \in Seq(Requests)
        /\ Look(NsKey) \o Look(AppKey) \o ReadAll \o Shards("put", b, Upload) # <<>>
    BY <2>2, <1>2, JoinIs
  <2>. QED  BY <2>3, <1>3, JoinIs DEF PutPlan
<1>6. GetPlan(b) \in Seq(Requests) /\ GetPlan(b) # <<>>
  <2>1. Look(NsKey) \o Look(ManKey(b)) \in Seq(Requests) /\ Look(NsKey) \o Look(ManKey(b)) # <<>>
    BY <1>1, JoinIs
  <2>. QED  BY <2>1, <1>2, JoinIs DEF GetPlan
<1>7. DeletePlan(b) \in Seq(Requests) /\ DeletePlan(b) # <<>>
  <2>. DEFINE look == IF Hold THEN Look(ManKey(b)) ELSE <<>>
  <2>1. Look(NsKey) \o Look(AppKey) \in Seq(Requests) /\ Look(NsKey) \o Look(AppKey) # <<>>
    BY <1>1, JoinIs
  <2>2. look \in Seq(Requests)
    BY <1>1
  <2>3. /\ Look(NsKey) \o Look(AppKey) \o look \in Seq(Requests)
        /\ Look(NsKey) \o Look(AppKey) \o look # <<>>
    BY <2>1, <2>2, JoinIs
  <2>. QED  BY <2>3, <1>3, JoinIs DEF DeletePlan
<1>. QED  BY <1>5, <1>6, <1>7

LEMMA ListPlanIs == ListPlan \in Seq(Requests) /\ ListPlan # <<>>
BY KeysAre, LookIs, ReadAllIs, JoinIs DEF ListPlan

-----------------------------------------------------------------------------
(* What the steps do to the call of one caller.                            *)

LEMMA IdleIs == Idle \in CallState /\ StepInv(Idle) /\ Idle.pc = "idle" /\ Idle.user = "none"
<1>1. 0 \in 0..MaxRestarts
  BY CallsAssumption
<1>. QED  BY <1>1 DEF Idle, CallState, Users, StepInv

\* Only the call of c changes.
Others(c) == \A d \in Caller \ {c} : call'[d] = call[d]

\* The same request, one hop further.
Same(n, r) ==
    n.user = r.user /\ n.blob = r.blob /\ n.risk = r.risk /\ n.life = r.life /\ n.known = r.known

LEMMA AnswerIs ==
    ASSUME call \in [Caller -> CallState], NEW c \in Caller,
           NEW resp \in Seq(Nat), NEW got \in SUBSET (Key \cup Value), NEW todo \in SUBSET Key,
           Answer(c, resp, got, todo)
    PROVE  /\ call' \in [Caller -> CallState] /\ Others(c)
           /\ call'[c].pc = "answered" /\ call'[c].resp = resp /\ call'[c].got = got
           /\ call'[c].todo = todo /\ call'[c].plan = call[c].plan /\ Same(call'[c], call[c])
<1>. PICK r \in CallState : r = call[c]
  OBVIOUS
<1>. PICK n : n = [r EXCEPT !.pc = "answered", !.resp = resp, !.got = got, !.todo = todo]
  OBVIOUS
<1>1. /\ n \in CallState /\ n.pc = "answered" /\ n.resp = resp /\ n.got = got
      /\ n.todo = todo /\ n.plan = r.plan /\ Same(n, r)
  BY DEF CallState, Same
<1>2. call' = [call EXCEPT ![c] = n]
  BY DEF Answer
<1>. QED  BY <1>1, <1>2 DEF Others

\* Whatever a status is, it is a number.
LEMMA StatusIs ==
    ASSUME NEW e \in {"ok", "Serialization", "Crypto", "TokenExpired", "Unauthorized",
                      "NamespaceMismatch", "OperationNotPermitted", "RetentionHold", "NotFound",
                      "QuotaExceeded", "Backend", "Unavailable"}
    PROVE  /\ Status(e) \in {200, 400, 401, 403, 404, 429, 500, 503}
           /\ Status(e) = 200 <=> e = "ok"
           /\ Status(e) = 404 <=> e = "NotFound"
           /\ e \in {"ok", "Backend", "Unavailable"} => Status(e) \in {200, 500, 503}
<1>1. Status("ok") = 200 /\ Status("Serialization") = 400 /\ Status("Crypto") = 401
  BY DEF Status
<1>2. Status("TokenExpired") = 401 /\ Status("Unauthorized") = 403
  BY DEF Status
<1>3. Status("NamespaceMismatch") = 403 /\ Status("OperationNotPermitted") = 403
  BY DEF Status
<1>4. Status("RetentionHold") = 403 /\ Status("NotFound") = 404 /\ Status("QuotaExceeded") = 429
  BY DEF Status
<1>5. Status("Backend") = 500 /\ Status("Unavailable") = 503
  BY DEF Status
<1>. QED  BY <1>1, <1>2, <1>3, <1>4, <1>5

Fault(c, ok, got, e) ==
    IF ok /\ (Cur(c).op = "get" => got # {}) THEN "ok"
    ELSE IF Cur(c).via = "s3" /\ Cur(c).op = "get" THEN "Unavailable"
    ELSE IF ok THEN "NotFound" ELSE e

After(r, rest, pc, resp) ==
    [r EXCEPT !.todo = {}, !.got = {}, !.exp = 0, !.plan = rest, !.pc = pc, !.resp = resp]

LEMMA Ended ==
    ASSUME NEW r \in CallState, NEW rest \in Seq(Requests), NEW resp \in Seq(Nat),
           NEW pc \in {"ready", "replied"},
           NEW m, m = After(r, rest, pc, resp)
    PROVE  /\ m \in CallState /\ m.plan = rest /\ m.todo = {} /\ m.got = {} /\ m.pc = pc
           /\ m.resp = resp /\ m.user = r.user /\ m.blob = r.blob /\ m.risk = r.risk
           /\ m.life = r.life /\ m.known = r.known
BY DEF CallState, After

\* A port call that has ended leaves nothing behind in its caller.
LEMMA EndIs ==
    ASSUME call \in [Caller -> CallState], NEW c \in Caller, call[c].plan # <<>>,
           NEW ok \in BOOLEAN, NEW got,
           NEW e \in {"Serialization", "NotFound", "Backend", "Unavailable"},
           End(c, ok, got, e)
    PROVE  /\ call' \in [Caller -> CallState] /\ Others(c) /\ StepInv(call'[c])
           /\ call'[c].pc \in {"idle", "ready", "replied"}
           /\ result' = [by |-> c, tag |-> IF ok THEN "ok" ELSE "error",
                         got |-> IF ok THEN got ELSE {}]
           /\ call[c].user = "none" => call'[c] = Idle
           /\ call[c].user # "none" =>
                /\ call'[c].plan = Tail(call[c].plan)
                /\ call'[c].resp = <<Status(Fault(c, ok, got, e))>>
                /\ call'[c].pc = IF Fault(c, ok, got, e) = "ok" /\ Tail(call[c].plan) # <<>>
                                 THEN "ready" ELSE "replied"
                /\ call'[c].user = call[c].user /\ call'[c].blob = call[c].blob
                /\ call'[c].risk = call[c].risk /\ call'[c].life = call[c].life
                /\ call'[c].known = call[c].known
<1>. PICK r \in CallState : r = call[c]
  OBVIOUS
<1>f. PICK f : f = Fault(c, ok, got, e)  OBVIOUS
<1>s. PICK st : st = Status(f)  OBVIOUS
<1>p. PICK pc : pc = IF f = "ok" /\ Tail(r.plan) # <<>> THEN "ready" ELSE "replied"
  OBVIOUS
<1>r. PICK rest : rest = Tail(r.plan)  OBVIOUS
<1>e. PICK resp : resp = <<st>>  OBVIOUS
<1>m. PICK m : m = After(r, rest, pc, resp)  OBVIOUS
<1>n. PICK n : n = IF r.user = "none" THEN Idle ELSE m  OBVIOUS
<1>1. /\ result' = [by |-> c, tag |-> IF ok THEN "ok" ELSE "error",
                    got |-> IF ok THEN got ELSE {}]
      /\ call' = [call EXCEPT ![c] = n]
  BY <1>f, <1>s, <1>p, <1>r, <1>e, <1>m, <1>n, Zenon DEF End, Fault, After
<1>2. f \in {"ok", "Serialization", "NotFound", "Backend", "Unavailable"}
  BY <1>f DEF Fault
<1>3. st \in Nat
  BY <1>2, <1>s, StatusIs
<1>4. rest \in Seq(Requests) /\ resp \in Seq(Nat) /\ resp # <<>>
  <2>1. r.plan \in Seq(Requests) /\ r.plan # <<>>
    BY DEF CallState
  <2>. QED  BY <1>3, <1>r, <1>e, <2>1
<1>5. pc \in {"ready", "replied"} /\ (pc = "ready" => rest # <<>>)
  BY <1>p, <1>r
<1>6. /\ m \in CallState /\ m.plan = rest /\ m.todo = {} /\ m.got = {} /\ m.pc = pc
      /\ m.resp = resp /\ m.user = r.user /\ m.blob = r.blob /\ m.risk = r.risk
      /\ m.life = r.life /\ m.known = r.known
  BY <1>4, <1>5, <1>m, Ended
<1>7. StepInv(m)
  BY <1>4, <1>5, <1>6 DEF StepInv
<1>8. n \in CallState /\ StepInv(n) /\ n.pc \in {"idle", "ready", "replied"}
  BY <1>5, <1>6, <1>7, <1>n, IdleIs
<1>9. call'[c] = n /\ call' \in [Caller -> CallState] /\ Others(c)
  BY <1>1, <1>8 DEF Others
<1>10. r.user = "none" => n = Idle
  BY <1>n
<1>11. r.user # "none" => n = m
  BY <1>n
<1>12. /\ rest = Tail(call[c].plan) /\ resp = <<Status(Fault(c, ok, got, e))>>
       /\ pc = IF Fault(c, ok, got, e) = "ok" /\ Tail(call[c].plan) # <<>>
                THEN "ready" ELSE "replied"
  BY <1>f, <1>s, <1>p, <1>r, <1>e
<1>. QED  BY <1>1, <1>6, <1>8, <1>9, <1>10, <1>11, <1>12

-----------------------------------------------------------------------------
(* The port call of a caller, and the steps of StorePort that the steps of *)
(* Calls are mapped to.                                                    *)

Free == [op |-> "none", todo |-> {}, val |-> None, vague |-> FALSE, got |-> {}]

Working(r) == r.pc \in {"presign", "sent", "deleting", "answered"}

InCall(q, todo, got) ==
    [op |-> q.op, todo |-> todo, val |-> q.val, vague |-> q.via = "s3", got |-> got]

\* What StorePort knows of a caller.
View(r) == IF Working(r) THEN InCall(Head(r.plan), r.todo, r.got) ELSE Free

\* A call after a write of the keys in S, and after a read that saw g.
Less(v, S) == [v EXCEPT !.todo = @ \ S]
Saw(v, g) == [v EXCEPT !.got = g, !.todo = {}]

PortStep == Port!Next \/ UNCHANGED Port!vars

LEMMA PortCallIs ==
    /\ PortCall = [c \in Caller |-> View(call[c])]
    /\ PortCall' = [c \in Caller |-> View(call'[c])]
BY DEF PortCall, View, Working, Busy, Cur, InCall, Free

LEMMA ViewsKept ==
    ASSUME NEW c \in Caller, Others(c)
    PROVE  /\ PortCall[c] = View(call[c]) /\ PortCall'[c] = View(call'[c])
           /\ PortCall' = [PortCall EXCEPT ![c] = View(call'[c])]
<1>. PICK V : V = [d \in Caller |-> View(call[d])]  OBVIOUS
<1>. PICK W : W = [d \in Caller |-> View(call'[d])]  OBVIOUS
<1>1. PortCall = V /\ PortCall' = W
  BY PortCallIs
<1>2. W = [V EXCEPT ![c] = View(call'[c])]
  BY DEF Others
<1>. QED  BY <1>1, <1>2

LEMMA PortStutter ==
    ASSUME NEW c \in Caller, Others(c), View(call'[c]) = View(call[c]),
           UNCHANGED <<store, result, late>>
    PROVE  PortStep
<1>1. PortCall' = PortCall
  <2>1. \A d \in Caller : View(call'[d]) = View(call[d])
    BY DEF Others
  <2>. QED  BY <2>1, PortCallIs
<1>. QED  BY <1>1 DEF PortStep, Port!vars

LEMMA PortCalls ==
    ASSUME NEW c \in Caller, Others(c), View(call[c]) = Free,
           View(call'[c]) \in Port!Request, UNCHANGED <<store, result, late>>
    PROVE  PortStep
<1>1. Port!Call(c)
  BY ViewsKept DEF Port!Call, Free, Port!Free
<1>. QED  BY <1>1 DEF PortStep, Port!Next

LEMMA PortActs ==
    ASSUME NEW c \in Caller, Others(c), NEW v, v = View(call[c]), v.op \in {"put", "del"},
           NEW S \in SUBSET v.todo, Write(S, v.val),
           View(call'[c]) = Less(v, S), UNCHANGED <<result, late>>
    PROVE  PortStep
<1>1. Port!Write(S, v.val)
  BY DEF Write, Port!Write
<1>2. PortCall[c] = v /\ PortCall' = [PortCall EXCEPT ![c].todo = @ \ S]
  BY ViewsKept DEF Less
<1>3. Port!Act(c)
  BY <1>1, <1>2 DEF Port!Act
<1>. QED  BY <1>3 DEF PortStep, Port!Next

LEMMA PortReads ==
    ASSUME NEW c \in Caller, Others(c), NEW v, v = View(call[c]), v.op = "get",
           View(call'[c]) = Saw(v, {store[k] : k \in Present(v.todo)}),
           UNCHANGED <<store, result, late>>
    PROVE  PortStep
<1>1. PortCall[c] = v /\ PortCall' = [PortCall EXCEPT ![c] = View(call'[c])]
  BY ViewsKept
<1>2. Port!Present(v.todo) = Present(v.todo)
  BY DEF Present, Port!Present
<1>3. Port!Read(c)
  BY <1>1, <1>2 DEF Port!Read, Saw
<1>. QED  BY <1>3 DEF PortStep, Port!Next

LEMMA PortMisses ==
    ASSUME NEW c \in Caller, Others(c), NEW v, v = View(call[c]), v.op = "get", v.vague,
           View(call'[c]) = [v EXCEPT !.todo = {}], UNCHANGED <<store, result, late>>
    PROVE  PortStep
<1>1. PortCall[c] = v /\ PortCall' = [PortCall EXCEPT ![c] = View(call'[c])]
  BY ViewsKept
<1>2. Port!Read(c)
  BY <1>1 DEF Port!Read
<1>. QED  BY <1>2 DEF PortStep, Port!Next

LEMMA PortLists ==
    ASSUME NEW c \in Caller, Others(c), NEW v, v = View(call[c]), v.op = "list",
           View(call'[c]) = Saw(v, Present(v.todo)),
           UNCHANGED <<store, result, late>>
    PROVE  PortStep
<1>1. PortCall[c] = v /\ PortCall' = [PortCall EXCEPT ![c] = View(call'[c])]
  BY ViewsKept
<1>2. Port!Present(v.todo) = Present(v.todo)
  BY DEF Present, Port!Present
<1>3. Port!Read(c)
  BY <1>1, <1>2 DEF Port!Read, Saw
<1>. QED  BY <1>3 DEF PortStep, Port!Next

LEMMA PortReturns ==
    ASSUME NEW c \in Caller, Others(c), NEW v, v = View(call[c]), v # Free, v.todo = {},
           View(call'[c]) = Free, result' = [by |-> c, tag |-> "ok", got |-> v.got],
           UNCHANGED <<store, late>>
    PROVE  PortStep
<1>1. PortCall[c] = v /\ PortCall' = [PortCall EXCEPT ![c] = Free]
  BY ViewsKept
<1>2. Port!Return(c)
  BY <1>1 DEF Port!Return, Free, Port!Free
<1>. QED  BY <1>2 DEF PortStep, Port!Next

LEMMA PortFails ==
    ASSUME NEW c \in Caller, Others(c), NEW v, v = View(call[c]), v # Free,
           View(call'[c]) = Free, result' = [by |-> c, tag |-> "error", got |-> {}],
           \/ UNCHANGED late
           \/ /\ v.op \in {"put", "del"}
              /\ late' = late \cup {[todo |-> v.todo, val |-> v.val]},
           UNCHANGED store
    PROVE  PortStep
<1>1. PortCall[c] = v /\ PortCall' = [PortCall EXCEPT ![c] = Free]
  BY ViewsKept
<1>2. Port!Fail(c)
  BY <1>1 DEF Port!Fail, Free, Port!Free
<1>. QED  BY <1>2 DEF PortStep, Port!Next

-----------------------------------------------------------------------------
(* Every action keeps the invariant and is a step of StorePort or none.    *)

LEMMA OneCall ==
    ASSUME IInv, NEW c \in Caller, call' \in [Caller -> CallState], Others(c),
           StepInv(call'[c]), World'
    PROVE  IInv'
BY DEF IInv, Others

LEMMA CallIs ==
    ASSUME IInv, NEW c \in Caller
    PROVE  call[c] \in CallState /\ StepInv(call[c]) /\ call \in [Caller -> CallState] /\ World
BY DEF IInv

\* The port call a caller is in, or about to make.
LEMMA CurIs ==
    ASSUME IInv, NEW c \in Caller, call[c].pc \notin {"idle", "replied"}
    PROVE  /\ Cur(c) = Head(call[c].plan) /\ call[c].plan # <<>> /\ Cur(c) \in Requests
           /\ Cur(c).via \in {"meta", "s3", "peer", "quic"}
           /\ Cur(c).op \in {"get", "list", "put", "del"}
           /\ Cur(c).keys \in SUBSET Key /\ Cur(c).val \in Value \cup {None}
           /\ ReqOK(Cur(c))
<1>1. call[c].plan \in Seq(Requests) /\ call[c].plan # <<>>
  BY CallIs DEF CallState, StepInv
<1>2. Cur(c) \in Requests /\ Cur(c) = Head(call[c].plan)
  BY <1>1 DEF Cur
<1>. QED  BY <1>1, <1>2 DEF Requests, Request

LEMMA NotWorking ==
    ASSUME NEW r, r.pc \in {"idle", "asked", "ready", "replied"}
    PROVE  View(r) = Free
BY DEF View, Working

LEMMA InCallIs ==
    ASSUME NEW r, Working(r)
    PROVE  View(r) = InCall(Head(r.plan), r.todo, r.got)
BY DEF View

\* A request of the SDK or of the node-agent that has just been taken up.
Taken(user, b, plan, life, known) ==
    [Idle EXCEPT !.pc = "asked", !.user = user, !.blob = b, !.plan = plan,
                 !.life = life, !.known = known]

Begun(plan) == [Idle EXCEPT !.pc = "ready", !.plan = plan]

LEMMA BegunIs ==
    ASSUME NEW plan \in Seq(Requests), plan # <<>>
    PROVE  LET n == Begun(plan)
           IN  /\ n \in CallState /\ StepInv(n) /\ n.pc = "ready" /\ n.user = "none"
               /\ n.plan = plan /\ n.risk = FALSE /\ n.known = None
<1>n. PICK n : n = Begun(plan)  OBVIOUS
<1>r. PICK r \in CallState : r = Idle
  BY IdleIs
<1>1. /\ n \in CallState /\ n.pc = "ready" /\ n.plan = plan
      /\ n.todo = r.todo /\ n.got = r.got /\ n.risk = r.risk /\ n.known = r.known
      /\ n.user = r.user
  BY <1>n, <1>r DEF Begun, CallState
<1>2. n.todo = {} /\ n.got = {} /\ n.risk = FALSE /\ n.known = None /\ n.user = "none"
  BY <1>1, <1>r DEF Idle
<1>3. StepInv(n)
  BY <1>1, <1>2 DEF StepInv
<1>. QED  BY <1>n, <1>1, <1>2, <1>3, Zenon

LEMMA AskStep ==
    ASSUME IInv, NEW c \in Caller, NEW user \in {"put", "get", "delete", "list"},
           NEW b \in Blob \cup {None}, user # "list" => b \in Blob, NEW v,
           Plan(user, b, v) \in Seq(Requests), Plan(user, b, v) # <<>>, Ask(c, user, b, v)
    PROVE  IInv' /\ PortStep
<1>p. PICK plan \in Seq(Requests) : plan = Plan(user, b, v)  OBVIOUS
<1>k. PICK known : known = IF user = "get" /\ acked[b] # None THEN b ELSE None  OBVIOUS
<1>l. PICK life \in 0..MaxRestarts : life = restarts
  BY DEF IInv, World
<1>n. PICK n : n = Taken(user, b, plan, life, known)  OBVIOUS
<1>1. call' = [call EXCEPT ![c] = n] /\ call[c].pc = "idle"
  BY <1>p, <1>k, <1>l, <1>n, Zenon DEF Ask, At, Taken
<1>2. known \in Blob \cup {None}
  BY <1>k DEF IInv, World
<1>3. n \in CallState /\ StepInv(n) /\ n.pc = "asked"
  <2>r. PICK r \in CallState : r = Idle
    BY IdleIs
  <2>0. n = [r EXCEPT !.pc = "asked", !.user = user, !.blob = b, !.plan = plan,
                      !.life = life, !.known = known]
    BY <1>n, <2>r, Zenon DEF Taken
  <2>1. plan # <<>> /\ user \in Users
    BY <1>p DEF Users
  <2>2. /\ n \in CallState /\ n.pc = "asked" /\ n.plan = plan
        /\ n.todo = r.todo /\ n.got = r.got
    BY <1>2, <2>0, <2>1 DEF CallState
  <2>3. n.todo = {} /\ n.got = {}
    BY <2>2, <2>r DEF Idle
  <2>. QED  BY <2>1, <2>2, <2>3 DEF StepInv
<1>4. call'[c] = n /\ call' \in [Caller -> CallState] /\ Others(c)
  BY <1>1, <1>3, CallIs DEF Others
<1>5. World'
  <2>1. asks' \in 0..MaxAsks
    BY CallsAssumption DEF Ask, IInv, World
  <2>2. used' \subseteq Blob /\ doomed' \subseteq Blob
    BY DEF Ask, IInv, World
  <2>. QED  BY <2>1, <2>2 DEF Ask, IInv, World
<1>6. View(call'[c]) = View(call[c])
  BY <1>1, <1>3, <1>4, NotWorking
<1>7. PortStep
  BY <1>4, <1>6, PortStutter DEF Ask
<1>. QED  BY <1>3, <1>4, <1>5, <1>7, OneCall

LEMMA BeginStep ==
    ASSUME IInv, NEW c \in Caller, NEW q \in Requests, Begin(c, q)
    PROVE  IInv' /\ PortStep
<1>p. PICK plan \in Seq(Requests) : plan = <<q>>
  BY SingleIs
<1>n. PICK n : n = Begun(plan)  OBVIOUS
<1>1. call' = [call EXCEPT ![c] = n] /\ call[c].pc = "idle"
  BY <1>p, <1>n, Zenon DEF Begin, At, Begun
<1>2. plan # <<>>
  BY <1>p, SingleIs
<1>3. n \in CallState /\ StepInv(n) /\ n.pc = "ready"
  BY <1>n, <1>2, BegunIs
<1>4. call'[c] = n /\ call' \in [Caller -> CallState] /\ Others(c)
  BY <1>1, <1>3, CallIs DEF Others
<1>5. World'
  <2>1. own' \in 0..MaxOwn
    BY CallsAssumption DEF Begin, IInv, World
  <2>. QED  BY <2>1 DEF Begin, IInv, World, history
<1>6. View(call'[c]) = View(call[c])
  BY <1>1, <1>3, <1>4, NotWorking
<1>7. PortStep
  BY <1>4, <1>6, PortStutter DEF Begin
<1>. QED  BY <1>3, <1>4, <1>5, <1>7, OneCall

LEMMA OwnCallsAre == OwnCalls \subseteq Requests
<1>. DEFINE replica == {{PeerKey(b)} : b \in Blob}
            puts == [via : {"peer", "quic"}, op : {"put"}, keys : replica, val : Value]
            gets == [via : {"peer", "quic"}, op : {"get"}, keys : replica, val : {None}]
<1>0. OwnCalls = puts \cup gets \cup {ReadAll[1]}
  BY DEF OwnCalls
<1>1. \A keys \in replica : keys \subseteq Key /\ \E b \in Blob : keys = {PeerKey(b)}
  BY KeysAre
<1>. HIDE DEF replica
<1>2. ASSUME NEW q \in puts \cup gets PROVE q \in Requests
  BY <1>1 DEF Requests, Request, ReqOK
<1>3. ReadAll[1] \in Requests
  BY ReadAllIs
<1>. HIDE DEF puts, gets
<1>. QED  BY <1>0, <1>2, <1>3

LEMMA StartStep ==
    ASSUME IInv, NEW c \in Caller, Start(c)
    PROVE  IInv' /\ PortStep
<1>1. ASSUME NEW b \in Blob \ used, Ask(c, "put", b, Upload)
      PROVE  IInv' /\ PortStep
  <2>1. Plan("put", b, Upload) \in Seq(Requests) /\ Plan("put", b, Upload) # <<>>
    BY PlansAre DEF Plan
  <2>. QED  BY <1>1, <2>1, AskStep
<1>2. ASSUME NEW user \in {"get", "delete"}, NEW b \in Nameable, Ask(c, user, b, None)
      PROVE  IInv' /\ PortStep
  <2>1. b \in Blob
    BY DEF Nameable
  <2>2. Plan(user, b, None) \in Seq(Requests) /\ Plan(user, b, None) # <<>>
    BY <2>1, PlansAre DEF Plan
  <2>. QED  BY <1>2, <2>1, <2>2, AskStep
<1>3. ASSUME Ask(c, "list", None, None)
      PROVE  IInv' /\ PortStep
  <2>1. Plan("list", None, None) \in Seq(Requests) /\ Plan("list", None, None) # <<>>
    BY ListPlanIs DEF Plan
  <2>. QED  BY <1>3, <2>1, AskStep
<1>4. ASSUME NEW q \in OwnCalls, Begin(c, q)
      PROVE  IInv' /\ PortStep
  BY <1>4, OwnCallsAre, BeginStep
<1>. QED  BY <1>1, <1>2, <1>3, <1>4 DEF Start

\* A request that is answered before it makes another port call.
LEMMA RepliedIs ==
    ASSUME IInv, NEW c \in Caller, call[c].pc \in {"asked", "ready"}, NEW st \in Nat,
           call' = [call EXCEPT ![c].pc = "replied", ![c].resp = <<st>>]
    PROVE  /\ call' \in [Caller -> CallState] /\ Others(c) /\ StepInv(call'[c])
           /\ call'[c] = [call[c] EXCEPT !.pc = "replied", !.resp = <<st>>]
           /\ View(call'[c]) = View(call[c])
<1>r. PICK r \in CallState : r = call[c]
  BY CallIs
<1>n. PICK n : n = [r EXCEPT !.pc = "replied", !.resp = <<st>>]  OBVIOUS
<1>1. call' = [call EXCEPT ![c] = n]
  BY <1>r, <1>n, CallIs
<1>2. <<st>> \in Seq(Nat) /\ <<st>> # <<>>
  OBVIOUS
<1>3. n \in CallState /\ n.pc = "replied" /\ n.resp = <<st>> /\ n.todo = r.todo /\ n.got = r.got
  BY <1>n, <1>2 DEF CallState
<1>4. r.todo = {} /\ r.got = {}
  BY <1>r, CallIs DEF StepInv
<1>5. StepInv(n)
  BY <1>2, <1>3, <1>4 DEF StepInv
<1>6. call'[c] = n /\ call' \in [Caller -> CallState] /\ Others(c)
  BY <1>1, <1>3, CallIs DEF Others
<1>7. View(n) = Free
  BY <1>3, NotWorking
<1>8. View(r) = Free
  BY <1>r, NotWorking
<1>. QED  BY <1>r, <1>n, <1>5, <1>6, <1>7, <1>8

LEMMA AdmitStep ==
    ASSUME IInv, NEW c \in Caller, Admit(c)
    PROVE  IInv' /\ PortStep
<1>1. World' /\ UNCHANGED <<store, result, late>> /\ call[c].pc = "asked"
  BY DEF Admit, At, IInv, World, bounds, history
<1>2. CASE call' = [call EXCEPT ![c].pc = "ready"]
  <2>r. PICK r \in CallState : r = call[c]
    BY CallIs
  <2>n. PICK n : n = [r EXCEPT !.pc = "ready"]  OBVIOUS
  <2>1. /\ n \in CallState /\ n.pc = "ready" /\ n.todo = r.todo /\ n.got = r.got
        /\ n.plan = r.plan
    BY <2>n DEF CallState
  <2>2. StepInv(n)
    BY <2>r, <2>1, <1>1, CallIs DEF StepInv
  <2>3. call' = [call EXCEPT ![c] = n]
    BY <1>2, <2>r, <2>n, CallIs
  <2>4. call'[c] = n /\ call' \in [Caller -> CallState] /\ Others(c)
    BY <2>1, <2>3, CallIs DEF Others
  <2>5. View(call'[c]) = View(call[c])
    BY <1>1, <2>1, <2>4, NotWorking
  <2>. QED  BY <1>1, <2>2, <2>4, <2>5, OneCall, PortStutter
<1>3. ASSUME NEW e \in {"Serialization", "Crypto", "TokenExpired", "NamespaceMismatch",
                        "OperationNotPermitted"},
             call' = [call EXCEPT ![c].pc = "replied", ![c].resp = <<Status(e)>>]
      PROVE  IInv' /\ PortStep
  <2>. PICK st \in Nat : st = Status(e)
    BY StatusIs
  <2>1. call' = [call EXCEPT ![c].pc = "replied", ![c].resp = <<st>>]
    BY <1>3
  <2>. QED  BY <1>1, <2>1, RepliedIs, OneCall, PortStutter
<1>. QED  BY <1>2, <1>3 DEF Admit

LEMMA DeclineStep ==
    ASSUME IInv, NEW c \in Caller, Decline(c)
    PROVE  IInv' /\ PortStep
<1>1. World' /\ UNCHANGED <<store, result, late>> /\ call[c].pc = "ready"
  BY DEF Decline, At, IInv, World, bounds, history
<1>. PICK e \in {"Unauthorized", "QuotaExceeded", "RetentionHold"} :
        call' = [call EXCEPT ![c].pc = "replied", ![c].resp = <<Status(e)>>]
  BY DEF Decline
<1>. PICK st \in Nat : st = Status(e)
  BY StatusIs
<1>2. call' = [call EXCEPT ![c].pc = "replied", ![c].resp = <<st>>]
  OBVIOUS
<1>. QED  BY <1>1, <1>2, RepliedIs, OneCall, PortStutter

LEMMA SendStep ==
    ASSUME IInv, NEW c \in Caller, Send(c)
    PROVE  /\ IInv' /\ PortStep /\ Others(c)
           /\ call'[c].pc \in {"presign", "sent"}
           /\ call'[c] = [call[c] EXCEPT !.pc = call'[c].pc, !.todo = Cur(c).keys,
                             !.risk = @ \/ (Cur(c).via = "meta" /\ Cur(c).op \in {"put", "del"})]
<1>1. World' /\ UNCHANGED <<store, result, late>> /\ call[c].pc = "ready"
  BY DEF Send, At, IInv, World, bounds, history
<1>r. PICK r \in CallState : r = call[c]
  BY CallIs
<1>q. PICK q \in Requests : q = Cur(c)
  BY <1>1, CurIs
<1>p. PICK pc : pc = IF q.via = "s3" /\ q.op # "del" THEN "presign" ELSE "sent"
  OBVIOUS
<1>k. PICK risk \in BOOLEAN : risk = (r.risk \/ (q.via = "meta" /\ q.op \in {"put", "del"}))
  BY DEF CallState
<1>n. PICK n : n = [r EXCEPT !.pc = pc, !.todo = q.keys, !.risk = risk]  OBVIOUS
<1>2. call' = [call EXCEPT ![c] = n]
  BY <1>r, <1>q, <1>p, <1>k, <1>n, CallIs DEF Send
<1>3. q.keys \in SUBSET Key /\ q \in Request
  BY DEF Requests, Request
<1>4. pc \in {"presign", "sent"} /\ (pc = "presign" => q.via = "s3" /\ q.op # "del")
  BY <1>p
<1>5. /\ n \in CallState /\ n.pc = pc /\ n.todo = q.keys /\ n.plan = r.plan /\ n.got = r.got
      /\ n.risk = risk
  BY <1>n, <1>3, <1>4 DEF CallState
<1>6. r.plan # <<>> /\ r.got = {} /\ Head(r.plan) = q
  BY <1>1, <1>r, <1>q, CallIs, CurIs DEF StepInv
<1>7. StepInv(n)
  BY <1>4, <1>5, <1>6 DEF StepInv
<1>8. call'[c] = n /\ call' \in [Caller -> CallState] /\ Others(c)
  BY <1>2, <1>5, CallIs DEF Others
<1>9. View(call[c]) = Free
  BY <1>1, NotWorking
<1>10. View(n) = InCall(q, q.keys, {})
  BY <1>4, <1>5, <1>6 DEF View, Working
<1>11. InCall(q, q.keys, {}) \in Port!Request
  BY <1>3 DEF InCall, Port!Request, Request
<1>12. PortStep
  BY <1>1, <1>8, <1>9, <1>10, <1>11, PortCalls
<1>13. n = [call[c] EXCEPT !.pc = n.pc, !.todo = Cur(c).keys,
                !.risk = @ \/ (Cur(c).via = "meta" /\ Cur(c).op \in {"put", "del"})]
  BY <1>r, <1>q, <1>k, <1>n, <1>5
<1>. QED  BY <1>1, <1>4, <1>5, <1>7, <1>8, <1>12, <1>13, OneCall

LEMMA WriteKeepsType ==
    ASSUME World, NEW S, NEW v \in Value \cup {None}, Write(S, v)
    PROVE  store' \in [Key -> Value \cup {None}]
BY DEF World, Write

LEMMA WorldKept ==
    ASSUME World, store' \in [Key -> Value \cup {None}],
           UNCHANGED <<result, late, seen, used, bounds, history>>
    PROVE  World'
BY DEF World, bounds, history

LEMMA InCallSets ==
    ASSUME NEW q, NEW todo, NEW got
    PROVE  /\ InCall(q, todo, got).op = q.op /\ InCall(q, todo, got).todo = todo
           /\ InCall(q, todo, got).val = q.val /\ InCall(q, todo, got).got = got
           /\ InCall(q, todo, got).vague = (q.via = "s3")
           /\ [InCall(q, todo, got) EXCEPT !.todo = {}] = InCall(q, {}, got)
<1>a. PICK op : op = q.op  OBVIOUS
<1>b. PICK val : val = q.val  OBVIOUS
<1>c. PICK vague : vague = (q.via = "s3")  OBVIOUS
<1>v. PICK v : v = InCall(q, todo, got)  OBVIOUS
<1>1. v = [op |-> op, todo |-> todo, val |-> val, vague |-> vague, got |-> got]
  BY <1>a, <1>b, <1>c, <1>v, Zenon DEF InCall
<1>2. v.op = op /\ v.todo = todo /\ v.val = val /\ v.vague = vague /\ v.got = got
  BY <1>1
<1>3. [v EXCEPT !.todo = {}] =
         [op |-> op, todo |-> {}, val |-> val, vague |-> vague, got |-> got]
  BY <1>1
<1>4. [v EXCEPT !.todo = {}] = InCall(q, {}, got)
  BY <1>3, <1>a, <1>b, <1>c, Zenon DEF InCall
<1>. QED  BY <1>2, <1>4, <1>a, <1>b, <1>c, <1>v, Zenon

LEMMA InCallLess ==
    ASSUME NEW q, NEW todo, NEW got, NEW S
    PROVE  Less(InCall(q, todo, got), S) = InCall(q, todo \ S, got)
<1>a. PICK op : op = q.op  OBVIOUS
<1>b. PICK val : val = q.val  OBVIOUS
<1>c. PICK vague : vague = (q.via = "s3")  OBVIOUS
<1>v. PICK v : v = InCall(q, todo, got)  OBVIOUS
<1>1. v = [op |-> op, todo |-> todo, val |-> val, vague |-> vague, got |-> got]
  BY <1>a, <1>b, <1>c, <1>v, Zenon DEF InCall
<1>2. [v EXCEPT !.todo = @ \ S] =
         [op |-> op, todo |-> todo \ S, val |-> val, vague |-> vague, got |-> got]
  BY <1>1
<1>. QED  BY <1>2, <1>a, <1>b, <1>c, <1>v, Zenon DEF InCall, Less

LEMMA InCallGot ==
    ASSUME NEW q, NEW todo, NEW got, NEW g
    PROVE  Saw(InCall(q, todo, got), g) = InCall(q, {}, g)
<1>a. PICK op : op = q.op  OBVIOUS
<1>b. PICK val : val = q.val  OBVIOUS
<1>c. PICK vague : vague = (q.via = "s3")  OBVIOUS
<1>v. PICK v : v = InCall(q, todo, got)  OBVIOUS
<1>1. v = [op |-> op, todo |-> todo, val |-> val, vague |-> vague, got |-> got]
  BY <1>a, <1>b, <1>c, <1>v, Zenon DEF InCall
<1>w. PICK w : w = [v EXCEPT !.got = g]  OBVIOUS
<1>2. w = [op |-> op, todo |-> todo, val |-> val, vague |-> vague, got |-> g]
  BY <1>1, <1>w
<1>3. [w EXCEPT !.todo = {}] =
         [op |-> op, todo |-> {}, val |-> val, vague |-> vague, got |-> g]
  BY <1>2
<1>4. [v EXCEPT !.got = g, !.todo = {}] = [w EXCEPT !.todo = {}]
  BY <1>w
<1>. QED  BY <1>3, <1>4, <1>a, <1>b, <1>c, <1>v, Zenon DEF InCall, Saw

\* A call that is with a server, as StorePort sees it.
LEMMA SentIs ==
    ASSUME IInv, NEW c \in Caller, call[c].pc \in {"presign", "sent", "deleting"}
    PROVE  /\ View(call[c]) = InCall(Cur(c), call[c].todo, {})
           /\ call[c].todo \in SUBSET Key /\ call[c].plan # <<>>
           /\ call[c].pc \in {"presign", "sent"} => call[c].todo = Cur(c).keys
<1>1. call[c].got = {} /\ Cur(c) = Head(call[c].plan) /\ call[c].plan # <<>>
  BY CallIs, CurIs DEF StepInv
<1>2. View(call[c]) = InCall(Cur(c), call[c].todo, {})
  BY <1>1 DEF View, Working
<1>. QED  BY <1>1, <1>2, CallIs DEF StepInv, CallState

\* What an answer does to the call.
LEMMA Served ==
    ASSUME IInv, NEW c \in Caller, call[c].pc \in {"sent", "deleting"},
           NEW resp \in Seq(Nat), NEW got \in SUBSET (Key \cup Value), NEW todo \in SUBSET Key,
           Answer(c, resp, got, todo), World',
           AnswerInv([resp |-> resp, got |-> got, todo |-> todo], Cur(c))
    PROVE  IInv' /\ Others(c) /\ View(call'[c]) = InCall(Cur(c), todo, got)
<1>n. PICK n : n = call'[c]  OBVIOUS
<1>1. /\ call' \in [Caller -> CallState] /\ Others(c)
      /\ n.pc = "answered" /\ n.resp = resp /\ n.got = got
      /\ n.todo = todo /\ n.plan = call[c].plan
  <2>1. call \in [Caller -> CallState]
    BY CallIs
  <2>2. /\ call' \in [Caller -> CallState] /\ Others(c)
        /\ call'[c].pc = "answered" /\ call'[c].resp = resp /\ call'[c].got = got
        /\ call'[c].todo = todo /\ call'[c].plan = call[c].plan /\ Same(call'[c], call[c])
    BY <2>1, AnswerIs
  <2>. QED  BY <1>n, <2>2
<1>2. Cur(c) = Head(n.plan) /\ n.plan # <<>>
  BY <1>1, CurIs
<1>3. AnswerInv(n, Cur(c))
  BY <1>1 DEF AnswerInv
<1>4. StepInv(n)
  BY <1>1, <1>2, <1>3 DEF StepInv
<1>5. View(n) = InCall(Cur(c), todo, got)
  BY <1>1, <1>2 DEF View, Working
<1>. QED  BY <1>n, <1>1, <1>4, <1>5, OneCall

\* The three things a served call can be to StorePort.
LEMMA ServedNothing ==
    ASSUME IInv, NEW c \in Caller, call[c].pc \in {"sent", "deleting"}, Others(c),
           View(call'[c]) = InCall(Cur(c), call[c].todo, {}), UNCHANGED <<store, result, late>>
    PROVE  PortStep
BY SentIs, PortStutter

LEMMA ServedWrite ==
    ASSUME IInv, NEW c \in Caller, call[c].pc \in {"sent", "deleting"}, Others(c),
           Cur(c).op \in {"put", "del"}, NEW S \in SUBSET call[c].todo, Write(S, Cur(c).val),
           View(call'[c]) = InCall(Cur(c), call[c].todo \ S, {}), UNCHANGED <<result, late>>
    PROVE  PortStep
<1>v. PICK v : v = InCall(Cur(c), call[c].todo, {})  OBVIOUS
<1>1. v = View(call[c])
  BY <1>v, SentIs
<1>q. PICK q : q = Cur(c)  OBVIOUS
<1>t. PICK todo : todo = call[c].todo  OBVIOUS
<1>0. v = InCall(q, todo, {})
  BY <1>v, <1>q, <1>t
<1>2. /\ v.op = q.op /\ v.todo = todo /\ v.val = q.val
      /\ Less(v, S) = InCall(q, todo \ S, {})
  <2>1. v.op = q.op /\ v.todo = todo /\ v.val = q.val
    BY <1>0, InCallSets
  <2>2. Less(v, S) = InCall(q, todo \ S, {})
    BY <1>0, InCallLess
  <2>. QED  BY <2>1, <2>2, Zenon
<1>3. View(call'[c]) = Less(v, S)
  BY <1>2, <1>q, <1>t
<1>4. S \in SUBSET v.todo /\ Write(S, v.val) /\ v.op \in {"put", "del"}
  BY <1>2, <1>q, <1>t
<1>. QED  BY <1>1, <1>3, <1>4, PortActs

LEMMA ServedRead ==
    ASSUME IInv, NEW c \in Caller, call[c].pc \in {"sent", "deleting"}, Others(c), NEW got,
           View(call'[c]) = InCall(Cur(c), {}, got),
           \/ Cur(c).op = "get" /\ got = {store[k] : k \in Present(call[c].todo)}
           \/ Cur(c).op = "get" /\ Cur(c).via = "s3" /\ got = {}
           \/ Cur(c).op = "list" /\ got = Present(call[c].todo),
           UNCHANGED <<store, result, late>>
    PROVE  PortStep
<1>v. PICK v : v = InCall(Cur(c), call[c].todo, {})  OBVIOUS
<1>1. v = View(call[c])
  BY <1>v, SentIs
<1>q. PICK q : q = Cur(c)  OBVIOUS
<1>t. PICK todo : todo = call[c].todo  OBVIOUS
<1>0. v = InCall(q, todo, {})
  BY <1>v, <1>q, <1>t
<1>2. /\ v.op = q.op /\ v.todo = todo /\ v.vague = (q.via = "s3")
      /\ Saw(v, got) = InCall(q, {}, got)
      /\ [v EXCEPT !.todo = {}] = InCall(q, {}, {})
  <2>1. v.op = q.op /\ v.todo = todo /\ v.vague = (q.via = "s3")
    BY <1>0, InCallSets
  <2>2. Saw(v, got) = InCall(q, {}, got)
    BY <1>0, InCallGot
  <2>3. [v EXCEPT !.todo = {}] = InCall(q, {}, {})
    <3>1. [InCall(q, todo, {}) EXCEPT !.todo = {}] = InCall(q, {}, {})
      BY InCallSets
    <3>. QED  BY <1>0, <3>1
  <2>. QED  BY <2>1, <2>2, <2>3, Zenon
<1>5. CASE Cur(c).op = "get" /\ got = {store[k] : k \in Present(call[c].todo)}
  <2>1. got = {store[k] : k \in Present(v.todo)} /\ v.op = "get"
    BY <1>2, <1>5, <1>q, <1>t
  <2>2. View(call'[c]) = Saw(v, {store[k] : k \in Present(v.todo)})
    BY <1>2, <2>1, <1>q, <1>t
  <2>. QED  BY <1>1, <2>1, <2>2, PortReads
<1>6. CASE Cur(c).op = "get" /\ Cur(c).via = "s3" /\ got = {}
  <2>1. View(call'[c]) = [v EXCEPT !.todo = {}] /\ v.vague /\ v.op = "get"
    BY <1>2, <1>6, <1>q
  <2>. QED  BY <1>1, <2>1, PortMisses
<1>7. CASE Cur(c).op = "list" /\ got = Present(call[c].todo)
  <2>1. got = Present(v.todo) /\ v.op = "list"
    BY <1>2, <1>7, <1>q, <1>t
  <2>2. View(call'[c]) = Saw(v, Present(v.todo))
    BY <1>2, <2>1, <1>q, <1>t
  <2>. QED  BY <1>1, <2>1, <2>2, PortLists
<1>. QED  BY <1>5, <1>6, <1>7

\* What is there is a value, and what a read answers are values.
LEMMA PresentIs ==
    ASSUME World, NEW S \in SUBSET Key
    PROVE  /\ Present(S) \in SUBSET S /\ Present(S) \in SUBSET Key
           /\ {store[k] : k \in Present(S)} \in SUBSET Value
BY DEF World, Present

LEMMA CodesAre ==
    /\ \A n \in Nat : <<n>> \in Seq(Nat) /\ <<n>> # <<>> /\ <<n>>[1] = n
    /\ Status("ok") = 200 /\ Status("NotFound") = 404 /\ Status("Backend") = 500
BY DEF Status

LEMMA CodeSeq ==
    ASSUME NEW n \in Nat
    PROVE  \E resp \in Seq(Nat) : resp = <<n>> /\ resp # <<>> /\ resp[1] = n
<1>1. <<n>> \in Seq(Nat) /\ <<n>> # <<>> /\ <<n>>[1] = n
  BY CodesAre
<1>. QED  BY <1>1

\* A refusal or an error: nothing has happened.
LEMMA Refused ==
    ASSUME IInv, NEW c \in Caller, call[c].pc \in {"sent", "deleting"},
           NEW st \in {403, 404, 500, 503}, Answer(c, <<st>>, {}, call[c].todo),
           Cur(c).via # "quic", Cur(c).via = "meta" => st = 403,
           st \in {403, 404} => Cur(c).via = "meta" \/ Cur(c).op # "get",
           UNCHANGED <<store, result, late, seen, used, bounds, history>>
    PROVE  IInv' /\ PortStep
<1>1. World'
  BY CallIs, WorldKept DEF World
<1>2. call[c].todo \in SUBSET Key /\ {} \in SUBSET (Key \cup Value)
  BY SentIs
<1>3. <<st>> \in Seq(Nat) /\ <<st>> # <<>> /\ <<st>>[1] = st
  BY CodesAre
<1>4. AnswerInv([resp |-> <<st>>, got |-> {}, todo |-> call[c].todo], Cur(c))
  BY <1>3 DEF AnswerInv
<1>5. IInv' /\ Others(c) /\ View(call'[c]) = InCall(Cur(c), call[c].todo, {})
  BY <1>1, <1>2, <1>3, <1>4, Served
<1>. QED  BY <1>5, ServedNothing

\* A write is done, all of it.
LEMMA Written ==
    ASSUME IInv, NEW c \in Caller, call[c].pc = "sent", Cur(c).op \in {"put", "del"},
           Cur(c).via # "quic", Answer(c, << 200 >>, {}, {}), Write(Cur(c).keys, Cur(c).val),
           UNCHANGED <<result, late, seen, used, bounds, history>>
    PROVE  IInv' /\ PortStep
<1>0. Cur(c).val \in Value \cup {None} /\ call[c].todo = Cur(c).keys
  BY CurIs, SentIs
<1>1. World'
  BY <1>0, CallIs, WorldKept, WriteKeepsType
<1>3. << 200 >> \in Seq(Nat) /\ << 200 >> # <<>> /\ << 200 >>[1] = 200
  BY CodesAre
<1>4. AnswerInv([resp |-> << 200 >>, got |-> {}, todo |-> {}], Cur(c))
  BY <1>3 DEF AnswerInv
<1>5. {} \in SUBSET (Key \cup Value) /\ {} \in SUBSET Key
  OBVIOUS
<1>6. IInv' /\ Others(c) /\ View(call'[c]) = InCall(Cur(c), {}, {})
  <2>r. PICK resp \in Seq(Nat) : resp = << 200 >>
    BY <1>3
  <2>g. PICK got \in SUBSET (Key \cup Value) : got = {}
    BY <1>5
  <2>t. PICK todo \in SUBSET Key : todo = {}
    BY <1>5
  <2>1. Answer(c, resp, got, todo) /\ AnswerInv([resp |-> resp, got |-> got, todo |-> todo], Cur(c))
    BY <1>4, <2>r, <2>g, <2>t
  <2>2. IInv' /\ Others(c) /\ View(call'[c]) = InCall(Cur(c), todo, got)
    BY <1>1, <2>1, Served
  <2>. QED  BY <2>2, <2>g, <2>t
<1>7. call[c].todo \ call[c].todo = {} /\ call[c].todo \in SUBSET call[c].todo
  OBVIOUS
<1>8. PortStep
  BY <1>0, <1>6, <1>7, ServedWrite
<1>. QED  BY <1>6, <1>8

\* A read is answered with what is there, or as if nothing were.
LEMMA Looked ==
    ASSUME IInv, NEW c \in Caller, call[c].pc = "sent", NEW st \in {200, 403, 404}, NEW got,
           Answer(c, <<st>>, got, {}), Cur(c).via # "quic",
           Cur(c).via = "meta" => st = 200,
           \/ Cur(c).op = "get" /\ got = {store[k] : k \in Present(Cur(c).keys)}
           \/ Cur(c).op = "get" /\ Cur(c).via = "s3" /\ got = {}
           \/ Cur(c).op = "list" /\ got = Present(Cur(c).keys),
           UNCHANGED <<store, result, late, seen, used, bounds, history>>
    PROVE  IInv' /\ PortStep
<1>0. Cur(c).keys \in SUBSET Key /\ call[c].todo = Cur(c).keys
  BY CurIs, SentIs
<1>1. World'
  BY CallIs, WorldKept DEF World
<1>2. /\ Cur(c).op = "list" => got \in SUBSET Key
      /\ Cur(c).op # "list" => got \in SUBSET Value
      /\ got \in SUBSET (Key \cup Value)
  BY <1>0, CallIs, PresentIs
<1>3. <<st>> \in Seq(Nat) /\ <<st>> # <<>> /\ <<st>>[1] = st
  BY CodesAre
<1>4. AnswerInv([resp |-> <<st>>, got |-> got, todo |-> {}], Cur(c))
  BY <1>2, <1>3 DEF AnswerInv
<1>6. IInv' /\ Others(c) /\ View(call'[c]) = InCall(Cur(c), {}, got)
  BY <1>1, <1>2, <1>3, <1>4, Served
<1>8. PortStep
  BY <1>0, <1>6, ServedRead
<1>. QED  BY <1>6, <1>8

LEMMA ServeMetaStep ==
    ASSUME IInv, NEW c \in Caller, ServeMeta(c)
    PROVE  IInv' /\ PortStep
<1>1. /\ call[c].pc = "sent" /\ Cur(c).via = "meta"
      /\ UNCHANGED <<result, late, seen, used, bounds, history>>
  BY DEF ServeMeta, Sent, At
<1>2. CASE /\ Cur(c).op = "get" /\ UNCHANGED store
           /\ Answer(c, << 200 >>, {store[k] : k \in Present(Cur(c).keys)}, {})
  BY <1>1, <1>2, Looked
<1>3. CASE Cur(c).op = "list" /\ UNCHANGED store /\ Answer(c, << 200 >>, Present(Cur(c).keys), {})
  BY <1>1, <1>3, Looked
<1>4. CASE /\ Cur(c).op \in {"put", "del"} /\ Answer(c, << 200 >>, {}, {})
           /\ Write(Cur(c).keys, Cur(c).val)
  BY <1>1, <1>4, Written
<1>5. CASE Answer(c, << 403 >>, {}, call[c].todo) /\ UNCHANGED store
  BY <1>1, <1>5, Refused
<1>. QED  BY <1>2, <1>3, <1>4, <1>5 DEF ServeMeta

LEMMA ServeS3Step ==
    ASSUME IInv, NEW c \in Caller, ServeS3(c)
    PROVE  IInv' /\ PortStep
<1>1. /\ call[c].pc = "sent" /\ Cur(c).via = "s3" /\ Cur(c).op # "del"
      /\ UNCHANGED <<result, late, seen, used, bounds, history>>
  BY DEF ServeS3, Sent, At
<1>2. CASE /\ Cur(c).op = "get" /\ UNCHANGED store
           /\ Answer(c, <<IF Present(Cur(c).keys) = {} THEN 404 ELSE 200>>,
                     {store[k] : k \in Present(Cur(c).keys)}, {})
  <2>. PICK st \in {200, 404} : st = IF Present(Cur(c).keys) = {} THEN 404 ELSE 200
    OBVIOUS
  <2>. QED  BY <1>1, <1>2, Looked
<1>3. CASE Cur(c).op = "put" /\ Answer(c, << 200 >>, {}, {}) /\ Write(Cur(c).keys, Cur(c).val)
  BY <1>1, <1>3, Written
<1>4. CASE Cur(c).op = "get" /\ Answer(c, << 403 >>, {}, {}) /\ UNCHANGED store
  BY <1>1, <1>4, Looked
<1>5. CASE Cur(c).op # "get" /\ Answer(c, << 403 >>, {}, call[c].todo) /\ UNCHANGED store
  BY <1>1, <1>5, Refused
<1>6. CASE Answer(c, << 503 >>, {}, call[c].todo) /\ UNCHANGED store
  BY <1>1, <1>6, Refused
<1>. QED  BY <1>2, <1>3, <1>4, <1>5, <1>6 DEF ServeS3

LEMMA ServePeerStep ==
    ASSUME IInv, NEW c \in Caller, ServePeer(c)
    PROVE  IInv' /\ PortStep
<1>1. /\ call[c].pc = "sent" /\ Cur(c).via = "peer"
      /\ UNCHANGED <<result, late, seen, used, bounds, history>>
  BY DEF ServePeer, Sent, At
<1>2. CASE /\ Cur(c).op = "get" /\ UNCHANGED store
           /\ Answer(c, <<Status(IF Present(Cur(c).keys) = {} THEN "NotFound" ELSE "ok")>>,
                     {store[k] : k \in Present(Cur(c).keys)}, {})
  <2>. PICK st \in {200, 404} :
            st = Status(IF Present(Cur(c).keys) = {} THEN "NotFound" ELSE "ok")
    BY CodesAre
  <2>. QED  BY <1>1, <1>2, Looked
<1>3. CASE Cur(c).op = "put" /\ Answer(c, << 200 >>, {}, {}) /\ Write(Cur(c).keys, Cur(c).val)
  BY <1>1, <1>3, Written
<1>4. CASE Answer(c, <<Status("Backend")>>, {}, call[c].todo) /\ UNCHANGED store
  BY <1>1, <1>4, CodesAre, Refused
<1>. QED  BY <1>2, <1>3, <1>4 DEF ServePeer

\* A call that has ended, one way or the other.
LEMMA Over ==
    ASSUME IInv, NEW c \in Caller, Busy(c), NEW ok \in BOOLEAN, NEW got,
           NEW e \in {"Serialization", "NotFound", "Backend", "Unavailable"},
           End(c, ok, got, e), UNCHANGED <<store, seen, used, bounds, history>>,
           \/ ok /\ got = call[c].got /\ call[c].todo = {} /\ UNCHANGED late
           \/ ~ok /\ LeaveLate(c)
    PROVE  IInv' /\ PortStep
<1>0. /\ Working(call[c]) /\ call[c].plan # <<>> /\ Cur(c) = Head(call[c].plan)
      /\ Cur(c).op \in {"get", "list", "put", "del"} /\ Cur(c).val \in Value \cup {None}
      /\ call \in [Caller -> CallState] /\ call[c].todo \in SUBSET Key
  <2>1. call[c].pc \in {"presign", "sent", "deleting", "answered"}
    BY DEF Busy
  <2>. QED  BY <2>1, CurIs, CallIs DEF Working, CallState
<1>1. /\ call' \in [Caller -> CallState] /\ Others(c) /\ StepInv(call'[c])
      /\ call'[c].pc \in {"idle", "ready", "replied"}
      /\ result' = [by |-> c, tag |-> IF ok THEN "ok" ELSE "error",
                    got |-> IF ok THEN got ELSE {}]
  BY <1>0, EndIs
<1>2. late' \subseteq LateWrite
  <2>1. late \subseteq LateWrite
    BY DEF IInv, World
  <2>2. [todo |-> call[c].todo, val |-> Cur(c).val] \in LateWrite
    BY <1>0 DEF LateWrite
  <2>. QED  BY <2>1, <2>2 DEF LeaveLate
<1>3. World'
  <2>1. result'.by \in Caller \cup {None} /\ result'.tag \in {"none", "ok", "error"}
    BY <1>1
  <2>. QED  BY <1>2, <2>1 DEF IInv, World, bounds, history
<1>v. PICK v : v = View(call[c])  OBVIOUS
<1>q. PICK q : q = Cur(c)  OBVIOUS
<1>t. PICK todo : todo = call[c].todo  OBVIOUS
<1>g. PICK saw : saw = call[c].got  OBVIOUS
<1>4. v = InCall(q, todo, saw)
  BY <1>0, <1>v, <1>q, <1>t, <1>g, InCallIs
<1>5. v.op = q.op /\ v.todo = todo /\ v.val = q.val /\ v.got = saw
  BY <1>4, InCallSets
<1>6. v # Free
  <2>1. v.op # "none"
    BY <1>0, <1>5, <1>q
  <2>2. Free.op = "none"
    BY DEF Free
  <2>. QED  BY <2>1, <2>2
<1>7. View(call'[c]) = Free
  BY <1>1, NotWorking
<1>8. CASE ok /\ got = call[c].got /\ call[c].todo = {} /\ UNCHANGED late
  <2>1. result' = [by |-> c, tag |-> "ok", got |-> v.got] /\ v.todo = {}
    BY <1>1, <1>5, <1>8, <1>t, <1>g
  <2>2. PortStep
    BY <1>1, <1>6, <1>7, <1>8, <1>v, <2>1, PortReturns
  <2>. QED  BY <1>1, <1>3, <2>2, OneCall
<1>9. CASE ~ok /\ LeaveLate(c)
  <2>1. result' = [by |-> c, tag |-> "error", got |-> {}]
    BY <1>1, <1>9
  <2>2. \/ UNCHANGED late
        \/ /\ v.op \in {"put", "del"}
           /\ late' = late \cup {[todo |-> v.todo, val |-> v.val]}
    BY <1>5, <1>9, <1>q, <1>t DEF LeaveLate
  <2>3. PortStep
    BY <1>1, <1>6, <1>7, <1>v, <2>1, <2>2, PortFails
  <2>. QED  BY <1>1, <1>3, <2>3, OneCall
<1>. QED  BY <1>8, <1>9

LEMMA StatusErrors ==
    ASSUME NEW st
    PROVE  StatusError(st) \in {"NotFound", "Backend"}
BY DEF StatusError

\* The answer that a receiver looks at.
LEMMA AnsweredIs ==
    ASSUME IInv, NEW c \in Caller, call[c].pc = "answered"
    PROVE  AnswerInv(call[c], Cur(c)) /\ Busy(c)
BY CallIs, CurIs DEF StepInv, Busy

LEMMA ReceiveMetaStep ==
    ASSUME IInv, NEW c \in Caller, ReceiveMeta(c)
    PROVE  IInv' /\ PortStep
<1>st. PICK st : st = call[c].resp[1]  OBVIOUS
<1>ok. PICK ok \in BOOLEAN : ok = (st = 200)  OBVIOUS
<1>e. PICK e \in {"NotFound", "Backend"} : e = StatusError(st)
  BY StatusErrors
<1>1. /\ call[c].pc = "answered" /\ Cur(c).via = "meta"
      /\ UNCHANGED <<store, late, seen, used, bounds, history>>
      /\ End(c, ok, call[c].got, e)
  BY <1>st, <1>ok, <1>e, Zenon DEF ReceiveMeta, At
<1>2. AnswerInv(call[c], Cur(c)) /\ Busy(c)
  BY <1>1, AnsweredIs
<1>3. ok => call[c].todo = {}
  BY <1>1, <1>2, <1>st, <1>ok DEF AnswerInv
<1>4. LeaveLate(c)
  BY <1>1 DEF LeaveLate
<1>. QED  BY <1>1, <1>2, <1>3, <1>4, Over

LEMMA ReceiveS3Step ==
    ASSUME IInv, NEW c \in Caller, ReceiveS3(c)
    PROVE  IInv' /\ PortStep
<1>st. PICK st : st = call[c].resp[1]  OBVIOUS
<1>ok. PICK ok \in BOOLEAN : ok = (st = 200 \/ (Cur(c).op = "get" /\ st \in {403, 404}))
  OBVIOUS
<1>1. /\ call[c].pc = "answered" /\ Cur(c).via = "s3"
      /\ UNCHANGED <<store, late, seen, used, bounds, history>>
      /\ End(c, ok, call[c].got, "Backend")
  BY <1>st, <1>ok, Zenon DEF ReceiveS3, At
<1>2. AnswerInv(call[c], Cur(c)) /\ Busy(c)
  BY <1>1, AnsweredIs
<1>3. ok => call[c].todo = {}
  BY <1>1, <1>2, <1>st, <1>ok DEF AnswerInv
<1>4. LeaveLate(c)
  BY <1>1 DEF LeaveLate
<1>. QED  BY <1>1, <1>2, <1>3, <1>4, Over

LEMMA ReceivePeerStep ==
    ASSUME IInv, NEW c \in Caller, ReceivePeer(c)
    PROVE  IInv' /\ PortStep
<1>st. PICK st : st = call[c].resp[1]  OBVIOUS
<1>ok. PICK ok \in BOOLEAN : ok = (st = 200 \/ (Cur(c).op = "get" /\ st = 404))
  OBVIOUS
<1>1. /\ call[c].pc = "answered" /\ Cur(c).via = "peer"
      /\ UNCHANGED <<store, late, seen, used, bounds, history>>
      /\ End(c, ok, call[c].got, "Backend")
  BY <1>st, <1>ok, Zenon DEF ReceivePeer, At
<1>2. AnswerInv(call[c], Cur(c)) /\ Busy(c)
  BY <1>1, AnsweredIs
<1>3. ok => call[c].todo = {}
  BY <1>1, <1>2, <1>st, <1>ok DEF AnswerInv
<1>4. LeaveLate(c)
  BY <1>1 DEF LeaveLate
<1>. QED  BY <1>1, <1>2, <1>3, <1>4, Over

LEMMA ReceiveQuicStep ==
    ASSUME IInv, NEW c \in Caller, ReceiveQuic(c)
    PROVE  IInv' /\ PortStep
<1>r. PICK resp : resp = call[c].resp  OBVIOUS
<1>f. PICK fits : fits = (Len(resp) <= MaxFrame)  OBVIOUS
<1>e. PICK e \in {"Backend", "Unavailable"} : e = IF fits THEN "Backend" ELSE "Unavailable"
  OBVIOUS
<1>1. /\ call[c].pc = "answered" /\ Cur(c).via = "quic"
      /\ UNCHANGED <<store, late, seen, used, bounds, history>>
  BY DEF ReceiveQuic, At
<1>2. AnswerInv(call[c], Cur(c)) /\ Busy(c) /\ LeaveLate(c)
  BY <1>1, AnsweredIs DEF LeaveLate
<1>3. CASE Cur(c).op = "get"
  <2>ok. PICK ok \in BOOLEAN : ok = (fits /\ resp[1] \in {ST_OK, ST_NOT_FOUND})  OBVIOUS
  <2>g. PICK got : got = IF resp[1] = ST_OK THEN {Tail(resp)} ELSE {}  OBVIOUS
  <2>1. End(c, ok, got, e)
    BY <1>3, <1>r, <1>f, <1>e, <2>ok, <2>g, Zenon DEF ReceiveQuic
  <2>2. ok => got = call[c].got /\ call[c].todo = {}
    BY <1>1, <1>2, <1>3, <1>r, <2>ok, <2>g DEF AnswerInv, ST_OK, ST_NOT_FOUND
  <2>. QED  BY <1>1, <1>2, <2>1, <2>2, Over
<1>4. CASE Cur(c).op # "get"
  <2>ok. PICK ok \in BOOLEAN : ok = (fits /\ resp[1] = ST_OK)  OBVIOUS
  <2>1. End(c, ok, {}, e)
    BY <1>4, <1>r, <1>f, <1>e, <2>ok, Zenon DEF ReceiveQuic
  <2>2. Cur(c).op = "put"
    BY <1>1, <1>4, CurIs DEF ReqOK
  <2>3. ok => call[c].got = {} /\ call[c].todo = {}
    BY <1>1, <1>2, <2>2, <1>r, <2>ok DEF AnswerInv
  <2>. QED  BY <1>1, <1>2, <2>1, <2>3, Over
<1>. QED  BY <1>3, <1>4

LEMMA LoseStep ==
    ASSUME IInv, NEW c \in Caller, Lose(c)
    PROVE  IInv' /\ PortStep
<1>1. Busy(c) /\ LeaveLate(c) /\ UNCHANGED <<store, seen, used, bounds, history>>
  BY DEF Lose
<1>2. \E e \in {"Unavailable", "Serialization"} : End(c, FALSE, {}, e)
  BY DEF Lose
<1>. QED  BY <1>1, <1>2, Over

LEMMA PresignStep ==
    ASSUME IInv, NEW c \in Caller, Presign(c)
    PROVE  IInv' /\ PortStep
<1>1. call[c].pc = "presign" /\ UNCHANGED <<store, late, seen, used, bounds, history>>
  BY DEF Presign, At
<1>2. CASE call' = [call EXCEPT ![c].pc = "sent", ![c].exp = SignedUntil] /\ UNCHANGED result
  <2>r. PICK r \in CallState : r = call[c]
    BY CallIs
  <2>x. PICK exp \in Nat : exp = SignedUntil
    BY CallsAssumption DEF SignedUntil, IInv, World
  <2>n. PICK n : n = [r EXCEPT !.pc = "sent", !.exp = exp]  OBVIOUS
  <2>1. /\ n \in CallState /\ n.pc = "sent" /\ n.todo = r.todo /\ n.got = r.got
        /\ n.plan = r.plan
    BY <2>n DEF CallState
  <2>2. StepInv(n)
    BY <2>r, <2>1, <1>1, CallIs DEF StepInv
  <2>3. call' = [call EXCEPT ![c] = n]
    BY <1>2, <2>r, <2>x, <2>n, CallIs
  <2>4. call'[c] = n /\ call' \in [Caller -> CallState] /\ Others(c)
    BY <2>1, <2>3, CallIs DEF Others
  <2>5. View(n) = View(r)
    BY <1>1, <2>r, <2>1 DEF View, Working
  <2>6. World'
    BY <1>1, <1>2 DEF IInv, World, bounds, history
  <2>. QED  BY <1>1, <1>2, <2>r, <2>2, <2>4, <2>5, <2>6, OneCall, PortStutter
<1>3. CASE End(c, FALSE, {}, "Backend")
  <2>1. Busy(c) /\ LeaveLate(c)
    BY <1>1 DEF Busy, LeaveLate
  <2>. QED  BY <1>1, <1>3, <2>1, Over
<1>. QED  BY <1>2, <1>3 DEF Presign

\* A delete whose list of keys shrinks and that is not answered yet.
LEMMA Shrunk ==
    ASSUME IInv, NEW c \in Caller, call[c].pc \in {"sent", "deleting"},
           Cur(c).via = "s3", Cur(c).op = "del", NEW left \in SUBSET Key,
           call' = [call EXCEPT ![c].pc = "deleting", ![c].todo = left], World'
    PROVE  IInv' /\ Others(c) /\ View(call'[c]) = InCall(Cur(c), left, {})
<1>r. PICK r \in CallState : r = call[c]
  BY CallIs
<1>n. PICK n : n = [r EXCEPT !.pc = "deleting", !.todo = left]  OBVIOUS
<1>1. n \in CallState /\ n.pc = "deleting" /\ n.todo = left /\ n.got = r.got /\ n.plan = r.plan
  BY <1>n DEF CallState
<1>2. r.got = {} /\ r.plan # <<>> /\ Cur(c) = Head(r.plan)
  BY <1>r, CallIs, CurIs DEF StepInv
<1>3. StepInv(n)
  BY <1>1, <1>2 DEF StepInv
<1>4. call' = [call EXCEPT ![c] = n]
  BY <1>r, <1>n, CallIs
<1>5. call'[c] = n /\ call' \in [Caller -> CallState] /\ Others(c)
  BY <1>1, <1>4, CallIs DEF Others
<1>6. View(n) = InCall(Cur(c), left, {})
  BY <1>1, <1>2 DEF View, Working
<1>. QED  BY <1>3, <1>5, <1>6, OneCall

\* An answer of 200 to a delete, with nothing left to do.
LEMMA Emptied ==
    ASSUME IInv, NEW c \in Caller, call[c].pc \in {"sent", "deleting"},
           Cur(c).via = "s3", Cur(c).op = "del", Answer(c, << 200 >>, {}, {}), World'
    PROVE  IInv' /\ Others(c) /\ View(call'[c]) = InCall(Cur(c), {}, {})
<1>r. PICK resp \in Seq(Nat) : resp = << 200 >>
  BY CodesAre
<1>g. PICK got \in SUBSET (Key \cup Value) : got = {}
  OBVIOUS
<1>t. PICK todo \in SUBSET Key : todo = {}
  OBVIOUS
<1>1. Answer(c, resp, got, todo)
  BY <1>r, <1>g, <1>t
<1>2. AnswerInv([resp |-> resp, got |-> got, todo |-> todo], Cur(c))
  BY <1>r, <1>g, <1>t DEF AnswerInv
<1>3. IInv' /\ Others(c) /\ View(call'[c]) = InCall(Cur(c), todo, got)
  BY <1>1, <1>2, Served
<1>. QED  BY <1>3, <1>g, <1>t

\* What is not there needs no write.
LEMMA NothingToDo ==
    ASSUME World, NEW S \in SUBSET Key, UNCHANGED store
    PROVE  Write(S \ Present(S), None)
BY DEF World, Present, Write

LEMMA ListPrefixStep ==
    ASSUME IInv, NEW c \in Caller, ListPrefix(c)
    PROVE  IInv' /\ PortStep
<1>1. /\ call[c].pc = "sent" /\ Cur(c).via = "s3" /\ Cur(c).op = "del"
      /\ UNCHANGED <<store, result, late, seen, used, bounds, history>>
  BY DEF ListPrefix, Sent, At
<1>2. /\ call[c].todo = Cur(c).keys /\ Cur(c).keys \in SUBSET Key /\ Cur(c).val = None
      /\ Present(Cur(c).keys) \in SUBSET Key
  BY <1>1, SentIs, CurIs DEF ReqOK, Present
<1>3. World' /\ Write(Cur(c).keys \ Present(Cur(c).keys), None)
  BY <1>1, <1>2, CallIs, WorldKept, NothingToDo DEF World
<1>S. PICK S : S = Cur(c).keys \ Present(Cur(c).keys)  OBVIOUS
<1>4. S \in SUBSET call[c].todo /\ Write(S, Cur(c).val)
  BY <1>2, <1>3, <1>S
<1>5. call[c].todo \ S = Present(Cur(c).keys)
  BY <1>2, <1>S DEF Present
<1>6. CASE Present(Cur(c).keys) = {} /\ Answer(c, << 200 >>, {}, {})
  <2>1. IInv' /\ Others(c) /\ View(call'[c]) = InCall(Cur(c), {}, {})
    BY <1>1, <1>3, <1>6, Emptied
  <2>2. View(call'[c]) = InCall(Cur(c), call[c].todo \ S, {})
    BY <1>5, <1>6, <2>1
  <2>3. PortStep
    BY <1>1, <1>4, <2>1, <2>2, ServedWrite
  <2>. QED  BY <2>1, <2>3
<1>7. CASE call' = [call EXCEPT ![c].pc = "deleting", ![c].todo = Present(Cur(c).keys)]
  <2>l. PICK left \in SUBSET Key : left = Present(Cur(c).keys)
    BY <1>2
  <2>0. call' = [call EXCEPT ![c].pc = "deleting", ![c].todo = left]
    BY <1>7, <2>l
  <2>1. IInv' /\ Others(c) /\ View(call'[c]) = InCall(Cur(c), left, {})
    BY <1>1, <1>3, <2>0, Shrunk
  <2>2. View(call'[c]) = InCall(Cur(c), call[c].todo \ S, {})
    BY <1>5, <2>l, <2>1
  <2>3. PortStep
    BY <1>1, <1>4, <2>1, <2>2, ServedWrite
  <2>. QED  BY <2>1, <2>3
<1>8. CASE Answer(c, <<Status("Backend")>>, {}, call[c].todo)
  BY <1>1, <1>8, CodesAre, Refused
<1>. QED  BY <1>6, <1>7, <1>8 DEF ListPrefix

LEMMA DeleteObjectStep ==
    ASSUME IInv, NEW c \in Caller, NEW k \in call[c].todo, DeleteObject(c, k)
    PROVE  IInv' /\ PortStep
<1>1. call[c].pc = "deleting" /\ UNCHANGED <<result, late, seen, used, bounds, history>>
  BY DEF DeleteObject, At
<1>2. /\ Cur(c).via = "s3" /\ Cur(c).op = "del" /\ Cur(c).val = None
      /\ call[c].todo \in SUBSET Key
  <2>1. Cur(c).via = "s3" /\ Cur(c).op = "del" /\ call[c].todo \in SUBSET Key
    BY <1>1, SentIs, CurIs, CallIs DEF StepInv
  <2>. QED  BY <1>1, <2>1, CurIs DEF ReqOK
<1>l. PICK left \in SUBSET Key : left = call[c].todo \ {k}
  BY <1>2
<1>3. CASE Write({k}, None) /\ left = {} /\ Answer(c, << 200 >>, {}, {})
  <2>0. World'
    BY <1>1, <1>3, CallIs, WorldKept, WriteKeepsType
  <2>1. IInv' /\ Others(c) /\ View(call'[c]) = InCall(Cur(c), {}, {})
    BY <1>1, <1>2, <1>3, <2>0, Emptied
  <2>2. View(call'[c]) = InCall(Cur(c), call[c].todo \ {k}, {}) /\ {k} \in SUBSET call[c].todo
    BY <1>l, <1>3, <2>1
  <2>3. PortStep
    BY <1>1, <1>2, <1>3, <2>1, <2>2, ServedWrite
  <2>. QED  BY <2>1, <2>3
<1>4. CASE Write({k}, None) /\ call' = [call EXCEPT ![c].todo = left]
  <2>0. World'
    BY <1>1, <1>4, CallIs, WorldKept, WriteKeepsType
  <2>1. call' = [call EXCEPT ![c].pc = "deleting", ![c].todo = left]
    <3>r. PICK r \in CallState : r = call[c]
      BY CallIs
    <3>1. [r EXCEPT !.todo = left] = [r EXCEPT !.pc = "deleting", !.todo = left]
      BY <1>1, <3>r DEF CallState
    <3>. QED  BY <1>4, <3>r, <3>1
  <2>2. IInv' /\ Others(c) /\ View(call'[c]) = InCall(Cur(c), left, {})
    BY <1>1, <1>2, <2>0, <2>1, Shrunk
  <2>3. View(call'[c]) = InCall(Cur(c), call[c].todo \ {k}, {}) /\ {k} \in SUBSET call[c].todo
    BY <1>l, <2>2
  <2>4. PortStep
    BY <1>1, <1>2, <1>4, <2>2, <2>3, ServedWrite
  <2>. QED  BY <2>2, <2>4
<1>5. CASE Answer(c, <<Status("Backend")>>, {}, call[c].todo) /\ UNCHANGED store
  BY <1>1, <1>2, <1>5, CodesAre, Refused
<1>. QED  BY <1>l, <1>3, <1>4, <1>5 DEF DeleteObject

\* The status byte goes on and comes off.
LEMMA ResponseIs ==
    ASSUME NEW st \in Nat, NEW v \in Seq(Nat)
    PROVE  /\ EncodeResponse(st, v) \in Seq(Nat) /\ EncodeResponse(st, v) # <<>>
           /\ EncodeResponse(st, v)[1] = st /\ Tail(EncodeResponse(st, v)) = v
<1>r. PICK r : r = <<st>> \o v  OBVIOUS
<1>1. r \in Seq(Nat) /\ Len(r) = 1 + Len(v) /\ r[1] = st
  BY <1>r
<1>2. \A i \in 1..Len(v) : r[1 + i] = v[i]
  BY <1>r
<1>3. r # <<>> /\ Len(v) \in Nat
  BY <1>1
<1>t. PICK t : t = Tail(r)  OBVIOUS
<1>4. t \in Seq(Nat) /\ Len(t) = Len(v)
  BY <1>1, <1>3, <1>t
<1>5. \A i \in 1..Len(v) : t[i] = v[i]
  BY <1>1, <1>2, <1>3, <1>t
<1>6. t = v
  BY <1>4, <1>5
<1>. QED  BY <1>1, <1>3, <1>6, <1>r, <1>t DEF EncodeResponse

LEMMA CodeIs ==
    ASSUME NEW st \in Nat
    PROVE  /\ EncodeResponse(st, <<>>) \in Seq(Nat) /\ EncodeResponse(st, <<>>) # <<>>
           /\ EncodeResponse(st, <<>>)[1] = st
<1>1. <<>> \in Seq(Nat)
  OBVIOUS
<1>v. PICK v \in Seq(Nat) : v = <<>>
  BY <1>1
<1>2. /\ EncodeResponse(st, v) \in Seq(Nat) /\ EncodeResponse(st, v) # <<>>
      /\ EncodeResponse(st, v)[1] = st
  BY ResponseIs
<1>. QED  BY <1>2, <1>v

LEMMA KeyParses ==
    ASSUME NEW k \in PeerKeys
    PROVE  ParseKey(KeyBytes[k]) = k
<1>1. \A j \in PeerKeys : KeyBytes[j] = KeyBytes[k] => j = k
  BY CallsAssumption
<1>2. \E j \in PeerKeys : KeyBytes[j] = KeyBytes[k]
  OBVIOUS
<1>3. (CHOOSE j \in PeerKeys : KeyBytes[j] = KeyBytes[k]) = k
  BY <1>1, <1>2
<1>. QED  BY <1>2, <1>3 DEF ParseKey

\* The server reads from the frame what the request says.
LEMMA FrameParses ==
    ASSUME NEW q \in Requests, q.via = "quic"
    PROVE  \E k \in PeerKeys :
              /\ q.keys = {k} /\ q.op \in {"get", "put"}
              /\ ParseRequest(Frame(q)).op = (IF q.op = "get" THEN OP_GET ELSE OP_PUT)
              /\ ParseKey(ParseRequest(Frame(q)).key) = k
              /\ q.op = "put" => ParseRequest(Frame(q)).payload = q.val
<1>1. q.op \in {"get", "put"} /\ (q.op = "put" => q.val \in Value) /\ \E b \in Blob : q.keys = {PeerKey(b)}
  BY DEF Requests, Request, ReqOK
<1>2. PICK k \in PeerKeys : q.keys = {k}
  BY <1>1, KeysAre
<1>o. PICK op \in Nat : op = IF q.op = "get" THEN OP_GET ELSE OP_PUT
  BY DEF OP_GET, OP_PUT
<1>b. PICK bytes \in Seq(Nat) : bytes = KeyBytes[k] /\ Len(bytes) < 65536
  BY CallsAssumption
<1>p. PICK payload : payload = IF q.op = "get" THEN <<>> ELSE q.val
  OBVIOUS
<1>0. payload \in Seq(Nat)
  <2>1. CASE q.op = "get"
    <3>1. payload = <<>>
      BY <1>p, <2>1
    <3>. QED  BY <3>1
  <2>2. CASE q.op # "get"
    <3>1. payload \in Value
      BY <1>1, <1>p, <2>2
    <3>. QED  BY <3>1, CallsAssumption
  <2>. QED  BY <2>1, <2>2
<1>c. PICK j : j = CHOOSE x \in q.keys : TRUE  OBVIOUS
<1>3. j = k
  BY <1>2, <1>c
<1>4. Frame(q) = EncodeRequest(op, bytes, payload)
  <2>1. Frame(q) = EncodeRequest(op, KeyBytes[j], payload)
    BY <1>c, <1>o, <1>p, Zenon DEF Frame
  <2>. QED  BY <1>3, <1>b, <2>1
<1>5. ParseRequest(Frame(q)) = [op |-> op, key |-> bytes, payload |-> payload]
  BY <1>0, <1>4, <1>b, FrameRoundTrip
<1>f. PICK p : p = ParseRequest(Frame(q))  OBVIOUS
<1>6. p.op = op /\ p.key = bytes /\ p.payload = payload
  BY <1>5, <1>f
<1>7. ParseKey(p.key) = k
  BY <1>6, <1>b, KeyParses
<1>8. q.op = "put" => p.payload = q.val
  BY <1>6, <1>p
<1>. QED  BY <1>1, <1>2, <1>6, <1>7, <1>8, <1>f, <1>o

LEMMA ServeQuicStep ==
    ASSUME IInv, NEW c \in Caller, ServeQuic(c)
    PROVE  IInv' /\ PortStep
<1>1. /\ call[c].pc = "sent" /\ Cur(c).via = "quic"
      /\ UNCHANGED <<result, late, seen, used, bounds, history>>
  BY DEF ServeQuic, Sent, At
<1>q. PICK q \in Requests : q = Cur(c)
  BY <1>1, CurIs
<1>p. PICK p : p = ParseRequest(Frame(q))  OBVIOUS
<1>2. PICK k \in PeerKeys :
        /\ q.keys = {k} /\ q.op \in {"get", "put"}
        /\ p.op = (IF q.op = "get" THEN OP_GET ELSE OP_PUT)
        /\ ParseKey(p.key) = k
        /\ q.op = "put" => p.payload = q.val
  BY <1>1, <1>q, <1>p, FrameParses
<1>3. /\ call[c].todo = {k} /\ {k} \in SUBSET Key /\ k \in Key
      /\ World /\ store[k] \in Value \cup {None}
  BY <1>1, <1>2, <1>q, SentIs, KeysAre, CallIs DEF World
<1>4. \/ /\ p.op = OP_GET
         /\ Answer(c, IF store[k] = None THEN EncodeResponse(ST_NOT_FOUND, <<>>)
                                         ELSE EncodeResponse(ST_OK, store[k]),
                   {store[j] : j \in Present({k})}, {})
         /\ UNCHANGED store
      \/ /\ p.op = OP_PUT
         /\ Answer(c, EncodeResponse(ST_OK, <<>>), {}, {})
         /\ Write({k}, p.payload)
      \/ /\ Answer(c, EncodeResponse(ST_ERR, <<>>), {}, call[c].todo)
         /\ UNCHANGED store
  BY <1>q, <1>p, <1>2, Zenon DEF ServeQuic
<1>5. CASE /\ p.op = OP_GET
           /\ Answer(c, IF store[k] = None THEN EncodeResponse(ST_NOT_FOUND, <<>>)
                                           ELSE EncodeResponse(ST_OK, store[k]),
                     {store[j] : j \in Present({k})}, {})
           /\ UNCHANGED store
  <2>0. q.op = "get"
    BY <1>2, <1>5 DEF OP_GET, OP_PUT
  <2>v. PICK v : v = store[k]  OBVIOUS
  <2>r. PICK resp : resp = IF v = None THEN EncodeResponse(ST_NOT_FOUND, <<>>)
                           ELSE EncodeResponse(ST_OK, v)
    OBVIOUS
  <2>g. PICK got \in SUBSET Value : got = {store[j] : j \in Present({k})}
    BY <1>3, PresentIs
  <2>1. got = IF v = None THEN {} ELSE {v}
    BY <2>g, <2>v DEF Present
  <2>2. /\ resp \in Seq(Nat) /\ resp # <<>>
        /\ resp[1] = ST_OK => got = {Tail(resp)}
        /\ resp[1] = ST_NOT_FOUND => got = {}
    <3>1. CASE v = None
      <4>1. resp \in Seq(Nat) /\ resp # <<>> /\ resp[1] = ST_NOT_FOUND
        BY <3>1, <2>r, CodeIs DEF ST_NOT_FOUND
      <4>. QED  BY <3>1, <2>1, <4>1 DEF ST_OK, ST_NOT_FOUND
    <3>2. CASE v # None
      <4>0. v \in Seq(Nat)
        BY <1>3, <2>v, <3>2, CallsAssumption
      <4>1. resp \in Seq(Nat) /\ resp # <<>> /\ resp[1] = ST_OK /\ Tail(resp) = v
        BY <3>2, <2>r, <4>0, ResponseIs DEF ST_OK
      <4>. QED  BY <3>2, <2>1, <4>1 DEF ST_OK, ST_NOT_FOUND
    <3>. QED  BY <3>1, <3>2
  <2>t. PICK todo \in SUBSET Key : todo = {}  OBVIOUS
  <2>3. Answer(c, resp, got, todo)
    BY <1>5, <2>r, <2>g, <2>t, <2>v
  <2>4. AnswerInv([resp |-> resp, got |-> got, todo |-> todo], Cur(c))
    BY <1>1, <1>q, <2>0, <2>2, <2>t DEF AnswerInv
  <2>5. World' /\ got \in SUBSET (Key \cup Value)
    BY <1>1, <1>3, <1>5, WorldKept DEF World
  <2>6. IInv' /\ Others(c) /\ View(call'[c]) = InCall(Cur(c), todo, got)
    BY <1>1, <2>2, <2>3, <2>4, <2>5, Served
  <2>7. Cur(c).op = "get" /\ got = {store[j] : j \in Present(call[c].todo)}
    BY <1>3, <1>q, <2>0, <2>g
  <2>8. PortStep
    BY <1>1, <1>5, <2>6, <2>7, <2>t, ServedRead
  <2>. QED  BY <2>6, <2>8
<1>6. CASE /\ p.op = OP_PUT
           /\ Answer(c, EncodeResponse(ST_OK, <<>>), {}, {})
           /\ Write({k}, p.payload)
  <2>0. q.op = "put" /\ q.val = p.payload /\ q.val \in Value
    BY <1>2, <1>6 DEF OP_GET, OP_PUT, Requests, ReqOK
  <2>r. PICK resp \in Seq(Nat) : resp = EncodeResponse(ST_OK, <<>>) /\ resp # <<>>
    BY CodeIs DEF ST_OK
  <2>g. PICK got \in SUBSET (Key \cup Value) : got = {}  OBVIOUS
  <2>t. PICK todo \in SUBSET Key : todo = {}  OBVIOUS
  <2>1. Answer(c, resp, got, todo)
    BY <1>6, <2>r, <2>g, <2>t
  <2>2. AnswerInv([resp |-> resp, got |-> got, todo |-> todo], Cur(c))
    BY <1>1, <1>q, <2>0, <2>r, <2>g, <2>t DEF AnswerInv
  <2>3. World'
    BY <1>1, <1>3, <1>6, <2>0, WorldKept, WriteKeepsType
  <2>4. IInv' /\ Others(c) /\ View(call'[c]) = InCall(Cur(c), todo, got)
    BY <1>1, <2>1, <2>2, <2>3, Served
  <2>5. View(call'[c]) = InCall(Cur(c), call[c].todo \ {k}, {}) /\ {k} \in SUBSET call[c].todo
    BY <1>3, <2>4, <2>g, <2>t
  <2>6. Write({k}, Cur(c).val) /\ Cur(c).op \in {"put", "del"}
    BY <1>6, <1>q, <2>0
  <2>7. PortStep
    BY <1>1, <2>4, <2>5, <2>6, ServedWrite
  <2>. QED  BY <2>4, <2>7
<1>7. CASE Answer(c, EncodeResponse(ST_ERR, <<>>), {}, call[c].todo) /\ UNCHANGED store
  <2>r. PICK resp \in Seq(Nat) : resp = EncodeResponse(ST_ERR, <<>>) /\ resp # <<>> /\ resp[1] = ST_ERR
    BY CodeIs DEF ST_ERR
  <2>g. PICK got \in SUBSET (Key \cup Value) : got = {}  OBVIOUS
  <2>t. PICK todo \in SUBSET Key : todo = call[c].todo
    BY <1>3
  <2>1. Answer(c, resp, got, todo)
    BY <1>7, <2>r, <2>g, <2>t
  <2>2. AnswerInv([resp |-> resp, got |-> got, todo |-> todo], Cur(c))
    BY <1>1, <1>q, <2>r, <2>g, <2>t DEF AnswerInv, ST_ERR, ST_OK, ST_NOT_FOUND
  <2>3. World'
    BY <1>1, <1>3, <1>7, WorldKept DEF World
  <2>4. IInv' /\ Others(c) /\ View(call'[c]) = InCall(Cur(c), todo, got)
    BY <1>1, <2>1, <2>2, <2>3, Served
  <2>5. View(call'[c]) = InCall(Cur(c), call[c].todo, {})
    BY <2>4, <2>g, <2>t
  <2>. QED  BY <1>1, <1>7, <2>4, <2>5, ServedNothing
<1>. QED  BY <1>4, <1>5, <1>6, <1>7

LEMMA HangUpStep ==
    ASSUME IInv, NEW c \in Caller, HangUp(c)
    PROVE  IInv' /\ PortStep
<1>1. call' = [call EXCEPT ![c] = Idle] /\ UNCHANGED <<store, used, bounds, history>>
  BY DEF HangUp
<1>2. call'[c] = Idle /\ call' \in [Caller -> CallState] /\ Others(c) /\ StepInv(call'[c])
  BY <1>1, CallIs, IdleIs DEF Others
<1>3. seen'.tag = "transport"
  BY DEF HangUp, Seen
<1>4. View(call'[c]) = Free
  BY <1>2, IdleIs, NotWorking
<1>5. CASE ~Busy(c)
  <2>1. UNCHANGED <<late, result>>
    BY <1>5 DEF HangUp
  <2>2. World'
    BY <1>1, <1>3, <2>1 DEF IInv, World, bounds, history
  <2>3. View(call[c]) = Free
    BY <1>5 DEF View, Working, Busy
  <2>. QED  BY <1>1, <1>2, <1>4, <2>1, <2>2, <2>3, OneCall, PortStutter
<1>6. CASE Busy(c)
  <2>0. LeaveLate(c) /\ result' = [by |-> c, tag |-> "error", got |-> {}]
    BY <1>6 DEF HangUp
  <2>1. /\ Working(call[c]) /\ Cur(c) = Head(call[c].plan)
        /\ Cur(c).op \in {"get", "list", "put", "del"} /\ Cur(c).val \in Value \cup {None}
        /\ call[c].todo \in SUBSET Key
    <3>1. call[c].pc \in {"presign", "sent", "deleting", "answered"}
      BY <1>6 DEF Busy
    <3>. QED  BY <3>1, CurIs, CallIs DEF Working, CallState
  <2>2. late' \subseteq LateWrite
    <3>1. late \subseteq LateWrite
      BY DEF IInv, World
    <3>2. [todo |-> call[c].todo, val |-> Cur(c).val] \in LateWrite
      BY <2>1 DEF LateWrite
    <3>. QED  BY <2>0, <3>1, <3>2 DEF LeaveLate
  <2>3. World'
    BY <1>1, <1>3, <2>0, <2>2 DEF IInv, World, bounds, history
  <2>v. PICK v : v = View(call[c])  OBVIOUS
  <2>q. PICK q : q = Cur(c)  OBVIOUS
  <2>t. PICK todo : todo = call[c].todo  OBVIOUS
  <2>g. PICK saw : saw = call[c].got  OBVIOUS
  <2>4. v = InCall(q, todo, saw)
    BY <2>1, <2>v, <2>q, <2>t, <2>g, InCallIs
  <2>5. v.op = q.op /\ v.todo = todo /\ v.val = q.val
    BY <2>4, InCallSets
  <2>6. v # Free
    <3>1. v.op # "none"
      BY <2>1, <2>5, <2>q
    <3>2. Free.op = "none"
      BY DEF Free
    <3>. QED  BY <3>1, <3>2
  <2>7. \/ UNCHANGED late
        \/ /\ v.op \in {"put", "del"}
           /\ late' = late \cup {[todo |-> v.todo, val |-> v.val]}
    BY <2>0, <2>5, <2>q, <2>t DEF LeaveLate
  <2>8. PortStep
    BY <1>1, <1>2, <1>4, <2>0, <2>6, <2>7, <2>v, PortFails
  <2>. QED  BY <1>2, <2>3, <2>8, OneCall
<1>. QED  BY <1>5, <1>6

LEMMA ReplyStep ==
    ASSUME IInv, NEW c \in Caller, Reply(c)
    PROVE  IInv' /\ PortStep
<1>1. /\ call' = [call EXCEPT ![c] = Idle] /\ call[c].pc = "replied"
      /\ UNCHANGED <<store, result, late, used, bounds, doomed>>
  BY DEF Reply, At
<1>2. call'[c] = Idle /\ call' \in [Caller -> CallState] /\ Others(c) /\ StepInv(call'[c])
  BY <1>1, CallIs, IdleIs DEF Others
<1>3. View(call'[c]) = View(call[c])
  BY <1>1, <1>2, IdleIs, NotWorking
<1>4. seen'.tag \in {"ok", "server", "encoding"}
  BY DEF Reply, Seen
<1>5. acked' \in [Blob -> 0..MaxRestarts \cup {None}]
  <2>1. acked \in [Blob -> 0..MaxRestarts \cup {None}] /\ call[c].life \in 0..MaxRestarts
    BY CallIs DEF World, CallState
  <2>2. acked' = [acked EXCEPT ![call[c].blob] = call[c].life] \/ acked' = acked
    BY DEF Reply
  <2>. QED  BY <2>1, <2>2
<1>6. World'
  BY <1>1, <1>4, <1>5 DEF IInv, World, bounds
<1>. QED  BY <1>1, <1>2, <1>3, <1>6, OneCall, PortStutter

\* The steps that touch no call: a late write, a restart, the clock.
LEMMA NoCall ==
    ASSUME IInv, UNCHANGED call, World'
    PROVE  IInv' /\ UNCHANGED PortCall
<1>1. UNCHANGED PortCall
  BY PortCallIs
<1>. QED  BY <1>1 DEF IInv

LEMMA ServeLateStep ==
    ASSUME IInv, NEW r \in late, ServeLate(r)
    PROVE  IInv' /\ PortStep
<1>1. UNCHANGED <<call, result, seen, used, bounds, history>>
  BY DEF ServeLate
<1>2. PICK k \in r.todo :
        /\ Write({k}, r.val)
        /\ late' = (late \ {r}) \cup (IF r.todo = {k} THEN {} ELSE {[r EXCEPT !.todo = @ \ {k}]})
  BY DEF ServeLate
<1>3. late \subseteq LateWrite /\ World
  BY DEF IInv, World
<1>r. PICK left : left = [r EXCEPT !.todo = @ \ {k}]  OBVIOUS
<1>4. r.todo \in SUBSET Key /\ r.val \in Value \cup {None} /\ left \in LateWrite
  BY <1>3, <1>r DEF LateWrite
<1>5. late' = late \ {r} \/ late' = (late \ {r}) \cup {left}
  BY <1>2, <1>r
<1>6. late' \subseteq LateWrite
  BY <1>3, <1>4, <1>5
<1>7. store' \in [Key -> Value \cup {None}]
  BY <1>2, <1>3, <1>4, WriteKeepsType
<1>8. World'
  BY <1>1, <1>3, <1>6, <1>7 DEF World, bounds, history
<1>9. IInv' /\ UNCHANGED PortCall
  BY <1>1, <1>8, NoCall
<1>10. Port!Write({k}, r.val) /\ {k} \in SUBSET r.todo
  BY <1>2 DEF Write, Port!Write
<1>11. Port!ActLate
  BY <1>1, <1>5, <1>9, <1>10, <1>r DEF Port!ActLate
<1>. QED  BY <1>9, <1>11 DEF PortStep, Port!Next

LEMMA RestartStep ==
    ASSUME IInv, Restart
    PROVE  IInv' /\ PortStep
<1>1. /\ UNCHANGED <<call, result, seen, used, now, asks, own, history>>
      /\ late' \in SUBSET late /\ Write(MetaKeys, None)
  BY DEF Restart
<1>2. restarts' \in 0..MaxRestarts
  BY CallsAssumption DEF Restart, IInv, World
<1>3. store' \in [Key -> Value \cup {None}]
  BY <1>1, WriteKeepsType DEF IInv
<1>4. World'
  BY <1>1, <1>2, <1>3 DEF IInv, World, history
<1>5. IInv' /\ UNCHANGED PortCall
  BY <1>1, <1>4, NoCall
<1>6. Port!Forget
  BY <1>1, <1>5 DEF Port!Forget, Write, Port!Write
<1>. QED  BY <1>5, <1>6 DEF PortStep, Port!Next

LEMMA TickStep ==
    ASSUME IInv, Tick
    PROVE  IInv' /\ PortStep
<1>1. UNCHANGED <<store, call, result, late, seen, used, asks, own, restarts, history>>
  BY DEF Tick
<1>2. now' \in 0..MaxNow
  BY CallsAssumption DEF Tick, IInv, World
<1>3. World'
  BY <1>1, <1>2 DEF IInv, World, history
<1>4. IInv' /\ UNCHANGED PortCall
  BY <1>1, <1>3, NoCall
<1>. QED  BY <1>1, <1>4 DEF PortStep, Port!vars

LEMMA StutterStep ==
    ASSUME IInv, UNCHANGED vars
    PROVE  IInv' /\ PortStep
<1>1. UNCHANGED <<store, call, result, late>>
  BY DEF vars
<1>2. World'
  BY DEF IInv, World, vars, bounds, history
<1>3. IInv' /\ UNCHANGED PortCall
  BY <1>1, <1>2, NoCall
<1>. QED  BY <1>1, <1>3 DEF PortStep, Port!vars

LEMMA ServeStep ==
    ASSUME IInv, NEW c \in Caller, Serve(c)
    PROVE  IInv' /\ PortStep
BY ServeMetaStep, PresignStep, ServeS3Step, ListPrefixStep, DeleteObjectStep,
   ServePeerStep, ServeQuicStep DEF Serve

LEMMA ReceiveStep ==
    ASSUME IInv, NEW c \in Caller, Receive(c)
    PROVE  IInv' /\ PortStep
BY ReceiveMetaStep, ReceiveS3Step, ReceivePeerStep, ReceiveQuicStep DEF Receive

\* The inductive step.
LEMMA NextInv ==
    ASSUME IInv, [Next]_vars
    PROVE  IInv' /\ PortStep
<1>1. ASSUME NEW c \in Caller,
             \/ Start(c) \/ Admit(c) \/ Decline(c) \/ Send(c) \/ Serve(c) \/ Receive(c)
             \/ Lose(c) \/ HangUp(c) \/ Reply(c)
      PROVE  IInv' /\ PortStep
  <2>1. CASE Start(c) \/ Admit(c) \/ Decline(c)
    BY <2>1, StartStep, AdmitStep, DeclineStep
  <2>2. CASE Send(c) \/ Serve(c) \/ Receive(c)
    BY <2>2, SendStep, ServeStep, ReceiveStep
  <2>3. CASE Lose(c) \/ HangUp(c) \/ Reply(c)
    BY <2>3, LoseStep, HangUpStep, ReplyStep
  <2>. QED  BY <1>1, <2>1, <2>2, <2>3
<1>2. ASSUME NEW r \in late, ServeLate(r)
      PROVE  IInv' /\ PortStep
  BY <1>2, ServeLateStep
<1>3. CASE Restart \/ Tick
  BY <1>3, RestartStep, TickStep
<1>4. CASE UNCHANGED vars
  BY <1>4, StutterStep
<1>. QED  BY <1>1, <1>2, <1>3, <1>4 DEF Next

LEMMA InitInv ==
    ASSUME Init
    PROVE  IInv /\ Port!Init
<1>1. /\ call = [c \in Caller |-> Idle] /\ result = [by |-> None, tag |-> "none", got |-> {}]
      /\ late = {} /\ seen = Seen(Idle, "none", 0)
      /\ now = 0 /\ asks = 0 /\ own = 0 /\ restarts = 0 /\ doomed = {}
  BY DEF Init
<1>2. /\ store \in [Key -> Value \cup {None}] /\ used \subseteq Blob
      /\ acked \in [Blob -> 0..MaxRestarts \cup {None}]
  <2>1. Upload \in Value /\ 0 \in 0..MaxRestarts
    BY CallsAssumption
  <2>2. PICK B \in SUBSET Blob, R \in SUBSET Blob :
          /\ store = [k \in Key |->
                 IF k \in {AppKey, NsKey} \cup (UNION {Bucket(b) \cup {ManKey(b)} : b \in B})
                                  \cup {PeerKey(b) : b \in R}
                 THEN Upload ELSE None]
          /\ acked = [b \in Blob |-> IF b \in B THEN 0 ELSE None]
          /\ used = B
    BY DEF Init
  <2>. QED  BY <2>1, <2>2
<1>3. seen.tag = "none"
  BY <1>1 DEF Seen
<1>4. World
  BY <1>1, <1>2, <1>3, CallsAssumption DEF World
<1>5. \A c \in Caller : call[c] = Idle
  BY <1>1
<1>6. IInv
  BY <1>1, <1>4, <1>5, IdleIs DEF IInv
<1>7. PortCall = [c \in Caller |-> Free]
  <2>1. \A c \in Caller : View(call[c]) = Free
    BY <1>5, IdleIs, NotWorking
  <2>. QED  BY <2>1, PortCallIs
<1>8. Port!Init
  BY <1>1, <1>2, <1>7 DEF Port!Init, Port!Free, Free
<1>. QED  BY <1>6, <1>8

-----------------------------------------------------------------------------
(* The theorems.                                                           *)

\* The invariant implies that everything is well formed.
LEMMA InvTypes ==
    ASSUME IInv
    PROVE  TypeOK
<1>1. ASSUME NEW c \in Caller
      PROVE  LET r == call[c]
             IN  /\ r.pc \in {"idle", "asked", "ready", "presign", "sent", "deleting",
                              "answered", "replied"}
                 /\ r.user \in {"none", "put", "get", "delete", "list"}
                 /\ r.blob \in Blob \cup {None}
                 /\ \A i \in 1..Len(r.plan) :
                     r.plan[i].keys \subseteq Key /\ r.plan[i].val \in Value \cup {None}
                 /\ r.pc \notin {"idle", "replied"} => r.plan # <<>>
                 /\ r.pc \in {"answered", "replied"} => r.resp # <<>>
                 /\ r.todo \subseteq Key
                 /\ r.pc = "answered" =>
                     r.got \subseteq IF Head(r.plan).op = "list" THEN Key ELSE Value
  <2>r. PICK r : r = call[c]  OBVIOUS
  <2>1. r \in CallState /\ StepInv(r)
    BY <2>r, CallIs
  <2>2. \A i \in 1..Len(r.plan) : r.plan[i] \in Requests
    BY <2>1 DEF CallState
  <2>3. \A q \in Requests : q.keys \subseteq Key /\ q.val \in Value \cup {None}
    BY DEF Requests, Request
  <2>4. /\ r.pc \in {"idle", "asked", "ready", "presign", "sent", "deleting",
                     "answered", "replied"}
        /\ r.user \in {"none", "put", "get", "delete", "list"}
        /\ r.blob \in Blob \cup {None} /\ r.todo \subseteq Key
    BY <2>1 DEF CallState, Users
  <2>5. /\ r.pc \notin {"idle", "replied"} => r.plan # <<>>
        /\ r.pc \in {"answered", "replied"} => r.resp # <<>>
        /\ r.pc = "answered" => r.got \subseteq IF Head(r.plan).op = "list" THEN Key ELSE Value
    BY <2>1 DEF StepInv, AnswerInv
  <2>. QED  BY <2>r, <2>2, <2>3, <2>4, <2>5
<1>2. \A r \in late : r.todo \subseteq Key /\ r.val \in Value \cup {None}
  BY DEF IInv, World, LateWrite
<1>. QED  BY <1>1, <1>2 DEF IInv, World, TypeOK

\* Requests, answers and what is left with the servers stay well formed: every
\* handler of the chain finds the port call it serves, its keys and, at the
\* receiver, an answer with a status byte or code to look at.
THEOREM TypeCorrect == Spec => []TypeOK
<1>1. Init => IInv
  BY InitInv
<1>2. IInv /\ [Next]_vars => IInv'
  BY NextInv
<1>3. IInv => TypeOK
  BY InvTypes
<1>. QED  BY <1>1, <1>2, <1>3, PTL DEF Spec

\* The four adapters, with the servers behind them, implement the port: for
\* any number of callers, blobs and shards, and whatever is lost, delayed,
\* refused or restarted, a call that reports success has written all its keys
\* or read what was there.
THEOREM AdaptersKeepThePort == Spec => PortKept
<1>1. Init => IInv /\ Port!Init
  BY InitInv
<1>2. IInv /\ [Next]_vars => IInv' /\ [Port!Next]_(Port!vars)
  BY NextInv DEF PortStep
<1>. QED  BY <1>1, <1>2, PTL DEF Spec, PortKept, Port!Spec

-----------------------------------------------------------------------------
(* What the SDK's answers mean. The history variables are tied to the      *)
(* calls: what a delete may still take, what a put still owes, when the    *)
(* write of a manifest can have been sent, and who may read "not found".   *)

\* What a blob is made of, but for its replica.
Of(b) == Bucket(b) \cup {ManKey(b)}

\* Keys that may be deleted, when the blobs in dm are doomed.
Spared(S, dm) == NsKey \notin S /\ \A b \in Blob \ dm : S \cap Of(b) = {}

MetaWrite(q) == q.via = "meta" /\ q.op \in {"put", "del"}

\* What a get asks for.
Reads(q, b) ==
    /\ q.op = "get" /\ q.via \in {"meta", "s3"}
    /\ \E k \in {NsKey} \cup Of(b) : q.keys = {k}

\* A delete takes what is doomed only; the manifest is written or deleted last.
PlanHist(r, dm) ==
    /\ \A i \in 1..Len(r.plan) :
        /\ r.plan[i].op = "del" => Spared(r.plan[i].keys, dm)
        /\ i < Len(r.plan) => ~MetaWrite(r.plan[i])
        /\ r.user = "get" => Reads(r.plan[i], r.blob)
    /\ r.pc = "deleting" => r.todo \subseteq r.plan[1].keys

\* The write of the manifest is out only in the last port call, and a request
\* that has sent it is not answered with a 4xx status.
RiskHist(r) ==
    r.risk => IF r.pc = "replied" THEN r.resp[1] \in {200, 500, 503}
              ELSE r.pc \in {"sent", "answered"} /\ Len(r.plan) = 1 /\ MetaWrite(r.plan[1])

\* The keys a request still has to write: those its present port call has not
\* been served, and those of its later ones.
Due(r) == IF Working(r) THEN r.todo ELSE r.plan[1].keys

Owes(r, k) ==
    \E j \in 1..Len(r.plan) :
        r.plan[j].op = "put" /\ k \in IF j = 1 THEN Due(r) ELSE r.plan[j].keys

\* A put that has not failed has stored what it no longer owes.
PutHist(r, st, dm, rs) ==
    /\ r.life <= rs
    /\ r.pc = "replied" /\ r.resp[1] = 200 => r.plan = <<>>
    /\ r.user = "put" =>
        /\ r.blob \in Blob
        /\ (r.pc = "replied" => r.resp[1] = 200) =>
            \A k \in Of(r.blob) : \/ r.blob \in dm \/ st[k] # None
                                  \/ k = ManKey(r.blob) /\ r.life # rs
                                  \/ Owes(r, k)

\* A get of an id the app was given finds nothing only for a reason.
GetHist(r, dm, rs, ak) ==
    r.known # None =>
        /\ r.user = "get" /\ r.known = r.blob /\ r.known \in Blob /\ ak[r.known] # None
        /\ \/ r.pc = "answered" /\ r.got = {} /\ r.plan[1].via = "meta" /\ r.resp[1] = 200
           \/ r.pc = "replied" /\ r.resp[1] = 404
           => r.known \in dm \/ rs > 0

CallHist(r, st, dm, rs, ak) ==
    PlanHist(r, dm) /\ RiskHist(r) /\ PutHist(r, st, dm, rs) /\ GetHist(r, dm, rs, ak)

\* The same of the stores and of what is left with them.
StoreHist(st, lt, dm, rs, ak) ==
    /\ \A w \in lt : w.val = None => Spared(w.todo, dm)
    /\ rs = 0 => st[NsKey] # None
    /\ \A b \in Blob : ak[b] # None =>
        /\ ak[b] <= rs
        /\ b \notin dm => \A k \in Of(b) : st[k] # None \/ (k = ManKey(b) /\ rs # ak[b])

Hist ==
    /\ StoreHist(store, late, doomed, restarts, acked)
    /\ RefusedMeansUndone /\ NotFoundIsFinal
    /\ \A c \in Caller : CallHist(call[c], store, doomed, restarts, acked)

\* What no step does but for a reason: forget a delete, a put reported as done,
\* or what is not doomed.
Calm(st, dm, rs, ak, st2, dm2, rs2, ak2) ==
    /\ dm \subseteq dm2 /\ rs \in Nat /\ rs2 \in Nat /\ rs <= rs2
    /\ \A b \in Blob \ dm2 : \A k \in Of(b) :
        st[k] # None => st2[k] # None \/ (k = ManKey(b) /\ rs # rs2)
    /\ rs = rs2 /\ st[NsKey] # None => st2[NsKey] # None
    /\ \A b \in Blob : ak[b] # None => ak2[b] # None

LEMMA SparedStays ==
    ASSUME NEW S, NEW dm, NEW dm2, dm \subseteq dm2, Spared(S, dm)
    PROVE  Spared(S, dm2)
BY DEF Spared

LEMMA CallHistKept ==
    ASSUME NEW r, NEW st, NEW dm, NEW rs, NEW ak, NEW st2, NEW dm2, NEW rs2, NEW ak2,
           r.life \in Nat, CallHist(r, st, dm, rs, ak), Calm(st, dm, rs, ak, st2, dm2, rs2, ak2)
    PROVE  CallHist(r, st2, dm2, rs2, ak2)
<1>1. PlanHist(r, dm2)
  <2>1. dm \subseteq dm2 /\ PlanHist(r, dm)
    BY DEF CallHist, Calm
  <2>. QED  BY <2>1, SparedStays DEF PlanHist
<1>2. RiskHist(r)
  BY DEF CallHist
<1>3. PutHist(r, st2, dm2, rs2)
  <2>1. rs \in Nat /\ rs2 \in Nat /\ rs <= rs2 /\ r.life <= rs /\ PutHist(r, st, dm, rs)
    BY DEF CallHist, Calm, PutHist
  <2>2. r.life <= rs2 /\ (r.life # rs => r.life # rs2) /\ (rs # rs2 => r.life # rs2)
    BY <2>1
  <2>3. ASSUME r.user = "put", r.pc = "replied" => r.resp[1] = 200, NEW k \in Of(r.blob),
               r.blob \notin dm2
        PROVE  st2[k] # None \/ (k = ManKey(r.blob) /\ r.life # rs2) \/ Owes(r, k)
    <3>1. r.blob \in Blob \ dm2 /\ r.blob \notin dm
      BY <2>1, <2>3 DEF PutHist, Calm
    <3>2. st[k] # None \/ (k = ManKey(r.blob) /\ r.life # rs) \/ Owes(r, k)
      BY <2>1, <2>3, <3>1 DEF PutHist
    <3>3. st[k] # None => st2[k] # None \/ (k = ManKey(r.blob) /\ rs # rs2)
      BY <2>3, <3>1 DEF Calm
    <3>. QED  BY <2>2, <3>2, <3>3
  <2>. QED  BY <2>1, <2>2, <2>3 DEF PutHist
<1>4. GetHist(r, dm2, rs2, ak2)
  <2>1. rs \in Nat /\ rs2 \in Nat /\ rs <= rs2 /\ dm \subseteq dm2 /\ GetHist(r, dm, rs, ak)
    BY DEF CallHist, Calm
  <2>2. \A b \in Blob : ak[b] # None => ak2[b] # None
    BY DEF Calm
  <2>3. rs > 0 => rs2 > 0
    BY <2>1
  <2>. QED  BY <2>1, <2>2, <2>3 DEF GetHist
<1>. QED  BY <1>1, <1>2, <1>3, <1>4 DEF CallHist

LEMMA StoreHistKept ==
    ASSUME NEW st, NEW lt, NEW dm, NEW rs, NEW ak, NEW st2, NEW lt2, NEW dm2, NEW rs2,
           StoreHist(st, lt, dm, rs, ak), Calm(st, dm, rs, ak, st2, dm2, rs2, ak),
           \A w \in lt2 : w.val = None => Spared(w.todo, dm2),
           \A b \in Blob : ak[b] # None => ak[b] \in Nat
    PROVE  StoreHist(st2, lt2, dm2, rs2, ak)
<1>1. rs \in Nat /\ rs2 \in Nat /\ rs <= rs2 /\ dm \subseteq dm2
  BY DEF Calm
<1>2. rs2 = 0 => st2[NsKey] # None
  BY <1>1 DEF Calm, StoreHist
<1>3. ASSUME NEW b \in Blob, ak[b] # None
      PROVE  /\ ak[b] <= rs2
             /\ b \notin dm2 =>
                 \A k \in Of(b) : st2[k] # None \/ (k = ManKey(b) /\ rs2 # ak[b])
  <2>1. ak[b] \in Nat /\ ak[b] <= rs
    BY <1>3 DEF StoreHist
  <2>2. ak[b] <= rs2 /\ (rs # rs2 => rs2 # ak[b]) /\ (rs # ak[b] => rs2 # ak[b])
    BY <1>1, <2>1
  <2>3. ASSUME b \notin dm2, NEW k \in Of(b)
        PROVE  st2[k] # None \/ (k = ManKey(b) /\ rs2 # ak[b])
    <3>1. st[k] # None \/ (k = ManKey(b) /\ rs # ak[b])
      BY <1>1, <1>3, <2>3 DEF StoreHist
    <3>2. st[k] # None => st2[k] # None \/ (k = ManKey(b) /\ rs # rs2)
      BY <2>3 DEF Calm
    <3>. QED  BY <2>2, <3>1, <3>2
  <2>. QED  BY <2>2, <2>3
<1>. QED  BY <1>2, <1>3 DEF StoreHist

\* Without the step of a caller.
LEMMA HistOf ==
    ASSUME NEW c \in Caller, Others(c), Hist, IInv,
           Calm(store, doomed, restarts, acked, store', doomed', restarts', acked'),
           StoreHist(store', late', doomed', restarts', acked'),
           RefusedMeansUndone', NotFoundIsFinal',
           CallHist(call'[c], store', doomed', restarts', acked')
    PROVE  Hist'
<1>1. ASSUME NEW d \in Caller
      PROVE  CallHist(call'[d], store', doomed', restarts', acked')
  <2>1. CASE d = c
    BY <2>1
  <2>2. CASE d # c
    <3>r. PICK r : r = call[d]  OBVIOUS
    <3>1. CallHist(r, store, doomed, restarts, acked) /\ r.life \in Nat
      <4>1. call[d] \in CallState
        BY CallIs
      <4>. QED  BY <3>r, <4>1 DEF Hist, CallState
    <3>2. CallHist(r, store', doomed', restarts', acked')
      BY <3>1, CallHistKept
    <3>3. call'[d] = r
      BY <2>2, <3>r DEF Others
    <3>. QED  BY <3>2, <3>3
  <2>. QED  BY <2>1, <2>2
<1>. QED  BY <1>1 DEF Hist

LEMMA SeenStays ==
    ASSUME Hist, UNCHANGED seen, doomed \subseteq doomed', restarts \in Nat, restarts' \in Nat,
           restarts <= restarts'
    PROVE  RefusedMeansUndone' /\ NotFoundIsFinal'
<1>1. RefusedMeansUndone /\ NotFoundIsFinal
  BY DEF Hist
<1>2. RefusedMeansUndone'
  BY <1>1 DEF RefusedMeansUndone
<1>3. restarts > 0 => restarts' > 0
  OBVIOUS
<1>4. NotFoundIsFinal'
  BY <1>1, <1>3 DEF NotFoundIsFinal
<1>. QED  BY <1>2, <1>4

LEMMA TypesAre ==
    ASSUME IInv
    PROVE  /\ restarts \in Nat /\ \A b \in Blob : acked[b] # None => acked[b] \in Nat
           /\ \A c \in Caller : call[c].life \in Nat
<1>1. MaxRestarts \in Nat
  BY CallsAssumption
<1>. QED  BY <1>1 DEF IInv, World, CallState

\* Nothing but a call changes.
LEMMA QuietCalm ==
    ASSUME IInv, UNCHANGED <<store, restarts, acked>>, doomed \subseteq doomed'
    PROVE  Calm(store, doomed, restarts, acked, store', doomed', restarts', acked')
BY TypesAre DEF Calm

\* A value is written, or None where all is doomed.
LEMMA WriteCalm ==
    ASSUME IInv, NEW S, NEW v, v \in Value \/ Spared(S, doomed), Write(S, v),
           UNCHANGED <<restarts, acked, doomed>>
    PROVE  Calm(store, doomed, restarts, acked, store', doomed', restarts', acked')
<1>1. restarts \in Nat
  BY TypesAre
<1>2. ASSUME NEW k \in Key, v \in Value \/ k \notin S, store[k] # None
      PROVE  store'[k] # None
  BY <1>2, CallsAssumption DEF Write
<1>3. \A b \in Blob : Of(b) \subseteq Key
  BY KeysAre DEF Of
<1>4. ASSUME NEW b \in Blob \ doomed, NEW k \in Of(b), store[k] # None
      PROVE  store'[k] # None
  <2>1. k \in Key
    BY <1>3
  <2>2. v \in Value \/ k \notin S
    BY DEF Spared
  <2>. QED  BY <1>2, <1>4, <2>1, <2>2
<1>5. store[NsKey] # None => store'[NsKey] # None
  BY <1>2, KeysAre DEF Spared
<1>. QED  BY <1>1, <1>4, <1>5 DEF Calm

LEMMA FirstIs ==
    ASSUME NEW s \in Seq(Requests), s # <<>>
    PROVE  /\ Head(s) = s[1] /\ Len(s) \in Nat /\ Len(s) >= 1 /\ Head(s) \in Requests
           /\ Tail(s) \in Seq(Requests) /\ Len(Tail(s)) = Len(s) - 1
           /\ \A i \in 1..(Len(s) - 1) : Tail(s)[i] = s[i + 1]
           /\ Tail(s) = <<>> <=> Len(s) = 1
<1>1. Head(s) = s[1] /\ Len(s) \in Nat /\ Len(s) >= 1 /\ Head(s) \in Requests
  OBVIOUS
<1>2. Tail(s) \in Seq(Requests) /\ Len(Tail(s)) = Len(s) - 1
  OBVIOUS
<1>3. \A i \in 1..(Len(s) - 1) : Tail(s)[i] = s[i + 1]
  OBVIOUS
<1>4. Tail(s) = <<>> <=> Len(s) = 1
  BY <1>1, <1>2
<1>. QED  BY <1>1, <1>2, <1>3, <1>4

\* A request that makes a hop within its port call, or gets ready for it.
Hop(n, r, st, dm, rs) ==
    /\ n.plan = r.plan /\ n.user = r.user /\ n.blob = r.blob /\ n.life = r.life
    /\ n.known = r.known /\ r.pc # "replied" /\ n.pc # "replied"
    /\ n.pc = "deleting" => n.todo \subseteq n.plan[1].keys
    /\ n.risk => n.pc \in {"sent", "answered"} /\ Len(n.plan) = 1 /\ MetaWrite(n.plan[1])
    /\ r.plan[1].op = "put" => \A k \in Due(r) : k \in Due(n) \/ st[k] # None
    /\ n.known # None /\ n.pc = "answered" /\ n.got = {} /\ n.plan[1].via = "meta"
          /\ n.resp[1] = 200 => n.known \in dm \/ rs > 0

LEMMA GoHist ==
    ASSUME NEW r \in CallState, NEW n \in CallState, NEW st, NEW dm, NEW rs, NEW ak,
           CallHist(r, st, dm, rs, ak), Hop(n, r, st, dm, rs)
    PROVE  CallHist(n, st, dm, rs, ak)
<1>. USE DEF Hop
<1>1. PlanHist(n, dm)
  BY DEF CallHist, PlanHist
<1>2. RiskHist(n)
  BY DEF RiskHist
<1>3. GetHist(n, dm, rs, ak)
  <2>1. GetHist(r, dm, rs, ak)
    BY DEF CallHist
  <2>. QED  BY <2>1 DEF GetHist
<1>4. \A k : Owes(r, k) => Owes(n, k) \/ st[k] # None
  <2>. SUFFICES ASSUME NEW k, Owes(r, k), st[k] = None
                PROVE  Owes(n, k)
    OBVIOUS
  <2>1. PICK j \in 1..Len(r.plan) :
          r.plan[j].op = "put" /\ k \in IF j = 1 THEN Due(r) ELSE r.plan[j].keys
    BY DEF Owes
  <2>2. k \in IF j = 1 THEN Due(n) ELSE n.plan[j].keys
    BY <2>1
  <2>. QED  BY <2>1, <2>2 DEF Owes
<1>5. PutHist(n, st, dm, rs)
  <2>1. PutHist(r, st, dm, rs)
    BY DEF CallHist
  <2>2. ASSUME n.user = "put", NEW k \in Of(n.blob)
        PROVE  n.blob \in dm \/ st[k] # None \/ (k = ManKey(n.blob) /\ n.life # rs) \/ Owes(n, k)
    BY <1>4, <2>1, <2>2 DEF PutHist
  <2>. QED  BY <2>1, <2>2 DEF PutHist
<1>. QED  BY <1>1, <1>2, <1>3, <1>5 DEF CallHist

\* A request that is answered before its next port call.
LEMMA RefuseHist ==
    ASSUME NEW r \in CallState, NEW n \in CallState, NEW st, NEW dm, NEW rs, NEW ak,
           CallHist(r, st, dm, rs, ak), n.plan = r.plan, n.user = r.user, n.blob = r.blob,
           n.life = r.life, n.known = r.known, n.risk = r.risk,
           r.pc \in {"asked", "ready"}, n.pc = "replied", n.resp[1] \notin {200, 404}
    PROVE  CallHist(n, st, dm, rs, ak)
<1>1. PlanHist(n, dm)
  BY DEF CallHist, PlanHist
<1>2. RiskHist(n)
  BY DEF CallHist, RiskHist
<1>3. GetHist(n, dm, rs, ak)
  <2>1. GetHist(r, dm, rs, ak)
    BY DEF CallHist
  <2>. QED  BY <2>1 DEF GetHist
<1>4. PutHist(n, st, dm, rs)
  <2>1. PutHist(r, st, dm, rs)
    BY DEF CallHist
  <2>. QED  BY <2>1 DEF PutHist
<1>. QED  BY <1>1, <1>2, <1>3, <1>4 DEF CallHist

\* How a port call of the SDK's request ends, with the fault f or "ok".
Ending(n, r, f) ==
    /\ f \in {"ok", "Serialization", "NotFound", "Backend", "Unavailable"}
    /\ n.plan = Tail(r.plan) /\ n.resp = <<Status(f)>> /\ Same(n, r)
    /\ n.pc = IF f = "ok" /\ Tail(r.plan) # <<>> THEN "ready" ELSE "replied"
    /\ f = "ok" /\ r.plan[1].op = "put" => r.todo = {}
    /\ f = "NotFound" =>
        /\ r.pc = "answered" /\ r.got = {} /\ r.plan[1].op = "get" /\ r.plan[1].via # "s3"
        /\ r.plan[1].via = "meta" => r.resp[1] = 200
    /\ f = "Serialization" => ~MetaWrite(r.plan[1])

LEMMA EndHist ==
    ASSUME NEW r \in CallState, NEW n \in CallState, NEW st, NEW dm, NEW rs, NEW ak, NEW f,
           CallHist(r, st, dm, rs, ak), Working(r), r.plan # <<>>, Ending(n, r, f)
    PROVE  CallHist(n, st, dm, rs, ak)
<1>p. PICK plan \in Seq(Requests) : plan = r.plan
  BY DEF CallState
<1>t. PICK rest : rest = Tail(plan)  OBVIOUS
<1>1. /\ rest \in Seq(Requests) /\ Len(plan) \in Nat /\ Len(plan) >= 1
      /\ Len(rest) = Len(plan) - 1 /\ \A i \in 1..(Len(plan) - 1) : rest[i] = plan[i + 1]
      /\ rest = <<>> <=> Len(plan) = 1
  <2>1. plan # <<>>
    BY <1>p
  <2>. QED  BY <2>1, <1>t, FirstIs
<1>2. /\ n.plan = rest /\ n.user = r.user /\ n.blob = r.blob /\ n.life = r.life
      /\ n.known = r.known /\ n.risk = r.risk /\ n.pc \in {"ready", "replied"}
      /\ n.pc = "ready" => f = "ok" /\ rest # <<>>
      /\ n.pc = "replied" /\ f = "ok" => rest = <<>>
  BY <1>p, <1>t DEF Ending, Same
<1>3. /\ n.resp[1] = 200 <=> f = "ok"
      /\ n.resp[1] = 404 <=> f = "NotFound"
      /\ f \in {"ok", "Backend", "Unavailable"} => n.resp[1] \in {200, 500, 503}
  <2>1. n.resp[1] = Status(f) /\ f \in {"ok", "Serialization", "NotFound", "Backend", "Unavailable"}
    BY DEF Ending
  <2>. QED  BY <2>1, StatusIs
<1>4. PlanHist(n, dm)
  <2>1. ASSUME NEW i \in 1..Len(rest)
        PROVE  /\ rest[i].op = "del" => Spared(rest[i].keys, dm)
               /\ i < Len(rest) => ~MetaWrite(rest[i])
               /\ r.user = "get" => Reads(rest[i], r.blob)
    <3>1. i + 1 \in 1..Len(plan) /\ rest[i] = plan[i + 1] /\ (i < Len(rest) => i + 1 < Len(plan))
      BY <1>1
    <3>. QED  BY <3>1, <1>p DEF CallHist, PlanHist
  <2>. QED  BY <1>2, <2>1 DEF PlanHist
<1>5. RiskHist(n)
  <2>1. ASSUME r.risk
        PROVE  n.pc = "replied" /\ n.resp[1] \in {200, 500, 503}
    <3>1. RiskHist(r) /\ r.pc # "replied"
      BY DEF CallHist, Working
    <3>2. Len(r.plan) = 1 /\ MetaWrite(r.plan[1])
      BY <2>1, <3>1 DEF RiskHist
    <3>3. f \in {"ok", "Backend", "Unavailable"}
      BY <3>2 DEF Ending, MetaWrite
    <3>4. n.pc = "replied"
      BY <1>p, <1>1, <1>2, <3>2
    <3>. QED  BY <1>3, <3>3, <3>4
  <2>. QED  BY <1>2, <2>1 DEF RiskHist
<1>6. GetHist(n, dm, rs, ak)
  <2>. SUFFICES ASSUME r.known # None
                PROVE  /\ n.user = "get" /\ n.known = n.blob /\ n.known \in Blob
                       /\ ak[n.known] # None
                       /\ n.pc = "replied" /\ n.resp[1] = 404 => n.known \in dm \/ rs > 0
    BY <1>2 DEF GetHist
  <2>1. GetHist(r, dm, rs, ak)
    BY DEF CallHist
  <2>2. n.user = "get" /\ n.known = n.blob /\ n.known \in Blob /\ ak[n.known] # None
    BY <1>2, <2>1 DEF GetHist
  <2>3. ASSUME f = "NotFound"
        PROVE  n.known \in dm \/ rs > 0
    <3>1. r.plan[1].via = "meta"
      <4>1. 1 \in 1..Len(plan)
        BY <1>1
      <4>2. Reads(plan[1], r.blob)
        BY <1>p, <1>2, <2>2, <4>1 DEF CallHist, PlanHist
      <4>. QED  BY <1>p, <2>3, <4>2 DEF Reads, Ending
    <3>. QED  BY <1>2, <2>1, <2>3, <3>1 DEF GetHist, Ending
  <2>. QED  BY <1>3, <2>2, <2>3
<1>7. PutHist(n, st, dm, rs)
  <2>1. PutHist(r, st, dm, rs)
    BY DEF CallHist
  <2>2. n.pc = "replied" /\ n.resp[1] = 200 => n.plan = <<>>
    BY <1>2, <1>3
  <2>3. ASSUME n.user = "put", n.pc = "replied" => n.resp[1] = 200, NEW k \in Of(n.blob)
        PROVE  n.blob \in dm \/ st[k] # None \/ (k = ManKey(n.blob) /\ n.life # rs) \/ Owes(n, k)
    <3>1. f = "ok"
      BY <1>2, <1>3, <2>3
    <3>2. r.blob \in dm \/ st[k] # None \/ (k = ManKey(r.blob) /\ r.life # rs) \/ Owes(r, k)
      BY <1>2, <2>1, <2>3 DEF PutHist, Working
    <3>3. ASSUME Owes(r, k) PROVE Owes(n, k)
      <4>1. PICK j \in 1..Len(plan) :
              plan[j].op = "put" /\ k \in IF j = 1 THEN Due(r) ELSE plan[j].keys
        BY <3>3, <1>p DEF Owes
      <4>2. j # 1
        BY <3>1, <4>1, <1>p DEF Due, Ending
      <4>i. PICK i \in 1..Len(rest) : i = j - 1
        BY <1>1, <4>2
      <4>3. rest[i] = plan[j]
        BY <1>1, <4>i, <4>2
      <4>4. k \in IF i = 1 THEN Due(n) ELSE rest[i].keys
        BY <1>2, <4>1, <4>2, <4>3 DEF Due, Working
      <4>. QED  BY <1>2, <4>1, <4>3, <4>4 DEF Owes
    <3>. QED  BY <1>2, <3>2, <3>3
  <2>. QED  BY <1>2, <2>1, <2>2, <2>3 DEF PutHist
<1>. QED  BY <1>4, <1>5, <1>6, <1>7 DEF CallHist

LEMMA IdleHist ==
    ASSUME NEW st, NEW dm, NEW rs \in Nat, NEW ak
    PROVE  CallHist(Idle, st, dm, rs, ak)
<1>r. PICK r : r = Idle  OBVIOUS
<1>1. /\ r.plan = <<>> /\ r.pc = "idle" /\ r.risk = FALSE /\ r.life = 0 /\ r.user = "none"
      /\ r.known = None
  BY <1>r DEF Idle
<1>2. Len(r.plan) = 0
  BY <1>1
<1>3. PlanHist(r, dm)
  BY <1>1, <1>2 DEF PlanHist
<1>4. RiskHist(r) /\ PutHist(r, st, dm, rs) /\ GetHist(r, dm, rs, ak)
  BY <1>1 DEF RiskHist, PutHist, GetHist
<1>. QED  BY <1>r, <1>3, <1>4 DEF CallHist

\* Only the call of c changes.
LEMMA HistQuiet ==
    ASSUME IInv, Hist, NEW c \in Caller, Others(c),
           UNCHANGED <<store, late, seen, restarts, acked, doomed>>,
           CallHist(call'[c], store, doomed, restarts, acked)
    PROVE  Hist'
<1>1. Calm(store, doomed, restarts, acked, store', doomed', restarts', acked')
  BY QuietCalm
<1>2. RefusedMeansUndone' /\ NotFoundIsFinal'
  BY TypesAre, SeenStays
<1>3. StoreHist(store', late', doomed', restarts', acked')
  BY DEF Hist
<1>. QED  BY <1>1, <1>2, <1>3, HistOf

\* No call changes.
LEMMA HistStill ==
    ASSUME IInv, Hist, UNCHANGED <<call, seen>>,
           Calm(store, doomed, restarts, acked, store', doomed', restarts', acked'),
           StoreHist(store', late', doomed', restarts', acked')
    PROVE  Hist'
<1>1. RefusedMeansUndone' /\ NotFoundIsFinal'
  BY SeenStays DEF Calm
<1>2. ASSUME NEW d \in Caller
      PROVE  CallHist(call'[d], store', doomed', restarts', acked')
  <2>r. PICK r : r = call[d]  OBVIOUS
  <2>1. CallHist(r, store, doomed, restarts, acked) /\ r.life \in Nat
    BY <2>r, TypesAre DEF Hist
  <2>2. CallHist(r, store', doomed', restarts', acked')
    BY <2>1, CallHistKept
  <2>. QED  BY <2>r, <2>2
<1>. QED  BY <1>1, <1>2 DEF Hist

LEMMA TickHist ==
    ASSUME IInv, Hist, UNCHANGED <<store, call, late, seen, restarts, history>>
    PROVE  Hist'
<1>1. UNCHANGED <<acked, doomed>>
  BY DEF history
<1>2. Calm(store, doomed, restarts, acked, store', doomed', restarts', acked')
  BY <1>1, QuietCalm
<1>3. StoreHist(store', late', doomed', restarts', acked')
  BY <1>1 DEF Hist
<1>. QED  BY <1>2, <1>3, HistStill

LEMMA RestartHist ==
    ASSUME IInv, Hist, Restart
    PROVE  Hist'
<1>1. /\ UNCHANGED <<call, seen>> /\ UNCHANGED <<acked, doomed>> /\ late' \subseteq late
      /\ Write(MetaKeys, None) /\ restarts' = restarts + 1
  BY DEF Restart, history
<1>2. Calm(store, doomed, restarts, acked, store', doomed', restarts', acked')
  <2>1. ASSUME NEW b \in Blob, NEW k \in Of(b), store[k] # None
        PROVE  store'[k] # None \/ (k = ManKey(b) /\ restarts # restarts')
    <3>0. restarts # restarts'
      BY <1>1, TypesAre
    <3>1. CASE k \in Bucket(b)
      <4>1. k \in Key
        BY <3>1, KeysAre
      <4>2. k \notin MetaKeys
        BY <3>1 DEF Bucket, S3Key, MetaKeys, AppKey, NsKey, Manifests, ManKey
      <4>. QED  BY <1>1, <2>1, <4>1, <4>2 DEF Write
    <3>. QED  BY <3>0, <3>1 DEF Of
  <2>2. restarts \in Nat /\ restarts' \in Nat /\ restarts <= restarts' /\ restarts # restarts'
    BY <1>1, TypesAre
  <2>. QED  BY <1>1, <2>1, <2>2 DEF Calm
<1>3. StoreHist(store', late', doomed', restarts', acked')
  <2>1. \A w \in late' : w.val = None => Spared(w.todo, doomed')
    BY <1>1 DEF Hist, StoreHist
  <2>2. Calm(store, doomed, restarts, acked, store', doomed', restarts', acked)
    BY <1>1, <1>2
  <2>3. StoreHist(store', late', doomed', restarts', acked)
    BY <2>1, <2>2, TypesAre, StoreHistKept DEF Hist
  <2>. QED  BY <1>1, <2>3
<1>. QED  BY <1>1, <1>2, <1>3, HistStill

\* A step that writes and leaves the rest of the world alone.
LEMMA WroteHist ==
    ASSUME IInv, Hist, NEW S, NEW v, v \in Value \/ Spared(S, doomed), Write(S, v),
           UNCHANGED <<restarts, acked, doomed>>,
           \A w \in late' : w.val = None => Spared(w.todo, doomed)
    PROVE  /\ Calm(store, doomed, restarts, acked, store', doomed', restarts', acked')
           /\ StoreHist(store', late', doomed', restarts', acked')
<1>1. Calm(store, doomed, restarts, acked, store', doomed', restarts', acked')
  BY WriteCalm
<1>2. Calm(store, doomed, restarts, acked, store', doomed', restarts', acked)
  BY <1>1
<1>3. StoreHist(store', late', doomed', restarts', acked)
  BY <1>2, TypesAre, StoreHistKept DEF Hist
<1>. QED  BY <1>1, <1>3

LEMMA ServeLateHist ==
    ASSUME IInv, Hist, NEW r \in late, ServeLate(r)
    PROVE  Hist'
<1>1. UNCHANGED <<call, seen>> /\ UNCHANGED <<restarts, acked, doomed>>
  BY DEF ServeLate, bounds, history
<1>2. PICK k \in r.todo :
        /\ Write({k}, r.val)
        /\ late' = (late \ {r}) \cup (IF r.todo = {k} THEN {} ELSE {[r EXCEPT !.todo = @ \ {k}]})
  BY DEF ServeLate
<1>3. r \in LateWrite
  BY DEF IInv, World
<1>r. PICK left : left = [r EXCEPT !.todo = @ \ {k}]  OBVIOUS
<1>4. left.val = r.val /\ left.todo = r.todo \ {k} /\ r.val \in Value \cup {None}
  BY <1>3, <1>r DEF LateWrite
<1>5. \A w \in late : w.val = None => Spared(w.todo, doomed)
  BY DEF Hist, StoreHist
<1>6. r.val = None => Spared(r.todo, doomed) /\ Spared({k}, doomed) /\ Spared(left.todo, doomed)
  BY <1>2, <1>4, <1>5 DEF Spared
<1>7. \A w \in late' : w \in late \/ w = left
  BY <1>2, <1>r
<1>8. \A w \in late' : w.val = None => Spared(w.todo, doomed)
  BY <1>4, <1>5, <1>6, <1>7
<1>9. r.val \in Value \/ Spared({k}, doomed)
  BY <1>4, <1>6
<1>10. /\ Calm(store, doomed, restarts, acked, store', doomed', restarts', acked')
       /\ StoreHist(store', late', doomed', restarts', acked')
  BY <1>1, <1>2, <1>8, <1>9, WroteHist
<1>. QED  BY <1>1, <1>10, HistStill

\* A request that no write of the manifest has been sent for.
LEMMA NoRisk ==
    ASSUME IInv, Hist, NEW c \in Caller, call[c].pc \notin {"sent", "answered", "replied"}
    PROVE  call[c].risk = FALSE
<1>1. RiskHist(call[c]) /\ call[c].risk \in BOOLEAN
  BY CallIs DEF Hist, CallHist, CallState
<1>. QED  BY <1>1 DEF RiskHist

LEMMA AdmitHist ==
    ASSUME IInv, Hist, NEW c \in Caller, Admit(c)
    PROVE  Hist'
<1>1. call[c].pc = "asked" /\ UNCHANGED <<store, late, seen, restarts, acked, doomed>>
  BY DEF Admit, At, bounds, history
<1>r. PICK r \in CallState : r = call[c]
  BY CallIs
<1>2. CallHist(r, store, doomed, restarts, acked) /\ r.risk = FALSE
  BY <1>1, <1>r, NoRisk DEF Hist
<1>3. CASE call' = [call EXCEPT ![c].pc = "ready"]
  <2>n. PICK n : n = [r EXCEPT !.pc = "ready"]  OBVIOUS
  <2>1. /\ n \in CallState /\ n.pc = "ready" /\ n.plan = r.plan /\ Same(n, r)
    BY <2>n DEF CallState, Same
  <2>2. Due(n) = Due(r)
    BY <1>1, <1>r, <2>1 DEF Due, Working
  <2>3. CallHist(n, store, doomed, restarts, acked)
    <3>1. /\ n.user = r.user /\ n.blob = r.blob /\ n.life = r.life /\ n.known = r.known
          /\ n.risk = FALSE
      BY <1>2, <2>1 DEF Same
    <3>2. Hop(n, r, store, doomed, restarts)
      BY <1>1, <1>r, <2>1, <2>2, <3>1 DEF Hop
    <3>. QED  BY <1>2, <2>1, <3>2, GoHist
  <2>4. call' = [call EXCEPT ![c] = n]
    BY <1>3, <1>r, <2>n, CallIs
  <2>5. call'[c] = n /\ Others(c)
    BY <2>4, CallIs DEF Others
  <2>. QED  BY <1>1, <2>3, <2>5, HistQuiet
<1>4. ASSUME NEW e \in {"Serialization", "Crypto", "TokenExpired", "NamespaceMismatch",
                        "OperationNotPermitted"},
             call' = [call EXCEPT ![c].pc = "replied", ![c].resp = <<Status(e)>>]
      PROVE  Hist'
  <2>s. PICK st \in Nat : st = Status(e) /\ st \notin {200, 404}
    BY StatusIs
  <2>n. PICK n : n = [r EXCEPT !.pc = "replied", !.resp = <<st>>]  OBVIOUS
  <2>0. call' = [call EXCEPT ![c] = n]
    BY <1>4, <1>r, <2>s, <2>n, CallIs
  <2>1. /\ n \in CallState /\ n.pc = "replied" /\ n.plan = r.plan /\ Same(n, r) /\ n.resp = <<st>>
    BY <2>n, CodesAre DEF CallState, Same
  <2>2. CallHist(n, store, doomed, restarts, acked)
    <3>1. /\ n.user = r.user /\ n.blob = r.blob /\ n.life = r.life /\ n.known = r.known
          /\ n.risk = r.risk /\ n.resp[1] \notin {200, 404}
      BY <2>1, <2>s DEF Same
    <3>. QED  BY <1>1, <1>2, <1>r, <2>1, <3>1, RefuseHist
  <2>3. call'[c] = n /\ Others(c)
    BY <2>0, CallIs DEF Others
  <2>. QED  BY <1>1, <2>2, <2>3, HistQuiet
<1>. QED  BY <1>3, <1>4 DEF Admit

LEMMA DeclineHist ==
    ASSUME IInv, Hist, NEW c \in Caller, Decline(c)
    PROVE  Hist'
<1>1. call[c].pc = "ready" /\ UNCHANGED <<store, late, seen, restarts, acked, doomed>>
  BY DEF Decline, At, bounds, history
<1>r. PICK r \in CallState : r = call[c]
  BY CallIs
<1>2. CallHist(r, store, doomed, restarts, acked)
  BY <1>r DEF Hist
<1>3. PICK e \in {"Unauthorized", "QuotaExceeded", "RetentionHold"} :
        call' = [call EXCEPT ![c].pc = "replied", ![c].resp = <<Status(e)>>]
  BY DEF Decline
<1>s. PICK st \in Nat : st = Status(e) /\ st \notin {200, 404}
  BY StatusIs
<1>n. PICK n : n = [r EXCEPT !.pc = "replied", !.resp = <<st>>]  OBVIOUS
<1>4. call' = [call EXCEPT ![c] = n]
  BY <1>3, <1>r, <1>s, <1>n, CallIs
<1>5. /\ n \in CallState /\ n.pc = "replied" /\ n.plan = r.plan /\ Same(n, r) /\ n.resp = <<st>>
  BY <1>n, CodesAre DEF CallState, Same
<1>6. CallHist(n, store, doomed, restarts, acked)
  <2>1. /\ n.user = r.user /\ n.blob = r.blob /\ n.life = r.life /\ n.known = r.known
        /\ n.risk = r.risk /\ n.resp[1] \notin {200, 404}
    BY <1>5, <1>s DEF Same
  <2>. QED  BY <1>1, <1>2, <1>r, <1>5, <2>1, RefuseHist
<1>7. call'[c] = n /\ Others(c)
  BY <1>4, CallIs DEF Others
<1>. QED  BY <1>1, <1>6, <1>7, HistQuiet

LEMMA SendHist ==
    ASSUME IInv, Hist, NEW c \in Caller, Send(c)
    PROVE  Hist'
<1>1. call[c].pc = "ready" /\ UNCHANGED <<store, late, seen, restarts, acked, doomed>>
  BY DEF Send, At, bounds, history
<1>r. PICK r \in CallState : r = call[c]
  BY CallIs
<1>2. CallHist(r, store, doomed, restarts, acked) /\ r.risk = FALSE
  BY <1>1, <1>r, NoRisk DEF Hist
<1>q. PICK q \in Requests : q = Cur(c)
  BY <1>1, CurIs
<1>3. q = r.plan[1] /\ q.keys \in SUBSET Key /\ Len(r.plan) \in Nat /\ Len(r.plan) >= 1
  <2>1. r.plan \in Seq(Requests) /\ r.plan # <<>> /\ q = Head(r.plan) /\ q.keys \in SUBSET Key
    BY <1>1, <1>r, <1>q, CurIs DEF CallState
  <2>. QED  BY <2>1, FirstIs
<1>p. PICK pc \in {"presign", "sent"} :
        pc = IF q.via = "s3" /\ q.op # "del" THEN "presign" ELSE "sent"
  OBVIOUS
<1>10. Len(r.plan) = 1 \/ ~MetaWrite(q)
  <2>1. 1 < Len(r.plan) => ~MetaWrite(r.plan[1])
    BY <1>2, <1>3 DEF CallHist, PlanHist
  <2>2. Len(r.plan) = 1 \/ 1 < Len(r.plan)
    <3>1. Len(r.plan) \in Nat /\ Len(r.plan) >= 1
      BY <1>3
    <3>2. \A m \in Nat : m >= 1 => m = 1 \/ 1 < m
      OBVIOUS
    <3>. QED  BY <3>1, <3>2, Zenon
  <2>. QED  BY <1>3, <2>1, <2>2, Zenon
<1>k. PICK risk \in BOOLEAN : risk = MetaWrite(q)
  BY DEF MetaWrite
<1>n. PICK n : n = [r EXCEPT !.pc = pc, !.todo = q.keys, !.risk = risk]  OBVIOUS
<1>4. call' = [call EXCEPT ![c] = n]
  BY <1>r, <1>q, <1>p, <1>k, <1>n, <1>2, CallIs DEF Send, MetaWrite
<1>5. /\ n \in CallState /\ n.pc = pc /\ n.todo = q.keys /\ n.plan = r.plan
      /\ n.risk = risk /\ n.user = r.user /\ n.blob = r.blob /\ n.life = r.life
      /\ n.known = r.known
  BY <1>n, <1>3 DEF CallState
<1>6. Due(n) = Due(r)
  BY <1>1, <1>r, <1>3, <1>5 DEF Due, Working
<1>7. n.risk => n.pc = "sent" /\ Len(n.plan) = 1 /\ MetaWrite(n.plan[1])
  <2>2. MetaWrite(q) => pc = "sent"
    BY <1>p DEF MetaWrite
  <2>3. CASE MetaWrite(q)
    <3>1. Len(r.plan) = 1
      BY <1>10, <2>3, Zenon
    <3>. QED  BY <1>3, <1>5, <2>2, <2>3, <3>1
  <2>4. CASE ~MetaWrite(q)
    <3>1. n.risk = FALSE
      BY <1>k, <1>5, <2>4, Zenon
    <3>. QED  BY <3>1
  <2>. QED  BY <2>3, <2>4
<1>8. CallHist(n, store, doomed, restarts, acked)
  <2>1. Hop(n, r, store, doomed, restarts)
    BY <1>1, <1>r, <1>5, <1>6, <1>7 DEF Hop
  <2>. QED  BY <1>2, <1>5, <2>1, GoHist
<1>9. call'[c] = n /\ Others(c)
  BY <1>4, CallIs DEF Others
<1>. QED  BY <1>1, <1>8, <1>9, HistQuiet

\* A get of an id the app was given finds what it looks for, while no delete
\* was sent and the coordinator is in its first life.
LEMMA GetFinds ==
    ASSUME IInv, Hist, NEW c \in Caller, call[c].pc = "sent", call[c].known # None,
           Present(Cur(c).keys) = {}
    PROVE  call[c].known \in doomed \/ restarts > 0
<1>. SUFFICES ASSUME call[c].known \notin doomed, ~(restarts > 0)
              PROVE  FALSE
  OBVIOUS
<1>r. PICK r \in CallState : r = call[c]
  BY CallIs
<1>b. PICK b : b = r.known  OBVIOUS
<1>1. /\ r.user = "get" /\ b = r.blob /\ b \in Blob /\ acked[b] # None /\ b \notin doomed
  BY <1>r, <1>b DEF Hist, CallHist, GetHist
<1>2. restarts = 0 /\ acked[b] \in Nat
  BY <1>1, TypesAre
<1>3. acked[b] = 0
  <2>1. acked[b] <= restarts
    BY <1>1 DEF Hist, StoreHist
  <2>. QED  BY <1>2, <2>1
<1>4. \A k \in Of(b) : store[k] # None
  <2>1. \A k \in Of(b) : store[k] # None \/ (k = ManKey(b) /\ restarts # acked[b])
    BY <1>1 DEF Hist, StoreHist
  <2>. QED  BY <1>2, <1>3, <2>1
<1>5. store[NsKey] # None
  BY <1>2 DEF Hist, StoreHist
<1>6. PICK k \in {NsKey} \cup Of(b) : Cur(c).keys = {k}
  <2>1. r.plan \in Seq(Requests) /\ r.plan # <<>> /\ Cur(c) = Head(r.plan)
    BY <1>r, CurIs DEF CallState
  <2>2. Cur(c) = r.plan[1] /\ Len(r.plan) \in Nat /\ Len(r.plan) >= 1
    BY <2>1, FirstIs
  <2>3. 1 \in 1..Len(r.plan)
    BY <2>2
  <2>4. Reads(r.plan[1], b)
    BY <1>r, <1>1, <2>3 DEF Hist, CallHist, PlanHist
  <2>. QED  BY <2>2, <2>4 DEF Reads
<1>7. k \in Present(Cur(c).keys)
  BY <1>4, <1>5, <1>6 DEF Present
<1>. QED  BY <1>7

\* What an answer does to the history.
LEMMA AnswerHist ==
    ASSUME IInv, Hist, NEW c \in Caller, call[c].pc \in {"sent", "deleting"},
           NEW resp \in Seq(Nat), NEW got \in SUBSET (Key \cup Value), NEW todo \in SUBSET Key,
           Answer(c, resp, got, todo),
           Calm(store, doomed, restarts, acked, store', doomed', restarts', acked'),
           StoreHist(store', late', doomed', restarts', acked'), UNCHANGED seen,
           Cur(c).op = "put" => \A k \in call[c].todo : k \in todo \/ store'[k] # None,
           Cur(c).via = "meta" /\ Cur(c).op = "get" /\ got = {} /\ resp[1] = 200 =>
              call[c].pc = "sent" /\ Present(Cur(c).keys) = {}
    PROVE  Hist'
<1>n. PICK n : n = call'[c]  OBVIOUS
<1>r. PICK r \in CallState : r = call[c]
  BY CallIs
<1>1. /\ n \in CallState /\ Others(c)
      /\ n.pc = "answered" /\ n.resp = resp /\ n.got = got
      /\ n.todo = todo /\ n.plan = r.plan /\ Same(n, r)
  <2>1. call \in [Caller -> CallState]
    BY CallIs
  <2>2. /\ call' \in [Caller -> CallState] /\ Others(c)
        /\ call'[c].pc = "answered" /\ call'[c].resp = resp /\ call'[c].got = got
        /\ call'[c].todo = todo /\ call'[c].plan = call[c].plan /\ Same(call'[c], call[c])
    BY <2>1, AnswerIs
  <2>. QED  BY <1>n, <1>r, <2>2
<1>2. r.plan \in Seq(Requests) /\ r.plan # <<>> /\ Cur(c) = r.plan[1]
  <2>1. r.plan \in Seq(Requests) /\ r.plan # <<>> /\ Cur(c) = Head(r.plan)
    BY <1>r, CurIs DEF CallState
  <2>. QED  BY <2>1, FirstIs
<1>3. CallHist(r, store, doomed, restarts, acked) /\ r.life \in Nat
  BY <1>r, TypesAre DEF Hist
<1>4. CallHist(r, store', doomed', restarts', acked')
  BY <1>3, CallHistKept
<1>5. n.user = r.user /\ n.blob = r.blob /\ n.life = r.life /\ n.known = r.known /\ n.risk = r.risk
  BY <1>1 DEF Same
<1>6. Working(r) /\ Working(n) /\ r.pc \in {"sent", "deleting"}
  BY <1>r, <1>1 DEF Working
<1>7. n.risk => n.pc \in {"sent", "answered"} /\ Len(n.plan) = 1 /\ MetaWrite(n.plan[1])
  <2>1. RiskHist(r)
    BY <1>3 DEF CallHist
  <2>. QED  BY <1>1, <1>5, <1>6, <2>1 DEF RiskHist
<1>8. r.plan[1].op = "put" => \A k \in Due(r) : k \in Due(n) \/ store'[k] # None
  BY <1>r, <1>1, <1>2, <1>6 DEF Due
<1>9. ASSUME n.known # None, n.got = {}, n.plan[1].via = "meta", n.resp[1] = 200
      PROVE  n.known \in doomed' \/ restarts' > 0
  <2>1. r.user = "get"
    BY <1>3, <1>5, <1>9 DEF CallHist, GetHist
  <2>2. Cur(c).op = "get" /\ Cur(c).via = "meta"
    <3>1. 1 \in 1..Len(r.plan)
      BY <1>2
    <3>2. Reads(r.plan[1], r.blob)
      BY <1>3, <2>1, <3>1 DEF CallHist, PlanHist
    <3>. QED  BY <1>1, <1>2, <1>9, <3>2 DEF Reads
  <2>3. call[c].pc = "sent" /\ Present(Cur(c).keys) = {}
    BY <1>1, <1>9, <2>2
  <2>4. call[c].known # None /\ call[c].known = n.known
    BY <1>r, <1>5, <1>9
  <2>5. n.known \in doomed \/ restarts > 0
    BY <2>3, <2>4, GetFinds
  <2>6. doomed \subseteq doomed' /\ restarts \in Nat /\ restarts' \in Nat /\ restarts <= restarts'
    BY DEF Calm
  <2>. QED  BY <2>5, <2>6
<1>10. Hop(n, r, store', doomed', restarts')
  <2>1. n.pc # "replied" /\ r.pc # "replied" /\ n.pc # "deleting"
    BY <1>1, <1>6
  <2>. QED  BY <1>1, <1>5, <1>7, <1>8, <1>9, <2>1 DEF Hop
<1>11. CallHist(n, store', doomed', restarts', acked')
  BY <1>1, <1>4, <1>10, GoHist
<1>12. RefusedMeansUndone' /\ NotFoundIsFinal'
  BY SeenStays DEF Calm
<1>. QED  BY <1>n, <1>1, <1>11, <1>12, HistOf

\* The first request of a plan, and what a delete in it may take.
LEMMA CurHist ==
    ASSUME IInv, Hist, NEW c \in Caller, call[c].pc \notin {"idle", "replied"}
    PROVE  /\ Cur(c) = call[c].plan[1] /\ Len(call[c].plan) \in Nat /\ Len(call[c].plan) >= 1
           /\ Cur(c).op = "del" => Spared(Cur(c).keys, doomed)
           /\ Cur(c).op = "put" => Cur(c).val \in Value
<1>1. call[c].plan \in Seq(Requests) /\ call[c].plan # <<>> /\ Cur(c) = Head(call[c].plan)
  BY CurIs, CallIs DEF CallState
<1>2. Cur(c) = call[c].plan[1] /\ Len(call[c].plan) \in Nat /\ Len(call[c].plan) >= 1
  BY <1>1, FirstIs
<1>3. 1 \in 1..Len(call[c].plan)
  BY <1>2
<1>4. Cur(c).op = "del" => Spared(Cur(c).keys, doomed)
  BY <1>2, <1>3 DEF Hist, CallHist, PlanHist
<1>5. Cur(c).op = "put" => Cur(c).val \in Value
  BY CurIs DEF ReqOK
<1>. QED  BY <1>2, <1>4, <1>5

\* An answer for which nothing was written.
LEMMA ReadHist ==
    ASSUME IInv, Hist, NEW c \in Caller, call[c].pc \in {"sent", "deleting"},
           NEW resp \in Seq(Nat), NEW got \in SUBSET (Key \cup Value), NEW todo \in SUBSET Key,
           Answer(c, resp, got, todo),
           UNCHANGED <<store, late, seen, used, bounds, history>>,
           Cur(c).op = "put" => todo = call[c].todo,
           Cur(c).via = "meta" /\ Cur(c).op = "get" /\ got = {} /\ resp[1] = 200 =>
              call[c].pc = "sent" /\ Present(Cur(c).keys) = {}
    PROVE  Hist'
<1>1. UNCHANGED <<store, late, seen, restarts, acked, doomed>>
  BY DEF bounds, history
<1>2. Calm(store, doomed, restarts, acked, store', doomed', restarts', acked')
  BY <1>1, QuietCalm
<1>3. StoreHist(store', late', doomed', restarts', acked')
  BY <1>1 DEF Hist
<1>4. Cur(c).op = "put" => \A k \in call[c].todo : k \in todo \/ store'[k] # None
  OBVIOUS
<1>. QED  BY <1>1, <1>2, <1>3, <1>4, AnswerHist

\* A write of some keys of the port call.
LEMMA PartHist ==
    ASSUME IInv, Hist, NEW c \in Caller, call[c].pc \in {"sent", "deleting"},
           NEW S \in SUBSET Cur(c).keys, Cur(c).op \in {"put", "del"}, Write(S, Cur(c).val),
           UNCHANGED <<late, seen, used, bounds, history>>
    PROVE  /\ Calm(store, doomed, restarts, acked, store', doomed', restarts', acked')
           /\ StoreHist(store', late', doomed', restarts', acked')
<1>1. UNCHANGED <<late, restarts, acked, doomed>>
  BY DEF bounds, history
<1>2. Cur(c).val \in Value \/ Spared(S, doomed)
  <2>1. CASE Cur(c).op = "put"
    BY <2>1, CurHist
  <2>2. CASE Cur(c).op = "del"
    <3>1. Spared(Cur(c).keys, doomed)
      BY <2>2, CurHist
    <3>. QED  BY <3>1 DEF Spared
  <2>. QED  BY <2>1, <2>2
<1>3. \A w \in late' : w.val = None => Spared(w.todo, doomed)
  BY <1>1 DEF Hist, StoreHist
<1>v. PICK v : v = Cur(c).val  OBVIOUS
<1>4. (v \in Value \/ Spared(S, doomed)) /\ Write(S, v)
  BY <1>2, <1>v
<1>. QED  BY <1>1, <1>3, <1>4, WroteHist

LEMMA WrittenHist ==
    ASSUME IInv, Hist, NEW c \in Caller, call[c].pc \in {"sent", "deleting"},
           NEW resp \in Seq(Nat), NEW S \in SUBSET Cur(c).keys, Cur(c).op \in {"put", "del"},
           Write(S, Cur(c).val), Cur(c).op = "put" => call[c].todo \subseteq S,
           Answer(c, resp, {}, {}), UNCHANGED <<late, seen, used, bounds, history>>
    PROVE  Hist'
<1>1. /\ Calm(store, doomed, restarts, acked, store', doomed', restarts', acked')
      /\ StoreHist(store', late', doomed', restarts', acked')
  BY PartHist
<1>g. PICK got \in SUBSET (Key \cup Value) : got = {}  OBVIOUS
<1>t. PICK todo \in SUBSET Key : todo = {}  OBVIOUS
<1>2. Answer(c, resp, got, todo)
  BY <1>g, <1>t
<1>3. ASSUME Cur(c).op = "put", NEW k \in call[c].todo
      PROVE  store'[k] # None
  <2>1. k \in S /\ k \in Key /\ Cur(c).val \in Value
    BY <1>3, CurHist, SentIs
  <2>. QED  BY <2>1, CallsAssumption DEF Write
<1>4. UNCHANGED seen /\ Cur(c).op # "get"
  OBVIOUS
<1>. QED  BY <1>1, <1>2, <1>3, <1>4, AnswerHist

LEMMA ServeMetaHist ==
    ASSUME IInv, Hist, NEW c \in Caller, ServeMeta(c)
    PROVE  Hist'
<1>1. /\ call[c].pc = "sent" /\ Cur(c).via = "meta"
      /\ UNCHANGED <<result, late, seen, used, bounds, history>>
  BY DEF ServeMeta, Sent, At
<1>0. /\ Cur(c).keys \in SUBSET Key /\ call[c].todo = Cur(c).keys /\ World
      /\ call[c].todo \in SUBSET Key
  BY <1>1, CurIs, SentIs, CallIs
<1>r. PICK resp \in Seq(Nat) : resp = << 200 >> /\ resp[1] = 200
  BY CodeSeq
<1>2. CASE /\ Cur(c).op = "get" /\ UNCHANGED store
           /\ Answer(c, << 200 >>, {store[k] : k \in Present(Cur(c).keys)}, {})
  <2>g. PICK got \in SUBSET (Key \cup Value) : got = {store[k] : k \in Present(Cur(c).keys)}
    BY <1>0, PresentIs
  <2>t. PICK todo \in SUBSET Key : todo = {}  OBVIOUS
  <2>1. Answer(c, resp, got, todo)
    BY <1>2, <1>r, <2>g, <2>t
  <2>2. got = {} => Present(Cur(c).keys) = {}
    BY <2>g
  <2>. QED  BY <1>1, <1>2, <2>1, <2>2, ReadHist
<1>3. CASE Cur(c).op = "list" /\ UNCHANGED store /\ Answer(c, << 200 >>, Present(Cur(c).keys), {})
  <2>g. PICK got \in SUBSET (Key \cup Value) : got = Present(Cur(c).keys)
    BY <1>0, PresentIs
  <2>t. PICK todo \in SUBSET Key : todo = {}  OBVIOUS
  <2>1. Answer(c, resp, got, todo)
    BY <1>3, <1>r, <2>g, <2>t
  <2>. QED  BY <1>1, <1>3, <2>1, ReadHist
<1>4. CASE /\ Cur(c).op \in {"put", "del"} /\ Answer(c, << 200 >>, {}, {})
           /\ Write(Cur(c).keys, Cur(c).val)
  <2>S. PICK S \in SUBSET Cur(c).keys : S = Cur(c).keys  OBVIOUS
  <2>1. Answer(c, resp, {}, {}) /\ Write(S, Cur(c).val) /\ call[c].todo \subseteq S
    BY <1>0, <1>4, <1>r, <2>S
  <2>. QED  BY <1>1, <1>4, <2>1, WrittenHist
<1>5. CASE Answer(c, << 403 >>, {}, call[c].todo) /\ UNCHANGED store
  <2>r. PICK no \in Seq(Nat) : no = << 403 >> /\ no[1] = 403
    BY CodeSeq
  <2>g. PICK got \in SUBSET (Key \cup Value) : got = {}  OBVIOUS
  <2>t. PICK todo \in SUBSET Key : todo = call[c].todo
    BY <1>0
  <2>1. Answer(c, no, got, todo) /\ no[1] # 200
    BY <1>5, <2>r, <2>g, <2>t
  <2>. QED  BY <1>1, <1>5, <2>t, <2>1, ReadHist
<1>. QED  BY <1>2, <1>3, <1>4, <1>5 DEF ServeMeta

\* Refusals, errors and reads of the other stores.
LEMMA OtherHist ==
    ASSUME IInv, Hist, NEW c \in Caller, call[c].pc \in {"sent", "deleting"},
           Cur(c).via # "meta", NEW st \in Nat, NEW got \in SUBSET (Key \cup Value),
           NEW todo \in SUBSET Key, Cur(c).op = "put" => todo = call[c].todo,
           Answer(c, <<st>>, got, todo),
           UNCHANGED <<store, late, seen, used, bounds, history>>
    PROVE  Hist'
<1>r. PICK resp \in Seq(Nat) : resp = <<st>>
  BY CodeSeq
<1>1. Answer(c, resp, got, todo)
  BY <1>r
<1>. QED  BY <1>1, ReadHist

LEMMA ServeS3Hist ==
    ASSUME IInv, Hist, NEW c \in Caller, ServeS3(c)
    PROVE  Hist'
<1>1. /\ call[c].pc = "sent" /\ Cur(c).via = "s3" /\ Cur(c).op # "del"
      /\ UNCHANGED <<result, late, seen, used, bounds, history>>
  BY DEF ServeS3, Sent, At
<1>0. /\ Cur(c).keys \in SUBSET Key /\ call[c].todo = Cur(c).keys /\ World
      /\ call[c].todo \in SUBSET Key
  BY <1>1, CurIs, SentIs, CallIs
<1>g. PICK none \in SUBSET (Key \cup Value) : none = {}  OBVIOUS
<1>t. PICK done \in SUBSET Key : done = {}  OBVIOUS
<1>2. CASE /\ Cur(c).op = "get" /\ UNCHANGED store
           /\ Answer(c, <<IF Present(Cur(c).keys) = {} THEN 404 ELSE 200>>,
                     {store[k] : k \in Present(Cur(c).keys)}, {})
  <2>s. PICK st \in Nat : st = IF Present(Cur(c).keys) = {} THEN 404 ELSE 200
    OBVIOUS
  <2>g. PICK got \in SUBSET (Key \cup Value) : got = {store[k] : k \in Present(Cur(c).keys)}
    BY <1>0, PresentIs
  <2>1. Answer(c, <<st>>, got, done)
    BY <1>2, <1>t, <2>s, <2>g
  <2>. QED  BY <1>1, <1>2, <2>1, OtherHist
<1>3. CASE Cur(c).op = "put" /\ Answer(c, << 200 >>, {}, {}) /\ Write(Cur(c).keys, Cur(c).val)
  <2>r. PICK resp \in Seq(Nat) : resp = << 200 >>
    BY CodeSeq
  <2>S. PICK S \in SUBSET Cur(c).keys : S = Cur(c).keys  OBVIOUS
  <2>1. Answer(c, resp, {}, {}) /\ Write(S, Cur(c).val) /\ call[c].todo \subseteq S
    BY <1>0, <1>3, <2>r, <2>S
  <2>. QED  BY <1>1, <1>3, <2>1, WrittenHist
<1>4. CASE Cur(c).op = "get" /\ Answer(c, << 403 >>, {}, {}) /\ UNCHANGED store
  <2>1. Answer(c, << 403 >>, none, done)
    BY <1>4, <1>g, <1>t
  <2>. QED  BY <1>1, <1>4, <2>1, OtherHist
<1>5. CASE Answer(c, << 403 >>, {}, call[c].todo) /\ UNCHANGED store
  <2>1. Answer(c, << 403 >>, none, call[c].todo)
    BY <1>5, <1>g
  <2>. QED  BY <1>0, <1>1, <1>5, <2>1, OtherHist
<1>6. CASE Answer(c, << 503 >>, {}, call[c].todo) /\ UNCHANGED store
  <2>1. Answer(c, << 503 >>, none, call[c].todo)
    BY <1>6, <1>g
  <2>. QED  BY <1>0, <1>1, <1>6, <2>1, OtherHist
<1>. QED  BY <1>2, <1>3, <1>4, <1>5, <1>6 DEF ServeS3

LEMMA ServePeerHist ==
    ASSUME IInv, Hist, NEW c \in Caller, ServePeer(c)
    PROVE  Hist'
<1>1. /\ call[c].pc = "sent" /\ Cur(c).via = "peer"
      /\ UNCHANGED <<result, late, seen, used, bounds, history>>
  BY DEF ServePeer, Sent, At
<1>0. /\ Cur(c).keys \in SUBSET Key /\ call[c].todo = Cur(c).keys /\ World
      /\ call[c].todo \in SUBSET Key
  BY <1>1, CurIs, SentIs, CallIs
<1>2. CASE /\ Cur(c).op = "get" /\ UNCHANGED store
           /\ Answer(c, <<Status(IF Present(Cur(c).keys) = {} THEN "NotFound" ELSE "ok")>>,
                     {store[k] : k \in Present(Cur(c).keys)}, {})
  <2>s. PICK st \in Nat : st = Status(IF Present(Cur(c).keys) = {} THEN "NotFound" ELSE "ok")
    BY CodesAre
  <2>g. PICK got \in SUBSET (Key \cup Value) : got = {store[k] : k \in Present(Cur(c).keys)}
    BY <1>0, PresentIs
  <2>t. PICK done \in SUBSET Key : done = {}  OBVIOUS
  <2>1. Answer(c, <<st>>, got, done)
    BY <1>2, <2>t, <2>s, <2>g
  <2>. QED  BY <1>1, <1>2, <2>1, OtherHist
<1>3. CASE Cur(c).op = "put" /\ Answer(c, << 200 >>, {}, {}) /\ Write(Cur(c).keys, Cur(c).val)
  <2>r. PICK resp \in Seq(Nat) : resp = << 200 >>
    BY CodeSeq
  <2>S. PICK S \in SUBSET Cur(c).keys : S = Cur(c).keys  OBVIOUS
  <2>1. Answer(c, resp, {}, {}) /\ Write(S, Cur(c).val) /\ call[c].todo \subseteq S
    BY <1>0, <1>3, <2>r, <2>S
  <2>. QED  BY <1>1, <1>3, <2>1, WrittenHist
<1>4. CASE Answer(c, <<Status("Backend")>>, {}, call[c].todo) /\ UNCHANGED store
  <2>g. PICK none \in SUBSET (Key \cup Value) : none = {}  OBVIOUS
  <2>1. Answer(c, << 500 >>, none, call[c].todo)
    BY <1>4, <2>g, CodesAre
  <2>. QED  BY <1>0, <1>1, <1>4, <2>1, OtherHist
<1>. QED  BY <1>2, <1>3, <1>4 DEF ServePeer

\* A delete that goes on.
LEMMA ShrunkHist ==
    ASSUME IInv, Hist, NEW c \in Caller, call[c].pc \in {"sent", "deleting"},
           Cur(c).via = "s3", Cur(c).op = "del", NEW left \in SUBSET Cur(c).keys,
           call' = [call EXCEPT ![c].pc = "deleting", ![c].todo = left],
           Calm(store, doomed, restarts, acked, store', doomed', restarts', acked'),
           StoreHist(store', late', doomed', restarts', acked'), UNCHANGED seen
    PROVE  Hist'
<1>r. PICK r \in CallState : r = call[c]
  BY CallIs
<1>n. PICK n : n = [r EXCEPT !.pc = "deleting", !.todo = left]  OBVIOUS
<1>1. Cur(c) = r.plan[1] /\ left \in SUBSET Key
  BY <1>r, CurHist, CurIs
<1>2. /\ n \in CallState /\ n.pc = "deleting" /\ n.todo = left /\ n.plan = r.plan
      /\ n.user = r.user /\ n.blob = r.blob /\ n.life = r.life /\ n.known = r.known
      /\ n.risk = r.risk
  BY <1>n, <1>1 DEF CallState
<1>3. call' = [call EXCEPT ![c] = n]
  BY <1>r, <1>n, CallIs
<1>4. call'[c] = n /\ Others(c)
  BY <1>3, CallIs DEF Others
<1>5. CallHist(r, store, doomed, restarts, acked) /\ r.life \in Nat
  BY <1>r, TypesAre DEF Hist
<1>6. CallHist(r, store', doomed', restarts', acked')
  BY <1>5, CallHistKept
<1>7. n.risk = FALSE
  <2>1. RiskHist(r) /\ r.pc \in {"sent", "deleting"} /\ ~MetaWrite(r.plan[1]) /\ r.risk \in BOOLEAN
    BY <1>r, <1>1, <1>5 DEF CallHist, MetaWrite, CallState
  <2>2. ~r.risk
    BY <2>1 DEF RiskHist
  <2>. QED  BY <1>2, <2>1, <2>2
<1>8. Hop(n, r, store', doomed', restarts')
  BY <1>r, <1>1, <1>2, <1>7 DEF Hop
<1>9. CallHist(n, store', doomed', restarts', acked')
  BY <1>2, <1>6, <1>8, GoHist
<1>10. RefusedMeansUndone' /\ NotFoundIsFinal'
  BY SeenStays DEF Calm
<1>. QED  BY <1>4, <1>9, <1>10, HistOf

LEMMA ListPrefixHist ==
    ASSUME IInv, Hist, NEW c \in Caller, ListPrefix(c)
    PROVE  Hist'
<1>1. /\ call[c].pc = "sent" /\ Cur(c).via = "s3" /\ Cur(c).op = "del"
      /\ UNCHANGED <<store, result, late, seen, used, bounds, history>>
  BY DEF ListPrefix, Sent, At
<1>0. call[c].todo \in SUBSET Key /\ Present(Cur(c).keys) \in SUBSET Cur(c).keys
  BY <1>1, SentIs DEF Present
<1>g. PICK none \in SUBSET (Key \cup Value) : none = {}  OBVIOUS
<1>t. PICK done \in SUBSET Key : done = {}  OBVIOUS
<1>2. CASE Answer(c, << 200 >>, {}, {})
  <2>1. Answer(c, << 200 >>, none, done)
    BY <1>2, <1>g, <1>t
  <2>. QED  BY <1>1, <2>1, OtherHist
<1>3. CASE call' = [call EXCEPT ![c].pc = "deleting", ![c].todo = Present(Cur(c).keys)]
  <2>l. PICK left \in SUBSET Cur(c).keys : left = Present(Cur(c).keys)
    BY <1>0
  <2>0. call' = [call EXCEPT ![c].pc = "deleting", ![c].todo = left]
    BY <1>3, <2>l
  <2>1. UNCHANGED <<store, late, seen, restarts, acked, doomed>>
    BY <1>1 DEF bounds, history
  <2>2. Calm(store, doomed, restarts, acked, store', doomed', restarts', acked')
    BY <2>1, QuietCalm
  <2>3. StoreHist(store', late', doomed', restarts', acked')
    BY <2>1 DEF Hist
  <2>. QED  BY <1>1, <2>0, <2>1, <2>2, <2>3, ShrunkHist
<1>4. CASE Answer(c, <<Status("Backend")>>, {}, call[c].todo)
  <2>1. Answer(c, << 500 >>, none, call[c].todo)
    BY <1>4, <1>g, CodesAre
  <2>. QED  BY <1>0, <1>1, <2>1, OtherHist
<1>. QED  BY <1>2, <1>3, <1>4 DEF ListPrefix

LEMMA DeleteObjectHist ==
    ASSUME IInv, Hist, NEW c \in Caller, NEW k \in call[c].todo, DeleteObject(c, k)
    PROVE  Hist'
<1>1. call[c].pc = "deleting" /\ UNCHANGED <<result, late, seen, used, bounds, history>>
  BY DEF DeleteObject, At
<1>2. /\ Cur(c).via = "s3" /\ Cur(c).op = "del" /\ Cur(c).val = None
      /\ call[c].todo \in SUBSET Key /\ call[c].todo \subseteq Cur(c).keys
  <2>1. Cur(c).via = "s3" /\ Cur(c).op = "del" /\ call[c].todo \in SUBSET Key
    BY <1>1, SentIs, CurIs, CallIs DEF StepInv
  <2>2. Cur(c).val = None
    BY <1>1, <2>1, CurIs DEF ReqOK
  <2>3. PlanHist(call[c], doomed) /\ Cur(c) = call[c].plan[1]
    BY <1>1, CurHist DEF Hist, CallHist
  <2>. QED  BY <1>1, <2>1, <2>2, <2>3 DEF PlanHist
<1>l. PICK left \in SUBSET Cur(c).keys : left = call[c].todo \ {k}
  BY <1>2
<1>S. PICK S \in SUBSET Cur(c).keys : S = {k}
  BY <1>2
<1>3. CASE Write({k}, None) /\ left = {} /\ Answer(c, << 200 >>, {}, {})
  <2>r. PICK resp \in Seq(Nat) : resp = << 200 >>
    BY CodeSeq
  <2>1. Answer(c, resp, {}, {}) /\ Write(S, Cur(c).val)
    BY <1>2, <1>3, <1>S, <2>r
  <2>. QED  BY <1>1, <1>2, <2>1, WrittenHist
<1>4. CASE Write({k}, None) /\ call' = [call EXCEPT ![c].todo = left]
  <2>0. Write(S, Cur(c).val)
    BY <1>2, <1>4, <1>S
  <2>1. /\ Calm(store, doomed, restarts, acked, store', doomed', restarts', acked')
        /\ StoreHist(store', late', doomed', restarts', acked')
    BY <1>1, <1>2, <2>0, PartHist
  <2>2. call' = [call EXCEPT ![c].pc = "deleting", ![c].todo = left]
    <3>r. PICK r \in CallState : r = call[c]
      BY CallIs
    <3>1. [r EXCEPT !.todo = left] = [r EXCEPT !.pc = "deleting", !.todo = left]
      BY <1>1, <3>r DEF CallState
    <3>. QED  BY <1>4, <3>r, <3>1
  <2>. QED  BY <1>1, <1>2, <2>1, <2>2, ShrunkHist
<1>5. CASE Answer(c, <<Status("Backend")>>, {}, call[c].todo) /\ UNCHANGED store
  <2>g. PICK none \in SUBSET (Key \cup Value) : none = {}  OBVIOUS
  <2>1. Answer(c, << 500 >>, none, call[c].todo)
    BY <1>5, <2>g, CodesAre
  <2>. QED  BY <1>1, <1>2, <1>5, <2>1, OtherHist
<1>. QED  BY <1>l, <1>3, <1>4, <1>5 DEF DeleteObject

LEMMA ServeQuicHist ==
    ASSUME IInv, Hist, NEW c \in Caller, ServeQuic(c)
    PROVE  Hist'
<1>1. /\ call[c].pc = "sent" /\ Cur(c).via = "quic"
      /\ UNCHANGED <<result, late, seen, used, bounds, history>>
  BY DEF ServeQuic, Sent, At
<1>q. PICK q \in Requests : q = Cur(c)
  BY <1>1, CurIs
<1>p. PICK p : p = ParseRequest(Frame(q))  OBVIOUS
<1>2. PICK k \in PeerKeys :
        /\ q.keys = {k} /\ q.op \in {"get", "put"}
        /\ p.op = (IF q.op = "get" THEN OP_GET ELSE OP_PUT)
        /\ ParseKey(p.key) = k
        /\ q.op = "put" => p.payload = q.val
  BY <1>1, <1>q, <1>p, FrameParses
<1>3. /\ call[c].todo = {k} /\ {k} \in SUBSET Key /\ World /\ store[k] \in Value \cup {None}
  BY <1>1, <1>2, <1>q, SentIs, KeysAre, CallIs DEF World
<1>4. \/ /\ p.op = OP_GET
         /\ Answer(c, IF store[k] = None THEN EncodeResponse(ST_NOT_FOUND, <<>>)
                                         ELSE EncodeResponse(ST_OK, store[k]),
                   {store[j] : j \in Present({k})}, {})
         /\ UNCHANGED store
      \/ /\ p.op = OP_PUT
         /\ Answer(c, EncodeResponse(ST_OK, <<>>), {}, {})
         /\ Write({k}, p.payload)
      \/ /\ Answer(c, EncodeResponse(ST_ERR, <<>>), {}, call[c].todo)
         /\ UNCHANGED store
  BY <1>q, <1>p, <1>2, Zenon DEF ServeQuic
<1>5. CASE /\ p.op = OP_GET
           /\ Answer(c, IF store[k] = None THEN EncodeResponse(ST_NOT_FOUND, <<>>)
                                           ELSE EncodeResponse(ST_OK, store[k]),
                     {store[j] : j \in Present({k})}, {})
           /\ UNCHANGED store
  <2>0. Cur(c).op = "get"
    BY <1>2, <1>5, <1>q DEF OP_GET, OP_PUT
  <2>r. PICK resp : resp = IF store[k] = None THEN EncodeResponse(ST_NOT_FOUND, <<>>)
                           ELSE EncodeResponse(ST_OK, store[k])
    OBVIOUS
  <2>1. resp \in Seq(Nat)
    <3>1. EncodeResponse(ST_NOT_FOUND, <<>>) \in Seq(Nat)
      BY CodeIs DEF ST_NOT_FOUND
    <3>2. ASSUME store[k] # None
          PROVE  EncodeResponse(ST_OK, store[k]) \in Seq(Nat)
      <4>1. store[k] \in Seq(Nat)
        BY <1>3, <3>2, CallsAssumption
      <4>. QED  BY <4>1, ResponseIs DEF ST_OK
    <3>. QED  BY <2>r, <3>1, <3>2
  <2>g. PICK got \in SUBSET (Key \cup Value) : got = {store[j] : j \in Present({k})}
    BY <1>3, PresentIs
  <2>t. PICK todo \in SUBSET Key : todo = {}  OBVIOUS
  <2>2. Answer(c, resp, got, todo)
    BY <1>5, <2>r, <2>g, <2>t
  <2>. QED  BY <1>1, <1>5, <2>0, <2>1, <2>2, ReadHist
<1>6. CASE /\ p.op = OP_PUT
           /\ Answer(c, EncodeResponse(ST_OK, <<>>), {}, {})
           /\ Write({k}, p.payload)
  <2>0. Cur(c).op = "put" /\ Write({k}, Cur(c).val)
    BY <1>2, <1>6, <1>q DEF OP_GET, OP_PUT
  <2>r. PICK resp \in Seq(Nat) : resp = EncodeResponse(ST_OK, <<>>)
    BY CodeIs DEF ST_OK
  <2>S. PICK S \in SUBSET Cur(c).keys : S = {k}
    BY <1>2, <1>q
  <2>1. Answer(c, resp, {}, {}) /\ Write(S, Cur(c).val) /\ call[c].todo \subseteq S
    BY <1>3, <1>6, <2>0, <2>r, <2>S
  <2>. QED  BY <1>1, <2>0, <2>1, WrittenHist
<1>7. CASE Answer(c, EncodeResponse(ST_ERR, <<>>), {}, call[c].todo) /\ UNCHANGED store
  <2>r. PICK resp \in Seq(Nat) : resp = EncodeResponse(ST_ERR, <<>>)
    BY CodeIs DEF ST_ERR
  <2>g. PICK none \in SUBSET (Key \cup Value) : none = {}  OBVIOUS
  <2>t. PICK todo \in SUBSET Key : todo = call[c].todo
    BY <1>3
  <2>1. Answer(c, resp, none, todo)
    BY <1>7, <2>r, <2>g, <2>t
  <2>. QED  BY <1>1, <1>7, <2>t, <2>1, ReadHist
<1>. QED  BY <1>4, <1>5, <1>6, <1>7

LEMMA LateHist ==
    ASSUME IInv, Hist, NEW c \in Caller, Busy(c), LeaveLate(c)
    PROVE  \A w \in late' : w.val = None => Spared(w.todo, doomed)
<1>1. \A w \in late : w.val = None => Spared(w.todo, doomed)
  BY DEF Hist, StoreHist
<1>2. CASE UNCHANGED late
  BY <1>1, <1>2
<1>3. CASE /\ call[c].pc \in {"sent", "deleting"} /\ Cur(c).op \in {"put", "del"}
           /\ late' = late \cup {[todo |-> call[c].todo, val |-> Cur(c).val]}
  <2>1. call[c].todo \subseteq Cur(c).keys
    <3>1. CASE call[c].pc = "sent"
      BY <3>1, SentIs
    <3>2. CASE call[c].pc = "deleting"
      <4>1. PlanHist(call[c], doomed) /\ Cur(c) = call[c].plan[1]
        BY <3>2, CurHist DEF Hist, CallHist
      <4>. QED  BY <3>2, <4>1 DEF PlanHist
    <3>. QED  BY <1>3, <3>1, <3>2
  <2>2. Cur(c).val = None => Spared(call[c].todo, doomed)
    <3>1. CASE Cur(c).op = "put"
      BY <1>3, <3>1, CurHist, CallsAssumption
    <3>2. CASE Cur(c).op = "del"
      <4>1. Spared(Cur(c).keys, doomed)
        BY <1>3, <3>2, CurHist
      <4>. QED  BY <2>1, <4>1 DEF Spared
    <3>. QED  BY <1>3, <3>1, <3>2
  <2>w. PICK new : new = [todo |-> call[c].todo, val |-> Cur(c).val]  OBVIOUS
  <2>3. new.todo = call[c].todo /\ new.val = Cur(c).val /\ late' = late \cup {new}
    BY <1>3, <2>w
  <2>. QED  BY <1>1, <2>2, <2>3
<1>. QED  BY <1>2, <1>3 DEF LeaveLate

LEMMA OverHist ==
    ASSUME IInv, Hist, NEW c \in Caller, Busy(c), NEW ok \in BOOLEAN, NEW got,
           NEW e \in {"Serialization", "Backend", "Unavailable"},
           End(c, ok, got, e), UNCHANGED <<store, seen, used, bounds, history>>, LeaveLate(c),
           ok => /\ got = call[c].got /\ call[c].todo = {} /\ call[c].pc = "answered"
                 /\ Cur(c).via = "meta" => call[c].resp[1] = 200,
           e = "Serialization" => ~MetaWrite(Cur(c))
    PROVE  Hist'
<1>n. PICK n : n = call'[c]  OBVIOUS
<1>r. PICK r \in CallState : r = call[c]
  BY CallIs
<1>0. /\ call[c].plan # <<>> /\ call \in [Caller -> CallState] /\ Working(r)
      /\ call[c].pc \notin {"idle", "replied"}
  <2>1. call[c].pc \in {"presign", "sent", "deleting", "answered"}
    BY DEF Busy
  <2>. QED  BY <1>r, <2>1, CurIs, CallIs DEF Working
<1>f. PICK f : f = Fault(c, ok, got, e)  OBVIOUS
<1>1. /\ call' \in [Caller -> CallState] /\ Others(c)
      /\ call[c].user = "none" => call'[c] = Idle
      /\ call[c].user # "none" =>
           /\ call'[c].plan = Tail(call[c].plan)
           /\ call'[c].resp = <<Status(f)>>
           /\ call'[c].pc = IF f = "ok" /\ Tail(call[c].plan) # <<>>
                            THEN "ready" ELSE "replied"
           /\ call'[c].user = call[c].user /\ call'[c].blob = call[c].blob
           /\ call'[c].risk = call[c].risk /\ call'[c].life = call[c].life
           /\ call'[c].known = call[c].known
  BY <1>0, <1>f, EndIs
<1>2. Cur(c) = r.plan[1]
  BY <1>0, <1>r, CurHist
<1>3. UNCHANGED <<store, seen, restarts, acked, doomed>>
  BY DEF bounds, history
<1>4. Calm(store, doomed, restarts, acked, store', doomed', restarts', acked')
  BY <1>3, QuietCalm
<1>5. StoreHist(store', late', doomed', restarts', acked')
  <2>1. \A w \in late' : w.val = None => Spared(w.todo, doomed)
    BY LateHist
  <2>2. StoreHist(store, late, doomed, restarts, acked)
    BY DEF Hist
  <2>3. StoreHist(store, late', doomed, restarts, acked)
    BY <2>1, <2>2 DEF StoreHist
  <2>. QED  BY <1>3, <2>3
<1>6. RefusedMeansUndone' /\ NotFoundIsFinal'
  BY <1>3, TypesAre, SeenStays
<1>7. CallHist(n, store, doomed, restarts, acked)
  <2>1. CASE r.user = "none"
    BY <1>n, <1>r, <1>1, <2>1, TypesAre, IdleHist
  <2>2. CASE r.user # "none"
    <3>1. /\ f \in {"ok", "Serialization", "NotFound", "Backend", "Unavailable"}
          /\ f = "ok" => ok
          /\ f = "NotFound" => ok /\ got = {} /\ Cur(c).op = "get" /\ Cur(c).via # "s3"
          /\ f = "Serialization" => f = e
      BY <1>f DEF Fault
    <3>2. f = "ok" /\ r.plan[1].op = "put" => r.todo = {}
      BY <1>r, <3>1
    <3>3. f = "NotFound" =>
            /\ r.pc = "answered" /\ r.got = {} /\ r.plan[1].op = "get" /\ r.plan[1].via # "s3"
            /\ r.plan[1].via = "meta" => r.resp[1] = 200
      BY <1>r, <1>2, <3>1
    <3>4. f = "Serialization" => ~MetaWrite(r.plan[1])
      BY <1>2, <3>1, Zenon
    <3>5. n.plan = Tail(r.plan) /\ n.resp = <<Status(f)>> /\ Same(n, r)
      BY <1>n, <1>r, <1>1, <2>2 DEF Same
    <3>6. n.pc = IF f = "ok" /\ Tail(r.plan) # <<>> THEN "ready" ELSE "replied"
      BY <1>n, <1>r, <1>1, <2>2
    <3>7. Ending(n, r, f)
      BY <3>1, <3>2, <3>3, <3>4, <3>5, <3>6 DEF Ending
    <3>8. CallHist(r, store, doomed, restarts, acked) /\ n \in CallState /\ r.plan # <<>>
      BY <1>n, <1>r, <1>0, <1>1 DEF Hist
    <3>. QED  BY <1>0, <3>7, <3>8, EndHist
  <2>. QED  BY <2>1, <2>2
<1>. QED  BY <1>n, <1>1, <1>3, <1>4, <1>5, <1>6, <1>7, HistOf

LEMMA ReceiveMetaHist ==
    ASSUME IInv, Hist, NEW c \in Caller, ReceiveMeta(c)
    PROVE  Hist'
<1>st. PICK st : st = call[c].resp[1]  OBVIOUS
<1>ok. PICK ok : ok = (st = 200)  OBVIOUS
<1>0. /\ call[c].pc = "answered" /\ Cur(c).via = "meta"
      /\ UNCHANGED <<store, late, seen, used, bounds, history>>
      /\ End(c, ok, call[c].got, StatusError(st))
  BY <1>st, <1>ok, Zenon DEF ReceiveMeta, At
<1>2. AnswerInv(call[c], Cur(c)) /\ Busy(c)
  BY <1>0, AnsweredIs
<1>3. st \in {200, 403} /\ (st = 200 => call[c].todo = {})
  BY <1>0, <1>2, <1>st DEF AnswerInv
<1>1. End(c, ok, call[c].got, "Backend")
  <2>1. StatusError(st) = "Backend"
    BY <1>3 DEF StatusError
  <2>. QED  BY <1>0, <2>1
<1>4. LeaveLate(c)
  BY <1>0 DEF LeaveLate
<1>5. ok \in BOOLEAN /\ (ok => call[c].todo = {} /\ call[c].resp[1] = 200)
  BY <1>3, <1>ok, <1>st
<1>. QED  BY <1>0, <1>1, <1>2, <1>4, <1>5, OverHist

LEMMA ReceiveS3Hist ==
    ASSUME IInv, Hist, NEW c \in Caller, ReceiveS3(c)
    PROVE  Hist'
<1>st. PICK st : st = call[c].resp[1]  OBVIOUS
<1>ok. PICK ok : ok = (st = 200 \/ (Cur(c).op = "get" /\ st \in {403, 404}))
  OBVIOUS
<1>1. /\ call[c].pc = "answered" /\ Cur(c).via = "s3"
      /\ UNCHANGED <<store, late, seen, used, bounds, history>>
      /\ End(c, ok, call[c].got, "Backend")
  BY <1>st, <1>ok, Zenon DEF ReceiveS3, At
<1>2. AnswerInv(call[c], Cur(c)) /\ Busy(c)
  BY <1>1, AnsweredIs
<1>3. ok \in BOOLEAN /\ (ok => call[c].todo = {})
  BY <1>1, <1>2, <1>st, <1>ok DEF AnswerInv
<1>4. LeaveLate(c)
  BY <1>1 DEF LeaveLate
<1>. QED  BY <1>1, <1>2, <1>3, <1>4, OverHist

LEMMA ReceivePeerHist ==
    ASSUME IInv, Hist, NEW c \in Caller, ReceivePeer(c)
    PROVE  Hist'
<1>st. PICK st : st = call[c].resp[1]  OBVIOUS
<1>ok. PICK ok : ok = (st = 200 \/ (Cur(c).op = "get" /\ st = 404))
  OBVIOUS
<1>1. /\ call[c].pc = "answered" /\ Cur(c).via = "peer"
      /\ UNCHANGED <<store, late, seen, used, bounds, history>>
      /\ End(c, ok, call[c].got, "Backend")
  BY <1>st, <1>ok, Zenon DEF ReceivePeer, At
<1>2. AnswerInv(call[c], Cur(c)) /\ Busy(c)
  BY <1>1, AnsweredIs
<1>3. ok \in BOOLEAN /\ (ok => call[c].todo = {})
  BY <1>1, <1>2, <1>st, <1>ok DEF AnswerInv
<1>4. LeaveLate(c)
  BY <1>1 DEF LeaveLate
<1>. QED  BY <1>1, <1>2, <1>3, <1>4, OverHist

LEMMA ReceiveQuicHist ==
    ASSUME IInv, Hist, NEW c \in Caller, ReceiveQuic(c)
    PROVE  Hist'
<1>r. PICK resp : resp = call[c].resp  OBVIOUS
<1>f. PICK fits : fits = (Len(resp) <= MaxFrame)  OBVIOUS
<1>e. PICK e \in {"Backend", "Unavailable"} : e = IF fits THEN "Backend" ELSE "Unavailable"
  OBVIOUS
<1>1. /\ call[c].pc = "answered" /\ Cur(c).via = "quic"
      /\ UNCHANGED <<store, late, seen, used, bounds, history>>
  BY DEF ReceiveQuic, At
<1>2. AnswerInv(call[c], Cur(c)) /\ Busy(c) /\ LeaveLate(c)
  BY <1>1, AnsweredIs DEF LeaveLate
<1>3. CASE Cur(c).op = "get"
  <2>ok. PICK ok \in BOOLEAN : ok = (fits /\ resp[1] \in {ST_OK, ST_NOT_FOUND})  OBVIOUS
  <2>g. PICK got : got = IF resp[1] = ST_OK THEN {Tail(resp)} ELSE {}  OBVIOUS
  <2>1. End(c, ok, got, e)
    BY <1>3, <1>r, <1>f, <1>e, <2>ok, <2>g, Zenon DEF ReceiveQuic
  <2>2. ok => got = call[c].got /\ call[c].todo = {}
    BY <1>1, <1>2, <1>3, <1>r, <2>ok, <2>g DEF AnswerInv, ST_OK, ST_NOT_FOUND
  <2>. QED  BY <1>1, <1>2, <2>1, <2>2, OverHist
<1>4. CASE Cur(c).op # "get"
  <2>ok. PICK ok \in BOOLEAN : ok = (fits /\ resp[1] = ST_OK)  OBVIOUS
  <2>1. End(c, ok, {}, e)
    BY <1>4, <1>r, <1>f, <1>e, <2>ok, Zenon DEF ReceiveQuic
  <2>2. Cur(c).op = "put"
    BY <1>1, <1>4, CurIs DEF ReqOK
  <2>3. ok => call[c].got = {} /\ call[c].todo = {}
    BY <1>1, <1>2, <2>2, <1>r, <2>ok DEF AnswerInv
  <2>. QED  BY <1>1, <1>2, <2>1, <2>3, OverHist
<1>. QED  BY <1>3, <1>4

LEMMA LoseHist ==
    ASSUME IInv, Hist, NEW c \in Caller, Lose(c)
    PROVE  Hist'
<1>1. Busy(c) /\ LeaveLate(c) /\ UNCHANGED <<store, seen, used, bounds, history>>
  BY DEF Lose
<1>2. PICK e \in {"Unavailable", "Serialization"} :
        /\ End(c, FALSE, {}, e)
        /\ e = "Serialization" => \/ At(c, "presign")
                                  \/ Cur(c).op \in {"get", "list"}
  BY DEF Lose
<1>3. e = "Serialization" => ~MetaWrite(Cur(c))
  <2>1. At(c, "presign") => Cur(c).via = "s3"
    <3>1. At(c, "presign") => Cur(c) = Head(call[c].plan) /\ StepInv(call[c])
      BY CallIs, CurIs DEF At
    <3>. QED  BY <3>1 DEF StepInv, At
  <2>. QED  BY <1>2, <2>1 DEF MetaWrite
<1>. QED  BY <1>1, <1>2, <1>3, OverHist

LEMMA PresignHist ==
    ASSUME IInv, Hist, NEW c \in Caller, Presign(c)
    PROVE  Hist'
<1>1. call[c].pc = "presign" /\ UNCHANGED <<store, late, seen, used, bounds, history>>
  BY DEF Presign, At
<1>2. CASE call' = [call EXCEPT ![c].pc = "sent", ![c].exp = SignedUntil]
  <2>r. PICK r \in CallState : r = call[c]
    BY CallIs
  <2>x. PICK exp \in Nat : exp = SignedUntil
    BY CallsAssumption DEF SignedUntil, IInv, World
  <2>n. PICK n : n = [r EXCEPT !.pc = "sent", !.exp = exp]  OBVIOUS
  <2>1. /\ n \in CallState /\ n.pc = "sent" /\ n.todo = r.todo /\ n.plan = r.plan
        /\ n.user = r.user /\ n.blob = r.blob /\ n.life = r.life /\ n.known = r.known
        /\ n.risk = r.risk
    BY <2>n DEF CallState
  <2>2. call' = [call EXCEPT ![c] = n]
    BY <1>2, <2>r, <2>x, <2>n, CallIs
  <2>3. call'[c] = n /\ Others(c)
    BY <2>2, CallIs DEF Others
  <2>4. CallHist(r, store, doomed, restarts, acked) /\ r.risk = FALSE
    BY <1>1, <2>r, NoRisk DEF Hist
  <2>5. Due(n) = Due(r)
    BY <1>1, <2>r, <2>1 DEF Due, Working
  <2>6. Hop(n, r, store, doomed, restarts)
    BY <1>1, <2>r, <2>1, <2>4, <2>5 DEF Hop
  <2>7. CallHist(n, store, doomed, restarts, acked)
    BY <2>1, <2>4, <2>6, GoHist
  <2>8. UNCHANGED <<store, late, seen, restarts, acked, doomed>>
    BY <1>1 DEF bounds, history
  <2>. QED  BY <2>3, <2>7, <2>8, HistQuiet
<1>3. CASE End(c, FALSE, {}, "Backend")
  <2>1. Busy(c) /\ LeaveLate(c)
    BY <1>1 DEF Busy, LeaveLate
  <2>. QED  BY <1>1, <1>3, <2>1, OverHist
<1>. QED  BY <1>2, <1>3 DEF Presign

LEMMA HangUpHist ==
    ASSUME IInv, Hist, NEW c \in Caller, HangUp(c)
    PROVE  Hist'
<1>1. /\ call' = [call EXCEPT ![c] = Idle] /\ UNCHANGED <<store, restarts, acked, doomed>>
      /\ seen' = Seen(call[c], "transport", 0)
  BY DEF HangUp, bounds, history
<1>2. call'[c] = Idle /\ Others(c)
  BY <1>1, CallIs DEF Others
<1>3. CallHist(Idle, store, doomed, restarts, acked)
  BY TypesAre, IdleHist
<1>4. Calm(store, doomed, restarts, acked, store', doomed', restarts', acked')
  BY <1>1, QuietCalm
<1>5. StoreHist(store', late', doomed', restarts', acked')
  <2>1. \A w \in late' : w.val = None => Spared(w.todo, doomed)
    <3>1. CASE Busy(c)
      <4>1. LeaveLate(c)
        BY <3>1 DEF HangUp
      <4>. QED  BY <3>1, <4>1, LateHist
    <3>2. CASE ~Busy(c)
      <4>1. late' = late
        BY <3>2 DEF HangUp
      <4>. QED  BY <4>1 DEF Hist, StoreHist
    <3>. QED  BY <3>1, <3>2
  <2>2. StoreHist(store, late, doomed, restarts, acked)
    BY DEF Hist
  <2>3. StoreHist(store, late', doomed, restarts, acked)
    BY <2>1, <2>2 DEF StoreHist
  <2>. QED  BY <1>1, <2>3
<1>6. seen'.tag = "transport" /\ seen'.status = 0
  BY <1>1 DEF Seen
<1>7. RefusedMeansUndone' /\ NotFoundIsFinal'
  BY <1>6 DEF RefusedMeansUndone, NotFoundIsFinal
<1>. QED  BY <1>1, <1>2, <1>3, <1>4, <1>5, <1>7, HistOf

LEMMA ReplyHist ==
    ASSUME IInv, Hist, NEW c \in Caller, Reply(c)
    PROVE  Hist'
<1>r. PICK r \in CallState : r = call[c]
  BY CallIs
<1>s. PICK status : status = r.resp[1]  OBVIOUS
<1>t. PICK tag : tag = IF status # 200 THEN "server"
                       ELSE IF r.user = "delete" THEN "encoding" ELSE "ok"
  OBVIOUS
<1>1. /\ call' = [call EXCEPT ![c] = Idle] /\ call[c].pc = "replied"
      /\ UNCHANGED <<store, late, restarts, doomed>>
  BY DEF Reply, At, bounds
<1>0. /\ seen' = Seen(r, tag, status)
      /\ acked' = IF tag = "ok" /\ r.user = "put"
                  THEN [acked EXCEPT ![r.blob] = r.life] ELSE acked
  BY <1>r, <1>s, <1>t, Zenon DEF Reply
<1>2. call'[c] = Idle /\ Others(c)
  BY <1>1, CallIs DEF Others
<1>3. CallHist(Idle, store', doomed', restarts', acked')
  BY <1>1, TypesAre, IdleHist
<1>4. /\ RiskHist(r) /\ PutHist(r, store, doomed, restarts) /\ GetHist(r, doomed, restarts, acked)
      /\ r.pc = "replied"
  BY <1>r, <1>1 DEF Hist, CallHist
<1>5. /\ seen'.tag = tag /\ seen'.status = status /\ seen'.risk = r.risk /\ seen'.known = r.known
  BY <1>0 DEF Seen
<1>6. RefusedMeansUndone'
  <2>1. r.risk => status \in {200, 500, 503}
    BY <1>4, <1>s DEF RiskHist
  <2>2. status \in 400..499 => status \notin {200, 500, 503}
    OBVIOUS
  <2>3. seen'.status \in 400..499 => ~seen'.risk
    BY <1>5, <2>1, <2>2, Zenon
  <2>. QED  BY <2>3 DEF RefusedMeansUndone
<1>7. NotFoundIsFinal'
  <2>1. status = 404 /\ r.known # None => r.known \in doomed \/ restarts > 0
    BY <1>4, <1>s DEF GetHist
  <2>2. seen'.status = 404 /\ seen'.known # None => seen'.known \in doomed' \/ restarts' > 0
    BY <1>1, <1>5, <2>1
  <2>. QED  BY <2>2 DEF NotFoundIsFinal
<1>8. acked \in [Blob -> 0..MaxRestarts \cup {None}] /\ r.life \in 0..MaxRestarts /\ r.life # None
  BY CallIs, CallsAssumption DEF World, CallState
<1>9. \A b \in Blob : acked[b] # None => acked'[b] # None
  <2>1. CASE acked' = [acked EXCEPT ![r.blob] = r.life]
    BY <1>8, <2>1
  <2>2. CASE acked' = acked
    BY <2>2
  <2>. QED  BY <1>0, <2>1, <2>2
<1>10. Calm(store, doomed, restarts, acked, store', doomed', restarts', acked')
  BY <1>1, <1>9, TypesAre DEF Calm
<1>11. StoreHist(store, late, doomed, restarts, acked')
  <2>0. StoreHist(store, late, doomed, restarts, acked)
    BY DEF Hist
  <2>1. CASE tag = "ok" /\ r.user = "put"
    <3>1. acked' = [acked EXCEPT ![r.blob] = r.life] /\ status = 200
      BY <1>0, <1>t, <2>1
    <3>2. /\ r.plan = <<>> /\ r.life <= restarts /\ r.blob \in Blob
          /\ \A k \in Of(r.blob) : \/ r.blob \in doomed \/ store[k] # None
                                   \/ k = ManKey(r.blob) /\ r.life # restarts
                                   \/ Owes(r, k)
      BY <1>4, <1>s, <2>1, <3>1 DEF PutHist
    <3>3. \A k : ~Owes(r, k)
      <4>1. 1..Len(r.plan) = {}
        BY <3>2
      <4>. QED  BY <4>1 DEF Owes
    <3>4. acked'[r.blob] = r.life /\ \A b \in Blob \ {r.blob} : acked'[b] = acked[b]
      BY <1>8, <3>1, <3>2
    <3>5. ASSUME NEW b \in Blob, acked'[b] # None
          PROVE  /\ acked'[b] <= restarts
                 /\ b \notin doomed =>
                     \A k \in Of(b) : store[k] # None \/ (k = ManKey(b) /\ restarts # acked'[b])
      <4>1. CASE b = r.blob
        BY <3>2, <3>3, <3>4, <4>1
      <4>2. CASE b # r.blob
        BY <2>0, <3>4, <3>5, <4>2 DEF StoreHist
      <4>. QED  BY <4>1, <4>2
    <3>. QED  BY <2>0, <3>5 DEF StoreHist
  <2>2. CASE ~(tag = "ok" /\ r.user = "put")
    BY <1>0, <2>0, <2>2
  <2>. QED  BY <2>1, <2>2
<1>12. StoreHist(store', late', doomed', restarts', acked')
  BY <1>1, <1>11
<1>. QED  BY <1>2, <1>3, <1>6, <1>7, <1>10, <1>12, HistOf

\* The plans, as the history needs them.
Mild == {q \in Requests : ~MetaWrite(q) /\ q.op # "del"}

PlanSafe(plan, dm) ==
    \A i \in 1..Len(plan) : /\ plan[i].op = "del" => Spared(plan[i].keys, dm)
                            /\ i < Len(plan) => ~MetaWrite(plan[i])

LEMMA JoinOf ==
    ASSUME NEW T, NEW a \in Seq(T), NEW b \in Seq(T)
    PROVE  a \o b \in Seq(T)
  OBVIOUS

LEMMA SingleOf ==
    ASSUME NEW T, NEW q \in T
    PROVE  <<q>> \in Seq(T) /\ <<q>>[1] = q /\ Len(<<q>>) = 1
  OBVIOUS

LEMMA TwoOf ==
    ASSUME NEW q, NEW w
    PROVE  <<q, w>>[1] = q /\ <<q, w>>[2] = w /\ Len(<<q, w>>) = 2
  OBVIOUS

LEMMA MildSafe ==
    ASSUME NEW plan \in Seq(Mild), NEW dm
    PROVE  PlanSafe(plan, dm)
<1>1. \A i \in 1..Len(plan) : plan[i] \in Mild
  OBVIOUS
<1>. QED  BY <1>1 DEF PlanSafe, Mild

LEMMA LookMild ==
    ASSUME NEW k \in MetaKeys
    PROVE  Look(k) \in Seq(Mild)
<1>q. PICK q : q = PortReq("meta", "get", {k}, None)  OBVIOUS
<1>1. q \in Requests /\ Look(k) = <<q>>
  BY <1>q, KeysAre, LookIs
<1>2. q.op = "get"
  BY <1>q DEF PortReq
<1>3. q \in Mild
  BY <1>1, <1>2 DEF Mild, MetaWrite
<1>. QED  BY <1>1, <1>3, SingleOf

LEMMA ReadAllMild == ReadAll \in Seq(Mild)
<1>q. PICK q : q = PortReq("meta", "list", Manifests, None)  OBVIOUS
<1>1. q \in Requests /\ ReadAll = <<q>>
  BY <1>q, ReadAllIs
<1>2. q.op = "list"
  BY <1>q DEF PortReq
<1>3. q \in Mild
  BY <1>1, <1>2 DEF Mild, MetaWrite
<1>. QED  BY <1>1, <1>3, SingleOf

LEMMA ShardsMild ==
    ASSUME NEW b \in Blob
    PROVE  Shards("put", b, Upload) \in Seq(Mild)
<1>s. PICK s : s = Shards("put", b, Upload)  OBVIOUS
<1>1. /\ s \in Seq(Requests) /\ Len(s) = Cardinality(Index) /\ Index = 1..Cardinality(Index)
      /\ \A i \in Index : s[i] = PortReq("s3", "put", {S3Key(b, i)}, Upload)
  BY <1>s, ShardsAre, CallsAssumption
<1>2. ASSUME NEW i \in 1..Len(s)
      PROVE  s[i].via = "s3" /\ s[i].op = "put"
  <2>q. PICK q : q = PortReq("s3", "put", {S3Key(b, i)}, Upload)  OBVIOUS
  <2>1. q = s[i]
    BY <1>1, <2>q
  <2>2. q.via = "s3" /\ q.op = "put"
    BY <2>q DEF PortReq
  <2>. QED  BY <2>1, <2>2
<1>3. \A i \in 1..Len(s) : s[i] \in Mild
  BY <1>1, <1>2 DEF Mild, MetaWrite
<1>4. s \in Seq(Mild)
  BY <1>1, <1>3
<1>. QED  BY <1>4, <1>s

LEMMA MetaAre == NsKey \in MetaKeys /\ AppKey \in MetaKeys /\ \A b \in Blob : ManKey(b) \in MetaKeys
BY DEF MetaKeys, Manifests

LEMMA ListMild == ListPlan \in Seq(Mild)
BY MetaAre, LookMild, ReadAllMild, JoinOf DEF ListPlan

LEMMA MildIsReq == Seq(Mild) \subseteq Seq(Requests)
BY DEF Mild

\* A put owes every key of its blob, and writes the manifest last.
LEMMA PutPlanSafe ==
    ASSUME NEW b \in Blob, NEW dm
    PROVE  /\ PlanSafe(PutPlan(b, Upload), dm)
           /\ \A k \in Of(b) : \E j \in 1..Len(PutPlan(b, Upload)) :
                PutPlan(b, Upload)[j].op = "put" /\ k \in PutPlan(b, Upload)[j].keys
<1>B. PICK B : B = Look(NsKey) \o Look(AppKey) \o ReadAll  OBVIOUS
<1>s. PICK s : s = Shards("put", b, Upload)  OBVIOUS
<1>A. PICK A : A = B \o s  OBVIOUS
<1>w. PICK w : w = PortReq("meta", "put", {ManKey(b)}, Upload)  OBVIOUS
<1>p. PICK plan : plan = A \o <<w>>  OBVIOUS
<1>0. plan = PutPlan(b, Upload)
  BY <1>B, <1>s, <1>A, <1>w, <1>p DEF PutPlan
<1>1. B \in Seq(Mild) /\ s \in Seq(Mild)
  <2>1. Look(NsKey) \o Look(AppKey) \in Seq(Mild)
    BY MetaAre, LookMild, JoinOf
  <2>2. Look(NsKey) \o Look(AppKey) \o ReadAll \in Seq(Mild)
    BY <2>1, ReadAllMild, JoinOf
  <2>. QED  BY <1>B, <1>s, <2>2, ShardsMild
<1>2. A \in Seq(Mild)
  BY <1>1, <1>A, JoinOf
<1>3. /\ w \in Requests /\ w.op = "put" /\ w.keys = {ManKey(b)}
  BY <1>w, WritesAre DEF PortReq
<1>4. /\ B \in Seq(Requests) /\ s \in Seq(Requests) /\ A \in Seq(Requests)
      /\ <<w>> \in Seq(Requests) /\ Len(<<w>>) = 1 /\ <<w>>[1] = w
  BY <1>1, <1>2, <1>3, MildIsReq, SingleIs
<1>5. /\ Len(A) = Len(B) + Len(s) /\ \A i \in 1..Len(s) : A[Len(B) + i] = s[i]
  BY <1>4, <1>A, JoinIs
<1>t. PICK one \in Seq(Requests) : one = <<w>> /\ Len(one) = 1 /\ one[1] = w
  BY <1>4
<1>6. /\ Len(plan) = Len(A) + 1 /\ \A i \in 1..Len(A) : plan[i] = A[i]
      /\ plan[Len(A) + 1] = w
  <2>1. /\ Len(A \o one) = Len(A) + Len(one) /\ \A i \in 1..Len(A) : (A \o one)[i] = A[i]
        /\ \A i \in 1..Len(one) : (A \o one)[Len(A) + i] = one[i]
    BY <1>4, JoinIs
  <2>2. plan = A \o one
    BY <1>p, <1>t
  <2>. QED  BY <1>t, <2>1, <2>2
<1>7. Len(A) \in Nat /\ Len(B) \in Nat /\ Len(s) \in Nat
  BY <1>4
<1>8. \A i \in 1..Len(A) : A[i] \in Mild
  BY <1>2
<1>9. PlanSafe(plan, dm)
  <2>. SUFFICES ASSUME NEW i \in 1..Len(plan)
                PROVE  plan[i].op # "del" /\ (i < Len(plan) => ~MetaWrite(plan[i]))
    BY DEF PlanSafe
  <2>1. CASE i \in 1..Len(A)
    BY <1>6, <1>8, <2>1 DEF Mild
  <2>2. CASE i = Len(A) + 1
    BY <1>3, <1>6, <1>7, <2>2
  <2>. QED  BY <1>6, <1>7, <2>1, <2>2
<1>10. ASSUME NEW k \in Of(b)
       PROVE  \E j \in 1..Len(plan) : plan[j].op = "put" /\ k \in plan[j].keys
  <2>1. CASE k = ManKey(b)
    <3>1. Len(A) + 1 \in 1..Len(plan)
      BY <1>6, <1>7
    <3>. QED  BY <1>3, <1>6, <2>1, <3>1
  <2>2. CASE k \in Bucket(b)
    <3>1. PICK i \in Index : k = S3Key(b, i)
      BY <2>2 DEF Bucket
    <3>2. i \in 1..Len(s) /\ s[i] = PortReq("s3", "put", {k}, Upload)
      BY <1>s, <3>1, ShardsAre, CallsAssumption
    <3>3. s[i].op = "put" /\ s[i].keys = {k}
      BY <3>2 DEF PortReq
    <3>j. PICK j : j = Len(B) + i  OBVIOUS
    <3>4. j \in 1..Len(A) /\ j \in 1..Len(plan)
      BY <1>5, <1>6, <1>7, <3>2, <3>j
    <3>5. plan[j] = s[i]
      BY <1>5, <1>6, <3>2, <3>4, <3>j
    <3>. QED  BY <3>3, <3>4, <3>5
  <2>. QED  BY <2>1, <2>2 DEF Of
<1>. QED  BY <1>0, <1>9, <1>10

\* A get reads the namespace, the manifest and the shards of its blob.
LEMMA GetPlanReads ==
    ASSUME NEW b \in Blob
    PROVE  \A i \in 1..Len(GetPlan(b)) : Reads(GetPlan(b)[i], b)
<1>. DEFINE T == {q \in Requests : Reads(q, b)}
<1>1. ASSUME NEW k \in {NsKey, ManKey(b)}
      PROVE  Look(k) \in Seq(T)
  <2>q. PICK q : q = PortReq("meta", "get", {k}, None)  OBVIOUS
  <2>1. q \in Requests /\ Look(k) = <<q>>
    BY <2>q, KeysAre, LookIs
  <2>2. q.op = "get" /\ q.via = "meta" /\ q.keys = {k}
    BY <2>q DEF PortReq
  <2>3. q \in T
    BY <2>1, <2>2 DEF Reads, Of
  <2>. QED  BY <2>1, <2>3, SingleOf
<1>2. Shards("get", b, None) \in Seq(T)
  <2>s. PICK s : s = Shards("get", b, None)  OBVIOUS
  <2>1. /\ s \in Seq(Requests) /\ Len(s) = Cardinality(Index) /\ Index = 1..Cardinality(Index)
        /\ \A i \in Index : s[i] = PortReq("s3", "get", {S3Key(b, i)}, None)
    BY <2>s, ShardsAre
  <2>2. ASSUME NEW i \in 1..Len(s)
        PROVE  s[i].via = "s3" /\ s[i].op = "get" /\ s[i].keys = {S3Key(b, i)}
    <3>q. PICK q : q = PortReq("s3", "get", {S3Key(b, i)}, None)  OBVIOUS
    <3>1. q = s[i]
      BY <2>1, <3>q
    <3>2. q.via = "s3" /\ q.op = "get" /\ q.keys = {S3Key(b, i)}
      BY <3>q DEF PortReq
    <3>. QED  BY <3>1, <3>2
  <2>3. \A i \in 1..Len(s) : S3Key(b, i) \in Of(b)
    BY <2>1, KeysAre DEF Of
  <2>4. \A i \in 1..Len(s) : s[i] \in T
    BY <2>1, <2>2, <2>3 DEF Reads
  <2>5. s \in Seq(T)
    <3>. HIDE DEF T
    <3>. QED  BY <2>1, <2>4
  <2>. QED  BY <2>5, <2>s
<1>3. \A q \in T : Reads(q, b)
  OBVIOUS
<1>. HIDE DEF T
<1>4. Look(NsKey) \o Look(ManKey(b)) \in Seq(T)
  BY <1>1, JoinOf
<1>5. GetPlan(b) \in Seq(T)
  BY <1>2, <1>4, JoinOf DEF GetPlan
<1>p. PICK plan \in Seq(T) : plan = GetPlan(b)
  BY <1>5
<1>6. \A i \in 1..Len(plan) : plan[i] \in T
  OBVIOUS
<1>. QED  BY <1>3, <1>6, <1>p

\* A delete takes its own blob only.
LEMMA OwnSpared ==
    ASSUME NEW b \in Blob, NEW dm, b \in dm
    PROVE  Spared(Bucket(b), dm) /\ Spared({ManKey(b)}, dm)
<1>1. \A x \in Blob : x # b => Bucket(b) \cap Of(x) = {} /\ {ManKey(b)} \cap Of(x) = {}
  BY DEF Of, Bucket, S3Key, ManKey
<1>2. NsKey \notin Bucket(b) /\ NsKey \notin {ManKey(b)}
  BY DEF Bucket, S3Key, ManKey, NsKey
<1>. QED  BY <1>1, <1>2 DEF Spared

LEMMA DeletePlanSafe ==
    ASSUME NEW b \in Blob, NEW dm, b \in dm
    PROVE  PlanSafe(DeletePlan(b), dm)
<1>A. PICK A : A = Look(NsKey) \o Look(AppKey) \o (IF Hold THEN Look(ManKey(b)) ELSE <<>>)
  OBVIOUS
<1>d. PICK d : d = PortReq("s3", "del", Bucket(b), None)  OBVIOUS
<1>w. PICK w : w = PortReq("meta", "del", {ManKey(b)}, None)  OBVIOUS
<1>t. PICK two : two = <<d, w>>  OBVIOUS
<1>p. PICK plan : plan = A \o two  OBVIOUS
<1>0. plan = DeletePlan(b)
  BY <1>A, <1>d, <1>w, <1>t, <1>p DEF DeletePlan
<1>1. A \in Seq(Mild)
  <2>h. PICK look : look = IF Hold THEN Look(ManKey(b)) ELSE <<>>  OBVIOUS
  <2>1. look \in Seq(Mild)
    <3>1. <<>> \in Seq(Mild)
      OBVIOUS
    <3>. QED  BY <2>h, <3>1, MetaAre, LookMild
  <2>2. Look(NsKey) \o Look(AppKey) \in Seq(Mild)
    BY MetaAre, LookMild, JoinOf
  <2>3. (Look(NsKey) \o Look(AppKey)) \o look \in Seq(Mild)
    BY <2>1, <2>2, JoinOf
  <2>. QED  BY <1>A, <2>h, <2>3
<1>2. /\ d \in Requests /\ d.via = "s3" /\ d.op = "del" /\ d.keys = Bucket(b)
      /\ w \in Requests /\ w.keys = {ManKey(b)}
  BY <1>d, <1>w, WritesAre DEF PortReq
<1>3. two \in Seq(Requests) /\ Len(two) = 2 /\ two[1] = d /\ two[2] = w /\ A \in Seq(Requests)
  BY <1>1, <1>2, <1>t, TwoIs, MildIsReq
<1>4. /\ Len(plan) = Len(A) + 2 /\ \A i \in 1..Len(A) : plan[i] = A[i]
      /\ plan[Len(A) + 1] = d /\ plan[Len(A) + 2] = w /\ Len(A) \in Nat
  <2>1. /\ Len(plan) = Len(A) + Len(two) /\ \A i \in 1..Len(A) : plan[i] = A[i]
        /\ \A i \in 1..Len(two) : plan[Len(A) + i] = two[i]
    BY <1>3, <1>p, JoinIs
  <2>. QED  BY <1>3, <2>1
<1>5. \A i \in 1..Len(A) : A[i] \in Mild
  BY <1>1
<1>6. PlanSafe(plan, dm)
  <2>. SUFFICES ASSUME NEW i \in 1..Len(plan)
                PROVE  /\ plan[i].op = "del" => Spared(plan[i].keys, dm)
                       /\ i < Len(plan) => ~MetaWrite(plan[i])
    BY DEF PlanSafe
  <2>1. CASE i \in 1..Len(A)
    BY <1>4, <1>5, <2>1 DEF Mild
  <2>2. CASE i = Len(A) + 1
    <3>1. ~MetaWrite(d) /\ Spared(d.keys, dm)
      BY <1>2, OwnSpared DEF MetaWrite
    <3>. QED  BY <1>4, <2>2, <3>1
  <2>3. CASE i = Len(A) + 2
    <3>1. Spared(w.keys, dm)
      BY <1>2, OwnSpared
    <3>. QED  BY <1>4, <2>3, <3>1
  <2>. QED  BY <1>4, <2>1, <2>2, <2>3
<1>. QED  BY <1>0, <1>6

\* The request an app has just made.
Fresh(n, user, b, plan, life, known) ==
    /\ n.pc = "asked" /\ n.user = user /\ n.blob = b /\ n.plan = plan
    /\ n.life = life /\ n.known = known /\ n.risk = FALSE

LEMMA TakenIs ==
    ASSUME NEW user, NEW b, NEW plan \in Seq(Requests), NEW life, NEW known,
           NEW n, n = Taken(user, b, plan, life, known)
    PROVE  Fresh(n, user, b, plan, life, known)
<1>r. PICK r \in CallState : r = Idle
  BY IdleIs
<1>0. n = [r EXCEPT !.pc = "asked", !.user = user, !.blob = b, !.plan = plan,
                    !.life = life, !.known = known]
  BY <1>r, Zenon DEF Taken
<1>1. /\ n.pc = "asked" /\ n.user = user /\ n.blob = b /\ n.plan = plan
      /\ n.life = life /\ n.known = known /\ n.risk = r.risk
  BY <1>0 DEF CallState
<1>2. r.risk = FALSE
  BY <1>r DEF Idle
<1>. QED  BY <1>1, <1>2, Zenon DEF Fresh

\* What a new request must bring.
Sound(user, b, plan, dm) ==
    /\ plan # <<>> /\ PlanSafe(plan, dm)
    /\ user = "get" => \A i \in 1..Len(plan) : Reads(plan[i], b)
    /\ user = "put" => \A k \in Of(b) : \E j \in 1..Len(plan) :
                           plan[j].op = "put" /\ k \in plan[j].keys

LEMMA AskHist ==
    ASSUME IInv, Hist, NEW c \in Caller, NEW user \in {"put", "get", "delete", "list"},
           NEW b \in Blob \cup {None}, user # "list" => b \in Blob, NEW v,
           Plan(user, b, v) \in Seq(Requests), Sound(user, b, Plan(user, b, v), doomed'),
           Ask(c, user, b, v)
    PROVE  Hist'
<1>p. PICK plan \in Seq(Requests) : plan = Plan(user, b, v)  OBVIOUS
<1>k. PICK known : known = IF user = "get" /\ acked[b] # None THEN b ELSE None  OBVIOUS
<1>l. PICK life \in 0..MaxRestarts : life = restarts
  BY DEF IInv, World
<1>n. PICK n : n = Taken(user, b, plan, life, known)  OBVIOUS
<1>1. call' = [call EXCEPT ![c] = n]
  BY <1>p, <1>k, <1>l, <1>n, Zenon DEF Ask, At, Taken
<1>2. /\ UNCHANGED <<store, restarts, acked>> /\ UNCHANGED <<late, seen>> /\ doomed \subseteq doomed'
  BY DEF Ask
<1>3. call'[c] = n /\ Others(c)
  BY <1>1, CallIs DEF Others
<1>4. /\ n.pc = "asked" /\ n.user = user /\ n.blob = b /\ n.plan = plan
      /\ n.life = life /\ n.known = known /\ n.risk = FALSE
  <2>1. Fresh(n, user, b, plan, life, known)
    BY <1>n, TakenIs
  <2>. QED  BY <2>1 DEF Fresh
<1>5. Calm(store, doomed, restarts, acked, store', doomed', restarts', acked')
  BY <1>2, QuietCalm
<1>6. RefusedMeansUndone' /\ NotFoundIsFinal'
  BY <1>2, TypesAre, SeenStays
<1>7. StoreHist(store', late', doomed', restarts', acked')
  <2>1. StoreHist(store, late, doomed, restarts, acked)
    BY DEF Hist
  <2>2. \A w \in late' : w.val = None => Spared(w.todo, doomed')
    BY <1>2, <2>1, SparedStays DEF StoreHist
  <2>3. Calm(store, doomed, restarts, acked, store', doomed', restarts', acked)
    BY <1>2, <1>5
  <2>4. StoreHist(store', late', doomed', restarts', acked)
    BY <2>1, <2>2, <2>3, TypesAre, StoreHistKept
  <2>. QED  BY <1>2, <2>4
<1>8. Sound(user, b, plan, doomed')
  BY <1>p
<1>9. PlanHist(n, doomed')
  BY <1>4, <1>8 DEF Sound, PlanSafe, PlanHist
<1>10. RiskHist(n)
  BY <1>4 DEF RiskHist
<1>11. PutHist(n, store', doomed', restarts')
  <2>1. n.life <= restarts'
    BY <1>2, <1>4, <1>l, TypesAre
  <2>2. ASSUME user = "put", NEW k \in Of(b)
        PROVE  Owes(n, k)
    <3>1. PICK j \in 1..Len(plan) : plan[j].op = "put" /\ k \in plan[j].keys
      BY <1>8, <2>2 DEF Sound
    <3>2. Due(n) = plan[1].keys
      BY <1>4 DEF Due, Working
    <3>. QED  BY <1>4, <3>1, <3>2 DEF Owes
  <2>. QED  BY <1>4, <2>1, <2>2 DEF PutHist
<1>12. GetHist(n, doomed', restarts', acked')
  BY <1>2, <1>4, <1>k DEF GetHist
<1>13. CallHist(call'[c], store', doomed', restarts', acked')
  BY <1>3, <1>9, <1>10, <1>11, <1>12 DEF CallHist
<1>. QED  BY <1>3, <1>5, <1>6, <1>7, <1>13, HistOf

LEMMA BeginHist ==
    ASSUME IInv, Hist, NEW c \in Caller, NEW q \in Requests, q.op # "del", Begin(c, q)
    PROVE  Hist'
<1>p. PICK plan \in Seq(Requests) : plan = <<q>>
  BY SingleIs
<1>n. PICK n : n = Begun(plan)  OBVIOUS
<1>1. call' = [call EXCEPT ![c] = n]
  BY <1>p, <1>n, Zenon DEF Begin, At, Begun
<1>2. plan # <<>> /\ Len(plan) = 1 /\ plan[1] = q
  BY <1>p, SingleIs
<1>3. /\ n.pc = "ready" /\ n.user = "none" /\ n.plan = plan /\ n.risk = FALSE /\ n.known = None
  BY <1>n, <1>2, BegunIs
<1>4. call'[c] = n /\ Others(c)
  BY <1>1, CallIs DEF Others
<1>5. n.life = 0
  <2>r. PICK r \in CallState : r = Idle
    BY IdleIs
  <2>1. n.life = r.life
    BY <1>n, <2>r DEF Begun, CallState
  <2>2. r.life = 0
    BY <2>r DEF Idle
  <2>. QED  BY <2>1, <2>2
<1>6. UNCHANGED <<store, late, seen, restarts, acked, doomed>>
  BY DEF Begin, history
<1>7. PlanHist(n, doomed)
  <2>1. \A i \in 1..Len(plan) : i = 1
    BY <1>2
  <2>2. \A i \in 1..Len(plan) : plan[i].op # "del" /\ ~(i < Len(plan))
    BY <1>2
  <2>. QED  BY <1>3, <2>1, <2>2 DEF PlanHist
<1>8. RiskHist(n) /\ GetHist(n, doomed, restarts, acked)
  BY <1>3 DEF RiskHist, GetHist
<1>9. PutHist(n, store, doomed, restarts)
  <2>1. n.life <= restarts
    BY <1>5, TypesAre
  <2>. QED  BY <1>3, <2>1 DEF PutHist
<1>10. CallHist(call'[c], store, doomed, restarts, acked)
  BY <1>4, <1>7, <1>8, <1>9 DEF CallHist
<1>. QED  BY <1>4, <1>6, <1>10, HistQuiet

\* A node-agent deletes nothing on its own.
LEMMA OwnKeeps ==
    ASSUME NEW q \in OwnCalls
    PROVE  q.op # "del"
<1>1. ReadAll[1].op = "list"
  BY SingleOf DEF ReadAll, PortReq
<1>. QED  BY <1>1 DEF OwnCalls

LEMMA StartHist ==
    ASSUME IInv, Hist, NEW c \in Caller, Start(c)
    PROVE  Hist'
<1>1. ASSUME NEW b \in Blob \ used, Ask(c, "put", b, Upload)
      PROVE  Hist'
  <2>1. Plan("put", b, Upload) = PutPlan(b, Upload)
    BY DEF Plan
  <2>2. PutPlan(b, Upload) \in Seq(Requests) /\ PutPlan(b, Upload) # <<>>
    BY PlansAre
  <2>3. Sound("put", b, PutPlan(b, Upload), doomed')
    BY <2>2, PutPlanSafe DEF Sound
  <2>. QED  BY <1>1, <2>1, <2>2, <2>3, AskHist
<1>2. ASSUME NEW b \in Nameable, Ask(c, "get", b, None)
      PROVE  Hist'
  <2>0. b \in Blob
    BY DEF Nameable
  <2>1. Plan("get", b, None) = GetPlan(b)
    BY DEF Plan
  <2>2. GetPlan(b) \in Seq(Requests) /\ GetPlan(b) # <<>>
    BY <2>0, PlansAre
  <2>3. \A i \in 1..Len(GetPlan(b)) : Reads(GetPlan(b)[i], b)
    BY <2>0, GetPlanReads
  <2>4. PlanSafe(GetPlan(b), doomed')
    BY <2>3 DEF PlanSafe, Reads, MetaWrite
  <2>5. Sound("get", b, GetPlan(b), doomed')
    BY <2>2, <2>3, <2>4 DEF Sound
  <2>. QED  BY <1>2, <2>0, <2>1, <2>2, <2>5, AskHist
<1>3. ASSUME NEW b \in Nameable, Ask(c, "delete", b, None)
      PROVE  Hist'
  <2>0. b \in Blob /\ b \in doomed'
    BY <1>3 DEF Nameable, Ask
  <2>1. Plan("delete", b, None) = DeletePlan(b)
    BY DEF Plan
  <2>2. DeletePlan(b) \in Seq(Requests) /\ DeletePlan(b) # <<>>
    BY <2>0, PlansAre
  <2>3. Sound("delete", b, DeletePlan(b), doomed')
    BY <2>0, <2>2, DeletePlanSafe DEF Sound
  <2>. QED  BY <1>3, <2>0, <2>1, <2>2, <2>3, AskHist
<1>4. ASSUME Ask(c, "list", None, None)
      PROVE  Hist'
  <2>1. Plan("list", None, None) = ListPlan
    BY DEF Plan
  <2>2. ListPlan \in Seq(Mild)
    BY ListMild
  <2>3. Sound("list", None, ListPlan, doomed')
    BY <2>2, ListPlanIs, MildSafe DEF Sound
  <2>. QED  BY <1>4, <2>1, <2>3, ListPlanIs, AskHist
<1>5. ASSUME NEW q \in OwnCalls, Begin(c, q)
      PROVE  Hist'
  BY <1>5, OwnCallsAre, OwnKeeps, BeginHist
<1>. QED  BY <1>1, <1>2, <1>3, <1>4, <1>5 DEF Start

LEMMA ServeHist ==
    ASSUME IInv, Hist, NEW c \in Caller, Serve(c)
    PROVE  Hist'
BY ServeMetaHist, PresignHist, ServeS3Hist, ListPrefixHist, DeleteObjectHist,
   ServePeerHist, ServeQuicHist DEF Serve

LEMMA ReceiveHist ==
    ASSUME IInv, Hist, NEW c \in Caller, Receive(c)
    PROVE  Hist'
BY ReceiveMetaHist, ReceiveS3Hist, ReceivePeerHist, ReceiveQuicHist DEF Receive

\* The inductive step of the history.
LEMMA NextHist ==
    ASSUME IInv, Hist, [Next]_vars
    PROVE  Hist'
<1>1. ASSUME NEW c \in Caller,
             \/ Start(c) \/ Admit(c) \/ Decline(c) \/ Send(c) \/ Serve(c) \/ Receive(c)
             \/ Lose(c) \/ HangUp(c) \/ Reply(c)
      PROVE  Hist'
  <2>1. CASE Start(c) \/ Admit(c) \/ Decline(c)
    BY <2>1, StartHist, AdmitHist, DeclineHist
  <2>2. CASE Send(c) \/ Serve(c) \/ Receive(c)
    BY <2>2, SendHist, ServeHist, ReceiveHist
  <2>3. CASE Lose(c) \/ HangUp(c) \/ Reply(c)
    BY <2>3, LoseHist, HangUpHist, ReplyHist
  <2>. QED  BY <1>1, <2>1, <2>2, <2>3
<1>2. ASSUME NEW r \in late, ServeLate(r)
      PROVE  Hist'
  BY <1>2, ServeLateHist
<1>3. CASE Restart
  BY <1>3, RestartHist
<1>4. CASE Tick
  BY <1>4, TickHist DEF Tick
<1>5. CASE UNCHANGED vars
  BY <1>5, TickHist DEF vars, bounds
<1>. QED  BY <1>1, <1>2, <1>3, <1>4, <1>5 DEF Next

\* The blobs put before have all that belongs to them.
LEMMA InitHist ==
    ASSUME Init
    PROVE  Hist
<1>1. /\ call = [c \in Caller |-> Idle] /\ late = {} /\ seen = Seen(Idle, "none", 0)
      /\ restarts = 0
  BY DEF Init
<1>2. PICK B \in SUBSET Blob, R \in SUBSET Blob :
        /\ store = [k \in Key |->
               IF k \in {AppKey, NsKey} \cup (UNION {Bucket(b) \cup {ManKey(b)} : b \in B})
                                \cup {PeerKey(b) : b \in R}
               THEN Upload ELSE None]
        /\ acked = [b \in Blob |-> IF b \in B THEN 0 ELSE None]
  BY DEF Init
<1>3. store[NsKey] # None
  BY <1>2, KeysAre, CallsAssumption
<1>4. ASSUME NEW b \in Blob, acked[b] # None
      PROVE  acked[b] <= 0 /\ \A k \in Of(b) : store[k] # None
  <2>1. b \in B /\ acked[b] = 0
    BY <1>2, <1>4
  <2>2. ASSUME NEW k \in Of(b) PROVE store[k] # None
    <3>1. k \in Key
      BY KeysAre DEF Of
    <3>2. k \in UNION {Bucket(x) \cup {ManKey(x)} : x \in B}
      BY <2>1 DEF Of
    <3>. QED  BY <1>2, <3>1, <3>2, CallsAssumption
  <2>. QED  BY <2>1, <2>2
<1>5. StoreHist(store, late, doomed, restarts, acked)
  BY <1>1, <1>3, <1>4 DEF StoreHist
<1>6. RefusedMeansUndone /\ NotFoundIsFinal
  <2>1. seen.tag = "none" /\ seen.status = 0
    BY <1>1 DEF Seen
  <2>. QED  BY <2>1 DEF RefusedMeansUndone, NotFoundIsFinal
<1>7. \A c \in Caller : CallHist(call[c], store, doomed, restarts, acked)
  BY <1>1, IdleHist
<1>. QED  BY <1>5, <1>6, <1>7 DEF Hist

LEMMA HistStands ==
    ASSUME Hist
    PROVE  AckedPutStands
<1>1. ASSUME NEW b \in Blob \ doomed, acked[b] # None
      PROVE  /\ Present(Bucket(b)) = Bucket(b)
             /\ restarts = acked[b] => store[ManKey(b)] # None
  <2>1. \A k \in Of(b) : store[k] # None \/ (k = ManKey(b) /\ restarts # acked[b])
    BY <1>1 DEF Hist, StoreHist
  <2>2. \A k \in Bucket(b) : k # ManKey(b)
    BY DEF Bucket, S3Key, ManKey
  <2>3. \A k \in Bucket(b) : store[k] # None
    BY <2>1, <2>2 DEF Of
  <2>4. restarts = acked[b] => store[ManKey(b)] # None
    BY <2>1 DEF Of
  <2>. QED  BY <2>3, <2>4 DEF Present
<1>. QED  BY <1>1 DEF AckedPutStands

\* A refusal is clean: the node-agent's routes, use-cases and adapters decide
\* every 4xx status that the SDK (NodeAgentClient) reports before the write of
\* the manifest leaves the node-agent, and a manifest write that fails is
\* reported with a 5xx status.
THEOREM RefusalsAreClean == Spec => []RefusedMeansUndone
<1>1. Init => IInv /\ Hist
  BY InitInv, InitHist
<1>2. IInv /\ Hist /\ [Next]_vars => (IInv /\ Hist)'
  BY NextInv, NextHist
<1>3. Hist => RefusedMeansUndone
  BY DEF Hist
<1>. QED  BY <1>1, <1>2, <1>3, PTL DEF Spec

\* A put that the SDK reports as done is durable: its shards stay in the bucket
\* and its manifest with the coordinator, through late writes, half-done deletes
\* of other blobs and restarts, until a delete is sent for it (the manifest: or
\* the coordinator forgets it).
THEOREM AcksAreDurable == Spec => []AckedPutStands
<1>1. Init => IInv /\ Hist
  BY InitInv, InitHist
<1>2. IInv /\ Hist /\ [Next]_vars => (IInv /\ Hist)'
  BY NextInv, NextHist
<1>3. Hist => AckedPutStands
  BY HistStands
<1>. QED  BY <1>1, <1>2, <1>3, PTL DEF Spec

\* "Not found" is final: no lost answer, refused caller or expired URL on the
\* way of a get turns into the 404 that the SDK reports for an id it was given.
THEOREM NotFoundIsEarned == Spec => []NotFoundIsFinal
<1>1. Init => IInv /\ Hist
  BY InitInv, InitHist
<1>2. IInv /\ Hist /\ [Next]_vars => (IInv /\ Hist)'
  BY NextInv, NextHist
<1>3. Hist => NotFoundIsFinal
  BY DEF Hist
<1>. QED  BY <1>1, <1>2, <1>3, PTL DEF Spec
=============================================================================
