------------------------------- MODULE Calls -------------------------------
(***************************************************************************)
(* The calls between the processes, hop by hop: an app's SDK               *)
(* (NodeAgentClient) asks its node-agent; the node-agent serves the        *)
(* request by calls on its ports, which are adapters for remote stores:    *)
(*   "meta"  RemoteMetadataStore, HTTP to the coordinator's in-memory      *)
(*           MetadataStore;                                                *)
(*   "s3"    PresignedBlobAnchor, a URL from the coordinator, then HTTP to *)
(*           the bucket; delete_blob is done by the coordinator;           *)
(*   "peer"  PeerHttpTransport to another node-agent's anchor;             *)
(*   "quic"  QuicShardTransport to the same anchor, framed.                *)
(* Each hop can lose the request or the answer; a request whose caller has *)
(* gone may still be served. The coordinator forgets everything when it    *)
(* restarts.                                                               *)
(*                                                                         *)
(* Abstraction. The use-cases are the sequence of their port calls (their  *)
(* interleavings, peers and repairs are BlobLifecycle's). Payloads are     *)
(* short byte sequences; JSON and HTTP themselves are taken as given.      *)
(***************************************************************************)
EXTENDS Naturals, Sequences, FiniteSets

CONSTANTS
    Caller,      \* requests in progress at once
    Blob,        \* blob ids the node's id source may hand out
    Index,       \* shard indices of a blob
    Value,       \* payloads: sequences of bytes
    Upload,      \* the payload apps upload, and stands for metadata too
    KeyBytes,    \* shard key (of wire.rs) -> its bytes
    MaxFrame,    \* MAX_FRAME: bytes read per QUIC stream
    Hold,        \* whether the app's contract has a retention hold
    Ttl,         \* TTL_SECS of a presigned URL, in clock ticks
    MaxNow,      \* bound: the clock stops there
    MaxAsks,     \* bound: requests apps make
    MaxOwn,      \* bound: calls node-agents make on their own
    MaxCalls,    \* bound: both together
    MaxRestarts, \* bound: restarts of the coordinator
    None

\* What the stores hold, by key: the app's contract and namespace and a manifest
\* per blob (coordinator), a blob's shards in the bucket, a replica on the peer.
AppKey       == <<"app">>
NsKey        == <<"ns">>
ManKey(b)    == <<"man", b>>
S3Key(b, i)  == <<"s3", b, i>>
PeerKey(b)   == <<"peer", b>>

Manifests == {ManKey(b) : b \in Blob}
MetaKeys  == {AppKey, NsKey} \cup Manifests
Bucket(b) == {S3Key(b, i) : i \in Index}
PeerKeys  == {PeerKey(b) : b \in Blob}
Key == MetaKeys \cup (UNION {Bucket(b) : b \in Blob}) \cup PeerKeys

ASSUME CallsAssumption ==
    /\ Value \subseteq Seq(Nat) /\ Upload \in Value
    /\ None \notin Value /\ None \notin 0..MaxRestarts
    /\ Ttl \in Nat /\ MaxNow \in Nat /\ MaxAsks \in Nat /\ MaxOwn \in Nat
    /\ MaxCalls \in Nat /\ MaxRestarts \in Nat /\ MaxFrame \in Nat /\ Hold \in BOOLEAN
    /\ IsFiniteSet(Index) /\ Index = 1..Cardinality(Index)
    /\ KeyBytes \in [PeerKeys -> Seq(Nat)]
    /\ \A k \in PeerKeys : Len(KeyBytes[k]) < 65536
    /\ \A j, k \in PeerKeys : KeyBytes[j] = KeyBytes[k] => j = k

VARIABLES
    store,    \* Key -> Value or None
    call,     \* Caller -> the request it is in
    result,   \* whose port call ended last, and how
    late,     \* writes left with a server by callers that have gone
    seen,     \* what the SDK last returned to an app
    now,      \* the clock of the coordinator and of the bucket
    used,     \* blob ids handed out
    asks, own, restarts,   \* counters of the bounds
    \* history, never read by the program
    acked,    \* Blob -> the coordinator's life in which its put was reported done
    doomed    \* blobs some delete was sent for

bounds == <<now, asks, own, restarts>>
history == <<acked, doomed>>
vars == <<store, call, result, late, seen, used, bounds, history>>

\* user is the SDK method ("none" for the node-agent's own calls), plan the
\* port calls still to make; todo, got, resp and exp belong to the first of
\* them. History: risk, a write of its manifest has been sent; life, the
\* coordinator's when it was made; known, the id of a get that
\* the app had been given.
Idle == [pc |-> "idle", user |-> "none", blob |-> None, plan |-> <<>>, todo |-> {},
         got |-> {}, resp |-> <<>>, exp |-> 0,
         risk |-> FALSE, life |-> 0, known |-> None]

\* What the SDK returned, with the facts about the request.
Seen(r, tag, status) ==
    [tag |-> tag, status |-> status, risk |-> r.risk, known |-> r.known]

\* Some blobs have been put before, some of them replicated.
Init ==
    /\ \E B \in SUBSET Blob, R \in SUBSET Blob :
        /\ R \subseteq B
        /\ store = [k \in Key |->
               IF k \in {AppKey, NsKey} \cup (UNION {Bucket(b) \cup {ManKey(b)} : b \in B})
                                \cup {PeerKey(b) : b \in R}
               THEN Upload ELSE None]
        /\ acked = [b \in Blob |-> IF b \in B THEN 0 ELSE None]
        /\ used = B
    /\ call = [c \in Caller |-> Idle]
    /\ result = [by |-> None, tag |-> "none", got |-> {}]
    /\ late = {}
    /\ seen = Seen(Idle, "none", 0)
    /\ now = 0 /\ asks = 0 /\ own = 0 /\ restarts = 0 /\ doomed = {}

-----------------------------------------------------------------------------
(* Status codes and errors. *)

\* err and domain_status: PortError (and DomainError) to HTTP status.
Status(e) ==
    CASE e = "ok" -> 200
      [] e \in {"Serialization", "InvalidErasureParams", "InvalidContract"} -> 400
      [] e \in {"Crypto", "TokenExpired"} -> 401
      [] e \in {"Unauthorized", "NamespaceMismatch", "OperationNotPermitted",
                "RetentionHold"} -> 403
      [] e = "NotFound" -> 404
      [] e = "Integrity" -> 422
      [] e = "QuotaExceeded" -> 429
      [] e = "Backend" -> 500
      [] e = "Unavailable" -> 503
StatusError(status) == IF status = 404 THEN "NotFound" ELSE "Backend"

-----------------------------------------------------------------------------
(* The QUIC frames of wire.rs. *)

OP_GET == 0
OP_PUT == 1
ST_OK == 0
ST_NOT_FOUND == 1
ST_ERR == 2

\* [op][key length, u16 big endian][key][payload]
EncodeRequest(op, key, payload) ==
    LET klen == Len(key) % 65536
    IN  <<op, klen \div 256, klen % 256>> \o key \o payload

\* Mutant: the payload starts one byte early.
ParseRequestOffByOne(buf) ==
    LET klen == 256 * buf[2] + buf[3]
    IN  IF Len(buf) < 3 \/ Len(buf) < 3 + klen THEN None
        ELSE [op |-> buf[1], key |-> SubSeq(buf, 4, 3 + klen),
              payload |-> SubSeq(buf, 3 + klen, Len(buf))]

ParseRequest(buf) ==
    LET klen == 256 * buf[2] + buf[3]
    IN  IF Len(buf) < 3 \/ Len(buf) < 3 + klen THEN None
        ELSE [op |-> buf[1], key |-> SubSeq(buf, 4, 3 + klen),
              payload |-> SubSeq(buf, 4 + klen, Len(buf))]

ParseKey(key) ==
    IF \E k \in PeerKeys : KeyBytes[k] = key
    THEN CHOOSE k \in PeerKeys : KeyBytes[k] = key ELSE None

\* Mutant: no status byte.
EncodeResponseBare(status, payload) == payload

EncodeResponse(status, payload) == <<status>> \o payload

-----------------------------------------------------------------------------
(* Requests and the port calls they are made of. *)

PortReq(via, op, keys, val) == [via |-> via, op |-> op, keys |-> keys, val |-> val]

Look(key) == <<PortReq("meta", "get", {key}, None)>>
ReadAll   == <<PortReq("meta", "list", Manifests, None)>>

\* The port calls of the use-cases, in order. Each first asks who owns the
\* namespace (guard::authorize).
Shards(op, b, v) == [i \in Index |-> PortReq("s3", op, {S3Key(b, i)}, v)]

\* PutBackup: contract, usage (summed over the manifests), shards, manifest.
PutPlan(b, v) ==
    Look(NsKey) \o Look(AppKey) \o ReadAll \o Shards("put", b, v)
        \o <<PortReq("meta", "put", {ManKey(b)}, v)>>

\* GetBackup, here with a code that needs every shard.
GetPlan(b) == Look(NsKey) \o Look(ManKey(b)) \o Shards("get", b, None)

\* DeleteBackup: the manifest is read for its age if there is a hold.
DeletePlan(b) ==
    Look(NsKey) \o Look(AppKey) \o (IF Hold THEN Look(ManKey(b)) ELSE <<>>)
        \o <<PortReq("s3", "del", Bucket(b), None), PortReq("meta", "del", {ManKey(b)}, None)>>

\* ListBackups.
ListPlan == Look(NsKey) \o ReadAll

Plan(user, b, v) ==
    CASE user = "put"    -> PutPlan(b, v)
      [] user = "get"    -> GetPlan(b)
      [] user = "delete" -> DeletePlan(b)
      [] user = "list"   -> ListPlan

Cur(c) == Head(call[c].plan)
At(c, pc) == call[c].pc = pc
Sent(c, via) == At(c, "sent") /\ Cur(c).via = via

Present(S) == {k \in S : store[k] # None}
Write(S, v) == store' = [k \in Key |-> IF k \in S THEN v ELSE store[k]]

\* The ids an app can name: it was given them or can list them.
Nameable == {b \in Blob : \/ store[ManKey(b)] # None
                           \/ acked[b] # None \/ b \in doomed}

\* NodeAgentClient: the request is on its way to the node-agent. (The id of a
\* new blob is the node's choice; it is made here.)
Ask(c, user, b, v) ==
    /\ At(c, "idle") /\ asks < MaxAsks /\ asks + own < MaxCalls
    /\ call' = [call EXCEPT ![c] = [Idle EXCEPT
           !.pc = "asked", !.user = user, !.blob = b, !.plan = Plan(user, b, v),
           !.life = restarts, !.known = IF user = "get" /\ acked[b] # None THEN b ELSE None]]
    /\ used' = IF user = "put" THEN used \cup {b} ELSE used
    /\ doomed' = IF user = "delete" THEN doomed \cup {b} ELSE doomed
    /\ asks' = asks + 1
    /\ UNCHANGED <<store, result, late, seen, now, own, restarts, acked>>

\* A port call of the node-agent itself: repair, sweep, replication, peer reads.
Begin(c, q) ==
    /\ At(c, "idle") /\ own < MaxOwn /\ asks + own < MaxCalls
    /\ call' = [call EXCEPT ![c] = [Idle EXCEPT !.pc = "ready", !.plan = <<q>>]]
    /\ own' = own + 1
    /\ UNCHANGED <<store, result, late, seen, used, now, asks, restarts, history>>

\* The route decodes the body and checks the token, or answers at once.
Admit(c) ==
    /\ At(c, "asked")
    /\ \/ call' = [call EXCEPT ![c].pc = "ready"]
       \/ \E e \in {"Serialization", "Crypto", "TokenExpired", "NamespaceMismatch",
                      "OperationNotPermitted"} :
            call' = [call EXCEPT ![c].pc = "replied", ![c].resp = <<Status(e)>>]
    /\ UNCHANGED <<store, result, late, seen, used, bounds, history>>

\* How many of its port calls a request has made.
Done(c) == Len(Plan(call[c].user, call[c].blob, None)) - Len(call[c].plan)

\* The use-case refuses by what it has read: another's namespace, a full quota, a
\* retention hold. All of them before any write.
Decline(c) ==
    /\ At(c, "ready") /\ call[c].user # "none"
    /\ \E e \in {"Unauthorized", "QuotaExceeded", "RetentionHold"} :
        /\ CASE e = "Unauthorized"  -> Done(c) = 1
             [] e = "QuotaExceeded" -> call[c].user = "put" /\ Done(c) = 3
             [] e = "RetentionHold" -> call[c].user = "delete" /\ Hold /\ Done(c) = 3
        /\ call' = [call EXCEPT ![c].pc = "replied", ![c].resp = <<Status(e)>>]
    /\ UNCHANGED <<store, result, late, seen, used, bounds, history>>

\* The next port call: its request leaves the node-agent.
Send(c) ==
    /\ At(c, "ready")
    /\ call' = [call EXCEPT
           ![c].pc = IF Cur(c).via = "s3" /\ Cur(c).op # "del" THEN "presign" ELSE "sent",
           ![c].todo = Cur(c).keys,
           ![c].risk = @ \/ (Cur(c).via = "meta" /\ Cur(c).op \in {"put", "del"})]
    /\ UNCHANGED <<store, result, late, seen, used, bounds, history>>

\* Mutant: a missing shard is reported as the anchor reports it.
EndMissingAsNotFound(c, ok, got, e) ==
    LET r == call[c]
        q == Cur(c)
        fault == IF ok /\ (q.op = "get" => got # {}) THEN "ok"
                 ELSE IF ok THEN "NotFound" ELSE e
    IN  /\ result' = [by |-> c, tag |-> IF ok THEN "ok" ELSE "error",
                      got |-> IF ok THEN got ELSE {}]
        /\ call' = [call EXCEPT ![c] =
               IF r.user = "none" THEN Idle
               ELSE [r EXCEPT !.todo = {}, !.got = {}, !.exp = 0,
                       !.plan = Tail(@),
                       !.pc = IF fault = "ok" /\ Tail(r.plan) # <<>> THEN "ready" ELSE "replied",
                       !.resp = <<Status(fault)>>]]

\* A port call ends. A shard that cannot be read is an erasure, and with it the
\* blob unavailable; any other failure ends the request with its status.
End(c, ok, got, e) ==
    LET r == call[c]
        q == Cur(c)
        fault == IF ok /\ (q.op = "get" => got # {}) THEN "ok"
                 ELSE IF q.via = "s3" /\ q.op = "get" THEN "Unavailable"
                 ELSE IF ok THEN "NotFound" ELSE e
    IN  /\ result' = [by |-> c, tag |-> IF ok THEN "ok" ELSE "error",
                      got |-> IF ok THEN got ELSE {}]
        /\ call' = [call EXCEPT ![c] =
               IF r.user = "none" THEN Idle
               ELSE [r EXCEPT !.todo = {}, !.got = {}, !.exp = 0,
                       !.plan = Tail(@),
                       !.pc = IF fault = "ok" /\ Tail(r.plan) # <<>> THEN "ready" ELSE "replied",
                       !.resp = <<Status(fault)>>]]

\* An answer is on its way back to the node-agent.
Answer(c, resp, got, todo) ==
    call' = [call EXCEPT ![c].pc = "answered", ![c].resp = resp, ![c].got = got,
                         ![c].todo = todo]

-----------------------------------------------------------------------------
(* "meta": RemoteMetadataStore and the coordinator's handlers. *)

\* The handler and the in-memory store (one lock per call), or the perimeter
\* guard, which blocks the caller before any handler.
ServeMeta(c) ==
    /\ Sent(c, "meta")
    /\ LET q == Cur(c)
       IN  \/ /\ q.op = "get"
              /\ Answer(c, <<200>>, {store[k] : k \in Present(q.keys)}, {})
              /\ UNCHANGED store
           \/ /\ q.op = "list"
              /\ Answer(c, <<200>>, Present(q.keys), {})
              /\ UNCHANGED store
           \/ /\ q.op \in {"put", "del"}
              /\ Answer(c, <<200>>, {}, {})
              /\ Write(q.keys, q.val)
           \/ /\ Answer(c, <<403>>, {}, call[c].todo)
              /\ UNCHANGED store
    /\ UNCHANGED <<result, late, seen, used, bounds, history>>

\* Mutant: every answer is parsed, also the empty one to a post.
ReceiveMetaParsed(c) ==
    /\ At(c, "answered") /\ Cur(c).via = "meta"
    /\ LET status == call[c].resp[1]
       IN  End(c, status = 200 /\ Cur(c).op \in {"get", "list"}, call[c].got,
               IF status = 200 THEN "Serialization" ELSE StatusError(status))
    /\ UNCHANGED <<store, late, seen, used, bounds, history>>

\* get parses the body, post looks at the status only.
ReceiveMeta(c) ==
    /\ At(c, "answered") /\ Cur(c).via = "meta"
    /\ LET status == call[c].resp[1]
       IN  End(c, status = 200, call[c].got, StatusError(status))
    /\ UNCHANGED <<store, late, seen, used, bounds, history>>

-----------------------------------------------------------------------------
(* "s3": PresignedBlobAnchor, the coordinator's presign and delete_blob. *)

\* presign on the coordinator: a URL for one method on one object, for TTL_SECS.
SignedUntil == now + Ttl

\* presigned_url: the coordinator signs, or does not.
Presign(c) ==
    /\ At(c, "presign")
    /\ \/ /\ call' = [call EXCEPT ![c].pc = "sent", ![c].exp = SignedUntil]
          /\ UNCHANGED result
       \/ End(c, FALSE, {}, "Backend")
    /\ UNCHANGED <<store, late, seen, used, bounds, history>>

\* The bucket refuses an expired URL, and may fail.
ServeS3(c) ==
    /\ Sent(c, "s3") /\ Cur(c).op # "del"
    /\ LET q == Cur(c)
           there == Present(q.keys)
       IN  \/ /\ now < call[c].exp /\ q.op = "get"
              /\ Answer(c, <<IF there = {} THEN 404 ELSE 200>>, {store[k] : k \in there}, {})
              /\ UNCHANGED store
           \/ /\ now < call[c].exp /\ q.op = "put"
              /\ Answer(c, <<200>>, {}, {})
              /\ Write(q.keys, q.val)
           \/ /\ now >= call[c].exp
              /\ Answer(c, <<403>>, {}, IF q.op = "get" THEN {} ELSE call[c].todo)
              /\ UNCHANGED store
           \/ /\ Answer(c, <<503>>, {}, call[c].todo)
              /\ UNCHANGED store
    /\ UNCHANGED <<result, late, seen, used, bounds, history>>

\* delete_blob on the coordinator: delete_prefix lists ...
ListPrefix(c) ==
    /\ Sent(c, "s3") /\ Cur(c).op = "del"
    /\ \/ /\ Present(Cur(c).keys) = {}
          /\ Answer(c, <<200>>, {}, {})
       \/ /\ Present(Cur(c).keys) # {}
          /\ call' = [call EXCEPT ![c].pc = "deleting", ![c].todo = Present(Cur(c).keys)]
       \/ Answer(c, <<Status("Backend")>>, {}, call[c].todo)
    /\ UNCHANGED <<store, result, late, seen, used, bounds, history>>

\* ... and deletes one object after the other, up to the first error.
DeleteObject(c, k) ==
    /\ At(c, "deleting") /\ k \in call[c].todo
    /\ LET left == call[c].todo \ {k}
       IN  \/ /\ Write({k}, None)
              /\ IF left = {} THEN Answer(c, <<200>>, {}, {})
                 ELSE call' = [call EXCEPT ![c].todo = left]
           \/ /\ Answer(c, <<Status("Backend")>>, {}, call[c].todo)
              /\ UNCHANGED store
    /\ UNCHANGED <<result, late, seen, used, bounds, history>>

\* Mutant: a refused upload counts as done.
ReceiveS3AnyAnswer(c) ==
    /\ At(c, "answered") /\ Cur(c).via = "s3"
    /\ LET status == call[c].resp[1]
       IN  End(c, status \in {200, 403, 404}, call[c].got, "Backend")
    /\ UNCHANGED <<store, late, seen, used, bounds, history>>

\* A read takes 403 and 404 both as "not there".
ReceiveS3(c) ==
    /\ At(c, "answered") /\ Cur(c).via = "s3"
    /\ LET status == call[c].resp[1]
       IN  End(c, status = 200 \/ (Cur(c).op = "get" /\ status \in {403, 404}),
               call[c].got, "Backend")
    /\ UNCHANGED <<store, late, seen, used, bounds, history>>

-----------------------------------------------------------------------------
(* "peer" and "quic": the two transports to another node-agent's anchor. *)

\* peer_put_shard, peer_get_shard.
ServePeer(c) ==
    /\ Sent(c, "peer")
    /\ LET q == Cur(c)
           there == Present(q.keys)
       IN  \/ /\ q.op = "get"
              /\ Answer(c, <<Status(IF there = {} THEN "NotFound" ELSE "ok")>>,
                           {store[k] : k \in there}, {})
              /\ UNCHANGED store
           \/ /\ q.op = "put"
              /\ Answer(c, <<200>>, {}, {})
              /\ Write(q.keys, q.val)
           \/ /\ Answer(c, <<Status("Backend")>>, {}, call[c].todo)
              /\ UNCHANGED store
    /\ UNCHANGED <<result, late, seen, used, bounds, history>>

ReceivePeer(c) ==
    /\ At(c, "answered") /\ Cur(c).via = "peer"
    /\ LET status == call[c].resp[1]
       IN  End(c, status = 200 \/ (Cur(c).op = "get" /\ status = 404), call[c].got, "Backend")
    /\ UNCHANGED <<store, late, seen, used, bounds, history>>

\* The frame a QUIC request is sent as.
Frame(q) ==
    EncodeRequest(IF q.op = "get" THEN OP_GET ELSE OP_PUT,
                  KeyBytes[CHOOSE k \in q.keys : TRUE],
                  IF q.op = "get" THEN <<>> ELSE q.val)

\* handle_stream and serve: a frame that is too long or does not parse is an
\* error, and so is a failing anchor.
ServeQuic(c) ==
    /\ Sent(c, "quic")
    /\ LET buf == Frame(Cur(c))
           p   == ParseRequest(buf)
           k   == ParseKey(p.key)
       IN  \/ /\ Len(buf) <= MaxFrame /\ p # None /\ k # None
              /\ \/ /\ p.op = OP_GET
                    /\ Answer(c, IF store[k] = None THEN EncodeResponse(ST_NOT_FOUND, <<>>)
                                 ELSE EncodeResponse(ST_OK, store[k]),
                              {store[j] : j \in Present({k})}, {})
                    /\ UNCHANGED store
                 \/ /\ p.op = OP_PUT
                    /\ Answer(c, EncodeResponse(ST_OK, <<>>), {}, {})
                    /\ Write({k}, p.payload)
           \/ /\ Answer(c, EncodeResponse(ST_ERR, <<>>), {}, call[c].todo)
              /\ UNCHANGED store
    /\ UNCHANGED <<result, late, seen, used, bounds, history>>

\* send_shard and fetch_shard: the first byte is the status, the rest the shard.
ReceiveQuic(c) ==
    /\ At(c, "answered") /\ Cur(c).via = "quic"
    /\ LET resp == call[c].resp
           fits == Len(resp) <= MaxFrame
           e    == IF fits THEN "Backend" ELSE "Unavailable"
       IN  IF Cur(c).op = "get"
           THEN End(c, fits /\ resp[1] \in {ST_OK, ST_NOT_FOUND},
                    IF resp[1] = ST_OK THEN {Tail(resp)} ELSE {}, e)
           ELSE End(c, fits /\ resp[1] = ST_OK, {}, e)
    /\ UNCHANGED <<store, late, seen, used, bounds, history>>

-----------------------------------------------------------------------------
(* The network, the processes and the SDK's answer. *)

\* A write that is with a server stays there, or is dropped with its connection.
LeaveLate(c) ==
    \/ UNCHANGED late
    \/ /\ call[c].pc \in {"sent", "deleting"} /\ Cur(c).op \in {"put", "del"}
       /\ late' = late \cup {[todo |-> call[c].todo, val |-> Cur(c).val]}

Busy(c) == call[c].pc \in {"presign", "sent", "deleting", "answered"}

\* The connection of a port call breaks. A body that breaks off does not parse.
Lose(c) ==
    /\ Busy(c)
    /\ LeaveLate(c)
    /\ \E e \in {"Unavailable"} \cup
                  (IF At(c, "presign") \/ (At(c, "answered") /\ Cur(c).via = "meta"
                                            /\ Cur(c).op \in {"get", "list"})
                   THEN {"Serialization"} ELSE {}) :
        End(c, FALSE, {}, e)
    /\ UNCHANGED <<store, seen, used, bounds, history>>

\* The app's own connection breaks; the node-agent drops what it was doing.
HangUp(c) ==
    /\ call[c].user # "none"
    /\ IF Busy(c) THEN /\ LeaveLate(c)
                      /\ result' = [by |-> c, tag |-> "error", got |-> {}]
       ELSE UNCHANGED <<late, result>>
    /\ seen' = Seen(call[c], "transport", 0)
    /\ call' = [call EXCEPT ![c] = Idle]
    /\ UNCHANGED <<store, used, bounds, history>>

\* post_json: an error status is reported as such; a body is parsed, and the
\* answer to a delete has none.
Reply(c) ==
    /\ At(c, "replied")
    /\ LET status == call[c].resp[1]
           tag == IF status # 200 THEN "server"
                  ELSE IF call[c].user = "delete" THEN "encoding" ELSE "ok"
       IN  /\ seen' = Seen(call[c], tag, status)
           /\ acked' = IF tag = "ok" /\ call[c].user = "put"
                       THEN [acked EXCEPT ![call[c].blob] = call[c].life] ELSE acked
    /\ call' = [call EXCEPT ![c] = Idle]
    /\ UNCHANGED <<store, result, late, used, bounds, doomed>>

\* A server gets round to a write whose caller has gone.
ServeLate(r) ==
    /\ \E S \in {{k} : k \in r.todo} :
        /\ Write(S, r.val)
        /\ late' = (late \ {r}) \cup (IF r.todo = S THEN {}
                                      ELSE {[r EXCEPT !.todo = @ \ S]})
    /\ UNCHANGED <<call, result, seen, used, bounds, history>>

\* The coordinator restarts with an empty MemoryMetadataStore.
Restart ==
    /\ restarts < MaxRestarts
    /\ restarts' = restarts + 1
    /\ Write(MetaKeys, None)
    /\ late' = {r \in late : r.todo \cap MetaKeys = {}}
    /\ UNCHANGED <<call, result, seen, used, now, asks, own, history>>

Tick ==
    /\ now < MaxNow
    /\ now' = now + 1
    /\ UNCHANGED <<store, call, result, late, seen, used, asks, own, restarts, history>>

-----------------------------------------------------------------------------
\* The calls node-agents make on their own.
OwnCalls ==
    LET replica == {{PeerKey(b)} : b \in Blob}
    IN  [via : {"peer", "quic"}, op : {"put"}, keys : replica, val : Value]
        \cup [via : {"peer", "quic"}, op : {"get"}, keys : replica, val : {None}]
        \cup {ReadAll[1]}

Start(c) ==
    \/ \E b \in Blob \ used : Ask(c, "put", b, Upload)
    \/ \E user \in {"get", "delete"}, b \in Nameable : Ask(c, user, b, None)
    \/ Ask(c, "list", None, None)
    \/ \E q \in OwnCalls : Begin(c, q)

Serve(c) ==
    \/ ServeMeta(c) \/ Presign(c) \/ ServeS3(c) \/ ListPrefix(c)
    \/ \E k \in call[c].todo : DeleteObject(c, k)
    \/ ServePeer(c) \/ ServeQuic(c)

Receive(c) == ReceiveMeta(c) \/ ReceiveS3(c) \/ ReceivePeer(c) \/ ReceiveQuic(c)

Next ==
    \/ \E c \in Caller :
        \/ Start(c) \/ Admit(c) \/ Decline(c) \/ Send(c) \/ Serve(c) \/ Receive(c)
        \/ Lose(c) \/ HangUp(c) \/ Reply(c)
    \/ \E r \in late : ServeLate(r)
    \/ Restart \/ Tick

Spec == Init /\ [][Next]_vars

-----------------------------------------------------------------------------
(* Properties. *)

\* Requests, answers and what is left with the servers stay well formed; a
\* request in a port call has that call first in its plan, and an answer has
\* the status its receiver looks at.
TypeOK ==
    /\ store \in [Key -> Value \cup {None}]
    /\ \A c \in Caller :
        LET r == call[c]
        IN  /\ r.pc \in {"idle", "asked", "ready", "presign", "sent", "deleting",
                         "answered", "replied"}
            /\ r.user \in {"none", "put", "get", "delete", "list"}
            /\ r.blob \in Blob \cup {None}
            /\ \A i \in 1..Len(r.plan) :
                r.plan[i].keys \subseteq Key /\ r.plan[i].val \in Value \cup {None}
            /\ r.pc \notin {"idle", "replied"} => r.plan # <<>>
            /\ r.pc \in {"answered", "replied"} => r.resp # <<>>
            /\ r.todo \subseteq Key
            /\ r.pc = "answered" =>
                r.got \subseteq IF Head(r.plan).op = "list" THEN Key ELSE Value
    /\ result.by \in Caller \cup {None} /\ result.tag \in {"none", "ok", "error"}
    /\ \A r \in late : r.todo \subseteq Key /\ r.val \in Value \cup {None}
    /\ seen.tag \in {"none", "ok", "server", "encoding", "transport"}
    /\ used \subseteq Blob /\ doomed \subseteq Blob
    /\ now \in 0..MaxNow /\ asks \in 0..MaxAsks /\ own \in 0..MaxOwn
    /\ restarts \in 0..MaxRestarts
    /\ acked \in [Blob -> 0..MaxRestarts \cup {None}]

\* The port call a caller is in, as its use-case sees it.
PortCall == [c \in Caller |->
    IF Busy(c)
    THEN [op |-> Cur(c).op, todo |-> call[c].todo, val |-> Cur(c).val,
          vague |-> Cur(c).via = "s3", got |-> call[c].got]
    ELSE [op |-> "none", todo |-> {}, val |-> None, vague |-> FALSE, got |-> {}]]

Port == INSTANCE StorePort WITH call <- PortCall, Volatile <- MetaKeys

\* Every adapter keeps the promise of its port: through frames, status codes,
\* presigned URLs, lost answers and late requests, a call that reports success
\* has done what it says and read what was there.
PortKept == Port!Spec

\* A client error means nothing happened: when the SDK reports a 4xx status,
\* the node-agent had not sent any write of the manifest.
RefusedMeansUndone ==
    seen.tag = "server" /\ seen.status \in 400..499 => ~seen.risk

\* A put that the SDK reported as done stays in the bucket until a delete is
\* sent for it, and listed unless the coordinator restarts as well.
AckedPutStands ==
    \A b \in Blob \ doomed : acked[b] # None =>
        /\ Present(Bucket(b)) = Bucket(b)
        /\ restarts = acked[b] => store[ManKey(b)] # None

\* "Not found" is final: an app that holds the id of a put that was reported as
\* done gets a 404 for it only if a delete was sent or the coordinator has
\* restarted; a lost answer, a refused caller or an expired URL never reads so.
NotFoundIsFinal ==
    seen.status = 404 /\ seen.known # None => seen.known \in doomed \/ restarts > 0
=============================================================================
