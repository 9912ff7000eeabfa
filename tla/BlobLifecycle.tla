--------------------------- MODULE BlobLifecycle ---------------------------
(***************************************************************************)
(* The life of a backup blob: PutBackup, GetBackup, DeleteBackup,          *)
(* RepairShards (on request, reactively after a degraded read, and from    *)
(* the periodic sweep) and the coordinator's set_manifest_name, run        *)
(* concurrently by node-agents over shared state: the coordinator's        *)
(* manifests and the shard stores ("anchors") of the nodes.                *)
(*                                                                         *)
(* Every await of a use-case is a step of its own: each shard written,     *)
(* read, replicated or removed, each metadata call. Any task may fail at   *)
(* any await (backend error, dropped connection, node crash) and leaves    *)
(* behind what it has done.                                                *)
(*                                                                         *)
(* Abstraction. A shard copy is "none" (absent), "ok" (its SHA-256 equals  *)
(* the one in the manifest) or "bad" (any other bytes); all shards of one  *)
(* namespace. Requests are the ones the guard lets through: authorization  *)
(* and the quota check do not write and are modelled elsewhere.            *)
(***************************************************************************)
EXTENDS FiniteSets, Domain

CONSTANTS
    Node,       \* node-agents
    Entry,      \* the node-agents that clients send their requests to
    Anchor,     \* shard stores
    AnchorOf,   \* Node -> Anchor: own directory (blob-fs) or shared bucket (RustFS)
    Peers,      \* Node -> SUBSET Node: VAULT_PEERS of each node, {} without a mesh
    N, K,       \* ErasureParams of the contract: any K of N shards reconstruct
    MinHold,    \* RetentionPolicy.min_days in clock ticks, 0 for no hold
    Blob,       \* blob ids the id generator may hand out
    Client,     \* slots for requests in flight
    Sweeper,    \* repair sweeps running
    SweepNode,  \* Sweeper -> Node
    Ops,        \* the requests clients make: bound of a run
    Faulty,     \* tasks whose calls may fail
    MaxNow,     \* bound: the clock stops there
    MaxDamage,  \* bound: shard copies that are ever lost or corrupted
    None        \* "no such value"

Task  == Client \cup Sweeper
Shard == 1..N
Content == {"none", "ok", "bad"}

ASSUME ParamsAssumption ==
    /\ N \in Nat /\ K \in 1..N            \* ErasureParams::new
    /\ MinHold \in Nat /\ MaxNow \in Nat /\ MaxDamage \in Nat

ASSUME TopologyAssumption ==
    /\ Entry \subseteq Node
    /\ AnchorOf \in [Node -> Anchor]
    /\ Peers \in [Node -> SUBSET Node]
    /\ SweepNode \in [Sweeper -> Node]

ASSUME NoneAssumption ==
    /\ None \notin Node /\ None \notin Anchor /\ None \notin Blob
    /\ None \notin [locs : [Shard -> SUBSET Node], created : Nat]
    /\ None \notin Nat

\* What the coordinator keeps of a blob: the recorded peer replicas of each
\* shard (the anchor location is implicit) and the creation time.
Manifest == [locs : [Shard -> SUBSET Node], created : Nat]

VARIABLES
    manifests,  \* coordinator: Blob -> Manifest or None
    store,      \* Anchor -> Blob -> Shard -> Content
    task,       \* local state of each request or sweep
    queue,      \* blobs a sweep has listed and not yet visited
    now,        \* the wall clock
    \* history, never read by the program
    home,       \* the anchor a blob id was put through, None while unused
    born,       \* created_at of the first manifest, None before it
    damaged,    \* shard copies hit by loss or corruption
    acked,      \* blobs whose put was acknowledged
    erased,     \* blobs on which some delete_blob has started
    gone        \* blobs whose delete was acknowledged

history == <<home, born, damaged, acked, erased, gone>>
vars == <<manifests, store, task, queue, now, history>>

NoCopies == [i \in Shard |-> "none"]
NoLocs   == [i \in Shard |-> {}]

Idle == [op |-> "none", pc |-> "idle", node |-> None, blob |-> None,
         man |-> None, todo |-> {}, tried |-> {}, col |-> NoCopies,
         bad |-> {}, errs |-> {}, out |-> "none"]

Init ==
    /\ manifests = [b \in Blob |-> None]
    /\ store = [a \in Anchor |-> [b \in Blob |-> NoCopies]]
    /\ task = [t \in Task |-> Idle]
    /\ queue = [s \in Sweeper |-> {}]
    /\ now = 0
    /\ home = [b \in Blob |-> None]
    /\ born = [b \in Blob |-> None]
    /\ damaged = {} /\ acked = {} /\ erased = {} /\ gone = {}

-----------------------------------------------------------------------------
(* Helpers. *)

At(t, pc) == task[t].pc = pc

Become(t, r) == task' = [task EXCEPT ![t] = r]

\* Loops over shards run in index order; i is the next one.
IsNext(i, todo) == i \in todo /\ \A j \in todo : i <= j

\* The verified bytes gathered so far.
Have(r) == {i \in Shard : r.col[i] # "none"}

\* Mutant of HashOk: any bytes that are there are taken.
HashOkIfPresent(c) == c # "none"

\* sha256_hex(bytes) == shard.sha256
HashOk(c) == c = "ok"

\* ErasureCoder::decode, and the deterministic re-encode: wrong bytes in give
\* wrong bytes out.
Decode(col) == IF \E i \in Shard : col[i] = "bad" THEN "bad" ELSE "ok"

WriteShard(a, b, i, c) == store' = [store EXCEPT ![a][b][i] = c]

ReadShard(t, i) == store[AnchorOf[task[t].node]][task[t].blob][i]

ReadPeer(t, p, i) == store[AnchorOf[p]][task[t].blob][i]

Start(t, op, pc, n, b) ==
    /\ At(t, "idle")
    /\ Become(t, [Idle EXCEPT !.op = op, !.pc = pc, !.node = n, !.blob = b])

Finish(t) == Become(t, Idle)

\* Ids are random: a client can only name a blob once it is listed. (Only a
\* delete needs this; every other request answers NotFound without a manifest.)
Known(b) == born[b] # None

-----------------------------------------------------------------------------
(* PutBackup::execute *)

StartPut(t, n, b) ==
    /\ home[b] = None
    /\ At(t, "idle")
    /\ Become(t, [Idle EXCEPT !.op = "put", !.pc = "putShard", !.node = n,
                              !.blob = b, !.todo = Shard,
                              !.man = [locs |-> NoLocs, created |-> 0]])
    /\ home' = [home EXCEPT ![b] = AnchorOf[n]]
    /\ UNCHANGED <<manifests, store, queue, now, born, damaged, acked, erased, gone>>

\* Mutant of PutAdvance: the loop skips a shard.
PutAdvanceSkips(r, i) ==
    IF Peers[r.node] \ r.tried # {} THEN [r EXCEPT !.pc = "replicate"]
    ELSE LET left == r.todo \ {i, i + 1}
         IN  IF left # {}
             THEN [r EXCEPT !.pc = "putShard", !.todo = left, !.tried = {}]
             ELSE [r EXCEPT !.pc = "putManifest", !.todo = {}, !.tried = {},
                            !.man.created = now]

\* Once the peers of shard i have been tried: the next shard, or the manifest,
\* stamped with the clock.
PutAdvance(r, i) ==
    IF Peers[r.node] \ r.tried # {} THEN [r EXCEPT !.pc = "replicate"]
    ELSE LET left == r.todo \ {i}
         IN  IF left # {}
             THEN [r EXCEPT !.pc = "putShard", !.todo = left, !.tried = {}]
             ELSE [r EXCEPT !.pc = "putManifest", !.todo = {}, !.tried = {},
                            !.man.created = now]

\* anchor.put_shard: the authoritative write comes before any replica.
PutShard(t, i) ==
    /\ At(t, "putShard")
    /\ IsNext(i, task[t].todo)
    /\ WriteShard(AnchorOf[task[t].node], task[t].blob, i, "ok")
    /\ Become(t, PutAdvance(task[t], i))
    /\ UNCHANGED <<manifests, queue, now, history>>

\* Mutant of Replicate: the peer is recorded whatever send_shard returns.
ReplicateUnconfirmed(t, i, p) ==
    /\ At(t, "replicate")
    /\ IsNext(i, task[t].todo)
    /\ p \in Peers[task[t].node] \ task[t].tried
    /\ \/ WriteShard(AnchorOf[p], task[t].blob, i, "ok")
       \/ UNCHANGED store
    /\ Become(t, PutAdvance([task[t] EXCEPT !.tried = @ \cup {p},
                                            !.man.locs[i] = @ \cup {p}], i))
    /\ UNCHANGED <<manifests, queue, now, history>>

\* replicate: best effort. The send fails, or is stored but its answer is
\* lost (the copy is not recorded), or succeeds.
Replicate(t, i, p) ==
    /\ At(t, "replicate")
    /\ IsNext(i, task[t].todo)
    /\ p \in Peers[task[t].node] \ task[t].tried
    /\ \E stored, answered \in BOOLEAN :
        /\ answered => stored
        /\ IF stored THEN WriteShard(AnchorOf[p], task[t].blob, i, "ok")
                     ELSE UNCHANGED store
        /\ LET r == [task[t] EXCEPT
                       !.tried = @ \cup {p},
                       !.man.locs[i] = IF answered THEN @ \cup {p} ELSE @]
           IN  Become(t, PutAdvance(r, i))
    /\ UNCHANGED <<manifests, queue, now, history>>

PutManifest(t) ==
    /\ At(t, "putManifest")
    /\ manifests' = [manifests EXCEPT ![task[t].blob] = task[t].man]
    /\ born' = [born EXCEPT ![task[t].blob] = task[t].man.created]
    /\ Become(t, [task[t] EXCEPT !.pc = "reply"])
    /\ UNCHANGED <<store, queue, now, home, damaged, acked, erased, gone>>

PutReply(t) ==
    /\ At(t, "reply") /\ task[t].op = "put"
    /\ acked' = acked \cup {task[t].blob}
    /\ Finish(t)
    /\ UNCHANGED <<manifests, store, queue, now, home, born, damaged, erased, gone>>

-----------------------------------------------------------------------------
(* GetBackup::restore and the get_backup route *)

StartGet(t, n, b) ==
    /\ Start(t, "get", "getManifest", n, b)
    /\ UNCHANGED <<manifests, store, queue, now, history>>

\* NotFound ends the request.
GetManifest(t) ==
    /\ At(t, "getManifest")
    /\ IF manifests[task[t].blob] = None THEN Finish(t)
       ELSE Become(t, [task[t] EXCEPT !.pc = "load", !.todo = Shard,
                                      !.man = manifests[task[t].blob]])
    /\ UNCHANGED <<manifests, store, queue, now, history>>

\* Mutant of LoadAdvance: the loop skips a shard.
LoadAdvanceSkips(r, i) ==
    LET left == r.todo \ {i, i + 1}
    IN  [r EXCEPT !.todo = left, !.tried = {},
                  !.pc = IF left = {} THEN "decode" ELSE "load"]

LoadAdvance(r, i) ==
    LET left == r.todo \ {i}
    IN  [r EXCEPT !.todo = left, !.tried = {},
                  !.pc = IF left = {} THEN "decode" ELSE "load"]

\* load_shard, peers first: a peer that is down, has nothing or has bytes with
\* another hash is skipped.
LoadFromPeer(t, i, p) ==
    /\ At(t, "load")
    /\ IsNext(i, task[t].todo)
    /\ p \in task[t].man.locs[i] \ task[t].tried
    /\ \/ /\ HashOk(ReadPeer(t, p, i))
          /\ Become(t, LoadAdvance([task[t] EXCEPT !.col[i] = ReadPeer(t, p, i)], i))
       \/ Become(t, [task[t] EXCEPT !.tried = @ \cup {p}])
    /\ UNCHANGED <<manifests, store, queue, now, history>>

\* Mutant of LoadFromAnchor: no fallback for a shard that has peer replicas.
LoadFromAnchorOnlyUnreplicated(t, i) ==
    /\ At(t, "load")
    /\ IsNext(i, task[t].todo)
    /\ task[t].man.locs[i] \subseteq task[t].tried
    /\ Become(t, LoadAdvance([task[t] EXCEPT
           !.col[i] = IF task[t].man.locs[i] = {} /\ HashOk(ReadShard(t, i))
                      THEN ReadShard(t, i) ELSE "none"], i))
    /\ UNCHANGED <<manifests, store, queue, now, history>>

\* load_shard, authoritative fallback: every failure counts as an erasure.
LoadFromAnchor(t, i) ==
    /\ At(t, "load")
    /\ IsNext(i, task[t].todo)
    /\ task[t].man.locs[i] \subseteq task[t].tried
    /\ \/ Become(t, LoadAdvance([task[t] EXCEPT
                        !.col[i] = IF HashOk(ReadShard(t, i))
                                   THEN ReadShard(t, i) ELSE "none"], i))
       \/ /\ t \in Faulty
          /\ Become(t, LoadAdvance([task[t] EXCEPT !.errs = @ \cup {i}], i))
    /\ UNCHANGED <<manifests, store, queue, now, history>>

GetDecode(t) ==
    /\ At(t, "decode")
    /\ IF IsReconstructable(Cardinality(Have(task[t])), K)
       THEN Become(t, [task[t] EXCEPT !.pc = "reply", !.out = Decode(task[t].col)])
       ELSE Finish(t)
    /\ UNCHANGED <<manifests, store, queue, now, history>>

\* Mutant of GetReply: the repair works from the manifest the read had.
GetReplyStale(t) ==
    /\ At(t, "reply") /\ task[t].op = "get"
    /\ IF Have(task[t]) = Shard THEN Finish(t)
       ELSE Become(t, [Idle EXCEPT !.op = "repair", !.pc = "classify", !.todo = Shard,
                                   !.node = task[t].node, !.blob = task[t].blob,
                                   !.man = task[t].man])
    /\ UNCHANGED <<manifests, store, queue, now, history>>

\* The answer goes out; a degraded read spawns a repair of the blob.
GetReply(t) ==
    /\ At(t, "reply") /\ task[t].op = "get"
    /\ IF Have(task[t]) = Shard THEN Finish(t)
       ELSE Become(t, [Idle EXCEPT !.op = "repair", !.pc = "repManifest",
                                   !.node = task[t].node, !.blob = task[t].blob])
    /\ UNCHANGED <<manifests, store, queue, now, history>>

-----------------------------------------------------------------------------
(* DeleteBackup::execute *)

\* The manifest is only read when the contract has a hold.
StartDelete(t, n, b) ==
    /\ Known(b)
    /\ Start(t, "delete", IF MinHold > 0 THEN "delCheck" ELSE "delList", n, b)
    /\ UNCHANGED <<manifests, store, queue, now, history>>

\* Mutant of DelCheck: the hold ends one tick early.
DelCheckEarly(t) ==
    /\ At(t, "delCheck")
    /\ LET m == manifests[task[t].blob]
       IN  IF m # None /\ HoldElapsed(MinHold, m.created, now + 1)
           THEN Become(t, [task[t] EXCEPT !.pc = "delList"])
           ELSE Finish(t)
    /\ UNCHANGED <<manifests, store, queue, now, history>>

\* Mutant of DelCheck: the manifest goes first and delete_blob is forgotten.
DelCheckManifestOnly(t) ==
    /\ At(t, "delCheck")
    /\ LET m == manifests[task[t].blob]
       IN  IF m # None /\ HoldElapsed(MinHold, m.created, now)
           THEN Become(t, [task[t] EXCEPT !.pc = "delManifest"])
           ELSE Finish(t)
    /\ UNCHANGED <<manifests, store, queue, now, history>>

DelCheck(t) ==
    /\ At(t, "delCheck")
    /\ LET m == manifests[task[t].blob]
       IN  IF m # None /\ HoldElapsed(MinHold, m.created, now)
           THEN Become(t, [task[t] EXCEPT !.pc = "delList"])
           ELSE Finish(t)                    \* NotFound, RetentionHold
    /\ UNCHANGED <<manifests, store, queue, now, history>>

\* anchor.delete_blob on this node's anchor: list what is there ...
DelList(t) ==
    /\ At(t, "delList")
    /\ LET there == {i \in Shard : ReadShard(t, i) # "none"}
       IN  Become(t, [task[t] EXCEPT !.todo = there,
                        !.pc = IF there = {} THEN "delManifest" ELSE "delShards"])
    /\ erased' = erased \cup {task[t].blob}
    /\ UNCHANGED <<manifests, store, queue, now, home, born, damaged, acked, gone>>

\* ... and remove it one by one.
DelShard(t, i) ==
    /\ At(t, "delShards")
    /\ i \in task[t].todo
    /\ WriteShard(AnchorOf[task[t].node], task[t].blob, i, "none")
    /\ Become(t, [task[t] EXCEPT !.todo = @ \ {i},
                    !.pc = IF task[t].todo = {i} THEN "delManifest" ELSE "delShards"])
    /\ UNCHANGED <<manifests, queue, now, history>>

DelManifest(t) ==
    /\ At(t, "delManifest")
    /\ manifests' = [manifests EXCEPT ![task[t].blob] = None]
    /\ Become(t, [task[t] EXCEPT !.pc = "reply"])
    /\ UNCHANGED <<store, queue, now, history>>

DelReply(t) ==
    /\ At(t, "reply") /\ task[t].op = "delete"
    /\ gone' = gone \cup {task[t].blob}
    /\ Finish(t)
    /\ UNCHANGED <<manifests, store, queue, now, home, born, damaged, acked, erased>>

-----------------------------------------------------------------------------
(* RepairShards::execute *)

StartRepair(t, n, b) ==
    /\ Start(t, "repair", "repManifest", n, b)
    /\ UNCHANGED <<manifests, store, queue, now, history>>

RepManifest(t) ==
    /\ At(t, "repManifest")
    /\ IF manifests[task[t].blob] = None THEN Finish(t)
       ELSE Become(t, [task[t] EXCEPT !.pc = "classify", !.todo = Shard,
                                      !.man = manifests[task[t].blob]])
    /\ UNCHANGED <<manifests, store, queue, now, history>>

\* Enough valid shards: reconstruct, re-encode and rewrite the bad ones.
ToRewrite(r) == [r EXCEPT !.pc = "rewrite", !.todo = r.bad, !.tried = {},
                          !.out = Decode(r.col)]

\* Mutant of ClassifyAdvance: one shard more than k is asked for, and the blob
\* is given up without it.
ClassifyAdvanceStrict(r, i) ==
    LET left == r.todo \ {i}
    IN  IF left # {} THEN [r EXCEPT !.todo = left]
        ELSE IF r.bad # {} /\ Cardinality(Have(r)) > K THEN ToRewrite(r)
        ELSE Idle

ClassifyAdvance(r, i) ==
    LET left == r.todo \ {i}
    IN  IF left # {} THEN [r EXCEPT !.todo = left]
        ELSE IF r.bad = {} THEN Idle
        ELSE IF IsReconstructable(Cardinality(Have(r)), K) THEN ToRewrite(r)
        ELSE [r EXCEPT !.pc = "backfill", !.todo = r.bad, !.tried = {}]

\* A shard of this node's anchor is valid, or missing/corrupt. The presigned
\* anchor also reports a refused (403) read as missing. (Any other error ends
\* the repair: Fail.)
Classify(t, i) ==
    /\ At(t, "classify")
    /\ IsNext(i, task[t].todo)
    /\ \/ /\ HashOk(ReadShard(t, i))
          /\ Become(t, ClassifyAdvance([task[t] EXCEPT !.col[i] = ReadShard(t, i)], i))
       \/ /\ HashOk(ReadShard(t, i)) => t \in Faulty
          /\ Become(t, ClassifyAdvance([task[t] EXCEPT !.bad = @ \cup {i}], i))
    /\ UNCHANGED <<manifests, store, queue, now, history>>

\* backfill_from_peers stops as soon as k shards are available; if they never
\* are, the blob is reported unrepairable and nothing is written.
BackfillAdvance(r) ==
    IF IsReconstructable(Cardinality(Have(r)), K) THEN ToRewrite(r)
    ELSE IF r.todo = {} THEN Idle ELSE r

Backfill(t, i) ==
    /\ At(t, "backfill")
    /\ IsNext(i, task[t].todo)
    /\ LET left == task[t].man.locs[i] \ task[t].tried
           next == [task[t] EXCEPT !.todo = @ \ {i}, !.tried = {}]
       IN  \/ /\ left = {}
              /\ Become(t, BackfillAdvance(next))
           \/ \E p \in left :
                \/ /\ HashOk(ReadPeer(t, p, i))
                   /\ Become(t, BackfillAdvance([next EXCEPT !.col[i] = ReadPeer(t, p, i)]))
                \/ Become(t, [task[t] EXCEPT !.tried = @ \cup {p}])
    /\ UNCHANGED <<manifests, store, queue, now, history>>

RewriteAdvance(r, i) ==
    IF r.man.locs[i] \ r.tried # {} THEN [r EXCEPT !.pc = "reReplicate"]
    ELSE IF r.todo = {i} THEN Idle
    ELSE [r EXCEPT !.pc = "rewrite", !.todo = @ \ {i}, !.tried = {}]

Rewrite(t, i) ==
    /\ At(t, "rewrite")
    /\ IsNext(i, task[t].todo)
    /\ WriteShard(AnchorOf[task[t].node], task[t].blob, i, task[t].out)
    /\ Become(t, RewriteAdvance(task[t], i))
    /\ UNCHANGED <<manifests, queue, now, history>>

\* re_replicate ignores the outcome of the send.
ReReplicate(t, i, p) ==
    /\ At(t, "reReplicate")
    /\ IsNext(i, task[t].todo)
    /\ p \in task[t].man.locs[i] \ task[t].tried
    /\ \/ WriteShard(AnchorOf[p], task[t].blob, i, task[t].out)
       \/ UNCHANGED store
    /\ Become(t, RewriteAdvance([task[t] EXCEPT !.tried = @ \cup {p}], i))
    /\ UNCHANGED <<manifests, queue, now, history>>

-----------------------------------------------------------------------------
(* spawn_repair_sweep: list every blob, repair them one after the other. *)

SweepList(s) ==
    /\ At(s, "idle")
    /\ queue[s] = {}
    /\ queue' = [queue EXCEPT ![s] = {b \in Blob : manifests[b] # None}]
    /\ UNCHANGED <<manifests, store, task, now, history>>

SweepNext(s, b) ==
    /\ b \in queue[s]
    /\ Start(s, "repair", "repManifest", SweepNode[s], b)
    /\ queue' = [queue EXCEPT ![s] = @ \ {b}]
    /\ UNCHANGED <<manifests, store, now, history>>

-----------------------------------------------------------------------------
(* set_manifest_name on the coordinator: read, modify, write back. The name *)
(* and object id are not part of this model's manifest.                     *)

StartName(t, b) ==
    /\ Start(t, "name", "nameGet", None, b)
    /\ UNCHANGED <<manifests, store, queue, now, history>>

NameGet(t) ==
    /\ At(t, "nameGet")
    /\ IF manifests[task[t].blob] = None THEN Finish(t)
       ELSE Become(t, [task[t] EXCEPT !.pc = "namePut", !.man = manifests[task[t].blob]])
    /\ UNCHANGED <<manifests, store, queue, now, history>>

NamePut(t) ==
    /\ At(t, "namePut")
    /\ manifests' = [manifests EXCEPT ![task[t].blob] = task[t].man]
    /\ Finish(t)
    /\ UNCHANGED <<store, queue, now, history>>

-----------------------------------------------------------------------------
(* The environment. *)

\* A call of the task fails, its client disconnects or its node crashes.
Fail(t) ==
    /\ t \in Faulty
    /\ ~At(t, "idle")
    /\ Finish(t)
    /\ UNCHANGED <<manifests, store, queue, now, history>>

\* A stored copy is lost or rots. Bound: once per copy, MaxDamage copies.
Damage(a, b, i) ==
    /\ store[a][b][i] = "ok"
    /\ <<a, b, i>> \notin damaged
    /\ Cardinality(damaged) < MaxDamage
    /\ \E c \in {"none", "bad"} : WriteShard(a, b, i, c)
    /\ damaged' = damaged \cup {<<a, b, i>>}
    /\ UNCHANGED <<manifests, task, queue, now, home, born, acked, erased, gone>>

Tick ==
    /\ now < MaxNow
    /\ now' = now + 1
    /\ UNCHANGED <<manifests, store, task, queue, history>>

-----------------------------------------------------------------------------
PutStep(t) ==
    \/ \E i \in Shard : PutShard(t, i) \/ \E p \in Node : Replicate(t, i, p)
    \/ PutManifest(t) \/ PutReply(t)

GetStep(t) ==
    \/ GetManifest(t)
    \/ \E i \in Shard : LoadFromAnchor(t, i) \/ \E p \in Node : LoadFromPeer(t, i, p)
    \/ GetDecode(t) \/ GetReply(t)

DeleteStep(t) ==
    \/ DelCheck(t) \/ DelList(t)
    \/ \E i \in Shard : DelShard(t, i)
    \/ DelManifest(t) \/ DelReply(t)

RepairStep(t) ==
    \/ RepManifest(t)
    \/ \E i \in Shard : \/ Classify(t, i) \/ Backfill(t, i) \/ Rewrite(t, i)
                        \/ \E p \in Node : ReReplicate(t, i, p)

NameStep(t) == NameGet(t) \/ NamePut(t)

StartRequest(t) ==
    \E b \in Blob :
        \/ \E n \in Entry :
            \/ "put"    \in Ops /\ StartPut(t, n, b)
            \/ "get"    \in Ops /\ StartGet(t, n, b)
            \/ "delete" \in Ops /\ StartDelete(t, n, b)
            \/ "repair" \in Ops /\ StartRepair(t, n, b)
        \/ "name" \in Ops /\ StartName(t, b)

SweepStep(s) == SweepList(s) \/ \E b \in Blob : SweepNext(s, b)

TaskStep(t) == PutStep(t) \/ GetStep(t) \/ DeleteStep(t) \/ RepairStep(t) \/ NameStep(t)

Environment ==
    \/ \E t \in Task : Fail(t)
    \/ \E a \in Anchor, b \in Blob, i \in Shard : Damage(a, b, i)
    \/ Tick

Next ==
    \/ \E t \in Client : StartRequest(t)
    \/ \E s \in Sweeper : SweepStep(s)
    \/ \E t \in Task : TaskStep(t)
    \/ Environment

Spec == Init /\ [][Next]_vars

-----------------------------------------------------------------------------
(* Properties. *)

Pc == {"idle", "putShard", "replicate", "putManifest", "getManifest", "load",
       "decode", "delCheck", "delList", "delShards", "delManifest",
       "repManifest", "classify", "backfill", "rewrite", "reReplicate",
       "nameGet", "namePut", "reply"}

TaskState ==
    [op : {"none", "put", "get", "delete", "repair", "name"}, pc : Pc,
     node : Node \cup {None}, blob : Blob \cup {None}, man : Manifest \cup {None},
     todo : SUBSET Shard, tried : SUBSET Node, col : [Shard -> Content],
     bad : SUBSET Shard, errs : SUBSET Shard, out : Content]

\* The state of the coordinator, the anchors and the tasks is well formed.
TypeOK ==
    /\ manifests \in [Blob -> Manifest \cup {None}]
    /\ store \in [Anchor -> [Blob -> [Shard -> Content]]]
    /\ task \in [Task -> TaskState]
    /\ queue \in [Sweeper -> SUBSET Blob]
    /\ now \in Nat
    /\ home \in [Blob -> Anchor \cup {None}]
    /\ born \in [Blob -> Nat \cup {None}]
    /\ damaged \subseteq Anchor \X Blob \X Shard
    /\ acked \subseteq Blob /\ erased \subseteq Blob /\ gone \subseteq Blob

\* Copy i of blob b on anchor a is intact unless it was itself hit by damage.
Kept(a, b, i) == store[a][b][i] = "ok" \/ <<a, b, i>> \in damaged

\* "The anchor always holds the full set": from the moment PutBackup publishes
\* a manifest until some delete_blob starts on the blob, every shard is on the
\* anchor it was put through, and on every peer the manifest records for it,
\* except the copies that were damaged there. No interleaving of puts, failed
\* puts, repairs, sweeps and renames loses or overwrites a copy.
ManifestIsTrue ==
    \A b \in Blob : manifests[b] # None /\ b \notin erased =>
        \A i \in Shard :
            /\ Kept(home[b], b, i)
            /\ \A p \in manifests[b].locs[i] : Kept(AnchorOf[p], b, i)

\* A blob whose PutBackup was acknowledged is listed until a delete starts on
\* it: no concurrent repair, rename or failed request makes it disappear.
AckedIsListed ==
    \A b \in acked : b \notin erased => manifests[b] # None

\* GetBackup and RepairShards never produce anything but the original bytes:
\* what a get answers and what a repair writes back comes from verified shards.
OriginalBytesOnly ==
    \A t \in Task :
        (task[t].pc = "reply" /\ task[t].op = "get") \/ task[t].pc = "rewrite"
            => task[t].out = "ok"

\* Restore is guaranteed from the anchor within the parity budget, whatever
\* peers do: a get through the blob's anchor that is about to decode has k
\* valid shards, unless a delete got at the blob or damage and read errors
\* together hit more than n - k of its shards.
RestorableWithinParity ==
    \A t \in Task : task[t].pc = "decode" =>
        LET b == task[t].blob
            hit == {i \in Shard : <<home[b], b, i>> \in damaged} \cup task[t].errs
        IN  \/ b \in erased
            \/ AnchorOf[task[t].node] # home[b]
            \/ Cardinality(hit) > N - K
            \/ Cardinality(Have(task[t])) >= K

\* A step removes a shard copy only by damage or once the hold, counted from
\* the blob's creation, has elapsed.
HoldStep ==
    \A a \in Anchor, b \in Blob, i \in Shard :
        store[a][b][i] # "none" /\ store'[a][b][i] = "none" =>
            \/ damaged' # damaged
            \/ HoldElapsed(MinHold, born[b], now)

\* min_days is a delete hold: DeleteBackup removes no shard copy before it has
\* elapsed. Renames, retries and clock ticks between the check and the removal
\* do not open a gap.
HoldRespected == [][HoldStep]_vars

\* A request that may still bring b back: a put of it under way, a rename or a
\* repair that has read its manifest.
MayRevive(t, b) ==
    task[t].blob = b /\ task[t].man # None /\ task[t].op \in {"put", "name", "repair"}

SettledStep ==
    \A b \in gone : manifests[b] = None /\ (\A t \in Task : ~MayRevive(t, b)) =>
        /\ manifests'[b] = None
        /\ \A t \in Task : ~MayRevive(t, b)'
        /\ \A a \in Anchor, i \in Shard :
            store'[a][b][i] # store[a][b][i] => store'[a][b][i] = "none" \/ damaged' # damaged

\* "List returns the opaque id; delete removes it", as far as it goes: after an
\* acknowledged delete a blob can be relisted, or its shards written again, only
\* by puts, renames and repairs that had its manifest before. Once these have
\* ended nothing brings the blob back: not the reads that were under way and the
\* repairs they start, not sweeps, renames, further deletes.
DeleteSettles == [][SettledStep]_vars

\* The shards of b that its own anchor holds intact.
Intact(b) == {i \in Shard : home[b] # None /\ store[home[b]][b][i] = "ok"}

\* The sweep heals: a listed blob with at least k intact shards on its anchor
\* gets its full set back, unless a delete starts or damage drops it below k.
SweepHeals ==
    \A b \in Blob :
        (manifests[b] # None /\ Cardinality(Intact(b)) >= K)
        ~> \/ Intact(b) = Shard
           \/ b \in erased
           \/ Cardinality(Intact(b)) < K

=============================================================================
