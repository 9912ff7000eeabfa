------------------------ MODULE BlobLifecycleProofs ------------------------
(***************************************************************************)
(* The safety properties of BlobLifecycle hold for every number of nodes,  *)
(* anchors, blobs, shards, requests and sweeps.                            *)
(*                                                                         *)
(* The inductive invariant says, for each task, what its local state       *)
(* knows about the shared state (TaskInv), and, for each blob, how its     *)
(* manifest, its copies and its history fit together (BlobInv).            *)
(*                                                                         *)
(* At the end SweepStatus: it implements BlobLifecycle, and its counts are *)
(* complete.                                                               *)
(***************************************************************************)
EXTENDS SweepStatus, FiniteSetTheorems, WellFoundedInduction, TLAPS

PutPc    == {"putShard", "replicate", "putManifest"}
GetPc    == {"getManifest", "load", "decode"}
DeletePc == {"delCheck", "delList", "delShards", "delManifest"}
RepairPc == {"repManifest", "classify", "backfill", "rewrite", "reReplicate"}
NamePc   == {"nameGet", "namePut"}
\* A task there holds the manifest it read.
SnapPc   == {"load", "decode", "classify", "backfill", "rewrite", "reReplicate", "namePut"}

\* The operation goes with the program point, and the blob and node are known.
ShapeInv(r) ==
    /\ r.pc # "idle" => r.blob \in Blob
    /\ r.pc \in PutPc \cup GetPc \cup DeletePc \cup RepairPc => r.node \in Node
    /\ r.pc = "reply" /\ r.op = "get" => r.node \in Node
    /\ r.pc \in PutPc => r.op = "put"
    /\ r.pc \in GetPc => r.op = "get"
    /\ r.pc \in DeletePc => r.op = "delete"
    /\ r.pc \in PutPc \cup SnapPc => r.man \in Manifest

\* A put in progress owns a blob nobody else knows of, and has stored every
\* shard it has passed and every replica it has recorded.
PutInv(r) ==
    /\ born[r.blob] = None
    /\ home[r.blob] = AnchorOf[r.node]
    /\ \A i \in Shard : i \notin r.todo => Kept(AnchorOf[r.node], r.blob, i)
    /\ r.pc = "replicate" =>
         \A i \in Shard : IsNext(i, r.todo) => Kept(AnchorOf[r.node], r.blob, i)
    /\ r.pc = "putManifest" => r.todo = {}
    /\ \A i \in Shard : \A p \in r.man.locs[i] : Kept(AnchorOf[p], r.blob, i)

\* A manifest that was read stays the manifest of its blob until a delete.
SnapInv(r) ==
    /\ born[r.blob] # None
    /\ r.man.created = born[r.blob]
    /\ r.blob \in erased \/ r.man = manifests[r.blob]

\* Only verified bytes are collected, decoded, answered and written back.
BytesInv(r) ==
    /\ r.pc \in GetPc \cup RepairPc => \A i \in Shard : r.col[i] # "bad"
    /\ r.pc \in {"rewrite", "reReplicate"} => r.out = "ok"
    /\ r.pc = "reply" /\ r.op = "get" => r.out = "ok"

\* A get through the blob's anchor has every shard it has passed, except the
\* ones damage or a read error hit.
LoadInv(r) ==
    /\ r.pc \in {"load", "decode"} =>
         \/ r.blob \in erased
         \/ AnchorOf[r.node] # home[r.blob]
         \/ \A i \in Shard : i \notin r.todo =>
              \/ r.col[i] # "none"
              \/ i \in r.errs
              \/ <<home[r.blob], r.blob, i>> \in damaged
    /\ r.pc = "decode" => r.todo = {}

\* A delete past its check may remove the blob, now and later.
DeleteInv(r) ==
    /\ r.pc \in DeletePc => born[r.blob] # None
    /\ r.pc \in DeletePc \ {"delCheck"} => HoldElapsed(MinHold, born[r.blob], now)
    /\ r.pc \in {"delShards", "delManifest"} => r.blob \in erased

AckInv(r) == r.pc = "reply" /\ r.op = "put" => born[r.blob] # None

TaskInv(r) ==
    /\ ShapeInv(r)
    /\ r.pc \in PutPc => PutInv(r)
    /\ r.pc \in SnapPc => SnapInv(r)
    /\ BytesInv(r)
    /\ LoadInv(r)
    /\ DeleteInv(r)
    /\ AckInv(r)

BlobInv(b) ==
    /\ born[b] = None => manifests[b] = None /\ b \notin erased /\ b \notin acked
    /\ born[b] # None => home[b] # None
    /\ born[b] # None /\ b \notin erased => manifests[b] # None
    /\ manifests[b] # None => manifests[b].created = born[b]
    /\ manifests[b] # None /\ b \notin erased =>
         \A i \in Shard :
            /\ Kept(home[b], b, i)
            /\ \A p \in manifests[b].locs[i] : Kept(AnchorOf[p], b, i)

OnePut ==
    \A t, u \in Task :
        task[t].pc \in PutPc /\ task[u].pc \in PutPc /\ task[t].blob = task[u].blob
            => t = u

IInv ==
    /\ TypeOK
    /\ \A t \in Task : TaskInv(task[t])
    /\ \A b \in Blob : BlobInv(b)
    /\ OnePut

-----------------------------------------------------------------------------
(* What every action but StartPut and PutManifest leaves alone: the history *)
(* of a blob, and, until a delete starts on it, its manifest and copies.    *)

StableFor(b) ==
    /\ home'[b] = home[b] /\ born'[b] = born[b]
    /\ b \in erased => b \in erased'
    /\ born[b] = None => b \notin erased' /\ manifests'[b] = None /\ b \notin acked'
    /\ b \notin erased' => manifests'[b] = manifests[b]
    /\ manifests'[b] # None => manifests'[b].created = born[b]
    /\ b \notin erased' => \A a \in Anchor, i \in Shard : Kept(a, b, i) => Kept(a, b, i)'
    /\ \A a \in Anchor, i \in Shard : <<a, b, i>> \in damaged => <<a, b, i>> \in damaged'

TimeMoves == now \in Nat /\ now' \in Nat /\ now <= now'

\* A hold that has elapsed stays elapsed as the clock advances.
LEMMA HoldStays ==
    ASSUME NEW c \in Nat, NEW m \in Nat, NEW n \in Nat, m <= n,
           HoldElapsed(MinHold, c, m)
    PROVE  HoldElapsed(MinHold, c, n)
  BY ParamsAssumption DEF HoldElapsed, SaturatingSub

\* A task that does not move keeps its invariant across a stable step.
LEMMA StableTask ==
    ASSUME TypeOK, TypeOK', TimeMoves, NEW r \in TaskState, TaskInv(r),
           r.pc # "idle" => StableFor(r.blob) /\ BlobInv(r.blob)
    PROVE  TaskInv(r)'
<1>1. CASE r.pc = "idle"
  BY <1>1 DEF TaskInv, ShapeInv, PutInv, SnapInv, BytesInv, LoadInv, DeleteInv, AckInv,
              PutPc, GetPc, DeletePc, RepairPc, SnapPc
<1>2. CASE r.pc # "idle"
  <2>1. r.blob \in Blob /\ StableFor(r.blob) /\ BlobInv(r.blob)
    BY <1>2 DEF TaskInv, ShapeInv
  <2>2. ShapeInv(r)'
    BY DEF TaskInv, ShapeInv
  <2>3. r.pc \in PutPc => PutInv(r)'
    <3>1. SUFFICES ASSUME r.pc \in PutPc PROVE PutInv(r)'
      OBVIOUS
    <3>2. /\ PutInv(r) /\ r.node \in Node /\ r.man \in Manifest
          /\ r.blob \notin erased'
      BY <2>1, <3>1 DEF TaskInv, ShapeInv, PutInv, StableFor
    <3>3. \A p \in Node : AnchorOf[p] \in Anchor
      BY TopologyAssumption
    <3>. QED
      BY <2>1, <3>2, <3>3 DEF PutInv, StableFor, Manifest, IsNext
  <2>4. r.pc \in SnapPc => SnapInv(r)'
    BY <2>1 DEF TaskInv, SnapInv, StableFor
  <2>5. BytesInv(r)'
    BY DEF TaskInv, BytesInv
  <2>6. LoadInv(r)'
    <3>1. SUFFICES ASSUME r.pc \in {"load", "decode"} PROVE LoadInv(r)'
      BY DEF LoadInv
    <3>2. born[r.blob] # None /\ home[r.blob] \in Anchor
      BY <2>1, <3>1 DEF TaskInv, SnapInv, SnapPc, BlobInv, TypeOK
    <3>. QED
      BY <2>1, <3>1, <3>2 DEF TaskInv, LoadInv, StableFor
  <2>7. DeleteInv(r)'
    <3>1. SUFFICES ASSUME r.pc \in DeletePc PROVE DeleteInv(r)'
      BY DEF DeleteInv, DeletePc
    <3>2. born[r.blob] \in Nat /\ born'[r.blob] = born[r.blob]
      BY <2>1, <3>1 DEF TaskInv, DeleteInv, StableFor, TypeOK
    <3>3. r.pc \in DeletePc \ {"delCheck"} => HoldElapsed(MinHold, born[r.blob], now')
      BY <3>2, HoldStays DEF TaskInv, DeleteInv, TimeMoves
    <3>. QED
      BY <2>1, <3>1, <3>2, <3>3 DEF TaskInv, DeleteInv, StableFor, HoldElapsed
  <2>8. AckInv(r)'
    BY <2>1 DEF TaskInv, AckInv, StableFor
  <2>. QED
    BY <2>2, <2>3, <2>4, <2>5, <2>6, <2>7, <2>8 DEF TaskInv
<1>. QED
  BY <1>1, <1>2

\* A blob keeps its invariant across a stable step.
LEMMA StableBlob ==
    ASSUME TypeOK, TypeOK', NEW b \in Blob, BlobInv(b), StableFor(b)
    PROVE  BlobInv(b)'
<1>1. /\ (born[b] = None => manifests[b] = None /\ b \notin erased /\ b \notin acked)'
      /\ (born[b] # None => home[b] # None)'
      /\ (born[b] # None /\ b \notin erased => manifests[b] # None)'
      /\ (manifests[b] # None => manifests[b].created = born[b])'
  BY DEF BlobInv, StableFor
<1>2. ASSUME manifests'[b] # None, b \notin erased', NEW i \in Shard
      PROVE  /\ Kept(home[b], b, i)'
             /\ \A p \in manifests'[b].locs[i] : Kept(AnchorOf[p], b, i)'
  <2>1. /\ manifests'[b] = manifests[b] /\ manifests[b] # None /\ b \notin erased
        /\ home'[b] = home[b] /\ born[b] # None
    BY <1>2 DEF StableFor, BlobInv
  <2>2. home[b] \in Anchor /\ manifests[b] \in Manifest
    BY <2>1 DEF BlobInv, TypeOK
  <2>3. \A p \in manifests[b].locs[i] : AnchorOf[p] \in Anchor
    BY <2>2, <1>2, TopologyAssumption DEF Manifest
  <2>. QED
    BY <1>2, <2>1, <2>2, <2>3 DEF BlobInv, StableFor, Kept
<1>. QED
  BY <1>1, <1>2 DEF BlobInv, Kept

\* One task moves, the shared state is stable.
LEMMA StableStep ==
    ASSUME IInv, TypeOK', TimeMoves, \A b \in Blob : StableFor(b),
           \A u \in Task : TaskInv(task'[u]),
           NEW t \in Task, \A u \in Task \ {t} : task'[u] = task[u],
           task'[t].pc \in PutPc => task[t].pc \in PutPc /\ task'[t].blob = task[t].blob
    PROVE  IInv'
<1>1. ASSUME NEW u \in Task PROVE TaskInv(task[u])'
  <2>1. PICK r \in TaskState : r = task'[u]
    BY DEF TypeOK
  <2>2. TaskInv(r)
    BY <2>1
  <2>3. r.pc # "idle" => r.blob \in Blob
    BY <2>2 DEF TaskInv, ShapeInv
  <2>4. TaskInv(r)'
    BY <2>2, <2>3, StableTask DEF IInv
  <2>. QED
    BY <2>1, <2>4 DEF TaskInv, ShapeInv, PutInv, SnapInv, BytesInv, LoadInv, DeleteInv, AckInv
<1>2. \A b \in Blob : BlobInv(b)'
  BY StableBlob DEF IInv
<1>3. OnePut'
  BY DEF IInv, OnePut
<1>. QED
  BY <1>1, <1>2, <1>3 DEF IInv

-----------------------------------------------------------------------------
(* Steps that only move a task. *)

\* An idle task is well formed and relies on nothing.
LEMMA IdleOK == Idle \in TaskState /\ TaskInv(Idle)
<1>1. Idle \in TaskState
  BY DEF Idle, TaskState, Pc, NoCopies, Content
<1>2. Idle.pc = "idle"
  BY DEF Idle
<1>. QED
  BY <1>1, <1>2 DEF TaskInv, ShapeInv, BytesInv, LoadInv, DeleteInv, AckInv,
                    PutPc, GetPc, DeletePc, RepairPc, SnapPc

\* A stable step with a known next state of its task.
LEMMA SharedStep ==
    ASSUME IInv, NEW t \in Task, NEW r \in TaskState, Become(t, r), TaskInv(r),
           r.pc \in PutPc => task[t].pc \in PutPc /\ r.blob = task[t].blob,
           manifests' \in [Blob -> Manifest \cup {None}],
           store' \in [Anchor -> [Blob -> [Shard -> Content]]],
           queue' \in [Sweeper -> SUBSET Blob],
           acked' \subseteq Blob, erased' \subseteq Blob, gone' \subseteq Blob,
           UNCHANGED <<now, home, born, damaged>>,
           \A b \in Blob : StableFor(b)
    PROVE  IInv'
<1>1. /\ task' \in [Task -> TaskState]
      /\ task'[t] = r
      /\ \A u \in Task \ {t} : task'[u] = task[u]
  BY DEF IInv, TypeOK, Become
<1>2. TypeOK'
  BY <1>1 DEF IInv, TypeOK
<1>3. TimeMoves
  BY DEF TimeMoves, IInv, TypeOK
<1>4. \A u \in Task : TaskInv(task'[u])
  BY <1>1 DEF IInv
<1>. QED
  BY <1>1, <1>2, <1>3, <1>4, StableStep

\* A step that changes only its own task's local state keeps the invariant.
LEMMA LocalStep ==
    ASSUME IInv, NEW t \in Task, NEW r \in TaskState, Become(t, r), TaskInv(r),
           r.pc \in PutPc => task[t].pc \in PutPc /\ r.blob = task[t].blob,
           UNCHANGED <<manifests, store, queue, now, history>>
    PROVE  IInv'
<1>1. /\ task' \in [Task -> TaskState]
      /\ task'[t] = r
      /\ \A u \in Task \ {t} : task'[u] = task[u]
  BY DEF IInv, TypeOK, Become
<1>2. TypeOK'
  BY <1>1 DEF IInv, TypeOK, history
<1>3. TimeMoves
  BY DEF TimeMoves, IInv, TypeOK
<1>4. ASSUME NEW b \in Blob PROVE StableFor(b)
  BY DEF IInv, BlobInv, StableFor, Kept, history
<1>5. \A u \in Task : TaskInv(task'[u])
  BY <1>1 DEF IInv
<1>. QED
  BY <1>1, <1>2, <1>3, <1>4, <1>5, StableStep

\* Ending a request (answer, NotFound, failure) keeps the invariant.
LEMMA FinishStep ==
    ASSUME IInv, NEW t \in Task, Finish(t),
           UNCHANGED <<manifests, store, queue, now, history>>
    PROVE  IInv'
<1>1. PICK r \in TaskState : r = Idle
  BY IdleOK
<1>2. Become(t, r) /\ TaskInv(r) /\ r.pc \notin PutPc
  BY <1>1, IdleOK DEF Finish, Idle, PutPc
<1>. QED
  BY <1>2, LocalStep

\* A request that has just arrived knows its blob and its node.
LEMMA StartStep ==
    ASSUME IInv, NEW t \in Task, NEW n \in Node \cup {None}, NEW b \in Blob,
           NEW op \in {"get", "delete", "repair", "name"},
           NEW pc \in {"getManifest", "repManifest", "nameGet", "delCheck", "delList"},
           Start(t, op, pc, n, b),
           pc = "nameGet" \/ n \in Node,
           pc = "getManifest" => op = "get",
           pc \in {"delCheck", "delList"} => op = "delete" /\ born[b] # None,
           pc = "delList" => MinHold = 0,
           queue' \in [Sweeper -> SUBSET Blob],
           UNCHANGED <<manifests, store, now, history>>
    PROVE  IInv'
<1>1. PICK r : r = [Idle EXCEPT !.op = op, !.pc = pc, !.node = n, !.blob = b]
  OBVIOUS
<1>2. r = [op |-> op, pc |-> pc, node |-> n, blob |-> b, man |-> None, todo |-> {},
           tried |-> {}, col |-> NoCopies, bad |-> {}, errs |-> {}, out |-> "none"]
  BY <1>1 DEF Idle
<1>3. r \in TaskState
  BY <1>2 DEF TaskState, Pc, NoCopies, Content
<1>4. TaskInv(r)
  BY <1>2 DEF TaskInv, ShapeInv, BytesInv, LoadInv, DeleteInv, AckInv, HoldElapsed,
              NoCopies, PutPc, GetPc, DeletePc, RepairPc, SnapPc
<1>5. r.pc \notin PutPc /\ Become(t, r)
  BY <1>1, <1>2 DEF PutPc, Start
<1>6. ASSUME NEW y \in Blob PROVE StableFor(y)
  BY DEF IInv, BlobInv, StableFor, Kept, history
<1>. QED
  BY <1>3, <1>4, <1>5, <1>6, SharedStep DEF IInv, TypeOK, history

\* GetBackup::restore reading the manifest keeps the invariant.
LEMMA GetManifestStep ==
    ASSUME IInv, NEW t \in Task, GetManifest(t) PROVE IInv'
<1>1. CASE manifests[task[t].blob] = None
  BY <1>1, FinishStep DEF GetManifest
<1>2. CASE manifests[task[t].blob] # None
  <2>0. /\ task[t] \in TaskState /\ task[t].pc = "getManifest" /\ TaskInv(task[t])
        /\ task[t].blob \in Blob /\ task[t].node \in Node
        /\ manifests[task[t].blob] \in Manifest /\ born[task[t].blob] # None
        /\ manifests[task[t].blob].created = born[task[t].blob]
    BY <1>2 DEF IInv, TypeOK, GetManifest, At, TaskInv, ShapeInv, GetPc, BlobInv
  <2>1. PICK r : r = [task[t] EXCEPT !.pc = "load", !.todo = Shard,
                                     !.man = manifests[task[t].blob]]
    OBVIOUS
  <2>2. r \in TaskState
    BY <2>0, <2>1 DEF TaskState, Pc
  <2>3. /\ r.pc = "load" /\ r.todo = Shard /\ r.man = manifests[r.blob]
        /\ r.blob = task[t].blob /\ r.node = task[t].node /\ r.op = task[t].op
        /\ r.col = task[t].col
    BY <2>0, <2>1 DEF TaskState
  <2>4. TaskInv(r)
    BY <2>0, <2>3 DEF TaskInv, ShapeInv, SnapInv, BytesInv, LoadInv, DeleteInv, AckInv,
                      PutPc, GetPc, DeletePc, RepairPc, SnapPc
  <2>5. Become(t, r) /\ r.pc \notin PutPc
    BY <1>2, <2>1, <2>3 DEF GetManifest, PutPc
  <2>. QED
    BY <2>2, <2>4, <2>5, LocalStep DEF GetManifest
<1>. QED
  BY <1>1, <1>2

\* The task invariant of the step's actor and the types of what it touches.
LEMMA ActorFacts ==
    ASSUME IInv, NEW t \in Task
    PROVE  /\ task[t] \in TaskState /\ TaskInv(task[t])
           /\ task[t].pc # "idle" => task[t].blob \in Blob
           /\ task[t].pc \in PutPc \cup GetPc \cup DeletePc \cup RepairPc => task[t].node \in Node
           /\ task[t].pc \in PutPc \cup SnapPc => task[t].man \in Manifest
           /\ task[t].todo \subseteq Shard
  BY DEF IInv, TypeOK, TaskInv, ShapeInv, TaskState

\* What a get knows of shard j once it has passed it.
Passed(q, j) ==
    \/ q.blob \in erased
    \/ AnchorOf[q.node] # home[q.blob]
    \/ q.col[j] # "none"
    \/ j \in q.errs
    \/ <<home[q.blob], q.blob, j>> \in damaged

\* The shard loop of GetBackup::restore advances soundly.
LEMMA LoadAdvanceOK ==
    ASSUME NEW q \in TaskState, NEW i \in Shard, q.pc = "load", q.op = "get",
           q.blob \in Blob, q.node \in Node, q.man \in Manifest, SnapInv(q),
           \A j \in Shard : q.col[j] # "bad",
           \A j \in Shard : j \notin q.todo \/ j = i => Passed(q, j),
           NEW r, r = LoadAdvance(q, i)
    PROVE  r \in TaskState /\ TaskInv(r) /\ r.pc \notin PutPc
<1>1. r = [q EXCEPT !.todo = q.todo \ {i}, !.tried = {},
                    !.pc = IF q.todo \ {i} = {} THEN "decode" ELSE "load"]
  BY DEF LoadAdvance
<1>2. r \in TaskState
  BY <1>1 DEF TaskState, Pc
<1>3. /\ r.pc = IF q.todo \ {i} = {} THEN "decode" ELSE "load"
      /\ r.todo = q.todo \ {i} /\ r.blob = q.blob /\ r.node = q.node /\ r.man = q.man
      /\ r.op = q.op /\ r.col = q.col /\ r.errs = q.errs
  BY <1>1 DEF TaskState
<1>4. \A j \in Shard : j \notin r.todo => Passed(q, j)
  BY <1>3
<1>5. LoadInv(r)
  BY <1>3, <1>4 DEF LoadInv, Passed
<1>. QED
  BY <1>2, <1>3, <1>5 DEF TaskInv, ShapeInv, SnapInv, BytesInv, DeleteInv, AckInv,
                          PutPc, GetPc, DeletePc, RepairPc, SnapPc

\* What a read knows while its shard loop runs.
LEMMA LoadFacts ==
    ASSUME IInv, NEW t \in Task, task[t].pc = "load"
    PROVE  /\ task[t] \in TaskState /\ task[t].op = "get"
           /\ task[t].blob \in Blob /\ task[t].node \in Node /\ task[t].man \in Manifest
           /\ SnapInv(task[t]) /\ \A j \in Shard : task[t].col[j] # "bad"
           /\ \A j \in Shard : j \notin task[t].todo => Passed(task[t], j)
  BY ActorFacts DEF TaskInv, ShapeInv, BytesInv, LoadInv, Passed, GetPc, SnapPc, PutPc

\* Shard i is collected, or counted as an erasure for a reason.
LEMMA CollectStep ==
    ASSUME IInv, NEW t \in Task, NEW i \in Shard, task[t].pc = "load", i \in task[t].todo,
           NEW c \in {"ok", "none"}, NEW q, q = [task[t] EXCEPT !.col[i] = c],
           \/ c = "ok"
           \/ task[t].blob \in erased
           \/ AnchorOf[task[t].node] # home[task[t].blob]
           \/ <<home[task[t].blob], task[t].blob, i>> \in damaged,
           NEW r, r = LoadAdvance(q, i), Become(t, r),
           UNCHANGED <<manifests, store, queue, now, history>>
    PROVE  IInv'
<1>1. q \in TaskState
  BY LoadFacts DEF TaskState, Content
<1>2. /\ q.pc = task[t].pc /\ q.op = task[t].op /\ q.blob = task[t].blob
      /\ q.node = task[t].node /\ q.man = task[t].man /\ q.todo = task[t].todo
      /\ q.errs = task[t].errs /\ q.col = [task[t].col EXCEPT ![i] = c]
  BY LoadFacts DEF TaskState
<1>3. q.col[i] = c /\ \A j \in Shard \ {i} : q.col[j] = task[t].col[j]
  BY <1>2, LoadFacts DEF TaskState
<1>4. \A j \in Shard : q.col[j] # "bad"
  BY <1>3, LoadFacts
<1>5. Passed(q, i) /\ \A j \in Shard : j \notin q.todo => Passed(q, j)
  BY <1>2, <1>3, LoadFacts DEF Passed
<1>6. SnapInv(q)
  BY <1>2, LoadFacts DEF SnapInv
<1>7. r \in TaskState /\ TaskInv(r) /\ r.pc \notin PutPc
  BY <1>1, <1>2, <1>4, <1>5, <1>6, LoadFacts, LoadAdvanceOK
<1>. QED
  BY <1>7, LocalStep

\* GetBackup::load_shard from a peer keeps the invariant.
LEMMA LoadFromPeerStep ==
    ASSUME IInv, NEW t \in Task, NEW i \in Shard, NEW p \in Node, LoadFromPeer(t, i, p)
    PROVE  IInv'
<1>0. task[t].pc = "load" /\ i \in task[t].todo
  BY DEF LoadFromPeer, At, IsNext
<1>1. CASE /\ HashOk(ReadPeer(t, p, i))
           /\ Become(t, LoadAdvance([task[t] EXCEPT !.col[i] = ReadPeer(t, p, i)], i))
  <2>1. PICK c : c = ReadPeer(t, p, i)
    OBVIOUS
  <2>2. PICK q : q = [task[t] EXCEPT !.col[i] = c]
    OBVIOUS
  <2>3. PICK r : r = LoadAdvance(q, i)
    OBVIOUS
  <2>4. c = "ok" /\ Become(t, r)
    BY <1>1, <2>1, <2>2, <2>3 DEF HashOk
  <2>. QED
    BY <1>0, <2>2, <2>3, <2>4, CollectStep DEF LoadFromPeer
<1>2. CASE Become(t, [task[t] EXCEPT !.tried = @ \cup {p}])
  <2>1. PICK r : r = [task[t] EXCEPT !.tried = @ \cup {p}]
    OBVIOUS
  <2>2. r \in TaskState
    BY <2>1, <1>0, LoadFacts DEF TaskState
  <2>3. /\ r.pc = task[t].pc /\ r.op = task[t].op /\ r.blob = task[t].blob
        /\ r.node = task[t].node /\ r.man = task[t].man /\ r.todo = task[t].todo
        /\ r.errs = task[t].errs /\ r.col = task[t].col
    BY <2>1, <1>0, LoadFacts DEF TaskState
  <2>4. TaskInv(r) /\ r.pc \notin PutPc
    BY <1>0, <2>3, ActorFacts DEF TaskInv, ShapeInv, SnapInv, BytesInv, LoadInv, DeleteInv, AckInv,
                      PutPc, GetPc, DeletePc, RepairPc, SnapPc
  <2>. QED
    BY <1>2, <2>1, <2>2, <2>4, LocalStep DEF LoadFromPeer
<1>. QED
  BY <1>1, <1>2 DEF LoadFromPeer

\* GetBackup::load_shard from the anchor keeps the invariant.
LEMMA LoadFromAnchorStep ==
    ASSUME IInv, NEW t \in Task, NEW i \in Shard, LoadFromAnchor(t, i)
    PROVE  IInv'
<1>0. task[t].pc = "load" /\ i \in task[t].todo
  BY DEF LoadFromAnchor, At, IsNext
<1>1. CASE Become(t, LoadAdvance([task[t] EXCEPT
                        !.col[i] = IF HashOk(ReadShard(t, i))
                                   THEN ReadShard(t, i) ELSE "none"], i))
  <2>1. PICK c : c = IF HashOk(ReadShard(t, i)) THEN ReadShard(t, i) ELSE "none"
    OBVIOUS
  <2>2. c \in {"ok", "none"}
    BY <2>1 DEF HashOk
  <2>3. ASSUME task[t].blob \notin erased, AnchorOf[task[t].node] = home[task[t].blob]
        PROVE  c = "ok" \/ <<home[task[t].blob], task[t].blob, i>> \in damaged
    <3>1. born[task[t].blob] # None /\ task[t].blob \in Blob
      BY <1>0, LoadFacts DEF SnapInv
    <3>2. Kept(home[task[t].blob], task[t].blob, i)
      BY <2>3, <3>1 DEF IInv, BlobInv
    <3>. QED
      BY <2>1, <2>3, <3>2 DEF Kept, ReadShard, HashOk
  <2>4. PICK q : q = [task[t] EXCEPT !.col[i] = c]
    OBVIOUS
  <2>5. PICK r : r = LoadAdvance(q, i)
    OBVIOUS
  <2>6. Become(t, r)
    BY <1>1, <2>1, <2>4, <2>5
  <2>. QED
    BY <1>0, <2>2, <2>3, <2>4, <2>5, <2>6, CollectStep DEF LoadFromAnchor
<1>2. CASE Become(t, LoadAdvance([task[t] EXCEPT !.errs = @ \cup {i}], i))
  <2>1. PICK q : q = [task[t] EXCEPT !.errs = @ \cup {i}]
    OBVIOUS
  <2>2. q \in TaskState
    BY <2>1, <1>0, LoadFacts DEF TaskState
  <2>3. /\ q.pc = task[t].pc /\ q.op = task[t].op /\ q.blob = task[t].blob
        /\ q.node = task[t].node /\ q.man = task[t].man /\ q.todo = task[t].todo
        /\ q.errs = task[t].errs \cup {i} /\ q.col = task[t].col
    BY <2>1, <1>0, LoadFacts DEF TaskState
  <2>4. PICK r : r = LoadAdvance(q, i)
    OBVIOUS
  <2>5. r \in TaskState /\ TaskInv(r) /\ r.pc \notin PutPc
    BY <1>0, <2>2, <2>3, <2>4, LoadFacts, LoadAdvanceOK DEF SnapInv, Passed
  <2>. QED
    BY <1>2, <2>1, <2>4, <2>5, LocalStep DEF LoadFromAnchor
<1>. QED
  BY <1>1, <1>2 DEF LoadFromAnchor

\* Verified bytes decode to the original.
LEMMA DecodeOK ==
    ASSUME NEW col, \A i \in Shard : col[i] # "bad" PROVE Decode(col) = "ok"
  BY DEF Decode

\* Decoding in GetBackup::restore keeps the invariant.
LEMMA GetDecodeStep ==
    ASSUME IInv, NEW t \in Task, GetDecode(t) PROVE IInv'
<1>0. task[t].pc = "decode" /\ task[t].op = "get" /\ Decode(task[t].col) = "ok"
  BY ActorFacts, DecodeOK DEF GetDecode, At, TaskInv, ShapeInv, BytesInv, GetPc
<1>1. CASE IsReconstructable(Cardinality(Have(task[t])), K)
  <2>1. PICK r : r = [task[t] EXCEPT !.pc = "reply", !.out = "ok"]
    OBVIOUS
  <2>2. r \in TaskState
    <3>1. "ok" \in Content /\ "reply" \in Pc
      BY DEF Content, Pc
    <3>. QED
      BY <2>1, <3>1, ActorFacts DEF TaskState
  <2>3. /\ r.pc = "reply" /\ r.op = "get" /\ r.out = "ok"
        /\ r.blob = task[t].blob /\ r.node = task[t].node
    BY <1>0, <2>1, ActorFacts DEF TaskState
  <2>4. TaskInv(r) /\ r.pc \notin PutPc
    BY <1>0, <2>3, ActorFacts DEF TaskInv, ShapeInv, BytesInv, LoadInv, DeleteInv, AckInv,
                                  PutPc, GetPc, DeletePc, RepairPc, SnapPc
  <2>. QED
    BY <1>0, <1>1, <2>1, <2>2, <2>4, LocalStep DEF GetDecode
<1>2. CASE ~IsReconstructable(Cardinality(Have(task[t])), K)
  BY <1>2, FinishStep DEF GetDecode
<1>. QED
  BY <1>1, <1>2

\* The answer of the get_backup route, and the repair it spawns, keep the invariant.
LEMMA GetReplyStep ==
    ASSUME IInv, NEW t \in Task, GetReply(t) PROVE IInv'
<1>0. task[t].pc = "reply" /\ task[t].op = "get"
  BY DEF GetReply, At
<1>1. CASE Have(task[t]) = Shard
  BY <1>1, FinishStep DEF GetReply
<1>2. CASE Have(task[t]) # Shard
  <2>1. PICK r : r = [Idle EXCEPT !.op = "repair", !.pc = "repManifest",
                                  !.node = task[t].node, !.blob = task[t].blob]
    OBVIOUS
  <2>2. r = [op |-> "repair", pc |-> "repManifest", node |-> task[t].node,
             blob |-> task[t].blob, man |-> None, todo |-> {}, tried |-> {},
             col |-> NoCopies, bad |-> {}, errs |-> {}, out |-> "none"]
    BY <2>1 DEF Idle
  <2>3. task[t].blob \in Blob /\ task[t].node \in Node
    BY <1>0, ActorFacts DEF TaskInv, ShapeInv
  <2>4. r \in TaskState
    BY <2>2, <2>3 DEF TaskState, Pc, NoCopies, Content
  <2>5. TaskInv(r) /\ r.pc \notin PutPc
    BY <2>2, <2>3 DEF TaskInv, ShapeInv, BytesInv, LoadInv, DeleteInv, AckInv, NoCopies,
                      PutPc, GetPc, DeletePc, RepairPc, SnapPc
  <2>. QED
    BY <1>2, <2>1, <2>4, <2>5, LocalStep DEF GetReply
<1>. QED
  BY <1>1, <1>2

\* The retention check of DeleteBackup keeps the invariant.
LEMMA DelCheckStep ==
    ASSUME IInv, NEW t \in Task, DelCheck(t) PROVE IInv'
<1>0. task[t].pc = "delCheck" /\ task[t].blob \in Blob /\ born[task[t].blob] # None
  BY ActorFacts DEF DelCheck, At, TaskInv, DeleteInv, DeletePc
<1>1. CASE /\ manifests[task[t].blob] # None
           /\ HoldElapsed(MinHold, manifests[task[t].blob].created, now)
  <2>1. PICK r : r = [task[t] EXCEPT !.pc = "delList"]
    OBVIOUS
  <2>2. r \in TaskState
    BY <2>1, ActorFacts DEF TaskState, Pc
  <2>3. r.pc = "delList" /\ r.blob = task[t].blob /\ r.node = task[t].node /\ r.op = task[t].op
    BY <2>1, ActorFacts DEF TaskState
  <2>4. HoldElapsed(MinHold, born[task[t].blob], now)
    BY <1>0, <1>1 DEF IInv, BlobInv
  <2>5. TaskInv(r) /\ r.pc \notin PutPc
    BY <1>0, <2>3, <2>4, ActorFacts DEF TaskInv, ShapeInv, BytesInv, LoadInv, DeleteInv, AckInv,
                                  PutPc, GetPc, DeletePc, RepairPc, SnapPc
  <2>. QED
    BY <1>1, <2>1, <2>2, <2>5, LocalStep DEF DelCheck
<1>2. CASE ~ (/\ manifests[task[t].blob] # None
              /\ HoldElapsed(MinHold, manifests[task[t].blob].created, now))
  BY <1>2, FinishStep DEF DelCheck
<1>. QED
  BY <1>1, <1>2

\* What a repair that holds a manifest knows, apart from its program point.
RepairOK(q) ==
    /\ q \in TaskState /\ q.blob \in Blob /\ q.node \in Node /\ q.man \in Manifest
    /\ SnapInv(q)
    /\ \A i \in Shard : q.col[i] # "bad"

\* A sound repair satisfies the task invariant.
LEMMA RepairOKInv ==
    ASSUME NEW q, RepairOK(q), q.pc \in {"classify", "backfill", "rewrite", "reReplicate"},
           q.pc \in {"rewrite", "reReplicate"} => q.out = "ok"
    PROVE  TaskInv(q) /\ q.pc \notin PutPc
  BY DEF RepairOK, TaskInv, ShapeInv, BytesInv, LoadInv, DeleteInv, AckInv,
         PutPc, GetPc, DeletePc, RepairPc, SnapPc

\* What the task invariant says of a repair in progress.
LEMMA RepairFacts ==
    ASSUME IInv, NEW t \in Task,
           task[t].pc \in {"classify", "backfill", "rewrite", "reReplicate"}
    PROVE  RepairOK(task[t])
  BY ActorFacts DEF RepairOK, TaskInv, BytesInv, RepairPc, SnapPc

\* A repair stays RepairOK when only its loop state changes.
LEMMA RepairKeeps ==
    ASSUME NEW q, RepairOK(q), NEW r \in TaskState,
           r.blob = q.blob, r.node = q.node, r.man = q.man, r.col = q.col
    PROVE  RepairOK(r)
  BY DEF RepairOK, SnapInv

\* A repair with k verified shards rewrites the original bytes.
LEMMA ToRewriteOK ==
    ASSUME NEW q, RepairOK(q), NEW r, r = ToRewrite(q)
    PROVE  r \in TaskState /\ TaskInv(r) /\ r.pc \notin PutPc
<1>1. Decode(q.col) = "ok"
  BY DecodeOK DEF RepairOK
<1>2. r \in TaskState
  BY <1>1 DEF ToRewrite, RepairOK, TaskState, Pc, Content
<1>3. /\ r.pc = "rewrite" /\ r.out = "ok" /\ r.blob = q.blob /\ r.node = q.node
      /\ r.man = q.man /\ r.col = q.col
  BY <1>1 DEF ToRewrite, RepairOK, TaskState
<1>. QED
  BY <1>2, <1>3, RepairKeeps, RepairOKInv

\* RepairShards reading the manifest keeps the invariant.
LEMMA RepManifestStep ==
    ASSUME IInv, NEW t \in Task, RepManifest(t) PROVE IInv'
<1>1. CASE manifests[task[t].blob] = None
  BY <1>1, FinishStep DEF RepManifest
<1>2. CASE manifests[task[t].blob] # None
  <2>0. /\ task[t] \in TaskState /\ task[t].pc = "repManifest" /\ TaskInv(task[t])
        /\ task[t].blob \in Blob /\ task[t].node \in Node
        /\ manifests[task[t].blob] \in Manifest /\ born[task[t].blob] # None
        /\ manifests[task[t].blob].created = born[task[t].blob]
    BY <1>2 DEF IInv, TypeOK, RepManifest, At, TaskInv, ShapeInv, RepairPc, BlobInv
  <2>1. PICK r : r = [task[t] EXCEPT !.pc = "classify", !.todo = Shard,
                                     !.man = manifests[task[t].blob]]
    OBVIOUS
  <2>2. r \in TaskState
    BY <2>0, <2>1 DEF TaskState, Pc
  <2>3. /\ r.pc = "classify" /\ r.man = manifests[r.blob]
        /\ r.blob = task[t].blob /\ r.node = task[t].node /\ r.col = task[t].col
    BY <2>0, <2>1 DEF TaskState
  <2>4. RepairOK(r)
    BY <2>0, <2>2, <2>3 DEF RepairOK, SnapInv, TaskInv, BytesInv, RepairPc
  <2>. QED
    BY <1>2, <2>1, <2>2, <2>3, <2>4, RepairOKInv, LocalStep DEF RepManifest
<1>. QED
  BY <1>1, <1>2

\* The classification loop of RepairShards advances soundly.
LEMMA ClassifyAdvanceOK ==
    ASSUME NEW q, RepairOK(q), q.pc = "classify", NEW i \in Shard,
           NEW r, r = ClassifyAdvance(q, i)
    PROVE  r \in TaskState /\ TaskInv(r) /\ r.pc \notin PutPc
<1>1. CASE q.todo \ {i} # {}
  <2>1. r = [q EXCEPT !.todo = q.todo \ {i}]
    BY <1>1 DEF ClassifyAdvance
  <2>2. r \in TaskState
    BY <2>1 DEF RepairOK, TaskState
  <2>3. r.pc = q.pc /\ r.blob = q.blob /\ r.node = q.node /\ r.man = q.man /\ r.col = q.col
    BY <2>1 DEF RepairOK, TaskState
  <2>. QED
    BY <2>2, <2>3, RepairKeeps, RepairOKInv
<1>2. CASE q.todo \ {i} = {} /\ q.bad = {}
  BY <1>2, IdleOK DEF ClassifyAdvance, Idle, PutPc
<1>3. CASE q.todo \ {i} = {} /\ q.bad # {} /\ IsReconstructable(Cardinality(Have(q)), K)
  BY <1>3, ToRewriteOK DEF ClassifyAdvance
<1>4. CASE q.todo \ {i} = {} /\ q.bad # {} /\ ~IsReconstructable(Cardinality(Have(q)), K)
  <2>1. r = [q EXCEPT !.pc = "backfill", !.todo = q.bad, !.tried = {}]
    BY <1>4 DEF ClassifyAdvance
  <2>2. r \in TaskState
    BY <2>1 DEF RepairOK, TaskState, Pc
  <2>3. r.pc = "backfill" /\ r.blob = q.blob /\ r.node = q.node /\ r.man = q.man /\ r.col = q.col
    BY <2>1 DEF RepairOK, TaskState
  <2>. QED
    BY <2>2, <2>3, RepairKeeps, RepairOKInv
<1>. QED
  BY <1>1, <1>2, <1>3, <1>4

\* Collecting a verified copy of shard i keeps a repair sound.
LEMMA RepairCollects ==
    ASSUME NEW q, RepairOK(q), NEW i \in Shard, NEW r, r = [q EXCEPT !.col[i] = "ok"]
    PROVE  RepairOK(r) /\ r.pc = q.pc
<1>1. r \in TaskState
  BY DEF RepairOK, TaskState, Content
<1>2. /\ r.pc = q.pc /\ r.blob = q.blob /\ r.node = q.node /\ r.man = q.man
      /\ r.col = [q.col EXCEPT ![i] = "ok"]
  BY DEF RepairOK, TaskState
<1>3. \A j \in Shard : r.col[j] # "bad"
  BY <1>2 DEF RepairOK, TaskState
<1>. QED
  BY <1>1, <1>2, <1>3 DEF RepairOK, SnapInv

\* Classifying one shard keeps the invariant.
LEMMA ClassifyStep ==
    ASSUME IInv, NEW t \in Task, NEW i \in Shard, Classify(t, i) PROVE IInv'
<1>0. task[t].pc = "classify" /\ RepairOK(task[t])
  BY RepairFacts DEF Classify, At
<1>1. PICK q : /\ \/ HashOk(ReadShard(t, i)) /\ q = [task[t] EXCEPT !.col[i] = ReadShard(t, i)]
                  \/ q = [task[t] EXCEPT !.bad = @ \cup {i}]
               /\ Become(t, ClassifyAdvance(q, i))
  BY DEF Classify
<1>2. RepairOK(q) /\ q.pc = "classify"
  <2>1. CASE HashOk(ReadShard(t, i)) /\ q = [task[t] EXCEPT !.col[i] = ReadShard(t, i)]
    BY <1>0, <2>1, RepairCollects DEF HashOk
  <2>2. CASE q = [task[t] EXCEPT !.bad = @ \cup {i}]
    <3>1. q \in TaskState
      BY <1>0, <2>2 DEF RepairOK, TaskState
    <3>2. /\ q.pc = task[t].pc /\ q.blob = task[t].blob /\ q.node = task[t].node
          /\ q.man = task[t].man /\ q.col = task[t].col
      BY <1>0, <2>2 DEF RepairOK, TaskState
    <3>. QED
      BY <1>0, <3>1, <3>2, RepairKeeps
  <2>. QED
    BY <1>1, <2>1, <2>2
<1>3. PICK r : r = ClassifyAdvance(q, i)
  OBVIOUS
<1>4. r \in TaskState /\ TaskInv(r) /\ r.pc \notin PutPc
  BY <1>2, <1>3, ClassifyAdvanceOK
<1>. QED
  BY <1>1, <1>3, <1>4, LocalStep DEF Classify

\* The backfill loop of RepairShards advances soundly.
LEMMA BackfillAdvanceOK ==
    ASSUME NEW q, RepairOK(q), q.pc = "backfill", NEW r, r = BackfillAdvance(q)
    PROVE  r \in TaskState /\ TaskInv(r) /\ r.pc \notin PutPc
<1>1. CASE IsReconstructable(Cardinality(Have(q)), K)
  BY <1>1, ToRewriteOK DEF BackfillAdvance
<1>2. CASE ~IsReconstructable(Cardinality(Have(q)), K) /\ q.todo = {}
  BY <1>2, IdleOK DEF BackfillAdvance, Idle, PutPc
<1>3. CASE ~IsReconstructable(Cardinality(Have(q)), K) /\ q.todo # {}
  BY <1>3, RepairOKInv DEF BackfillAdvance, RepairOK
<1>. QED
  BY <1>1, <1>2, <1>3

\* RepairShards::backfill_from_peers keeps the invariant.
LEMMA BackfillStep ==
    ASSUME IInv, NEW t \in Task, NEW i \in Shard, Backfill(t, i) PROVE IInv'
<1>0. task[t].pc = "backfill" /\ RepairOK(task[t])
  BY RepairFacts DEF Backfill, At
<1>1. PICK next : next = [task[t] EXCEPT !.todo = @ \ {i}, !.tried = {}]
  OBVIOUS
<1>2. RepairOK(next) /\ next.pc = "backfill"
  <2>1. next \in TaskState
    BY <1>0, <1>1 DEF RepairOK, TaskState
  <2>2. /\ next.pc = task[t].pc /\ next.blob = task[t].blob /\ next.node = task[t].node
        /\ next.man = task[t].man /\ next.col = task[t].col
    BY <1>0, <1>1 DEF RepairOK, TaskState
  <2>. QED
    BY <1>0, <2>1, <2>2, RepairKeeps
<1>3. CASE Become(t, BackfillAdvance(next))
  <2>1. PICK r : r = BackfillAdvance(next)
    OBVIOUS
  <2>. QED
    BY <1>2, <1>3, <2>1, BackfillAdvanceOK, LocalStep DEF Backfill
<1>4. CASE \E p \in task[t].man.locs[i] \ task[t].tried :
             /\ HashOk(ReadPeer(t, p, i))
             /\ Become(t, BackfillAdvance([next EXCEPT !.col[i] = ReadPeer(t, p, i)]))
  <2>1. PICK q : q = [next EXCEPT !.col[i] = "ok"]
    OBVIOUS
  <2>2. RepairOK(q) /\ q.pc = "backfill"
    BY <1>2, <2>1, RepairCollects
  <2>3. PICK r : r = BackfillAdvance(q)
    OBVIOUS
  <2>4. Become(t, r)
    BY <1>4, <2>1, <2>3 DEF HashOk
  <2>. QED
    BY <2>2, <2>3, <2>4, BackfillAdvanceOK, LocalStep DEF Backfill
<1>5. CASE \E p \in task[t].man.locs[i] \ task[t].tried :
             Become(t, [task[t] EXCEPT !.tried = @ \cup {p}])
  <2>1. PICK p \in task[t].man.locs[i] : Become(t, [task[t] EXCEPT !.tried = @ \cup {p}])
    BY <1>5
  <2>2. p \in Node
    BY <1>0 DEF RepairOK, Manifest
  <2>3. PICK r : r = [task[t] EXCEPT !.tried = @ \cup {p}]
    OBVIOUS
  <2>4. r \in TaskState
    BY <1>0, <2>2, <2>3 DEF RepairOK, TaskState
  <2>5. /\ r.pc = task[t].pc /\ r.blob = task[t].blob /\ r.node = task[t].node
        /\ r.man = task[t].man /\ r.col = task[t].col
    BY <1>0, <2>3 DEF RepairOK, TaskState
  <2>6. TaskInv(r) /\ r.pc \notin PutPc
    BY <1>0, <2>4, <2>5, RepairKeeps, RepairOKInv
  <2>. QED
    BY <2>1, <2>3, <2>4, <2>6, LocalStep DEF Backfill
<1>. QED
  BY <1>1, <1>3, <1>4, <1>5 DEF Backfill

\* set_manifest_name reading the manifest keeps the invariant.
LEMMA NameGetStep ==
    ASSUME IInv, NEW t \in Task, NameGet(t) PROVE IInv'
<1>1. CASE manifests[task[t].blob] = None
  BY <1>1, FinishStep DEF NameGet
<1>2. CASE manifests[task[t].blob] # None
  <2>0. /\ task[t] \in TaskState /\ task[t].pc = "nameGet" /\ task[t].blob \in Blob
        /\ manifests[task[t].blob] \in Manifest /\ born[task[t].blob] # None
        /\ manifests[task[t].blob].created = born[task[t].blob]
    BY <1>2, ActorFacts DEF IInv, TypeOK, NameGet, At, BlobInv
  <2>1. PICK r : r = [task[t] EXCEPT !.pc = "namePut", !.man = manifests[task[t].blob]]
    OBVIOUS
  <2>2. r \in TaskState
    BY <2>0, <2>1 DEF TaskState, Pc
  <2>3. r.pc = "namePut" /\ r.man = manifests[r.blob] /\ r.blob = task[t].blob
    BY <2>0, <2>1 DEF TaskState
  <2>4. TaskInv(r) /\ r.pc \notin PutPc
    BY <2>0, <2>3 DEF TaskInv, ShapeInv, SnapInv, BytesInv, LoadInv, DeleteInv, AckInv,
                      PutPc, GetPc, DeletePc, RepairPc, SnapPc
  <2>. QED
    BY <1>2, <2>1, <2>2, <2>4, LocalStep DEF NameGet
<1>. QED
  BY <1>1, <1>2

-----------------------------------------------------------------------------
(* Steps that write shared state. *)

\* A shard write keeps the stores well formed.
LEMMA WriteType ==
    ASSUME TypeOK, NEW a \in Anchor, NEW b \in Blob, NEW i \in Shard, NEW c \in Content,
           WriteShard(a, b, i, c)
    PROVE  store' \in [Anchor -> [Blob -> [Shard -> Content]]]
  BY DEF TypeOK, WriteShard

\* Writing the right bytes keeps every copy.
LEMMA WriteOk ==
    ASSUME TypeOK, NEW a \in Anchor, NEW b \in Blob, NEW i \in Shard,
           WriteShard(a, b, i, "ok"), damaged' = damaged
    PROVE  /\ \A x \in Anchor, y \in Blob, j \in Shard : Kept(x, y, j) => Kept(x, y, j)'
           /\ Kept(a, b, i)'
  BY DEF TypeOK, WriteShard, Kept

\* A step that writes right bytes and changes no manifest and no history is stable.
LEMMA WriteStable ==
    ASSUME IInv, NEW a \in Anchor, NEW b \in Blob, NEW i \in Shard,
           WriteShard(a, b, i, "ok") \/ UNCHANGED store,
           UNCHANGED <<manifests, history>>
    PROVE  \A y \in Blob : StableFor(y)
<1>1. \A x \in Anchor, y \in Blob, j \in Shard : Kept(x, y, j) => Kept(x, y, j)'
  <2>1. CASE WriteShard(a, b, i, "ok")
    BY <2>1, WriteOk DEF IInv, history
  <2>2. CASE UNCHANGED store
    BY <2>2 DEF history, Kept
  <2>. QED
    BY <2>1, <2>2
<1>. QED
  BY <1>1 DEF StableFor, IInv, BlobInv, history

\* The rewrite loop of RepairShards advances soundly.
LEMMA RewriteAdvanceOK ==
    ASSUME NEW q, RepairOK(q), q.pc \in {"rewrite", "reReplicate"}, q.out = "ok",
           NEW i \in Shard, NEW r, r = RewriteAdvance(q, i)
    PROVE  r \in TaskState /\ TaskInv(r) /\ r.pc \notin PutPc
<1>1. CASE q.man.locs[i] \ q.tried # {}
  <2>1. r = [q EXCEPT !.pc = "reReplicate"]
    BY <1>1 DEF RewriteAdvance
  <2>2. r \in TaskState
    BY <2>1 DEF RepairOK, TaskState, Pc
  <2>3. /\ r.pc = "reReplicate" /\ r.out = q.out /\ r.blob = q.blob /\ r.node = q.node
        /\ r.man = q.man /\ r.col = q.col
    BY <2>1 DEF RepairOK, TaskState
  <2>. QED
    BY <2>2, <2>3, RepairKeeps, RepairOKInv
<1>2. CASE q.man.locs[i] \ q.tried = {} /\ q.todo = {i}
  BY <1>2, IdleOK DEF RewriteAdvance, Idle, PutPc
<1>3. CASE q.man.locs[i] \ q.tried = {} /\ q.todo # {i}
  <2>1. r = [q EXCEPT !.pc = "rewrite", !.todo = q.todo \ {i}, !.tried = {}]
    BY <1>3 DEF RewriteAdvance
  <2>2. r \in TaskState
    BY <2>1 DEF RepairOK, TaskState, Pc
  <2>3. /\ r.pc = "rewrite" /\ r.out = q.out /\ r.blob = q.blob /\ r.node = q.node
        /\ r.man = q.man /\ r.col = q.col
    BY <2>1 DEF RepairOK, TaskState
  <2>. QED
    BY <2>2, <2>3, RepairKeeps, RepairOKInv
<1>. QED
  BY <1>1, <1>2, <1>3

\* RepairShards writing a shard back to the anchor keeps the invariant.
LEMMA RewriteStep ==
    ASSUME IInv, NEW t \in Task, NEW i \in Shard, Rewrite(t, i) PROVE IInv'
<1>0. task[t].pc = "rewrite" /\ RepairOK(task[t]) /\ task[t].out = "ok"
  BY RepairFacts, ActorFacts DEF Rewrite, At, TaskInv, BytesInv
<1>1. AnchorOf[task[t].node] \in Anchor /\ task[t].blob \in Blob
  BY <1>0, TopologyAssumption DEF RepairOK
<1>2. PICK a \in Anchor, b \in Blob : a = AnchorOf[task[t].node] /\ b = task[t].blob
  BY <1>1
<1>3. WriteShard(a, b, i, "ok")
  BY <1>0, <1>2 DEF Rewrite
<1>4. \A y \in Blob : StableFor(y)
  BY <1>3, WriteStable DEF Rewrite
<1>5. store' \in [Anchor -> [Blob -> [Shard -> Content]]]
  BY <1>3, WriteType DEF IInv, Content
<1>6. PICK r : r = RewriteAdvance(task[t], i)
  OBVIOUS
<1>7. r \in TaskState /\ TaskInv(r) /\ r.pc \notin PutPc
  BY <1>0, <1>6, RewriteAdvanceOK
<1>. QED
  BY <1>4, <1>5, <1>6, <1>7, SharedStep DEF Rewrite, history, IInv, TypeOK

\* RepairShards::re_replicate keeps the invariant.
LEMMA ReReplicateStep ==
    ASSUME IInv, NEW t \in Task, NEW i \in Shard, NEW p \in Node, ReReplicate(t, i, p)
    PROVE  IInv'
<1>0. task[t].pc = "reReplicate" /\ RepairOK(task[t]) /\ task[t].out = "ok"
  BY RepairFacts, ActorFacts DEF ReReplicate, At, TaskInv, BytesInv
<1>1. AnchorOf[p] \in Anchor /\ task[t].blob \in Blob
  BY <1>0, TopologyAssumption DEF RepairOK
<1>2. PICK a \in Anchor, b \in Blob : a = AnchorOf[p] /\ b = task[t].blob
  BY <1>1
<1>3. WriteShard(a, b, i, "ok") \/ UNCHANGED store
  BY <1>0, <1>2 DEF ReReplicate
<1>4. \A y \in Blob : StableFor(y)
  BY <1>3, WriteStable DEF ReReplicate
<1>5. store' \in [Anchor -> [Blob -> [Shard -> Content]]]
  BY <1>3, WriteType DEF IInv, Content, TypeOK
<1>6. PICK q : q = [task[t] EXCEPT !.tried = @ \cup {p}]
  OBVIOUS
<1>7. RepairOK(q) /\ q.pc = "reReplicate" /\ q.out = "ok"
  <2>1. q \in TaskState
    BY <1>0, <1>6 DEF RepairOK, TaskState
  <2>2. /\ q.pc = task[t].pc /\ q.blob = task[t].blob /\ q.node = task[t].node
        /\ q.man = task[t].man /\ q.col = task[t].col /\ q.out = task[t].out
    BY <1>0, <1>6 DEF RepairOK, TaskState
  <2>. QED
    BY <1>0, <2>1, <2>2, RepairKeeps
<1>8. PICK r : r = RewriteAdvance(q, i)
  OBVIOUS
<1>9. r \in TaskState /\ TaskInv(r) /\ r.pc \notin PutPc
  BY <1>7, <1>8, RewriteAdvanceOK
<1>. QED
  BY <1>4, <1>5, <1>6, <1>8, <1>9, SharedStep DEF ReReplicate, history, IInv, TypeOK

\* As StableStep, when the new state of the actor relies on what it just wrote.
LEMMA ActorStep ==
    ASSUME IInv, TypeOK', TimeMoves, \A b \in Blob : StableFor(b),
           NEW t \in Task, \A u \in Task \ {t} : task'[u] = task[u],
           TaskInv(task[t])',
           task'[t].pc \in PutPc => task[t].pc \in PutPc /\ task'[t].blob = task[t].blob
    PROVE  IInv'
<1>1. ASSUME NEW u \in Task \ {t} PROVE TaskInv(task[u])'
  <2>1. PICK r \in TaskState : r = task[u]
    BY DEF IInv, TypeOK
  <2>2. TaskInv(r) /\ (r.pc # "idle" => r.blob \in Blob)
    BY <2>1, ActorFacts DEF IInv
  <2>3. TaskInv(r)'
    BY <2>2, StableTask DEF IInv
  <2>. QED
    BY <2>1, <2>3 DEF TaskInv, ShapeInv, PutInv, SnapInv, BytesInv, LoadInv, DeleteInv, AckInv
<1>2. \A b \in Blob : BlobInv(b)'
  BY StableBlob DEF IInv
<1>3. OnePut'
  BY DEF IInv, OnePut
<1>. QED
  BY <1>1, <1>2, <1>3 DEF IInv

\* What a put in progress knows, apart from its program point.
PutOK(q) ==
    /\ q \in TaskState /\ q.op = "put"
    /\ q.blob \in Blob /\ q.node \in Node /\ q.man \in Manifest
    /\ born[q.blob] = None /\ home[q.blob] = AnchorOf[q.node]
    /\ \A j \in Shard : j \notin q.todo => Kept(AnchorOf[q.node], q.blob, j)
    /\ \A j \in Shard : \A p \in q.man.locs[j] : Kept(AnchorOf[p], q.blob, j)

\* What the task invariant says of a put in its shard loop.
LEMMA PutFacts ==
    ASSUME IInv, NEW t \in Task, task[t].pc \in PutPc
    PROVE  PutOK(task[t]) /\ AnchorOf[task[t].node] \in Anchor
<1>1. task[t].pc # "idle"
  BY DEF PutPc
<1>2. PICK q : q = task[t]
  OBVIOUS
<1>3. /\ q \in TaskState /\ TaskInv(q) /\ q.pc \in PutPc
      /\ q.blob \in Blob /\ q.node \in Node /\ q.man \in Manifest
  BY <1>1, <1>2, ActorFacts
<1>4. PutOK(q)
  BY <1>3 DEF PutOK, TaskInv, ShapeInv, PutInv
<1>. QED
  BY <1>2, <1>3, <1>4, TopologyAssumption

\* The shard loop of PutBackup advances soundly.
LEMMA PutAdvanceOK ==
    ASSUME NEW q, PutOK(q)', NEW i \in Shard, IsNext(i, q.todo),
           Kept(AnchorOf[q.node], q.blob, i)', now \in Nat,
           NEW r, r = PutAdvance(q, i)
    PROVE  r \in TaskState /\ TaskInv(r)' /\ r.pc \in PutPc /\ r.blob = q.blob
<1>0. q \in TaskState /\ q.man \in Manifest
  BY DEF PutOK
<1>1. CASE Peers[q.node] \ q.tried # {}
  <2>1. r = [q EXCEPT !.pc = "replicate"]
    BY <1>1 DEF PutAdvance
  <2>2. r \in TaskState
    BY <1>0, <2>1 DEF TaskState, Pc
  <2>3. /\ r.pc = "replicate" /\ r.op = q.op /\ r.blob = q.blob /\ r.node = q.node
        /\ r.man = q.man /\ r.todo = q.todo
    BY <1>0, <2>1 DEF TaskState
  <2>4. PutInv(r)'
    BY <2>3 DEF PutInv, PutOK, IsNext, Shard
  <2>. QED
    BY <2>2, <2>3, <2>4 DEF PutOK, TaskInv, ShapeInv, BytesInv, LoadInv, DeleteInv, AckInv,
                            PutPc, GetPc, DeletePc, RepairPc, SnapPc
<1>2. CASE Peers[q.node] \ q.tried = {} /\ q.todo \ {i} # {}
  <2>1. r = [q EXCEPT !.pc = "putShard", !.todo = q.todo \ {i}, !.tried = {}]
    BY <1>2 DEF PutAdvance
  <2>2. r \in TaskState
    BY <1>0, <2>1 DEF TaskState, Pc
  <2>3. /\ r.pc = "putShard" /\ r.op = q.op /\ r.blob = q.blob /\ r.node = q.node
        /\ r.man = q.man /\ r.todo = q.todo \ {i}
    BY <1>0, <2>1 DEF TaskState
  <2>4. PutInv(r)'
    BY <2>3 DEF PutInv, PutOK
  <2>. QED
    BY <2>2, <2>3, <2>4 DEF PutOK, TaskInv, ShapeInv, BytesInv, LoadInv, DeleteInv, AckInv,
                            PutPc, GetPc, DeletePc, RepairPc, SnapPc
<1>3. CASE Peers[q.node] \ q.tried = {} /\ q.todo \ {i} = {}
  <2>1. r = [q EXCEPT !.pc = "putManifest", !.todo = {}, !.tried = {}, !.man.created = now]
    BY <1>3 DEF PutAdvance
  <2>2. [q.man EXCEPT !.created = now] \in Manifest
        /\ [q.man EXCEPT !.created = now].locs = q.man.locs
    BY <1>0 DEF Manifest
  <2>3. r \in TaskState
    BY <1>0, <2>1, <2>2 DEF TaskState, Pc
  <2>4. /\ r.pc = "putManifest" /\ r.op = q.op /\ r.blob = q.blob /\ r.node = q.node
        /\ r.man = [q.man EXCEPT !.created = now] /\ r.todo = {}
    BY <1>0, <2>1 DEF TaskState
  <2>5. PutInv(r)'
    BY <1>3, <2>2, <2>4 DEF PutInv, PutOK
  <2>. QED
    BY <2>2, <2>3, <2>4, <2>5 DEF PutOK, TaskInv, ShapeInv, BytesInv, LoadInv, DeleteInv, AckInv,
                                  PutPc, GetPc, DeletePc, RepairPc, SnapPc
<1>. QED
  BY <1>1, <1>2, <1>3

\* The step of a put once its new local state is known to be sound.
LEMMA PutStepOK ==
    ASSUME IInv, NEW t \in Task, task[t].pc \in PutPc,
           NEW r \in TaskState, Become(t, r), TaskInv(r)', r.blob = task[t].blob,
           store' \in [Anchor -> [Blob -> [Shard -> Content]]],
           UNCHANGED <<manifests, queue, now, history>>,
           \A b \in Blob : StableFor(b)
    PROVE  IInv'
<1>1. /\ task' \in [Task -> TaskState]
      /\ task'[t] = r
      /\ \A u \in Task \ {t} : task'[u] = task[u]
  BY DEF IInv, TypeOK, Become
<1>2. TypeOK'
  BY <1>1 DEF IInv, TypeOK, history
<1>3. TimeMoves
  BY DEF TimeMoves, IInv, TypeOK
<1>4. TaskInv(task[t])'
  BY <1>1 DEF TaskInv, ShapeInv, PutInv, SnapInv, BytesInv, LoadInv, DeleteInv, AckInv
<1>. QED
  BY <1>1, <1>2, <1>3, <1>4, ActorStep

\* PutBackup writing a shard to the anchor keeps the invariant.
LEMMA PutShardStep ==
    ASSUME IInv, NEW t \in Task, NEW i \in Shard, PutShard(t, i) PROVE IInv'
<1>0. task[t].pc \in PutPc /\ PutOK(task[t])
  BY PutFacts DEF PutShard, At, PutPc
<1>1. PICK q : q = task[t]
  OBVIOUS
<1>2. PICK a \in Anchor : a = AnchorOf[q.node]
  BY <1>0, <1>1, PutFacts
<1>3. q.blob \in Blob /\ WriteShard(a, q.blob, i, "ok") /\ IsNext(i, q.todo)
  BY <1>0, <1>1, <1>2 DEF PutShard, PutOK
<1>4. \A y \in Blob : StableFor(y)
  BY <1>3, WriteStable DEF PutShard
<1>5. store' \in [Anchor -> [Blob -> [Shard -> Content]]]
  BY <1>3, WriteType DEF IInv, Content
<1>6. /\ \A x \in Anchor, y \in Blob, j \in Shard : Kept(x, y, j) => Kept(x, y, j)'
      /\ Kept(a, q.blob, i)'
  BY <1>3, WriteOk DEF IInv, PutShard, history
<1>7. PutOK(q)'
  <2>1. \A p \in Node : AnchorOf[p] \in Anchor
    BY TopologyAssumption
  <2>. QED
    BY <1>0, <1>1, <1>6, <2>1 DEF PutOK, PutShard, history, Manifest
<1>8. Kept(AnchorOf[q.node], q.blob, i)'
  BY <1>2, <1>6
<1>9. PICK r : r = PutAdvance(q, i)
  OBVIOUS
<1>10. r \in TaskState /\ TaskInv(r)' /\ r.blob = q.blob
  BY <1>3, <1>7, <1>8, <1>9, PutAdvanceOK DEF IInv, TypeOK
<1>11. Become(t, r)
  BY <1>1, <1>9 DEF PutShard
<1>. QED
  BY <1>0, <1>1, <1>4, <1>5, <1>10, <1>11, PutStepOK DEF PutShard

\* PutBackup::replicate keeps the invariant.
LEMMA ReplicateStep ==
    ASSUME IInv, NEW t \in Task, NEW i \in Shard, NEW p \in Node, Replicate(t, i, p)
    PROVE  IInv'
<1>0. task[t].pc \in PutPc /\ PutOK(task[t])
  BY PutFacts DEF Replicate, At, PutPc
<1>1. PICK q0 : q0 = task[t]
  OBVIOUS
<1>2. PICK a \in Anchor : a = AnchorOf[p]
  BY TopologyAssumption
<1>3. PICK stored \in BOOLEAN, answered \in BOOLEAN :
        /\ answered => stored
        /\ IF stored THEN WriteShard(AnchorOf[p], q0.blob, i, "ok") ELSE UNCHANGED store
        /\ Become(t, PutAdvance([q0 EXCEPT !.tried = @ \cup {p},
                        !.man.locs[i] = IF answered THEN @ \cup {p} ELSE @], i))
  BY <1>1 DEF Replicate
<1>4. q0.blob \in Blob /\ IsNext(i, q0.todo) /\ q0 \in TaskState /\ q0.man \in Manifest
  BY <1>0, <1>1 DEF Replicate, PutOK
<1>5. WriteShard(a, q0.blob, i, "ok") \/ UNCHANGED store
  BY <1>2, <1>3
<1>6. \A y \in Blob : StableFor(y)
  BY <1>4, <1>5, WriteStable DEF Replicate
<1>7. store' \in [Anchor -> [Blob -> [Shard -> Content]]]
  BY <1>4, <1>5, WriteType DEF IInv, Content, TypeOK
<1>8. \A x \in Anchor, y \in Blob, j \in Shard : Kept(x, y, j) => Kept(x, y, j)'
  <2>1. CASE WriteShard(a, q0.blob, i, "ok")
    BY <1>4, <2>1, WriteOk DEF IInv, Replicate, history
  <2>2. CASE UNCHANGED store
    BY <2>2 DEF Replicate, history, Kept
  <2>. QED
    BY <1>5, <2>1, <2>2
<1>9. answered => Kept(a, q0.blob, i)'
  BY <1>2, <1>3, <1>4, WriteOk DEF IInv, Replicate, history
<1>10. Kept(AnchorOf[q0.node], q0.blob, i)'
  <2>1. q0.pc = "replicate" /\ TaskInv(q0)
    BY <1>1, ActorFacts DEF Replicate, At
  <2>2. Kept(AnchorOf[q0.node], q0.blob, i)
    BY <1>4, <2>1 DEF TaskInv, PutInv, PutPc
  <2>3. AnchorOf[q0.node] \in Anchor
    BY <1>0, <1>1, PutFacts
  <2>. QED
    BY <1>4, <1>8, <2>2, <2>3
<1>11. PICK q : q = [q0 EXCEPT !.tried = @ \cup {p},
                       !.man.locs[i] = IF answered THEN @ \cup {p} ELSE @]
  OBVIOUS
<1>12. PICK m : m = [q0.man EXCEPT !.locs[i] = IF answered THEN @ \cup {p} ELSE @]
  OBVIOUS
<1>13. /\ m \in Manifest
       /\ \A j \in Shard : \A n \in m.locs[j] : n \in q0.man.locs[j] \/ (answered /\ n = p /\ j = i)
  BY <1>4, <1>12 DEF Manifest
<1>14. q = [q0 EXCEPT !.tried = @ \cup {p}, !.man = m]
  BY <1>4, <1>11, <1>12 DEF TaskState, Manifest
<1>15. /\ q \in TaskState /\ q.op = q0.op /\ q.blob = q0.blob /\ q.node = q0.node
       /\ q.todo = q0.todo /\ q.man = m
  BY <1>4, <1>13, <1>14 DEF TaskState
<1>16. PutOK(q)'
  <2>1. \A n \in Node : AnchorOf[n] \in Anchor
    BY TopologyAssumption
  <2>2. \A j \in Shard : j \notin q.todo => Kept(AnchorOf[q.node], q.blob, j)'
    BY <1>0, <1>1, <1>8, <1>15, <2>1 DEF PutOK
  <2>3. \A j \in Shard : \A n \in q.man.locs[j] : Kept(AnchorOf[n], q.blob, j)'
    <3>1. \A j \in Shard : \A n \in q0.man.locs[j] : Kept(AnchorOf[n], q0.blob, j) /\ n \in Node
      BY <1>0, <1>1, <1>4 DEF PutOK, Manifest
    <3>2. \A j \in Shard : \A n \in q0.man.locs[j] : Kept(AnchorOf[n], q0.blob, j)'
      BY <1>4, <1>8, <2>1, <3>1
    <3>. QED
      BY <1>2, <1>9, <1>13, <1>15, <3>2
  <2>4. /\ q.op = "put" /\ q.blob \in Blob /\ q.node \in Node
        /\ born'[q.blob] = None /\ home'[q.blob] = AnchorOf[q.node]
    BY <1>0, <1>1, <1>15 DEF PutOK, Replicate, history
  <2>. QED
    BY <1>13, <1>15, <2>2, <2>3, <2>4 DEF PutOK
<1>17. Kept(AnchorOf[q.node], q.blob, i)' /\ IsNext(i, q.todo)
  BY <1>4, <1>10, <1>15
<1>18. PICK r : r = PutAdvance(q, i)
  OBVIOUS
<1>19. r \in TaskState /\ TaskInv(r)' /\ r.blob = q.blob
  BY <1>16, <1>17, <1>18, PutAdvanceOK DEF IInv, TypeOK
<1>20. Become(t, r) /\ r.blob = task[t].blob
  BY <1>1, <1>3, <1>11, <1>15, <1>18, <1>19
<1>. QED
  BY <1>0, <1>6, <1>7, <1>19, <1>20, PutStepOK DEF Replicate

-----------------------------------------------------------------------------
(* The two steps that give a blob its history: StartPut and PutManifest. *)

\* A task on a blob that has no manifest yet relies on nothing about it.
LEMMA UnbornTask ==
    ASSUME NEW r \in TaskState, TaskInv(r), born[r.blob] = None, r.pc \notin PutPc
    PROVE  TaskInv(r)'
<1>1. r.pc \notin SnapPc /\ r.pc \notin DeletePc /\ ~(r.pc = "reply" /\ r.op = "put")
  BY DEF TaskInv, SnapInv, DeleteInv, AckInv
<1>2. r.pc \notin {"load", "decode"}
  BY <1>1 DEF SnapPc
<1>3. r.pc \notin {"delShards", "delManifest"}
  BY <1>1 DEF DeletePc
<1>. QED
  BY <1>1, <1>2, <1>3 DEF TaskInv, ShapeInv, BytesInv, LoadInv, DeleteInv, AckInv

\* As ActorStep, when blob b gets its history and every other blob is stable.
LEMMA BirthStep ==
    ASSUME IInv, TypeOK', TimeMoves, NEW b \in Blob, BlobInv(b)',
           \A y \in Blob \ {b} : StableFor(y), born[b] = None,
           NEW t \in Task, \A u \in Task \ {t} : task'[u] = task[u],
           \A u \in Task \ {t} : ~(task[u].pc \in PutPc /\ task[u].blob = b),
           TaskInv(task[t])',
           task'[t].pc \in PutPc => task'[t].blob = b
    PROVE  IInv'
<1>1. ASSUME NEW u \in Task \ {t} PROVE TaskInv(task[u])'
  <2>1. PICK r \in TaskState : r = task[u]
    BY DEF IInv, TypeOK
  <2>2. TaskInv(r) /\ (r.pc # "idle" => r.blob \in Blob)
    BY <2>1, ActorFacts DEF IInv
  <2>3. ASSUME r.blob = b PROVE TaskInv(r)'
    <3>1. r.pc \notin PutPc
      BY <2>1, <2>3
    <3>2. born[r.blob] = None
      BY <2>3
    <3>. QED
      BY <2>2, <3>1, <3>2, UnbornTask
  <2>4. ASSUME r.blob # b PROVE TaskInv(r)'
    <3>1. r.pc # "idle" => StableFor(r.blob) /\ BlobInv(r.blob)
      BY <2>2, <2>4 DEF IInv
    <3>. QED
      BY <2>2, <3>1, StableTask DEF IInv
  <2>5. TaskInv(r)'
    BY <2>3, <2>4
  <2>. QED
    BY <2>1, <2>5 DEF TaskInv, ShapeInv, PutInv, SnapInv, BytesInv, LoadInv, DeleteInv, AckInv
<1>2. \A y \in Blob : BlobInv(y)'
  BY StableBlob DEF IInv
<1>3. OnePut'
  BY DEF IInv, OnePut
<1>. QED
  BY <1>1, <1>2, <1>3 DEF IInv

\* A put with a fresh id keeps the invariant.
LEMMA StartPutStep ==
    ASSUME IInv, NEW t \in Task, NEW n \in Node, NEW b \in Blob, StartPut(t, n, b)
    PROVE  IInv'
<1>1. PICK r : r = [Idle EXCEPT !.op = "put", !.pc = "putShard", !.node = n,
                       !.blob = b, !.todo = Shard, !.man = [locs |-> NoLocs, created |-> 0]]
  OBVIOUS
<1>2. [locs |-> NoLocs, created |-> 0] \in Manifest
  BY DEF Manifest, NoLocs
<1>3. r = [op |-> "put", pc |-> "putShard", node |-> n, blob |-> b,
           man |-> [locs |-> NoLocs, created |-> 0], todo |-> Shard, tried |-> {},
           col |-> NoCopies, bad |-> {}, errs |-> {}, out |-> "none"]
  BY <1>1 DEF Idle
<1>4. "none" \in Content /\ "putShard" \in Pc /\ NoCopies \in [Shard -> Content]
  BY DEF Content, Pc, NoCopies
<1>5. r \in TaskState
  BY <1>2, <1>3, <1>4 DEF TaskState
<1>6. /\ task' \in [Task -> TaskState] /\ task'[t] = r
      /\ \A u \in Task \ {t} : task'[u] = task[u]
  BY <1>1, <1>5 DEF StartPut, IInv, TypeOK, Become
<1>7. /\ AnchorOf[n] \in Anchor /\ home' = [home EXCEPT ![b] = AnchorOf[n]]
      /\ home[b] = None
  BY TopologyAssumption DEF StartPut
<1>8. TypeOK'
  BY <1>6, <1>7 DEF StartPut, IInv, TypeOK
<1>9. TimeMoves
  BY DEF StartPut, TimeMoves, IInv, TypeOK
<1>10. \A y \in Blob \ {b} : StableFor(y)
  BY <1>7 DEF StartPut, IInv, TypeOK, BlobInv, StableFor, Kept
<1>11. born[b] = None
  BY <1>7 DEF IInv, BlobInv
<1>12. \A u \in Task \ {t} : ~(task[u].pc \in PutPc /\ task[u].blob = b)
  <2>1. \A u \in Task : task[u].pc \in PutPc => home[task[u].blob] \in Anchor
    BY PutFacts DEF PutOK
  <2>. QED
    BY <1>7, <2>1, NoneAssumption
<1>13. BlobInv(b)'
  BY <1>11 DEF BlobInv, StartPut, IInv
<1>14. TaskInv(r)'
  <2>1. /\ r.pc = "putShard" /\ r.op = "put" /\ r.node = n /\ r.blob = b /\ r.todo = Shard
        /\ r.man = [locs |-> NoLocs, created |-> 0]
    BY <1>3
  <2>2. \A i \in Shard : r.man.locs[i] = {}
    BY <2>1 DEF NoLocs
  <2>3. born'[b] = None /\ home'[b] = AnchorOf[n]
    BY <1>7, <1>11 DEF StartPut, IInv, TypeOK
  <2>4. PutInv(r)'
    BY <2>1, <2>2, <2>3 DEF PutInv
  <2>. QED
    BY <1>2, <2>1, <2>4 DEF TaskInv, ShapeInv, BytesInv, LoadInv, DeleteInv, AckInv,
                            PutPc, GetPc, DeletePc, RepairPc, SnapPc
<1>15. TaskInv(task[t])'
  BY <1>6, <1>14 DEF TaskInv, ShapeInv, PutInv, SnapInv, BytesInv, LoadInv, DeleteInv, AckInv
<1>16. task'[t].blob = b
  BY <1>3, <1>6
<1>. QED
  BY <1>6, <1>8, <1>9, <1>10, <1>11, <1>12, <1>13, <1>15, <1>16, BirthStep

\* PutBackup publishing its manifest keeps the invariant.
LEMMA PutManifestStep ==
    ASSUME IInv, NEW t \in Task, PutManifest(t) PROVE IInv'
<1>0. task[t].pc \in PutPc /\ PutOK(task[t]) /\ task[t].pc = "putManifest"
  BY PutFacts DEF PutManifest, At, PutPc
<1>1. PICK q : q = task[t]
  OBVIOUS
<1>2. PICK b \in Blob : b = q.blob
  BY <1>0, <1>1 DEF PutOK
<1>3. q \in TaskState /\ q.man \in Manifest /\ q.todo = {} /\ q.op = "put"
  BY <1>0, <1>1, ActorFacts DEF PutOK, TaskInv, PutInv
<1>4. PICK r : r = [q EXCEPT !.pc = "reply"]
  OBVIOUS
<1>5. r \in TaskState /\ r.pc = "reply" /\ r.op = "put" /\ r.blob = b
  BY <1>2, <1>3, <1>4 DEF TaskState, Pc
<1>6. /\ task' \in [Task -> TaskState] /\ task'[t] = r
      /\ \A u \in Task \ {t} : task'[u] = task[u]
  BY <1>1, <1>4, <1>5 DEF PutManifest, IInv, TypeOK, Become
<1>7. q.man.created \in Nat /\ q.man.created # None /\ q.man # None
  BY <1>3, NoneAssumption DEF Manifest
<1>8. /\ manifests' = [manifests EXCEPT ![b] = q.man]
      /\ born' = [born EXCEPT ![b] = q.man.created]
  BY <1>1, <1>2 DEF PutManifest
<1>9. TypeOK'
  BY <1>3, <1>6, <1>7, <1>8 DEF PutManifest, IInv, TypeOK
<1>10. TimeMoves
  BY DEF PutManifest, TimeMoves, IInv, TypeOK
<1>11. born[b] = None /\ home[b] = AnchorOf[q.node] /\ AnchorOf[q.node] \in Anchor
  BY <1>0, <1>1, <1>2, PutFacts DEF PutOK
<1>12. \A y \in Blob \ {b} : StableFor(y)
  BY <1>8 DEF PutManifest, IInv, TypeOK, BlobInv, StableFor, Kept
<1>13. \A u \in Task \ {t} : ~(task[u].pc \in PutPc /\ task[u].blob = b)
  BY <1>0, <1>1, <1>2 DEF IInv, OnePut
<1>14. /\ \A i \in Shard : Kept(home[b], b, i)'
       /\ \A i \in Shard : \A p \in q.man.locs[i] : Kept(AnchorOf[p], b, i)'
  BY <1>0, <1>1, <1>2, <1>3, <1>11 DEF PutOK, PutManifest, Kept
<1>15. manifests'[b] = q.man /\ born'[b] = q.man.created /\ home'[b] # None
  BY <1>8, <1>11, NoneAssumption DEF PutManifest, IInv, TypeOK
<1>16. BlobInv(b)'
  BY <1>7, <1>14, <1>15 DEF BlobInv
<1>17. TaskInv(r)'
  BY <1>2, <1>5, <1>7, <1>15 DEF TaskInv, ShapeInv, BytesInv, LoadInv, DeleteInv, AckInv,
                            PutPc, GetPc, DeletePc, RepairPc, SnapPc
<1>18. TaskInv(task[t])'
  BY <1>6, <1>17 DEF TaskInv, ShapeInv, PutInv, SnapInv, BytesInv, LoadInv, DeleteInv, AckInv
<1>19. task'[t].pc \notin PutPc
  BY <1>5, <1>6 DEF PutPc
<1>. QED
  BY <1>6, <1>9, <1>10, <1>11, <1>12, <1>13, <1>16, <1>18, <1>19, BirthStep

-----------------------------------------------------------------------------
(* Acknowledgements, deletes, renames, sweeps and the environment. *)

\* Acknowledging a put keeps the invariant.
LEMMA PutReplyStep ==
    ASSUME IInv, NEW t \in Task, PutReply(t) PROVE IInv'
<1>1. task[t].blob \in Blob /\ born[task[t].blob] # None
  BY ActorFacts DEF PutReply, At, TaskInv, AckInv
<1>2. \A y \in Blob : StableFor(y)
  BY <1>1 DEF PutReply, IInv, BlobInv, StableFor, Kept
<1>3. PICK r \in TaskState : r = Idle
  BY IdleOK
<1>4. Become(t, r) /\ TaskInv(r) /\ r.pc \notin PutPc
  BY <1>3, IdleOK DEF PutReply, Finish, Idle, PutPc
<1>5. acked' \subseteq Blob
  BY <1>1 DEF PutReply, IInv, TypeOK
<1>. QED
  BY <1>2, <1>4, <1>5, SharedStep DEF PutReply, IInv, TypeOK

\* Acknowledging a delete keeps the invariant.
LEMMA DelReplyStep ==
    ASSUME IInv, NEW t \in Task, DelReply(t) PROVE IInv'
<1>1. task[t].blob \in Blob
  BY ActorFacts DEF DelReply, At
<1>2. \A y \in Blob : StableFor(y)
  BY DEF DelReply, IInv, BlobInv, StableFor, Kept
<1>3. PICK r \in TaskState : r = Idle
  BY IdleOK
<1>4. Become(t, r) /\ TaskInv(r) /\ r.pc \notin PutPc
  BY <1>3, IdleOK DEF DelReply, Finish, Idle, PutPc
<1>5. gone' \subseteq Blob
  BY <1>1 DEF DelReply, IInv, TypeOK
<1>. QED
  BY <1>2, <1>4, <1>5, SharedStep DEF DelReply, IInv, TypeOK

\* set_manifest_name writing the manifest back keeps the invariant.
LEMMA NamePutStep ==
    ASSUME IInv, NEW t \in Task, NamePut(t) PROVE IInv'
<1>1. /\ task[t].blob \in Blob /\ task[t].man \in Manifest /\ SnapInv(task[t])
  BY ActorFacts DEF NamePut, At, TaskInv, SnapPc
<1>2. PICK b \in Blob, m \in Manifest : b = task[t].blob /\ m = task[t].man
  BY <1>1
<1>3. manifests' = [manifests EXCEPT ![b] = m]
  BY <1>2 DEF NamePut
<1>4. born[b] # None /\ m.created = born[b] /\ (b \in erased \/ m = manifests[b])
  BY <1>1, <1>2 DEF SnapInv
<1>5. manifests' \in [Blob -> Manifest \cup {None}] /\ manifests'[b] = m
      /\ \A y \in Blob \ {b} : manifests'[y] = manifests[y]
  BY <1>3 DEF IInv, TypeOK
<1>6. \A y \in Blob : StableFor(y)
  BY <1>4, <1>5 DEF NamePut, history, IInv, BlobInv, StableFor, Kept
<1>7. PICK r \in TaskState : r = Idle
  BY IdleOK
<1>8. Become(t, r) /\ TaskInv(r) /\ r.pc \notin PutPc
  BY <1>7, IdleOK DEF NamePut, Finish, Idle, PutPc
<1>. QED
  BY <1>5, <1>6, <1>8, SharedStep DEF NamePut, history, IInv, TypeOK

\* What a delete that may remove the blob knows.
LEMMA DeleteFacts ==
    ASSUME IInv, NEW t \in Task, task[t].pc \in DeletePc \ {"delCheck"}
    PROVE  /\ task[t] \in TaskState /\ task[t].op = "delete"
           /\ task[t].blob \in Blob /\ task[t].node \in Node
           /\ AnchorOf[task[t].node] \in Anchor
           /\ born[task[t].blob] # None
           /\ HoldElapsed(MinHold, born[task[t].blob], now)
           /\ task[t].pc # "delList" => task[t].blob \in erased
<1>1. task[t].pc # "idle"
  BY DEF DeletePc
<1>2. task[t].pc # "delList" => task[t].pc \in {"delShards", "delManifest"}
  BY DEF DeletePc
<1>3. TaskInv(task[t]) /\ task[t].node \in Node
  BY ActorFacts
<1>. QED
  BY <1>1, <1>2, <1>3, ActorFacts, TopologyAssumption DEF TaskInv, ShapeInv, DeleteInv

\* delete_blob listing what is there keeps the invariant.
LEMMA DelListStep ==
    ASSUME IInv, NEW t \in Task, DelList(t) PROVE IInv'
<1>1. PICK q : q = task[t]
  OBVIOUS
<1>2. /\ q \in TaskState /\ q.op = "delete" /\ q.blob \in Blob /\ q.node \in Node
      /\ born[q.blob] # None /\ HoldElapsed(MinHold, born[q.blob], now)
  BY <1>1, DeleteFacts DEF DelList, At, DeletePc
<1>3. PICK there \in SUBSET Shard : there = {i \in Shard : ReadShard(t, i) # "none"}
  OBVIOUS
<1>4. PICK pc \in {"delManifest", "delShards"} :
        pc = IF there = {} THEN "delManifest" ELSE "delShards"
  OBVIOUS
<1>5. PICK r : r = [q EXCEPT !.todo = there, !.pc = pc]
  OBVIOUS
<1>6. Become(t, r)
  BY <1>1, <1>3, <1>4, <1>5 DEF DelList
<1>7. pc \in Pc
  BY DEF Pc
<1>8. r \in TaskState /\ r.pc = pc /\ r.op = "delete" /\ r.blob = q.blob /\ r.node = q.node
  BY <1>2, <1>5, <1>7 DEF TaskState
<1>9. /\ task' \in [Task -> TaskState] /\ task'[t] = r
      /\ \A u \in Task \ {t} : task'[u] = task[u]
  BY <1>6, <1>8 DEF IInv, TypeOK, Become
<1>10. erased' = erased \cup {q.blob}
  BY <1>1 DEF DelList
<1>11. TypeOK'
  BY <1>2, <1>9, <1>10 DEF DelList, IInv, TypeOK
<1>12. TimeMoves
  BY DEF DelList, TimeMoves, IInv, TypeOK
<1>13. \A y \in Blob : StableFor(y)
  BY <1>2, <1>10 DEF DelList, IInv, BlobInv, StableFor, Kept
<1>14. TaskInv(r)'
  BY <1>2, <1>8, <1>10 DEF DelList, TaskInv, ShapeInv, BytesInv, LoadInv, DeleteInv, AckInv,
                           PutPc, GetPc, DeletePc, RepairPc, SnapPc
<1>15. TaskInv(task[t])'
  BY <1>9, <1>14 DEF TaskInv, ShapeInv, PutInv, SnapInv, BytesInv, LoadInv, DeleteInv, AckInv
<1>16. task'[t].pc \notin PutPc
  BY <1>8, <1>9 DEF PutPc
<1>. QED
  BY <1>9, <1>11, <1>12, <1>13, <1>15, <1>16, ActorStep

\* delete_blob removing one shard keeps the invariant.
LEMMA DelShardStep ==
    ASSUME IInv, NEW t \in Task, NEW i \in Shard, DelShard(t, i) PROVE IInv'
<1>1. PICK q : q = task[t]
  OBVIOUS
<1>2. /\ q \in TaskState /\ q.op = "delete" /\ q.blob \in Blob /\ q.node \in Node
      /\ born[q.blob] # None /\ HoldElapsed(MinHold, born[q.blob], now)
      /\ q.blob \in erased /\ AnchorOf[q.node] \in Anchor
  BY <1>1, DeleteFacts DEF DelShard, At, DeletePc
<1>3. PICK a \in Anchor, b \in Blob : a = AnchorOf[q.node] /\ b = q.blob
  BY <1>2
<1>4. WriteShard(a, b, i, "none")
  BY <1>1, <1>3 DEF DelShard
<1>5. store' \in [Anchor -> [Blob -> [Shard -> Content]]]
  BY <1>4, WriteType DEF IInv, Content
<1>6. \A x \in Anchor, y \in Blob, j \in Shard : y # b => store'[x][y][j] = store[x][y][j]
  BY <1>4 DEF WriteShard, IInv, TypeOK
<1>7. \A y \in Blob : StableFor(y)
  BY <1>2, <1>3, <1>6 DEF DelShard, history, IInv, BlobInv, StableFor, Kept
<1>8. PICK pc \in {"delManifest", "delShards"} :
        pc = IF q.todo = {i} THEN "delManifest" ELSE "delShards"
  OBVIOUS
<1>9. PICK r : r = [q EXCEPT !.todo = @ \ {i}, !.pc = pc]
  OBVIOUS
<1>10. Become(t, r)
  BY <1>1, <1>8, <1>9 DEF DelShard
<1>11. pc \in Pc
  BY DEF Pc
<1>12. r \in TaskState /\ r.pc = pc /\ r.op = "delete" /\ r.blob = q.blob /\ r.node = q.node
  BY <1>2, <1>9, <1>11 DEF TaskState
<1>13. TaskInv(r)
  BY <1>2, <1>12 DEF TaskInv, ShapeInv, BytesInv, LoadInv, DeleteInv, AckInv,
                     PutPc, GetPc, DeletePc, RepairPc, SnapPc
<1>14. r.pc \notin PutPc
  BY <1>12 DEF PutPc
<1>. QED
  BY <1>5, <1>7, <1>10, <1>12, <1>13, <1>14, SharedStep DEF DelShard, history, IInv, TypeOK

\* DeleteBackup removing the manifest keeps the invariant.
LEMMA DelManifestStep ==
    ASSUME IInv, NEW t \in Task, DelManifest(t) PROVE IInv'
<1>1. PICK q : q = task[t]
  OBVIOUS
<1>2. /\ q \in TaskState /\ q.op = "delete" /\ q.blob \in Blob /\ q.node \in Node
      /\ born[q.blob] # None /\ q.blob \in erased
  BY <1>1, DeleteFacts DEF DelManifest, At, DeletePc
<1>3. PICK b \in Blob : b = q.blob
  BY <1>2
<1>4. manifests' = [manifests EXCEPT ![b] = None]
  BY <1>1, <1>3 DEF DelManifest
<1>5. manifests' \in [Blob -> Manifest \cup {None}] /\ manifests'[b] = None
      /\ \A y \in Blob \ {b} : manifests'[y] = manifests[y]
  BY <1>4 DEF IInv, TypeOK
<1>6. \A y \in Blob : StableFor(y)
  BY <1>2, <1>3, <1>5 DEF DelManifest, history, IInv, BlobInv, StableFor, Kept
<1>7. PICK r : r = [q EXCEPT !.pc = "reply"]
  OBVIOUS
<1>8. r \in TaskState /\ r.pc = "reply" /\ r.op = "delete" /\ r.blob = q.blob
  BY <1>2, <1>7 DEF TaskState, Pc
<1>9. Become(t, r)
  BY <1>1, <1>7 DEF DelManifest
<1>10. TaskInv(r)
  BY <1>2, <1>8 DEF TaskInv, ShapeInv, BytesInv, LoadInv, DeleteInv, AckInv,
                    PutPc, GetPc, DeletePc, RepairPc, SnapPc
<1>11. r.pc \notin PutPc
  BY <1>8 DEF PutPc
<1>. QED
  BY <1>5, <1>6, <1>8, <1>9, <1>10, <1>11, SharedStep DEF DelManifest, history, IInv, TypeOK

\* A step of the environment: no task moves.
LEMMA QuietStep ==
    ASSUME IInv, TypeOK', TimeMoves, UNCHANGED task, \A b \in Blob : StableFor(b)
    PROVE  IInv'
<1>1. ASSUME NEW u \in Task PROVE TaskInv(task[u])'
  <2>1. PICK r \in TaskState : r = task[u]
    BY DEF IInv, TypeOK
  <2>2. TaskInv(r) /\ (r.pc # "idle" => r.blob \in Blob)
    BY <2>1, ActorFacts DEF IInv
  <2>3. TaskInv(r)'
    BY <2>2, StableTask DEF IInv
  <2>. QED
    BY <2>1, <2>3 DEF TaskInv, ShapeInv, PutInv, SnapInv, BytesInv, LoadInv, DeleteInv, AckInv
<1>2. \A b \in Blob : BlobInv(b)'
  BY StableBlob DEF IInv
<1>3. OnePut'
  BY DEF IInv, OnePut
<1>. QED
  BY <1>1, <1>2, <1>3 DEF IInv

\* The sweep listing the blobs keeps the invariant.
LEMMA SweepListStep ==
    ASSUME IInv, NEW s \in Sweeper, SweepList(s) PROVE IInv'
<1>1. TypeOK'
  BY DEF SweepList, history, IInv, TypeOK
<1>2. TimeMoves
  BY DEF SweepList, TimeMoves, IInv, TypeOK
<1>3. \A y \in Blob : StableFor(y)
  BY DEF SweepList, history, IInv, BlobInv, StableFor, Kept
<1>. QED
  BY <1>1, <1>2, <1>3, QuietStep DEF SweepList

\* The clock keeps the invariant.
LEMMA TickStep ==
    ASSUME IInv, Tick PROVE IInv'
<1>1. TypeOK'
  BY DEF Tick, history, IInv, TypeOK
<1>2. TimeMoves
  BY DEF Tick, TimeMoves, IInv, TypeOK
<1>3. \A y \in Blob : StableFor(y)
  BY DEF Tick, history, IInv, BlobInv, StableFor, Kept
<1>. QED
  BY <1>1, <1>2, <1>3, QuietStep DEF Tick

\* Loss or corruption of a stored copy keeps the invariant.
LEMMA DamageStep ==
    ASSUME IInv, NEW a \in Anchor, NEW b \in Blob, NEW i \in Shard, Damage(a, b, i)
    PROVE  IInv'
<1>1. PICK c \in {"none", "bad"} : WriteShard(a, b, i, c)
  BY DEF Damage
<1>2. c \in Content
  BY DEF Content
<1>3. store' \in [Anchor -> [Blob -> [Shard -> Content]]]
  BY <1>1, <1>2, WriteType DEF IInv
<1>4. TypeOK'
  BY <1>3 DEF Damage, IInv, TypeOK
<1>5. TimeMoves
  BY DEF Damage, TimeMoves, IInv, TypeOK
<1>6. \A x \in Anchor, y \in Blob, j \in Shard :
        \/ store'[x][y][j] = store[x][y][j]
        \/ x = a /\ y = b /\ j = i
  BY <1>1 DEF WriteShard, IInv, TypeOK
<1>7. \A x \in Anchor, y \in Blob, j \in Shard : Kept(x, y, j) => Kept(x, y, j)'
  BY <1>6 DEF Damage, Kept
<1>8. \A y \in Blob : StableFor(y)
  BY <1>7 DEF Damage, IInv, BlobInv, StableFor
<1>. QED
  BY <1>4, <1>5, <1>8, QuietStep DEF Damage

\* The sweep turning to its next blob keeps the invariant.
LEMMA SweepNextStep ==
    ASSUME IInv, NEW s \in Sweeper, NEW b \in Blob, SweepNext(s, b) PROVE IInv'
<1>1. s \in Task /\ SweepNode[s] \in Node
  BY TopologyAssumption DEF Task
<1>2. PICK n \in Node : n = SweepNode[s]
  BY <1>1
<1>3. Start(s, "repair", "repManifest", n, b)
  BY <1>2 DEF SweepNext
<1>4. queue' \in [Sweeper -> SUBSET Blob]
  BY DEF SweepNext, IInv, TypeOK
<1>. QED
  BY <1>1, <1>3, <1>4, StartStep DEF SweepNext

\* A request arriving keeps the invariant.
LEMMA StartRequestStep ==
    ASSUME IInv, NEW t \in Client, StartRequest(t) PROVE IInv'
<1>0. t \in Task
  BY DEF Task
<1>q. queue \in [Sweeper -> SUBSET Blob]
  BY DEF IInv, TypeOK
<1>1. ASSUME NEW b \in Blob, NEW n \in Node, StartPut(t, n, b) PROVE IInv'
  BY <1>0, <1>1, StartPutStep
<1>2. ASSUME NEW b \in Blob, NEW n \in Node, StartGet(t, n, b) PROVE IInv'
  BY <1>0, <1>q, <1>2, StartStep DEF StartGet
<1>3. ASSUME NEW b \in Blob, NEW n \in Node, StartDelete(t, n, b) PROVE IInv'
  <2>1. PICK pc \in {"delCheck", "delList"} :
          pc = IF MinHold > 0 THEN "delCheck" ELSE "delList"
    OBVIOUS
  <2>2. Start(t, "delete", pc, n, b) /\ born[b] # None
    BY <1>3, <2>1 DEF StartDelete, Known
  <2>3. pc = "delList" => MinHold = 0
    BY <2>1, ParamsAssumption
  <2>. QED
    BY <1>0, <1>q, <1>3, <2>2, <2>3, StartStep DEF StartDelete
<1>4. ASSUME NEW b \in Blob, NEW n \in Node, StartRepair(t, n, b) PROVE IInv'
  BY <1>0, <1>q, <1>4, StartStep DEF StartRepair
<1>5. ASSUME NEW b \in Blob, StartName(t, b) PROVE IInv'
  BY <1>0, <1>q, <1>5, StartStep DEF StartName
<1>. QED
  BY <1>1, <1>2, <1>3, <1>4, <1>5, TopologyAssumption DEF StartRequest

\* Every step of a request or a repair keeps the invariant.
LEMMA TaskStepStep ==
    ASSUME IInv, NEW t \in Task, TaskStep(t) PROVE IInv'
<1>1. CASE PutStep(t)
  BY <1>1, PutShardStep, ReplicateStep, PutManifestStep, PutReplyStep DEF PutStep
<1>2. CASE GetStep(t)
  BY <1>2, GetManifestStep, LoadFromAnchorStep, LoadFromPeerStep, GetDecodeStep, GetReplyStep
     DEF GetStep
<1>3. CASE DeleteStep(t)
  BY <1>3, DelCheckStep, DelListStep, DelShardStep, DelManifestStep, DelReplyStep DEF DeleteStep
<1>4. CASE RepairStep(t)
  BY <1>4, RepManifestStep, ClassifyStep, BackfillStep, RewriteStep, ReReplicateStep
     DEF RepairStep
<1>5. CASE NameStep(t)
  BY <1>5, NameGetStep, NamePutStep DEF NameStep
<1>. QED
  BY <1>1, <1>2, <1>3, <1>4, <1>5 DEF TaskStep

\* The inductive invariant holds when the system starts.
LEMMA InitOK == ASSUME Init PROVE IInv
<1>1. NoCopies \in [Shard -> Content]
  BY DEF NoCopies, Content
<1>2. TypeOK
  BY <1>1, IdleOK DEF Init, TypeOK
<1>3. ASSUME NEW t \in Task PROVE TaskInv(task[t])
  <2>1. task[t] = Idle
    BY DEF Init
  <2>. QED
    BY <2>1, IdleOK
<1>4. \A b \in Blob : BlobInv(b)
  BY DEF Init, BlobInv
<1>5. OnePut
  BY DEF Init, OnePut, Idle, PutPc
<1>. QED
  BY <1>2, <1>3, <1>4, <1>5 DEF IInv

\* Every step of the system preserves the inductive invariant.
LEMMA NextOK == ASSUME IInv, [Next]_vars PROVE IInv'
<1>1. ASSUME NEW t \in Client, StartRequest(t) PROVE IInv'
  BY <1>1, StartRequestStep
<1>2. ASSUME NEW s \in Sweeper, SweepStep(s) PROVE IInv'
  BY <1>2, SweepListStep, SweepNextStep DEF SweepStep
<1>3. ASSUME NEW t \in Task, TaskStep(t) PROVE IInv'
  BY <1>3, TaskStepStep
<1>4. ASSUME NEW t \in Task, Fail(t) PROVE IInv'
  BY <1>4, FinishStep DEF Fail
<1>5. CASE Environment
  BY <1>4, <1>5, DamageStep, TickStep DEF Environment
<1>6. CASE UNCHANGED vars
  <2>1. TypeOK'
    BY <1>6 DEF vars, history, IInv, TypeOK
  <2>2. TimeMoves
    BY <1>6 DEF vars, TimeMoves, IInv, TypeOK
  <2>3. \A y \in Blob : StableFor(y)
    BY <1>6 DEF vars, history, IInv, BlobInv, StableFor, Kept
  <2>. QED
    BY <1>6, <2>1, <2>2, <2>3, QuietStep DEF vars
<1>. QED
  BY <1>1, <1>2, <1>3, <1>5, <1>6 DEF Next

-----------------------------------------------------------------------------
(* The properties. *)

\* The inductive invariant holds in every reachable state.
THEOREM Invariance == Spec => []IInv
<1>1. Init => IInv
  BY InitOK
<1>2. IInv /\ [Next]_vars => IInv'
  BY NextOK
<1>. QED
  BY <1>1, <1>2, PTL DEF Spec

\* The state of the coordinator, the anchors and the tasks stays well formed.
THEOREM TypeCorrect == Spec => []TypeOK
<1>1. IInv => TypeOK
  BY DEF IInv
<1>. QED
  BY <1>1, Invariance, PTL

\* A published manifest tells the truth: until a delete starts on the blob, the
\* anchor of the put holds every shard PutBackup stored, and each recorded peer
\* its replica, whatever puts, repairs, sweeps and renames run beside it.
THEOREM ManifestsAreTrue == Spec => []ManifestIsTrue
<1>1. IInv => ManifestIsTrue
  BY DEF IInv, BlobInv, ManifestIsTrue
<1>. QED
  BY <1>1, Invariance, PTL

\* An acknowledged PutBackup stays listed until a DeleteBackup starts on it.
THEOREM AckedStaysListed == Spec => []AckedIsListed
<1>1. IInv => AckedIsListed
  BY DEF IInv, TypeOK, BlobInv, AckedIsListed
<1>. QED
  BY <1>1, Invariance, PTL

\* GetBackup answers, and RepairShards writes back, the original bytes only.
THEOREM BytesAreOriginal == Spec => []OriginalBytesOnly
<1>1. IInv => OriginalBytesOnly
  BY DEF IInv, TaskInv, BytesInv, OriginalBytesOnly
<1>. QED
  BY <1>1, Invariance, PTL

\* With at most n - k shards hit, the shards a read did collect are k or more.
LEMMA ParityBudget ==
    ASSUME NEW have \in SUBSET Shard, NEW hit \in SUBSET Shard, Shard \ have \subseteq hit,
           ~(Cardinality(hit) > N - K)
    PROVE  Cardinality(have) >= K
<1>1. IsFiniteSet(Shard) /\ Cardinality(Shard) = N
  <2>1. IsFiniteSet(1..N)
    BY FS_Interval, ParamsAssumption
  <2>2. Cardinality(1..N) = IF 1 > N THEN 0 ELSE N - 1 + 1
    BY FS_Interval, ParamsAssumption
  <2>. QED
    BY <2>1, <2>2, ParamsAssumption DEF Shard
<1>2. IsFiniteSet(have) /\ IsFiniteSet(hit)
  BY <1>1, FS_Subset
<1>3. Cardinality(have) \in Nat /\ Cardinality(hit) \in Nat
  BY <1>2, FS_CardinalityType
<1>4. IsFiniteSet(have \cup hit) /\ Cardinality(have \cup hit) <= Cardinality(have) + Cardinality(hit)
  <2>1. IsFiniteSet(have \cap hit) /\ Cardinality(have \cap hit) \in Nat
    BY <1>2, FS_Intersection, FS_CardinalityType
  <2>2. IsFiniteSet(have \cup hit) /\ Cardinality(have \cup hit)
            = Cardinality(have) + Cardinality(hit) - Cardinality(have \cap hit)
    BY <1>2, FS_Union
  <2>. QED
    BY <1>3, <2>1, <2>2
<1>5. have \cup hit = Shard
  OBVIOUS
<1>. QED
  BY <1>1, <1>3, <1>4, <1>5, ParamsAssumption

\* GetBackup::restore through the blob's anchor finds k valid shards unless a
\* delete, or damage and read errors beyond the parity budget, got at the blob.
THEOREM RestoreWithinParity == Spec => []RestorableWithinParity
<1>1. ASSUME IInv PROVE RestorableWithinParity
  <2>1. SUFFICES ASSUME NEW t \in Task, task[t].pc = "decode",
                        task[t].blob \notin erased,
                        AnchorOf[task[t].node] = home[task[t].blob],
                        ~(Cardinality({i \in Shard : <<home[task[t].blob], task[t].blob, i>> \in damaged}
                                      \cup task[t].errs) > N - K)
                 PROVE  Cardinality(Have(task[t])) >= K
    BY DEF RestorableWithinParity
  <2>2. PICK hit : hit = {i \in Shard : <<home[task[t].blob], task[t].blob, i>> \in damaged}
                         \cup task[t].errs
    OBVIOUS
  <2>3. PICK have : have = Have(task[t])
    OBVIOUS
  <2>4. task[t].errs \subseteq Shard
    BY <1>1 DEF IInv, TypeOK, TaskState
  <2>5. hit \subseteq Shard /\ have \subseteq Shard
    BY <2>2, <2>3, <2>4 DEF Have
  <2>6. LoadInv(task[t])
    BY <1>1 DEF IInv, TaskInv
  <2>7. \A i \in Shard : \/ task[t].col[i] # "none" \/ i \in task[t].errs
                         \/ <<home[task[t].blob], task[t].blob, i>> \in damaged
    BY <2>1, <2>6 DEF LoadInv
  <2>8. Shard \ have \subseteq hit
    BY <2>2, <2>3, <2>7 DEF Have
  <2>. QED
    BY <2>1, <2>2, <2>3, <2>5, <2>8, ParityBudget
<1>. QED
  BY <1>1, Invariance, PTL

\* Writing good bytes removes nothing.
LEMMA WriteKeepsHold ==
    ASSUME TypeOK, NEW a \in Anchor, NEW b \in Blob, NEW i \in Shard,
           WriteShard(a, b, i, "ok") \/ UNCHANGED store
    PROVE  HoldStep
<1>1. \A x \in Anchor, y \in Blob, j \in Shard :
        store'[x][y][j] = store[x][y][j] \/ store'[x][y][j] = "ok"
  <2>1. CASE UNCHANGED store
    BY <2>1
  <2>2. CASE WriteShard(a, b, i, "ok")
    BY <2>2 DEF WriteShard, TypeOK
  <2>. QED
    BY <2>1, <2>2
<1>2. "ok" # "none"
  OBVIOUS
<1>. QED
  BY <1>1, <1>2, Zenon DEF HoldStep

\* The only steps that remove a copy are damage and DelShard, which its check
\* let through.
LEMMA HoldNext == ASSUME IInv, [Next]_vars PROVE HoldStep
<1>0. TypeOK
  BY DEF IInv
<1>1. ASSUME NEW t \in Task, NEW i \in Shard, PutShard(t, i) PROVE HoldStep
  <2>1. AnchorOf[task[t].node] \in Anchor /\ task[t].blob \in Blob
    BY <1>1, PutFacts DEF PutShard, At, PutPc, PutOK
  <2>. QED
    BY <1>0, <1>1, <2>1, WriteKeepsHold DEF PutShard
<1>2. ASSUME NEW t \in Task, NEW i \in Shard, NEW p \in Node, Replicate(t, i, p) PROVE HoldStep
  <2>1. AnchorOf[p] \in Anchor /\ task[t].blob \in Blob
    BY <1>2, PutFacts, TopologyAssumption DEF Replicate, At, PutPc, PutOK
  <2>2. WriteShard(AnchorOf[p], task[t].blob, i, "ok") \/ UNCHANGED store
    BY <1>2 DEF Replicate
  <2>. QED
    BY <1>0, <2>1, <2>2, WriteKeepsHold
<1>3. ASSUME NEW t \in Task, NEW i \in Shard, Rewrite(t, i) PROVE HoldStep
  <2>1. AnchorOf[task[t].node] \in Anchor /\ task[t].blob \in Blob /\ task[t].out = "ok"
    BY <1>3, RepairFacts, ActorFacts, TopologyAssumption DEF Rewrite, At, RepairOK, TaskInv, BytesInv
  <2>. QED
    BY <1>0, <1>3, <2>1, WriteKeepsHold DEF Rewrite
<1>4. ASSUME NEW t \in Task, NEW i \in Shard, NEW p \in Node, ReReplicate(t, i, p) PROVE HoldStep
  <2>1. AnchorOf[p] \in Anchor /\ task[t].blob \in Blob /\ task[t].out = "ok"
    BY <1>4, RepairFacts, ActorFacts, TopologyAssumption
       DEF ReReplicate, At, RepairOK, TaskInv, BytesInv
  <2>2. WriteShard(AnchorOf[p], task[t].blob, i, "ok") \/ UNCHANGED store
    BY <1>4, <2>1 DEF ReReplicate
  <2>. QED
    BY <1>0, <2>1, <2>2, WriteKeepsHold
<1>5. ASSUME NEW t \in Task, NEW i \in Shard, DelShard(t, i) PROVE HoldStep
  <2>1. /\ task[t].blob \in Blob /\ AnchorOf[task[t].node] \in Anchor
        /\ HoldElapsed(MinHold, born[task[t].blob], now)
    BY <1>5, DeleteFacts DEF DelShard, At, DeletePc
  <2>. QED
    BY <1>0, <1>5, <2>1 DEF DelShard, WriteShard, HoldStep, TypeOK
<1>6. ASSUME NEW a \in Anchor, NEW b \in Blob, NEW i \in Shard, Damage(a, b, i) PROVE HoldStep
  BY <1>6 DEF Damage, HoldStep
<1>7. ASSUME UNCHANGED store PROVE HoldStep
  BY <1>7 DEF HoldStep
<1>8. ASSUME NEW t \in Task, PutStep(t) PROVE HoldStep
  BY <1>1, <1>2, <1>7, <1>8 DEF PutStep, PutManifest, PutReply
<1>9. ASSUME NEW t \in Task, GetStep(t) PROVE HoldStep
  BY <1>7, <1>9 DEF GetStep, GetManifest, LoadFromAnchor, LoadFromPeer, GetDecode, GetReply
<1>10. ASSUME NEW t \in Task, DeleteStep(t) PROVE HoldStep
  BY <1>5, <1>7, <1>10 DEF DeleteStep, DelCheck, DelList, DelManifest, DelReply
<1>11. ASSUME NEW t \in Task, RepairStep(t) PROVE HoldStep
  BY <1>3, <1>4, <1>7, <1>11 DEF RepairStep, RepManifest, Classify, Backfill
<1>12. ASSUME NEW t \in Task, NameStep(t) PROVE HoldStep
  BY <1>7, <1>12 DEF NameStep, NameGet, NamePut
<1>13. ASSUME NEW t \in Task, TaskStep(t) PROVE HoldStep
  BY <1>8, <1>9, <1>10, <1>11, <1>12, <1>13 DEF TaskStep
<1>14. ASSUME NEW t \in Client, StartRequest(t) PROVE HoldStep
  BY <1>7, <1>14 DEF StartRequest, StartPut, StartGet, StartDelete, StartRepair, StartName
<1>15. ASSUME NEW s \in Sweeper, SweepStep(s) PROVE HoldStep
  BY <1>7, <1>15 DEF SweepStep, SweepList, SweepNext
<1>16. CASE Environment
  BY <1>6, <1>7, <1>16 DEF Environment, Fail, Tick
<1>17. CASE UNCHANGED vars
  BY <1>7, <1>17 DEF vars
<1>. QED
  BY <1>13, <1>14, <1>15, <1>16, <1>17 DEF Next

\* DeleteBackup never removes a shard while the blob's retention hold runs.
THEOREM HoldIsRespected == Spec => HoldRespected
<1>1. IInv /\ [Next]_vars => [HoldStep]_vars
  BY HoldNext
<1>. QED
  BY <1>1, Invariance, PTL DEF Spec, HoldRespected

-----------------------------------------------------------------------------
(* DeleteSettles. Beyond IInv it needs that repairs and renames are labelled *)
(* as such, and that a deleted blob's id is never handed out again.          *)

OpInv(r) ==
    /\ r.pc \in RepairPc => r.op = "repair"
    /\ r.pc \in NamePc => r.op = "name"
    /\ r.pc = "reply" /\ r.op = "delete" => home[r.blob] # None

SettleInv ==
    /\ \A t \in Task : OpInv(task[t])
    /\ \A b \in gone : home[b] # None

Revives(r, b) ==
    r.blob = b /\ r.man # None /\ r.op \in {"put", "name", "repair"}

\* The task's next state is labelled soundly, and it can bring back an unlisted
\* blob only if the task could before.
Turns(t, r) ==
    /\ Become(t, r)
    /\ OpInv(r)
    /\ \A b \in Blob : manifests[b] = None /\ Revives(r, b) => Revives(task[t], b)

\* A request that ends brings nothing back.
LEMMA FinishTurns == ASSUME NEW t \in Task, Finish(t) PROVE \E r : Turns(t, r)
<1>1. Become(t, Idle)
  BY DEF Finish
<1>2. Idle.pc = "idle" /\ Idle.op = "none"
  BY DEF Idle
<1>3. OpInv(Idle) /\ \A b \in Blob : ~Revives(Idle, b)
  BY <1>2 DEF OpInv, Revives, RepairPc, NamePc
<1>. QED
  BY <1>1, <1>3 DEF Turns

\* A put's shard loop stays a put of its blob.
LEMMA PutAdvanceOp ==
    ASSUME NEW q \in TaskState, NEW i \in Shard, NEW r, r = PutAdvance(q, i)
    PROVE  r.op = q.op /\ r.blob = q.blob /\ r.pc \in PutPc
  BY DEF PutAdvance, TaskState, PutPc

\* A put goes on with its own blob.
LEMMA PutTurns ==
    ASSUME IInv, NEW t \in Task, PutStep(t) PROVE \E r : Turns(t, r)
<1>1. ASSUME NEW r, Become(t, r), r.op = "put", r.pc \in PutPc \cup {"reply"},
             r.blob = task[t].blob, task[t].pc \in PutPc
      PROVE  \E x : Turns(t, x)
  <2>1. task[t].op = "put" /\ task[t].man # None
    BY <1>1, PutFacts, NoneAssumption DEF PutOK, Manifest
  <2>2. OpInv(r)
    BY <1>1 DEF OpInv, PutPc, RepairPc, NamePc
  <2>. QED
    BY <1>1, <2>1, <2>2 DEF Turns, Revives
<1>2. ASSUME NEW i \in Shard, PutShard(t, i) PROVE \E x : Turns(t, x)
  <2>1. task[t].pc \in PutPc /\ task[t] \in TaskState /\ task[t].op = "put"
    BY <1>2, PutFacts DEF PutShard, At, PutPc, PutOK
  <2>2. PICK r : r = PutAdvance(task[t], i)
    OBVIOUS
  <2>3. r.op = task[t].op /\ r.blob = task[t].blob /\ r.pc \in PutPc
    BY <2>1, <2>2, PutAdvanceOp
  <2>. QED
    BY <1>1, <1>2, <2>1, <2>2, <2>3 DEF PutShard
<1>3. ASSUME NEW i \in Shard, NEW p \in Node, Replicate(t, i, p) PROVE \E x : Turns(t, x)
  <2>1. /\ task[t].pc \in PutPc /\ task[t] \in TaskState /\ task[t].op = "put"
        /\ task[t].man \in Manifest
    BY <1>3, PutFacts DEF Replicate, At, PutPc, PutOK
  <2>2. PICK q0 : q0 = task[t]
    OBVIOUS
  <2>3. PICK stored \in BOOLEAN, answered \in BOOLEAN :
          /\ answered => stored
          /\ IF stored THEN WriteShard(AnchorOf[p], q0.blob, i, "ok") ELSE UNCHANGED store
          /\ Become(t, PutAdvance([q0 EXCEPT !.tried = @ \cup {p},
                          !.man.locs[i] = IF answered THEN @ \cup {p} ELSE @], i))
    BY <1>3, <2>2 DEF Replicate
  <2>4. PICK q : q = [q0 EXCEPT !.tried = @ \cup {p},
                        !.man.locs[i] = IF answered THEN @ \cup {p} ELSE @]
    OBVIOUS
  <2>5. PICK m : m = [q0.man EXCEPT !.locs[i] = IF answered THEN @ \cup {p} ELSE @]
    OBVIOUS
  <2>6. m \in Manifest
    BY <2>1, <2>2, <2>5 DEF Manifest
  <2>7. q = [q0 EXCEPT !.tried = @ \cup {p}, !.man = m]
    BY <2>1, <2>2, <2>4, <2>5 DEF TaskState, Manifest
  <2>8. q \in TaskState /\ q.op = task[t].op /\ q.blob = task[t].blob
    BY <2>1, <2>2, <2>6, <2>7 DEF TaskState
  <2>9. PICK r : r = PutAdvance(q, i)
    OBVIOUS
  <2>10. r.op = q.op /\ r.blob = q.blob /\ r.pc \in PutPc
    BY <2>8, <2>9, PutAdvanceOp
  <2>. QED
    BY <1>1, <2>1, <2>3, <2>4, <2>8, <2>9, <2>10
<1>4. ASSUME PutManifest(t) PROVE \E x : Turns(t, x)
  <2>1. task[t].pc \in PutPc /\ task[t] \in TaskState /\ task[t].op = "put"
    BY <1>4, PutFacts DEF PutManifest, At, PutPc, PutOK
  <2>2. PICK r : r = [task[t] EXCEPT !.pc = "reply"]
    OBVIOUS
  <2>3. r.op = task[t].op /\ r.blob = task[t].blob /\ r.pc = "reply"
    BY <2>1, <2>2 DEF TaskState
  <2>. QED
    BY <1>1, <1>4, <2>1, <2>2, <2>3 DEF PutManifest
<1>5. ASSUME PutReply(t) PROVE \E x : Turns(t, x)
  BY <1>5, FinishTurns DEF PutReply
<1>. QED
  BY <1>2, <1>3, <1>4, <1>5 DEF PutStep

\* A read brings nothing back, and the repair it spawns has no manifest yet.
LEMMA GetTurns ==
    ASSUME IInv, NEW t \in Task, GetStep(t) PROVE \E r : Turns(t, r)
<1>0. task[t] \in TaskState
  BY ActorFacts
<1>1. ASSUME NEW q \in TaskState, NEW r, q.op = "get", r.op = q.op,
             r.pc \in {"load", "decode", "reply"}, Become(t, r)
      PROVE  \E x : Turns(t, x)
  <2>1. OpInv(r) /\ \A b \in Blob : ~Revives(r, b)
    BY <1>1 DEF OpInv, Revives, RepairPc, NamePc
  <2>. QED
    BY <1>1, <2>1 DEF Turns
<1>2. task[t].pc \in GetPc => task[t].op = "get"
  BY ActorFacts DEF TaskInv, ShapeInv
<1>3. ASSUME NEW q \in TaskState, q.op = "get", q.pc = "load", NEW i \in Shard,
             Become(t, LoadAdvance(q, i))
      PROVE  \E x : Turns(t, x)
  <2>1. PICK r : r = LoadAdvance(q, i)
    OBVIOUS
  <2>2. r.op = q.op /\ r.pc \in {"load", "decode"}
    BY <1>3, <2>1 DEF LoadAdvance, TaskState
  <2>. QED
    BY <1>1, <1>3, <2>1, <2>2
<1>4. ASSUME GetManifest(t) PROVE \E x : Turns(t, x)
  <2>1. CASE manifests[task[t].blob] = None
    BY <1>4, <2>1, FinishTurns DEF GetManifest
  <2>2. CASE manifests[task[t].blob] # None
    <3>1. PICK r : r = [task[t] EXCEPT !.pc = "load", !.todo = Shard,
                                       !.man = manifests[task[t].blob]]
      OBVIOUS
    <3>2. r.op = task[t].op /\ r.pc = "load"
      BY <1>0, <3>1 DEF TaskState
    <3>3. task[t].op = "get" /\ Become(t, r)
      BY <1>2, <1>4, <2>2, <3>1 DEF GetManifest, At, GetPc
    <3>. QED
      BY <1>0, <1>1, <3>2, <3>3
  <2>. QED
    BY <2>1, <2>2
<1>5. ASSUME NEW i \in Shard, LoadFromAnchor(t, i) PROVE \E x : Turns(t, x)
  <2>1. task[t].op = "get" /\ task[t].pc = "load"
    BY <1>2, <1>5 DEF LoadFromAnchor, At, GetPc
  <2>2. ASSUME NEW c \in Content, Become(t, LoadAdvance([task[t] EXCEPT !.col[i] = c], i))
        PROVE  \E x : Turns(t, x)
    <3>1. PICK q : q = [task[t] EXCEPT !.col[i] = c]
      OBVIOUS
    <3>2. q \in TaskState /\ q.op = task[t].op /\ q.pc = task[t].pc
      BY <1>0, <2>2, <3>1 DEF TaskState
    <3>. QED
      BY <1>3, <2>1, <2>2, <3>1, <3>2
  <2>3. ASSUME Become(t, LoadAdvance([task[t] EXCEPT !.errs = @ \cup {i}], i))
        PROVE  \E x : Turns(t, x)
    <3>1. PICK q : q = [task[t] EXCEPT !.errs = @ \cup {i}]
      OBVIOUS
    <3>2. q \in TaskState /\ q.op = task[t].op /\ q.pc = task[t].pc
      BY <1>0, <3>1 DEF TaskState
    <3>. QED
      BY <1>3, <2>1, <2>3, <3>1, <3>2
  <2>4. PICK c : c = IF HashOk(ReadShard(t, i)) THEN ReadShard(t, i) ELSE "none"
    OBVIOUS
  <2>5. c \in Content
    BY <2>4 DEF HashOk, Content
  <2>. QED
    BY <1>5, <2>2, <2>3, <2>4, <2>5 DEF LoadFromAnchor
<1>6. ASSUME NEW i \in Shard, NEW p \in Node, LoadFromPeer(t, i, p) PROVE \E x : Turns(t, x)
  <2>1. task[t].op = "get" /\ task[t].pc = "load"
    BY <1>2, <1>6 DEF LoadFromPeer, At, GetPc
  <2>2. CASE /\ HashOk(ReadPeer(t, p, i))
             /\ Become(t, LoadAdvance([task[t] EXCEPT !.col[i] = ReadPeer(t, p, i)], i))
    <3>1. PICK c : c = ReadPeer(t, p, i)
      OBVIOUS
    <3>2. PICK q : q = [task[t] EXCEPT !.col[i] = c]
      OBVIOUS
    <3>3. c \in Content
      BY <2>2, <3>1 DEF HashOk, Content
    <3>4. q \in TaskState /\ q.op = task[t].op /\ q.pc = task[t].pc
      BY <1>0, <3>2, <3>3 DEF TaskState
    <3>. QED
      BY <1>3, <2>1, <2>2, <3>1, <3>2, <3>4
  <2>3. CASE Become(t, [task[t] EXCEPT !.tried = @ \cup {p}])
    <3>1. PICK r : r = [task[t] EXCEPT !.tried = @ \cup {p}]
      OBVIOUS
    <3>2. r.op = task[t].op /\ r.pc = task[t].pc
      BY <1>0, <3>1 DEF TaskState
    <3>. QED
      BY <1>0, <1>1, <2>1, <2>3, <3>1, <3>2
  <2>. QED
    BY <1>6, <2>2, <2>3 DEF LoadFromPeer
<1>7. ASSUME GetDecode(t) PROVE \E x : Turns(t, x)
  <2>1. CASE Finish(t)
    BY <2>1, FinishTurns
  <2>2. CASE Become(t, [task[t] EXCEPT !.pc = "reply", !.out = Decode(task[t].col)])
    <3>1. PICK r : r = [task[t] EXCEPT !.pc = "reply", !.out = Decode(task[t].col)]
      OBVIOUS
    <3>2. r.op = task[t].op /\ r.pc = "reply" /\ task[t].op = "get"
      BY <1>0, <1>2, <1>7, <3>1 DEF TaskState, GetDecode, At, GetPc
    <3>. QED
      BY <1>0, <1>1, <2>2, <3>1, <3>2
  <2>. QED
    BY <1>7, <2>1, <2>2 DEF GetDecode
<1>8. ASSUME GetReply(t) PROVE \E x : Turns(t, x)
  <2>1. CASE Finish(t)
    BY <2>1, FinishTurns
  <2>2. CASE ~Finish(t)
    <3>1. PICK r : r = [Idle EXCEPT !.op = "repair", !.pc = "repManifest",
                                    !.node = task[t].node, !.blob = task[t].blob]
      OBVIOUS
    <3>2. r.op = "repair" /\ r.pc = "repManifest" /\ r.man = None
      BY <3>1 DEF Idle
    <3>3. OpInv(r) /\ \A b \in Blob : ~Revives(r, b)
      BY <3>2 DEF OpInv, Revives, RepairPc, NamePc
    <3>. QED
      BY <1>8, <2>2, <3>1, <3>3 DEF GetReply, Turns
  <2>. QED
    BY <2>1, <2>2
<1>. QED
  BY <1>4, <1>5, <1>6, <1>7, <1>8 DEF GetStep

\* A delete brings nothing back, and knows that its blob was put.
LEMMA DeleteTurns ==
    ASSUME IInv, NEW t \in Task, DeleteStep(t) PROVE \E r : Turns(t, r)
<1>0. task[t] \in TaskState
  BY ActorFacts
<1>1. task[t].pc \in DeletePc => task[t].op = "delete" /\ home[task[t].blob] # None
  <2>1. SUFFICES ASSUME task[t].pc \in DeletePc
                 PROVE  task[t].op = "delete" /\ home[task[t].blob] # None
    OBVIOUS
  <2>2. task[t].op = "delete" /\ task[t].blob \in Blob /\ born[task[t].blob] # None
    BY <2>1, ActorFacts DEF TaskInv, ShapeInv, DeleteInv, DeletePc
  <2>. QED
    BY <2>2 DEF IInv, BlobInv
<1>2. ASSUME NEW r, Become(t, r), task[t].pc \in DeletePc, r.op = task[t].op,
             r.blob = task[t].blob, r.pc \in DeletePc \cup {"reply"}
      PROVE  \E x : Turns(t, x)
  <2>1. OpInv(r) /\ \A b \in Blob : ~Revives(r, b)
    BY <1>1, <1>2 DEF OpInv, Revives, RepairPc, NamePc, DeletePc
  <2>. QED
    BY <1>2, <2>1 DEF Turns
<1>3. ASSUME DelCheck(t) PROVE \E x : Turns(t, x)
  <2>1. CASE Finish(t)
    BY <2>1, FinishTurns
  <2>2. CASE Become(t, [task[t] EXCEPT !.pc = "delList"])
    <3>1. PICK r : r = [task[t] EXCEPT !.pc = "delList"]
      OBVIOUS
    <3>2. r.op = task[t].op /\ r.blob = task[t].blob /\ r.pc = "delList"
      BY <1>0, <3>1 DEF TaskState
    <3>. QED
      BY <1>2, <1>3, <2>2, <3>1, <3>2 DEF DelCheck, At, DeletePc
  <2>. QED
    BY <1>3, <2>1, <2>2 DEF DelCheck
<1>4. ASSUME DelList(t) PROVE \E x : Turns(t, x)
  <2>1. PICK there : there = {i \in Shard : ReadShard(t, i) # "none"}
    OBVIOUS
  <2>2. PICK pc \in {"delManifest", "delShards"} :
          pc = IF there = {} THEN "delManifest" ELSE "delShards"
    OBVIOUS
  <2>3. PICK r : r = [task[t] EXCEPT !.todo = there, !.pc = pc]
    OBVIOUS
  <2>4. Become(t, r)
    BY <1>4, <2>1, <2>2, <2>3 DEF DelList
  <2>5. r.op = task[t].op /\ r.blob = task[t].blob /\ r.pc = pc
    BY <1>0, <2>3 DEF TaskState
  <2>. QED
    BY <1>2, <1>4, <2>4, <2>5 DEF DelList, At, DeletePc
<1>5. ASSUME NEW i \in Shard, DelShard(t, i) PROVE \E x : Turns(t, x)
  <2>1. PICK pc \in {"delManifest", "delShards"} :
          pc = IF task[t].todo = {i} THEN "delManifest" ELSE "delShards"
    OBVIOUS
  <2>2. PICK r : r = [task[t] EXCEPT !.todo = @ \ {i}, !.pc = pc]
    OBVIOUS
  <2>3. Become(t, r)
    BY <1>5, <2>1, <2>2 DEF DelShard
  <2>4. r.op = task[t].op /\ r.blob = task[t].blob /\ r.pc = pc
    BY <1>0, <2>2 DEF TaskState
  <2>. QED
    BY <1>2, <1>5, <2>3, <2>4 DEF DelShard, At, DeletePc
<1>6. ASSUME DelManifest(t) PROVE \E x : Turns(t, x)
  <2>1. PICK r : r = [task[t] EXCEPT !.pc = "reply"]
    OBVIOUS
  <2>2. r.op = task[t].op /\ r.blob = task[t].blob /\ r.pc = "reply"
    BY <1>0, <2>1 DEF TaskState
  <2>. QED
    BY <1>2, <1>6, <2>1, <2>2 DEF DelManifest, At, DeletePc
<1>7. ASSUME DelReply(t) PROVE \E x : Turns(t, x)
  BY <1>7, FinishTurns DEF DelReply
<1>. QED
  BY <1>3, <1>4, <1>5, <1>6, <1>7 DEF DeleteStep

\* What a step of a repair's loops leaves: the repair of the same blob, or none.
RepairGoesOn(q, r) ==
    r = Idle \/ (r.op = q.op /\ r.blob = q.blob /\ r.pc \in RepairPc)

\* A repair that starts to rewrite goes on.
LEMMA ToRewriteGoesOn ==
    ASSUME NEW q \in TaskState, NEW r, r = ToRewrite(q) PROVE RepairGoesOn(q, r)
  BY DEF ToRewrite, RepairGoesOn, TaskState, RepairPc

\* A repair that classifies goes on or ends.
LEMMA ClassifyGoesOn ==
    ASSUME NEW q \in TaskState, q.pc = "classify", NEW i \in Shard,
           NEW r, r = ClassifyAdvance(q, i)
    PROVE  RepairGoesOn(q, r)
<1>1. CASE r = Idle
  BY <1>1 DEF RepairGoesOn
<1>2. CASE r = ToRewrite(q)
  BY <1>2, ToRewriteGoesOn
<1>3. CASE r = [q EXCEPT !.todo = q.todo \ {i}]
  BY <1>3 DEF RepairGoesOn, TaskState, RepairPc
<1>4. CASE r = [q EXCEPT !.pc = "backfill", !.todo = q.bad, !.tried = {}]
  BY <1>4 DEF RepairGoesOn, TaskState, RepairPc
<1>. QED
  BY <1>1, <1>2, <1>3, <1>4 DEF ClassifyAdvance

\* A repair that asks peers goes on or ends.
LEMMA BackfillGoesOn ==
    ASSUME NEW q \in TaskState, q.pc = "backfill", NEW r, r = BackfillAdvance(q)
    PROVE  RepairGoesOn(q, r)
<1>1. CASE r = Idle \/ r = q
  BY <1>1 DEF RepairGoesOn, RepairPc
<1>2. CASE r = ToRewrite(q)
  BY <1>2, ToRewriteGoesOn
<1>. QED
  BY <1>1, <1>2 DEF BackfillAdvance

\* A repair that rewrites goes on or ends.
LEMMA RewriteGoesOn ==
    ASSUME NEW q \in TaskState, NEW i \in Shard, NEW r, r = RewriteAdvance(q, i)
    PROVE  RepairGoesOn(q, r)
<1>1. CASE r = Idle
  BY <1>1 DEF RepairGoesOn
<1>2. CASE r = [q EXCEPT !.pc = "reReplicate"]
  BY <1>2 DEF RepairGoesOn, TaskState, RepairPc
<1>3. CASE r = [q EXCEPT !.pc = "rewrite", !.todo = @ \ {i}, !.tried = {}]
  BY <1>3 DEF RepairGoesOn, TaskState, RepairPc
<1>. QED
  BY <1>1, <1>2, <1>3 DEF RewriteAdvance

\* A repair brings back only what it had the manifest of.
LEMMA RepairTurns ==
    ASSUME IInv, SettleInv, NEW t \in Task, RepairStep(t) PROVE \E r : Turns(t, r)
<1>0. task[t] \in TaskState
  BY ActorFacts
<1>1. ASSUME NEW q \in TaskState, NEW r, Become(t, r), RepairGoesOn(q, r),
             q.op = task[t].op, q.blob = task[t].blob,
             task[t].pc \in {"classify", "backfill", "rewrite", "reReplicate"}
      PROVE  \E x : Turns(t, x)
  <2>1. CASE r = Idle
    BY <1>1, <2>1, FinishTurns DEF Finish
  <2>2. CASE r # Idle
    <3>1. task[t].op = "repair" /\ task[t].man # None
      BY <1>1, RepairFacts, NoneAssumption DEF SettleInv, OpInv, RepairPc, RepairOK, Manifest
    <3>2. r.op = "repair" /\ r.blob = task[t].blob /\ r.pc \in RepairPc
      BY <1>1, <2>2, <3>1 DEF RepairGoesOn
    <3>3. OpInv(r)
      BY <3>2 DEF OpInv, RepairPc, NamePc
    <3>. QED
      BY <1>1, <3>1, <3>2, <3>3 DEF Turns, Revives
  <2>. QED
    BY <2>1, <2>2
<1>2. ASSUME RepManifest(t) PROVE \E x : Turns(t, x)
  <2>1. CASE manifests[task[t].blob] = None
    BY <1>2, <2>1, FinishTurns DEF RepManifest
  <2>2. CASE manifests[task[t].blob] # None
    <3>1. PICK r : r = [task[t] EXCEPT !.pc = "classify", !.todo = Shard,
                                       !.man = manifests[task[t].blob]]
      OBVIOUS
    <3>2. r.op = task[t].op /\ r.pc = "classify" /\ r.blob = task[t].blob
      BY <1>0, <3>1 DEF TaskState
    <3>3. task[t].op = "repair" /\ Become(t, r)
      BY <1>2, <2>2, <3>1 DEF RepManifest, At, SettleInv, OpInv, RepairPc
    <3>4. OpInv(r)
      BY <3>2, <3>3 DEF OpInv, RepairPc, NamePc
    <3>. QED
      BY <2>2, <3>2, <3>3, <3>4 DEF Turns, Revives
  <2>. QED
    BY <2>1, <2>2
<1>3. ASSUME NEW i \in Shard, Classify(t, i) PROVE \E x : Turns(t, x)
  <2>0. task[t].pc = "classify"
    BY <1>3 DEF Classify, At
  <2>1. ASSUME NEW q \in TaskState, q.op = task[t].op, q.blob = task[t].blob,
               q.pc = task[t].pc, Become(t, ClassifyAdvance(q, i))
        PROVE  \E x : Turns(t, x)
    <3>1. PICK r : r = ClassifyAdvance(q, i)
      OBVIOUS
    <3>. QED
      BY <1>1, <2>0, <2>1, <3>1, ClassifyGoesOn
  <2>2. CASE /\ HashOk(ReadShard(t, i))
             /\ Become(t, ClassifyAdvance([task[t] EXCEPT !.col[i] = ReadShard(t, i)], i))
    <3>1. PICK c : c = ReadShard(t, i)
      OBVIOUS
    <3>2. PICK q : q = [task[t] EXCEPT !.col[i] = c]
      OBVIOUS
    <3>3. c \in Content
      BY <2>2, <3>1 DEF HashOk, Content
    <3>4. q \in TaskState /\ q.op = task[t].op /\ q.blob = task[t].blob /\ q.pc = task[t].pc
      BY <1>0, <3>2, <3>3 DEF TaskState
    <3>. QED
      BY <2>1, <2>2, <3>1, <3>2, <3>4
  <2>3. CASE Become(t, ClassifyAdvance([task[t] EXCEPT !.bad = @ \cup {i}], i))
    <3>1. PICK q : q = [task[t] EXCEPT !.bad = @ \cup {i}]
      OBVIOUS
    <3>2. q \in TaskState /\ q.op = task[t].op /\ q.blob = task[t].blob /\ q.pc = task[t].pc
      BY <1>0, <3>1 DEF TaskState
    <3>. QED
      BY <2>1, <2>3, <3>1, <3>2
  <2>. QED
    BY <1>3, <2>2, <2>3 DEF Classify
<1>4. ASSUME NEW i \in Shard, Backfill(t, i) PROVE \E x : Turns(t, x)
  <2>0. task[t].pc = "backfill"
    BY <1>4 DEF Backfill, At
  <2>1. ASSUME NEW q \in TaskState, q.op = task[t].op, q.blob = task[t].blob,
               q.pc = task[t].pc, Become(t, BackfillAdvance(q))
        PROVE  \E x : Turns(t, x)
    <3>1. PICK r : r = BackfillAdvance(q)
      OBVIOUS
    <3>. QED
      BY <1>1, <2>0, <2>1, <3>1, BackfillGoesOn
  <2>2. PICK next : next = [task[t] EXCEPT !.todo = @ \ {i}, !.tried = {}]
    OBVIOUS
  <2>3. /\ next \in TaskState /\ next.op = task[t].op /\ next.blob = task[t].blob
        /\ next.pc = task[t].pc
    BY <1>0, <2>2 DEF TaskState
  <2>4. CASE Become(t, BackfillAdvance(next))
    BY <2>1, <2>3, <2>4
  <2>5. CASE \E p \in Node : /\ HashOk(ReadPeer(t, p, i))
                             /\ Become(t, BackfillAdvance([next EXCEPT !.col[i] = ReadPeer(t, p, i)]))
    <3>1. PICK p \in Node : /\ HashOk(ReadPeer(t, p, i))
                            /\ Become(t, BackfillAdvance([next EXCEPT !.col[i] = ReadPeer(t, p, i)]))
      BY <2>5
    <3>2. PICK c : c = ReadPeer(t, p, i)
      OBVIOUS
    <3>3. PICK q : q = [next EXCEPT !.col[i] = c]
      OBVIOUS
    <3>4. c \in Content
      BY <3>1, <3>2 DEF HashOk, Content
    <3>5. q \in TaskState /\ q.op = next.op /\ q.blob = next.blob /\ q.pc = next.pc
      BY <2>3, <3>3, <3>4 DEF TaskState
    <3>. QED
      BY <2>1, <2>3, <3>1, <3>2, <3>3, <3>5
  <2>6. CASE \E p \in Node : Become(t, [task[t] EXCEPT !.tried = @ \cup {p}])
    <3>1. PICK p \in Node : Become(t, [task[t] EXCEPT !.tried = @ \cup {p}])
      BY <2>6
    <3>2. PICK r : r = [task[t] EXCEPT !.tried = @ \cup {p}]
      OBVIOUS
    <3>3. RepairGoesOn(task[t], r)
      BY <1>0, <2>0, <3>2 DEF RepairGoesOn, TaskState, RepairPc
    <3>. QED
      BY <1>0, <1>1, <2>0, <3>1, <3>2, <3>3
  <2>7. task[t].man.locs[i] \subseteq Node
    BY <2>0, RepairFacts DEF RepairOK, Manifest
  <2>. QED
    BY <1>4, <2>2, <2>4, <2>5, <2>6, <2>7 DEF Backfill
<1>5. ASSUME NEW i \in Shard, Rewrite(t, i) PROVE \E x : Turns(t, x)
  <2>1. PICK r : r = RewriteAdvance(task[t], i)
    OBVIOUS
  <2>2. RepairGoesOn(task[t], r)
    BY <1>0, <2>1, RewriteGoesOn
  <2>. QED
    BY <1>0, <1>1, <1>5, <2>1, <2>2 DEF Rewrite, At
<1>6. ASSUME NEW i \in Shard, NEW p \in Node, ReReplicate(t, i, p) PROVE \E x : Turns(t, x)
  <2>1. PICK q : q = [task[t] EXCEPT !.tried = @ \cup {p}]
    OBVIOUS
  <2>2. q \in TaskState /\ q.op = task[t].op /\ q.blob = task[t].blob
    BY <1>0, <2>1 DEF TaskState
  <2>3. PICK r : r = RewriteAdvance(q, i)
    OBVIOUS
  <2>4. RepairGoesOn(q, r)
    BY <2>2, <2>3, RewriteGoesOn
  <2>. QED
    BY <1>1, <1>6, <2>1, <2>2, <2>3, <2>4 DEF ReReplicate, At
<1>. QED
  BY <1>2, <1>3, <1>4, <1>5, <1>6 DEF RepairStep

\* A rename brings back only what it had the manifest of.
LEMMA NameTurns ==
    ASSUME IInv, SettleInv, NEW t \in Task, NameStep(t) PROVE \E r : Turns(t, r)
<1>1. ASSUME NameGet(t) PROVE \E x : Turns(t, x)
  <2>1. CASE manifests[task[t].blob] = None
    BY <1>1, <2>1, FinishTurns DEF NameGet
  <2>2. CASE manifests[task[t].blob] # None
    <3>1. PICK r : r = [task[t] EXCEPT !.pc = "namePut", !.man = manifests[task[t].blob]]
      OBVIOUS
    <3>2. r.op = task[t].op /\ r.pc = "namePut" /\ r.blob = task[t].blob
      BY <3>1, ActorFacts DEF TaskState
    <3>3. task[t].op = "name" /\ Become(t, r)
      BY <1>1, <2>2, <3>1 DEF NameGet, At, SettleInv, OpInv, NamePc
    <3>4. OpInv(r)
      BY <3>2, <3>3 DEF OpInv, RepairPc, NamePc
    <3>. QED
      BY <2>2, <3>2, <3>3, <3>4 DEF Turns, Revives
  <2>. QED
    BY <2>1, <2>2
<1>2. ASSUME NamePut(t) PROVE \E x : Turns(t, x)
  BY <1>2, FinishTurns DEF NamePut
<1>. QED
  BY <1>1, <1>2 DEF NameStep

\* Each step of a task, its failure included.
LEMMA TaskTurns ==
    ASSUME IInv, SettleInv, NEW t \in Task, TaskStep(t) \/ Fail(t) PROVE \E r : Turns(t, r)
<1>1. CASE Fail(t)
  BY <1>1, FinishTurns DEF Fail
<1>. QED
  BY <1>1, PutTurns, GetTurns, DeleteTurns, RepairTurns, NameTurns DEF TaskStep

\* A request that has just arrived has no manifest, or, a put, a fresh id.
LEMMA StartTurns ==
    ASSUME NEW t \in Task, NEW op, NEW pc, NEW n, NEW b, Start(t, op, pc, n, b),
           pc \in RepairPc => op = "repair", pc \in NamePc => op = "name", pc # "reply"
    PROVE  \E r : Turns(t, r)
<1>1. PICK r : r = [Idle EXCEPT !.op = op, !.pc = pc, !.node = n, !.blob = b]
  OBVIOUS
<1>2. r.op = op /\ r.pc = pc /\ r.man = None
  BY <1>1 DEF Idle
<1>3. OpInv(r) /\ \A x \in Blob : ~Revives(r, x)
  BY <1>2 DEF OpInv, Revives
<1>. QED
  BY <1>1, <1>3 DEF Start, Turns

\* A step of task t that turns it into a sound state keeps SettleInv, if what it
\* adds to the acknowledged deletes was put once.
LEMMA TurnKeeps ==
    ASSUME TypeOK, SettleInv, NEW t \in Task, NEW r, Turns(t, r),
           UNCHANGED home, \A b \in gone' : b \in gone \/ home[b] # None
    PROVE  SettleInv'
<1>1. \A u \in Task : task'[u] = r \/ task'[u] = task[u]
  BY DEF Turns, Become, TypeOK
<1>2. \A u \in Task : OpInv(task'[u])
  BY <1>1 DEF SettleInv, Turns
<1>3. \A u \in Task : OpInv(task[u])'
  BY <1>2 DEF OpInv
<1>. QED
  BY <1>3 DEF SettleInv

\* PutBackup's new id belongs to no deleted blob.
LEMMA StartPutKeeps ==
    ASSUME IInv, SettleInv, NEW t \in Task, NEW n \in Node, NEW b \in Blob, StartPut(t, n, b)
    PROVE  SettleInv' /\ SettledStep
<1>1. PICK r : r = [Idle EXCEPT !.op = "put", !.pc = "putShard", !.node = n,
                                !.blob = b, !.todo = Shard,
                                !.man = [locs |-> NoLocs, created |-> 0]]
  OBVIOUS
<1>2. r.op = "put" /\ r.pc = "putShard" /\ r.blob = b
  BY <1>1 DEF Idle
<1>3. \A u \in Task : task'[u] = r \/ task'[u] = task[u]
  BY <1>1 DEF StartPut, Become, IInv, TypeOK
<1>4. AnchorOf[n] # None
  BY TopologyAssumption, NoneAssumption
<1>5. \A y \in Blob : home[y] # None => home'[y] # None
  BY <1>4 DEF StartPut, IInv, TypeOK
<1>6. home[b] = None /\ gone' = gone /\ gone \subseteq Blob
  BY DEF StartPut, IInv, TypeOK
<1>7. \A u \in Task : OpInv(task[u])'
  <2>1. SUFFICES ASSUME NEW u \in Task PROVE OpInv(task[u])'
    OBVIOUS
  <2>2. CASE task'[u] = r
    BY <1>2, <2>2 DEF OpInv, RepairPc, NamePc
  <2>3. CASE task'[u] = task[u]
    <3>1. OpInv(task[u])
      BY DEF SettleInv
    <3>2. task[u].pc = "reply" => task[u].blob \in Blob
      BY ActorFacts
    <3>. QED
      BY <1>5, <2>3, <3>1, <3>2 DEF OpInv
  <2>. QED
    BY <1>3, <2>2, <2>3
<1>8. SettleInv'
  BY <1>5, <1>6, <1>7 DEF SettleInv
<1>9. \A y \in gone : y # b
  BY <1>6 DEF SettleInv
<1>10. \A y \in gone, u \in Task : MayRevive(u, y)' => MayRevive(u, y)
  BY <1>2, <1>3, <1>9 DEF MayRevive
<1>11. manifests' = manifests /\ store' = store
  BY DEF StartPut
<1>12. SettledStep
  BY <1>10, <1>11 DEF SettledStep
<1>. QED
  BY <1>8, <1>12

\* A step of task t that turns it into a sound state, lists only what t could
\* bring back and writes only what t could bring back.
LEMMA TurnSettles ==
    ASSUME IInv, NEW t \in Task, NEW r, Turns(t, r),
           \A b \in Blob : manifests[b] = None /\ ~Revives(task[t], b) => manifests'[b] = None,
           \A a \in Anchor, b \in Blob, i \in Shard :
               ~Revives(task[t], b) /\ store'[a][b][i] # store[a][b][i]
                   => store'[a][b][i] = "none"
    PROVE  SettledStep
<1>1. SUFFICES ASSUME NEW b \in gone, manifests[b] = None, \A u \in Task : ~MayRevive(u, b)
               PROVE  /\ manifests'[b] = None
                      /\ \A u \in Task : ~MayRevive(u, b)'
                      /\ \A a \in Anchor, i \in Shard :
                          store'[a][b][i] # store[a][b][i] =>
                              store'[a][b][i] = "none" \/ damaged' # damaged
  BY DEF SettledStep
<1>2. b \in Blob /\ ~Revives(task[t], b)
  BY <1>1 DEF IInv, TypeOK, MayRevive, Revives
<1>3. \A u \in Task : task'[u] = r \/ task'[u] = task[u]
  BY DEF Turns, Become, IInv, TypeOK
<1>4. ~Revives(r, b)
  BY <1>1, <1>2 DEF Turns
<1>5. \A u \in Task : ~MayRevive(u, b)'
  BY <1>1, <1>3, <1>4 DEF MayRevive, Revives
<1>. QED
  BY <1>1, <1>2, <1>5

\* A write to one shard of b leaves the other blobs' copies alone.
LEMMA WriteElsewhere ==
    ASSUME TypeOK, NEW a \in Anchor, NEW b \in Blob, NEW i \in Shard, NEW c,
           WriteShard(a, b, i, c) \/ UNCHANGED store
    PROVE  \A x \in Anchor, y \in Blob, j \in Shard :
               store'[x][y][j] # store[x][y][j] => y = b /\ store'[x][y][j] = c
<1>1. CASE WriteShard(a, b, i, c)
  BY <1>1 DEF WriteShard, TypeOK
<1>2. CASE UNCHANGED store
  BY <1>2
<1>. QED
  BY <1>1, <1>2

\* Every task can bring back what it lists, and what it writes to the anchors.
LEMMA TaskEffects ==
    ASSUME IInv, SettleInv, NEW t \in Task, TaskStep(t) \/ Fail(t)
    PROVE  /\ \A b \in Blob : manifests[b] = None /\ ~Revives(task[t], b) => manifests'[b] = None
           /\ \A a \in Anchor, b \in Blob, i \in Shard :
                ~Revives(task[t], b) /\ store'[a][b][i] # store[a][b][i]
                    => store'[a][b][i] = "none"
           /\ UNCHANGED home
           /\ \A b \in gone' : b \in gone \/ home[b] # None
<1>. DEFINE Lists == \A b \in Blob : manifests[b] = None /\ ~Revives(task[t], b) => manifests'[b] = None
            Writes == \A a \in Anchor, b \in Blob, i \in Shard :
                        ~Revives(task[t], b) /\ store'[a][b][i] # store[a][b][i]
                            => store'[a][b][i] = "none"
            Forgets == UNCHANGED home /\ \A b \in gone' : b \in gone \/ home[b] # None
<1>0. TypeOK /\ task[t] \in TaskState
  BY ActorFacts DEF IInv
<1>1. ASSUME UNCHANGED <<manifests, store, home, gone>> PROVE Lists /\ Writes /\ Forgets
  BY <1>1
<1>2. ASSUME task[t].pc \in PutPc
      PROVE  /\ task[t].blob \in Blob /\ AnchorOf[task[t].node] \in Anchor
             /\ Revives(task[t], task[t].blob)
  BY <1>2, PutFacts, NoneAssumption DEF PutOK, Revives, Manifest
<1>3. ASSUME task[t].pc \in {"rewrite", "reReplicate"}
      PROVE  /\ task[t].blob \in Blob /\ AnchorOf[task[t].node] \in Anchor
             /\ Revives(task[t], task[t].blob)
  BY <1>3, RepairFacts, TopologyAssumption, NoneAssumption
     DEF RepairOK, Revives, Manifest, SettleInv, OpInv, RepairPc
<1>4. ASSUME NEW a \in Anchor, NEW i \in Shard, NEW c,
             WriteShard(a, task[t].blob, i, c) \/ UNCHANGED store,
             task[t].blob \in Blob, Revives(task[t], task[t].blob),
             UNCHANGED <<manifests, history>>
      PROVE  Lists /\ Writes /\ Forgets
  <2>1. PICK b \in Blob : b = task[t].blob
    BY <1>4
  <2>2. \A x \in Anchor, y \in Blob, j \in Shard :
          store'[x][y][j] # store[x][y][j] => y = b /\ store'[x][y][j] = c
    BY <1>0, <1>4, <2>1, WriteElsewhere
  <2>. QED
    BY <1>4, <2>1, <2>2 DEF history
<1>5. ASSUME NEW i \in Shard, PutShard(t, i) PROVE Lists /\ Writes /\ Forgets
  BY <1>2, <1>4, <1>5 DEF PutShard, At, PutPc
<1>6. ASSUME NEW i \in Shard, NEW p \in Node, Replicate(t, i, p)
      PROVE  Lists /\ Writes /\ Forgets
  <2>1. WriteShard(AnchorOf[p], task[t].blob, i, "ok") \/ UNCHANGED store
    BY <1>6 DEF Replicate
  <2>2. AnchorOf[p] \in Anchor
    BY TopologyAssumption
  <2>. QED
    BY <1>2, <1>4, <1>6, <2>1, <2>2 DEF Replicate, At, PutPc
<1>7. ASSUME NEW i \in Shard, Rewrite(t, i) PROVE Lists /\ Writes /\ Forgets
  BY <1>3, <1>4, <1>7 DEF Rewrite, At
<1>8. ASSUME NEW i \in Shard, NEW p \in Node, ReReplicate(t, i, p)
      PROVE  Lists /\ Writes /\ Forgets
  <2>1. WriteShard(AnchorOf[p], task[t].blob, i, task[t].out) \/ UNCHANGED store
    BY <1>8 DEF ReReplicate
  <2>2. AnchorOf[p] \in Anchor
    BY TopologyAssumption
  <2>. QED
    BY <1>3, <1>4, <1>8, <2>1, <2>2 DEF ReReplicate, At
<1>9. ASSUME NEW i \in Shard, DelShard(t, i) PROVE Lists /\ Writes /\ Forgets
  <2>1. task[t].blob \in Blob /\ AnchorOf[task[t].node] \in Anchor
    BY <1>9, DeleteFacts DEF DelShard, At, DeletePc
  <2>2. PICK a \in Anchor, b \in Blob : a = AnchorOf[task[t].node] /\ b = task[t].blob
    BY <2>1
  <2>3. \A x \in Anchor, y \in Blob, j \in Shard :
          store'[x][y][j] # store[x][y][j] => y = b /\ store'[x][y][j] = "none"
    BY <1>0, <1>9, <2>2, WriteElsewhere DEF DelShard
  <2>. QED
    BY <1>9, <2>3 DEF DelShard, history
<1>10. ASSUME PutManifest(t) PROVE Lists /\ Writes /\ Forgets
  <2>1. task[t].blob \in Blob /\ Revives(task[t], task[t].blob)
    BY <1>2, <1>10 DEF PutManifest, At, PutPc
  <2>2. \A y \in Blob : y # task[t].blob => manifests'[y] = manifests[y]
    BY <1>0, <1>10 DEF PutManifest, TypeOK
  <2>. QED
    BY <1>10, <2>1, <2>2 DEF PutManifest
<1>11. ASSUME NamePut(t) PROVE Lists /\ Writes /\ Forgets
  <2>1. task[t].blob \in Blob /\ Revives(task[t], task[t].blob)
    BY <1>11, ActorFacts, NoneAssumption
       DEF NamePut, At, SnapPc, SettleInv, OpInv, NamePc, Revives, Manifest
  <2>2. \A y \in Blob : y # task[t].blob => manifests'[y] = manifests[y]
    BY <1>0, <1>11 DEF NamePut, TypeOK
  <2>. QED
    BY <1>11, <2>1, <2>2 DEF NamePut, history
<1>12. ASSUME DelManifest(t) PROVE Lists /\ Writes /\ Forgets
  <2>1. \A y \in Blob : manifests'[y] = manifests[y] \/ manifests'[y] = None
    BY <1>0, <1>12 DEF DelManifest, TypeOK
  <2>. QED
    BY <1>12, <2>1 DEF DelManifest, history
<1>13. ASSUME DelReply(t) PROVE Lists /\ Writes /\ Forgets
  <2>1. home[task[t].blob] # None
    BY <1>13 DEF DelReply, At, SettleInv, OpInv
  <2>. QED
    BY <1>13, <2>1 DEF DelReply
<1>14. ASSUME PutStep(t) PROVE Lists /\ Writes /\ Forgets
  <2>1. CASE PutReply(t)
    BY <1>1, <2>1 DEF PutReply
  <2>. QED
    BY <1>5, <1>6, <1>10, <1>14, <2>1 DEF PutStep
<1>15. ASSUME GetStep(t) PROVE Lists /\ Writes /\ Forgets
  BY <1>1, <1>15 DEF GetStep, GetManifest, LoadFromAnchor, LoadFromPeer, GetDecode, GetReply, history
<1>16. ASSUME DeleteStep(t) PROVE Lists /\ Writes /\ Forgets
  <2>1. CASE DelCheck(t) \/ DelList(t)
    BY <1>1, <2>1 DEF DelCheck, DelList, history
  <2>. QED
    BY <1>9, <1>12, <1>13, <1>16, <2>1 DEF DeleteStep
<1>17. ASSUME RepairStep(t) PROVE Lists /\ Writes /\ Forgets
  <2>1. CASE RepManifest(t) \/ \E i \in Shard : Classify(t, i) \/ Backfill(t, i)
    BY <1>1, <2>1 DEF RepManifest, Classify, Backfill, history
  <2>. QED
    BY <1>7, <1>8, <1>17, <2>1 DEF RepairStep
<1>18. ASSUME NameGet(t) \/ Fail(t) PROVE Lists /\ Writes /\ Forgets
  BY <1>1, <1>18 DEF NameGet, Fail, history
<1>19. Lists /\ Writes /\ Forgets
  BY <1>11, <1>14, <1>15, <1>16, <1>17, <1>18 DEF TaskStep, NameStep
<1>. QED
  BY <1>19

\* Every step settles, and keeps what this rests on.
LEMMA SettledNext ==
    ASSUME IInv, SettleInv, [Next]_vars PROVE SettleInv' /\ SettledStep
<1>0. TypeOK
  BY DEF IInv
<1>1. ASSUME NEW t \in Task, TaskStep(t) \/ Fail(t) PROVE SettleInv' /\ SettledStep
  <2>1. PICK r : Turns(t, r)
    BY <1>1, TaskTurns
  <2>2. SettleInv'
    BY <1>0, <1>1, <2>1, TaskEffects, TurnKeeps
  <2>3. SettledStep
    BY <1>1, <2>1, TaskEffects, TurnSettles
  <2>. QED
    BY <2>2, <2>3
<1>2. ASSUME NEW t \in Task, NEW op, NEW pc, NEW n, NEW b, Start(t, op, pc, n, b),
             pc \in RepairPc => op = "repair", pc \in NamePc => op = "name", pc # "reply",
             UNCHANGED <<manifests, store, history>>
      PROVE  SettleInv' /\ SettledStep
  <2>1. PICK r : Turns(t, r)
    BY <1>2, StartTurns
  <2>2. SettleInv'
    BY <1>0, <1>2, <2>1, TurnKeeps DEF history
  <2>3. SettledStep
    BY <1>2, <2>1, TurnSettles
  <2>. QED
    BY <2>2, <2>3
<1>3. ASSUME NEW t \in Client, StartRequest(t) PROVE SettleInv' /\ SettledStep
  <2>1. t \in Task
    BY DEF Task
  <2>2. PICK b \in Blob :
          \/ \E n \in Entry : \/ StartPut(t, n, b) \/ StartGet(t, n, b)
                              \/ StartDelete(t, n, b) \/ StartRepair(t, n, b)
          \/ StartName(t, b)
    BY <1>3 DEF StartRequest
  <2>3. ASSUME NEW n \in Entry, StartPut(t, n, b) PROVE SettleInv' /\ SettledStep
    BY <2>1, <2>3, StartPutKeeps, TopologyAssumption
  <2>4. ASSUME NEW n \in Entry, StartGet(t, n, b) PROVE SettleInv' /\ SettledStep
    BY <1>2, <2>1, <2>4 DEF StartGet, RepairPc, NamePc
  <2>5. ASSUME NEW n \in Entry, StartDelete(t, n, b) PROVE SettleInv' /\ SettledStep
    <3>1. PICK pc \in {"delCheck", "delList"} : Start(t, "delete", pc, n, b)
      BY <2>5 DEF StartDelete
    <3>. QED
      BY <1>2, <2>1, <2>5, <3>1 DEF StartDelete, RepairPc, NamePc
  <2>6. ASSUME NEW n \in Entry, StartRepair(t, n, b) PROVE SettleInv' /\ SettledStep
    BY <1>2, <2>1, <2>6 DEF StartRepair, RepairPc, NamePc
  <2>7. ASSUME StartName(t, b) PROVE SettleInv' /\ SettledStep
    BY <1>2, <2>1, <2>7 DEF StartName, RepairPc, NamePc
  <2>. QED
    BY <2>2, <2>3, <2>4, <2>5, <2>6, <2>7
<1>4. ASSUME NEW s \in Sweeper, NEW b \in Blob, SweepNext(s, b)
      PROVE  SettleInv' /\ SettledStep
  BY <1>2, <1>4 DEF SweepNext, Task, RepairPc, NamePc
<1>5. ASSUME UNCHANGED <<manifests, store, task, history>> PROVE SettleInv' /\ SettledStep
  BY <1>5 DEF SettleInv, OpInv, SettledStep, MayRevive, history
<1>6. ASSUME NEW a \in Anchor, NEW b \in Blob, NEW i \in Shard, Damage(a, b, i)
      PROVE  SettleInv' /\ SettledStep
  <2>1. UNCHANGED <<manifests, task, home, gone>> /\ damaged' # damaged
    BY <1>6 DEF Damage
  <2>. QED
    BY <2>1 DEF SettleInv, OpInv, SettledStep, MayRevive
<1>7. CASE Environment
  BY <1>1, <1>5, <1>6, <1>7 DEF Environment, Tick
<1>8. ASSUME NEW s \in Sweeper, SweepStep(s) PROVE SettleInv' /\ SettledStep
  BY <1>4, <1>5, <1>8 DEF SweepStep, SweepList
<1>9. CASE UNCHANGED vars
  BY <1>5, <1>9 DEF vars
<1>. QED
  BY <1>1, <1>3, <1>7, <1>8, <1>9 DEF Next

\* After an acknowledged delete, once the puts, renames and repairs that had the
\* blob's manifest have ended, nothing relists the blob or writes its shards.
THEOREM DeletesSettle == Spec => DeleteSettles
<1>1. Init => SettleInv
  <2>1. Idle.pc = "idle"
    BY DEF Idle
  <2>. QED
    BY <2>1 DEF Init, SettleInv, OpInv, RepairPc, NamePc
<1>2. IInv /\ SettleInv /\ [Next]_vars => SettleInv' /\ [SettledStep]_vars
  BY SettledNext
<1>. QED
  BY <1>1, <1>2, Invariance, PTL DEF Spec, DeleteSettles

-----------------------------------------------------------------------------
(* Sums over finite sets, by the smallest counterexample. *)

\* A non-empty set of subsets of a finite set has a smallest one: induction over
\* finite sets by the smallest counterexample.
LEMMA Smallest ==
    ASSUME NEW S, IsFiniteSet(S), NEW T, T \subseteq SUBSET S, T # {}
    PROVE  \E m \in T : IsFiniteSet(m) /\ \A s \in T : s \subseteq m => s = m
<1>1. IsWellFoundedOn(StrictSubsetOrdering(S), FiniteSubsetsOf(S))
  BY FS_StrictSubsetOrderingWellFounded
<1>2. FiniteSubsetsOf(S) = SUBSET S
  BY FS_FiniteSubsetsOfFinite
<1>3. PICK m \in T : \A s \in T : ~(<<s, m>> \in StrictSubsetOrdering(S))
  BY <1>1, <1>2, WFMin
<1>4. \A s \in T : s \subseteq m => s = m
  BY <1>3 DEF StrictSubsetOrdering
<1>5. IsFiniteSet(m)
  BY FS_Subset
<1>. QED  BY <1>4, <1>5

\* The element a sum takes first, and what is left.
First(s) == CHOOSE x \in s : TRUE
Rest(s)  == s \ {First(s)}

\* The function over the subsets of S by which the library defines a sum.
Summing(g, f, S) ==
    g = [s \in SUBSET S |-> IF s = {} THEN 0 ELSE f[First(s)] + g[Rest(s)]]

\* The library's sum is that function's value at S.
LEMMA SumIs ==
    ASSUME NEW f, NEW S
    PROVE  SumFunctionOnSet(f, S) = (CHOOSE g : Summing(g, f, S))[S]
BY DEF SumFunctionOnSet, FoldFunctionOnSet, MapThenFoldSet, Summing, First, Rest

\* The first element is one of the set, and the rest is smaller.
LEMMA RestIs ==
    ASSUME NEW s, s # {}
    PROVE  First(s) \in s /\ Rest(s) \subseteq s /\ Rest(s) # s /\ s = Rest(s) \cup {First(s)}
BY DEF First, Rest

\* The sum as its own equation.
Unfolds(f, s) ==
    SumFunctionOnSet(f, s) = IF s = {} THEN 0 ELSE f[First(s)] + SumFunctionOnSet(f, Rest(s))

\* The equation holds of every finite set: below a smallest counterexample the
\* sums themselves are the function, so it exists, and it is the only one.
LEMMA SumUnfolds ==
    ASSUME NEW f, NEW S, IsFiniteSet(S)
    PROVE  Unfolds(f, S)
<1>. SUFFICES ASSUME ~Unfolds(f, S) PROVE FALSE
  OBVIOUS
<1>T. PICK T : T = {s \in SUBSET S : ~Unfolds(f, s)}  OBVIOUS
<1>1. PICK m \in T : IsFiniteSet(m) /\ \A s \in T : s \subseteq m => s = m
  <2>1. T \subseteq SUBSET S /\ T # {}
    BY <1>T
  <2>. QED  BY <2>1, Smallest
<1>2. ~Unfolds(f, m) /\ \A s \in SUBSET m : s # m => Unfolds(f, s)
  BY <1>1, <1>T
<1>st. PICK top : top = IF m = {} THEN 0 ELSE f[First(m)] + SumFunctionOnSet(f, Rest(m))
  OBVIOUS
<1>g. PICK g : g = [s \in SUBSET m |-> IF s = m THEN top ELSE SumFunctionOnSet(f, s)]
  OBVIOUS
<1>3. Summing(g, f, m)
  <2>. DEFINE h == [s \in SUBSET m |-> IF s = {} THEN 0 ELSE f[First(s)] + g[Rest(s)]]
  <2>1. ASSUME NEW s \in SUBSET m
        PROVE  g[s] = IF s = {} THEN 0 ELSE f[First(s)] + g[Rest(s)]
    <3>1. s # {} => Rest(s) \in SUBSET m /\ Rest(s) # m
      BY RestIs
    <3>2. s # {} => g[Rest(s)] = SumFunctionOnSet(f, Rest(s))
      BY <1>g, <3>1
    <3>3. CASE s = m
      BY <1>st, <1>g, <3>2, <3>3
    <3>4. CASE s # m
      <4>1. g[s] = SumFunctionOnSet(f, s)
        BY <1>g, <3>4
      <4>2. Unfolds(f, s)
        BY <1>2, <3>4
      <4>. QED  BY <3>2, <4>1, <4>2 DEF Unfolds
    <3>. QED  BY <3>3, <3>4
  <2>2. g = [s \in SUBSET m |-> g[s]]
    BY <1>g
  <2>3. g = h
    BY <2>1, <2>2
  <2>. QED  BY <2>3 DEF Summing
<1>G. PICK G : G = CHOOSE G1 : Summing(G1, f, m)  OBVIOUS
<1>4. Summing(G, f, m) /\ SumFunctionOnSet(f, m) = G[m]
  BY <1>3, <1>G, SumIs
<1>5. \A s \in SUBSET m : G[s] = IF s = {} THEN 0 ELSE f[First(s)] + G[Rest(s)]
  BY <1>4 DEF Summing
<1>6. ASSUME NEW s \in SUBSET m, s # m
      PROVE  G[s] = SumFunctionOnSet(f, s)
  <2>. SUFFICES ASSUME G[s] # SumFunctionOnSet(f, s) PROVE FALSE
    OBVIOUS
  <2>U. PICK U : U = {t \in SUBSET m : t # m /\ G[t] # SumFunctionOnSet(f, t)}  OBVIOUS
  <2>1. PICK u \in U : \A t \in U : t \subseteq u => t = u
    <3>1. U \subseteq SUBSET m /\ U # {}
      BY <1>6, <2>U
    <3>. QED  BY <1>1, <3>1, Smallest
  <2>2. u \in SUBSET m /\ u # m /\ G[u] # SumFunctionOnSet(f, u)
    BY <2>1, <2>U
  <2>3. u # {} => G[Rest(u)] = SumFunctionOnSet(f, Rest(u))
    <3>. SUFFICES ASSUME u # {} PROVE G[Rest(u)] = SumFunctionOnSet(f, Rest(u))
      OBVIOUS
    <3>1. Rest(u) \in SUBSET m /\ Rest(u) # m /\ Rest(u) # u /\ Rest(u) \subseteq u
      BY <2>2, RestIs
    <3>2. Rest(u) \notin U
      BY <2>1, <3>1
    <3>. QED  BY <2>U, <3>1, <3>2
  <2>4. Unfolds(f, u)
    BY <1>2, <2>2
  <2>. QED  BY <1>5, <2>2, <2>3, <2>4 DEF Unfolds
<1>7. m # {} => Rest(m) \in SUBSET m /\ Rest(m) # m
  BY RestIs
<1>8. m # {} => G[Rest(m)] = SumFunctionOnSet(f, Rest(m))
  BY <1>6, <1>7
<1>9. Unfolds(f, m)
  BY <1>4, <1>5, <1>8 DEF Unfolds
<1>. QED  BY <1>2, <1>9

\* Nothing sums to zero.
LEMMA SumEmpty ==
    ASSUME NEW f
    PROVE  SumFunctionOnSet(f, {}) = 0
BY FS_EmptySet, SumUnfolds DEF Unfolds

\* A sum of natural numbers is one.
LEMMA SumNat ==
    ASSUME NEW f, NEW S, IsFiniteSet(S), \A x \in S : f[x] \in Nat
    PROVE  SumFunctionOnSet(f, S) \in Nat
<1>. SUFFICES ASSUME SumFunctionOnSet(f, S) \notin Nat PROVE FALSE
  OBVIOUS
<1>T. PICK T : T = {s \in SUBSET S : SumFunctionOnSet(f, s) \notin Nat}  OBVIOUS
<1>1. PICK m \in T : IsFiniteSet(m) /\ \A s \in T : s \subseteq m => s = m
  <2>1. T \subseteq SUBSET S /\ T # {}
    BY <1>T
  <2>. QED  BY <2>1, Smallest
<1>2. SumFunctionOnSet(f, m) \notin Nat /\ m \in SUBSET S
  BY <1>1, <1>T
<1>3. m # {}
  BY <1>2, SumEmpty
<1>4. Rest(m) \subseteq m /\ Rest(m) # m /\ First(m) \in m
  BY <1>3, RestIs
<1>5. SumFunctionOnSet(f, Rest(m)) \in Nat
  BY <1>1, <1>2, <1>4, <1>T
<1>6. SumFunctionOnSet(f, m) = f[First(m)] + SumFunctionOnSet(f, Rest(m))
  BY <1>1, <1>3, SumUnfolds DEF Unfolds
<1>7. f[First(m)] \in Nat
  BY <1>2, <1>4
<1>. QED  BY <1>2, <1>5, <1>6, <1>7

\* A sum depends on the values in the set only.
LEMMA SumExt ==
    ASSUME NEW f, NEW g, NEW S, IsFiniteSet(S), \A x \in S : f[x] = g[x]
    PROVE  SumFunctionOnSet(f, S) = SumFunctionOnSet(g, S)
<1>. SUFFICES ASSUME SumFunctionOnSet(f, S) # SumFunctionOnSet(g, S) PROVE FALSE
  OBVIOUS
<1>T. PICK T : T = {s \in SUBSET S : SumFunctionOnSet(f, s) # SumFunctionOnSet(g, s)}
  OBVIOUS
<1>1. PICK m \in T : IsFiniteSet(m) /\ \A s \in T : s \subseteq m => s = m
  <2>1. T \subseteq SUBSET S /\ T # {}
    BY <1>T
  <2>. QED  BY <2>1, Smallest
<1>2. SumFunctionOnSet(f, m) # SumFunctionOnSet(g, m) /\ m \in SUBSET S
  BY <1>1, <1>T
<1>3. m # {}
  BY <1>2, SumEmpty
<1>4. Rest(m) \subseteq m /\ Rest(m) # m /\ First(m) \in m
  BY <1>3, RestIs
<1>5. SumFunctionOnSet(f, Rest(m)) = SumFunctionOnSet(g, Rest(m))
  BY <1>1, <1>2, <1>4, <1>T
<1>6. /\ SumFunctionOnSet(f, m) = f[First(m)] + SumFunctionOnSet(f, Rest(m))
      /\ SumFunctionOnSet(g, m) = g[First(m)] + SumFunctionOnSet(g, Rest(m))
  BY <1>1, <1>3, SumUnfolds DEF Unfolds
<1>. QED  BY <1>2, <1>4, <1>5, <1>6

\* Any element may be taken first.
Takes(f, s) ==
    \A x \in s : SumFunctionOnSet(f, s) = f[x] + SumFunctionOnSet(f, s \ {x})

\* It holds of every finite set: with two elements to choose from, both orders give
\* the sum of the rest plus the two.
LEMMA SumTake ==
    ASSUME NEW f, NEW S, IsFiniteSet(S), \A x \in S : f[x] \in Nat
    PROVE  Takes(f, S)
<1>. SUFFICES ASSUME ~Takes(f, S) PROVE FALSE
  OBVIOUS
<1>T. PICK T : T = {s \in SUBSET S : ~Takes(f, s)}  OBVIOUS
<1>1. PICK m \in T : IsFiniteSet(m) /\ \A s \in T : s \subseteq m => s = m
  <2>1. T \subseteq SUBSET S /\ T # {}
    BY <1>T
  <2>. QED  BY <2>1, Smallest
<1>2. ~Takes(f, m) /\ m \in SUBSET S
  BY <1>1, <1>T
<1>3. PICK x \in m : SumFunctionOnSet(f, m) # f[x] + SumFunctionOnSet(f, m \ {x})
  BY <1>2 DEF Takes
<1>c. PICK c : c = First(m)  OBVIOUS
<1>4. c \in m /\ SumFunctionOnSet(f, m) = f[c] + SumFunctionOnSet(f, m \ {c})
  BY <1>1, <1>3, <1>c, RestIs, SumUnfolds DEF Unfolds, Rest
<1>5. x # c
  BY <1>3, <1>4
<1>6. Takes(f, m \ {c}) /\ Takes(f, m \ {x})
  BY <1>1, <1>2, <1>3, <1>4, <1>T
<1>d. PICK d : d = (m \ {c}) \ {x}  OBVIOUS
<1>7. SumFunctionOnSet(f, m \ {c}) = f[x] + SumFunctionOnSet(f, d)
  BY <1>3, <1>5, <1>6, <1>d DEF Takes
<1>8. SumFunctionOnSet(f, m \ {x}) = f[c] + SumFunctionOnSet(f, d)
  <2>1. d = (m \ {x}) \ {c}
    BY <1>d
  <2>. QED  BY <1>4, <1>5, <1>6, <2>1 DEF Takes
<1>9. SumFunctionOnSet(f, d) \in Nat
  <2>1. IsFiniteSet(d) /\ d \subseteq S
    BY <1>1, <1>2, <1>d, FS_Subset
  <2>. QED  BY <2>1, SumNat
<1>10. f[x] \in Nat /\ f[c] \in Nat
  BY <1>2, <1>3, <1>4
<1>. QED  BY <1>3, <1>4, <1>7, <1>8, <1>9, <1>10

\* A change at one element of the set changes the sum by as much.
LEMMA SumMoves ==
    ASSUME NEW S, IsFiniteSet(S), NEW f, NEW g, NEW x \in S,
           \A y \in S : f[y] \in Nat /\ g[y] \in Nat,
           \A y \in S \ {x} : f[y] = g[y]
    PROVE  \E rest \in Nat : /\ SumFunctionOnSet(f, S) = f[x] + rest
                             /\ SumFunctionOnSet(g, S) = g[x] + rest
<1>1. SumFunctionOnSet(f, S) = f[x] + SumFunctionOnSet(f, S \ {x})
  BY SumTake DEF Takes
<1>2. SumFunctionOnSet(g, S) = g[x] + SumFunctionOnSet(g, S \ {x})
  BY SumTake DEF Takes
<1>3. IsFiniteSet(S \ {x})
  BY FS_Subset
<1>4. SumFunctionOnSet(f, S \ {x}) \in Nat
  BY <1>3, SumNat
<1>5. SumFunctionOnSet(f, S \ {x}) = SumFunctionOnSet(g, S \ {x})
  BY <1>3, SumExt
<1>. QED
  BY <1>1, <1>2, <1>4, <1>5

-----------------------------------------------------------------------------
(* SweepStatus. Its behaviours are behaviours of BlobLifecycle, so all of the *)
(* above holds of them, and its counts are complete.                          *)

\* A step of the sweep's rounds, and of the requests beside them, is a step of
\* BlobLifecycle or leaves its state alone.
LEMMA RoundStep == ASSUME SNext PROVE [Next]_vars
<1>0. Client \subseteq Task /\ Sweeper \subseteq Task
  BY DEF Task
<1>1. ASSUME NEW t \in Task, Proceed(t) PROVE Next
  <2>1. TaskStep(t)
    BY <1>1 DEF Proceed, TaskStep, RepairStep
  <2>. QED  BY <2>1 DEF Next
<1>2. ASSUME NEW t \in Task, Mend(t) PROVE Next
  <2>1. TaskStep(t)
    BY <1>2 DEF Mend, TaskStep, RepairStep
  <2>. QED  BY <2>1 DEF Next
<1>3. ASSUME NEW t \in Task, Borrow(t) PROVE Next
  <2>1. TaskStep(t)
    BY <1>3 DEF Borrow, TaskStep, RepairStep
  <2>. QED  BY <2>1 DEF Next
<1>4. ASSUME NEW s \in Sweeper, RoundStart(s) \/ RoundVisit(s) PROVE Next
  BY <1>4 DEF RoundStart, RoundVisit, SweepStep, Next
<1>5. ASSUME NEW s \in Sweeper, RoundStartBlind(s) \/ RoundEnd(s) PROVE UNCHANGED vars
  BY <1>5 DEF RoundStartBlind, RoundEnd
<1>6. ASSUME NEW s \in Sweeper, Sweeps(s) PROVE [Next]_vars
  BY <1>0, <1>1, <1>2, <1>3, <1>4, <1>5, <1>6 DEF Sweeps
<1>7. ASSUME NEW t \in Client, StartRequest(t) PROVE Next
  BY <1>7 DEF Next
<1>8. ASSUME Environment PROVE Next
  BY <1>8 DEF Next
<1>. QED
  BY <1>0, <1>1, <1>2, <1>3, <1>6, <1>7, <1>8 DEF SNext

\* The sweep with its rounds and status implements BlobLifecycle: every safety
\* property above holds while the status is kept.
THEOREM RoundsImplement == SSpec => Spec
<1>1. SInit => Init
  BY DEF SInit
<1>2. [SNext]_svars => [Next]_vars
  BY RoundStep DEF svars
<1>. QED
  BY <1>1, <1>2, PTL DEF SSpec, Spec

Rewriting == {"rewrite", "reReplicate"}

\* No repair fails half-way, and none is asked for by the repair route.
Calm == "repair" \notin Ops /\ Faulty = {}

\* Rewritten, of a task's state.
Mended(r) ==
    IF r.pc \in Rewriting
    THEN Cardinality(r.bad \ r.todo) + (IF r.pc = "reReplicate" THEN 1 ELSE 0)
    ELSE 0

\* A repair rewrites what it classified as bad.
LoopInv(r) == r.pc \in Rewriting => r.todo \subseteq r.bad

RoundSum == SumFunctionOnSet([s \in Sweeper |-> round[s].repaired], Sweeper)
WorkSum  == SumFunctionOnSet([t \in Task |-> Rewritten(t)], Task)

Complete == healed <= status.total_repaired + RoundSum + WorkSum

CountType ==
    /\ round \in [Sweeper -> [on : BOOLEAN, repaired : Nat, unrepairable : Nat]]
    /\ status \in [last_unrepairable : Nat, total_repaired : Nat]

\* Every repair of a client was started by a degraded read, and so reports.
OwnInv ==
    /\ \A t \in Task : LoopInv(task[t])
    /\ \A t \in Client : task[t].op = "repair" => t \in reactive

SInv ==
    /\ IInv /\ SettleInv
    /\ CountType /\ healed \in Nat
    /\ Calm => OwnInv /\ Complete

\* How many shards a repair has rewritten is a number.
LEMMA MendedNat == ASSUME NEW r \in TaskState PROVE Mended(r) \in Nat /\ Cardinality(r.bad) \in Nat
<1>1. r.bad \subseteq Shard /\ IsFiniteSet(Shard)
  BY ParamsAssumption, FS_Interval DEF TaskState, Shard
<1>2. IsFiniteSet(r.bad) /\ IsFiniteSet(r.bad \ r.todo)
  BY <1>1, FS_Subset
<1>3. Cardinality(r.bad) \in Nat /\ Cardinality(r.bad \ r.todo) \in Nat
  BY <1>2, FS_CardinalityType
<1>. QED
  BY <1>3 DEF Mended

\* Only task t moves: the work in progress changes by what t has done.
LEMMA WorkMoves ==
    ASSUME IInv, IInv', NEW t \in Task, \A u \in Task \ {t} : task'[u] = task[u]
    PROVE  \E rest \in Nat : /\ WorkSum = Mended(task[t]) + rest
                             /\ WorkSum' = Mended(task'[t]) + rest
<1>1. PICK f : f = [u \in Task |-> Mended(task[u])]
  OBVIOUS
<1>2. PICK g : g = [u \in Task |-> Mended(task'[u])]
  OBVIOUS
<1>3. WorkSum = SumFunctionOnSet(f, Task) /\ WorkSum' = SumFunctionOnSet(g, Task)
  BY <1>1, <1>2 DEF WorkSum, Rewritten, Mended, Rewriting
<1>4. IsFiniteSet(Task)
  BY TasksAssumption, FS_Union DEF Task
<1>5. \A u \in Task : f[u] \in Nat /\ g[u] \in Nat
  <2>1. \A u \in Task : task[u] \in TaskState /\ task'[u] \in TaskState
    BY DEF IInv, TypeOK
  <2>. QED  BY <1>1, <1>2, <2>1, MendedNat
<1>6. \A u \in Task \ {t} : f[u] = g[u]
  BY <1>1, <1>2
<1>7. \E rest \in Nat : /\ SumFunctionOnSet(f, Task) = f[t] + rest
                        /\ SumFunctionOnSet(g, Task) = g[t] + rest
  BY <1>4, <1>5, <1>6, SumMoves
<1>. QED
  BY <1>1, <1>2, <1>3, <1>7

\* Only sweep s moves: the rounds' counts change by what s adds.
LEMMA RoundMoves ==
    ASSUME CountType, CountType', NEW s \in Sweeper,
           \A u \in Sweeper \ {s} : round'[u].repaired = round[u].repaired
    PROVE  \E rest \in Nat : /\ RoundSum = round[s].repaired + rest
                             /\ RoundSum' = round'[s].repaired + rest
<1>1. PICK f : f = [u \in Sweeper |-> round[u].repaired]
  OBVIOUS
<1>2. PICK g : g = [u \in Sweeper |-> round'[u].repaired]
  OBVIOUS
<1>3. RoundSum = SumFunctionOnSet(f, Sweeper) /\ RoundSum' = SumFunctionOnSet(g, Sweeper)
  BY <1>1, <1>2 DEF RoundSum
<1>4. IsFiniteSet(Sweeper)
  BY TasksAssumption
<1>5. \A u \in Sweeper : f[u] \in Nat /\ g[u] \in Nat
  BY <1>1, <1>2 DEF CountType
<1>6. \A u \in Sweeper \ {s} : f[u] = g[u]
  BY <1>1, <1>2
<1>7. \E rest \in Nat : /\ SumFunctionOnSet(f, Sweeper) = f[s] + rest
                        /\ SumFunctionOnSet(g, Sweeper) = g[s] + rest
  BY <1>4, <1>5, <1>6, SumMoves
<1>. QED
  BY <1>1, <1>2, <1>3, <1>7

\* What the rounds and the total hold are numbers.
LEMMA RoundSumNat == ASSUME CountType PROVE RoundSum \in Nat /\ status.total_repaired \in Nat
<1>1. PICK f : f = [u \in Sweeper |-> round[u].repaired]
  OBVIOUS
<1>2. \A u \in Sweeper : f[u] \in Nat
  BY <1>1 DEF CountType
<1>3. SumFunctionOnSet(f, Sweeper) \in Nat
  BY <1>2, TasksAssumption, SumNat
<1>. QED
  BY <1>1, <1>3 DEF RoundSum, CountType

\* What the published total and the rounds hold grew by at least n.
Grows(n) ==
    status.total_repaired + RoundSum + n <= status'.total_repaired + RoundSum'

\* A step by task t that heals up shards and reports n keeps the counts complete
\* if what t had rewritten, and up, are in its new state or in n.
LEMMA CountsKept ==
    ASSUME IInv, IInv', CountType, CountType', healed \in Nat, Complete,
           NEW t \in Task, \A u \in Task \ {t} : task'[u] = task[u],
           NEW up \in Nat, healed' = healed + up,
           NEW n \in Nat, Grows(n),
           Mended(task[t]) + up <= Mended(task'[t]) + n
    PROVE  Complete'
<1>1. PICK rest \in Nat : WorkSum = Mended(task[t]) + rest /\ WorkSum' = Mended(task'[t]) + rest
  BY WorkMoves
<1>2. Mended(task[t]) \in Nat /\ Mended(task'[t]) \in Nat
  <2>1. task[t] \in TaskState /\ task'[t] \in TaskState
    BY DEF IInv, TypeOK
  <2>. QED  BY <2>1, MendedNat
<1>3. /\ RoundSum \in Nat /\ status.total_repaired \in Nat
      /\ RoundSum' \in Nat /\ status'.total_repaired \in Nat
  <2>1. RoundSum \in Nat /\ status.total_repaired \in Nat
    BY RoundSumNat
  <2>2. (RoundSum \in Nat /\ status.total_repaired \in Nat)'
    BY RoundSumNat, PTL
  <2>. QED  BY <2>1, <2>2
<1>. QED
  BY <1>1, <1>2, <1>3 DEF Complete, Grows

\* A repair has returned: its shards are in its sweep's round, or in the total.
LEMMA ReportedCounts ==
    ASSUME CountType, NEW t \in Task, NEW n \in Nat, NEW k \in Nat, Reported(t, n, k)
    PROVE  CountType' /\ (t \in Sweeper \/ t \in reactive => Grows(n)) /\ (n = 0 => Grows(n))
<1>1. CountType'
  <2>1. round' \in [Sweeper -> [on : BOOLEAN, repaired : Nat, unrepairable : Nat]]
    <3>1. CASE t \in Sweeper
      <4>1. PICK r : r = round[t]
        OBVIOUS
      <4>2. r \in [on : BOOLEAN, repaired : Nat, unrepairable : Nat]
        BY <3>1, <4>1 DEF CountType
      <4>n. PICK more : more = r.repaired + n
        OBVIOUS
      <4>k. PICK lost : lost = r.unrepairable + k
        OBVIOUS
      <4>m. more \in Nat /\ lost \in Nat
        BY <4>2, <4>n, <4>k
      <4>3. PICK q : q = [r EXCEPT !.repaired = more, !.unrepairable = lost]
        OBVIOUS
      <4>4. q \in [on : BOOLEAN, repaired : Nat, unrepairable : Nat]
        BY <4>2, <4>3, <4>m, Zenon
      <4>5. round' = [round EXCEPT ![t] = q]
        BY <3>1, <4>1, <4>2, <4>3, <4>n, <4>k DEF Reported, CountType
      <4>. QED  BY <4>4, <4>5 DEF CountType
    <3>2. CASE t \notin Sweeper
      BY <3>2 DEF Reported, CountType
    <3>. QED  BY <3>1, <3>2
  <2>2. status' \in [last_unrepairable : Nat, total_repaired : Nat]
    BY DEF Reported, CountType
  <2>. QED  BY <2>1, <2>2 DEF CountType
<1>2. /\ RoundSum \in Nat /\ status.total_repaired \in Nat
      /\ status'.total_repaired \in Nat /\ status.total_repaired <= status'.total_repaired
  <2>1. status'.total_repaired \in {status.total_repaired, status.total_repaired + n}
    BY DEF Reported, CountType
  <2>. QED  BY <2>1, RoundSumNat
<1>3. CASE t \in Sweeper
  <2>1. /\ \A u \in Sweeper \ {t} : round'[u].repaired = round[u].repaired
        /\ round'[t].repaired = round[t].repaired + n
        /\ round[t].repaired \in Nat
    BY <1>3 DEF Reported, CountType
  <2>2. PICK rest \in Nat : /\ RoundSum = round[t].repaired + rest
                            /\ RoundSum' = round'[t].repaired + rest
    BY <1>1, <1>3, <2>1, RoundMoves
  <2>3. Grows(n)
    BY <1>2, <2>1, <2>2 DEF Grows
  <2>. QED  BY <1>1, <2>3
<1>4. CASE t \notin Sweeper
  <2>1. RoundSum' = RoundSum
    BY <1>4 DEF Reported, RoundSum
  <2>2. t \in reactive => status'.total_repaired = status.total_repaired + n
    BY DEF Reported, CountType
  <2>3. t \in reactive \/ n = 0 => Grows(n)
    BY <1>2, <2>1, <2>2 DEF Grows
  <2>. QED  BY <1>1, <1>4, <2>3
<1>. QED
  BY <1>3, <1>4

\* A step that leaves the counts alone.
LEMMA CountsAlone == ASSUME CountType, UNCHANGED counts PROVE CountType' /\ Grows(0)
<1>1. round' = round /\ status' = status
  BY DEF counts
<1>2. RoundSum' = RoundSum
  BY <1>1 DEF RoundSum
<1>. QED
  BY <1>1, <1>2, RoundSumNat DEF CountType, Grows

\* The next state of task t rewrites what it classified, and is a repair of a
\* client only if t was reading or repairing.
Goes(t) ==
    \E r : /\ Become(t, r) /\ LoopInv(r)
           /\ t \in Client /\ r.op = "repair" => task[t].op \in {"get", "repair"}

\* A step of task t keeps whose repairs report.
LEMMA OwnKept ==
    ASSUME IInv, OwnInv, Track, NEW t \in Task, Goes(t)
    PROVE  OwnInv' /\ \A u \in Task \ {t} : task'[u] = task[u]
<1>1. PICK r : /\ Become(t, r) /\ LoopInv(r)
               /\ t \in Client /\ r.op = "repair" => task[t].op \in {"get", "repair"}
  BY DEF Goes
<1>2. task'[t] = r /\ \A u \in Task \ {t} : task'[u] = task[u]
  BY <1>1 DEF Become, IInv, TypeOK
<1>3. \A u \in Task : LoopInv(task'[u])
  BY <1>1, <1>2 DEF OwnInv
<1>4. \A u \in Client : task'[u].op = "repair" => task[u].op \in {"get", "repair"}
  BY <1>1, <1>2 DEF Task
<1>5. \A u \in Client : task'[u].op = "repair" => u \in reactive'
  BY <1>4 DEF OwnInv, Track
<1>. QED
  BY <1>2, <1>3, <1>5 DEF OwnInv, LoopInv

\* A request that ends.
LEMMA FinishGoes == ASSUME NEW t \in Task, Finish(t) PROVE Goes(t)
<1>1. Idle.pc = "idle" /\ Idle.op = "none"
  BY DEF Idle
<1>. QED
  BY <1>1 DEF Finish, Goes, LoopInv, Rewriting

\* A task that goes on with what it was doing, outside a repair's rewrites.
LEMMA SameGoes ==
    ASSUME NEW t \in Task, NEW r, Become(t, r), r.op = task[t].op, r.pc \notin Rewriting
    PROVE  Goes(t)
<1>1. LoopInv(r)
  BY DEF LoopInv
<1>. QED
  BY <1>1 DEF Goes

\* PutBackup never turns into a repair.
LEMMA PutGoes == ASSUME IInv, NEW t \in Task, PutStep(t) PROVE Goes(t)
<1>1. ASSUME NEW q \in TaskState, NEW i \in Shard, q.op = task[t].op,
             Become(t, PutAdvance(q, i))
      PROVE  Goes(t)
  <2>1. PICK r : r = PutAdvance(q, i)
    OBVIOUS
  <2>2. r.op = q.op /\ r.pc \in PutPc
    BY <1>1, <2>1, PutAdvanceOp
  <2>3. r.pc \notin Rewriting
    BY <2>2 DEF PutPc, Rewriting
  <2>. QED
    BY <1>1, <2>1, <2>2, <2>3, SameGoes
<1>2. ASSUME NEW i \in Shard, PutShard(t, i) PROVE Goes(t)
  BY <1>1, <1>2, ActorFacts DEF PutShard
<1>3. ASSUME NEW i \in Shard, NEW p \in Node, Replicate(t, i, p) PROVE Goes(t)
  <2>1. task[t].pc \in PutPc /\ task[t] \in TaskState /\ task[t].man \in Manifest
    BY <1>3, PutFacts DEF Replicate, At, PutPc, PutOK
  <2>2. PICK q0 : q0 = task[t]
    OBVIOUS
  <2>3. PICK answered \in BOOLEAN :
          Become(t, PutAdvance([q0 EXCEPT !.tried = @ \cup {p},
                          !.man.locs[i] = IF answered THEN @ \cup {p} ELSE @], i))
    BY <1>3, <2>2 DEF Replicate
  <2>4. PICK q : q = [q0 EXCEPT !.tried = @ \cup {p},
                        !.man.locs[i] = IF answered THEN @ \cup {p} ELSE @]
    OBVIOUS
  <2>5. PICK m : m = [q0.man EXCEPT !.locs[i] = IF answered THEN @ \cup {p} ELSE @]
    OBVIOUS
  <2>6. m \in Manifest
    BY <2>1, <2>2, <2>5 DEF Manifest
  <2>7. q = [q0 EXCEPT !.tried = @ \cup {p}, !.man = m]
    BY <2>1, <2>2, <2>4, <2>5 DEF TaskState, Manifest
  <2>8. q \in TaskState /\ q.op = task[t].op
    BY <2>1, <2>2, <2>6, <2>7 DEF TaskState
  <2>. QED
    BY <1>1, <2>3, <2>4, <2>8
<1>4. ASSUME PutManifest(t) PROVE Goes(t)
  <2>1. PICK r : r = [task[t] EXCEPT !.pc = "reply"]
    OBVIOUS
  <2>2. r.op = task[t].op /\ r.pc \notin Rewriting
    BY <2>1, ActorFacts DEF TaskState, Rewriting
  <2>. QED
    BY <1>4, <2>1, <2>2, SameGoes DEF PutManifest
<1>5. ASSUME PutReply(t) PROVE Goes(t)
  BY <1>5, FinishGoes DEF PutReply
<1>. QED
  BY <1>2, <1>3, <1>4, <1>5 DEF PutStep

\* GetBackup turns into a repair only after its answer, at the repair's start.
LEMMA GetGoes == ASSUME IInv, NEW t \in Task, GetStep(t) PROVE Goes(t)
<1>0. task[t] \in TaskState
  BY ActorFacts
<1>1. ASSUME NEW q \in TaskState, NEW i \in Shard, q.op = task[t].op,
             Become(t, LoadAdvance(q, i))
      PROVE  Goes(t)
  <2>1. PICK r : r = LoadAdvance(q, i)
    OBVIOUS
  <2>2. r.op = q.op /\ r.pc \in {"load", "decode"}
    BY <1>1, <2>1 DEF LoadAdvance, TaskState
  <2>3. r.pc \notin Rewriting
    BY <2>2 DEF Rewriting
  <2>. QED
    BY <1>1, <2>1, <2>2, <2>3, SameGoes
<1>2. ASSUME NEW i \in Shard, NEW c \in Content,
             Become(t, LoadAdvance([task[t] EXCEPT !.col[i] = c], i))
      PROVE  Goes(t)
  <2>1. PICK q : q = [task[t] EXCEPT !.col[i] = c]
    OBVIOUS
  <2>2. q \in TaskState /\ q.op = task[t].op
    BY <1>0, <1>2, <2>1 DEF TaskState
  <2>. QED
    BY <1>1, <1>2, <2>1, <2>2
<1>3. ASSUME GetManifest(t) PROVE Goes(t)
  <2>1. PICK r : r = [task[t] EXCEPT !.pc = "load", !.todo = Shard,
                                     !.man = manifests[task[t].blob]]
    OBVIOUS
  <2>2. r.op = task[t].op /\ r.pc \notin Rewriting
    BY <1>0, <2>1 DEF TaskState, Rewriting
  <2>3. Finish(t) \/ Become(t, r)
    BY <1>3, <2>1 DEF GetManifest
  <2>. QED
    BY <2>2, <2>3, FinishGoes, SameGoes
<1>4. ASSUME NEW i \in Shard, LoadFromAnchor(t, i) PROVE Goes(t)
  <2>1. PICK c : c = IF HashOk(ReadShard(t, i)) THEN ReadShard(t, i) ELSE "none"
    OBVIOUS
  <2>2. c \in Content
    BY <2>1 DEF HashOk, Content
  <2>3. PICK q : q = [task[t] EXCEPT !.errs = @ \cup {i}]
    OBVIOUS
  <2>4. q \in TaskState /\ q.op = task[t].op
    BY <1>0, <2>3 DEF TaskState
  <2>5. \/ Become(t, LoadAdvance([task[t] EXCEPT !.col[i] = c], i))
        \/ Become(t, LoadAdvance(q, i))
    BY <1>4, <2>1, <2>3 DEF LoadFromAnchor
  <2>. QED
    BY <1>1, <1>2, <2>2, <2>4, <2>5
<1>5. ASSUME NEW i \in Shard, NEW p \in Node, LoadFromPeer(t, i, p) PROVE Goes(t)
  <2>1. CASE /\ HashOk(ReadPeer(t, p, i))
             /\ Become(t, LoadAdvance([task[t] EXCEPT !.col[i] = ReadPeer(t, p, i)], i))
    <3>1. PICK c : c = ReadPeer(t, p, i)
      OBVIOUS
    <3>2. c \in Content
      BY <2>1, <3>1 DEF HashOk, Content
    <3>. QED
      BY <1>2, <2>1, <3>1, <3>2
  <2>2. CASE Become(t, [task[t] EXCEPT !.tried = @ \cup {p}])
    <3>1. PICK r : r = [task[t] EXCEPT !.tried = @ \cup {p}]
      OBVIOUS
    <3>2. r.op = task[t].op /\ r.pc \notin Rewriting
      BY <1>0, <1>5, <3>1 DEF TaskState, Rewriting, LoadFromPeer, At
    <3>. QED
      BY <2>2, <3>1, <3>2, SameGoes
  <2>. QED
    BY <1>5, <2>1, <2>2 DEF LoadFromPeer
<1>6. ASSUME GetDecode(t) PROVE Goes(t)
  <2>1. PICK r : r = [task[t] EXCEPT !.pc = "reply", !.out = Decode(task[t].col)]
    OBVIOUS
  <2>2. r.op = task[t].op /\ r.pc \notin Rewriting
    BY <1>0, <2>1 DEF TaskState, Rewriting
  <2>3. Finish(t) \/ Become(t, r)
    BY <1>6, <2>1 DEF GetDecode
  <2>. QED
    BY <2>2, <2>3, FinishGoes, SameGoes
<1>7. ASSUME GetReply(t) PROVE Goes(t)
  <2>1. PICK r : r = [Idle EXCEPT !.op = "repair", !.pc = "repManifest",
                                  !.node = task[t].node, !.blob = task[t].blob]
    OBVIOUS
  <2>2. r.pc = "repManifest"
    BY <2>1 DEF Idle
  <2>3. Finish(t) \/ (Become(t, r) /\ task[t].op = "get")
    BY <1>7, <2>1 DEF GetReply
  <2>. QED
    BY <2>2, <2>3, FinishGoes DEF Goes, LoopInv, Rewriting
<1>. QED
  BY <1>3, <1>4, <1>5, <1>6, <1>7 DEF GetStep

\* DeleteBackup never turns into a repair.
LEMMA DeleteGoes == ASSUME IInv, NEW t \in Task, DeleteStep(t) PROVE Goes(t)
<1>0. task[t] \in TaskState
  BY ActorFacts
<1>1. ASSUME NEW pc \in DeletePc \cup {"reply"}, NEW todo,
             \/ Become(t, [task[t] EXCEPT !.todo = todo, !.pc = pc])
             \/ Become(t, [task[t] EXCEPT !.pc = pc])
      PROVE  Goes(t)
  <2>1. pc \notin Rewriting
    BY DEF DeletePc, Rewriting
  <2>2. CASE Become(t, [task[t] EXCEPT !.todo = todo, !.pc = pc])
    <3>1. PICK r : r = [task[t] EXCEPT !.todo = todo, !.pc = pc]
      OBVIOUS
    <3>2. r.op = task[t].op /\ r.pc = pc
      BY <1>0, <3>1 DEF TaskState
    <3>. QED  BY <2>1, <2>2, <3>1, <3>2, SameGoes
  <2>3. CASE Become(t, [task[t] EXCEPT !.pc = pc])
    <3>1. PICK r : r = [task[t] EXCEPT !.pc = pc]
      OBVIOUS
    <3>2. r.op = task[t].op /\ r.pc = pc
      BY <1>0, <3>1 DEF TaskState
    <3>. QED  BY <2>1, <2>3, <3>1, <3>2, SameGoes
  <2>. QED  BY <1>1, <2>2, <2>3
<1>2. ASSUME DelCheck(t) PROVE Goes(t)
  <2>1. Finish(t) \/ Become(t, [task[t] EXCEPT !.pc = "delList"])
    BY <1>2 DEF DelCheck
  <2>. QED  BY <1>1, <2>1, FinishGoes DEF DeletePc
<1>3. ASSUME DelList(t) PROVE Goes(t)
  <2>1. PICK there : there = {i \in Shard : ReadShard(t, i) # "none"}
    OBVIOUS
  <2>2. PICK pc \in DeletePc : pc = IF there = {} THEN "delManifest" ELSE "delShards"
    BY DEF DeletePc
  <2>3. Become(t, [task[t] EXCEPT !.todo = there, !.pc = pc])
    BY <1>3, <2>1, <2>2 DEF DelList
  <2>. QED  BY <1>1, <2>3
<1>4. ASSUME NEW i \in Shard, DelShard(t, i) PROVE Goes(t)
  <2>1. PICK pc \in DeletePc : pc = IF task[t].todo = {i} THEN "delManifest" ELSE "delShards"
    BY DEF DeletePc
  <2>2. PICK left : left = task[t].todo \ {i}
    OBVIOUS
  <2>3. Become(t, [task[t] EXCEPT !.todo = left, !.pc = pc])
    BY <1>4, <2>1, <2>2 DEF DelShard
  <2>. QED  BY <1>1, <2>3
<1>5. ASSUME DelManifest(t) PROVE Goes(t)
  BY <1>1, <1>5 DEF DelManifest
<1>6. ASSUME DelReply(t) PROVE Goes(t)
  BY <1>6, FinishGoes DEF DelReply
<1>. QED
  BY <1>2, <1>3, <1>4, <1>5, <1>6 DEF DeleteStep

\* set_manifest_name never turns into a repair.
LEMMA NameGoes == ASSUME IInv, NEW t \in Task, NameStep(t) PROVE Goes(t)
<1>1. ASSUME NameGet(t) PROVE Goes(t)
  <2>1. PICK r : r = [task[t] EXCEPT !.pc = "namePut", !.man = manifests[task[t].blob]]
    OBVIOUS
  <2>2. r.op = task[t].op /\ r.pc \notin Rewriting
    BY <2>1, ActorFacts DEF TaskState, Rewriting
  <2>3. Finish(t) \/ Become(t, r)
    BY <1>1, <2>1 DEF NameGet
  <2>. QED
    BY <2>2, <2>3, FinishGoes, SameGoes
<1>2. ASSUME NamePut(t) PROVE Goes(t)
  BY <1>2, FinishGoes DEF NamePut
<1>. QED
  BY <1>1, <1>2 DEF NameStep

\* What a repair's loops make of its state: what they rewrite was classified, and
\* the operation stays.
RepairGoes(q, r) == LoopInv(r) /\ r.op \in {q.op, "none"}

\* A repair that ends.
LEMMA IdleGoes == ASSUME NEW q PROVE RepairGoes(q, Idle)
<1>1. Idle.pc = "idle" /\ Idle.op = "none"
  BY DEF Idle
<1>. QED
  BY <1>1 DEF RepairGoes, LoopInv, Rewriting

\* A repair that starts to rewrite has all it classified as bad to do.
LEMMA ToRewriteGoes == ASSUME NEW q \in TaskState, NEW r, r = ToRewrite(q) PROVE RepairGoes(q, r)
<1>1. r.op = q.op /\ r.todo = r.bad
  BY DEF ToRewrite, TaskState
<1>. QED
  BY <1>1 DEF RepairGoes, LoopInv

\* The loop that classifies the shards.
LEMMA ClassifyGoes ==
    ASSUME NEW q \in TaskState, q.pc = "classify", NEW i \in Shard,
           NEW r, r = ClassifyAdvance(q, i)
    PROVE  RepairGoes(q, r)
<1>1. CASE r = Idle
  BY <1>1, IdleGoes
<1>2. CASE r = ToRewrite(q)
  BY <1>2, ToRewriteGoes
<1>3. CASE r = [q EXCEPT !.todo = q.todo \ {i}]
  <2>1. r.op = q.op /\ r.pc = "classify"
    BY <1>3 DEF TaskState
  <2>. QED  BY <2>1 DEF RepairGoes, LoopInv, Rewriting
<1>4. CASE r = [q EXCEPT !.pc = "backfill", !.todo = q.bad, !.tried = {}]
  <2>1. r.op = q.op /\ r.pc = "backfill"
    BY <1>4 DEF TaskState
  <2>. QED  BY <2>1 DEF RepairGoes, LoopInv, Rewriting
<1>. QED
  BY <1>1, <1>2, <1>3, <1>4 DEF ClassifyAdvance

\* The loop that asks peers for shards.
LEMMA BackfillGoes ==
    ASSUME NEW q \in TaskState, q.pc = "backfill", NEW r, r = BackfillAdvance(q)
    PROVE  RepairGoes(q, r)
<1>1. CASE r = Idle
  BY <1>1, IdleGoes
<1>2. CASE r = q
  BY <1>2 DEF RepairGoes, LoopInv, Rewriting
<1>3. CASE r = ToRewrite(q)
  BY <1>3, ToRewriteGoes
<1>. QED
  BY <1>1, <1>2, <1>3 DEF BackfillAdvance

\* A repair that classifies and borrows shards from peers.
LEMMA GatherGoes ==
    ASSUME IInv, SettleInv, NEW t \in Task,
           RepManifest(t) \/ \E i \in Shard : Classify(t, i) \/ Backfill(t, i)
    PROVE  Goes(t) /\ task[t].pc \notin Rewriting
<1>0. task[t] \in TaskState
  BY ActorFacts
<1>1. ASSUME NEW q \in TaskState, NEW r, q.op = task[t].op, RepairGoes(q, r), Become(t, r)
      PROVE  Goes(t)
  <2>1. LoopInv(r) /\ (r.op = "repair" => task[t].op = "repair")
    BY <1>1 DEF RepairGoes
  <2>. QED  BY <1>1, <2>1 DEF Goes
<1>2. ASSUME RepManifest(t) PROVE Goes(t) /\ task[t].pc \notin Rewriting
  <2>1. PICK r : r = [task[t] EXCEPT !.pc = "classify", !.todo = Shard,
                                     !.man = manifests[task[t].blob]]
    OBVIOUS
  <2>2. r.op = task[t].op /\ r.pc \notin Rewriting
    BY <1>0, <2>1 DEF TaskState, Rewriting
  <2>3. (Finish(t) \/ Become(t, r)) /\ task[t].pc \notin Rewriting
    BY <1>2, <2>1 DEF RepManifest, At, Rewriting
  <2>. QED
    BY <2>2, <2>3, FinishGoes, SameGoes
<1>3. ASSUME NEW i \in Shard, Classify(t, i) PROVE Goes(t) /\ task[t].pc \notin Rewriting
  <2>0. task[t].pc = "classify" /\ task[t].pc \notin Rewriting
    BY <1>3 DEF Classify, At, Rewriting
  <2>1. ASSUME NEW q \in TaskState, q.op = task[t].op, q.pc = task[t].pc,
               Become(t, ClassifyAdvance(q, i))
        PROVE  Goes(t)
    <3>1. PICK r : r = ClassifyAdvance(q, i)
      OBVIOUS
    <3>2. RepairGoes(q, r)
      BY <2>0, <2>1, <3>1, ClassifyGoes
    <3>. QED
      BY <1>1, <2>1, <3>1, <3>2
  <2>2. CASE /\ HashOk(ReadShard(t, i))
             /\ Become(t, ClassifyAdvance([task[t] EXCEPT !.col[i] = ReadShard(t, i)], i))
    <3>1. PICK c : c = ReadShard(t, i)
      OBVIOUS
    <3>2. PICK q : q = [task[t] EXCEPT !.col[i] = c]
      OBVIOUS
    <3>3. c \in Content
      BY <2>2, <3>1 DEF HashOk, Content
    <3>4. q \in TaskState /\ q.op = task[t].op /\ q.pc = task[t].pc
      BY <1>0, <3>2, <3>3 DEF TaskState
    <3>. QED
      BY <2>0, <2>1, <2>2, <3>1, <3>2, <3>4
  <2>3. CASE Become(t, ClassifyAdvance([task[t] EXCEPT !.bad = @ \cup {i}], i))
    <3>1. PICK q : q = [task[t] EXCEPT !.bad = @ \cup {i}]
      OBVIOUS
    <3>2. q \in TaskState /\ q.op = task[t].op /\ q.pc = task[t].pc
      BY <1>0, <3>1 DEF TaskState
    <3>. QED
      BY <2>0, <2>1, <2>3, <3>1, <3>2
  <2>. QED
    BY <1>3, <2>2, <2>3 DEF Classify
<1>4. ASSUME NEW i \in Shard, Backfill(t, i) PROVE Goes(t) /\ task[t].pc \notin Rewriting
  <2>0. task[t].pc = "backfill" /\ task[t].pc \notin Rewriting
    BY <1>4 DEF Backfill, At, Rewriting
  <2>1. ASSUME NEW q \in TaskState, q.op = task[t].op, q.pc = task[t].pc,
               Become(t, BackfillAdvance(q))
        PROVE  Goes(t)
    <3>1. PICK r : r = BackfillAdvance(q)
      OBVIOUS
    <3>2. RepairGoes(q, r)
      BY <2>0, <2>1, <3>1, BackfillGoes
    <3>. QED
      BY <1>1, <2>1, <3>1, <3>2
  <2>2. PICK next : next = [task[t] EXCEPT !.todo = @ \ {i}, !.tried = {}]
    OBVIOUS
  <2>3. next \in TaskState /\ next.op = task[t].op /\ next.pc = task[t].pc
    BY <1>0, <2>2 DEF TaskState
  <2>4. CASE Become(t, BackfillAdvance(next))
    BY <2>0, <2>1, <2>3, <2>4
  <2>5. CASE \E p \in Node : /\ HashOk(ReadPeer(t, p, i))
                             /\ Become(t, BackfillAdvance([next EXCEPT !.col[i] = ReadPeer(t, p, i)]))
    <3>1. PICK p \in Node : /\ HashOk(ReadPeer(t, p, i))
                            /\ Become(t, BackfillAdvance([next EXCEPT !.col[i] = ReadPeer(t, p, i)]))
      BY <2>5
    <3>2. PICK c : c = ReadPeer(t, p, i)
      OBVIOUS
    <3>3. PICK q : q = [next EXCEPT !.col[i] = c]
      OBVIOUS
    <3>4. c \in Content
      BY <3>1, <3>2 DEF HashOk, Content
    <3>5. q \in TaskState /\ q.op = next.op /\ q.pc = next.pc
      BY <2>3, <3>3, <3>4 DEF TaskState
    <3>. QED
      BY <2>0, <2>1, <2>3, <3>1, <3>2, <3>3, <3>5
  <2>6. CASE \E p \in Node : Become(t, [task[t] EXCEPT !.tried = @ \cup {p}])
    <3>1. PICK p \in Node : Become(t, [task[t] EXCEPT !.tried = @ \cup {p}])
      BY <2>6
    <3>2. PICK r : r = [task[t] EXCEPT !.tried = @ \cup {p}]
      OBVIOUS
    <3>3. r.op = task[t].op /\ r.pc = task[t].pc
      BY <1>0, <3>2 DEF TaskState
    <3>. QED
      BY <2>0, <3>1, <3>2, <3>3, SameGoes
  <2>7. task[t].man.locs[i] \subseteq Node
    BY <2>0, RepairFacts DEF RepairOK, Manifest
  <2>. QED
    BY <1>4, <2>2, <2>4, <2>5, <2>6, <2>7 DEF Backfill
<1>. QED
  BY <1>2, <1>3, <1>4

\* What passing shard i adds to the shards a repair has rewritten: it shows in
\* the repair's next state, or, after the last one, in the report.
LEMMA RewriteCounts ==
    ASSUME NEW q \in TaskState, LoopInv(q), q.pc \in Rewriting, NEW i \in q.todo,
           NEW r, r = RewriteAdvance(q, i),
           NEW up \in {0, 1}, q.pc = "reReplicate" => up = 0
    PROVE  /\ RepairGoes(q, r)
           /\ r = Idle => Mended(q) + up <= Cardinality(q.bad)
           /\ r # Idle => Mended(q) + up <= Mended(r)
<1>0. IsFiniteSet(Shard)
  BY ParamsAssumption, FS_Interval DEF Shard
<1>1. q.todo \subseteq q.bad /\ q.bad \subseteq Shard
  BY DEF TaskState, LoopInv
<1>2. IsFiniteSet(q.bad) /\ IsFiniteSet(q.bad \ q.todo)
  BY <1>0, <1>1, FS_Subset
<1>k. PICK k : k = Cardinality(q.bad \ q.todo)
  OBVIOUS
<1>3. k \in Nat /\ Cardinality(q.bad) \in Nat
  BY <1>2, <1>k, FS_CardinalityType
<1>4. Mended(q) \in {k, k + 1} /\ Mended(q) + up <= k + 1
  BY <1>3, <1>k DEF Mended, Rewriting
<1>5. Idle.pc = "idle"
  BY DEF Idle
<1>6. CASE r = [q EXCEPT !.pc = "reReplicate"]
  <2>1. r.pc = "reReplicate" /\ r.bad = q.bad /\ r.todo = q.todo /\ r.op = q.op
    BY <1>6 DEF TaskState
  <2>2. Mended(r) = k + 1
    BY <1>k, <2>1 DEF Mended, Rewriting
  <2>3. RepairGoes(q, r) /\ r # Idle
    BY <1>1, <1>5, <2>1 DEF RepairGoes, LoopInv
  <2>. QED  BY <1>4, <2>2, <2>3
<1>7. CASE r = Idle /\ q.todo = {i}
  <2>1. Cardinality(q.bad \ {i}) = Cardinality(q.bad) - 1
    BY <1>1, <1>2, FS_RemoveElement
  <2>2. k + 1 = Cardinality(q.bad)
    BY <1>3, <1>7, <1>k, <2>1
  <2>. QED  BY <1>4, <1>7, <2>2, IdleGoes
<1>8. CASE r = [q EXCEPT !.pc = "rewrite", !.todo = @ \ {i}, !.tried = {}]
  <2>1. r.pc = "rewrite" /\ r.bad = q.bad /\ r.todo = q.todo \ {i} /\ r.op = q.op
    BY <1>8 DEF TaskState
  <2>2. r.bad \ r.todo = (q.bad \ q.todo) \cup {i}
    BY <1>1, <2>1
  <2>3. Cardinality(r.bad \ r.todo) = k + 1
    BY <1>2, <1>k, <2>2, FS_AddElement
  <2>4. Mended(r) = k + 1
    BY <1>3, <2>1, <2>3 DEF Mended, Rewriting
  <2>5. RepairGoes(q, r) /\ r # Idle
    BY <1>1, <1>5, <2>1 DEF RepairGoes, LoopInv
  <2>. QED  BY <1>4, <2>4, <2>5
<1>. QED
  BY <1>6, <1>7, <1>8 DEF RewriteAdvance

\* A repair that rewrites: what it heals is in its state or in its report.
LEMMA MendGoes ==
    ASSUME IInv, OwnInv, healed \in Nat, NEW t \in Task, Mend(t)
    PROVE  /\ Goes(t) /\ task[t].pc \in Rewriting
           /\ \E up \in {0, 1} :
                /\ healed' = healed + up
                /\ Ends(t) => Mended(task[t]) + up <= Cardinality(task[t].bad)
                /\ ~Ends(t) => Mended(task[t]) + up <= Mended(task'[t])
<1>0. task[t] \in TaskState /\ LoopInv(task[t])
  BY ActorFacts DEF OwnInv
<1>1. PICK up \in {0, 1} : healed' = healed + up /\ (~At(t, "rewrite") => up = 0)
  BY DEF Mend
<1>2. ASSUME NEW q \in TaskState, NEW i \in q.todo, q.op = task[t].op, q.pc = task[t].pc,
             q.bad = task[t].bad, q.todo = task[t].todo, q.pc \in Rewriting,
             Become(t, RewriteAdvance(q, i))
      PROVE  /\ Goes(t)
             /\ Ends(t) => Mended(task[t]) + up <= Cardinality(task[t].bad)
             /\ ~Ends(t) => Mended(task[t]) + up <= Mended(task'[t])
  <2>1. PICK r : r = RewriteAdvance(q, i)
    OBVIOUS
  <2>2. task'[t] = r
    BY <1>2, <2>1 DEF Become, IInv, TypeOK
  <2>3. q.pc = "reReplicate" => up = 0
    BY <1>1, <1>2 DEF At
  <2>4. LoopInv(q) /\ Mended(q) = Mended(task[t])
    BY <1>0, <1>2 DEF LoopInv, Mended
  <2>5. /\ RepairGoes(q, r)
        /\ r = Idle => Mended(q) + up <= Cardinality(q.bad)
        /\ r # Idle => Mended(q) + up <= Mended(r)
    BY <1>2, <2>1, <2>3, <2>4, RewriteCounts
  <2>6. Goes(t)
    <3>1. LoopInv(r) /\ (r.op = "repair" => task[t].op = "repair")
      BY <1>2, <2>5 DEF RepairGoes
    <3>. QED  BY <1>2, <2>1, <3>1 DEF Goes
  <2>. QED
    BY <1>2, <2>2, <2>4, <2>5, <2>6 DEF Ends
<1>3. CASE \E i \in Shard : Rewrite(t, i)
  <2>1. PICK i \in Shard : Rewrite(t, i)
    BY <1>3
  <2>2. i \in task[t].todo /\ task[t].pc \in Rewriting /\ Become(t, RewriteAdvance(task[t], i))
    BY <2>1 DEF Rewrite, At, IsNext, Rewriting
  <2>. QED
    BY <1>0, <1>1, <1>2, <2>2
<1>4. CASE \E i \in Shard, p \in Node : ReReplicate(t, i, p)
  <2>1. PICK i \in Shard, p \in Node : ReReplicate(t, i, p)
    BY <1>4
  <2>2. PICK q : q = [task[t] EXCEPT !.tried = @ \cup {p}]
    OBVIOUS
  <2>3. /\ q \in TaskState /\ q.op = task[t].op /\ q.pc = task[t].pc
        /\ q.bad = task[t].bad /\ q.todo = task[t].todo
    BY <1>0, <2>2 DEF TaskState
  <2>4. i \in task[t].todo /\ task[t].pc \in Rewriting /\ Become(t, RewriteAdvance(q, i))
    BY <2>1, <2>2 DEF ReReplicate, At, IsNext, Rewriting
  <2>. QED
    BY <1>1, <1>2, <2>3, <2>4
<1>. QED
  BY <1>3, <1>4 DEF Mend

\* A request that arrives: not a repair, which only the repair route starts.
LEMMA StartGoes ==
    ASSUME Calm, NEW t \in Task, StartRequest(t)
    PROVE  Goes(t) /\ task[t].pc \notin Rewriting
<1>1. ASSUME NEW op, NEW pc, NEW n, NEW b, Start(t, op, pc, n, b),
             op # "repair", pc \notin Rewriting
      PROVE  Goes(t) /\ task[t].pc \notin Rewriting
  <2>1. PICK r : r = [Idle EXCEPT !.op = op, !.pc = pc, !.node = n, !.blob = b]
    OBVIOUS
  <2>2. r.op = op /\ r.pc = pc
    BY <2>1 DEF Idle
  <2>3. Become(t, r) /\ task[t].pc \notin Rewriting
    BY <1>1, <2>1 DEF Start, At, Rewriting
  <2>. QED
    BY <1>1, <2>2, <2>3 DEF Goes, LoopInv
<1>2. ASSUME NEW n, NEW b, StartPut(t, n, b) PROVE Goes(t) /\ task[t].pc \notin Rewriting
  <2>1. PICK r : r = [Idle EXCEPT !.op = "put", !.pc = "putShard", !.node = n,
                              !.blob = b, !.todo = Shard,
                              !.man = [locs |-> NoLocs, created |-> 0]]
    OBVIOUS
  <2>2. r.op = "put" /\ r.pc = "putShard"
    BY <2>1 DEF Idle
  <2>3. Become(t, r) /\ task[t].pc \notin Rewriting
    BY <1>2, <2>1 DEF StartPut, At, Rewriting
  <2>. QED
    BY <2>2, <2>3 DEF Goes, LoopInv, Rewriting
<1>3. ASSUME NEW n, NEW b, StartDelete(t, n, b) PROVE Goes(t) /\ task[t].pc \notin Rewriting
  <2>1. PICK pc \in {"delCheck", "delList"} : Start(t, "delete", pc, n, b)
    BY <1>3 DEF StartDelete
  <2>. QED
    BY <1>1, <2>1 DEF Rewriting
<1>4. ASSUME NEW n, NEW b, StartGet(t, n, b) PROVE Goes(t) /\ task[t].pc \notin Rewriting
  BY <1>1, <1>4 DEF StartGet, Rewriting
<1>5. ASSUME NEW b, StartName(t, b) PROVE Goes(t) /\ task[t].pc \notin Rewriting
  BY <1>1, <1>5 DEF StartName, Rewriting
<1>. QED
  BY <1>2, <1>3, <1>4, <1>5 DEF StartRequest, Calm

\* The pieces of SInv that the steps of the requests and the sweep keep.
Counting == CountType' /\ healed' \in Nat /\ (Calm => OwnInv' /\ Complete')

\* A step of a task that rewrites nothing and reports no shard.
LEMMA PlainCounts ==
    ASSUME SInv, IInv', Track, NEW t \in Task,
           Calm => Goes(t) /\ task[t].pc \notin Rewriting,
           CountType', Grows(0), UNCHANGED healed
    PROVE  Counting
<1>1. ASSUME Calm PROVE OwnInv' /\ Complete'
  <2>1. OwnInv' /\ \A u \in Task \ {t} : task'[u] = task[u]
    BY <1>1, OwnKept DEF SInv
  <2>2. task'[t] \in TaskState
    BY DEF IInv, TypeOK
  <2>3. Mended(task[t]) = 0 /\ Mended(task'[t]) \in Nat
    BY <1>1, <2>2, MendedNat DEF Mended
  <2>4. healed' = healed + 0 /\ Mended(task[t]) + 0 <= Mended(task'[t]) + 0
    BY <2>3 DEF SInv
  <2>. QED
    BY <1>1, <2>1, <2>4, CountsKept DEF SInv
<1>. QED
  BY <1>1 DEF Counting, SInv

\* A step that moves no task and reports no shard.
LEMMA StillCounts ==
    ASSUME SInv, Track \/ UNCHANGED reactive, UNCHANGED task,
           CountType', Grows(0), UNCHANGED healed
    PROVE  Counting
<1>1. ASSUME Calm PROVE OwnInv' /\ Complete'
  <2>1. OwnInv'
    BY <1>1 DEF SInv, OwnInv, LoopInv, Track
  <2>2. WorkSum' = WorkSum
    BY DEF WorkSum, Rewritten
  <2>3. WorkSum \in Nat
    <3>1. PICK f : f = [u \in Task |-> Mended(task[u])]
      OBVIOUS
    <3>2. \A u \in Task : f[u] \in Nat
      BY <3>1, MendedNat DEF SInv, IInv, TypeOK
    <3>3. IsFiniteSet(Task)
      BY TasksAssumption, FS_Union DEF Task
    <3>4. SumFunctionOnSet(f, Task) \in Nat
      BY <3>2, <3>3, SumNat
    <3>. QED  BY <3>1, <3>4 DEF WorkSum, Rewritten, Mended, Rewriting
  <2>4. /\ RoundSum \in Nat /\ status.total_repaired \in Nat
        /\ RoundSum' \in Nat /\ status'.total_repaired \in Nat
    <3>1. RoundSum \in Nat /\ status.total_repaired \in Nat
      BY RoundSumNat DEF SInv
    <3>2. (RoundSum \in Nat /\ status.total_repaired \in Nat)'
      BY RoundSumNat, PTL
    <3>. QED  BY <3>1, <3>2
  <2>5. healed \in Nat /\ Complete
    BY <1>1 DEF SInv
  <2>6. Complete'
    BY <2>2, <2>3, <2>4, <2>5 DEF Complete, Grows
  <2>. QED  BY <2>1, <2>6
<1>. QED
  BY <1>1 DEF Counting, SInv

\* Requests, and the steps of a repair before it rewrites.
LEMMA ProceedCounts ==
    ASSUME SInv, IInv', Track, NEW t \in Task, Proceed(t) PROVE Counting
<1>1. IInv /\ SettleInv /\ CountType
  BY DEF SInv
<1>2. CountType' /\ Grows(0) /\ UNCHANGED healed
  BY <1>1, CountsAlone DEF Proceed
<1>3. CASE PutStep(t)
  <2>1. task[t].pc \notin Rewriting
    BY <1>3 DEF PutStep, PutShard, Replicate, PutManifest, PutReply, At, Rewriting
  <2>. QED  BY <1>1, <1>2, <1>3, <2>1, PutGoes, PlainCounts
<1>4. CASE GetStep(t)
  <2>1. task[t].pc \notin Rewriting
    BY <1>4 DEF GetStep, GetManifest, LoadFromAnchor, LoadFromPeer, GetDecode, GetReply,
                At, Rewriting
  <2>. QED  BY <1>1, <1>2, <1>4, <2>1, GetGoes, PlainCounts
<1>5. CASE DeleteStep(t)
  <2>1. task[t].pc \notin Rewriting
    BY <1>5 DEF DeleteStep, DelCheck, DelList, DelShard, DelManifest, DelReply, At, Rewriting
  <2>. QED  BY <1>1, <1>2, <1>5, <2>1, DeleteGoes, PlainCounts
<1>6. CASE NameStep(t)
  <2>1. task[t].pc \notin Rewriting
    BY <1>6 DEF NameStep, NameGet, NamePut, At, Rewriting
  <2>. QED  BY <1>1, <1>2, <1>6, <2>1, NameGoes, PlainCounts
<1>7. CASE RepManifest(t) \/ \E i \in Shard : Classify(t, i)
  BY <1>1, <1>2, <1>7, GatherGoes, PlainCounts
<1>. QED
  BY <1>3, <1>4, <1>5, <1>6, <1>7 DEF Proceed

\* A repair that borrows shards, and may report that it cannot repair.
LEMMA BorrowCounts ==
    ASSUME SInv, IInv', Track, NEW t \in Task, Borrow(t) PROVE Counting
<1>1. IInv /\ SettleInv /\ CountType
  BY DEF SInv
<1>2. CountType' /\ Grows(0)
  <2>1. CASE Ends(t)
    BY <1>1, <2>1, ReportedCounts DEF Borrow
  <2>2. CASE ~Ends(t)
    BY <1>1, <2>2, CountsAlone DEF Borrow
  <2>. QED  BY <2>1, <2>2
<1>3. Goes(t) /\ task[t].pc \notin Rewriting
  BY <1>1, GatherGoes DEF Borrow
<1>. QED
  BY <1>2, <1>3, PlainCounts DEF Borrow

\* A repair that rewrites, and reports what it rewrote when it is done.
LEMMA MendCounts ==
    ASSUME SInv, IInv', Track, NEW t \in Task, Mend(t) PROVE Counting
<1>1. IInv /\ SettleInv /\ CountType /\ healed \in Nat
  BY DEF SInv
<1>2. task[t] \in TaskState /\ task'[t] \in TaskState
  BY <1>1 DEF IInv, TypeOK
<1>3. /\ Mended(task[t]) \in Nat /\ Mended(task'[t]) \in Nat
      /\ Cardinality(task[t].bad) \in Nat
  BY <1>2, MendedNat
<1>4. CountType'
  <2>1. CASE Ends(t)
    BY <1>1, <1>3, <2>1, ReportedCounts DEF Mend
  <2>2. CASE ~Ends(t)
    BY <1>1, <2>2, CountsAlone DEF Mend
  <2>. QED  BY <2>1, <2>2
<1>5. healed' \in Nat
  BY <1>1 DEF Mend
<1>6. ASSUME Calm PROVE OwnInv' /\ Complete'
  <2>1. OwnInv /\ Complete
    BY <1>6 DEF SInv
  <2>2. PICK up \in {0, 1} :
          /\ healed' = healed + up
          /\ Ends(t) => Mended(task[t]) + up <= Cardinality(task[t].bad)
          /\ ~Ends(t) => Mended(task[t]) + up <= Mended(task'[t])
    BY <1>1, <2>1, MendGoes
  <2>3. Goes(t) /\ task[t].pc \in Rewriting
    BY <1>1, <2>1, MendGoes
  <2>4. OwnInv' /\ \A u \in Task \ {t} : task'[u] = task[u]
    BY <1>1, <2>1, <2>3, OwnKept
  <2>5. t \in Sweeper \/ t \in reactive
    <3>1. task[t].op = "repair"
      BY <1>1, <2>3 DEF SettleInv, OpInv, Rewriting, RepairPc
    <3>. QED  BY <2>1, <3>1 DEF OwnInv, Task
  <2>6. CASE Ends(t)
    <3>1. PICK n \in Nat : n = Cardinality(task[t].bad)
      BY <1>3
    <3>2. Grows(n)
      BY <1>1, <2>5, <2>6, <3>1, ReportedCounts DEF Mend
    <3>3. Mended(task[t]) + up <= Mended(task'[t]) + n
      BY <1>3, <2>2, <2>6, <3>1
    <3>4. up \in Nat
      BY <2>2
    <3>5. Complete'
      BY <1>1, <1>4, <2>1, <2>2, <2>4, <3>2, <3>3, <3>4, CountsKept
    <3>. QED  BY <2>4, <3>5
  <2>7. CASE ~Ends(t)
    <3>1. Grows(0)
      BY <1>1, <2>7, CountsAlone DEF Mend
    <3>2. Mended(task[t]) + up <= Mended(task'[t]) + 0
      BY <1>3, <2>2, <2>7
    <3>3. up \in Nat
      BY <2>2
    <3>4. Complete'
      BY <1>1, <1>4, <2>1, <2>2, <2>4, <3>1, <3>2, <3>3, CountsKept
    <3>. QED  BY <2>4, <3>4
  <2>. QED  BY <2>6, <2>7
<1>. QED
  BY <1>4, <1>5, <1>6 DEF Counting

\* A round that starts has found nothing yet; the counts stay.
LEMMA RoundStartCounts ==
    ASSUME CountType, NEW s \in Sweeper, round' = [round EXCEPT ![s].on = TRUE],
           UNCHANGED status
    PROVE  CountType' /\ Grows(0)
<1>1. PICK r : r = round[s]
  OBVIOUS
<1>2. r \in [on : BOOLEAN, repaired : Nat, unrepairable : Nat]
  BY <1>1 DEF CountType
<1>3. PICK q : q = [r EXCEPT !.on = TRUE]
  OBVIOUS
<1>4. q \in [on : BOOLEAN, repaired : Nat, unrepairable : Nat] /\ q.repaired = r.repaired
  BY <1>2, <1>3
<1>5. round' = [round EXCEPT ![s] = q]
  BY <1>1, <1>2, <1>3 DEF CountType
<1>6. CountType'
  BY <1>4, <1>5 DEF CountType
<1>7. \A u \in Sweeper : round'[u].repaired = round[u].repaired
  BY <1>1, <1>4, <1>5 DEF CountType
<1>8. RoundSum' = RoundSum
  BY <1>7 DEF RoundSum
<1>. QED
  BY <1>6, <1>8, RoundSumNat DEF Grows

\* A round that ends is published: what leaves the round is in the total.
LEMMA RoundEndCounts ==
    ASSUME CountType, NEW s \in Sweeper, RoundEnd(s)
    PROVE  CountType' /\ Grows(0)
<1>1. round[s].repaired \in Nat /\ round[s].unrepairable \in Nat
  BY DEF CountType
<1>2. NoRound \in [on : BOOLEAN, repaired : Nat, unrepairable : Nat] /\ NoRound.repaired = 0
  BY DEF NoRound
<1>3. round' \in [Sweeper -> [on : BOOLEAN, repaired : Nat, unrepairable : Nat]]
  BY <1>2 DEF CountType, RoundEnd
<1>4. /\ status' \in [last_unrepairable : Nat, total_repaired : Nat]
      /\ status'.total_repaired = status.total_repaired + round[s].repaired
      /\ status.total_repaired \in Nat
  <2>1. PICK lost \in Nat : lost = round[s].unrepairable
    BY <1>1
  <2>2. status.total_repaired \in Nat
    BY DEF CountType
  <2>3. PICK all \in Nat : all = status.total_repaired + round[s].repaired
    BY <1>1, <2>2
  <2>4. status' = [status EXCEPT !.last_unrepairable = lost, !.total_repaired = all]
    BY <2>1, <2>3 DEF CountType, RoundEnd
  <2>5. status' \in [last_unrepairable : Nat, total_repaired : Nat] /\ status'.total_repaired = all
    BY <2>4 DEF CountType
  <2>. QED  BY <2>2, <2>3, <2>5
<1>5. CountType'
  BY <1>3, <1>4 DEF CountType
<1>6. round'[s].repaired = 0 /\ \A u \in Sweeper \ {s} : round'[u].repaired = round[u].repaired
  BY <1>2 DEF CountType, RoundEnd
<1>7. PICK rest \in Nat : RoundSum = round[s].repaired + rest /\ RoundSum' = round'[s].repaired + rest
  BY <1>5, <1>6, RoundMoves
<1>8. Grows(0)
  BY <1>1, <1>4, <1>6, <1>7 DEF Grows
<1>. QED
  BY <1>5, <1>8

\* A sweep that turns to the next blob rewrites nothing yet.
LEMMA VisitGoes ==
    ASSUME NEW s \in Sweeper, RoundVisit(s)
    PROVE  Goes(s) /\ task[s].pc \notin Rewriting
<1>1. PICK b \in Blob : SweepNext(s, b)
  BY DEF RoundVisit
<1>2. PICK r : r = [Idle EXCEPT !.op = "repair", !.pc = "repManifest",
                                !.node = SweepNode[s], !.blob = b]
  OBVIOUS
<1>3. r.pc = "repManifest"
  BY <1>2 DEF Idle
<1>4. Become(s, r) /\ task[s].pc \notin Rewriting
  BY <1>1, <1>2 DEF SweepNext, Start, At, Rewriting
<1>5. s \notin Client
  BY TasksAssumption
<1>. QED
  BY <1>3, <1>4, <1>5 DEF Goes, LoopInv, Rewriting

\* Each step of SweepStatus keeps the counts.
LEMMA StepCounts ==
    ASSUME SInv, IInv', [SNext]_svars PROVE Counting
<1>0. IInv /\ SettleInv /\ CountType /\ Client \subseteq Task /\ Sweeper \subseteq Task
  BY DEF SInv, Task
<1>1. ASSUME Track, NEW t \in Client, StartRequest(t), UNCHANGED <<counts, healed>>
      PROVE  Counting
  <2>1. CountType' /\ Grows(0) /\ UNCHANGED healed
    BY <1>0, <1>1, CountsAlone
  <2>2. t \in Task /\ (Calm => Goes(t) /\ task[t].pc \notin Rewriting)
    BY <1>0, <1>1, StartGoes
  <2>. QED  BY <1>1, <2>1, <2>2, PlainCounts
<1>2. ASSUME Track, NEW t \in Task, Proceed(t) \/ Mend(t) \/ Borrow(t) PROVE Counting
  BY <1>2, ProceedCounts, MendCounts, BorrowCounts
<1>3. ASSUME Track, NEW s \in Sweeper, RoundStart(s) \/ RoundStartBlind(s) PROVE Counting
  <2>1. CountType' /\ Grows(0)
    BY <1>0, <1>3, RoundStartCounts DEF RoundStart, RoundStartBlind
  <2>2. UNCHANGED task /\ UNCHANGED healed
    BY <1>3 DEF RoundStart, RoundStartBlind, SweepList, vars
  <2>. QED  BY <1>3, <2>1, <2>2, StillCounts
<1>4. ASSUME Track, NEW s \in Sweeper, RoundVisit(s) PROVE Counting
  <2>1. CountType' /\ Grows(0) /\ UNCHANGED healed
    BY <1>0, <1>4, CountsAlone DEF RoundVisit
  <2>2. s \in Task /\ Goes(s) /\ task[s].pc \notin Rewriting
    BY <1>0, <1>4, VisitGoes
  <2>. QED  BY <1>4, <2>1, <2>2, PlainCounts
<1>5. ASSUME Track, NEW s \in Sweeper, RoundEnd(s) PROVE Counting
  <2>1. CountType' /\ Grows(0)
    BY <1>0, <1>5, RoundEndCounts
  <2>2. UNCHANGED task /\ UNCHANGED healed
    BY <1>5 DEF RoundEnd, vars
  <2>. QED  BY <1>5, <2>1, <2>2, StillCounts
<1>6. ASSUME Track, NEW s \in Sweeper, Sweeps(s) PROVE Counting
  BY <1>0, <1>2, <1>3, <1>4, <1>5, <1>6 DEF Sweeps
<1>7. ASSUME Track, Environment, UNCHANGED <<counts, healed>> PROVE Counting
  <2>1. CountType' /\ Grows(0) /\ UNCHANGED healed
    BY <1>0, <1>7, CountsAlone
  <2>2. CASE \E t \in Task : Fail(t)
    <3>1. ~Calm
      BY <2>2 DEF Calm, Fail
    <3>. QED  BY <2>1, <3>1 DEF Counting, SInv
  <2>3. CASE Tick \/ \E a \in Anchor, b \in Blob, i \in Shard : Damage(a, b, i)
    <3>1. UNCHANGED task
      BY <2>3 DEF Tick, Damage
    <3>. QED  BY <1>7, <2>1, <3>1, StillCounts
  <2>. QED  BY <1>7, <2>2, <2>3 DEF Environment
<1>8. ASSUME UNCHANGED svars PROVE Counting
  <2>1. UNCHANGED counts /\ UNCHANGED task /\ UNCHANGED healed /\ UNCHANGED reactive
    BY <1>8 DEF svars, vars
  <2>2. CountType' /\ Grows(0)
    BY <1>0, <2>1, CountsAlone
  <2>. QED  BY <2>1, <2>2, StillCounts
<1>. QED
  BY <1>0, <1>1, <1>2, <1>6, <1>7, <1>8 DEF SNext

\* The counts start complete: nothing is healed, nothing is under way.
LEMMA StartCounts == ASSUME SInit PROVE SInv
<1>1. IInv
  BY InitOK DEF SInit
<1>2. Idle.pc = "idle" /\ Idle.op = "none" /\ task = [t \in Task |-> Idle]
  BY DEF Idle, SInit, Init
<1>3. SettleInv
  BY <1>2 DEF SInit, Init, SettleInv, OpInv, RepairPc, NamePc
<1>4. CountType /\ healed \in Nat
  BY DEF SInit, CountType, NoRound
<1>5. OwnInv
  BY <1>2 DEF OwnInv, LoopInv, Rewriting, Task
<1>6. WorkSum \in Nat
  <2>1. PICK f : f = [u \in Task |-> Mended(task[u])]
    OBVIOUS
  <2>2. \A u \in Task : f[u] \in Nat
    BY <1>1, <2>1, MendedNat DEF IInv, TypeOK
  <2>3. IsFiniteSet(Task)
    BY TasksAssumption, FS_Union DEF Task
  <2>4. SumFunctionOnSet(f, Task) \in Nat
    BY <2>2, <2>3, SumNat
  <2>. QED  BY <2>1, <2>4 DEF WorkSum, Rewritten, Mended, Rewriting
<1>7. Complete
  <2>1. healed = 0
    BY DEF SInit
  <2>. QED  BY <1>4, <1>6, <2>1, RoundSumNat DEF Complete
<1>. QED
  BY <1>1, <1>3, <1>4, <1>5, <1>7 DEF SInv

\* The sweep's status is complete: as long as no repair fails half-way and none
\* comes from the repair route, every shard a repair made good is in the
\* published total, in a round under way or in a repair that has not returned,
\* however rounds, reactive repairs, deletes and damage interleave.
THEOREM HealsAreReported == SSpec => []HealsAreCounted
<1>1. SInit => SInv
  BY StartCounts
<1>2. SInv /\ [SNext]_svars => SInv'
  <2>. SUFFICES ASSUME SInv, [SNext]_svars PROVE SInv'
    OBVIOUS
  <2>1. [Next]_vars
    BY RoundStep DEF svars
  <2>2. IInv' /\ SettleInv'
    BY <2>1, NextOK, SettledNext DEF SInv
  <2>3. Counting
    BY <2>2, StepCounts
  <2>. QED
    BY <2>2, <2>3 DEF SInv, Counting, Calm
<1>3. SInv => HealsAreCounted
  BY DEF SInv, Calm, Complete, RoundSum, WorkSum, HealsAreCounted
<1>. QED
  BY <1>1, <1>2, <1>3, PTL DEF SSpec
=============================================================================
