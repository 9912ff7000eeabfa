--------------------------- MODULE VersionsProofs ---------------------------
(***************************************************************************)
(* Pruning keeps the newest versions, caps the others and respects the     *)
(* hold, for any number of requests, blobs, files and versions to keep.    *)
(***************************************************************************)
EXTENDS Versions, FiniteSetTheorems, TLAPS

\* A blob is a version of at most one file.
OneObject == \A b \in Blob : \A o, p \in TagsOf[b] \cap Object : o = p

\* A blob is named with the same object id every time (or never with one).
SameTag == \A b \in Blob : \A o, p \in TagsOf[b] : o = p

\* Manifests carry the stamp of the put; a blob with an object id is one of the
\* object's versions, and nothing else is pruned.
BlobInv(b) ==
    /\ man[b] # None =>
        /\ born[b] # None /\ man[b].created = born[b]
        /\ \A o \in Object : man[b].obj = o => b \in tagged[o]
    /\ \A o \in Object : b \in tagged[o] => born[b] # None /\ o \in TagsOf[b]
    /\ b \in pruned => \E o \in Object : b \in tagged[o]
    /\ SameTag /\ man[b] # None => \A o \in Object : b \in tagged[o] => man[b].obj = o
    /\ ~SameTick => \A c \in Blob : born[c] = born[b] /\ born[b] # None => c = b

\* A put between its shards and its manifest: nobody else knows the blob.
PublishInv(r) ==
    r.pc = "publish" =>
        /\ r.blob \in Blob /\ born[r.blob] # None
        /\ r.man = [created |-> born[r.blob], obj |-> None]
        /\ man[r.blob] = None
        /\ \A o \in Object : r.blob \notin tagged[o]

\* A rename between its read and its write.
NameInv(r) ==
    r.pc = "namePut" =>
        /\ r.blob \in Blob /\ r.man \in Manifest
        /\ born[r.blob] # None /\ r.man.created = born[r.blob]
        /\ r.obj \in TagsOf[r.blob] /\ (r.obj # None => r.man.obj = r.obj)
        /\ r.man.obj # None => r.man.obj \in TagsOf[r.blob]

\* What a prune has collected is what it says.
PruneInv(r) ==
    /\ r.op = "prune" => r.obj \in Object /\ r.snap \subseteq tagged[r.obj]
    /\ r.pc = "collect" => r.op = "prune" /\ r.drop = {}
    /\ IsFiniteSet(r.vers)
    /\ r.op = "prune" => \A v \in r.vers : v.created = born[v.blob] /\ v.blob \in tagged[r.obj]

\* Whatever is about to be removed is past its hold; if it is a prune that
\* removes it, there are Keep other versions of the file, none of them older.
DropInv(r) ==
    /\ \A v \in r.drop :
        /\ v.created = born[v.blob]
        /\ HoldElapsed(MinHold, v.created, now)
        /\ r.op = "prune" =>
            /\ v.blob \in tagged[r.obj]
            /\ \E S \in SUBSET tagged[r.obj] :
                /\ IsFiniteSet(S) /\ Cardinality(S) = Keep /\ v.blob \notin S
                /\ \A s \in S : born[s] >= born[v.blob]
    /\ r.pc = "dropManifest" => r.blob \in Blob
    /\ r.pc = "report" => r.drop = {}

\* The versions that were listed when the prune listed them: unless a rename has
\* put one back, it is gone or the prune has it on one of its lists, or, once
\* decided, kept or under its hold.
CapInv(r) ==
    SameTag /\ r.op = "prune" =>
        /\ r.pc = "collect" =>
            \A b \in r.snap \ revived :
                man[b] = None \/ b \in r.todo \/ \E v \in r.vers : v.blob = b
        /\ r.pc \in {"dropShards", "dropManifest", "report"} /\ Keep > 0 =>
            \E kept \in SUBSET Blob :
                /\ IsFiniteSet(kept) /\ Cardinality(kept) <= Keep
                /\ \A b \in r.snap \ revived :
                    \/ man[b] = None \/ b \in kept
                    \/ ~HoldElapsed(MinHold, born[b], r.at)
                    \/ \E v \in r.drop : v.blob = b
                    \/ r.pc = "dropManifest" /\ r.blob = b

TaskInv(r) == PublishInv(r) /\ NameInv(r) /\ PruneInv(r) /\ DropInv(r) /\ CapInv(r)

\* A blob that is being put is in no other request.
OnePut ==
    \A t, u \in Client :
        task[t].pc = "publish" /\ task[u].pc \in {"publish", "namePut"}
            /\ task[t].blob = task[u].blob => t = u

IInv ==
    /\ TypeOK
    /\ \A b \in Blob : BlobInv(b)
    /\ \A t \in Client : TaskInv(task[t])
    /\ OnePut
    /\ \A o \in Object : IsFiniteSet(tagged[o])
    /\ ~SameTick /\ OneObject => NewestKept

-----------------------------------------------------------------------------
(* What every step does to the state a request at rest relies on: stamps   *)
(* stay, versions and returned manifests are only added, time goes on, and *)
(* the manifest of a removed version comes back only by a rename.          *)

Grown ==
    /\ \A b \in Blob : born[b] # None => born'[b] = born[b]
    /\ \A o \in Object : tagged[o] \subseteq tagged'[o]
    /\ revived \subseteq revived' /\ now <= now'
    /\ \A o \in Object : \A b \in tagged[o] :
        man[b] = None => man'[b] = None \/ b \in revived'

\* A hold that has elapsed stays elapsed.
LEMMA HoldStays ==
    ASSUME NEW c \in Nat, NEW n \in Nat, NEW m \in Nat, n <= m,
           HoldElapsed(MinHold, c, n)
    PROVE  HoldElapsed(MinHold, c, m)
BY VersionsAssumption DEF HoldElapsed, SaturatingSub

\* A request that does not move keeps its invariant, but for that of a put.
LEMMA Unmoved ==
    ASSUME IInv, TypeOK', Grown, NEW u \in Client, task'[u] = task[u],
           PublishInv(task[u])'
    PROVE  TaskInv(task[u])'
<1>. PICK r : r = task[u]  OBVIOUS
<1>0. /\ task'[u] = r /\ r \in TaskState
      /\ PublishInv(r) /\ NameInv(r) /\ PruneInv(r) /\ DropInv(r) /\ CapInv(r)
      /\ \A o \in Object : tagged[o] \subseteq Blob
      /\ \A o \in Object : \A b \in tagged[o] : born[b] # None
  BY DEF IInv, TypeOK, TaskInv, BlobInv
<1>1. NameInv(task[u])'
  BY <1>0 DEF NameInv, Grown
<1>2. PruneInv(task[u])'
  <2>1. r.op = "prune" => r.obj \in Object /\ r.snap \subseteq tagged'[r.obj]
    BY <1>0 DEF PruneInv, Grown
  <2>2. r.op = "prune" => \A v \in r.vers : v.created = born'[v.blob] /\ v.blob \in tagged'[r.obj]
    BY <1>0 DEF PruneInv, Grown
  <2>. QED  BY <1>0, <2>1, <2>2 DEF PruneInv
<1>3. DropInv(task[u])'
  <2>. SUFFICES ASSUME NEW v \in r.drop
                PROVE  /\ v.created = born'[v.blob]
                       /\ HoldElapsed(MinHold, v.created, now')
                       /\ r.op = "prune" =>
                          /\ v.blob \in tagged'[r.obj]
                          /\ \E S \in SUBSET tagged'[r.obj] :
                              /\ IsFiniteSet(S) /\ Cardinality(S) = Keep /\ v.blob \notin S
                              /\ \A s \in S : born'[s] >= born'[v.blob]
    BY <1>0 DEF DropInv
  <2>1. /\ v \in Version /\ v.blob \in Blob /\ v.created \in Nat
        /\ now \in Nat /\ now' \in Nat /\ now <= now' /\ v.created = born[v.blob]
        /\ HoldElapsed(MinHold, v.created, now)
    BY <1>0 DEF TaskState, Version, IInv, TypeOK, DropInv, Grown
  <2>2. born[v.blob] # None /\ born'[v.blob] = born[v.blob]
    BY <2>1, VersionsAssumption DEF Grown
  <2>3. HoldElapsed(MinHold, v.created, now')
    BY <2>1, HoldStays
  <2>4. ASSUME r.op = "prune"
        PROVE  /\ v.blob \in tagged'[r.obj]
               /\ \E S \in SUBSET tagged'[r.obj] :
                    /\ IsFiniteSet(S) /\ Cardinality(S) = Keep /\ v.blob \notin S
                    /\ \A s \in S : born'[s] >= born'[v.blob]
    <3>1. r.obj \in Object /\ v.blob \in tagged[r.obj]
      BY <2>4, <1>0 DEF PruneInv, DropInv
    <3>2. PICK S \in SUBSET tagged[r.obj] :
                    /\ IsFiniteSet(S) /\ Cardinality(S) = Keep /\ v.blob \notin S
                    /\ \A s \in S : born[s] >= born[v.blob]
      BY <2>4, <1>0 DEF DropInv
    <3>3. \A s \in S : born'[s] = born[s]
      BY <1>0, <3>1, <3>2 DEF Grown
    <3>4. S \in SUBSET tagged'[r.obj] /\ v.blob \in tagged'[r.obj]
      BY <3>1, <3>2 DEF Grown
    <3>5. \A s \in S : born'[s] >= born'[v.blob]
      BY <3>2, <3>3, <2>2
    <3>. QED  BY <3>2, <3>4, <3>5
  <2>. QED  BY <2>1, <2>2, <2>3, <2>4
<1>4. CapInv(task[u])'
  <2>. SUFFICES ASSUME SameTag, r.op = "prune"
                PROVE  CapInv(task[u])'
    BY <1>0 DEF CapInv
  <2>1. \A b \in r.snap \ revived' :
            /\ b \in r.snap \ revived /\ b \in Blob
            /\ man[b] = None => man'[b] = None
            /\ born'[b] = born[b]
    BY <1>0 DEF PruneInv, Grown
  <2>2. r.pc = "collect" =>
            \A b \in r.snap \ revived' :
                man'[b] = None \/ b \in r.todo \/ \E v \in r.vers : v.blob = b
    BY <2>1, <1>0 DEF CapInv
  <2>3. ASSUME r.pc \in {"dropShards", "dropManifest", "report"}, Keep > 0
        PROVE  \E kept \in SUBSET Blob :
                /\ IsFiniteSet(kept) /\ Cardinality(kept) <= Keep
                /\ \A b \in r.snap \ revived' :
                    \/ man'[b] = None \/ b \in kept
                    \/ ~HoldElapsed(MinHold, born'[b], r.at)
                    \/ \E v \in r.drop : v.blob = b
                    \/ r.pc = "dropManifest" /\ r.blob = b
    <3>1. PICK kept \in SUBSET Blob :
                /\ IsFiniteSet(kept) /\ Cardinality(kept) <= Keep
                /\ \A b \in r.snap \ revived :
                    \/ man[b] = None \/ b \in kept
                    \/ ~HoldElapsed(MinHold, born[b], r.at)
                    \/ \E v \in r.drop : v.blob = b
                    \/ r.pc = "dropManifest" /\ r.blob = b
      BY <2>3, <1>0 DEF CapInv
    <3>. QED  BY <3>1, <2>1
  <2>. QED  BY <2>2, <2>3, <1>0 DEF CapInv
<1>. QED  BY <1>1, <1>2, <1>3, <1>4 DEF TaskInv

-----------------------------------------------------------------------------
(* Steps that move one request and leave the stored state alone.           *)

LEMMA Moved ==
    ASSUME TypeOK, NEW t \in Client, NEW r \in TaskState, Become(t, r)
    PROVE  /\ task' \in [Client -> TaskState]
           /\ task'[t] = r
           /\ \A u \in Client \ {t} : task'[u] = task[u]
BY DEF TypeOK, Become

LEMMA IdleTask == Idle \in TaskState /\ TaskInv(Idle)
<1>1. Idle \in TaskState
  BY DEF Idle, TaskState
<1>2. Idle.op = "none" /\ Idle.pc = "idle" /\ Idle.drop = {} /\ Idle.vers = {}
  BY DEF Idle
<1>3. PublishInv(Idle) /\ NameInv(Idle) /\ CapInv(Idle) /\ DropInv(Idle)
  BY <1>2 DEF PublishInv, NameInv, CapInv, DropInv
<1>4. PruneInv(Idle)
  BY <1>2, FS_EmptySet DEF PruneInv
<1>. QED  BY <1>1, <1>3, <1>4 DEF TaskInv

LEMMA BackToIdle == ASSUME NEW u \in Client, task'[u] = Idle PROVE TaskInv(task[u])'
<1>1. /\ task'[u].op = "none" /\ task'[u].pc = "idle"
      /\ task'[u].drop = {} /\ task'[u].vers = {}
  BY DEF Idle
<1>2. (PublishInv(task[u]) /\ NameInv(task[u]) /\ CapInv(task[u]) /\ DropInv(task[u]))'
  BY <1>1 DEF PublishInv, NameInv, CapInv, DropInv
<1>3. PruneInv(task[u])'
  BY <1>1, FS_EmptySet DEF PruneInv
<1>. QED  BY <1>2, <1>3 DEF TaskInv

\* The versions a removed one left behind are still there when versions are
\* only added, and no removed blob becomes a version of another file.
LEMMA NewestStays ==
    ASSUME IInv, NewestKept, UNCHANGED pruned, Grown,
           tagged' \in [Object -> SUBSET Blob],
           \A o \in Object : IsFiniteSet(tagged'[o]),
           \A o \in Object : pruned \cap tagged'[o] \subseteq tagged[o]
    PROVE  NewestKept'
<1>. SUFFICES ASSUME NEW o \in Object, NEW b \in pruned, b \in tagged'[o]
              PROVE  Cardinality({c \in tagged'[o] \ (pruned \cup {b}) : born'[c] >= born'[b]}) >= Keep
  BY DEF NewestKept
<1>. DEFINE Old == {c \in tagged[o] \ (pruned \cup {b}) : born[c] >= born[b]}
            New == {c \in tagged'[o] \ (pruned \cup {b}) : born'[c] >= born'[b]}
<1>1. b \in tagged[o] /\ Cardinality(Old) >= Keep
  BY DEF NewestKept
<1>2. \A c \in tagged[o] : c \in Blob /\ born'[c] = born[c]
  BY DEF IInv, TypeOK, BlobInv, Grown
<1>3. Old \subseteq New
  BY <1>1, <1>2 DEF Grown
<1>4. IsFiniteSet(New)
  BY FS_Subset, New \in SUBSET tagged'[o]
<1>5. Cardinality(Old) <= Cardinality(New) /\ IsFiniteSet(Old)
  BY <1>3, <1>4, FS_Subset
<1>6. Cardinality(Old) \in Nat /\ Cardinality(New) \in Nat
  BY <1>4, <1>5, FS_CardinalityType
<1>. QED  BY <1>1, <1>5, <1>6, VersionsAssumption

LEMMA TaskOnly ==
    ASSUME IInv, NEW t \in Client, NEW r \in TaskState, TaskInv(r), Become(t, r),
           UNCHANGED <<man, intact, now, history>>,
           r.pc # "publish",
           r.pc = "namePut" => r.blob \in Blob /\ man[r.blob] # None
    PROVE  IInv'
<1>. USE DEF history
<1>0. /\ task' \in [Client -> TaskState] /\ task'[t] = r
      /\ \A u \in Client \ {t} : task'[u] = task[u]
  BY Moved DEF IInv
<1>1. TypeOK'
  BY <1>0 DEF IInv, TypeOK
<1>2. \A b \in Blob : BlobInv(b)'
  BY DEF IInv, BlobInv
<1>3. Grown
  BY DEF Grown, IInv, TypeOK
<1>4. TaskInv(r)'
  BY DEF TaskInv, PublishInv, NameInv, PruneInv, DropInv, CapInv
<1>5. ASSUME NEW u \in Client PROVE TaskInv(task[u])'
  <2>1. CASE u = t
    BY <2>1, <1>0, <1>4 DEF TaskInv, PublishInv, NameInv, PruneInv, DropInv, CapInv
  <2>2. CASE u # t
    <3>1. PublishInv(task[u])'
      BY <2>2, <1>0 DEF IInv, TaskInv, PublishInv
    <3>. QED  BY <2>2, <3>1, <1>0, <1>1, <1>3, Unmoved
  <2>. QED  BY <2>1, <2>2
<1>6. OnePut'
  <2>. SUFFICES ASSUME NEW u \in Client, NEW w \in Client, u # w,
                       task'[u].pc = "publish", task'[w].pc \in {"publish", "namePut"},
                       task'[u].blob = task'[w].blob
                PROVE  FALSE
    BY DEF OnePut
  <2>1. u # t /\ task'[u] = task[u]
    BY <1>0
  <2>2. man[task[u].blob] = None
    BY <2>1 DEF IInv, TaskInv, PublishInv
  <2>3. CASE w = t
    BY <2>1, <2>2, <2>3, <1>0
  <2>4. CASE w # t
    BY <2>1, <2>4, <1>0 DEF IInv, OnePut
  <2>. QED  BY <2>3, <2>4
<1>7. \A o \in Object : IsFiniteSet(tagged'[o])
  BY DEF IInv
<1>8. ~SameTick /\ OneObject => NewestKept'
  BY DEF IInv, NewestKept
<1>. QED  BY <1>1, <1>2, <1>5, <1>6, <1>7, <1>8 DEF IInv

LEMMA ToIdle ==
    ASSUME IInv, NEW t \in Client, Become(t, Idle), UNCHANGED <<man, intact, now, history>>
    PROVE  IInv'
<1>1. Idle.pc = "idle"
  BY DEF Idle
<1>. QED  BY <1>1, IdleTask, TaskOnly

LEMMA ReportStep == ASSUME IInv, NEW t \in Client, Report(t) PROVE IInv'
BY ToIdle DEF Report

LEMMA FailStep == ASSUME IInv, NEW t \in Client, Fail(t) PROVE IInv'
BY ToIdle DEF Fail

LEMMA TickStep == ASSUME IInv, Tick PROVE IInv'
<1>. USE DEF history, Tick
<1>1. TypeOK' /\ Grown
  BY DEF IInv, TypeOK, Grown
<1>2. \A b \in Blob : BlobInv(b)'
  BY DEF IInv, BlobInv
<1>3. ASSUME NEW u \in Client PROVE TaskInv(task[u])'
  <2>1. PublishInv(task[u])'
    BY DEF IInv, TaskInv, PublishInv
  <2>. QED  BY <2>1, <1>1, Unmoved
<1>4. OnePut' /\ (\A o \in Object : IsFiniteSet(tagged'[o])) /\ (~SameTick /\ OneObject => NewestKept')
  BY DEF IInv, OnePut, NewestKept
<1>. QED  BY <1>1, <1>2, <1>3, <1>4 DEF IInv

LEMMA NameGetStep ==
    ASSUME IInv, NEW t \in Client, NEW b \in Blob, NEW o \in TagsOf[b], NameGet(t, b, o)
    PROVE  IInv'
<1>. PICK m : m = IF o = None THEN man[b] ELSE [man[b] EXCEPT !.obj = o]  OBVIOUS
<1>. PICK r : r = [Idle EXCEPT !.op = "name", !.pc = "namePut", !.blob = b, !.obj = o,
                               !.man = m]  OBVIOUS
<1>1. /\ man[b] \in Manifest /\ man[b] # None /\ o \in Object \cup {None}
      /\ born[b] # None /\ man[b].created = born[b]
      /\ \A p \in Object : man[b].obj = p => p \in TagsOf[b]
  BY VersionsAssumption DEF IInv, TypeOK, BlobInv, NameGet
<1>2. /\ m \in Manifest /\ m.created = man[b].created
      /\ m.obj = IF o = None THEN man[b].obj ELSE o
  BY <1>1 DEF Manifest
<1>3. /\ r.op = "name" /\ r.pc = "namePut" /\ r.blob = b /\ r.obj = o /\ r.man = m
      /\ r.vers = {} /\ r.drop = {} /\ r \in TaskState
  BY <1>1, <1>2 DEF Idle, TaskState
<1>4. NameInv(r)
  BY <1>1, <1>2, <1>3 DEF NameInv, Manifest
<1>5. PublishInv(r) /\ DropInv(r) /\ CapInv(r)
  BY <1>3 DEF PublishInv, DropInv, CapInv
<1>6. PruneInv(r)
  BY <1>3, FS_EmptySet DEF PruneInv
<1>7. Become(t, r) /\ UNCHANGED <<man, intact, now, history>>
  BY DEF NameGet
<1>. QED  BY <1>1, <1>3, <1>4, <1>5, <1>6, <1>7, TaskOnly DEF TaskInv

LEMMA PruneListStep ==
    ASSUME IInv, NEW t \in Client, NEW o \in Object, PruneList(t, o)
    PROVE  IInv'
<1>. PICK r : r = [Idle EXCEPT !.op = "prune", !.pc = "collect", !.obj = o,
                               !.todo = Listed, !.snap = VersionsOf(o)]  OBVIOUS
<1>1. Listed \subseteq Blob /\ VersionsOf(o) \subseteq Listed
  BY DEF Listed, VersionsOf
<1>2. /\ r.op = "prune" /\ r.pc = "collect" /\ r.obj = o /\ r.todo = Listed
      /\ r.vers = {} /\ r.drop = {} /\ r.snap = VersionsOf(o) /\ r \in TaskState
  BY <1>1 DEF Idle, TaskState
<1>3. VersionsOf(o) \subseteq tagged[o]
  BY DEF VersionsOf, Listed, IInv, BlobInv
<1>4. PublishInv(r) /\ NameInv(r) /\ DropInv(r)
  BY <1>2 DEF PublishInv, NameInv, DropInv
<1>5. PruneInv(r)
  BY <1>2, <1>3, FS_EmptySet DEF PruneInv
<1>6. CapInv(r)
  BY <1>1, <1>2 DEF CapInv
<1>7. Become(t, r) /\ UNCHANGED <<man, intact, now, history>>
  BY DEF PruneList
<1>. QED  BY <1>2, <1>4, <1>5, <1>6, <1>7, TaskOnly DEF TaskInv

LEMMA PruneGetStep ==
    ASSUME IInv, NEW t \in Client, NEW b \in Blob, PruneGet(t, b)
    PROVE  IInv'
<1>. PICK q : q = task[t]  OBVIOUS
<1>. PICK more : more = IF b \in VersionsOf(q.obj)
                        THEN {[blob |-> b, created |-> man[b].created]} ELSE {}  OBVIOUS
<1>. PICK r : r = [q EXCEPT !.todo = q.todo \ {b}, !.vers = q.vers \cup more]  OBVIOUS
<1>1. /\ q \in TaskState /\ q.pc = "collect" /\ b \in q.todo
      /\ PublishInv(q) /\ NameInv(q) /\ PruneInv(q) /\ DropInv(q) /\ CapInv(q)
  BY DEF IInv, TypeOK, TaskInv, PruneGet, At
<1>2. q.op = "prune" /\ q.obj \in Object /\ q.snap \subseteq tagged[q.obj] /\ q.drop = {}
  BY <1>1 DEF PruneInv
<1>3. b \in VersionsOf(q.obj) =>
        /\ man[b] \in Manifest /\ man[b].created = born[b] /\ b \in tagged[q.obj]
  BY <1>2 DEF IInv, TypeOK, BlobInv, VersionsOf, Listed
<1>4. more \subseteq Version /\ \A v \in more : v.created = born[v.blob] /\ v.blob \in tagged[q.obj]
  BY <1>3 DEF Version, Manifest
<1>5. IsFiniteSet(more)
  BY FS_EmptySet, FS_Singleton
<1>6. /\ r.op = "prune" /\ r.pc = "collect" /\ r.obj = q.obj /\ r.todo = q.todo \ {b}
      /\ r.vers = q.vers \cup more /\ r.drop = {} /\ r.snap = q.snap /\ r \in TaskState
  BY <1>1, <1>2, <1>4 DEF TaskState
<1>7. PublishInv(r) /\ NameInv(r) /\ DropInv(r)
  BY <1>6 DEF PublishInv, NameInv, DropInv
<1>8. PruneInv(r)
  <2>0. IsFiniteSet(q.vers)
    BY <1>1 DEF PruneInv
  <2>1. IsFiniteSet(q.vers \cup more)
    BY <2>0, <1>5, FS_Union
  <2>. QED  BY <2>1, <1>1, <1>2, <1>4, <1>6 DEF PruneInv
<1>9. CapInv(r)
  <2>. SUFFICES ASSUME SameTag, NEW c \in q.snap \ revived
                PROVE  man[c] = None \/ c \in r.todo \/ \E v \in r.vers : v.blob = c
    BY <1>6 DEF CapInv
  <2>1. CASE c # b
    BY <2>1, <1>1, <1>2, <1>6 DEF CapInv
  <2>2. CASE c = b /\ man[b] # None
    <3>1. b \in VersionsOf(q.obj)
      BY <2>2, <1>2 DEF IInv, BlobInv, VersionsOf, Listed
    <3>2. [blob |-> b, created |-> man[b].created] \in r.vers
      BY <3>1, <1>6
    <3>. QED  BY <2>2, <3>2
  <2>. QED  BY <2>1, <2>2
<1>10. Become(t, r) /\ UNCHANGED <<man, intact, now, history>>
  <2>1. (IF b \in VersionsOf(q.obj)
         THEN q.vers \cup {[blob |-> b, created |-> man[b].created]} ELSE q.vers)
        = q.vers \cup more
    OBVIOUS
  <2>. QED  BY <2>1 DEF PruneGet
<1>. QED  BY <1>6, <1>7, <1>8, <1>9, <1>10, TaskOnly DEF TaskInv

LEMMA StartDeleteStep ==
    ASSUME IInv, NEW t \in Client, NEW b \in Blob, StartDelete(t, b)
    PROVE  IInv'
<1>. PICK v : v = [blob |-> b, created |-> born[b]]  OBVIOUS
<1>. PICK r : r = [Idle EXCEPT !.op = "delete", !.pc = "dropShards", !.drop = {v}]  OBVIOUS
<1>1. /\ v.blob = b /\ v.created = born[b] /\ born[b] \in Nat /\ v \in Version
      /\ HoldElapsed(MinHold, v.created, now)
  <2>1. born[b] \in Nat
    BY DEF IInv, TypeOK, StartDelete
  <2>2. CASE MinHold > 0
    BY <2>1, <2>2 DEF IInv, BlobInv, StartDelete, Version
  <2>3. CASE MinHold = 0
    BY <2>1, <2>3 DEF HoldElapsed, Version
  <2>. QED  BY <2>2, <2>3, VersionsAssumption
<1>2. /\ r.op = "delete" /\ r.pc = "dropShards" /\ r.drop = {v} /\ r.vers = {}
      /\ r \in TaskState
  BY <1>1 DEF Idle, TaskState
<1>3. PublishInv(r) /\ NameInv(r) /\ CapInv(r)
  BY <1>2 DEF PublishInv, NameInv, CapInv
<1>4. PruneInv(r)
  BY <1>2, FS_EmptySet DEF PruneInv
<1>5. DropInv(r)
  BY <1>1, <1>2 DEF DropInv
<1>6. Become(t, r) /\ UNCHANGED <<man, intact, now, history>>
  BY DEF StartDelete
<1>. QED  BY <1>2, <1>3, <1>4, <1>5, <1>6, TaskOnly DEF TaskInv

\* A decision keeps Keep versions, none of them older than one it lets go.
LEMMA DecideStep ==
    ASSUME IInv, NEW t \in Client, PruneDecide(t)
    PROVE  IInv'
<1>. PICK q : q = task[t]  OBVIOUS
<1>1. /\ q \in TaskState /\ q.pc = "collect" /\ q.todo = {} /\ now \in Nat
      /\ PublishInv(q) /\ NameInv(q) /\ PruneInv(q) /\ DropInv(q) /\ CapInv(q)
  BY DEF IInv, TypeOK, TaskInv, PruneDecide, At
<1>2. /\ q.op = "prune" /\ q.obj \in Object /\ q.snap \subseteq tagged[q.obj] /\ q.drop = {}
      /\ IsFiniteSet(q.vers) /\ q.vers \subseteq Version
      /\ \A v \in q.vers : v.created = born[v.blob] /\ v.blob \in tagged[q.obj]
  BY <1>1 DEF PruneInv, TaskState
<1>3. CASE Keep = 0
  <2>. PICK r : r = [q EXCEPT !.pc = "report", !.at = now]  OBVIOUS
  <2>1. /\ r.op = "prune" /\ r.pc = "report" /\ r.obj = q.obj /\ r.vers = q.vers
        /\ r.drop = {} /\ r.snap = q.snap /\ r \in TaskState
    BY <1>1, <1>2 DEF TaskState
  <2>2. TaskInv(r)
    BY <2>1, <1>2, <1>3 DEF TaskInv, PublishInv, NameInv, PruneInv, DropInv, CapInv
  <2>3. Become(t, r) /\ UNCHANGED <<man, intact, now, history>>
    BY <1>3 DEF PruneDecide
  <2>. QED  BY <2>1, <2>2, <2>3, TaskOnly
<1>4. CASE Keep # 0
  <2>1. PICK kept \in SUBSET q.vers :
          /\ Newest(kept, q.vers)
          /\ Become(t, [q EXCEPT !.drop = Losers(q.vers, kept), !.at = now,
                          !.pc = IF Losers(q.vers, kept) = {} THEN "report" ELSE "dropShards"])
    BY <1>4 DEF PruneDecide
  <2>. PICK drop : drop = Losers(q.vers, kept)  OBVIOUS
  <2>. PICK pc : pc = IF drop = {} THEN "report" ELSE "dropShards"  OBVIOUS
  <2>. PICK r : r = [q EXCEPT !.drop = drop, !.at = now, !.pc = pc]  OBVIOUS
  <2>2. /\ drop \subseteq q.vers \ kept
        /\ \A v \in drop : HoldElapsed(MinHold, v.created, now)
        /\ \A v \in q.vers \ kept : HoldElapsed(MinHold, v.created, now) => v \in drop
    BY DEF Losers
  <2>3. /\ r.op = "prune" /\ r.pc = pc /\ r.obj = q.obj /\ r.vers = q.vers
        /\ r.drop = drop /\ r.snap = q.snap /\ r.at = now
    BY <1>1, <1>2 DEF TaskState
  <2>4. pc \in {"report", "dropShards"} /\ (pc = "report" => drop = {})
    OBVIOUS
  <2>5. r \in TaskState
    BY <1>1, <1>2, <2>2, <2>4 DEF TaskState
  <2>. DEFINE S == {x.blob : x \in kept}
  <2>6. /\ IsFiniteSet(kept) /\ Cardinality(kept) <= Keep /\ Cardinality(kept) \in Nat
        /\ kept # q.vers => Cardinality(kept) = Keep
    <3>. PICK vers : vers = q.vers  OBVIOUS
    <3>0. IsFiniteSet(vers) /\ kept \in SUBSET vers
      BY <1>2
    <3>2. IsFiniteSet(kept) /\ (Cardinality(kept) = Cardinality(vers) => kept = vers)
      BY <3>0, FS_Subset
    <3>1. Cardinality(kept) \in Nat /\ Cardinality(vers) \in Nat
      BY <3>0, <3>2, FS_CardinalityType
    <3>. QED  BY <2>1, <3>1, <3>2, VersionsAssumption DEF Newest
  <2>7. IsFiniteSet(S) /\ Cardinality(S) = Cardinality(kept)
    <3>. DEFINE f == [x \in kept |-> x.blob]
    <3>1. \A x, y \in kept : x.blob = y.blob => x = y
      BY <1>2 DEF Version
    <3>2. f \in [kept -> S] /\ \A x \in kept : f[x] = x.blob
      OBVIOUS
    <3>3. \A y \in S : \E x \in kept : x.blob = y
      OBVIOUS
    <3>. HIDE DEF f, S
    <3>4. f \in Bijection(kept, S)
      BY <3>1, <3>2, <3>3 DEF Bijection, Injection, Surjection, IsInjective
    <3>5. ExistsBijection(kept, S)
      BY <3>4 DEF ExistsBijection
    <3>. QED  BY <3>5, <2>6, FS_Bijection
  <2>8. S \subseteq tagged[q.obj] /\ S \subseteq Blob
    BY <1>2 DEF Version
  <2>9. PublishInv(r) /\ NameInv(r)
    BY <2>3, <2>4 DEF PublishInv, NameInv
  <2>10. PruneInv(r)
    BY <2>3, <2>4, <1>2 DEF PruneInv
  <2>11. DropInv(r)
    <3>. SUFFICES ASSUME NEW v \in drop
                  PROVE  /\ v.created = born[v.blob]
                         /\ HoldElapsed(MinHold, v.created, now)
                         /\ v.blob \in tagged[q.obj]
                         /\ IsFiniteSet(S) /\ Cardinality(S) = Keep /\ v.blob \notin S
                         /\ \A s \in S : born[s] >= born[v.blob]
      <4>. HIDE DEF S
      <4>. QED  BY <2>3, <2>4, <2>8 DEF DropInv
    <3>1. v \in q.vers \ kept /\ v.created = born[v.blob] /\ v.blob \in tagged[q.obj]
      BY <2>2, <1>2
    <3>2. v.blob \notin S
      BY <3>1, <1>2 DEF Version
    <3>3. \A s \in S : born[s] >= born[v.blob]
      BY <3>1, <2>1, <1>2 DEF Newest
    <3>4. Cardinality(S) = Keep
      <4>. HIDE DEF S
      <4>. QED  BY <2>6, <2>7, <3>1
    <3>. QED  BY <2>2, <2>7, <3>1, <3>2, <3>3, <3>4
  <2>12. CapInv(r)
    <3>. SUFFICES ASSUME SameTag, NEW b \in q.snap \ revived
                  PROVE  \/ man[b] = None \/ b \in S
                         \/ ~HoldElapsed(MinHold, born[b], now)
                         \/ \E v \in drop : v.blob = b
      <4>1. Cardinality(S) <= Keep
        BY <2>6, <2>7
      <4>. HIDE DEF S
      <4>. QED  BY <4>1, <2>3, <2>4, <2>7, <2>8 DEF CapInv
    <3>1. CASE man[b] # None
      <4>1. PICK v \in q.vers : v.blob = b
        BY <3>1, <1>1, <1>2 DEF CapInv
      <4>. QED  BY <4>1, <1>2, <2>2
    <3>. QED  BY <3>1
  <2>13. Become(t, r) /\ UNCHANGED <<man, intact, now, history>>
    BY <2>1 DEF PruneDecide
  <2>14. r.pc \notin {"publish", "namePut"}
    BY <2>3, <2>4
  <2>. QED  BY <2>5, <2>9, <2>10, <2>11, <2>12, <2>13, <2>14, TaskOnly DEF TaskInv
<1>. QED  BY <1>3, <1>4

-----------------------------------------------------------------------------
(* Steps that change what is stored.                                       *)

LEMMA StartPutStep ==
    ASSUME IInv, NEW t \in Client, NEW b \in Blob, StartPut(t, b)
    PROVE  IInv'
<1>. USE DEF StartPut
<1>. PICK m : m = [created |-> now, obj |-> None]  OBVIOUS
<1>. PICK r : r = [Idle EXCEPT !.op = "put", !.pc = "publish", !.blob = b, !.man = m]  OBVIOUS
<1>0. now \in Nat /\ now # None /\ born \in [Blob -> Nat \cup {None}] /\ b \in Blob
  BY VersionsAssumption DEF IInv, TypeOK
<1>1. /\ r.op = "put" /\ r.pc = "publish" /\ r.blob = b /\ r.man = m
      /\ r.vers = {} /\ r.drop = {} /\ r \in TaskState
  BY <1>0 DEF Idle, TaskState, Manifest
<1>2. Become(t, r)
  OBVIOUS
<1>3. /\ task' \in [Client -> TaskState] /\ task'[t] = r
      /\ \A u \in Client \ {t} : task'[u] = task[u]
  BY <1>1, <1>2, Moved DEF IInv
<1>4. born'[b] = now /\ \A c \in Blob \ {b} : born'[c] = born[c]
  BY <1>0
<1>5. TypeOK'
  BY <1>3, <1>0 DEF IInv, TypeOK
<1>6. Grown
  BY <1>0, <1>4 DEF Grown
<1>7. man[b] = None /\ b \notin pruned /\ \A o \in Object : b \notin tagged[o]
  BY DEF IInv, BlobInv
<1>8. ASSUME NEW c \in Blob PROVE BlobInv(c)'
  <2>0. BlobInv(c)
    BY DEF IInv
  <2>1. ~SameTick => \A d \in Blob : born'[d] = born'[c] /\ born'[c] # None => d = c
    BY <2>0, <1>4 DEF BlobInv
  <2>2. CASE c = b
    BY <2>1, <2>2, <1>7 DEF BlobInv
  <2>3. CASE c # b
    BY <2>0, <2>1, <2>3, <1>4 DEF BlobInv
  <2>. QED  BY <2>2, <2>3
<1>9. \A u \in Client : task[u].pc \in {"publish", "namePut"} => task[u].blob \in Blob \ {b}
  BY DEF IInv, TaskInv, PublishInv, NameInv
<1>10. ASSUME NEW u \in Client PROVE TaskInv(task[u])'
  <2>1. CASE u = t
    <3>1. PublishInv(task[u])'
      BY <2>1, <1>1, <1>3, <1>4, <1>7, <1>0 DEF PublishInv
    <3>2. NameInv(task[u])' /\ DropInv(task[u])' /\ CapInv(task[u])'
      BY <2>1, <1>1, <1>3 DEF NameInv, DropInv, CapInv
    <3>3. PruneInv(task[u])'
      BY <2>1, <1>1, <1>3, FS_EmptySet DEF PruneInv
    <3>. QED  BY <3>1, <3>2, <3>3 DEF TaskInv
  <2>2. CASE u # t
    <3>1. PublishInv(task[u])'
      BY <2>2, <1>3, <1>4, <1>9 DEF IInv, TaskInv, PublishInv
    <3>. QED  BY <2>2, <3>1, <1>3, <1>5, <1>6, Unmoved
  <2>. QED  BY <2>1, <2>2
<1>11. OnePut'
  <2>. SUFFICES ASSUME NEW u \in Client, NEW w \in Client, u # w,
                       task'[u].pc = "publish", task'[w].pc \in {"publish", "namePut"},
                       task'[u].blob = task'[w].blob
                PROVE  FALSE
    BY DEF OnePut
  <2>1. CASE u = t
    BY <2>1, <1>3, <1>1, <1>9
  <2>2. CASE w = t
    BY <2>2, <1>3, <1>1, <1>9
  <2>3. CASE u # t /\ w # t
    BY <2>3, <1>3 DEF IInv, OnePut
  <2>. QED  BY <2>1, <2>2, <2>3
<1>12. \A o \in Object : IsFiniteSet(tagged'[o])
  BY DEF IInv
<1>13. ~SameTick /\ OneObject => NewestKept'
  BY <1>5, <1>6, <1>12, NewestStays DEF IInv, TypeOK
<1>. QED  BY <1>5, <1>8, <1>10, <1>11, <1>12, <1>13 DEF IInv

LEMMA PutManifestStep ==
    ASSUME IInv, NEW t \in Client, PutManifest(t)
    PROVE  IInv'
<1>. USE DEF PutManifest, history
<1>. PICK b : b = task[t].blob  OBVIOUS
<1>. PICK m : m = task[t].man  OBVIOUS
<1>1. /\ b \in Blob /\ born[b] # None /\ m = [created |-> born[b], obj |-> None]
      /\ man[b] = None /\ \A o \in Object : b \notin tagged[o]
  BY DEF IInv, TaskInv, PublishInv, At
<1>2. m \in Manifest /\ m # None /\ m.created = born[b] /\ m.obj = None
  BY <1>1, VersionsAssumption DEF IInv, TypeOK, Manifest
<1>3. /\ task' \in [Client -> TaskState] /\ task'[t] = Idle
      /\ \A u \in Client \ {t} : task'[u] = task[u]
  BY IdleTask, Moved DEF IInv
<1>4. man'[b] = m /\ \A c \in Blob \ {b} : man'[c] = man[c]
  BY <1>1 DEF IInv, TypeOK
<1>5. TypeOK'
  BY <1>1, <1>2, <1>3 DEF IInv, TypeOK
<1>6. Grown
  BY <1>1, <1>4 DEF Grown, IInv, TypeOK
<1>7. ASSUME NEW c \in Blob PROVE BlobInv(c)'
  <2>0. BlobInv(c)
    BY DEF IInv
  <2>1. CASE c = b
    BY <2>0, <2>1, <1>1, <1>2, <1>4, VersionsAssumption DEF BlobInv
  <2>2. CASE c # b
    BY <2>0, <2>2, <1>4 DEF BlobInv
  <2>. QED  BY <2>1, <2>2
<1>8. \A u \in Client \ {t} : task[u].pc = "publish" => task[u].blob \in Blob \ {b}
  BY DEF IInv, TaskInv, PublishInv, OnePut, At
<1>9. ASSUME NEW u \in Client PROVE TaskInv(task[u])'
  <2>1. CASE u = t
    BY <2>1, <1>3, BackToIdle
  <2>2. CASE u # t
    <3>1. PublishInv(task[u])'
      BY <2>2, <1>3, <1>4, <1>8 DEF IInv, TaskInv, PublishInv
    <3>. QED  BY <2>2, <3>1, <1>3, <1>5, <1>6, Unmoved
  <2>. QED  BY <2>1, <2>2
<1>10. OnePut'
  BY <1>3 DEF IInv, OnePut, Idle
<1>11. \A o \in Object : IsFiniteSet(tagged'[o])
  BY DEF IInv
<1>12. ~SameTick /\ OneObject => NewestKept'
  BY <1>5, <1>6, <1>11, NewestStays DEF IInv, TypeOK
<1>. QED  BY <1>5, <1>7, <1>9, <1>10, <1>11, <1>12 DEF IInv

LEMMA NamePutStep ==
    ASSUME IInv, NEW t \in Client, NamePut(t)
    PROVE  IInv'
<1>. USE DEF NamePut
<1>. PICK b : b = task[t].blob  OBVIOUS
<1>. PICK m : m = task[t].man  OBVIOUS
<1>1. /\ b \in Blob /\ born[b] # None /\ m \in Manifest /\ m.created = born[b]
      /\ task[t].obj \in TagsOf[b] /\ (task[t].obj # None => m.obj = task[t].obj)
      /\ m.obj # None => m.obj \in TagsOf[b]
      /\ m # None
  BY VersionsAssumption DEF IInv, TaskInv, NameInv, At, Manifest
<1>3. /\ task' \in [Client -> TaskState] /\ task'[t] = Idle
      /\ \A u \in Client \ {t} : task'[u] = task[u]
  BY IdleTask, Moved DEF IInv
<1>4. man' = [man EXCEPT ![b] = m] /\ man'[b] = m /\ \A c \in Blob \ {b} : man'[c] = man[c]
  BY <1>1 DEF IInv, TypeOK
<1>5. /\ \A o \in Object : tagged'[o] = IF m.obj = o THEN tagged[o] \cup {b} ELSE tagged[o]
      /\ tagged' \in [Object -> SUBSET Blob]
  BY <1>1 DEF IInv, TypeOK
<1>6. revived \subseteq revived' /\ revived' \subseteq Blob /\ (man[b] = None => b \in revived')
  BY <1>1 DEF IInv, TypeOK
<1>7. TypeOK'
  BY <1>1, <1>3, <1>4, <1>5, <1>6 DEF IInv, TypeOK
<1>8. Grown
  <2>1. \A o \in Object : tagged[o] \subseteq tagged'[o]
    BY <1>5
  <2>2. \A o \in Object : \A c \in tagged[o] :
            man[c] = None => man'[c] = None \/ c \in revived'
    BY <1>4, <1>6 DEF IInv, TypeOK
  <2>. QED  BY <2>1, <2>2, <1>6 DEF Grown, IInv, TypeOK
<1>9. ASSUME NEW c \in Blob PROVE BlobInv(c)'
  <2>0. BlobInv(c)
    BY DEF IInv
  <2>1. CASE c = b
    <3>1. man'[b].created = born'[b] /\ \A o \in Object : man'[b].obj = o => b \in tagged'[o]
      BY <1>1, <1>4, <1>5
    <3>2. \A o \in Object : b \in tagged'[o] => born'[b] # None /\ o \in TagsOf[b]
      BY <2>0, <2>1, <1>1, <1>5, VersionsAssumption DEF BlobInv
    <3>3. b \in pruned' => \E o \in Object : b \in tagged'[o]
      BY <2>0, <2>1, <1>5 DEF BlobInv
    <3>4. SameTag => \A o \in Object : b \in tagged'[o] => man'[b].obj = o
      <4>. SUFFICES ASSUME SameTag, NEW o \in Object, b \in tagged'[o]
                    PROVE  m.obj = o
        BY <1>4
      <4>1. o \in TagsOf[b]
        BY <3>2
      <4>2. task[t].obj = o /\ o # None
        BY <4>1, <1>1, VersionsAssumption DEF SameTag
      <4>. QED  BY <4>2, <1>1
    <3>. QED  BY <2>0, <2>1, <1>1, <3>1, <3>2, <3>3, <3>4 DEF BlobInv
  <2>2. CASE c # b
    <3>1. \A o \in Object : c \in tagged'[o] <=> c \in tagged[o]
      BY <2>2, <1>5
    <3>. QED  BY <2>0, <2>2, <3>1, <1>4 DEF BlobInv
  <2>. QED  BY <2>1, <2>2
<1>10. \A u \in Client \ {t} : task[u].pc = "publish" => task[u].blob \in Blob \ {b}
  BY DEF IInv, TaskInv, PublishInv, OnePut, At
<1>11. ASSUME NEW u \in Client PROVE TaskInv(task[u])'
  <2>1. CASE u = t
    BY <2>1, <1>3, BackToIdle
  <2>2. CASE u # t
    <3>1. PublishInv(task[u])'
      <4>. SUFFICES ASSUME task[u].pc = "publish" PROVE PublishInv(task[u])'
        BY <2>2, <1>3 DEF PublishInv
      <4>1. PublishInv(task[u]) /\ task[u].blob \in Blob \ {b}
        BY <2>2, <1>10 DEF IInv, TaskInv
      <4>2. \A o \in Object : task[u].blob \notin tagged'[o]
        BY <4>1, <1>5 DEF PublishInv
      <4>. QED  BY <2>2, <4>1, <4>2, <1>3, <1>4 DEF PublishInv
    <3>. QED  BY <2>2, <3>1, <1>3, <1>7, <1>8, Unmoved
  <2>. QED  BY <2>1, <2>2
<1>12. OnePut'
  BY <1>3 DEF IInv, OnePut, Idle
<1>13. \A o \in Object : IsFiniteSet(tagged'[o])
  <2>. TAKE o \in Object
  <2>1. IsFiniteSet(tagged[o]) /\ IsFiniteSet(tagged[o] \cup {b})
    BY FS_AddElement DEF IInv
  <2>. QED  BY <2>1, <1>5
<1>14. ~SameTick /\ OneObject => NewestKept'
  <2>. SUFFICES ASSUME ~SameTick, OneObject PROVE NewestKept'
    OBVIOUS
  <2>1. ASSUME NEW o \in Object, NEW c \in pruned, c \in tagged'[o]
        PROVE  c \in tagged[o]
    <3>1. CASE c = b /\ m.obj = o
      <4>1. PICK p \in Object : b \in tagged[p]
        BY <3>1, <2>1, <1>1 DEF IInv, BlobInv
      <4>2. p \in TagsOf[b] /\ o \in TagsOf[b]
        BY <4>1, <3>1, <1>1, VersionsAssumption DEF IInv, BlobInv
      <4>3. p = o
        BY <4>2, <1>1 DEF OneObject
      <4>. QED  BY <4>1, <4>3, <3>1
    <3>2. CASE c # b \/ m.obj # o
      BY <2>1, <3>2, <1>5
    <3>. QED  BY <3>1, <3>2
  <2>. QED  BY <2>1, <1>5, <1>8, <1>13, NewestStays DEF IInv
<1>. QED  BY <1>7, <1>9, <1>11, <1>12, <1>13, <1>14 DEF IInv

LEMMA DropManifestStep ==
    ASSUME IInv, NEW t \in Client, DropManifest(t)
    PROVE  IInv'
<1>. USE DEF DropManifest, history
<1>. PICK q : q = task[t]  OBVIOUS
<1>. PICK b : b = q.blob  OBVIOUS
<1>. PICK pc : pc = IF q.drop = {} THEN "report" ELSE "dropShards"  OBVIOUS
<1>. PICK r : r = [q EXCEPT !.pc = pc]  OBVIOUS
<1>1. /\ q \in TaskState /\ q.pc = "dropManifest"
      /\ PruneInv(q) /\ DropInv(q) /\ CapInv(q) /\ b \in Blob
  BY DEF IInv, TypeOK, TaskInv, DropInv, At
<1>2. pc \in {"report", "dropShards"} /\ (pc = "report" => q.drop = {})
  OBVIOUS
<1>3. /\ r.op = q.op /\ r.pc = pc /\ r.obj = q.obj /\ r.vers = q.vers
      /\ r.drop = q.drop /\ r.snap = q.snap /\ r.at = q.at
  BY <1>1 DEF TaskState
<1>4. r \in TaskState /\ Become(t, r)
  BY <1>1, <1>2 DEF TaskState
<1>5. /\ task' \in [Client -> TaskState] /\ task'[t] = r
      /\ \A u \in Client \ {t} : task'[u] = task[u]
  BY <1>4, Moved DEF IInv
<1>6. man' = [man EXCEPT ![b] = None] /\ man'[b] = None /\ \A c \in Blob \ {b} : man'[c] = man[c]
  BY <1>1 DEF IInv, TypeOK
<1>7. TypeOK'
  BY <1>5, <1>6 DEF IInv, TypeOK
<1>8. Grown
  BY <1>6 DEF Grown, IInv, TypeOK
<1>9. \A c \in Blob : BlobInv(c)'
  BY <1>6 DEF IInv, BlobInv
<1>10. ASSUME NEW u \in Client PROVE TaskInv(task[u])'
  <2>1. CASE u = t
    <3>1. PublishInv(task[u])' /\ NameInv(task[u])'
      BY <2>1, <1>2, <1>3, <1>5 DEF PublishInv, NameInv
    <3>2. PruneInv(task[u])'
      BY <2>1, <1>1, <1>2, <1>3, <1>5 DEF PruneInv
    <3>3. DropInv(task[u])'
      BY <2>1, <1>1, <1>2, <1>3, <1>5 DEF DropInv
    <3>4. CapInv(task[u])'
      <4>. SUFFICES ASSUME SameTag, q.op = "prune", Keep > 0
                    PROVE  \E kept \in SUBSET Blob :
                            /\ IsFiniteSet(kept) /\ Cardinality(kept) <= Keep
                            /\ \A c \in q.snap \ revived :
                                \/ man'[c] = None \/ c \in kept
                                \/ ~HoldElapsed(MinHold, born[c], q.at)
                                \/ \E v \in q.drop : v.blob = c
        BY <2>1, <1>2, <1>3, <1>5 DEF CapInv
      <4>1. PICK kept \in SUBSET Blob :
                /\ IsFiniteSet(kept) /\ Cardinality(kept) <= Keep
                /\ \A c \in q.snap \ revived :
                    \/ man[c] = None \/ c \in kept
                    \/ ~HoldElapsed(MinHold, born[c], q.at)
                    \/ \E v \in q.drop : v.blob = c
                    \/ q.blob = c
        BY <1>1 DEF CapInv
      <4>2. \A c \in q.snap : man[c] = None \/ c = b => man'[c] = None
        BY <1>1, <1>6 DEF TaskState
      <4>. QED  BY <4>1, <4>2
    <3>. QED  BY <3>1, <3>2, <3>3, <3>4 DEF TaskInv
  <2>2. CASE u # t
    <3>1. PublishInv(task[u])'
      BY <2>2, <1>5, <1>6 DEF IInv, TaskInv, PublishInv
    <3>. QED  BY <2>2, <3>1, <1>5, <1>7, <1>8, Unmoved
  <2>. QED  BY <2>1, <2>2
<1>11. OnePut'
  <2>1. \A u \in Client : task'[u].pc \in {"publish", "namePut"} => task'[u] = task[u]
    BY <1>2, <1>3, <1>5
  <2>. QED  BY <2>1 DEF IInv, OnePut
<1>12. \A o \in Object : IsFiniteSet(tagged'[o])
  BY DEF IInv
<1>13. ~SameTick /\ OneObject => NewestKept'
  BY <1>7, <1>8, <1>12, NewestStays DEF IInv, TypeOK
<1>. QED  BY <1>7, <1>9, <1>10, <1>11, <1>12, <1>13 DEF IInv

\* Removing one more version: whichever versions the removed one left behind
\* that have been removed since, left Keep newer ones themselves.
LEMMA NewestDrop ==
    ASSUME IInv, ~SameTick, OneObject, NEW o \in Object, NEW x \in tagged[o],
           NEW S \in SUBSET tagged[o], IsFiniteSet(S), Cardinality(S) = Keep, x \notin S,
           \A s \in S : born[s] >= born[x],
           pruned' = pruned \cup {x}, UNCHANGED <<born, tagged>>
    PROVE  NewestKept'
<1>. DEFINE Left(p, b, gone) == {c \in tagged[p] \ (gone \cup {b}) : born[c] >= born[b]}
<1>1. /\ NewestKept /\ Keep \in Nat
      /\ \A p \in Object : IsFiniteSet(tagged[p]) /\ tagged[p] \subseteq Blob
      /\ \A p \in Object : \A c \in tagged[p] : born[c] \in Nat /\ p \in TagsOf[c]
      /\ \A c, d \in Blob : born[c] = born[d] /\ born[d] # None => c = d
  BY VersionsAssumption DEF IInv, TypeOK, BlobInv
<1>2. \A p \in Object : \A b \in pruned \cap tagged[p] : Cardinality(Left(p, b, pruned)) >= Keep
  BY <1>1 DEF NewestKept
<1>3. \A p \in Object : x \in tagged[p] => p = o
  BY <1>1 DEF OneObject
<1>4. ASSUME NEW p \in Object, NEW b, NEW W \in SUBSET Left(p, b, pruned'), Cardinality(W) >= Keep
      PROVE  Cardinality(Left(p, b, pruned')) >= Keep
  <2>. DEFINE L == Left(p, b, pruned')
  <2>1. IsFiniteSet(L)
    <3>1. L \in SUBSET tagged[p]
      OBVIOUS
    <3>. HIDE DEF L
    <3>. QED  BY <3>1, <1>1, FS_Subset
  <2>. HIDE DEF L
  <2>2. IsFiniteSet(W) /\ Cardinality(W) <= Cardinality(L)
    BY <2>1, <1>4, FS_Subset DEF L
  <2>3. Cardinality(W) \in Nat /\ Cardinality(L) \in Nat
    BY <2>1, <2>2, FS_CardinalityType
  <2>4. Cardinality(L) >= Keep
    BY <2>2, <2>3, <1>4, <1>1
  <2>. QED  BY <2>4 DEF L
<1>5. PICK W \in SUBSET (tagged[o] \ (pruned \cup {x})) :
        Cardinality(W) >= Keep /\ \A c \in W : born[c] >= born[x]
  <2>1. CASE S \cap pruned = {}
    BY <2>1, <1>1
  <2>2. CASE S \cap pruned # {}
    <3>1. PICK s \in S : s \in pruned
      BY <2>2
    <3>. DEFINE W == Left(o, s, pruned)
    <3>2. Cardinality(W) >= Keep
      BY <3>1, <1>2
    <3>3. \A c \in W : born[c] >= born[x] /\ c # x
      <4>. TAKE c \in W
      <4>1. /\ c \in tagged[o] /\ born[c] >= born[s] /\ born[s] >= born[x] /\ s # x
            /\ born[c] \in Nat /\ born[s] \in Nat /\ born[x] \in Nat
            /\ s \in Blob /\ x \in Blob /\ born[x] # None
        BY <3>1, <1>1, VersionsAssumption
      <4>2. born[s] # born[x]
        BY <4>1, <1>1
      <4>. QED  BY <4>1, <4>2
    <3>4. W \in SUBSET (tagged[o] \ (pruned \cup {x}))
      BY <3>3
    <3>. HIDE DEF W
    <3>. QED  BY <3>2, <3>3, <3>4
  <2>. QED  BY <2>1, <2>2
<1>6. ASSUME NEW p \in Object, NEW b \in pruned', b \in tagged[p]
      PROVE  Cardinality(Left(p, b, pruned')) >= Keep
  <2>1. CASE b = x
    <3>1. W \in SUBSET Left(p, b, pruned')
      BY <2>1, <1>3, <1>5, <1>6
    <3>. QED  BY <3>1, <1>4, <1>5
  <2>2. CASE b # x
    <3>0. b \in pruned /\ Cardinality(Left(p, b, pruned)) >= Keep
      BY <2>2, <1>2, <1>6
    <3>1. CASE x \in Left(p, b, pruned)
      <4>1. p = o /\ born[x] >= born[b]
        BY <3>1, <1>3
      <4>2. /\ born[x] \in Nat /\ born[b] \in Nat
            /\ \A c \in W : c \in tagged[o] /\ born[c] \in Nat /\ born[c] >= born[x] /\ c \notin pruned
        BY <4>1, <1>1, <1>5, <1>6
      <4>3. \A c \in W : born[c] >= born[b] /\ c # b /\ c # x
        BY <4>1, <4>2, <3>0, <1>5
      <4>4. W \in SUBSET Left(p, b, pruned')
        BY <4>1, <4>2, <4>3
      <4>. QED  BY <4>4, <1>4, <1>5
    <3>2. CASE x \notin Left(p, b, pruned)
      <4>1. Left(p, b, pruned) \in SUBSET Left(p, b, pruned')
        BY <3>2
      <4>. QED  BY <4>1, <3>0, <1>4
    <3>. QED  BY <3>1, <3>2
  <2>. QED  BY <2>1, <2>2
<1>. QED  BY <1>6 DEF NewestKept

LEMMA DropShardsStep ==
    ASSUME IInv, NEW t \in Client, NEW v \in task[t].drop, DropShards(t, v)
    PROVE  IInv'
<1>. USE DEF DropShards
<1>. PICK q : q = task[t]  OBVIOUS
<1>. PICK r : r = [q EXCEPT !.blob = v.blob, !.drop = q.drop \ {v}, !.pc = "dropManifest"]  OBVIOUS
<1>1. /\ q \in TaskState /\ q.pc = "dropShards"
      /\ PruneInv(q) /\ DropInv(q) /\ CapInv(q)
      /\ v \in q.drop /\ v \in Version /\ v.blob \in Blob
  BY DEF IInv, TypeOK, TaskInv, TaskState, Version, At
<1>2. /\ r.op = q.op /\ r.pc = "dropManifest" /\ r.obj = q.obj /\ r.vers = q.vers
      /\ r.drop = q.drop \ {v} /\ r.snap = q.snap /\ r.at = q.at /\ r.blob = v.blob
  BY <1>1 DEF TaskState
<1>3. r \in TaskState /\ Become(t, r)
  BY <1>1 DEF TaskState
<1>4. /\ task' \in [Client -> TaskState] /\ task'[t] = r
      /\ \A u \in Client \ {t} : task'[u] = task[u]
  BY <1>3, Moved DEF IInv
<1>5. TypeOK'
  BY <1>1, <1>4 DEF IInv, TypeOK
<1>6. Grown
  BY DEF Grown, IInv, TypeOK
<1>7. q.op = "prune" => q.obj \in Object /\ v.blob \in tagged[q.obj]
  BY <1>1 DEF PruneInv, DropInv
<1>8. pruned' = IF q.op = "prune" THEN pruned \cup {v.blob} ELSE pruned
  OBVIOUS
<1>9. ASSUME NEW c \in Blob PROVE BlobInv(c)'
  <2>1. c \in pruned' => \E o \in Object : c \in tagged[o]
    BY <1>7, <1>8 DEF IInv, BlobInv
  <2>. QED  BY <2>1 DEF IInv, BlobInv
<1>10. ASSUME NEW u \in Client PROVE TaskInv(task[u])'
  <2>1. CASE u = t
    <3>1. PublishInv(task[u])' /\ NameInv(task[u])'
      BY <2>1, <1>2, <1>4 DEF PublishInv, NameInv
    <3>2. PruneInv(task[u])'
      BY <2>1, <1>1, <1>2, <1>4 DEF PruneInv
    <3>3. DropInv(task[u])'
      BY <2>1, <1>1, <1>2, <1>4 DEF DropInv
    <3>4. CapInv(task[u])'
      <4>. SUFFICES ASSUME SameTag, q.op = "prune", Keep > 0
                    PROVE  \E kept \in SUBSET Blob :
                            /\ IsFiniteSet(kept) /\ Cardinality(kept) <= Keep
                            /\ \A c \in q.snap \ revived :
                                \/ man[c] = None \/ c \in kept
                                \/ ~HoldElapsed(MinHold, born[c], q.at)
                                \/ \E w \in q.drop \ {v} : w.blob = c
                                \/ v.blob = c
        BY <2>1, <1>2, <1>4 DEF CapInv
      <4>1. PICK kept \in SUBSET Blob :
                /\ IsFiniteSet(kept) /\ Cardinality(kept) <= Keep
                /\ \A c \in q.snap \ revived :
                    \/ man[c] = None \/ c \in kept
                    \/ ~HoldElapsed(MinHold, born[c], q.at)
                    \/ \E w \in q.drop : w.blob = c
        BY <1>1 DEF CapInv
      <4>. QED  BY <4>1
    <3>. QED  BY <3>1, <3>2, <3>3, <3>4 DEF TaskInv
  <2>2. CASE u # t
    <3>1. PublishInv(task[u])'
      BY <2>2, <1>4 DEF IInv, TaskInv, PublishInv
    <3>. QED  BY <2>2, <3>1, <1>4, <1>5, <1>6, Unmoved
  <2>. QED  BY <2>1, <2>2
<1>11. OnePut'
  <2>1. \A u \in Client : task'[u].pc \in {"publish", "namePut"} => task'[u] = task[u]
    BY <1>2, <1>4
  <2>. QED  BY <2>1 DEF IInv, OnePut
<1>12. \A o \in Object : IsFiniteSet(tagged'[o])
  BY DEF IInv
<1>13. ~SameTick /\ OneObject => NewestKept'
  <2>. SUFFICES ASSUME ~SameTick, OneObject PROVE NewestKept'
    OBVIOUS
  <2>1. CASE q.op = "prune"
    <3>1. PICK S \in SUBSET tagged[q.obj] :
            /\ IsFiniteSet(S) /\ Cardinality(S) = Keep /\ v.blob \notin S
            /\ \A s \in S : born[s] >= born[v.blob]
      BY <2>1, <1>1 DEF DropInv
    <3>. QED  BY <2>1, <3>1, <1>7, <1>8, NewestDrop
  <2>2. CASE q.op # "prune"
    BY <2>2, <1>5, <1>6, <1>8, <1>12, NewestStays DEF IInv, TypeOK
  <2>. QED  BY <2>1, <2>2
<1>. QED  BY <1>5, <1>9, <1>10, <1>11, <1>12, <1>13 DEF IInv

-----------------------------------------------------------------------------
LEMMA InitInv == Init => IInv
<1>. SUFFICES ASSUME Init PROVE IInv
  OBVIOUS
<1>. USE DEF Init
<1>1. TypeOK
  BY IdleTask DEF TypeOK
<1>2. \A b \in Blob : BlobInv(b)
  BY DEF BlobInv
<1>3. \A t \in Client : TaskInv(task[t])
  BY IdleTask
<1>4. OnePut
  BY DEF OnePut, Idle
<1>5. \A o \in Object : IsFiniteSet(tagged[o])
  BY FS_EmptySet
<1>6. NewestKept
  BY DEF NewestKept
<1>. QED  BY <1>1, <1>2, <1>3, <1>4, <1>5, <1>6 DEF IInv

LEMMA NextInv == IInv /\ [Next]_vars => IInv'
<1>. SUFFICES ASSUME IInv, [Next]_vars PROVE IInv'
  OBVIOUS
<1>1. ASSUME NEW t \in Client, StartRequest(t) PROVE IInv'
  BY <1>1, VersionsAssumption, StartPutStep, StartDeleteStep, NameGetStep, PruneListStep
     DEF StartRequest
<1>2. ASSUME NEW t \in Client, PruneStep(t) PROVE IInv'
  BY <1>2, PruneGetStep, DecideStep, DropShardsStep, DropManifestStep, ReportStep
     DEF PruneStep
<1>3. CASE UNCHANGED vars
  <2>. USE <1>3 DEF vars, history
  <2>1. TypeOK' /\ Grown
    BY DEF IInv, TypeOK, Grown
  <2>2. (\A b \in Blob : BlobInv(b)')
    BY DEF IInv, BlobInv
  <2>3. OnePut' /\ (\A o \in Object : IsFiniteSet(tagged'[o])) /\ (~SameTick /\ OneObject => NewestKept')
    BY DEF IInv, OnePut, NewestKept
  <2>4. ASSUME NEW u \in Client PROVE TaskInv(task[u])'
    <3>1. PublishInv(task[u])'
      BY DEF IInv, TaskInv, PublishInv
    <3>. QED  BY <3>1, <2>1, Unmoved
  <2>. QED  BY <2>1, <2>2, <2>3, <2>4 DEF IInv
<1>. QED  BY <1>1, <1>2, <1>3, PutManifestStep, NamePutStep, FailStep, TickStep DEF Next

\* The inductive invariant holds of every behaviour.
LEMMA Inductive == Spec => []IInv
BY InitInv, NextInv, PTL DEF Spec

-----------------------------------------------------------------------------
\* Manifests keep the stamp put_backup.rs gave them and every request is in one
\* of the steps its handler has, whatever the requests, blobs and policy.
THEOREM TypeCorrect == Spec => []TypeOK
<1>1. IInv => TypeOK
  BY DEF IInv
<1>. QED  BY <1>1, Inductive, PTL

\* "keep newest N versions of a file": however prunes, late puts, renames,
\* deletes and failures interleave, a version a prune has removed leaves
\* keep_versions others of its file, none of them older, that no prune has
\* removed. Stamps have to differ (prune_versions.rs sorts by created_at alone)
\* and a blob has to be a version of one file only.
THEOREM NewestAreKept ==
    ASSUME ~SameTick, OneObject
    PROVE  Spec => []NewestKept
<1>1. IInv => NewestKept
  BY DEF IInv
<1>. QED  BY <1>1, Inductive, PTL

\* "keep_versions caps stored versions per file": when a prune reports, at most
\* keep_versions of the versions listed when it began are left, but for those
\* under their hold and those a rename in flight has put back. Every blob has
\* to be named with one object id: set_manifest_name with another moves a
\* version out of the prune's sight after it was listed.
THEOREM PruneIsCapped ==
    ASSUME SameTag
    PROVE  Spec => []PruneCaps
<1>1. IInv => PruneCaps
  <2>. SUFFICES ASSUME IInv, NEW t \in Client, At(t, "report"), task[t].op = "prune", Keep > 0
                PROVE  Cardinality({b \in task[t].snap \ revived :
                         man[b] # None /\ HoldElapsed(MinHold, born[b], task[t].at)}) <= Keep
    BY DEF PruneCaps
  <2>. DEFINE left == {b \in task[t].snap \ revived :
                         man[b] # None /\ HoldElapsed(MinHold, born[b], task[t].at)}
  <2>0. task[t].drop = {} /\ task[t].pc = "report" /\ CapInv(task[t])
    BY DEF IInv, TaskInv, DropInv, At
  <2>1. PICK kept \in SUBSET Blob :
          /\ IsFiniteSet(kept) /\ Cardinality(kept) <= Keep
          /\ \A b \in task[t].snap \ revived :
              man[b] = None \/ b \in kept \/ ~HoldElapsed(MinHold, born[b], task[t].at)
    BY <2>0 DEF CapInv
  <2>2. left \in SUBSET kept
    BY <2>1
  <2>. HIDE DEF left
  <2>3. IsFiniteSet(left) /\ Cardinality(left) <= Cardinality(kept)
    BY <2>1, <2>2, FS_Subset
  <2>4. Cardinality(left) \in Nat /\ Cardinality(kept) \in Nat
    BY <2>1, <2>3, FS_CardinalityType
  <2>5. Cardinality(left) <= Keep
    BY <2>1, <2>3, <2>4, VersionsAssumption
  <2>. QED  BY <2>5 DEF left
<1>. QED  BY <1>1, Inductive, PTL

\* "never a version still under its min_days retention hold": no step of a prune
\* or a delete takes the shards of a version whose hold is running off the anchor.
THEOREM HoldIsRespected == Spec => HoldRespected
<1>1. IInv /\ [Next]_vars => [HoldStep]_vars
  <2>. SUFFICES ASSUME IInv, Next, NEW b \in intact, b \notin intact'
                PROVE  HoldElapsed(MinHold, born[b], now)
    BY DEF HoldStep
  <2>1. PICK t \in Client : \E v \in task[t].drop : DropShards(t, v)
    BY DEF Next, StartRequest, PruneStep, StartPut, PutManifest, NameGet, NamePut, PruneList,
           PruneGet, PruneDecide, DropManifest, Report, StartDelete, Fail, Tick
  <2>2. PICK v \in task[t].drop : DropShards(t, v)
    BY <2>1
  <2>3. b = v.blob
    BY <2>2 DEF DropShards
  <2>. QED  BY <2>2, <2>3 DEF IInv, TaskInv, DropInv
<1>. QED  BY <1>1, Inductive, PTL DEF Spec, HoldRespected
=============================================================================
