------------------------------ MODULE Versions ------------------------------
(***************************************************************************)
(* keep_versions: PruneVersions::execute beside puts, deletes and          *)
(* set_manifest_name, and beside other prunes. A prune decides from        *)
(* manifests it read one by one and removes the losers one by one.         *)
(*                                                                         *)
(* Abstraction. The shards of a blob are one Boolean (BlobLifecycle has    *)
(* them one by one); a manifest keeps its creation stamp and object id.    *)
(* list_blobs returns the keys of a hash map: versions with equal stamps   *)
(* are ranked in any order.                                                *)
(***************************************************************************)
EXTENDS FiniteSets, Domain

CONSTANTS
    Client,     \* requests in flight
    Blob,       \* blob ids
    Object,     \* object ids: HMACs of file names
    TagsOf,     \* Blob -> the tags set_manifest_name is called with, None: no tag
    Keep,       \* RetentionPolicy.keep_versions
    MinHold,    \* RetentionPolicy.min_days in clock ticks
    MaxNow,     \* bound: the clock stops there
    SameTick,   \* whether two puts may be stamped in the same millisecond
    Ops,        \* the requests clients make: bound of a run
    Faulty,     \* requests whose calls may fail
    None

ASSUME VersionsAssumption ==
    /\ TagsOf \in [Blob -> SUBSET (Object \cup {None})]
    /\ Keep \in Nat /\ MinHold \in Nat /\ MaxNow \in Nat
    /\ SameTick \in BOOLEAN
    /\ None \notin Blob \cup Object \cup Nat
    /\ None \notin [created : Nat, obj : Object \cup {None}]

Manifest == [created : Nat, obj : Object \cup {None}]

VARIABLES
    man,      \* coordinator: Blob -> Manifest or None
    intact,   \* blobs whose shards are on the anchor
    task,     \* Client -> the request in flight
    now,
    \* history
    born,     \* Blob -> its stamp, None before the put
    tagged,   \* Object -> the blobs ever listed as its versions
    pruned,   \* blobs a prune has removed the shards of
    revived   \* blobs whose manifest a rename put back after a removal

history == <<born, tagged, pruned, revived>>
vars == <<man, intact, task, now, history>>

\* obj: the object to prune or the tag to set; at: the clock at the decision;
\* snap is history: the versions that were listed when the prune listed them.
Idle == [op |-> "none", pc |-> "idle", blob |-> None, obj |-> None, man |-> None,
         todo |-> {}, vers |-> {}, drop |-> {}, at |-> 0, snap |-> {}]

Init ==
    /\ man = [b \in Blob |-> None]
    /\ intact = {}
    /\ task = [t \in Client |-> Idle]
    /\ now = 0
    /\ born = [b \in Blob |-> None]
    /\ tagged = [o \in Object |-> {}]
    /\ pruned = {} /\ revived = {}

-----------------------------------------------------------------------------
At(t, pc) == task[t].pc = pc
Become(t, r) == task' = [task EXCEPT ![t] = r]

Listed == {b \in Blob : man[b] # None}
VersionsOf(o) == {b \in Listed : man[b].obj = o}

\* The shards of a new blob are on the anchor; its manifest gets the stamp now.
StartPut(t, b) ==
    /\ At(t, "idle") /\ born[b] = None
    /\ SameTick \/ \A c \in Blob : born[c] # now
    /\ intact' = intact \cup {b}
    /\ born' = [born EXCEPT ![b] = now]
    /\ Become(t, [Idle EXCEPT !.op = "put", !.pc = "publish", !.blob = b,
                              !.man = [created |-> now, obj |-> None]])
    /\ UNCHANGED <<man, now, tagged, pruned, revived>>

\* Mutant of PutManifest: created_at is left out.
PutManifestUnstamped(t) ==
    /\ At(t, "publish")
    /\ man' = [man EXCEPT ![task[t].blob] = [created |-> None, obj |-> None]]
    /\ Become(t, Idle)
    /\ UNCHANGED <<intact, now, history>>

PutManifest(t) ==
    /\ At(t, "publish")
    /\ man' = [man EXCEPT ![task[t].blob] = task[t].man]
    /\ Become(t, Idle)
    /\ UNCHANGED <<intact, now, history>>

-----------------------------------------------------------------------------
(* set_manifest_name: an object id is only replaced when one is given. *)

NameGet(t, b, o) ==
    /\ At(t, "idle") /\ man[b] # None
    /\ o \in TagsOf[b]
    /\ Become(t, [Idle EXCEPT !.op = "name", !.pc = "namePut", !.blob = b, !.obj = o,
                              !.man = IF o = None THEN man[b]
                                      ELSE [man[b] EXCEPT !.obj = o]])
    /\ UNCHANGED <<man, intact, now, history>>

NamePut(t) ==
    LET b == task[t].blob
        m == task[t].man
    IN  /\ At(t, "namePut")
        /\ man' = [man EXCEPT ![b] = m]
        /\ Become(t, Idle)
        /\ tagged' = [o \in Object |-> IF m.obj = o THEN tagged[o] \cup {b} ELSE tagged[o]]
        /\ revived' = IF man[b] = None THEN revived \cup {b} ELSE revived
        /\ UNCHANGED <<intact, now, born, pruned>>

-----------------------------------------------------------------------------
(* PruneVersions::execute *)

\* list_blobs ...
PruneList(t, o) ==
    /\ At(t, "idle")
    /\ Become(t, [Idle EXCEPT !.op = "prune", !.pc = "collect", !.obj = o,
                              !.todo = Listed, !.snap = VersionsOf(o)])
    /\ UNCHANGED <<man, intact, now, history>>

\* ... get_manifest of one after the other; one that is gone is skipped.
PruneGet(t, b) ==
    /\ At(t, "collect")
    /\ b \in task[t].todo
    /\ Become(t, [task[t] EXCEPT !.todo = @ \ {b},
                    !.vers = IF b \in VersionsOf(task[t].obj)
                             THEN @ \cup {[blob |-> b, created |-> man[b].created]}
                             ELSE @])
    /\ UNCHANGED <<man, intact, now, history>>

\* "Newest first; the first keep are always retained": kept is a possible
\* beginning of the sorted list.
Newest(kept, vers) ==
    /\ kept \subseteq vers
    /\ Cardinality(kept) = IF Cardinality(vers) < Keep THEN Cardinality(vers) ELSE Keep
    /\ \A x \in kept, y \in vers \ kept : x.created >= y.created

\* Mutant of Losers: the hold is not looked at.
LosersNoHold(vers, kept) == vers \ kept

\* Mutant of Losers: one version more is retained.
LosersAllButOne(vers, kept) ==
    {v \in vers \ kept : /\ HoldElapsed(MinHold, v.created, now)
                         /\ \E w \in vers \ kept : w.created > v.created}

\* Mutant of Losers: the sort is ascending.
LosersAscending(vers, kept) ==
    {v \in vers : /\ HoldElapsed(MinHold, v.created, now)
                  /\ Cardinality({w \in vers : w.created < v.created}) >= Keep}

\* The versions beyond the first keep, except those under their hold.
Losers(vers, kept) == {v \in vers \ kept : HoldElapsed(MinHold, v.created, now)}

\* keep_versions = 0 means unlimited.
PruneDecide(t) ==
    /\ At(t, "collect") /\ task[t].todo = {}
    /\ IF Keep = 0 THEN Become(t, [task[t] EXCEPT !.pc = "report", !.at = now])
       ELSE \E kept \in SUBSET task[t].vers :
              /\ Newest(kept, task[t].vers)
              /\ LET drop == Losers(task[t].vers, kept)
                 IN  Become(t, [task[t] EXCEPT !.drop = drop, !.at = now,
                                  !.pc = IF drop = {} THEN "report" ELSE "dropShards"])
    /\ UNCHANGED <<man, intact, now, history>>

\* anchor.delete_blob, of the next version in the sorted order.
DropShards(t, v) ==
    /\ At(t, "dropShards")
    /\ v \in task[t].drop /\ \A w \in task[t].drop : v.created >= w.created
    /\ intact' = intact \ {v.blob}
    /\ pruned' = IF task[t].op = "prune" THEN pruned \cup {v.blob} ELSE pruned
    /\ Become(t, [task[t] EXCEPT !.blob = v.blob, !.drop = @ \ {v}, !.pc = "dropManifest"])
    /\ UNCHANGED <<man, now, born, tagged, revived>>

DropManifest(t) ==
    /\ At(t, "dropManifest")
    /\ man' = [man EXCEPT ![task[t].blob] = None]
    /\ Become(t, [task[t] EXCEPT !.pc = IF task[t].drop = {} THEN "report" ELSE "dropShards"])
    /\ UNCHANGED <<intact, now, history>>

Report(t) ==
    /\ At(t, "report")
    /\ Become(t, Idle)
    /\ UNCHANGED <<man, intact, now, history>>

-----------------------------------------------------------------------------
\* DeleteBackup::execute: the hold is looked up only if the contract has one.
StartDelete(t, b) ==
    /\ At(t, "idle") /\ born[b] # None
    /\ MinHold > 0 => man[b] # None /\ HoldElapsed(MinHold, man[b].created, now)
    /\ Become(t, [Idle EXCEPT !.op = "delete", !.pc = "dropShards",
                              !.drop = {[blob |-> b, created |-> born[b]]}])
    /\ UNCHANGED <<man, intact, now, history>>

Fail(t) ==
    /\ t \in Faulty /\ ~At(t, "idle")
    /\ Become(t, Idle)
    /\ UNCHANGED <<man, intact, now, history>>

Tick ==
    /\ now < MaxNow
    /\ now' = now + 1
    /\ UNCHANGED <<man, intact, task, history>>

PruneStep(t) ==
    \/ \E b \in Blob : PruneGet(t, b)
    \/ PruneDecide(t)
    \/ \E v \in task[t].drop : DropShards(t, v)
    \/ DropManifest(t) \/ Report(t)

StartRequest(t) ==
    \/ \E b \in Blob :
        \/ "put" \in Ops /\ StartPut(t, b)
        \/ "delete" \in Ops /\ StartDelete(t, b)
        \/ "name" \in Ops /\ \E o \in TagsOf[b] : NameGet(t, b, o)
    \/ "prune" \in Ops /\ \E o \in Object : PruneList(t, o)

Next ==
    \/ \E t \in Client : StartRequest(t) \/ PutManifest(t) \/ NamePut(t)
                         \/ PruneStep(t) \/ Fail(t)
    \/ Tick

Spec == Init /\ [][Next]_vars

-----------------------------------------------------------------------------
Version == [blob : Blob, created : Nat]

TaskState ==
    [op : {"none", "put", "name", "prune", "delete"},
     pc : {"idle", "publish", "namePut", "collect", "dropShards", "dropManifest", "report"},
     blob : Blob \cup {None}, obj : Object \cup {None}, man : Manifest \cup {None},
     todo : SUBSET Blob, vers : SUBSET Version, drop : SUBSET Version,
     at : Nat, snap : SUBSET Blob]

\* Manifests are stamped, and requests and collected versions well formed.
TypeOK ==
    /\ man \in [Blob -> Manifest \cup {None}]
    /\ intact \subseteq Blob
    /\ task \in [Client -> TaskState]
    /\ now \in Nat
    /\ born \in [Blob -> Nat \cup {None}]
    /\ tagged \in [Object -> SUBSET Blob]
    /\ pruned \subseteq Blob /\ revived \subseteq Blob

\* "keep newest N versions of a file, delete older": every version that prunes
\* have removed leaves keep_versions others of its file, none of them older,
\* that no prune has removed, however prunes, late puts, renames and failures
\* interleave.
NewestKept ==
    \A o \in Object : \A b \in pruned \cap tagged[o] :
        Cardinality({c \in tagged[o] \ (pruned \cup {b}) : born[c] >= born[b]}) >= Keep

\* "keep_versions caps stored versions per file": when a prune reports, at most
\* keep_versions of the versions that were listed when it began are still
\* listed, apart from those under their hold when it decided and those a
\* rename in flight has put back.
PruneCaps ==
    \A t \in Client : At(t, "report") /\ task[t].op = "prune" /\ Keep > 0 =>
        Cardinality({b \in task[t].snap \ revived :
                       man[b] # None /\ HoldElapsed(MinHold, born[b], task[t].at)}) <= Keep

HoldStep == \A b \in intact \ intact' : HoldElapsed(MinHold, born[b], now)

\* "never a version still under its min_days retention hold": a prune or delete
\* removes the shards of no version whose hold is running.
HoldRespected == [][HoldStep]_vars

\* "keep newest N versions of a file": a prune about to remove the shards of a
\* version leaves keep_versions restorable ones (listed, shards on the anchor).
PruneLeavesRestorable ==
    \A t \in Client : At(t, "dropShards") /\ task[t].op = "prune" =>
        \A v \in task[t].drop : v.blob \in intact =>
            Cardinality((VersionsOf(task[t].obj) \cap intact)
                            \ {w.blob : w \in task[t].drop}) >= Keep
=============================================================================
