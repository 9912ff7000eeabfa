------------------------------ MODULE FsAnchor ------------------------------
(***************************************************************************)
(* adapter-blob-fs: put_shard writes <index>.shard.tmp and renames it to   *)
(* <index>.shard; delete_blob is remove_dir_all of the blob's directory.   *)
(* The module follows one shard at the level of the file system: names,    *)
(* inodes, open files with their own offset. Every call that puts the      *)
(* shard (a put, a repair, a sweep, a peer's replica) is a writer, writes  *)
(* the same bytes and uses the same temporary name.                        *)
(***************************************************************************)
EXTENDS Integers, FiniteSets

CONSTANTS
    Writer,     \* put_shard calls at a time
    Deleter,    \* delete_blob calls at a time
    Inode,      \* inodes of the file system, enough of them
    Chunks,     \* a shard takes this many writes
    None

ASSUME FsAssumption ==
    /\ Chunks \in Nat \ {0}
    /\ None \notin Inode

Chunk == 1..Chunks

VARIABLES
    dir,    \* whether the blob's directory exists
    path,   \* the inode of <index>.shard, or None
    tmp,    \* the inode of <index>.shard.tmp, or None
    data,   \* Inode -> the chunks of the shard it holds
    writer, \* Writer -> program counter, open file, next chunk
    deleter, \* Deleter -> program counter, names still to unlink
    \* history
    shared, \* whether two put_shard calls were ever in progress at once
    broken  \* whether a call ever failed half-way or the process crashed

history == <<shared, broken>>
vars == <<dir, path, tmp, data, writer, deleter, history>>

Quiet == [pc |-> "idle", fd |-> None, next |-> 1]
Done  == [pc |-> "idle", names |-> {}]

Init ==
    /\ dir = FALSE /\ path = None /\ tmp = None
    /\ data = [i \in Inode |-> {}]
    /\ writer = [w \in Writer |-> Quiet]
    /\ deleter = [d \in Deleter |-> Done]
    /\ shared = FALSE /\ broken = FALSE

InUse == {path, tmp} \cup {writer[w].fd : w \in Writer}

-----------------------------------------------------------------------------
(* put_shard *)

\* create_dir_all of the parent.
Mkdir(w) ==
    /\ writer[w].pc = "idle"
    /\ dir' = TRUE
    /\ writer' = [writer EXCEPT ![w] = [Quiet EXCEPT !.pc = "open"]]
    /\ shared' = (shared \/ \E v \in Writer : writer[v].pc # "idle")
    /\ UNCHANGED <<path, tmp, data, deleter, broken>>

\* Mutant of Open: the shard is written in place.
OpenInPlace(w, i) ==
    /\ writer[w].pc = "open"
    /\ dir
    /\ i = path \/ (path = None /\ i \notin InUse)
    /\ path' = i
    /\ data' = [data EXCEPT ![i] = {}]
    /\ writer' = [writer EXCEPT ![w] = [pc |-> "write", fd |-> i, next |-> 1]]
    /\ UNCHANGED <<dir, tmp, deleter, history>>

\* tokio::fs::write opens the temporary file: created, or truncated.
Open(w, i) ==
    /\ writer[w].pc = "open"
    /\ dir
    /\ i = tmp \/ (tmp = None /\ i \notin InUse)
    /\ tmp' = i
    /\ data' = [data EXCEPT ![i] = {}]
    /\ writer' = [writer EXCEPT ![w] = [pc |-> "write", fd |-> i, next |-> 1]]
    /\ UNCHANGED <<dir, path, deleter, history>>

\* A delete took the directory away: the call fails.
OpenFails(w) ==
    /\ writer[w].pc = "open"
    /\ ~dir
    /\ writer' = [writer EXCEPT ![w] = Quiet]
    /\ UNCHANGED <<dir, path, tmp, data, deleter, history>>

\* Mutant of Write: the last chunk is not flushed.
WriteShort(w) ==
    /\ writer[w].pc = "write"
    /\ LET c == writer[w].next
       IN  /\ data' = IF c < Chunks THEN [data EXCEPT ![writer[w].fd] = @ \cup {c}] ELSE data
           /\ writer' = [writer EXCEPT ![w] =
                  [pc |-> IF c >= Chunks THEN "rename" ELSE "write", fd |-> @.fd, next |-> c + 1]]
    /\ UNCHANGED <<dir, path, tmp, deleter, history>>

\* The next chunk goes to the open file, whatever name that file has by now.
Write(w) ==
    /\ writer[w].pc = "write"
    /\ LET c == writer[w].next
       IN  /\ data' = [data EXCEPT ![writer[w].fd] = @ \cup {c}]
           /\ writer' = [writer EXCEPT ![w] =
                  [pc |-> IF c = Chunks THEN "rename" ELSE "write", fd |-> @.fd, next |-> c + 1]]
    /\ UNCHANGED <<dir, path, tmp, deleter, history>>

\* rename replaces the shard; without a temporary file it fails.
Rename(w) ==
    /\ writer[w].pc = "rename"
    /\ path' = IF tmp = None THEN path ELSE tmp
    /\ tmp' = None
    /\ writer' = [writer EXCEPT ![w] = Quiet]
    /\ UNCHANGED <<dir, data, deleter, history>>

-----------------------------------------------------------------------------
(* delete_blob *)

\* remove_dir_all reads the directory (an absent one is fine) ...
DelRead(d) ==
    /\ deleter[d].pc = "idle"
    /\ dir
    /\ deleter' = [deleter EXCEPT ![d] =
           [pc |-> "unlink", names |-> {n \in {"path", "tmp"} :
                IF n = "path" THEN path # None ELSE tmp # None}]]
    /\ UNCHANGED <<dir, path, tmp, data, writer, history>>

\* ... unlinks what it saw, open or not ...
DelUnlink(d, n) ==
    /\ deleter[d].pc = "unlink"
    /\ n \in deleter[d].names
    /\ path' = IF n = "path" THEN None ELSE path
    /\ tmp' = IF n = "tmp" THEN None ELSE tmp
    /\ deleter' = [deleter EXCEPT ![d].names = @ \ {n}]
    /\ UNCHANGED <<dir, data, writer, history>>

\* ... and removes the directory, unless something was put there meanwhile.
DelRmdir(d) ==
    /\ deleter[d].pc = "unlink"
    /\ deleter[d].names = {}
    /\ dir' = (dir /\ (path # None \/ tmp # None))
    /\ deleter' = [deleter EXCEPT ![d] = Done]
    /\ UNCHANGED <<path, tmp, data, writer, history>>

-----------------------------------------------------------------------------
\* An I/O error ends the call; nothing is cleaned up.
Fail(w) ==
    /\ writer[w].pc # "idle"
    /\ writer' = [writer EXCEPT ![w] = Quiet]
    /\ broken' = TRUE
    /\ UNCHANGED <<dir, path, tmp, data, deleter, shared>>

\* The node-agent stops; the files stay.
Crash ==
    /\ writer' = [w \in Writer |-> Quiet]
    /\ deleter' = [d \in Deleter |-> Done]
    /\ broken' = TRUE
    /\ UNCHANGED <<dir, path, tmp, data, shared>>

Next ==
    \/ \E w \in Writer : \/ Mkdir(w) \/ OpenFails(w) \/ Write(w) \/ Rename(w) \/ Fail(w)
                         \/ \E i \in Inode : Open(w, i)
    \/ \E d \in Deleter : \/ DelRead(d) \/ DelRmdir(d)
                          \/ \E n \in {"path", "tmp"} : DelUnlink(d, n)
    \/ Crash

Spec == Init /\ [][Next]_vars

-----------------------------------------------------------------------------
\* Files hold chunks of the shard; names and open files refer to inodes.
TypeOK ==
    /\ dir \in BOOLEAN
    /\ path \in Inode \cup {None} /\ tmp \in Inode \cup {None}
    /\ data \in [Inode -> SUBSET Chunk]
    /\ writer \in [Writer -> [pc : {"idle", "open", "write", "rename"},
                              fd : Inode \cup {None}, next : 1..(Chunks + 1)]]
    /\ deleter \in [Deleter -> [pc : {"idle", "unlink"}, names : SUBSET {"path", "tmp"}]]
    /\ shared \in BOOLEAN /\ broken \in BOOLEAN

\* As long as no two put_shard calls for the shard overlap, a reader of
\* <index>.shard never sees part of it, even after failed calls, crashes and
\* deletes at any point.
AtomicAlone == ~shared /\ path # None => data[path] = Chunk

\* However many puts of the same shard (and deletes) share the temporary file,
\* once the calls have ended the shard is whole or absent, unless a call failed
\* half-way or the process crashed.
SettledWhole ==
    ~broken /\ path # None /\ (\A w \in Writer : writer[w].pc = "idle") =>
        data[path] = Chunk
=============================================================================
