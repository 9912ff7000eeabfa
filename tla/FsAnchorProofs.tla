--------------------------- MODULE FsAnchorProofs ---------------------------
(***************************************************************************)
(* The guarantees of the file system anchor for every number of chunks,    *)
(* inodes, writers and deletes: whole shards at every moment while puts do  *)
(* not overlap, crashes included, and whole shards at rest however they    *)
(* overlap, as long as none fails half-way.                                *)
(***************************************************************************)
EXTENDS FsAnchor, TLAPS

\* Types that every step keeps, the open file of a writer included.
Shape ==
    /\ TypeOK
    /\ \A w \in Writer : writer[w].pc = "write" =>
          writer[w].fd \in Inode /\ writer[w].next \in Chunk

\* The initial state is well formed.
LEMMA InitShape == ASSUME Init PROVE Shape
<1> USE FsAssumption DEF Init, Quiet, Done, Chunk
<1>1. data \in [Inode -> SUBSET Chunk]
  OBVIOUS
<1>2. writer \in [Writer -> [pc : {"idle", "open", "write", "rename"},
                             fd : Inode \cup {None}, next : 1..(Chunks + 1)]]
  OBVIOUS
<1>3. deleter \in [Deleter -> [pc : {"idle", "unlink"}, names : SUBSET {"path", "tmp"}]]
  OBVIOUS
<1>. QED
  BY <1>1, <1>2, <1>3 DEF Shape, TypeOK

\* Every step keeps the state well formed.
LEMMA NextShape == ASSUME Shape, [Next]_vars PROVE Shape'
<1> USE FsAssumption DEF Shape, TypeOK, Quiet, Done, Chunk, history
<1>1. ASSUME NEW w \in Writer, Mkdir(w) PROVE Shape'
  BY <1>1 DEF Mkdir
<1>2. ASSUME NEW w \in Writer, NEW i \in Inode, Open(w, i) PROVE Shape'
  BY <1>2 DEF Open
<1>3. ASSUME NEW w \in Writer, OpenFails(w) PROVE Shape'
  BY <1>3 DEF OpenFails
<1>4. ASSUME NEW w \in Writer, Write(w) PROVE Shape'
  <2>1. writer[w].next \in Chunk /\ writer[w].fd \in Inode
    BY <1>4 DEF Write
  <2>2. \A c \in Chunk : c + 1 \in 1..(Chunks + 1) /\ (c # Chunks => c + 1 \in Chunk)
    OBVIOUS
  <2> DEFINE r == [pc |-> IF writer[w].next = Chunks THEN "rename" ELSE "write",
                   fd |-> writer[w].fd, next |-> writer[w].next + 1]
  <2>3. writer' = [writer EXCEPT ![w] = r]
    BY <1>4 DEF Write
  <2>4. /\ r \in [pc : {"idle", "open", "write", "rename"},
                  fd : Inode \cup {None}, next : 1..(Chunks + 1)]
        /\ r.pc = "write" => r.fd \in Inode /\ r.next \in Chunk
    BY <2>1, <2>2
  <2> HIDE DEF r
  <2>5. data' \in [Inode -> SUBSET Chunk]
    BY <1>4, <2>1 DEF Write
  <2>6. writer' \in [Writer -> [pc : {"idle", "open", "write", "rename"},
                                fd : Inode \cup {None}, next : 1..(Chunks + 1)]]
    BY <2>3, <2>4
  <2>7. \A v \in Writer : writer'[v].pc = "write" =>
            writer'[v].fd \in Inode /\ writer'[v].next \in Chunk
    <3> SUFFICES ASSUME NEW v \in Writer, writer'[v].pc = "write"
                 PROVE  writer'[v].fd \in Inode /\ writer'[v].next \in Chunk
      OBVIOUS
    <3>. QED
      BY <2>3, <2>4
  <2>. QED
    BY <1>4, <2>5, <2>6, <2>7 DEF Write
<1>5. ASSUME NEW w \in Writer, Rename(w) PROVE Shape'
  BY <1>5 DEF Rename
<1>6. ASSUME NEW d \in Deleter, DelRead(d) PROVE Shape'
  BY <1>6 DEF DelRead
<1>7. ASSUME NEW d \in Deleter, NEW n \in {"path", "tmp"}, DelUnlink(d, n) PROVE Shape'
  BY <1>7 DEF DelUnlink
<1>8. ASSUME NEW d \in Deleter, DelRmdir(d) PROVE Shape'
  BY <1>8 DEF DelRmdir
<1>9. ASSUME NEW w \in Writer, Fail(w) PROVE Shape'
  BY <1>9 DEF Fail
<1>10. CASE Crash
  BY <1>10 DEF Crash
<1>11. CASE UNCHANGED vars
  BY <1>11 DEF vars
<1>. QED
  BY <1>1, <1>2, <1>3, <1>4, <1>5, <1>6, <1>7, <1>8, <1>9, <1>10, <1>11 DEF Next

-----------------------------------------------------------------------------
(* Any number of writers, none broken off: whoever truncated an inode last *)
(* is still going to write everything the inode misses.                    *)

Completing(i, w) ==
    /\ writer[w].pc = "write" /\ writer[w].fd = i
    /\ \A c \in Chunk : c \in data[i] \/ c >= writer[w].next

WholeOrCompleting(i) == data[i] = Chunk \/ \E w \in Writer : Completing(i, w)

SettleInv ==
    /\ Shape
    /\ path # None => WholeOrCompleting(path)
    /\ tmp # None => WholeOrCompleting(tmp)

\* A step that touches neither the data nor the writers at work keeps every
\* inode whole or about to be.
LEMMA KeepsCompleting ==
    ASSUME Shape, NEW i \in Inode, WholeOrCompleting(i), data'[i] = data[i],
           \A w \in Writer : writer[w].pc = "write" => writer'[w] = writer[w]
    PROVE  WholeOrCompleting(i)'
  BY DEF WholeOrCompleting, Completing, Shape, TypeOK

\* Writing a chunk keeps every inode whole or about to be.
LEMMA WriteCompletes ==
    ASSUME Shape, NEW w \in Writer, Write(w), NEW i \in Inode, WholeOrCompleting(i)
    PROVE  WholeOrCompleting(i)'
<1> DEFINE c == writer[w].next
<1>1. /\ c \in Chunk /\ writer[w].fd \in Inode /\ writer[w].pc = "write"
      /\ \A j \in Inode : data'[j] = IF j = writer[w].fd THEN data[j] \cup {c} ELSE data[j]
      /\ \A v \in Writer : v # w => writer'[v] = writer[v]
      /\ writer'[w].fd = writer[w].fd /\ writer'[w].next = c + 1
      /\ writer'[w].pc = IF c = Chunks THEN "rename" ELSE "write"
      /\ data[i] \subseteq Chunk /\ data[i] \subseteq data'[i] /\ data'[i] \subseteq Chunk
  BY DEF Write, Shape, TypeOK
<1>2. CASE data[i] = Chunk
  BY <1>1, <1>2 DEF WholeOrCompleting
<1>3. CASE \E v \in Writer : Completing(i, v)
  <2>1. PICK v \in Writer : Completing(i, v)
    BY <1>3
  <2>2. CASE v # w
    <3>1. Completing(i, v)'
      BY <1>1, <2>1, <2>2 DEF Completing
    <3>. QED
      BY <3>1 DEF WholeOrCompleting
  <2>3. CASE v = w
    <3>1. i = writer[w].fd /\ data'[i] = data[i] \cup {c}
      BY <1>1, <2>1, <2>3 DEF Completing
    <3>2. \A e \in Chunk : e \in data'[i] \/ e >= c + 1
      BY <1>1, <2>1, <2>3, <3>1, FsAssumption DEF Completing, Chunk
    <3>3. CASE c = Chunks
      <4>1. Chunk \subseteq data'[i]
        BY <3>2, <3>3, FsAssumption DEF Chunk
      <4>. QED
        BY <1>1, <4>1 DEF WholeOrCompleting
    <3>4. CASE c # Chunks
      <4>1. Completing(i, w)'
        BY <1>1, <3>1, <3>2, <3>4 DEF Completing
      <4>. QED
        BY <4>1 DEF WholeOrCompleting
    <3>. QED
      BY <3>3, <3>4
  <2>. QED
    BY <2>2, <2>3
<1>. QED
  BY <1>2, <1>3 DEF WholeOrCompleting

\* Creating or truncating the temporary file makes the opener the one that
\* completes it, and leaves every other inode in use alone.
LEMMA OpenCompletes ==
    ASSUME Shape, NEW w \in Writer, NEW i \in Inode, Open(w, i)
    PROVE  /\ WholeOrCompleting(i)'
           /\ \A j \in Inode : j # i /\ WholeOrCompleting(j) => WholeOrCompleting(j)'
<1>1. /\ writer[w].pc = "open" /\ data'[i] = {}
      /\ \A j \in Inode : j # i => data'[j] = data[j]
      /\ \A v \in Writer : v # w => writer'[v] = writer[v]
      /\ writer'[w] = [pc |-> "write", fd |-> i, next |-> 1]
  BY DEF Open, Shape, TypeOK
<1>2. Completing(i, w)'
  BY <1>1, FsAssumption DEF Completing, Chunk
<1>3. ASSUME NEW j \in Inode, j # i, WholeOrCompleting(j) PROVE WholeOrCompleting(j)'
  <2>1. \A v \in Writer : writer[v].pc = "write" => writer'[v] = writer[v]
    BY <1>1
  <2>. QED
    BY <1>1, <1>3, <2>1, KeepsCompleting
<1>. QED
  BY <1>2, <1>3 DEF WholeOrCompleting

\* Without failures every step keeps what the names refer to whole or about
\* to be.
LEMMA NextSettles ==
    ASSUME ~broken', SettleInv, [Next]_vars
    PROVE  SettleInv'
<1>1. Shape /\ Shape'
  BY NextShape DEF SettleInv
<1>2. path \in Inode \cup {None} /\ tmp \in Inode \cup {None}
  BY <1>1 DEF Shape, TypeOK
\* It is enough that every name keeps its inode, takes the other's, or goes.
<1>3. ASSUME path' \in {path, tmp, None}, tmp' \in {tmp, None}, UNCHANGED data,
             \A v \in Writer : writer[v].pc = "write" => writer'[v] = writer[v]
      PROVE  SettleInv'
  <2>1. \A i \in Inode : WholeOrCompleting(i) => WholeOrCompleting(i)'
    BY <1>1, <1>3, KeepsCompleting
  <2>. QED
    BY <1>1, <1>2, <1>3, <2>1 DEF SettleInv, WholeOrCompleting, Completing
<1>4. ASSUME NEW w \in Writer, Mkdir(w) PROVE SettleInv'
  BY <1>1, <1>3, <1>4 DEF Mkdir, Shape, TypeOK
<1>5. ASSUME NEW w \in Writer, OpenFails(w) PROVE SettleInv'
  BY <1>1, <1>3, <1>5 DEF OpenFails, Shape, TypeOK
<1>6. ASSUME NEW w \in Writer, NEW i \in Inode, Open(w, i) PROVE SettleInv'
  <2>1. tmp' = i /\ path' = path
    BY <1>6 DEF Open
  <2>2. path # None => WholeOrCompleting(path)'
    <3>1. CASE path = i
      BY <1>1, <1>6, <2>1, <3>1, OpenCompletes DEF WholeOrCompleting, Completing
    <3>2. CASE path # i /\ path # None
      BY <1>1, <1>2, <1>6, <2>1, <3>2, OpenCompletes DEF SettleInv, WholeOrCompleting, Completing
    <3>. QED
      BY <3>1, <3>2
  <2>3. WholeOrCompleting(tmp)'
    BY <1>1, <1>6, <2>1, OpenCompletes DEF WholeOrCompleting, Completing
  <2>. QED
    BY <1>1, <2>1, <2>2, <2>3 DEF SettleInv
<1>7. ASSUME NEW w \in Writer, Write(w) PROVE SettleInv'
  <2>1. path' = path /\ tmp' = tmp
    BY <1>7 DEF Write
  <2>2. \A i \in Inode : WholeOrCompleting(i) => WholeOrCompleting(i)'
    BY <1>1, <1>7, WriteCompletes
  <2>. QED
    BY <1>1, <1>2, <2>1, <2>2 DEF SettleInv, WholeOrCompleting, Completing
<1>8. ASSUME NEW w \in Writer, Rename(w) PROVE SettleInv'
  BY <1>1, <1>3, <1>8 DEF Rename, Shape, TypeOK
<1>9. ASSUME NEW d \in Deleter, DelRead(d) PROVE SettleInv'
  BY <1>3, <1>9 DEF DelRead
<1>10. ASSUME NEW d \in Deleter, NEW n \in {"path", "tmp"}, DelUnlink(d, n) PROVE SettleInv'
  BY <1>3, <1>10 DEF DelUnlink
<1>11. ASSUME NEW d \in Deleter, DelRmdir(d) PROVE SettleInv'
  BY <1>3, <1>11 DEF DelRmdir
<1>12. CASE UNCHANGED vars
  BY <1>3, <1>12 DEF vars
<1>. QED
  BY <1>4, <1>5, <1>6, <1>7, <1>8, <1>9, <1>10, <1>11, <1>12 DEF Next, Fail, Crash

\* What was broken off stays so, and so does what overlapped.
LEMMA HistoryStays ==
    ASSUME [Next]_vars
    PROVE  (broken => broken') /\ (shared => shared')
<1>1. ASSUME NEW w \in Writer, Mkdir(w) PROVE broken' = broken /\ (shared => shared')
  BY <1>1 DEF Mkdir
<1>2. ASSUME NEW w \in Writer, Fail(w) PROVE broken' /\ shared' = shared
  BY <1>2 DEF Fail
<1>3. ASSUME Crash PROVE broken' /\ shared' = shared
  BY <1>3 DEF Crash
<1>4. ASSUME NEW w \in Writer, NEW i \in Inode, Open(w, i)
      PROVE  broken' = broken /\ shared' = shared
  BY <1>4 DEF Open, history
<1>5. ASSUME NEW w \in Writer, OpenFails(w) \/ Write(w) \/ Rename(w)
      PROVE  broken' = broken /\ shared' = shared
  BY <1>5 DEF OpenFails, Write, Rename, history
<1>6. ASSUME NEW d \in Deleter, NEW n \in {"path", "tmp"},
             DelRead(d) \/ DelUnlink(d, n) \/ DelRmdir(d)
      PROVE  broken' = broken /\ shared' = shared
  BY <1>6 DEF DelRead, DelUnlink, DelRmdir, history
<1>7. CASE UNCHANGED vars
  BY <1>7 DEF vars, history
<1>. QED
  BY <1>1, <1>2, <1>3, <1>4, <1>5, <1>6, <1>7 DEF Next

\* With any number of concurrent put_shard and delete_blob calls sharing the
\* temporary file, and none broken off, a shard at rest is whole or absent.
THEOREM SettlesWhole == Spec => []SettledWhole
<1> DEFINE Inv == Shape /\ (~broken => SettleInv)
<1>1. Init => Inv
  BY InitShape DEF SettleInv, Init
<1>2. Inv /\ [Next]_vars => Inv'
  <2> SUFFICES ASSUME Inv, [Next]_vars PROVE Inv'
    OBVIOUS
  <2>1. Shape'
    BY NextShape
  <2>2. ASSUME ~broken' PROVE SettleInv'
    BY <2>2, HistoryStays, NextSettles
  <2>. QED
    BY <2>1, <2>2
<1>3. Inv => SettledWhole
  BY DEF SettleInv, SettledWhole, WholeOrCompleting, Completing, Shape, TypeOK
<1>. QED
  BY <1>1, <1>2, <1>3, PTL DEF Spec

-----------------------------------------------------------------------------
(* No two puts at once, with failures and crashes at any point: the file   *)
(* under its final name is never one that is still being written.          *)

AtomicInv ==
    /\ Shape
    /\ \A v, w \in Writer : writer[v].pc # "idle" /\ writer[w].pc # "idle" => v = w
    /\ path # None => path # tmp /\ data[path] = Chunk
    /\ \A w \in Writer : writer[w].pc = "write" =>
          /\ writer[w].fd # path
          /\ tmp \in {None, writer[w].fd}
          /\ \A c \in Chunk : c < writer[w].next => c \in data[writer[w].fd]
    /\ \A w \in Writer : writer[w].pc = "rename" => tmp = None \/ data[tmp] = Chunk

\* Creating or truncating the temporary file leaves the shard alone.
LEMMA OpenAtomic ==
    ASSUME AtomicInv, Shape', NEW w \in Writer, NEW i \in Inode, Open(w, i)
    PROVE  AtomicInv'
<1>1. /\ i = tmp \/ (tmp = None /\ i \notin InUse)
      /\ tmp' = i /\ path' = path
      /\ data' = [data EXCEPT ![i] = {}] /\ data \in [Inode -> SUBSET Chunk]
      /\ \A v \in Writer : v # w => writer[v].pc = "idle" /\ writer'[v] = writer[v]
      /\ writer'[w] = [pc |-> "write", fd |-> i, next |-> 1]
      /\ path \in Inode \cup {None} /\ None \notin Inode
  BY FsAssumption DEF Open, AtomicInv, Shape, TypeOK
<1>2. i # path
  BY <1>1 DEF AtomicInv, InUse
<1>. QED
  BY <1>1, <1>2, FsAssumption DEF AtomicInv, Chunk

\* Writing a chunk leaves the shard alone, and the last one makes the
\* temporary file whole.
LEMMA WriteAtomic ==
    ASSUME AtomicInv, Shape', NEW w \in Writer, Write(w)
    PROVE  AtomicInv'
<1> DEFINE c == writer[w].next
           f == writer[w].fd
<1>1. /\ writer[w].pc = "write" /\ c \in Chunk /\ f \in Inode
      /\ path' = path /\ tmp' = tmp
      /\ data' = [data EXCEPT ![f] = data[f] \cup {c}] /\ data \in [Inode -> SUBSET Chunk]
      /\ \A v \in Writer : v # w => writer[v].pc = "idle" /\ writer'[v] = writer[v]
      /\ writer'[w] = [pc |-> IF c = Chunks THEN "rename" ELSE "write",
                       fd |-> f, next |-> c + 1]
      /\ path \in Inode \cup {None} /\ tmp \in Inode \cup {None}
  BY DEF Write, AtomicInv, Shape, TypeOK
<1>2. f # path /\ tmp \in {None, f} /\ \A e \in Chunk : e < c => e \in data[f]
  BY <1>1 DEF AtomicInv
<1>3. data'[f] = data[f] \cup {c} /\ \A e \in Chunk : e < c + 1 => e \in data'[f]
  BY <1>1, <1>2, FsAssumption DEF Chunk
<1>4. ASSUME c = Chunks PROVE data'[f] = Chunk
  <2>1. Chunk \subseteq data'[f]
    BY <1>3, <1>4, FsAssumption DEF Chunk
  <2>2. data'[f] \subseteq Chunk
    BY <1>1, <1>3
  <2>. QED
    BY <2>1, <2>2
<1>5. path # None => path # tmp /\ data'[path] = Chunk
  BY <1>1, <1>2 DEF AtomicInv
<1>. QED
  BY <1>1, <1>2, <1>3, <1>4, <1>5 DEF AtomicInv

\* Every step keeps the shard whole, failures and crashes included.
LEMMA NextAtomic ==
    ASSUME ~shared', AtomicInv, [Next]_vars
    PROVE  AtomicInv'
<1>1. Shape /\ Shape'
  BY NextShape DEF AtomicInv
\* It is enough that names only go and that writers stay as they are or end.
<1>2. ASSUME path' \in {path, None}, tmp' \in {tmp, None}, UNCHANGED data,
             \A v \in Writer : writer'[v] = writer[v] \/ writer'[v].pc = "idle"
      PROVE  AtomicInv'
  BY <1>1, <1>2, FsAssumption DEF AtomicInv, Shape, TypeOK
<1>3. ASSUME NEW w \in Writer, Mkdir(w) PROVE AtomicInv'
  <2>1. /\ \A v \in Writer : writer[v].pc = "idle"
        /\ \A v \in Writer : v # w => writer'[v] = writer[v]
        /\ writer'[w].pc = "open" /\ UNCHANGED <<path, tmp, data>>
    BY <1>1, <1>3 DEF Mkdir, Shape, TypeOK, Quiet
  <2>. QED
    BY <1>1, <2>1 DEF AtomicInv
<1>4. ASSUME NEW w \in Writer, NEW i \in Inode, Open(w, i) PROVE AtomicInv'
  BY <1>1, <1>4, OpenAtomic
<1>5. ASSUME NEW w \in Writer, OpenFails(w) PROVE AtomicInv'
  BY <1>1, <1>2, <1>5 DEF OpenFails, Shape, TypeOK, Quiet
<1>6. ASSUME NEW w \in Writer, Write(w) PROVE AtomicInv'
  BY <1>1, <1>6, WriteAtomic
<1>7. ASSUME NEW w \in Writer, Rename(w) PROVE AtomicInv'
  <2>1. /\ writer[w].pc = "rename" /\ UNCHANGED data /\ tmp' = None
        /\ path' = IF tmp = None THEN path ELSE tmp
        /\ \A v \in Writer : writer'[v].pc = "idle"
    BY <1>1, <1>7 DEF Rename, Shape, TypeOK, Quiet, AtomicInv
  <2>. QED
    BY <1>1, <2>1 DEF AtomicInv
<1>8. ASSUME NEW w \in Writer, Fail(w) PROVE AtomicInv'
  BY <1>1, <1>2, <1>8 DEF Fail, Shape, TypeOK, Quiet
<1>9. ASSUME NEW d \in Deleter, DelRead(d) PROVE AtomicInv'
  BY <1>2, <1>9 DEF DelRead
<1>10. ASSUME NEW d \in Deleter, NEW n \in {"path", "tmp"}, DelUnlink(d, n) PROVE AtomicInv'
  BY <1>2, <1>10 DEF DelUnlink
<1>11. ASSUME NEW d \in Deleter, DelRmdir(d) PROVE AtomicInv'
  BY <1>2, <1>11 DEF DelRmdir
<1>12. CASE Crash
  BY <1>2, <1>12 DEF Crash, Quiet
<1>13. CASE UNCHANGED vars
  BY <1>2, <1>13 DEF vars
<1>. QED
  BY <1>3, <1>4, <1>5, <1>6, <1>7, <1>8, <1>9, <1>10, <1>11, <1>12, <1>13 DEF Next

\* As long as no two put_shard calls for the shard overlap, readers never see
\* part of it, whatever fails, crashes or deletes at whatever point.
THEOREM AtomicWhenAlone == Spec => []AtomicAlone
<1> DEFINE Inv == Shape /\ (~shared => AtomicInv)
<1>1. ASSUME Init PROVE Inv
  <2>1. path = None /\ \A w \in Writer : writer[w].pc = "idle"
    BY <1>1 DEF Init, Quiet
  <2>. QED
    BY <1>1, <2>1, InitShape DEF AtomicInv
<1>2. ASSUME Inv, [Next]_vars PROVE Inv'
  <2>1. Shape'
    BY <1>2, NextShape
  <2>2. ASSUME ~shared' PROVE AtomicInv'
    BY <1>2, <2>2, HistoryStays, NextAtomic
  <2>. QED
    BY <2>1, <2>2
<1>3. Inv => AtomicAlone
  BY DEF AtomicInv, AtomicAlone
<1>. QED
  BY <1>1, <1>2, <1>3, PTL DEF Spec

\* Files hold chunks of the shard, and names and open files refer to inodes.
THEOREM TypeCorrect == Spec => []TypeOK
<1>1. Init => Shape
  BY InitShape
<1>2. Shape /\ [Next]_vars => Shape'
  BY NextShape
<1>3. Shape => TypeOK
  BY DEF Shape
<1>. QED
  BY <1>1, <1>2, <1>3, PTL DEF Spec
=============================================================================
