------------------------------- MODULE Quota -------------------------------
(***************************************************************************)
(* The quota check of PutBackup::execute, run by concurrent puts into one  *)
(* namespace: read the usage, decide, write the shards, publish the        *)
(* manifest. Usage is counted over published manifests only, so a put in   *)
(* progress is invisible to the check of another. A rename                 *)
(* (set_manifest_name) writes back the manifest it read and is not checked *)
(* at all.                                                                 *)
(***************************************************************************)
EXTENDS Domain, FiniteSets, Functions

CONSTANTS
    Client,      \* requests in flight at once
    Blob,        \* blob ids
    Size,        \* ciphertext lengths clients upload
    MaxBytes, MaxObjects,   \* the contract's quota
    U64Max,      \* where saturating_add saturates
    None

ASSUME QuotaAssumption ==
    /\ IsFiniteSet(Client) /\ Client # {}
    /\ Size \subseteq Nat /\ MaxBytes \in Nat /\ MaxObjects \in Nat /\ U64Max \in Nat
    /\ None \notin Size /\ None \notin Blob

VARIABLES
    len,     \* Blob -> ciphertext_len of its published manifest, or None
    put,     \* Client -> a put or a rename in flight
    used     \* history: ids handed out so far

vars == <<len, put, used>>

Quiet == [pc |-> "idle", size |-> None, blob |-> None]

Init ==
    /\ len = [b \in Blob |-> None]
    /\ put = [c \in Client |-> Quiet]
    /\ used = {}

-----------------------------------------------------------------------------
Listed == {b \in Blob : len[b] # None}

\* namespace_usage: both sums over the manifests of the namespace.
Objects == Cardinality(Listed)
Bytes   == SumFunctionOnSet(len, Listed)

\* Mutant of Admitted: <= for the object count.
AdmittedOneMore(size) ==
    /\ SaturatingAdd(Bytes, size, U64Max) <= MaxBytes
    /\ Objects <= MaxObjects

\* Mutant of Admitted: the new bytes are not added.
AdmittedStored(size) == Bytes <= MaxBytes /\ Objects < MaxObjects

Admitted(size) ==
    Admits([max_bytes |-> MaxBytes, max_objects |-> MaxObjects],
           Bytes, Objects, size, U64Max)

\* An upload arrives: the token is checked, the contract is read.
Arrive(c, s) ==
    /\ put[c].pc = "idle"
    /\ put' = [put EXCEPT ![c] = [pc |-> "check", size |-> s, blob |-> None]]
    /\ UNCHANGED <<len, used>>

\* namespace_usage, admits, and the id of the new blob.
Check(c, b) ==
    /\ put[c].pc = "check"
    /\ b \notin used
    /\ IF Admitted(put[c].size)
       THEN /\ put' = [put EXCEPT ![c].pc = "write", ![c].blob = b]
            /\ used' = used \cup {b}
       ELSE /\ put' = [put EXCEPT ![c] = Quiet]       \* QuotaExceeded
            /\ UNCHANGED used
    /\ UNCHANGED len

\* The shards are on the anchor: put_manifest.
Publish(c) ==
    /\ put[c].pc = "write"
    /\ len' = [len EXCEPT ![put[c].blob] = put[c].size]
    /\ put' = [put EXCEPT ![c] = Quiet]
    /\ UNCHANGED used

\* A put that fails on the way publishes nothing.
Fail(c) ==
    /\ put[c].pc # "idle"
    /\ put' = [put EXCEPT ![c] = Quiet]
    /\ UNCHANGED <<len, used>>

\* delete_manifest gives the space back.
Delete(b) ==
    /\ len[b] # None
    /\ len' = [len EXCEPT ![b] = None]
    /\ UNCHANGED <<put, used>>

\* set_manifest_name: get_manifest ...
NameGet(c, b) ==
    /\ put[c].pc = "idle"
    /\ len[b] # None
    /\ put' = [put EXCEPT ![c] = [pc |-> "name", size |-> len[b], blob |-> b]]
    /\ UNCHANGED <<len, used>>

\* ... and put_manifest, even if the blob was deleted in between.
NamePut(c) ==
    /\ put[c].pc = "name"
    /\ len' = [len EXCEPT ![put[c].blob] = put[c].size]
    /\ put' = [put EXCEPT ![c] = Quiet]
    /\ UNCHANGED used

Next ==
    \/ \E c \in Client :
        \/ \E s \in Size : Arrive(c, s)
        \/ \E b \in Blob : Check(c, b) \/ NameGet(c, b)
        \/ Publish(c) \/ Fail(c) \/ NamePut(c)
    \/ \E b \in Blob : Delete(b)

Spec == Init /\ [][Next]_vars

-----------------------------------------------------------------------------
\* Manifests carry the length that was uploaded, requests are well formed.
TypeOK ==
    /\ len \in [Blob -> Size \cup {None}]
    /\ put \in [Client -> [pc : {"idle", "check", "write", "name"},
                           size : Size \cup {None}, blob : Blob \cup {None}]]
    /\ used \subseteq Blob

\* The quota is soft, but only by what is in flight: with P concurrent requests
\* at most P - 1 objects are ever stored beyond max_objects, however puts,
\* failures, deletes and renames that bring a manifest back interleave.
ObjectOvershoot == Objects <= MaxObjects + Cardinality(Client) - 1

\* The same for bytes: beyond max_bytes by at most P - 1 of the largest uploads.
ByteOvershoot ==
    \A big \in Size : (\A s \in Size : s <= big) =>
        Bytes <= MaxBytes + (Cardinality(Client) - 1) * big
=============================================================================
