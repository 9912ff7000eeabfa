----------------------------- MODULE StorePort -----------------------------
(***************************************************************************)
(* What the storage ports (MetadataStore, BlobAnchor, ShardTransport)      *)
(* promise the use-cases, whatever adapter is behind them. A call that     *)
(* succeeds has taken effect on every key it names; a read that succeeds   *)
(* saw the store at one moment of the call. A call that fails may have     *)
(* taken effect, in part or not at all, and what it left undone may still  *)
(* take effect later, at most once.                                        *)
(***************************************************************************)
CONSTANTS
    Caller, Key, Value, None,
    Volatile    \* the keys of a store that is kept in memory

VARIABLES
    store,   \* Key -> the entity stored there, or None
    call,    \* Caller -> the call in progress, or Free
    result,  \* whose call ended last, and how
    late     \* what failed calls have left with the server

vars == <<store, call, result, late>>

\* A call names its keys. A vague one may report an entity as missing that is
\* there. got is what a read saw: {} for a missing entity.
Free == [op |-> "none", todo |-> {}, val |-> None, vague |-> FALSE, got |-> {}]

Init ==
    /\ store \in [Key -> Value \cup {None}]
    /\ call = [c \in Caller |-> Free]
    /\ result = [by |-> None, tag |-> "none", got |-> {}]
    /\ late = {}

Present(S) == {k \in S : store[k] # None}

\* put and del give the keys in S the value v (None for del).
Write(S, v) == store' = [k \in Key |-> IF k \in S THEN v ELSE store[k]]

Request == [op : {"get", "list", "put", "del"}, todo : SUBSET Key,
            val : Value \cup {None}, vague : BOOLEAN, got : {{}}]

Call(c) ==
    /\ call[c] = Free
    /\ call'[c] \in Request
    /\ call' = [call EXCEPT ![c] = call'[c]]
    /\ UNCHANGED <<store, result, late>>

\* A write reaches some of its keys.
Act(c) ==
    /\ call[c].op \in {"put", "del"}
    /\ \E S \in SUBSET call[c].todo :
        /\ Write(S, call[c].val)
        /\ call' = [call EXCEPT ![c].todo = @ \ S]
    /\ UNCHANGED <<result, late>>

Read(c) ==
    /\ \/ /\ call[c].op = "get"
          /\ call' = [call EXCEPT ![c].got = {store[k] : k \in Present(call[c].todo)},
                                  ![c].todo = {}]
       \/ /\ call[c].op = "get" /\ call[c].vague
          /\ call' = [call EXCEPT ![c].todo = {}]
       \/ /\ call[c].op = "list"
          /\ call' = [call EXCEPT ![c].got = Present(call[c].todo), ![c].todo = {}]
    /\ UNCHANGED <<store, result, late>>

Return(c) ==
    /\ call[c] # Free /\ call[c].todo = {}
    /\ call' = [call EXCEPT ![c] = Free]
    /\ result' = [by |-> c, tag |-> "ok", got |-> call[c].got]
    /\ UNCHANGED <<store, late>>

\* The call fails; the rest of a write may be left with the server.
Fail(c) ==
    /\ call[c] # Free
    /\ call' = [call EXCEPT ![c] = Free]
    /\ result' = [by |-> c, tag |-> "error", got |-> {}]
    /\ \/ UNCHANGED late
       \/ /\ call[c].op \in {"put", "del"}
          /\ late' = late \cup {[todo |-> call[c].todo, val |-> call[c].val]}
    /\ UNCHANGED store

\* A request whose caller has gone reaches some more of its keys, or is dropped.
ActLate ==
    /\ \E r \in late : \E S \in SUBSET r.todo :
        /\ Write(S, r.val)
        /\ \/ late' = late \ {r}
           \/ late' = (late \ {r}) \cup {[r EXCEPT !.todo = @ \ S]}
    /\ UNCHANGED <<call, result>>

\* A server that keeps its store in memory restarts, and forgets.
Forget ==
    /\ Write(Volatile, None)
    /\ late' \in SUBSET late
    /\ UNCHANGED <<call, result>>

Next ==
    \/ \E c \in Caller : Call(c) \/ Act(c) \/ Read(c) \/ Return(c) \/ Fail(c)
    \/ ActLate \/ Forget

Spec == Init /\ [][Next]_vars
=============================================================================
