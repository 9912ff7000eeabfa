---------------------------- MODULE Capability ----------------------------
(***************************************************************************)
(* Registration, namespaces and capability tokens: RegisterApp,            *)
(* CreateNamespace and IssueCapability at the coordinator, and the guard   *)
(* `authorize` that the data-plane use-cases run at a node-agent. A node   *)
(* fetches the coordinator's public key once, when it starts; the guard    *)
(* checks signature, freshness and scope locally and then asks the         *)
(* coordinator who owns the namespace.                                     *)
(*                                                                         *)
(* The coordinator keeps all of it in memory: a restart (a new `life`)     *)
(* generates a new signing key and forgets apps and namespaces. Node-agents*)
(* keep the key they fetched. Time is in ticks of the token lifetime's     *)
(* unit (seconds).                                                         *)
(***************************************************************************)
EXTENDS Domain, FiniteSets

CONSTANTS
    App, Namespace,   \* ids; the random id source never hands one out twice
    Op,               \* operations
    Node, Client,
    MaxTtl,           \* MAX_TOKEN_TTL_SECS
    Attempts,         \* attempts of fetch_verifier (10 in the code)
    MaxTime, MaxLife, MaxTokens,   \* bounds
    None

ASSUME CapabilityAssumption ==
    /\ MaxTtl \in Nat \ {0} /\ Attempts \in Nat \ {0}
    /\ MaxTime \in Nat /\ MaxLife \in Nat \ {0} /\ MaxTokens \in Nat
    /\ IsFiniteSet(Client)
    /\ None \notin App /\ None \notin Namespace /\ None \notin Op /\ None \notin Node

VARIABLES
    clock,
    life,        \* the coordinator's current life; its signing key has this number
    contracts,   \* registered apps
    owner,       \* Namespace -> its app, or None
    tokens,      \* tokens handed out
    node,        \* Node -> state of the process, the key it fetched, attempts made
    req,         \* Client -> its request in flight
    used         \* history: ids handed out in any life

vars == <<clock, life, contracts, owner, tokens, node, req, used>>

coordinator == <<life, contracts, owner>>

Token == [app : App, ns : Namespace, op : Op, exp : Nat, key : Nat, iat : Nat]

Idle == [pc |-> "idle", app |-> None, ns |-> None, op |-> None, ttl |-> 0,
         node |-> None, token |-> None, life |-> 0, at |-> 0]

Off == [pc |-> "off", key |-> 0, attempt |-> 0]

Init ==
    /\ clock = 0 /\ life = 1
    /\ contracts = {} /\ owner = [n \in Namespace |-> None]
    /\ tokens = {} /\ used = {}
    /\ node = [n \in Node |-> Off]
    /\ req = [c \in Client |-> Idle]

-----------------------------------------------------------------------------
(* Rules of vault-domain. *)

\* Mutant of IsExpired: one tick early.
IsExpiredEarly(t, now) == now + 1 >= t.exp

\* CapabilityToken::is_expired.
IsExpired(t, now) == now >= t.exp

\* CapabilityToken::authorize. guard passes the token's own app as `app`, so
\* only freshness, namespace and operation can fail.
Authorizes(t, ns, op, now) == ~IsExpired(t, now) /\ t.ns = ns /\ t.op = op

\* Ed25519: a token verifies against the key that signed it and no other.
SignatureOk(t, key) == t.key = key

-----------------------------------------------------------------------------
(* Coordinator. *)

\* RegisterApp::execute: a fresh id and its contract.
RegisterApp(a) ==
    /\ a \notin used
    /\ contracts' = contracts \cup {a}
    /\ used' = used \cup {a}
    /\ UNCHANGED <<clock, life, owner, tokens, node, req>>

\* CreateNamespace::execute: the app must have a contract (else NotFound) ...
StartCreate(c, a) ==
    /\ req[c].pc = "idle" /\ a \in used
    /\ req' = [req EXCEPT ![c] = IF a \in contracts
                 THEN [Idle EXCEPT !.pc = "create", !.app = a]
                 ELSE Idle]
    /\ UNCHANGED <<clock, coordinator, tokens, node, used>>

\* ... then a fresh namespace is recorded.
Create(c, n) ==
    /\ req[c].pc = "create" /\ n \notin used
    /\ owner' = [owner EXCEPT ![n] = req[c].app]
    /\ used' = used \cup {n}
    /\ req' = [req EXCEPT ![c] = Idle]
    /\ UNCHANGED <<clock, life, contracts, tokens, node>>

\* Mutant of StartIssue: only the existence of the namespace is checked.
StartIssueAnyone(c, a, n, op, ttl) ==
    /\ req[c].pc = "idle" /\ a \in used /\ n \in used
    /\ req' = [req EXCEPT ![c] = IF owner[n] # None
                 THEN [Idle EXCEPT !.pc = "sign", !.app = a, !.ns = n, !.op = op, !.ttl = ttl]
                 ELSE Idle]
    /\ UNCHANGED <<clock, coordinator, tokens, node, used>>

\* IssueCapability::execute: get_namespace, and is it the caller's?
StartIssue(c, a, n, op, ttl) ==
    /\ req[c].pc = "idle" /\ a \in used /\ n \in used
    /\ req' = [req EXCEPT ![c] = IF owner[n] = a
                 THEN [Idle EXCEPT !.pc = "sign", !.app = a, !.ns = n, !.op = op, !.ttl = ttl]
                 ELSE Idle]
    /\ UNCHANGED <<clock, coordinator, tokens, node, used>>

\* Mutant of Lifetime: only a lower bound.
LifetimeUnbounded(ttl) == IF ttl < 1 THEN 1 ELSE ttl

Lifetime(ttl) == Clamp(ttl, 1, MaxTtl)

\* The token is signed and handed out, stamped with the time of signing.
Issue(c) ==
    /\ req[c].pc = "sign" /\ Cardinality(tokens) < MaxTokens
    /\ tokens' = tokens \cup
         {[app |-> req[c].app, ns |-> req[c].ns, op |-> req[c].op,
           exp |-> clock + Lifetime(req[c].ttl), key |-> life, iat |-> clock]}
    /\ req' = [req EXCEPT ![c] = Idle]
    /\ UNCHANGED <<clock, coordinator, node, used>>

AtCoordinator == {"create", "sign"}

\* Mutant of Restart: the metadata survives, the key does not.
RestartDurable ==
    /\ life < MaxLife
    /\ life' = life + 1
    /\ req' = [c \in Client |-> IF req[c].pc \in AtCoordinator THEN Idle ELSE req[c]]
    /\ UNCHANGED <<clock, contracts, owner, tokens, node, used>>

\* The coordinator restarts (AppState::in_memory): new key, empty metadata, and
\* the requests it was serving are gone. Requests at node-agents go on.
Restart ==
    /\ life < MaxLife
    /\ life' = life + 1
    /\ contracts' = {} /\ owner' = [n \in Namespace |-> None]
    /\ req' = [c \in Client |-> IF req[c].pc \in AtCoordinator THEN Idle ELSE req[c]]
    /\ UNCHANGED <<clock, tokens, node, used>>

-----------------------------------------------------------------------------
(* Node-agents. *)

\* The process is started, and fetches the key before it serves anyone.
NodeStart(n) ==
    /\ node[n].pc = "off"
    /\ node' = [node EXCEPT ![n].pc = "fetch"]
    /\ UNCHANGED <<clock, coordinator, tokens, req, used>>

\* The process is stopped or crashes, or main returns at a key it cannot parse;
\* requests it was serving are gone.
NodeStop(n) ==
    /\ node[n].pc # "off"
    /\ node' = [node EXCEPT ![n] = Off]
    /\ req' = [c \in Client |-> IF req[c].node = n THEN Idle ELSE req[c]]
    /\ UNCHANGED <<clock, coordinator, tokens, used>>

\* fetch_verifier: the coordinator answers with its public key ...
Fetch(n) ==
    /\ node[n].pc = "fetch"
    /\ node' = [node EXCEPT ![n] = [pc |-> "up", key |-> life, attempt |-> 0]]
    /\ UNCHANGED <<clock, coordinator, tokens, req, used>>

\* ... or does not: the next attempt, and after the last one main returns.
FetchFails(n) ==
    /\ node[n].pc = "fetch"
    /\ node' = [node EXCEPT ![n] = IF node[n].attempt + 1 < Attempts
                  THEN [node[n] EXCEPT !.attempt = @ + 1] ELSE Off]
    /\ UNCHANGED <<clock, coordinator, tokens, req, used>>

\* A data-plane request: guard::authorize up to its await. Its life and time
\* are kept as history.
UseCheck(c, n, t, ns, op) ==
    /\ req[c].pc = "idle" /\ node[n].pc = "up" /\ t \in tokens
    /\ req' = [req EXCEPT ![c] =
                 [Idle EXCEPT !.pc = IF SignatureOk(t, node[n].key)
                                        /\ Authorizes(t, ns, op, clock)
                                     THEN "owner" ELSE "refused",
                              !.ns = ns, !.op = op, !.node = n, !.token = t,
                              !.life = life, !.at = clock]]
    /\ UNCHANGED <<clock, coordinator, tokens, node, used>>

\* get_namespace at the coordinator, whichever life it is in by now: the
\* namespace must exist and belong to the token's app.
UseOwner(c) ==
    /\ req[c].pc = "owner"
    /\ req' = [req EXCEPT ![c].pc = IF owner[req[c].ns] = req[c].token.app
                                    THEN "admitted" ELSE "refused",
                          ![c].life = life]
    /\ UNCHANGED <<clock, coordinator, tokens, node, used>>

\* The use-case has run, or any request ends early: the client disconnects, a
\* call fails, a refusal was delivered.
End(c) ==
    /\ req[c].pc # "idle"
    /\ req' = [req EXCEPT ![c] = Idle]
    /\ UNCHANGED <<clock, coordinator, tokens, node, used>>

Tick ==
    /\ clock < MaxTime
    /\ clock' = clock + 1
    /\ UNCHANGED <<coordinator, tokens, node, req, used>>

Next ==
    \/ \E a \in App : RegisterApp(a)
    \/ \E c \in Client :
        \/ \E a \in App : StartCreate(c, a)
        \/ \E n \in Namespace : Create(c, n)
        \/ \E a \in App, n \in Namespace, op \in Op, ttl \in 0..MaxTtl + 1 :
             StartIssue(c, a, n, op, ttl)
        \/ Issue(c)
        \/ \E n \in Node, t \in tokens, ns \in Namespace, op \in Op :
             UseCheck(c, n, t, ns, op)
        \/ UseOwner(c) \/ End(c)
    \/ \E n \in Node : NodeStart(n) \/ NodeStop(n) \/ Fetch(n) \/ FetchFails(n)
    \/ Restart \/ Tick

Spec == Init /\ [][Next]_vars

-----------------------------------------------------------------------------
\* Requests, tokens and nodes are well formed.
TypeOK ==
    /\ clock \in Nat /\ life \in Nat
    /\ contracts \subseteq App /\ owner \in [Namespace -> App \cup {None}]
    /\ tokens \subseteq Token /\ used \subseteq App \cup Namespace
    /\ node \in [Node -> [pc : {"off", "fetch", "up"}, key : Nat, attempt : Nat]]
    /\ req \in [Client -> [pc : {"idle", "create", "sign", "owner", "refused", "admitted"},
                           app : App \cup {None}, ns : Namespace \cup {None},
                           op : Op \cup {None}, ttl : Nat, node : Node \cup {None},
                           token : Token \cup {None}, life : Nat, at : Nat]]

\* "Issued only to an app for its own namespaces": whatever restarts and
\* requests came in between, a token signed in the coordinator's present life
\* names a namespace that this life records as its app's, and the app is
\* registered.
IssuedToOwner ==
    \A t \in tokens : t.key = life => owner[t.ns] = t.app /\ t.app \in contracts

\* The guard admits a request only while the coordinator that signed its token
\* is the one that confirms the ownership: a node that still verifies with the
\* key of an earlier life admits no token of that life, because the new one
\* does not know the namespace.
AdmittedByIssuer ==
    \A c \in Client : req[c].pc = "admitted" =>
        /\ req[c].life = req[c].token.key
        /\ req[c].ns = req[c].token.ns /\ req[c].op = req[c].token.op

\* Freshness is checked before the await and counted from the signing: at most
\* MAX_TOKEN_TTL_SECS later, whatever lifetime was asked for.
AdmittedWithinTtl ==
    \A c \in Client : req[c].pc \in {"owner", "admitted"} =>
        req[c].at < req[c].token.iat + MaxTtl

\* A token used on its own terms, at a node with the key of its coordinator, is
\* refused for one reason only: the coordinator has restarted before it was
\* asked for the owner.
SoundTokenAdmitted ==
    \A c \in Client :
        LET t == req[c].token IN
        req[c].pc = "refused" =>
            \/ node[req[c].node].key # t.key
            \/ req[c].at >= t.exp
            \/ req[c].ns # t.ns \/ req[c].op # t.op
            \/ req[c].life > t.key
=============================================================================
