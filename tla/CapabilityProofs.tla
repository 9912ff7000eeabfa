-------------------------- MODULE CapabilityProofs --------------------------
(***************************************************************************)
(* What the capability guard admits and refuses, for any number of apps,   *)
(* namespaces, node-agents, requests, coordinator restarts and token       *)
(* lifetimes.                                                              *)
(***************************************************************************)
EXTENDS Capability, TLAPS

ReqRecord ==
    [pc : {"idle", "create", "sign", "owner", "refused", "admitted"},
     app : App \cup {None}, ns : Namespace \cup {None},
     op : Op \cup {None}, ttl : Nat, node : Node \cup {None},
     token : Token \cup {None}, life : Nat, at : Nat]

\* What a request may rely on at its await.
ReqInv(q) ==
    /\ q.node # None => q.node \in Node /\ node[q.node].pc = "up"
    /\ q.pc = "create" => q.app \in contracts
    /\ q.pc = "sign" => /\ q.app \in contracts /\ q.ns \in Namespace /\ q.op \in Op
                        /\ owner[q.ns] = q.app /\ q.ns \in used
    /\ q.pc \in {"owner", "refused", "admitted"} => q.node \in Node /\ q.token \in tokens
    /\ q.pc \in {"owner", "admitted"} =>
         q.at < q.token.exp /\ q.ns = q.token.ns /\ q.op = q.token.op
    /\ q.pc = "admitted" => q.life = q.token.key
    /\ q.pc = "refused" =>
         \/ node[q.node].key # q.token.key
         \/ q.at >= q.token.exp
         \/ q.ns # q.token.ns \/ q.op # q.token.op
         \/ q.life > q.token.key

\* Every owner recorded is registered, and its namespace's id is taken.
OwnersKnown ==
    \A n \in Namespace : owner[n] # None => owner[n] \in contracts /\ n \in used

\* Tokens are bounded in time, and those of earlier lives name namespaces that
\* nobody owns any more.
TokensKnown ==
    \A t \in tokens : /\ t.key <= life /\ t.ns \in used /\ t.exp <= t.iat + MaxTtl
                      /\ t.key < life => owner[t.ns] = None

IInv ==
    /\ TypeOK /\ OwnersKnown /\ TokensKnown /\ IssuedToOwner
    /\ \A c \in Client : ReqInv(req[c])

-----------------------------------------------------------------------------
\* A request moves on and nothing else changes.
LEMMA MoveKeeps ==
    ASSUME IInv, NEW c \in Client, NEW q \in ReqRecord, ReqInv(q),
           req' = [req EXCEPT ![c] = q],
           UNCHANGED <<clock, life, contracts, owner, tokens, node, used>>
    PROVE  IInv'
<1>1. TypeOK'  BY DEF IInv, TypeOK, ReqRecord
<1>2. OwnersKnown' /\ TokensKnown' /\ IssuedToOwner'
  BY DEF IInv, OwnersKnown, TokensKnown, IssuedToOwner
<1>3. ASSUME NEW p \in Client  PROVE ReqInv(req[p])'
  <2>1. req'[p] = q \/ req'[p] = req[p]  BY DEF IInv, TypeOK
  <2>2. ReqInv(req[p])  BY DEF IInv
  <2> QED  BY <2>1, <2>2 DEF ReqInv
<1> QED  BY <1>1, <1>2, <1>3 DEF IInv

LEMMA IdleOk == Idle \in ReqRecord /\ ReqInv(Idle)
BY DEF Idle, ReqRecord, ReqInv

LEMMA InitHolds == Init => IInv
<1> SUFFICES ASSUME Init  PROVE IInv  OBVIOUS
<1>1. TypeOK  BY IdleOk DEF Init, TypeOK, ReqRecord, Off
<1>2. OwnersKnown /\ TokensKnown /\ IssuedToOwner
  BY DEF Init, OwnersKnown, TokensKnown, IssuedToOwner
<1>3. \A c \in Client : ReqInv(req[c])  BY IdleOk DEF Init
<1> QED  BY <1>1, <1>2, <1>3 DEF IInv

LEMMA RegisterKeeps ==
    ASSUME IInv, NEW a \in App, RegisterApp(a)
    PROVE  IInv'
<1>1. TypeOK'  BY DEF IInv, TypeOK, RegisterApp
<1>2. OwnersKnown' /\ TokensKnown' /\ IssuedToOwner'
  BY DEF IInv, RegisterApp, OwnersKnown, TokensKnown, IssuedToOwner
<1>3. \A c \in Client : ReqInv(req[c])'
  BY DEF IInv, RegisterApp, ReqInv
<1> QED  BY <1>1, <1>2, <1>3 DEF IInv

LEMMA StartCreateKeeps ==
    ASSUME IInv, NEW c \in Client, NEW a \in App, StartCreate(c, a)
    PROVE  IInv'
<1> DEFINE q == IF a \in contracts THEN [Idle EXCEPT !.pc = "create", !.app = a] ELSE Idle
<1>1. q \in ReqRecord /\ ReqInv(q)  BY IdleOk DEF Idle, ReqRecord, ReqInv
<1>2. req' = [req EXCEPT ![c] = q]
      /\ UNCHANGED <<clock, life, contracts, owner, tokens, node, used>>
  BY DEF StartCreate, coordinator
<1> QED  BY <1>1, <1>2, MoveKeeps

LEMMA CreateKeeps ==
    ASSUME IInv, NEW c \in Client, NEW n \in Namespace, Create(c, n)
    PROVE  IInv'
<1>1. /\ req[c].app \in contracts /\ contracts \subseteq App /\ n \notin used
      /\ owner' = [owner EXCEPT ![n] = req[c].app] /\ used' = used \cup {n}
      /\ owner \in [Namespace -> App \cup {None}]
  BY DEF IInv, ReqInv, Create, TypeOK
<1>2. TypeOK'
  <2>1. Idle \in ReqRecord  BY IdleOk
  <2> QED  BY <1>1, <2>1 DEF IInv, TypeOK, Create, ReqRecord
<1>3. OwnersKnown'  BY <1>1 DEF IInv, OwnersKnown, Create
<1>4. \A t \in tokens : t.ns \in used /\ owner'[t.ns] = owner[t.ns]
  BY <1>1 DEF IInv, TokensKnown, TypeOK, Token
<1>5. TokensKnown' /\ IssuedToOwner'
  BY <1>1, <1>4 DEF IInv, TokensKnown, IssuedToOwner, Create
<1>6. ASSUME NEW p \in Client  PROVE ReqInv(req[p])'
  <2>1. CASE p = c
    <3>1. req'[p] = Idle  BY <2>1 DEF Create, IInv, TypeOK
    <3> QED  BY <3>1 DEF Idle, ReqInv
  <2>2. CASE p # c
    <3>1. req'[p] = req[p] /\ ReqInv(req[p])  BY <2>2 DEF Create, IInv, TypeOK
    <3>2. req[p].pc = "sign" => owner'[req[p].ns] = owner[req[p].ns]
      BY <1>1, <3>1 DEF ReqInv
    <3> QED  BY <1>1, <3>1, <3>2 DEF ReqInv, Create
  <2> QED  BY <2>1, <2>2
<1> QED  BY <1>2, <1>3, <1>5, <1>6 DEF IInv

LEMMA StartIssueKeeps ==
    ASSUME IInv, NEW c \in Client, NEW a \in App, NEW n \in Namespace, NEW op \in Op,
           NEW ttl \in Nat, StartIssue(c, a, n, op, ttl)
    PROVE  IInv'
<1> DEFINE s == [Idle EXCEPT !.pc = "sign", !.app = a, !.ns = n, !.op = op, !.ttl = ttl]
           q == IF owner[n] = a THEN s ELSE Idle
<1>1. q \in ReqRecord /\ ReqInv(q)
  <2>1. CASE owner[n] = a
    <3>1. a # None  BY CapabilityAssumption
    <3>2. a \in contracts /\ n \in used  BY <2>1, <3>1 DEF IInv, OwnersKnown
    <3> QED  BY <2>1, <3>2 DEF Idle, ReqRecord, ReqInv
  <2>2. CASE owner[n] # a  BY <2>2, IdleOk
  <2> QED  BY <2>1, <2>2
<1>2. req' = [req EXCEPT ![c] = q]
      /\ UNCHANGED <<clock, life, contracts, owner, tokens, node, used>>
  BY DEF StartIssue, coordinator
<1> HIDE DEF q
<1> QED  BY <1>1, <1>2, MoveKeeps

LEMMA IssueKeeps ==
    ASSUME IInv, NEW c \in Client, Issue(c)
    PROVE  IInv'
<1> DEFINE t == [app |-> req[c].app, ns |-> req[c].ns, op |-> req[c].op,
                 exp |-> clock + Lifetime(req[c].ttl), key |-> life, iat |-> clock]
<1>1. /\ req[c].app \in contracts /\ contracts \subseteq App /\ req[c].ns \in Namespace
      /\ req[c].op \in Op /\ owner[req[c].ns] = req[c].app /\ req[c].ns \in used
      /\ req[c].ttl \in Nat /\ clock \in Nat /\ life \in Nat
  BY DEF IInv, ReqInv, Issue, TypeOK
<1>2. Lifetime(req[c].ttl) \in 1..MaxTtl
  BY <1>1, CapabilityAssumption DEF Lifetime, Clamp
<1>3. t \in Token /\ t.exp <= t.iat + MaxTtl
  BY <1>1, <1>2, CapabilityAssumption DEF Token
<1>4. /\ t.key = life /\ t.ns = req[c].ns /\ t.app = req[c].app
      /\ tokens' = tokens \cup {t} /\ req' = [req EXCEPT ![c] = Idle]
      /\ UNCHANGED <<clock, life, contracts, owner, node, used>>
  BY DEF Issue, coordinator
<1> HIDE DEF t
<1>5. TypeOK'
  <2>1. Idle \in ReqRecord  BY IdleOk
  <2> QED  BY <1>3, <1>4, <2>1 DEF IInv, TypeOK, ReqRecord
<1>6. OwnersKnown'  BY <1>4 DEF IInv, OwnersKnown
<1>7. TokensKnown' /\ IssuedToOwner'
  BY <1>1, <1>3, <1>4 DEF IInv, TokensKnown, IssuedToOwner
<1>8. ASSUME NEW p \in Client  PROVE ReqInv(req[p])'
  <2>1. req'[p] = Idle \/ req'[p] = req[p]  BY <1>4 DEF IInv, TypeOK
  <2>2. ReqInv(req[p]) /\ ReqInv(Idle)  BY IdleOk DEF IInv
  <2> QED  BY <1>4, <2>1, <2>2 DEF ReqInv
<1> QED  BY <1>5, <1>6, <1>7, <1>8 DEF IInv

LEMMA RestartKeeps ==
    ASSUME IInv, Restart
    PROVE  IInv'
<1>0. life' = life + 1 /\ life \in Nat /\ \A t \in tokens : t.key \in Nat /\ t.ns \in Namespace
  BY DEF IInv, TypeOK, Restart, Token
<1>1. TypeOK'
  <2>1. Idle \in ReqRecord /\ req \in [Client -> ReqRecord]
    BY IdleOk DEF IInv, TypeOK, ReqRecord
  <2>2. req' \in [Client -> ReqRecord]  BY <2>1 DEF Restart
  <2> QED  BY <1>0, <2>2 DEF IInv, TypeOK, Restart, ReqRecord
<1>2. OwnersKnown'  BY DEF OwnersKnown, Restart
<1>3. TokensKnown' /\ IssuedToOwner'
  BY <1>0 DEF IInv, TokensKnown, IssuedToOwner, Restart
<1>4. ASSUME NEW p \in Client  PROVE ReqInv(req[p])'
  <2>1. CASE req[p].pc \in AtCoordinator
    <3>1. req'[p] = Idle  BY <2>1 DEF Restart
    <3> QED  BY <3>1 DEF Idle, ReqInv
  <2>2. CASE req[p].pc \notin AtCoordinator
    <3>1. req'[p] = req[p] /\ ReqInv(req[p])  BY <2>2 DEF Restart, IInv
    <3> QED  BY <2>2, <3>1 DEF ReqInv, Restart, AtCoordinator
  <2> QED  BY <2>1, <2>2
<1> QED  BY <1>1, <1>2, <1>3, <1>4 DEF IInv

\* Steps of a node that is not serving: no request is at it.
LEMMA NodeKeeps ==
    ASSUME IInv, NEW n \in Node, node[n].pc # "up",
           NEW s \in [pc : {"off", "fetch", "up"}, key : Nat, attempt : Nat],
           node' = [node EXCEPT ![n] = s],
           UNCHANGED <<clock, life, contracts, owner, tokens, req, used>>
    PROVE  IInv'
<1>1. TypeOK'  BY DEF IInv, TypeOK
<1>2. OwnersKnown' /\ TokensKnown' /\ IssuedToOwner'
  BY DEF IInv, OwnersKnown, TokensKnown, IssuedToOwner
<1>3. ASSUME NEW p \in Client  PROVE ReqInv(req[p])'
  <2>1. ReqInv(req[p])  BY DEF IInv
  <2>2. req[p].node # None => req[p].node # n  BY <2>1 DEF ReqInv
  <2>3. req[p].node \in Node /\ req[p].node # None => node'[req[p].node] = node[req[p].node]
    BY <2>2 DEF IInv, TypeOK
  <2>4. req[p].node \in Node => req[p].node # None  BY CapabilityAssumption
  <2> QED  BY <2>1, <2>3, <2>4 DEF ReqInv
<1> QED  BY <1>1, <1>2, <1>3 DEF IInv

LEMMA NodeStopKeeps ==
    ASSUME IInv, NEW n \in Node, NodeStop(n)
    PROVE  IInv'
<1>1. TypeOK'
  <2>1. Idle \in ReqRecord /\ req \in [Client -> ReqRecord]
    BY IdleOk DEF IInv, TypeOK, ReqRecord
  <2>2. req' \in [Client -> ReqRecord]  BY <2>1 DEF NodeStop
  <2> QED  BY <2>2 DEF IInv, TypeOK, NodeStop, coordinator, Off, ReqRecord
<1>2. OwnersKnown' /\ TokensKnown' /\ IssuedToOwner'
  BY DEF IInv, OwnersKnown, TokensKnown, IssuedToOwner, NodeStop, coordinator
<1>3. ASSUME NEW p \in Client  PROVE ReqInv(req[p])'
  <2>1. CASE req[p].node = n
    <3>1. req'[p] = Idle  BY <2>1 DEF NodeStop
    <3> QED  BY <3>1 DEF Idle, ReqInv
  <2>2. CASE req[p].node # n
    <3>1. req'[p] = req[p] /\ ReqInv(req[p])  BY <2>2 DEF NodeStop, IInv
    <3>2. req[p].node \in Node => node'[req[p].node] = node[req[p].node]
      BY <2>2 DEF NodeStop, IInv, TypeOK
    <3> QED  BY <3>1, <3>2 DEF ReqInv, NodeStop, coordinator
  <2> QED  BY <2>1, <2>2
<1> QED  BY <1>1, <1>2, <1>3 DEF IInv

LEMMA UseCheckKeeps ==
    ASSUME IInv, NEW c \in Client, NEW n \in Node, NEW t \in tokens,
           NEW ns \in Namespace, NEW op \in Op, UseCheck(c, n, t, ns, op)
    PROVE  IInv'
<1> DEFINE ok == SignatureOk(t, node[n].key) /\ Authorizes(t, ns, op, clock)
           q == [Idle EXCEPT !.pc = IF ok THEN "owner" ELSE "refused",
                             !.ns = ns, !.op = op, !.node = n, !.token = t,
                             !.life = life, !.at = clock]
<1>1. /\ t \in Token /\ t.exp \in Nat /\ clock \in Nat /\ life \in Nat
      /\ node[n].pc = "up"
  BY DEF IInv, TypeOK, Token, UseCheck
<1>2. /\ q.pc = (IF ok THEN "owner" ELSE "refused")
      /\ q.ns = ns /\ q.op = op /\ q.node = n /\ q.token = t /\ q.life = life /\ q.at = clock
      /\ q \in ReqRecord
  BY <1>1 DEF Idle, ReqRecord
<1>3. /\ ok => clock < t.exp /\ ns = t.ns /\ op = t.op
      /\ ~ok => node[n].key # t.key \/ clock >= t.exp \/ ns # t.ns \/ op # t.op
  BY <1>1 DEF SignatureOk, Authorizes, IsExpired
<1>4. req' = [req EXCEPT ![c] = q]
      /\ UNCHANGED <<clock, life, contracts, owner, tokens, node, used>>
  BY DEF UseCheck, coordinator
<1> HIDE DEF ok, q
<1>5. ReqInv(q)
  <2>1. CASE ok  BY <2>1, <1>1, <1>2, <1>3 DEF ReqInv
  <2>2. CASE ~ok  BY <2>2, <1>1, <1>2, <1>3 DEF ReqInv
  <2> QED  BY <2>1, <2>2
<1> QED  BY <1>2, <1>4, <1>5, MoveKeeps

LEMMA UseOwnerKeeps ==
    ASSUME IInv, NEW c \in Client, UseOwner(c)
    PROVE  IInv'
<1> DEFINE o == req[c]
           q == [o EXCEPT !.pc = IF owner[o.ns] = o.token.app THEN "admitted" ELSE "refused",
                          !.life = life]
<1>1. /\ o \in ReqRecord /\ o.pc = "owner" /\ o.token \in tokens /\ o.node \in Node
      /\ o.at < o.token.exp /\ o.ns = o.token.ns /\ o.op = o.token.op
      /\ node[o.node].pc = "up" /\ life \in Nat /\ o.token \in Token
  BY CapabilityAssumption DEF IInv, TypeOK, ReqRecord, ReqInv, UseOwner
<1>2. /\ q \in ReqRecord
      /\ q.pc = (IF owner[o.ns] = o.token.app THEN "admitted" ELSE "refused")
      /\ q.life = life /\ q.node = o.node /\ q.token = o.token /\ q.at = o.at
      /\ q.ns = o.ns /\ q.op = o.op
  BY <1>1 DEF ReqRecord
<1>3. /\ o.token.key \in Nat /\ o.token.key <= life /\ o.token.app # None
      /\ o.token.key < life => owner[o.ns] = None
      /\ o.token.key = life => owner[o.ns] = o.token.app
  BY <1>1, CapabilityAssumption DEF IInv, TokensKnown, IssuedToOwner, Token
<1>4. req' = [req EXCEPT ![c] = q]
      /\ UNCHANGED <<clock, life, contracts, owner, tokens, node, used>>
  BY <1>1 DEF UseOwner, coordinator, IInv, TypeOK, ReqRecord
<1> HIDE DEF q, o
<1>5. ReqInv(q)
  <2>1. CASE owner[o.ns] = o.token.app
    <3>1. q.life = q.token.key  BY <2>1, <1>1, <1>2, <1>3
    <3> QED  BY <2>1, <3>1, <1>1, <1>2 DEF ReqInv
  <2>2. CASE owner[o.ns] # o.token.app
    <3>1. q.life > q.token.key  BY <2>2, <1>1, <1>2, <1>3
    <3> QED  BY <2>2, <3>1, <1>1, <1>2 DEF ReqInv
  <2> QED  BY <2>1, <2>2
<1> QED  BY <1>2, <1>4, <1>5, MoveKeeps

LEMMA StepKeeps ==
    ASSUME IInv, [Next]_vars
    PROVE  IInv'
<1>1. ASSUME NEW c \in Client, End(c)  PROVE IInv'
  <2>1. req' = [req EXCEPT ![c] = Idle]
        /\ UNCHANGED <<clock, life, contracts, owner, tokens, node, used>>
    BY <1>1 DEF End, coordinator
  <2> QED  BY <2>1, IdleOk, MoveKeeps
<1>2. ASSUME NEW n \in Node, NodeStart(n) \/ Fetch(n) \/ FetchFails(n)  PROVE IInv'
  <2> DEFINE s == node'[n]
  <2>1. /\ node[n].pc # "up" /\ node' = [node EXCEPT ![n] = s]
        /\ s \in [pc : {"off", "fetch", "up"}, key : Nat, attempt : Nat]
        /\ UNCHANGED <<clock, life, contracts, owner, tokens, req, used>>
    BY <1>2 DEF NodeStart, Fetch, FetchFails, coordinator, IInv, TypeOK, Off
  <2> HIDE DEF s
  <2> QED  BY <2>1, NodeKeeps
<1>3. CASE Tick
  <2>1. TypeOK' /\ OwnersKnown' /\ TokensKnown' /\ IssuedToOwner'
    BY <1>3 DEF Tick, coordinator, IInv, TypeOK, OwnersKnown, TokensKnown, IssuedToOwner
  <2>2. \A c \in Client : ReqInv(req[c])'  BY <1>3 DEF Tick, coordinator, IInv, ReqInv
  <2> QED  BY <2>1, <2>2 DEF IInv
<1>4. CASE UNCHANGED vars
  <2>1. TypeOK' /\ OwnersKnown' /\ TokensKnown' /\ IssuedToOwner'
    BY <1>4 DEF vars, IInv, TypeOK, OwnersKnown, TokensKnown, IssuedToOwner
  <2>2. \A c \in Client : ReqInv(req[c])'  BY <1>4 DEF vars, IInv, ReqInv
  <2> QED  BY <2>1, <2>2 DEF IInv
<1>5. \A ttl \in 0..MaxTtl + 1 : ttl \in Nat  BY CapabilityAssumption
<1> QED
  BY <1>1, <1>2, <1>3, <1>4, <1>5, RegisterKeeps, StartCreateKeeps, CreateKeeps,
     StartIssueKeeps, IssueKeeps, RestartKeeps, NodeStopKeeps, UseCheckKeeps, UseOwnerKeeps
  DEF Next

\* The inductive invariant holds in every reachable state.
THEOREM Invariance == Spec => []IInv
BY InitHolds, StepKeeps, PTL DEF Spec

\* Requests, tokens and nodes stay well formed (TypeOK).
THEOREM TypeCorrect == Spec => []TypeOK
BY Invariance, PTL DEF IInv

\* Tokens go to owners: one signed by the running coordinator names a namespace
\* of a registered app, whatever restarts have happened (IssuedToOwner).
THEOREM TokensGoToOwners == Spec => []IssuedToOwner
BY Invariance, PTL DEF IInv

\* The guard never admits a token of an earlier coordinator, even at a node
\* that still verifies with its key (AdmittedByIssuer).
THEOREM OnlyIssuerAdmits == Spec => []AdmittedByIssuer
<1>1. IInv => AdmittedByIssuer  BY DEF IInv, ReqInv, AdmittedByIssuer
<1> QED  BY <1>1, Invariance, PTL

\* Freshness: the guard's check comes less than MAX_TOKEN_TTL_SECS after the
\* signing, whatever lifetime was asked for (AdmittedWithinTtl).
THEOREM AdmissionIsFresh == Spec => []AdmittedWithinTtl
<1>1. ASSUME IInv, NEW c \in Client, req[c].pc \in {"owner", "admitted"}
      PROVE  req[c].at < req[c].token.iat + MaxTtl
  <2>1. req[c].token \in tokens /\ req[c].at < req[c].token.exp  BY <1>1 DEF IInv, ReqInv
  <2>2. req[c].token.exp <= req[c].token.iat + MaxTtl  BY <1>1, <2>1 DEF IInv, TokensKnown
  <2>3. req[c].token.exp \in Nat /\ req[c].token.iat \in Nat /\ req[c].at \in Nat /\ MaxTtl \in Nat
    BY <1>1, <2>1, CapabilityAssumption DEF IInv, TypeOK, Token
  <2> QED  BY <2>1, <2>2, <2>3
<1>2. IInv => AdmittedWithinTtl  BY <1>1 DEF AdmittedWithinTtl
<1> QED  BY <1>2, Invariance, PTL

\* A token used on its own terms at a node with the right key is refused only
\* after a restart of the coordinator (SoundTokenAdmitted).
THEOREM SoundTokensPass == Spec => []SoundTokenAdmitted
<1>1. IInv => SoundTokenAdmitted  BY DEF IInv, ReqInv, SoundTokenAdmitted
<1> QED  BY <1>1, Invariance, PTL
=============================================================================
