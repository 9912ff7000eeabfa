----------------------------- MODULE Perimeter -----------------------------
(***************************************************************************)
(* The active perimeter of the coordinator: the middleware `guard` around  *)
(* every request, the strike counter and blocklist of                      *)
(* EscalatingThreatResponder, and the hash-chained ledger of               *)
(* LedgerIntrusionSink. Requests run on several threads. The responder and *)
(* the ledger have a lock each and nothing holds both, so other requests   *)
(* run between "is it blocked?", the handler, the strike and the footprint.*)
(*                                                                         *)
(* All of it is memory of the coordinator process: a restart loses it.     *)
(***************************************************************************)
EXTENDS Domain, FiniteSets, Sequences

CONSTANTS
    Req,          \* requests in flight at once
    Fp,           \* fingerprints
    BlockAfter,   \* strike at which a fingerprint is blocked
    SimCap,       \* most strikes of one drill (20 in the code)
    MaxArrivals,  \* bound: requests ever accepted
    None

ASSUME PerimeterAssumption ==
    /\ IsFiniteSet(Req) /\ None \notin Fp
    /\ BlockAfter \in Nat /\ SimCap \in Nat \ {0} /\ MaxArrivals \in Nat

VARIABLES
    strikes,    \* Fp -> strikes counted
    blocked,    \* the blocklist
    ledger,     \* the chained entries
    req,        \* Req -> where the request stands
    view,       \* an operator reading /v1/admin/intrusions
    arrivals    \* bound

vars == <<strikes, blocked, ledger, req, view, arrivals>>

At(pc, f, decision, left) ==
    [pc |-> pc, fp |-> f, decision |-> decision, left |-> left]

Idle == At("idle", None, "none", 0)

NoView == [pc |-> "idle", entries |-> {}, valid |-> TRUE, blocked |-> {}]

Init ==
    /\ strikes = [f \in Fp |-> 0]
    /\ blocked = {}
    /\ ledger = <<>>
    /\ req = [r \in Req |-> Idle]
    /\ view = NoView
    /\ arrivals = 0

-----------------------------------------------------------------------------
(* The ledger. A SHA-256 digest is the tuple of what it digests: equal     *)
(* digests, equal contents.                                                *)

Genesis == <<>>

EntryHash(seq, prev, record) == <<seq, prev, record>>

\* The hash the next entry has to commit to.
LastHash(entries) == IF entries = <<>> THEN Genesis ELSE entries[Len(entries)].hash

Entry(seq, prev, record) ==
    [seq |-> seq, record |-> record, prev_hash |-> prev,
     hash |-> EntryHash(seq, prev, record)]

\* LedgerIntrusionSink::append, under the ledger's lock.
Extend(entries, record) ==
    Append(entries, Entry(Len(entries), LastHash(entries), record))

\* Mutant of EntryValid: the record's own hash is not recomputed.
EntryLinked(entries, i) ==
    /\ entries[i].seq = i - 1
    /\ entries[i].prev_hash = (IF i = 1 THEN Genesis ELSE entries[i - 1].hash)

EntryValid(entries, i) ==
    /\ entries[i].seq = i - 1
    /\ entries[i].prev_hash = (IF i = 1 THEN Genesis ELSE entries[i - 1].hash)
    /\ entries[i].hash =
         EntryHash(entries[i].seq, entries[i].prev_hash, entries[i].record)

\* LedgerIntrusionSink::verify.
Verify(entries) == \A i \in 1..Len(entries) : EntryValid(entries, i)

\* IntrusionRecord: class stands for attack_class and rejection_reason, which
\* also names the decision.
Footprint(f, class, decision) == [fp |-> f, class |-> class, decision |-> decision]

-----------------------------------------------------------------------------
(* The responder. *)

\* EscalatingThreatResponder::new takes at least 1.
Threshold == IF BlockAfter >= 1 THEN BlockAfter ELSE 1

\* assess: what it answers ...
Decision(f) ==
    IF f \in blocked \/ strikes[f] + 1 >= Threshold THEN "Block" ELSE "Tarpit"

\* Mutant of Strike: a blocked fingerprint goes on collecting strikes.
StrikeAlways(f) ==
    /\ strikes' = [strikes EXCEPT ![f] = @ + 1]
    /\ blocked' = IF Decision(f) = "Block" THEN blocked \cup {f} ELSE blocked

\* Mutant of Strike: blocked from the strike after the threshold on.
StrikeBlocksLate(f) ==
    /\ strikes' = IF f \in blocked THEN strikes ELSE [strikes EXCEPT ![f] = @ + 1]
    /\ blocked' = IF strikes[f] >= Threshold THEN blocked \cup {f} ELSE blocked

\* ... and what it changes: nothing for a fingerprint that is blocked already.
Strike(f) ==
    /\ strikes' = IF f \in blocked THEN strikes ELSE [strikes EXCEPT ![f] = @ + 1]
    /\ blocked' = IF Decision(f) = "Block" THEN blocked \cup {f} ELSE blocked

-----------------------------------------------------------------------------
(* The guard. *)

\* A request arrives and is_blocked is asked, once.
Arrive(r, f) ==
    /\ req[r].pc = "idle" /\ arrivals < MaxArrivals
    /\ req' = [req EXCEPT ![r] =
                 At(IF f \in blocked THEN "drop" ELSE "handler", f, "none", 0)]
    /\ arrivals' = arrivals + 1
    /\ UNCHANGED <<strikes, blocked, ledger, view>>

\* The footprint of a blocked request, and its 403.
Drop(r) ==
    /\ req[r].pc = "drop"
    /\ ledger' = Extend(ledger, Footprint(req[r].fp, "blocked_fingerprint", "none"))
    /\ req' = [req EXCEPT ![r] = Idle]
    /\ UNCHANGED <<strikes, blocked, view, arrivals>>

\* The handler answers with a status that is no rejection.
Serve(r) ==
    /\ req[r].pc = "handler"
    /\ req' = [req EXCEPT ![r] = Idle]
    /\ UNCHANGED <<strikes, blocked, ledger, view, arrivals>>

\* The handler answers 401, 403 or 429: a strike ...
Refuse(r) ==
    /\ req[r].pc = "handler"
    /\ Strike(req[r].fp)
    /\ req' = [req EXCEPT ![r] =
                 At("record", req[r].fp, Decision(req[r].fp), 0)]
    /\ UNCHANGED <<ledger, view, arrivals>>

\* Mutant of Record: a fingerprint blocked meanwhile leaves no footprint.
RecordUnlessBlocked(r) ==
    /\ req[r].pc = "record"
    /\ ledger' = IF req[r].fp \in blocked THEN ledger
                 ELSE Extend(ledger, Footprint(req[r].fp, "rejected", req[r].decision))
    /\ req' = [req EXCEPT ![r] = Idle]
    /\ UNCHANGED <<strikes, blocked, view, arrivals>>

\* ... and, in a step of its own, the footprint; then the answer goes out.
Record(r) ==
    /\ req[r].pc = "record"
    /\ ledger' = Extend(ledger, Footprint(req[r].fp, "rejected", req[r].decision))
    /\ req' = [req EXCEPT ![r] = Idle]
    /\ UNCHANGED <<strikes, blocked, view, arrivals>>

\* The client disconnects while the handler waits: the request is dropped, and
\* with it the strike. The guard's own calls never wait.
Disconnect(r) ==
    /\ req[r].pc = "handler"
    /\ req' = [req EXCEPT ![r] = Idle]
    /\ UNCHANGED <<strikes, blocked, ledger, view, arrivals>>

-----------------------------------------------------------------------------
(* perimeter_simulate, itself a handler behind the guard. *)

\* The operator names a fingerprint and a number of strikes.
Simulate(r, f, n) ==
    /\ req[r].pc = "handler"
    /\ req' = [req EXCEPT ![r] =
                 At("sim", f, "none", Clamp(n, 1, SimCap))]
    /\ UNCHANGED <<strikes, blocked, ledger, view, arrivals>>

SimStrike(r) ==
    /\ req[r].pc = "sim"
    /\ Strike(req[r].fp)
    /\ req' = [req EXCEPT ![r] =
                 At("simrecord", req[r].fp, Decision(req[r].fp), req[r].left)]
    /\ UNCHANGED <<ledger, view, arrivals>>

\* The footprint of one strike; after the last one the drill answers 200.
SimRecord(r) ==
    /\ req[r].pc = "simrecord"
    /\ ledger' = Extend(ledger, Footprint(req[r].fp, "simulated", req[r].decision))
    /\ req' = [req EXCEPT ![r] =
                 IF req[r].left = 1 THEN Idle
                 ELSE At("sim", req[r].fp, "none", req[r].left - 1)]
    /\ UNCHANGED <<strikes, blocked, view, arrivals>>

-----------------------------------------------------------------------------
(* GET /v1/admin/intrusions takes three locks, one after the other. *)

\* entries(): of the snapshot, the view keeps the footprints.
ViewEntries ==
    /\ view.pc = "idle"
    /\ view' = [NoView EXCEPT !.pc = "verify",
                 !.entries = {ledger[i].record : i \in DOMAIN ledger}]
    /\ UNCHANGED <<strikes, blocked, ledger, req, arrivals>>

\* verify(), on the ledger as it is by now.
ViewVerify ==
    /\ view.pc = "verify"
    /\ view' = [view EXCEPT !.pc = "blocked", !.valid = Verify(ledger)]
    /\ UNCHANGED <<strikes, blocked, ledger, req, arrivals>>

\* blocked(): the view is complete.
ViewBlocked ==
    /\ view.pc = "blocked"
    /\ view' = [view EXCEPT !.pc = "done", !.blocked = blocked]
    /\ UNCHANGED <<strikes, blocked, ledger, req, arrivals>>

ViewClose ==
    /\ view.pc = "done"
    /\ view' = NoView
    /\ UNCHANGED <<strikes, blocked, ledger, req, arrivals>>

-----------------------------------------------------------------------------
\* The coordinator process is restarted: AppState::in_memory starts empty and
\* every request in flight is gone.
Restart ==
    /\ strikes' = [f \in Fp |-> 0]
    /\ blocked' = {}
    /\ ledger' = <<>>
    /\ req' = [r \in Req |-> Idle]
    /\ view' = NoView
    /\ UNCHANGED arrivals

Next ==
    \/ \E r \in Req :
        \/ \E f \in Fp : Arrive(r, f) \/ \E n \in 0..SimCap + 1 : Simulate(r, f, n)
        \/ Drop(r) \/ Serve(r) \/ Refuse(r) \/ Record(r) \/ Disconnect(r)
        \/ SimStrike(r) \/ SimRecord(r)
    \/ ViewEntries \/ ViewVerify \/ ViewBlocked \/ ViewClose
    \/ Restart

Spec == Init /\ [][Next]_vars

-----------------------------------------------------------------------------
\* Requests, entries and the operator's view are well formed.
TypeOK ==
    /\ strikes \in [Fp -> Nat] /\ blocked \subseteq Fp /\ arrivals \in Nat
    /\ req \in [Req -> [pc : {"idle", "handler", "drop", "record", "sim", "simrecord"},
                        fp : Fp \cup {None}, decision : {"none", "Tarpit", "Block"},
                        left : 0..SimCap]]
    /\ \A r \in Req : /\ req[r].pc # "idle" => req[r].fp \in Fp
                      /\ req[r].pc \in {"sim", "simrecord"} => req[r].left > 0
    /\ view.pc \in {"idle", "verify", "blocked", "done"}

\* Of a fingerprint: indices of the ledger, and requests between the strike
\* and its footprint, with decision d.
Footprints(f, d) ==
    {i \in DOMAIN ledger : ledger[i].record.fp = f /\ ledger[i].record.decision = d}
Pending(f, d) ==
    {r \in Req : req[r].pc \in {"record", "simrecord"}
               /\ req[r].fp = f /\ req[r].decision = d}

\* A fingerprint is on the blocklist exactly when its strikes have reached the
\* threshold, and assess never counts beyond it (so the u32 cannot overflow),
\* however refusals and drills of the same fingerprint interleave.
BlockedExactly ==
    \A f \in Fp : /\ strikes[f] <= Threshold
                  /\ f \in blocked <=> strikes[f] = Threshold

\* The ledger accounts for the strikes: every strike short of the block has
\* left exactly one tarpit footprint, or the request that is about to write it
\* is still there. No interleaving of assess and record loses or doubles one.
LedgerCountsStrikes ==
    \A f \in Fp :
        Cardinality(Footprints(f, "Tarpit")) + Cardinality(Pending(f, "Tarpit"))
          = IF strikes[f] < Threshold THEN strikes[f] ELSE Threshold - 1

\* Nobody is blocked without evidence: the ledger holds a footprint with the
\* decision Block, or the request that struck is about to write it.
BlockHasEvidence ==
    \A f \in blocked : Footprints(f, "Block") # {} \/ Pending(f, "Block") # {}

\* The chain the coordinator writes verifies at every moment, whichever threads
\* append in whichever order.
ChainVerifies == Verify(ledger)

Altered(entries, i, record) == [entries EXCEPT ![i].record = record]
Without(entries, i) ==
    SubSeq(entries, 1, i - 1) \o SubSeq(entries, i + 1, Len(entries))

\* "Any edit or deletion breaks the chain": verify notices a changed record
\* anywhere, and a removed entry that has a successor.
TamperEvident ==
    \A i \in DOMAIN ledger :
        /\ \A f \in Fp, d \in {"none", "Tarpit", "Block"} :
             LET other == Footprint(f, ledger[i].record.class, d)
             IN  other # ledger[i].record => ~Verify(Altered(ledger, i, other))
        /\ i < Len(ledger) => ~Verify(Without(ledger, i))

\* The operator's view is read under three locks, with requests in between, and
\* still makes sense: the chain is reported valid, and a fingerprint that the
\* listed footprints call blocked is in the listed blocklist.
ViewCoherent ==
    view.pc = "done" =>
        /\ view.valid
        /\ \A e \in view.entries : e.decision = "Block" => e.fp \in view.blocked
=============================================================================
