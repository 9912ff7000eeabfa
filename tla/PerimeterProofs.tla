-------------------------- MODULE PerimeterProofs --------------------------
(***************************************************************************)
(* The perimeter's properties for any number of threads, fingerprints and  *)
(* strikes, and a ledger of any length.                                    *)
(***************************************************************************)
EXTENDS Perimeter, FiniteSetTheorems, TLAPS

IsSequence(s) == \E S : s \in Seq(S)

\* Whatever says "Block" speaks of a blocked fingerprint: entries, footprints
\* about to be written, and what the operator has read.
BlockMeansBlocked ==
    /\ \A i \in DOMAIN ledger :
         ledger[i].record.decision = "Block" => ledger[i].record.fp \in blocked
    /\ \A r \in Req : req[r].pc \in {"record", "simrecord"} /\ req[r].decision = "Block"
                        => req[r].fp \in blocked
    /\ view.pc \in {"verify", "blocked"} =>
         \A e \in view.entries : e.decision = "Block" => e.fp \in blocked
    /\ view.pc = "blocked" => view.valid

ViewFields ==
    view = [pc |-> view.pc, entries |-> view.entries, valid |-> view.valid,
            blocked |-> view.blocked]

IInv ==
    /\ TypeOK /\ IsSequence(ledger) /\ ViewFields
    /\ BlockedExactly /\ BlockHasEvidence /\ LedgerCountsStrikes
    /\ ChainVerifies /\ BlockMeansBlocked /\ ViewCoherent

-----------------------------------------------------------------------------
\* What Append does to any sequence.
LEMMA AppendFacts ==
    ASSUME NEW s, IsSequence(s), NEW e
    PROVE  /\ IsSequence(Append(s, e))
           /\ Len(s) \in Nat /\ DOMAIN s = 1..Len(s)
           /\ Len(Append(s, e)) = Len(s) + 1
           /\ DOMAIN Append(s, e) = 1..(Len(s) + 1)
           /\ \A i \in 1..Len(s) : Append(s, e)[i] = s[i]
           /\ Append(s, e)[Len(s) + 1] = e
<1>1. PICK S : s \in Seq(S)  BY DEF IsSequence
<1>2. s \in Seq(S \cup {e}) /\ e \in S \cup {e}  BY <1>1
<1>3. Append(s, e) \in Seq(S \cup {e})  BY <1>2
<1> QED  BY <1>2, <1>3 DEF IsSequence

\* Extend, as LedgerIntrusionSink::append does it, keeps the chain valid and
\* adds one entry that carries the record.
LEMMA ExtendVerifies ==
    ASSUME NEW s, IsSequence(s), Verify(s), NEW rec
    PROVE  /\ IsSequence(Extend(s, rec)) /\ Verify(Extend(s, rec))
           /\ Len(s) \in Nat /\ DOMAIN s = 1..Len(s)
           /\ DOMAIN Extend(s, rec) = 1..(Len(s) + 1)
           /\ \A i \in 1..Len(s) : Extend(s, rec)[i] = s[i]
           /\ Extend(s, rec)[Len(s) + 1].record = rec
<1> DEFINE e == Entry(Len(s), LastHash(s), rec)
           x == Extend(s, rec)
<1>1. x = Append(s, e)  BY DEF Extend
<1>2. /\ IsSequence(x) /\ Len(s) \in Nat /\ DOMAIN s = 1..Len(s)
      /\ Len(x) = Len(s) + 1 /\ DOMAIN x = 1..(Len(s) + 1)
      /\ \A i \in 1..Len(s) : x[i] = s[i]
      /\ x[Len(s) + 1] = e
  BY <1>1, AppendFacts
<1>3. /\ e.seq = Len(s) /\ e.prev_hash = LastHash(s) /\ e.record = rec
      /\ e.hash = EntryHash(e.seq, e.prev_hash, e.record)
  BY DEF Entry
<1>4. ASSUME NEW i \in 1..Len(x)  PROVE EntryValid(x, i)
  <2>1. CASE i \in 1..Len(s)
    <3>1. EntryValid(s, i)  BY <2>1 DEF Verify
    <3>2. x[i] = s[i] /\ (i # 1 => x[i - 1] = s[i - 1])  BY <1>2, <2>1
    <3> QED  BY <3>1, <3>2 DEF EntryValid
  <2>2. CASE i = Len(s) + 1
    <3>1. x[i] = e /\ i - 1 = Len(s)  BY <1>2, <2>2
    <3>2. LastHash(s) = (IF i = 1 THEN Genesis ELSE x[i - 1].hash)
      <4>1. CASE s = <<>>
        <5>1. Len(s) = 0  BY <4>1
        <5> QED  BY <4>1, <5>1, <2>2 DEF LastHash
      <4>2. CASE s # <<>>
        <5>1. Len(s) # 0
          <6>1. PICK S : s \in Seq(S)  BY DEF IsSequence
          <6> QED  BY <6>1, <4>2
        <5>2. x[Len(s)] = s[Len(s)]  BY <1>2, <5>1
        <5> QED  BY <4>2, <5>1, <5>2, <2>2, <1>2 DEF LastHash
      <4> QED  BY <4>1, <4>2
    <3> QED  BY <3>1, <3>2, <1>3 DEF EntryValid
  <2> QED  BY <1>2, <2>1, <2>2
<1>5. Verify(x)  BY <1>4 DEF Verify
<1> QED  BY <1>2, <1>3, <1>5

-----------------------------------------------------------------------------
ReqRecord ==
    [pc : {"idle", "handler", "drop", "record", "sim", "simrecord"},
     fp : Fp \cup {None}, decision : {"none", "Tarpit", "Block"}, left : 0..SimCap]

ReqOk(q) ==
    /\ q \in ReqRecord
    /\ q.pc # "idle" => q.fp \in Fp
    /\ q.pc \in {"sim", "simrecord"} => q.left > 0

Writing(q) == q.pc \in {"record", "simrecord"}

\* The two sets the count is over are finite.
LEMMA FiniteParts ==
    ASSUME IsSequence(ledger), NEW f, NEW d
    PROVE  /\ IsFiniteSet(Footprints(f, d)) /\ Cardinality(Footprints(f, d)) \in Nat
           /\ IsFiniteSet(Pending(f, d)) /\ Cardinality(Pending(f, d)) \in Nat
<1>1. Len(ledger) \in Nat /\ DOMAIN ledger = 1..Len(ledger)  BY AppendFacts
<1>2. IsFiniteSet(DOMAIN ledger)  BY <1>1, FS_Interval
<1>3. Footprints(f, d) \subseteq DOMAIN ledger /\ Pending(f, d) \subseteq Req
  BY DEF Footprints, Pending
<1>4. IsFiniteSet(Footprints(f, d)) /\ IsFiniteSet(Pending(f, d))
  BY <1>2, <1>3, FS_Subset, PerimeterAssumption
<1> QED  BY <1>4, FS_CardinalityType

\* A request moves on, short of a strike or a footprint.
LEMMA MoveKeeps ==
    ASSUME IInv, NEW r \in Req, NEW q, ReqOk(q), ~Writing(q), ~Writing(req[r]),
           req' = [req EXCEPT ![r] = q],
           arrivals' \in Nat, UNCHANGED <<strikes, blocked, ledger, view>>
    PROVE  IInv'
<1>1. TypeOK'  BY DEF IInv, TypeOK, ReqOk, ReqRecord
<1>2. \A f, d : Pending(f, d)' = Pending(f, d)
  BY DEF Pending, Writing, IInv, TypeOK
<1>3. \A f, d : Footprints(f, d)' = Footprints(f, d)  BY DEF Footprints
<1>4. BlockHasEvidence'  BY <1>2, <1>3 DEF IInv, BlockHasEvidence
<1>5. BlockMeansBlocked'  BY DEF IInv, BlockMeansBlocked, TypeOK, Writing
<1>6. /\ IsSequence(ledger)' /\ ViewFields' /\ BlockedExactly' /\ ChainVerifies'
      /\ ViewCoherent'
  BY DEF IInv, ViewFields, BlockedExactly, ChainVerifies, ViewCoherent
<1>7. LedgerCountsStrikes'  BY <1>2, <1>3 DEF IInv, LedgerCountsStrikes, Threshold
<1> QED  BY <1>1, <1>4, <1>5, <1>6, <1>7 DEF IInv

\* assess counts a strike and the request goes on to write the footprint.
LEMMA StrikeKeeps ==
    ASSUME IInv, NEW r \in Req, NEW f \in Fp, NEW q, ReqOk(q),
           Writing(q), q.fp = f, q.decision = Decision(f), ~Writing(req[r]),
           Strike(f), req' = [req EXCEPT ![r] = q],
           UNCHANGED <<ledger, view, arrivals>>
    PROVE  IInv'
<1>0. /\ Threshold \in Nat \ {0} /\ strikes \in [Fp -> Nat] /\ blocked \subseteq Fp
      /\ \A g \in Fp : strikes[g] <= Threshold /\ (g \in blocked <=> strikes[g] = Threshold)
      /\ req \in [Req -> ReqRecord] /\ req'[r] = q
      /\ \A p \in Req \ {r} : req'[p] = req[p]
  BY PerimeterAssumption DEF Threshold, IInv, TypeOK, BlockedExactly, ReqRecord
<1>1. blocked \subseteq blocked' /\ blocked' \subseteq blocked \cup {f}  BY DEF Strike
<1>2. Decision(f) = "Block" => f \in blocked'  BY DEF Strike
<1>3. f \in blocked' => Decision(f) = "Block"  BY DEF Strike, Decision
<1>4. TypeOK'
  <2>1. strikes' \in [Fp -> Nat] /\ blocked' \subseteq Fp  BY <1>0 DEF Strike
  <2> QED  BY <2>1 DEF IInv, TypeOK, ReqOk, ReqRecord
<1>5. BlockedExactly'
  <2> SUFFICES ASSUME NEW g \in Fp
               PROVE  strikes'[g] <= Threshold /\ (g \in blocked' <=> strikes'[g] = Threshold)
    BY DEF BlockedExactly, Threshold
  <2>1. CASE g # f  BY <2>1, <1>0 DEF Strike
  <2>2. CASE g = f /\ f \in blocked  BY <2>2, <1>0 DEF Strike
  <2>3. CASE g = f /\ f \notin blocked  BY <2>3, <1>0 DEF Strike, Decision
  <2> QED  BY <2>1, <2>2, <2>3
<1>6. BlockHasEvidence'
  <2> SUFFICES ASSUME NEW g \in blocked'
               PROVE  Footprints(g, "Block")' # {} \/ Pending(g, "Block")' # {}
    BY DEF BlockHasEvidence
  <2>1. Footprints(g, "Block")' = Footprints(g, "Block")  BY DEF Footprints
  <2>2. Pending(g, "Block") \subseteq Pending(g, "Block")'
    BY <1>0 DEF Pending, Writing
  <2>3. CASE g \in blocked  BY <2>1, <2>2, <2>3 DEF IInv, BlockHasEvidence
  <2>4. CASE g = f
    <3>1. r \in Pending(g, "Block")'  BY <1>0, <1>3, <2>4 DEF Pending, Writing
    <3> QED  BY <3>1
  <2> QED  BY <1>1, <2>3, <2>4
<1>7. BlockMeansBlocked'
  <2>1. \A p \in Req : Writing(req'[p]) /\ req'[p].decision = "Block" => req'[p].fp \in blocked'
    BY <1>0, <1>1, <1>2 DEF IInv, BlockMeansBlocked, Writing
  <2> QED  BY <2>1, <1>1 DEF IInv, BlockMeansBlocked, Writing
<1>8. /\ IsSequence(ledger)' /\ ViewFields' /\ ChainVerifies' /\ ViewCoherent'
  BY DEF IInv, ViewFields, ChainVerifies, ViewCoherent
<1>9. LedgerCountsStrikes'
  <2> SUFFICES ASSUME NEW g \in Fp
               PROVE  Cardinality(Footprints(g, "Tarpit")') + Cardinality(Pending(g, "Tarpit")')
                        = IF strikes'[g] < Threshold THEN strikes'[g] ELSE Threshold - 1
    BY DEF LedgerCountsStrikes, Threshold
  <2> DEFINE F == Footprints(g, "Tarpit")
             P == Pending(g, "Tarpit")
  <2>1. Footprints(g, "Tarpit")' = F  BY DEF Footprints
  <2>2. /\ Cardinality(F) \in Nat /\ Cardinality(P) \in Nat /\ IsFiniteSet(P)
        /\ Cardinality(F) + Cardinality(P)
             = IF strikes[g] < Threshold THEN strikes[g] ELSE Threshold - 1
    BY FiniteParts DEF IInv, LedgerCountsStrikes
  <2>3. r \notin P  BY DEF Pending, Writing
  <2>4. CASE g # f \/ Decision(f) = "Block"
    <3>1. Pending(g, "Tarpit")' = P
      <4>1. ASSUME NEW p \in Req  PROVE p \in Pending(g, "Tarpit")' <=> p \in P
        <5>1. CASE p = r
          <6>1. ~(q.fp = g /\ q.decision = "Tarpit")  BY <2>4
          <6> QED  BY <5>1, <6>1, <2>3, <1>0 DEF Pending
        <5>2. CASE p # r  BY <5>2, <1>0 DEF Pending
        <5> QED  BY <5>1, <5>2
      <4> QED  BY <4>1 DEF Pending
    <3>2. (IF strikes'[g] < Threshold THEN strikes'[g] ELSE Threshold - 1)
            = (IF strikes[g] < Threshold THEN strikes[g] ELSE Threshold - 1)
      <4>1. CASE g # f  BY <4>1, <1>0 DEF Strike
      <4>2. CASE g = f /\ f \in blocked  BY <4>2, <1>0 DEF Strike
      <4>3. CASE g = f /\ f \notin blocked
        <5>1. strikes[f] + 1 = Threshold /\ strikes'[f] = Threshold
          BY <4>3, <2>4, <1>0 DEF Strike, Decision
        <5> QED  BY <5>1, <4>3, <1>0
      <4> QED  BY <4>1, <4>2, <4>3
    <3> QED  BY <3>1, <3>2, <2>1, <2>2
  <2>5. CASE g = f /\ Decision(f) # "Block"
    <3>1. Decision(f) = "Tarpit" /\ f \notin blocked /\ strikes[f] + 1 < Threshold
      BY <2>5, <1>0 DEF Decision
    <3>2. Pending(g, "Tarpit")' = P \cup {r}
      <4>1. ASSUME NEW p \in Req  PROVE p \in Pending(g, "Tarpit")' <=> p \in P \cup {r}
        BY <1>0, <2>5, <3>1 DEF Pending, Writing
      <4> QED  BY <4>1 DEF Pending
    <3>3. Cardinality(P \cup {r}) = Cardinality(P) + 1  BY <2>2, <2>3, FS_AddElement
    <3>4. strikes'[g] = strikes[g] + 1  BY <3>1, <2>5, <1>0 DEF Strike
    <3>5. Cardinality(Footprints(g, "Tarpit")') = Cardinality(F)  BY <2>1
    <3>6. Cardinality(Pending(g, "Tarpit")') = Cardinality(P) + 1  BY <3>2, <3>3
    <3>7. strikes[g] \in Nat /\ strikes[g] + 1 < Threshold  BY <3>1, <2>5, <1>0
    <3>8. Cardinality(F) + Cardinality(P) = strikes[g]  BY <3>7, <2>2, <1>0
    <3> QED  BY <3>4, <3>5, <3>6, <3>7, <3>8, <2>2, <1>0
  <2> QED  BY <2>4, <2>5
<1> QED  BY <1>4, <1>5, <1>6, <1>7, <1>8, <1>9 DEF IInv

\* A footprint is appended and its request moves on.
LEMMA FootprintKeeps ==
    ASSUME IInv, NEW r \in Req, NEW q, ReqOk(q), ~Writing(q), NEW class, NEW d,
           d = "Block" => req[r].fp \in blocked,
           Writing(req[r]) => d = req[r].decision,
           d = "Tarpit" => Writing(req[r]),
           req' = [req EXCEPT ![r] = q],
           ledger' = Extend(ledger, Footprint(req[r].fp, class, d)),
           UNCHANGED <<strikes, blocked, view, arrivals>>
    PROVE  IInv'
<1> DEFINE rec == Footprint(req[r].fp, class, d)
           n == Len(ledger) + 1
<1>1. /\ IsSequence(ledger)' /\ Verify(ledger)' /\ Len(ledger) \in Nat
      /\ DOMAIN ledger = 1..Len(ledger) /\ DOMAIN ledger' = 1..n
      /\ \A i \in 1..Len(ledger) : ledger'[i] = ledger[i]
      /\ ledger'[n].record = rec
  BY ExtendVerifies DEF IInv, ChainVerifies, Verify, EntryValid
<1>2. rec.fp = req[r].fp /\ rec.decision = d  BY DEF Footprint
<1>3. /\ req \in [Req -> ReqRecord] /\ req'[r] = q
      /\ \A p \in Req \ {r} : req'[p] = req[p]
  BY DEF IInv, TypeOK, ReqRecord
<1>4. TypeOK'  BY DEF IInv, TypeOK, ReqOk, ReqRecord
<1>5. BlockHasEvidence'
  <2> SUFFICES ASSUME NEW g \in blocked
               PROVE  Footprints(g, "Block")' # {} \/ Pending(g, "Block")' # {}
    BY DEF BlockHasEvidence
  <2>1. Footprints(g, "Block") \subseteq Footprints(g, "Block")'
    BY <1>1 DEF Footprints
  <2>2. CASE Footprints(g, "Block") # {}  BY <2>1, <2>2
  <2>3. ASSUME NEW p \in Pending(g, "Block"), p # r
        PROVE  p \in Pending(g, "Block")'
    BY <2>3, <1>3 DEF Pending
  <2>4. CASE r \in Pending(g, "Block")
    <3>1. d = "Block" /\ req[r].fp = g  BY <2>4 DEF Pending, Writing
    <3>2. n \in Footprints(g, "Block")'  BY <3>1, <1>1, <1>2 DEF Footprints
    <3> QED  BY <3>2
  <2> QED  BY <2>2, <2>3, <2>4 DEF IInv, BlockHasEvidence
<1>6. BlockMeansBlocked'
  <2>1. \A i \in DOMAIN ledger' :
          ledger'[i].record.decision = "Block" => ledger'[i].record.fp \in blocked
    BY <1>1, <1>2 DEF IInv, BlockMeansBlocked
  <2>2. \A p \in Req : Writing(req'[p]) /\ req'[p].decision = "Block" => req'[p].fp \in blocked
    BY <1>3 DEF IInv, BlockMeansBlocked, Writing
  <2> QED  BY <2>1, <2>2 DEF IInv, BlockMeansBlocked, Writing
<1>7. ViewFields' /\ BlockedExactly' /\ ViewCoherent'
  BY DEF IInv, ViewFields, BlockedExactly, ViewCoherent
<1>8. ChainVerifies'  BY <1>1 DEF ChainVerifies
<1>9. LedgerCountsStrikes'
  <2> SUFFICES ASSUME NEW g \in Fp
               PROVE  Cardinality(Footprints(g, "Tarpit")') + Cardinality(Pending(g, "Tarpit")')
                        = IF strikes[g] < Threshold THEN strikes[g] ELSE Threshold - 1
    BY DEF LedgerCountsStrikes, Threshold
  <2> DEFINE F == Footprints(g, "Tarpit")
             P == Pending(g, "Tarpit")
  <2>2. /\ Cardinality(F) \in Nat /\ IsFiniteSet(F)
        /\ Cardinality(P) \in Nat /\ IsFiniteSet(P)
        /\ Cardinality(F) + Cardinality(P)
             = IF strikes[g] < Threshold THEN strikes[g] ELSE Threshold - 1
    BY FiniteParts DEF IInv, LedgerCountsStrikes
  <2>3. n \notin F  BY <1>1 DEF Footprints
  <2>4. r \in P <=> req[r].fp = g /\ d = "Tarpit"  BY DEF Pending, Writing
  <2>5. CASE r \in P
    <3>1. Footprints(g, "Tarpit")' = F \cup {n}
      <4>1. ASSUME NEW i \in 1..n
            PROVE  i \in Footprints(g, "Tarpit")' <=> i \in F \cup {n}
        BY <1>1, <1>2, <2>4, <2>5 DEF Footprints
      <4> QED  BY <4>1, <1>1 DEF Footprints
    <3>2. Pending(g, "Tarpit")' = P \ {r}
      <4>1. ASSUME NEW p \in Req  PROVE p \in Pending(g, "Tarpit")' <=> p \in P \ {r}
        BY <1>3 DEF Pending, Writing
      <4> QED  BY <4>1 DEF Pending
    <3>3. Cardinality(F \cup {n}) = Cardinality(F) + 1  BY <2>2, <2>3, FS_AddElement
    <3>4. Cardinality(P \ {r}) = Cardinality(P) - 1  BY <2>2, <2>5, FS_RemoveElement
    <3>5. Cardinality(Footprints(g, "Tarpit")') = Cardinality(F) + 1  BY <3>1, <3>3
    <3>6. Cardinality(Pending(g, "Tarpit")') = Cardinality(P) - 1  BY <3>2, <3>4
    <3>7. (Cardinality(F) + 1) + (Cardinality(P) - 1) = Cardinality(F) + Cardinality(P)
      BY <2>2
    <3> QED  BY <3>5, <3>6, <3>7, <2>2
  <2>6. CASE r \notin P
    <3>1. Footprints(g, "Tarpit")' = F
      <4>1. ASSUME NEW i \in 1..n  PROVE i \in Footprints(g, "Tarpit")' <=> i \in F
        BY <1>1, <1>2, <2>4, <2>6 DEF Footprints
      <4> QED  BY <4>1, <1>1 DEF Footprints
    <3>2. Pending(g, "Tarpit")' = P
      <4>1. ASSUME NEW p \in Req  PROVE p \in Pending(g, "Tarpit")' <=> p \in P
        BY <1>3, <2>6 DEF Pending, Writing
      <4> QED  BY <4>1 DEF Pending
    <3> QED  BY <3>1, <3>2, <2>2
  <2> QED  BY <2>5, <2>6
<1> QED  BY <1>1, <1>4, <1>5, <1>6, <1>7, <1>8, <1>9 DEF IInv

\* The steps of the operator's view change nothing else.
LEMMA ViewKeeps ==
    ASSUME IInv, UNCHANGED <<strikes, blocked, ledger, req, arrivals>>,
           ViewEntries \/ ViewVerify \/ ViewBlocked \/ ViewClose
    PROVE  IInv'
<1>1. \A f, d : Pending(f, d)' = Pending(f, d) /\ Footprints(f, d)' = Footprints(f, d)
  BY DEF Pending, Footprints
<1>2. /\ BlockHasEvidence' /\ BlockedExactly' /\ ChainVerifies' /\ IsSequence(ledger)'
      /\ LedgerCountsStrikes'
  BY <1>1 DEF IInv, BlockHasEvidence, BlockedExactly, ChainVerifies, LedgerCountsStrikes, Threshold
<1>3. CASE ViewEntries
  <2>1. view'.pc = "verify" /\ view'.entries = {ledger[i].record : i \in DOMAIN ledger}
        /\ ViewFields'
    BY <1>3 DEF ViewEntries, NoView, ViewFields
  <2>2. TypeOK' /\ BlockMeansBlocked' /\ ViewCoherent'
    BY <2>1 DEF IInv, TypeOK, BlockMeansBlocked, ViewCoherent
  <2> QED  BY <1>2, <2>1, <2>2 DEF IInv
<1>4. CASE ViewVerify
  <2>1. view.pc = "verify" /\ view'.pc = "blocked" /\ view'.entries = view.entries /\ view'.valid
        /\ ViewFields'
    BY <1>4 DEF ViewVerify, IInv, ViewFields, ChainVerifies
  <2>2. TypeOK' /\ BlockMeansBlocked' /\ ViewCoherent'
    BY <2>1 DEF IInv, TypeOK, BlockMeansBlocked, ViewCoherent
  <2> QED  BY <1>2, <2>1, <2>2 DEF IInv
<1>5. CASE ViewBlocked
  <2>1. view.pc = "blocked" /\ view'.pc = "done" /\ view'.entries = view.entries
        /\ view'.valid = view.valid /\ view'.blocked = blocked /\ ViewFields'
    BY <1>5 DEF ViewBlocked, IInv, ViewFields
  <2>2. TypeOK' /\ BlockMeansBlocked' /\ ViewCoherent'
    BY <2>1 DEF IInv, TypeOK, BlockMeansBlocked, ViewCoherent
  <2> QED  BY <1>2, <2>1, <2>2 DEF IInv
<1>6. CASE ViewClose
  <2>1. view'.pc = "idle" /\ ViewFields'  BY <1>6 DEF ViewClose, NoView, ViewFields
  <2>2. TypeOK' /\ BlockMeansBlocked' /\ ViewCoherent'
    BY <2>1 DEF IInv, TypeOK, BlockMeansBlocked, ViewCoherent
  <2> QED  BY <1>2, <2>1, <2>2 DEF IInv
<1> QED  BY <1>3, <1>4, <1>5, <1>6

\* A process that starts, for the first time or again, satisfies the invariant.
LEMMA FreshKeeps ==
    ASSUME strikes = [f \in Fp |-> 0], blocked = {}, ledger = <<>>,
           req = [r \in Req |-> Idle], view = NoView, arrivals \in Nat
    PROVE  IInv
<1>0. Threshold \in Nat \ {0} /\ SimCap \in Nat
  BY PerimeterAssumption DEF Threshold
<1>1. TypeOK  BY <1>0 DEF TypeOK, Idle, At, NoView
<1>2. IsSequence(ledger)
  <2>1. <<>> \in Seq({})  OBVIOUS
  <2> QED  BY <2>1 DEF IsSequence
<1>3. BlockedExactly  BY <1>0 DEF BlockedExactly
<1>4. Len(ledger) = 0 /\ DOMAIN ledger = {}  OBVIOUS
<1>5. ChainVerifies  BY <1>4 DEF ChainVerifies, Verify
<1>6. BlockMeansBlocked /\ ViewCoherent /\ BlockHasEvidence /\ ViewFields
  BY <1>4 DEF BlockMeansBlocked, ViewCoherent, BlockHasEvidence, ViewFields, Idle, At, NoView
<1>7. LedgerCountsStrikes
  <2>1. \A f, d : Footprints(f, d) = {} /\ Pending(f, d) = {}
    BY <1>4 DEF Footprints, Pending, Idle, At
  <2>2. Cardinality({}) = 0  BY FS_EmptySet
  <2>3. \A f, d : Cardinality(Footprints(f, d)) = 0 /\ Cardinality(Pending(f, d)) = 0
    BY <2>1, <2>2
  <2> QED  BY <1>0, <2>3 DEF LedgerCountsStrikes
<1> QED  BY <1>1, <1>2, <1>3, <1>5, <1>6, <1>7 DEF IInv

LEMMA RestartKeeps ==
    ASSUME IInv, Restart
    PROVE  IInv'
<1>1. arrivals' \in Nat  BY DEF IInv, TypeOK, Restart
<1>0. Threshold \in Nat \ {0} /\ SimCap \in Nat
  BY PerimeterAssumption DEF Threshold
<1>2. TypeOK'  BY <1>0, <1>1 DEF Restart, TypeOK, Idle, At, NoView
<1>3. IsSequence(ledger)'
  <2>1. <<>> \in Seq({})  OBVIOUS
  <2> QED  BY <2>1 DEF IsSequence, Restart
<1>4. BlockedExactly'  BY <1>0 DEF BlockedExactly, Restart, Threshold
<1>5. Len(ledger') = 0 /\ DOMAIN ledger' = {}  BY DEF Restart
<1>6. ChainVerifies'  BY <1>5 DEF ChainVerifies, Verify
<1>7. BlockMeansBlocked' /\ ViewCoherent' /\ BlockHasEvidence' /\ ViewFields'
  BY <1>5 DEF BlockMeansBlocked, ViewCoherent, BlockHasEvidence, ViewFields, Idle, At, NoView,
              Restart
<1>8. LedgerCountsStrikes'
  <2>1. \A f, d : Footprints(f, d)' = {} /\ Pending(f, d)' = {}
    BY <1>5 DEF Footprints, Pending, Idle, At, Restart
  <2>2. \A f \in Fp : strikes'[f] = 0  BY DEF Restart
  <2>3. Cardinality({}) = 0  BY FS_EmptySet
  <2>4. \A f, d : Cardinality(Footprints(f, d)') = 0 /\ Cardinality(Pending(f, d)') = 0
    BY <2>1, <2>3
  <2>5. Threshold' = Threshold  BY DEF Threshold
  <2> QED  BY <1>0, <2>2, <2>4, <2>5 DEF LedgerCountsStrikes
<1> QED  BY <1>2, <1>3, <1>4, <1>6, <1>7, <1>8 DEF IInv

-----------------------------------------------------------------------------
LEMMA StepKeeps ==
    ASSUME IInv, [Next]_vars
    PROVE  IInv'
<1>0. /\ SimCap \in Nat \ {0} /\ arrivals \in Nat /\ blocked \subseteq Fp
      /\ req \in [Req -> ReqRecord]
      /\ \A r \in Req : ReqOk(req[r])
  BY PerimeterAssumption DEF IInv, TypeOK, ReqOk, ReqRecord
<1>idle. ReqOk(Idle) /\ ~Writing(Idle)
  BY <1>0 DEF ReqOk, ReqRecord, Idle, At, Writing
<1>1. ASSUME NEW r \in Req, NEW f \in Fp, Arrive(r, f)  PROVE IInv'
  <2> DEFINE q == At(IF f \in blocked THEN "drop" ELSE "handler", f, "none", 0)
  <2>1. ReqOk(q) /\ ~Writing(q) /\ ~Writing(req[r])
    BY <1>0, <1>1 DEF Arrive, ReqOk, ReqRecord, At, Writing
  <2>2. req' = [req EXCEPT ![r] = q] /\ arrivals' \in Nat
        /\ UNCHANGED <<strikes, blocked, ledger, view>>
    BY <1>0, <1>1 DEF Arrive
  <2> QED  BY <2>1, <2>2, MoveKeeps
<1>2. ASSUME NEW r \in Req, NEW f \in Fp, NEW k \in 0..SimCap + 1, Simulate(r, f, k)
      PROVE  IInv'
  <2> DEFINE q == At("sim", f, "none", Clamp(k, 1, SimCap))
  <2>1. Clamp(k, 1, SimCap) \in 1..SimCap  BY <1>0 DEF Clamp
  <2>2. ReqOk(q) /\ ~Writing(q) /\ ~Writing(req[r])
    BY <1>0, <1>2, <2>1 DEF Simulate, ReqOk, ReqRecord, At, Writing
  <2>3. req' = [req EXCEPT ![r] = q] /\ arrivals' \in Nat
        /\ UNCHANGED <<strikes, blocked, ledger, view>>
    BY <1>0, <1>2 DEF Simulate
  <2> QED  BY <2>2, <2>3, MoveKeeps
<1>3. ASSUME NEW r \in Req, Serve(r) \/ Disconnect(r)  PROVE IInv'
  <2>1. ~Writing(req[r]) /\ req' = [req EXCEPT ![r] = Idle] /\ arrivals' \in Nat
        /\ UNCHANGED <<strikes, blocked, ledger, view>>
    BY <1>0, <1>3 DEF Serve, Disconnect, Writing
  <2> QED  BY <2>1, <1>idle, MoveKeeps
<1>4. ASSUME NEW r \in Req, Refuse(r)  PROVE IInv'
  <2> DEFINE f == req[r].fp
             q == At("record", f, Decision(f), 0)
  <2>1. f \in Fp /\ ~Writing(req[r])  BY <1>0, <1>4 DEF Refuse, ReqOk, Writing
  <2>2. ReqOk(q) /\ Writing(q) /\ q.fp = f /\ q.decision = Decision(f)
    BY <1>0, <2>1 DEF ReqOk, ReqRecord, At, Writing, Decision
  <2>3. Strike(f) /\ req' = [req EXCEPT ![r] = q] /\ UNCHANGED <<ledger, view, arrivals>>
    BY <1>4 DEF Refuse
  <2> HIDE DEF q, f
  <2> QED  BY <2>1, <2>2, <2>3, StrikeKeeps
<1>5. ASSUME NEW r \in Req, SimStrike(r)  PROVE IInv'
  <2> DEFINE f == req[r].fp
             q == At("simrecord", f, Decision(f), req[r].left)
  <2>1. f \in Fp /\ ~Writing(req[r]) /\ req[r].left \in 0..SimCap /\ req[r].left > 0
    BY <1>0, <1>5 DEF SimStrike, ReqOk, ReqRecord, Writing
  <2>2. ReqOk(q) /\ Writing(q) /\ q.fp = f /\ q.decision = Decision(f)
    BY <1>0, <2>1 DEF ReqOk, ReqRecord, At, Writing, Decision
  <2>3. Strike(f) /\ req' = [req EXCEPT ![r] = q] /\ UNCHANGED <<ledger, view, arrivals>>
    BY <1>5 DEF SimStrike
  <2> HIDE DEF q, f
  <2> QED  BY <2>1, <2>2, <2>3, StrikeKeeps
<1>6. ASSUME NEW r \in Req, Drop(r)  PROVE IInv'
  <2> DEFINE d == "none"
  <2>1. ~Writing(req[r]) /\ req' = [req EXCEPT ![r] = Idle]
        /\ ledger' = Extend(ledger, Footprint(req[r].fp, "blocked_fingerprint", d))
        /\ UNCHANGED <<strikes, blocked, view, arrivals>>
        /\ (d = "Block" => req[r].fp \in blocked)
        /\ (d = "Tarpit" => Writing(req[r]))
    BY <1>6 DEF Drop, Writing
  <2> HIDE DEF d
  <2> QED  BY <2>1, <1>idle, FootprintKeeps
<1>7. ASSUME NEW r \in Req, Record(r)  PROVE IInv'
  <2>1. req[r].decision = "Block" => req[r].fp \in blocked
    BY <1>7 DEF Record, IInv, BlockMeansBlocked
  <2>2. req' = [req EXCEPT ![r] = Idle]
        /\ ledger' = Extend(ledger, Footprint(req[r].fp, "rejected", req[r].decision))
        /\ UNCHANGED <<strikes, blocked, view, arrivals>>
    BY <1>7 DEF Record
  <2>3. Writing(req[r])  BY <1>7 DEF Record, Writing
  <2> QED  BY <2>1, <2>2, <2>3, <1>idle, FootprintKeeps
<1>8. ASSUME NEW r \in Req, SimRecord(r)  PROVE IInv'
  <2> DEFINE q == IF req[r].left = 1 THEN Idle
                  ELSE At("sim", req[r].fp, "none", req[r].left - 1)
  <2>1. req[r].decision = "Block" => req[r].fp \in blocked
    BY <1>8 DEF SimRecord, IInv, BlockMeansBlocked
  <2>2. req[r].left \in 0..SimCap /\ req[r].left > 0 /\ req[r].fp \in Fp
    BY <1>0, <1>8 DEF SimRecord, ReqOk, ReqRecord
  <2>3. ReqOk(q) /\ ~Writing(q)
    <3>1. CASE req[r].left = 1  BY <3>1, <1>idle
    <3>2. CASE req[r].left # 1
      <4>1. req[r].left - 1 \in 1..SimCap  BY <1>0, <2>2, <3>2
      <4> QED  BY <1>0, <2>2, <3>2, <4>1 DEF ReqOk, ReqRecord, At, Writing
    <3> QED  BY <3>1, <3>2
  <2>4. req' = [req EXCEPT ![r] = q]
        /\ ledger' = Extend(ledger, Footprint(req[r].fp, "simulated", req[r].decision))
        /\ UNCHANGED <<strikes, blocked, view, arrivals>>
    BY <1>8 DEF SimRecord
  <2>5. Writing(req[r])  BY <1>8 DEF SimRecord, Writing
  <2> HIDE DEF q
  <2> QED  BY <2>1, <2>3, <2>4, <2>5, FootprintKeeps
<1>9. ASSUME ViewEntries \/ ViewVerify \/ ViewBlocked \/ ViewClose  PROVE IInv'
  <2>1. UNCHANGED <<strikes, blocked, ledger, req, arrivals>>
    BY <1>9 DEF ViewEntries, ViewVerify, ViewBlocked, ViewClose
  <2> QED  BY <1>9, <2>1, ViewKeeps
<1>10. CASE Restart  BY <1>10, RestartKeeps
<1>11. CASE UNCHANGED vars
  BY <1>11 DEF vars, IInv, TypeOK, IsSequence, ViewFields, BlockedExactly, BlockHasEvidence,
     LedgerCountsStrikes, Threshold, Footprints, Pending, ChainVerifies, BlockMeansBlocked,
     ViewCoherent
<1> QED
  BY <1>1, <1>2, <1>3, <1>4, <1>5, <1>6, <1>7, <1>8, <1>9, <1>10, <1>11 DEF Next

\* The inductive invariant holds in every reachable state.
THEOREM Invariance == Spec => []IInv
<1>1. Init => IInv
  <2> SUFFICES ASSUME Init  PROVE IInv  OBVIOUS
  <2> QED  BY FreshKeeps DEF Init
<1>2. IInv /\ [Next]_vars => IInv'  BY StepKeeps
<1> QED  BY <1>1, <1>2, PTL DEF Spec

\* Requests, strikes and views stay well formed (TypeOK).
THEOREM TypeCorrect == Spec => []TypeOK
BY Invariance, PTL DEF IInv

\* Whatever the number of threads, assess blocks a fingerprint at its
\* threshold-th strike and never counts beyond it (BlockedExactly).
THEOREM BlocksExactly == Spec => []BlockedExactly
BY Invariance, PTL DEF IInv

\* Every strike short of the block has its one footprint, written or about to
\* be (LedgerCountsStrikes).
THEOREM LedgerAccountsForStrikes == Spec => []LedgerCountsStrikes
BY Invariance, PTL DEF IInv

\* Nobody is blocked without evidence in the ledger (BlockHasEvidence).
THEOREM BlocksHaveEvidence == Spec => []BlockHasEvidence
BY Invariance, PTL DEF IInv

\* The operator's three reads make a coherent view (ViewCoherent).
THEOREM ViewsAreCoherent == Spec => []ViewCoherent
BY Invariance, PTL DEF IInv

\* The first element of the second part of a concatenation.
LEMMA ConcatAt ==
    ASSUME NEW S, NEW A \in Seq(S), NEW B \in Seq(S), Len(B) >= 1
    PROVE  Len(A \o B) = Len(A) + Len(B) /\ (A \o B)[Len(A) + 1] = B[1]
OBVIOUS

\* In a chain that verifies, verify notices a changed record and a missing
\* entry that has a successor.
LEMMA TamperBreaks ==
    ASSUME IsSequence(ledger), Verify(ledger)
    PROVE  TamperEvident
<1>0. Len(ledger) \in Nat /\ DOMAIN ledger = 1..Len(ledger)  BY AppendFacts
<1>1. ASSUME NEW i \in DOMAIN ledger, NEW rec, rec # ledger[i].record,
             Verify(Altered(ledger, i, rec))
      PROVE  FALSE
  <2> DEFINE a == Altered(ledger, i, rec)
  <2>1. Len(a) = Len(ledger)
    <3>1. PICK S : ledger \in Seq(S)  BY DEF IsSequence
    <3>2. a \in Seq(S \cup {[ledger[i] EXCEPT !.record = rec]})
      BY <3>1 DEF Altered
    <3>3. DOMAIN a = 1..Len(ledger)  BY <1>0 DEF Altered
    <3> QED  BY <3>2, <3>3, <1>0
  <2>2. EntryValid(ledger, i) /\ EntryValid(a, i)  BY <1>0, <1>1, <2>1 DEF Verify
  <2>3. a[i] = [ledger[i] EXCEPT !.record = rec]  BY DEF Altered
  <2> QED  BY <1>1, <2>2, <2>3 DEF EntryValid, EntryHash
<1>2. ASSUME NEW i \in DOMAIN ledger, i < Len(ledger), Verify(Without(ledger, i))
      PROVE  FALSE
  <2> DEFINE w == Without(ledger, i)
  <2>1. PICK S : ledger \in Seq(S)  BY DEF IsSequence
  <2>2. i \in Nat /\ 1 <= i /\ i + 1 <= Len(ledger)  BY <1>0, <1>2
  <2>3. /\ SubSeq(ledger, 1, i - 1) \in Seq(S) /\ Len(SubSeq(ledger, 1, i - 1)) = i - 1
        /\ SubSeq(ledger, i + 1, Len(ledger)) \in Seq(S)
        /\ Len(SubSeq(ledger, i + 1, Len(ledger))) = Len(ledger) - i
        /\ SubSeq(ledger, i + 1, Len(ledger))[1] = ledger[i + 1]
    BY <2>1, <2>2, <1>0
  <2>4. Len(w) = Len(ledger) - 1 /\ w[i] = ledger[i + 1]
    <3> DEFINE A == SubSeq(ledger, 1, i - 1)
               B == SubSeq(ledger, i + 1, Len(ledger))
    <3>1. w = A \o B  BY DEF Without
    <3>2. /\ A \in Seq(S) /\ B \in Seq(S) /\ Len(A) = i - 1 /\ Len(B) = Len(ledger) - i
          /\ B[1] = ledger[i + 1] /\ Len(B) >= 1
      BY <2>2, <2>3, <1>0
    <3> HIDE DEF A, B, w
    <3>3. Len(A \o B) = Len(A) + Len(B) /\ (A \o B)[Len(A) + 1] = B[1]
      BY <3>2, ConcatAt
    <3> QED  BY <3>1, <3>2, <3>3, <2>2, <1>0
  <2>5. EntryValid(w, i) /\ EntryValid(ledger, i + 1)  BY <1>0, <1>2, <2>2, <2>4 DEF Verify
  <2>6. ledger[i + 1].seq = i - 1 /\ ledger[i + 1].seq = i
    BY <2>2, <2>4, <2>5 DEF EntryValid
  <2> QED  BY <2>2, <2>6
<1>3. ASSUME NEW i \in DOMAIN ledger, NEW f \in Fp, NEW d \in {"none", "Tarpit", "Block"},
             Footprint(f, ledger[i].record.class, d) # ledger[i].record
      PROVE  ~Verify(Altered(ledger, i, Footprint(f, ledger[i].record.class, d)))
  <2> DEFINE rec == Footprint(f, ledger[i].record.class, d)
  <2>1. rec # ledger[i].record  BY <1>3
  <2> HIDE DEF rec
  <2>2. ~Verify(Altered(ledger, i, rec))  BY <2>1, <1>1
  <2> QED  BY <2>2 DEF rec
<1>4. ASSUME NEW i \in DOMAIN ledger, i < Len(ledger)  PROVE ~Verify(Without(ledger, i))
  BY <1>2, <1>4
<1> QED  BY <1>3, <1>4, Zenon DEF TamperEvident

\* The ledger's chain verifies at every moment (ChainVerifies).
THEOREM ChainAlwaysVerifies == Spec => []ChainVerifies
BY Invariance, PTL DEF IInv

\* And no edit, nor a removal short of the last entry, goes unnoticed by verify
\* (TamperEvident).
THEOREM TamperingShows == Spec => []TamperEvident
<1>1. IInv => TamperEvident  BY TamperBreaks DEF IInv, ChainVerifies
<1> QED  BY <1>1, Invariance, PTL
=============================================================================
