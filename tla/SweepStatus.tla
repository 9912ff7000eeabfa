---------------------------- MODULE SweepStatus ----------------------------
(***************************************************************************)
(* The repair sweep's rounds and the status the operator's console shows,  *)
(* on top of BlobLifecycle: a round counts what its repairs report and     *)
(* publishes the counts when it is done; repairs that degraded reads have  *)
(* started add theirs under the same lock. Of the counters, the two that   *)
(* tell an operator something about the blobs are kept: shards repaired so *)
(* far, and blobs the last round could not repair.                         *)
(***************************************************************************)
EXTENDS BlobLifecycle, Functions

CONSTANT ListFaulty   \* sweeps whose list_blobs may fail

ASSUME ListFaultyAssumption == ListFaulty \subseteq Sweeper

\* Finitely many requests and sweeps, and a sweep is not a request.
ASSUME TasksAssumption ==
    IsFiniteSet(Client) /\ IsFiniteSet(Sweeper) /\ Client \cap Sweeper = {}

VARIABLES
    round,      \* Sweeper -> the counts of the round it is in
    status,     \* the shared SweepStatus
    reactive,   \* clients whose repair was started by a degraded read
    healed      \* history: shards that repairs made good on their anchor

counts == <<round, status>>
svars == <<vars, counts, reactive, healed>>

NoRound == [on |-> FALSE, repaired |-> 0, unrepairable |-> 0]

SInit ==
    /\ Init
    /\ round = [s \in Sweeper |-> NoRound]
    /\ status = [last_unrepairable |-> 0, total_repaired |-> 0]
    /\ reactive = {} /\ healed = 0

-----------------------------------------------------------------------------
Ends(t) == task'[t] = Idle

\* Mutant: reactive repairs are not added to the total.
ReportedApart(t, repaired, unrepairable) ==
    /\ round' = IF t \in Sweeper
                THEN [round EXCEPT ![t].repaired = @ + repaired,
                                   ![t].unrepairable = @ + unrepairable]
                ELSE round
    /\ UNCHANGED status

\* A repair has returned its report to whoever started it. (The one asked for
\* by the repair route only goes back to its caller.)
Reported(t, repaired, unrepairable) ==
    /\ round' = IF t \in Sweeper
                THEN [round EXCEPT ![t].repaired = @ + repaired,
                                   ![t].unrepairable = @ + unrepairable]
                ELSE round
    /\ status' = IF t \in reactive
                 THEN [status EXCEPT !.total_repaired = @ + repaired] ELSE status

\* A bad shard is rewritten, the last one ends the repair.
Mend(t) ==
    /\ \E i \in Shard : Rewrite(t, i) \/ \E p \in Node : ReReplicate(t, i, p)
    /\ IF Ends(t) THEN Reported(t, Cardinality(task[t].bad), 0) ELSE UNCHANGED counts
    /\ healed' = IF At(t, "rewrite") /\ store' # store THEN healed + 1 ELSE healed

\* Peers are asked for more shards; too few make the blob unrepairable.
Borrow(t) ==
    /\ \E i \in Shard : Backfill(t, i)
    /\ IF Ends(t) THEN Reported(t, 0, 1) ELSE UNCHANGED counts
    /\ UNCHANGED healed

\* Every other step of a request or a repair. A repair that finds nothing bad,
\* or no manifest, has nothing to add.
Proceed(t) ==
    /\ \/ PutStep(t) \/ GetStep(t) \/ DeleteStep(t) \/ NameStep(t)
       \/ RepManifest(t) \/ \E i \in Shard : Classify(t, i)
    /\ UNCHANGED <<counts, healed>>

\* A round starts with the list of blobs; a list that fails counts as empty.
RoundStart(s) ==
    /\ ~round[s].on
    /\ SweepList(s)
    /\ round' = [round EXCEPT ![s].on = TRUE]
    /\ UNCHANGED <<status, healed>>

RoundStartBlind(s) ==
    /\ ~round[s].on /\ s \in ListFaulty
    /\ round' = [round EXCEPT ![s].on = TRUE]
    /\ UNCHANGED <<vars, status, healed>>

RoundVisit(s) ==
    /\ \E b \in Blob : SweepNext(s, b)
    /\ UNCHANGED <<counts, healed>>

\* Mutant: what cannot be repaired is left out.
RoundEndRepaired(s) ==
    /\ round[s].on /\ At(s, "idle") /\ queue[s] = {}
    /\ status' = [status EXCEPT !.total_repaired = @ + round[s].repaired]
    /\ round' = [round EXCEPT ![s] = NoRound]
    /\ UNCHANGED <<vars, healed>>

\* The round is published.
RoundEnd(s) ==
    /\ round[s].on /\ At(s, "idle") /\ queue[s] = {}
    /\ status' = [status EXCEPT !.last_unrepairable = round[s].unrepairable,
                                !.total_repaired = @ + round[s].repaired]
    /\ round' = [round EXCEPT ![s] = NoRound]
    /\ UNCHANGED <<vars, healed>>

\* The sweep's own steps.
Sweeps(s) ==
    RoundStart(s) \/ RoundStartBlind(s) \/ RoundVisit(s) \/ RoundEnd(s)
    \/ Proceed(s) \/ Mend(s) \/ Borrow(s)

\* Whose repairs are reactive.
Track == reactive' = {t \in Client : task'[t].op = "repair"
                                       /\ (t \in reactive \/ task[t].op = "get")}

SNext ==
    /\ \/ \E t \in Client :
            \/ (StartRequest(t) /\ UNCHANGED <<counts, healed>>)
            \/ Proceed(t) \/ Mend(t) \/ Borrow(t)
       \/ \E s \in Sweeper : Sweeps(s)
       \/ (Environment /\ UNCHANGED <<counts, healed>>)
    /\ Track

SSpec == SInit /\ [][SNext]_svars

\* The sweep's task goes on for as long as its process does, and its list does
\* not fail for ever. Requests are not assumed to progress.
SFairSpec ==
    /\ SSpec
    /\ \A s \in Sweeper :
        WF_svars(Sweeps(s) /\ Track) /\ SF_svars(RoundStart(s) /\ Track)

-----------------------------------------------------------------------------
(* Properties. *)

\* The shards a repair in progress has rewritten.
Rewritten(t) ==
    IF task[t].pc \in {"rewrite", "reReplicate"}
    THEN Cardinality(task[t].bad \ task[t].todo)
         + (IF task[t].pc = "reReplicate" THEN 1 ELSE 0)
    ELSE 0

\* The counts are complete: every shard that was made good is in the published
\* total, in the round that is under way, or in a repair that has not returned.
\* (Repairs that fail half-way, and those of the repair route, never report;
\* there are none in this run.)
HealsAreCounted ==
    "repair" \in Ops \/ Faulty # {} \/
    healed <= status.total_repaired
              + SumFunctionOnSet([s \in Sweeper |-> round[s].repaired], Sweeper)
              + SumFunctionOnSet([t \in Task |-> Rewritten(t)], Task)

\* "An operator can see": a blob with fewer than k intact shards shows up as
\* unrepairable in the status, unless it is deleted or made good first.
UnrepairableShows ==
    \A b \in Blob :
        (manifests[b] # None /\ Cardinality(Intact(b)) < K)
        ~> \/ status.last_unrepairable > 0
           \/ b \in erased
           \/ Cardinality(Intact(b)) >= K
=============================================================================
