# A TLA+ verification of VaultMesh

VaultMesh stores client-encrypted backups. A *node-agent* splits a ciphertext
into `n` erasure-coded shards of which any `k` give it back, writes them to an
*anchor* (a directory or an S3 bucket), replicates them to peer node-agents, and
records a *manifest* with the *coordinator*. Restores verify every shard by its
SHA-256; repairs and a periodic sweep rebuild what is lost; a contract per app
sets a quota, a retention hold and how many versions of a file to keep.

This directory holds TLA+ models of that program, translated from its Rust
source, the TLC configurations that check them on small instances, and TLAPS
proofs that carry the main results to every instance. `PROJECT.json` maps each
definition to the source lines it stands for.

    tlc -workers 2 -config bucket.cfg MCBlobLifecycle   # model-check a run
    tlapm BlobLifecycleProofs.tla                       # check the proofs

## 1. Inventory

| Component | State | Operations | Correct when |
|---|---|---|---|
| `PutBackup` (`vault-app/put_backup.rs`) | none of its own | authorize, quota check, shard loop (anchor, then peers), manifest, acknowledge | a listed blob is complete; an acknowledged one stays listed; the quota holds |
| `GetBackup` (`get_backup.rs`, route in `node-agent/routes.rs`) | collected shards | per shard: peers first, anchor as fallback, hash check; decode; degraded reads start a repair | original bytes or an error; works with up to `n - k` shards lost |
| `DeleteBackup` (`delete_backup.rs`) | – | hold check, remove shards, remove manifest | the hold is respected; afterwards nothing is listed or stored |
| `RepairShards` (`repair_shards.rs`) | valid and bad shards seen | classify, backfill from peers, re-encode, rewrite, re-replicate | only original bytes are written; any blob with `k` shards becomes whole |
| Repair sweep (`node-agent/main.rs`) | blobs listed, counters | list, repair one after the other, for ever | every damaged blob is eventually visited |
| `PruneVersions` (`prune_versions.rs`) | manifests collected | list, read each, rank, remove the losers | the newest `keep_versions` survive, older ones go, never under a hold |
| `set_manifest_name` (`coordinator/meta.rs`) | – | read, change, write back | changes the name and tag only |
| Metadata store (`adapter-memstore`, `remote_meta.rs`) | contracts, namespaces, manifests, in memory | one lock per call | – |
| Anchors (`adapter-blob-fs`, `adapter-rustfs`, `presigned_anchor.rs`) | shards | put, get, delete_blob | a shard is whole or absent |
| Erasure coders (`adapter-reed-solomon`, `adapter-local`) and the SDK's envelope (`adapter-crypto`, `vault-client`) | – | seal, split, pad, encode, decode, truncate, open | decode inverts encode from any `k`, for every length; a repair re-creates the shards that were put |
| Capabilities (`issue_capability.rs`, `guard.rs`, `adapter-crypto`) | signing key, each node's copy of the public key | issue, verify, authorize | only unexpired tokens of the owner pass |
| Perimeter (`adapter-perimeter`, `coordinator/perimeter.rs`) | strikes, blocklist, hash-chained ledger | check, assess, record | every rejection is recorded; blocked stays blocked |
| Remote adapters (`remote_meta.rs`, `presigned_anchor.rs`, `adapter-peer-http`, `adapter-quic`) and their servers | connections, URLs that expire | every port call, hop by hop | a call that reports success was carried out; one that fails is carried out at most once |
| Client SDK (`vault-client`) | – | put, get, list, delete | its answers can be relied on |
| Sweep status (`SweepStatus`, `/v1/maintenance/status`) | counters of the last round and in total | count, publish, read | healed shards are counted, unrepairable blobs show |
| Usage report, CA, TLS, DDNS, console, CORS | – | – | not stateful protocol logic |

Interaction. All use-cases run in node-agents (tokio tasks, many at once, on
several nodes) and share the coordinator's metadata over HTTP and the anchors.
Nothing locks across calls: each metadata call and each shard access is atomic by
itself, and every `await` is a point where other requests run, where the call may
fail, and where a client may disconnect (which drops the handler). The hard
behaviours are therefore check-then-act across awaits, partial failure of a
multi-step use-case, answers lost by peers, corrupted shards, the clock between a
check and its use, and the sweep's progress. `PROJECT.json` lists them as hazards,
each at its line, with the properties that would catch it going wrong.

## 2. Modules

    Domain            pure rules: threshold, hold, quota, clamp
      BlobLifecycle   put, get, delete, repair, sweep, rename over anchors and manifests
        MCBlobLifecycle
        SweepStatus   the sweep's rounds and the operator's counters, composed with it
          MCSweepStatus, BlobLifecycleProofs (for both)
      Quota           the quota check among concurrent puts and renames
        MCQuota, QuotaProofs
      Versions        prune beside puts, deletes, renames and other prunes
        MCVersions, VersionsProofs
      Capability      registration, namespaces, tokens and the guard, across restarts
        MCCapability, CapabilityProofs
      Perimeter       request guard, strikes and blocklist, hash-chained ledger
        MCPerimeter, PerimeterProofs
      Erasure         from plaintext to shards and back, with any parameters a contract carries
        MCErasure, ErasureProofs
    FsAnchor          put_shard and delete_blob at the level of files
        MCFsAnchor, FsAnchorProofs
    StorePort         what the storage ports promise (abstract)
      Calls           the adapters and servers behind them, hop by hop (refines StorePort)
        MCCalls, CallsProofs

### BlobLifecycle

`manifests` is the coordinator's map, `store[anchor][blob][shard]` the anchors,
`task` the local variables of each request (`pc` names the await it stands at),
`queue` the sweep's list. A copy of a shard is `none`, `ok` (its hash is the
manifest's) or `bad` (any other bytes). Everything else about the bytes is
abstracted: `Decode` returns the original exactly when no wrong bytes go in.

One action per await: `PutShard`, `Replicate` (which may fail, store with the
answer lost, or succeed), `PutManifest`, `PutReply`; `GetManifest`,
`LoadFromPeer`, `LoadFromAnchor`, `GetDecode`, `GetReply` (a degraded read turns
into a repair, as the route spawns one); `DelCheck`, `DelList`, `DelShard`,
`DelManifest`, `DelReply`; `RepManifest`, `Classify`, `Backfill`, `Rewrite`,
`ReReplicate`; `SweepList`, `SweepNext`; `NameGet`, `NamePut`. `Fail` ends any
request at any await: backend error, dropped connection or crash. `Damage` loses
or corrupts a stored copy. `AnchorOf` and `Peers` give the deployment: a shared
bucket without a mesh, or a directory per node with replication.

The remaining variables (`home`, `born`, `damaged`, `acked`, `erased`, `gone`)
are history for the properties.

### SweepStatus

Composes BlobLifecycle with what `spawn_repair_sweep` and the `get_backup` route do
with the reports of repairs. A round lists the blobs (`RoundStart`; a list that fails
counts as empty, `RoundStartBlind`), visits them one by one (`RoundVisit`), adds up
what their repairs report (`Mend`, `Borrow`) and publishes (`RoundEnd`). A repair
that a degraded read started adds to the same total under the same lock. `healed`
is history: the shards that rewrites made good.

### Erasure

Bytes are numbers, blobs sequences of them. `Put`, `Get` and `Repair` are one step
each (their interleavings are BlobLifecycle's): seal with the namespace's key and a
nonce, split into `k` slices of equal size, pad the last, compute parity, hash;
collect, check the hashes, decode, join, truncate to `ciphertext_len`, open. A parity
shard stands for the data shards it was computed from (the Reed-Solomon library is
used by its contract), and a hash for the bytes it is of. `Register` takes any pair
of parameters, as the code does: serde fills `ErasureParams` without calling `new`.
`Damage` loses, truncates or swaps shards.

### StorePort and Calls

`StorePort` is the abstract specification of the storage ports: a call that
returns has taken effect on every key it names; a read saw the store at one moment of
the call; a call that fails may have taken effect in part, and what it left with a
server may still happen later, once; a store in memory may forget.

`Calls` has the adapters. A caller is a request of the SDK, with the sequence of port
calls its use-case makes (`PutPlan`, `GetPlan`, `DeletePlan`, `ListPlan`), or a call
the node-agent makes by itself. One action per hop: `Send`; `ServeMeta`, `Presign`,
`ServeS3`, `ListPrefix`, `DeleteObject`, `ServePeer`, `ServeQuic`; `ReceiveMeta`,
`ReceiveS3`, `ReceivePeer`, `ReceiveQuic` (which turn a status and a body, complete or
broken off, into a `PortError`); `Reply` (the route's status, and what the SDK makes of
it). `Lose` loses a request or its answer, `HangUp` drops the handler of a client that
went away; a write left with a server is served later or never (`ServeLate`);
`Restart` empties the coordinator; `Tick` lets URLs expire. The QUIC frames are byte
sequences, encoded and parsed as `wire.rs` does, under its limit of bytes per stream.

### Quota

`len` is the published length of each blob, `put` the request of each client.
`Check` reads the usage (`namespace_usage` counts published manifests), decides
and takes an id; `Publish` comes later. `NameGet`/`NamePut` are there because
`set_manifest_name` can bring a deleted manifest, and its bytes, back.

### Versions

Manifests carry their stamp and object id; the shards of a blob are one Boolean
(their removal in parts is in BlobLifecycle). `PruneList`, `PruneGet` (one
manifest per await), `PruneDecide`, `DropShards`, `DropManifest`, `Report`.
Versions with equal stamps are ranked in any order: the code sorts stably over the
iteration order of a hash map, and that order changes when the map grows.

### Capability

`life` counts the coordinator's lives: its signing key is as old as its memory,
and a `Restart` replaces the one and empties the other (`contracts`, `owner`).
`StartCreate`/`Create` and `StartIssue`/`Issue` are the two halves of
`CreateNamespace` and `IssueCapability` around their await. A node-agent fetches
the public key when it starts (`Fetch`, `FetchFails`) and keeps it until it stops.
`guard::authorize` is `UseCheck` (signature, freshness, scope: all local) and, after
the await, `UseOwner` (asked of whichever coordinator lives by then). A signature
verifies against the key that made it and no other. The nonce of a token is
carried but checked nowhere in the code, so it is left out.

### Perimeter

`strikes` and `blocked` are the responder's, `ledger` the sink's; `req` is where
each request of the middleware stands, `view` the operator reading
`/v1/admin/intrusions`. `Arrive` asks `is_blocked` once; `Refuse` strikes, and
`Record` writes the footprint in a step of its own, because the two take different
locks. `Simulate`, `SimStrike`, `SimRecord` are the drill, a handler of the same
guard. The view takes three locks one after the other: three actions. A digest is
the tuple of what it digests, so equal digests mean equal contents. Status codes,
paths and times of a record are left out; its class stands for them.

### FsAnchor

Names (`path`, `tmp`), inodes (`data`, the chunks they hold) and open files
(`writer[w].fd`). `Open` creates or truncates the one temporary name that all
writers of a shard share; `Write` goes to the inode that was opened, whatever its
name is by then; `Rename` moves whatever the temporary name refers to. Deletes
unlink what they saw and remove the directory if it is empty. `Fail` and `Crash`
leave the files as they are. Power loss (no fsync) is not modelled.

## 3. Runs

| Run | Shows | Bounds |
|---|---|---|
| `bucket` | `ManifestIsTrue`, `AckedIsListed`, `OriginalBytesOnly`, `RestorableWithinParity`, `HoldRespected`, `DeleteSettles` | one bucket, 2-of-3, one blob, two concurrent requests of all five kinds, both may fail anywhere, two damaged copies, hold of one tick |
| `mesh` | `ManifestIsTrue`, `OriginalBytesOnly`, `RestorableWithinParity` | two nodes with their own anchors, 1-of-2, n1 replicates to n2, two requests, two damaged copies |
| `sweep` | `HealsAreCounted`, `SweepHeals`, `UnrepairableShows` | one sweep whose list may fail, 2-of-3, two blobs, two damaged copies, a client that puts and gets (degraded reads start repairs of their own) |
| `quota` | `ObjectOvershoot`, `ByteOvershoot` | three requests, five ids, uploads of 1 and 3 bytes, quota 4 bytes and 2 objects |
| `versions` | `TypeOK`, `NewestKept`, `PruneCaps`, `HoldRespected` | three versions of a file with distinct stamps, two requests that may fail, `keep_versions` 1, hold of two ticks |
| `tokens` | `IssuedToOwner`, `AdmittedByIssuer`, `AdmittedWithinTtl`, `SoundTokenAdmitted` | two apps, two namespaces, two operations, two clients, one node-agent that starts and stops, two lives of the coordinator, one token, lifetimes asked 0 to 3 with a limit of 2, three ticks |
| `perimeter` | `BlockedExactly`, `LedgerCountsStrikes`, `BlockHasEvidence`, `TamperEvident`, `ViewCoherent` | two concurrent requests of two fingerprints, four arrivals, threshold 2, drills of up to two strikes, any number of restarts |
| `calls` | `TypeOK`, `RefusedMeansUndone`, `AckedPutStands`, `NotFoundIsFinal`, and `PortKept`: Calls implements StorePort | two concurrent callers, one blob of two shards in the bucket and one replica, two requests or calls, URLs that live one tick of two, one coordinator restart, frames up to five bytes with one-byte keys |
| `erasure` | `TypeOK`, `RestoredIsOriginal`, `AnyKRestore`, `RepairIsExact`, `UniformShards`, `OpensWithOwnKeyOnly` | both coders, every `k` and `n` from 0 to 3, sealed and raw uploads of 0 to 6 bytes, two namespaces, any damage, contracts that change between put and repair |
| `fs` | `AtomicAlone`, `SettledWhole` | two writers of one shard, one delete, three chunks, failures and crashes at every call |

Why these bounds are enough to be interesting: two requests give every pairwise
race, and a third actor (damage, failure, the clock) is always present; 2-of-3 is
the smallest code in which "exactly k", "one more" and "one less" differ and a
lost and a corrupt shard can coexist; a hold of one tick separates before, at and
after; two objects of quota and three requests let the overshoot reach its bound;
three versions with `keep_versions` 1 leave one kept and two losers; a lifetime
limit of 2 within three ticks lets a token be fresh, expire and be asked for beyond
the limit; with a threshold of 2 and four arrivals a fingerprint can be tarpitted,
blocked by one request while another is in its handler, and dropped; with `k` up to 3
and lengths up to 6 a blob is empty, shorter than `k`, a multiple of it and one off
either way; two callers and one restart let a late write of one life meet a read of
the next; a frame limit of five bytes makes one of two payloads too long to send, though it
would fit an answer.
Deadlock is checked in every run but `calls`, whose requests are bounded and which
stops when they are used up. Symmetry over clients, blobs and inodes is used in
safety runs only.

What the main properties say:

- `ManifestIsTrue`: from publication until a delete starts, every copy the
  manifest claims (all shards on the anchor, replicas on the recorded peers) is
  intact unless it was itself damaged.
- `RestorableWithinParity`: a read through the blob's anchor finds `k` valid
  shards unless damage and read errors hit more than `n - k` of them, whatever
  the peers do. Through another node with an anchor of its own there is no such
  guarantee, and the property says so.
- `HoldRespected`: no step but damage removes a shard before the hold, counted
  from the blob's creation, has elapsed.
- `DeleteSettles`: what an acknowledged delete is worth. The requests that had the
  blob's manifest before (a put, a rename, a repair) may still relist it or write its
  shards, see below. Once they have ended nothing does: a read under way starts a
  repair that asks for the manifest anew, a sweep that listed the blob too.
- `SweepHeals`: a listed blob with `k` intact shards becomes whole, unless it is
  deleted or damaged below `k`. `UnrepairableShows`: one with fewer is in the published
  count of unrepairable blobs sooner or later, although rounds whose list failed
  publish zero. `HealsAreCounted`: every shard made good is in the total, in the
  round under way, or in a repair that has not returned.
- `ObjectOvershoot`, `ByteOvershoot`: the quota is exceeded by no more than the
  other requests in flight can add.
- `NewestKept`, `PruneCaps`: prunes remove only versions that have
  `keep_versions` surviving ones at least as new, and remove all others they saw.
- `AdmittedByIssuer`: a node-agent keeps the key of a coordinator that is gone, and
  still never admits a token of it, because the owner is asked of the present one,
  which has forgotten the namespace. The argument rests on key and metadata being
  lost together: metadata that outlived the key would break it.
- `SoundTokenAdmitted`: the converse. A token used on its own terms at a node with
  the right key is refused only if the coordinator has restarted.
- `BlockedExactly`, `LedgerCountsStrikes`, `BlockHasEvidence`: blocklist, counter and
  ledger agree although no lock spans them: a strike is in the ledger exactly once or
  its request is about to write it.
- `TamperEvident`: `verify` notices a changed record anywhere and a removed entry
  that has a successor. Cutting off the newest entries leaves a valid chain, and the
  property does not claim otherwise.
- `PortKept`: the refinement. The mapping gives StorePort the port call each caller is
  in (`PortCall`), whichever hop it stands at; stores, results and late writes map to
  themselves. A read through a presigned URL is `vague`: it may report a stored shard as
  missing, because an expired URL is refused with 403 and 403 is read as "not found".
- `RefusedMeansUndone`, `AckedPutStands`, `NotFoundIsFinal`: what an app may conclude
  from the SDK's answer. A 4xx means no write of the manifest was sent; a put reported
  done stays until a delete is sent; a 404 for an id the app was given means a delete
  or a restarted coordinator.
- `RestoredIsOriginal`, `AnyKRestore`, `RepairIsExact`: a get answers the bytes put or
  an error whatever parameters were accepted; with valid ones it succeeds exactly
  when `k` shards are what was put, and then a repair leaves every shard as it was
  put. Both go by the manifest's parameters, not by the contract's, which may have
  changed since.
- `AtomicAlone`, `SettledWhole`: a shard file is whole or absent, at every moment
  while no two puts of the shard overlap, and at rest however they overlap.

Fairness. `SFairSpec` assumes weak fairness of each sweep's own steps: the sweep
is a loop in a task of its own that the runtime keeps polling, and it awaits the
repair it has started. It assumes strong fairness of a list that succeeds: rounds
come again and again, and a list that failed in every one of them would never show
the sweep a blob. Repairs do not fail in this run (a failed one is retried in the
next round; one that fails for ever heals nothing). Nothing is assumed of clients.

### Disagreements

Two are runs that TLC must find violated; `PROJECT.json` quotes the sentences of
the repository they contradict.

| Run | Property | What happens |
|---|---|---|
| `prune_ghost` | `PruneLeavesRestorable` | a half-failed delete leaves a manifest without shards, which a prune keeps in place of the last restorable version |
| `erasure_params` | `AcceptedIsRestorable` | a contract with `k = 1, n = 0` is accepted, a put under it is acknowledged, and the blob can never be restored |

The models show more, which have no run of their own:

- Two puts are admitted on the same usage, so a quota is exceeded
  (`docs/CONTRACT-LIFECYCLE.md:120`). `ObjectOvershoot` and `ByteOvershoot` bound it.
- A rename in flight puts a deleted manifest back (`tests/e2e.rs:186` expects a
  delete to unlist), and a repair that classified shards before a delete writes one
  back after it. `DeleteSettles` says when this ends.
- A delete reaches the anchor of the node it is sent to and never the replicas on
  peers (`vault-proto/src/data.rs:38`); nothing removes them later.
- The SDK's `delete` parses the empty body of a success as JSON and reports an
  encoding error (`docs/CONTRACT.md:66`). In `Calls` no delete ends in "ok", and
  `RefusedMeansUndone` still holds: the error is not a 4xx.
- Two versions stamped in the same millisecond (`SameTick = TRUE` in `versions.cfg`)
  can both be lost to two prunes that rank them differently, since the ranking of
  equal stamps follows the hash map's order.
- Two overlapping writers of one shard share its temporary file, and expose a
  partial shard under its final name until the second has finished: `AtomicAlone`
  and `SettledWhole` say when this cannot happen.
- A rename without an object id writes away the one a concurrent rename set.

## 4. Proofs

All proofs hold for every value of the constants that satisfies the named
assumptions, which TLC evaluates in the runs.

**BlobLifecycleProofs** (from `ParamsAssumption`: `1 <= K <= N`;
`TopologyAssumption`; `NoneAssumption`): `TypeCorrect`, `ManifestsAreTrue`,
`AckedStaysListed`, `BytesAreOriginal`, `RestoreWithinParity`, `HoldIsRespected`,
`DeletesSettle`, all from `Invariance`, the inductive invariant `IInv`. The properties alone are not
inductive: they say nothing of requests in progress. `IInv` adds, for each blob,
that an unused id has no copies, manifest or history and that manifests carry the
stamp of the blob's birth; and for each request what it may rely on at its await:
a put has written the shards behind its loop and owns an id nobody else knows; a
read's collected shards are verified ones, and every shard it has passed without
collecting was damaged or failed to load; a repair's collected shards are verified,
so what it rewrites is the original; a delete past its check has an elapsed hold;
a rename holds a manifest of this blob. Most steps change one task and leave the
shared state *stable* (`StableFor`): copies only get better until a delete starts.
One lemma carries all other tasks across such steps; then there is one lemma per
action. `RestoreWithinParity` adds the counting argument `ParityBudget`: shards
not collected are within the hit ones, so at most `n - k`. `DeletesSettle` adds
`SettleInv` (the label of a request goes with the await it stands at, and a deleted
blob's id was handed out before) and shows of every action that a task which could
not bring an unlisted blob back still cannot (`Turns`), and that only a task which
can lists it or writes its shards (`TaskEffects`).

The same module proves SweepStatus (with `TasksAssumption`: finitely many requests and
sweeps, and no sweep is a request). `RoundsImplement`: it implements BlobLifecycle, each
step being one of its steps or leaving its state alone, so the theorems above hold while
rounds are counted and published. `HealsAreReported`: `HealsAreCounted`, for any number of
sweeps and requests. Its invariant `SInv` adds to `IInv` and `SettleInv` that a repair's
list of shards still to rewrite is part of what it classified as bad (so the last one
closes the count), and that a client's repair was started by a degraded read (so it
reports to the total). Each step then moves shards between the terms of the sum: a rewrite
adds one to the repair's own, a report takes all of them to the round or the total, the
end of a round takes the round's to the total (`CountsKept`). As in the run, the statement
is about repairs that do not fail half-way and do not come from the repair route: those
never report.

**QuotaProofs** (from `QuotaAssumption`): `OvershootIsBounded`, for any number of
requests `P`: at most `P - 1` objects beyond `max_objects`. The invariant counts
what is listed, what a rename holds and could bring back, and what admitted puts
will add: `|Listed \cup Held| + |Writing| <= MaxObjects + P - 1`. The check reads
`|Listed| < MaxObjects`, and held and writing requests are at most the other
`P - 1`. `BytesOvershootIsBounded`: the same for bytes, beyond `max_bytes` by at most
`P - 1` of the largest uploads, if `MaxBytes < U64Max`. The hypothesis is needed: with
`max_bytes = u64::MAX` the saturating addition of the check admits every upload. The
invariant (`ByteInv`) gives every blob id the one length it ever has and sums it over all
that is listed or will be without a further check (`Reach`). Only the check lets this set
grow; at that moment what is listed fits together with the new upload, and the rest is
held by at most `P - 1` other requests.

Both this bound and `HealsAreReported` are about sums. What they need of them (any element
may be taken first, `SumTake`; the sum depends on the values in the set only, `SumExt`;
monotonicity and bounds) is proved by the smallest counterexample: the subsets of a finite
set are well-founded (`WFMin` of the library, which needs no operator parameter), so a set
of subsets on which a claim fails has a smallest member (`Smallest`), and taking one
element out of that one refutes it. The first of these facts, `SumUnfolds`, is that the
library's sum satisfies its own recursive equation. The two modules share no ancestor but
the library, so each has these lemmas.

**FsAnchorProofs** (from `FsAssumption`): `AtomicWhenAlone`, for every shard size,
with failures, crashes and deletes: as long as puts do not overlap, the file being
written is never the one under the final name, and what is renamed is whole.
`SettlesWhole`, for any number of writers, if none is broken off: an inode with a
name is whole, or some writer at work will still write every chunk it misses; the
last one to truncate it is that writer.

**CapabilityProofs** (from `CapabilityAssumption`): `TokensGoToOwners`,
`OnlyIssuerAdmits`, `AdmissionIsFresh`, `SoundTokensPass`, for any number of lives.
The invariant adds what requests may rely on at their await (`ReqInv`: a request to
sign still has its owner recorded, a request past the guard's first half carries a
token that passed it), that every recorded owner is a registered app
(`OwnersKnown`), and that tokens keep to the lifetime limit and those of earlier
lives name namespaces nobody owns any more (`TokensKnown`): ids are never handed out
twice, so a forgotten namespace stays forgotten.

**PerimeterProofs** (from `PerimeterAssumption`): all properties of the
`perimeter` run, and that the chain verifies at every moment, for every threshold, any number of requests and a ledger of any
length. The invariant adds that a request or an entry that says "Block" is about a
fingerprint on the blocklist, and so is a footprint an unfinished view has read
(`BlockMeansBlocked`); the rest is shape (`ViewFields`, `IsSequence`).
`LedgerAccountsForStrikes` counts: a strike adds one to the pending requests, a
record moves one from the requests to the ledger. `TamperingShows` needs no more
than that each entry commits to its position and its predecessor.

**VersionsProofs** (from `VersionsAssumption`): `HoldIsRespected` in general;
`NewestAreKept` if no two versions have the same stamp (`~SameTick`) and no blob is
named as a version of two files (`OneObject`); `PruneIsCapped` if a blob is always named
with the same object id (`SameTag`). Each hypothesis is needed, and TLC shows a
counterexample without it: equal stamps are ranked in any order, so two prunes can each
keep the version the other removes; a version renamed into another file counts for the
old one no longer; one renamed after it was listed is passed over by the prune that
listed it. The invariant says of a prune, from the moment it decides, that each version
on its list of losers is outranked by `keep_versions` others of the file, none of them
older (`DropInv`). Another prune may have removed some of those meanwhile, so this alone
is not enough; but each of those left, by the property itself, `keep_versions` versions
behind that no prune has removed and that are newer still, and these serve the new loser
as well (`NewestDrop`; this is where equal stamps break it). `CapInv` follows every version a
prune listed through its lists: still to be read, collected, kept, under its hold, to be
removed, or removed; or put back by a rename.

**ErasureProofs** (from `NoneAssumption`: what is missing can be told from what is
there): all properties of the `erasure` run, for every length, every `k` and `n`, both
coders, any number of blobs and any damage. First the coders by themselves: the size of
a shard (`SizeHolds`, from the division with remainder), where a byte goes and where it
is found again (`BytePlace`), that any `k` shards rebuild the rows (`Rebuilt`,
`RsBack`), that joining and truncating them gives the bytes put (`Joined`), and the same
for copies (`CopiesShards`, `CopiesBack`). Then the invariant: a manifest is what
`Encode` gives of the bytes put *under the manifest's own parameters*, and the anchor
has one slot per shard with a shard or nothing in it (`StoredInv`). The contract does
not occur in it, which is why a contract that changes between put and repair does no
harm. What the proof takes from the cryptography is that a hash stands for its bytes and
that sealing with a key is opened by that key only.

**CallsProofs** (from `CallsAssumption`: shards are numbered from 1, payloads and keys
are byte sequences, keys are shorter than 65536 bytes and told apart by them, and `None`
is neither a payload nor a life of the coordinator), for any number of callers, blobs,
shards, payloads, lost messages, clock ticks and restarts. Two invariants, one on the
other.

`AdaptersKeepThePort` is the refinement `PortKept`: the initial states map to initial
states of StorePort, and each step maps to one of its steps or to a stutter. `View` is the
refinement mapping of one call. The invariant `IInv` says where a call stands within its
plan (`StepInv`), and of an answer on its way back that a status its receiver takes for
success was given only after the server had acted on every key (`AnswerInv`, adapter by
adapter: a read through a presigned URL takes 403 and 404 for "not there", a QUIC answer
carries the shard behind its first byte). For QUIC this needs that a frame parses to what
was put into it (`FrameRoundTrip`, with the key's length in two bytes).

`RefusalsAreClean`, `AcksAreDurable` and `NotFoundIsEarned` are the invariants about what
the SDK's answers mean. None is inductive: all three speak of what the app was told, and
the reasons lie in calls that are still in progress. `Hist` ties the two together. A
delete, in a plan, under way or left with a server, takes only keys of blobs that some
delete was sent for (`PlanHist`, `StoreHist`, `Spared`). A put that has not failed has
stored every key of its blob that it does not still owe (`PutHist`, `Owes`: the keys its
present port call has not been served and those of its later ones), so when the SDK
reports it done nothing is owed. The manifest is written or deleted in the last port call
of a plan, so whoever has sent that write has no refusal left to make (`RiskHist`). A get
of an id that was reported as done reads "nothing there" from the coordinator only after
a delete or a restart (`GetHist`). `Calm` states what every step but a restart leaves
standing; one lemma carries all other calls across calm steps (`CallHistKept`), and there
is one lemma per action for the call that moves.

Each of these modules also has `TypeCorrect`, the type invariant, as a theorem.

Only model-checked: `SweepHeals` and `UnrepairableShows` (liveness under fairness, which
this prover does not do), and the two violations.

## 5. Plan

Done: the life of a blob, the sweep and its counters, quota, versions, the file system
anchor, tokens and the control plane, the perimeter, the coders and the envelope, the
calls between the processes and their abstract specification; proofs for all of them, of
every invariant and action property the runs check. Left:

1. **BlobLifecycle and the coordinator's restart**: the life of a blob assumes a
   coordinator that stays up; Calls shows what a restart does to the answers.

## 6. Not modelled

- The usage report: sums of `namespace_usage` (modelled in Quota) inside the
  coordinator's process; nothing is written and nothing decided from it.
- The certificate authority and TLS set-up: calls of libraries at start-up; the
  revocation list is consulted by nothing in the repository.
- Dynamic DNS: a map behind one lock, overwritten and read. The console and CORS:
  presentation and headers.
- The cryptographic primitives, the arithmetic of the Reed-Solomon library, URL
  signing, HTTP, JSON and QUIC's own transport: libraries, taken as ideal.
- `ProtocolVersion::is_compatible` and the metadata-plane endpoint that creates
  namespaces, which nothing in the repository calls; log output; process set-up.
- Several namespaces are independent in the code and modelled as one, except where keys
  and tokens tell them apart. Clocks of different nodes are one clock: skew would shift
  holds and version order by its amount. The coordinator restarts in Capability,
  Perimeter and Calls; BlobLifecycle, Quota and Versions assume one that stays up.
