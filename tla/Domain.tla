------------------------------- MODULE Domain -------------------------------
(***************************************************************************)
(* The pure rules of crates/vault-domain that the use-cases consult: the   *)
(* reconstruction threshold, the retention hold, the storage quota, and    *)
(* clamping. Time is counted in clock ticks and a hold is given as its     *)
(* length in ticks (min_days * 86_400_000 in the code's milliseconds).     *)
(***************************************************************************)
EXTENDS Integers

\* Manifest::is_reconstructable: at least k shards survive.
IsReconstructable(available, k) == available >= k

\* u64::saturating_sub.
SaturatingSub(a, b) == IF a >= b THEN a - b ELSE 0

\* u64::saturating_add at width max (u64::MAX in the code).
SaturatingAdd(a, b, max) == IF a + b <= max THEN a + b ELSE max

\* u64::clamp: n, or the end of lo..hi that it lies beyond.
Clamp(n, lo, hi) == IF n < lo THEN lo ELSE IF n > hi THEN hi ELSE n

\* RetentionPolicy::hold_elapsed: no hold at all when min_days = 0, and a
\* clock that reads less than created_at counts as "not elapsed".
HoldElapsed(hold, created, now) ==
    \/ hold = 0
    \/ SaturatingSub(now, created) >= hold

\* Quota::admits: the new object fits in max_bytes and is not one too many.
Admits(quota, usedBytes, objects, addBytes, u64Max) ==
    /\ SaturatingAdd(usedBytes, addBytes, u64Max) <= quota.max_bytes
    /\ objects < quota.max_objects
=============================================================================
