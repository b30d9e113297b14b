---------------------------- MODULE PoolRegistry ----------------------------
(***************************************************************************)
(* The pools registry (crates/persistence/src/repositories/pool.rs): its   *)
(* rows and the statements by which the indexer discovers, touches and     *)
(* flags a pool. What yog-context reads from the pool's account and writes *)
(* there (set_registry_properties) is outside this model.                  *)
(*                                                                         *)
(* A row is [needs_refresh, first_seen]; last_seen_at is judged nowhere    *)
(* and left out.                                                           *)
(***************************************************************************)
EXTENDS Naturals

Missing == [needs_refresh |-> FALSE, first_seen |-> 0]

\* Instants start at 1.
KnownPool(pools, p) == pools[p].first_seen # 0

\* A row already there only moves its last_seen_at.
Upsert(pools, p, now) ==
    IF KnownPool(pools, p) THEN pools
    ELSE [pools EXCEPT ![p] = [needs_refresh |-> FALSE, first_seen |-> now]]

\* Both are UPDATEs: a pool never discovered is left alone.
TouchLastSeen(pools, p) == pools
MarkNeedsRefresh(pools, p) ==
    IF KnownPool(pools, p) THEN [pools EXCEPT ![p].needs_refresh = TRUE] ELSE pools
=============================================================================
