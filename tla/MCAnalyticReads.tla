-------------------------- MODULE MCAnalyticReads --------------------------
(* Two pools that share a mint, and transactions in four tranches, one of   *)
(* which may be stored late.  The first pool is marked in the last tranche  *)
(* of the release before and in the first of this one: one run, of which    *)
(* this release only sees the end.  Both pools start a run in the last      *)
(* tranche, with moves of one amount: ties for the pages to break.          *)
EXTENDS AnalyticReads

MCTxs == {[id |-> 1, at |-> 3, pool |-> 1, size |-> 2, marks |-> TRUE],
          [id |-> 2, at |-> 4, pool |-> 1, size |-> 1, marks |-> TRUE],
          [id |-> 3, at |-> 5, pool |-> 2, size |-> 2, marks |-> FALSE],
          [id |-> 4, at |-> 6, pool |-> 1, size |-> 1, marks |-> TRUE],
          [id |-> 5, at |-> 6, pool |-> 2, size |-> 1, marks |-> TRUE]}
MCLate == {x \in MCTxs : x.id = 3}
MCMints == <<{1, 2}, {2, 3}>>
MCLists == {[of |-> "tokens", window |-> "24h", order |-> "volume"],
            [of |-> "tokens", window |-> "1h", order |-> "volume"],
            [of |-> "moves", window |-> "24h", order |-> "amount"],
            [of |-> "runs", window |-> "1h", order |-> "time"]}
=============================================================================
