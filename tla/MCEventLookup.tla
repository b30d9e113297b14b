---------------------------- MODULE MCEventLookup ---------------------------
(* Two transactions of one slot or of two in every history, and the lists   *)
(* that show them; the first release knows less than the second.            *)
EXTENDS EventLookup

Payload(kind) ==
    [to |-> TRUE, form |-> "event", kind |-> kind, whole |-> TRUE, beyond |-> {}, far |-> {}, pool |-> 1,
     enums |-> [direction |-> "BtoA", fee_mode |-> "OnlyB", change |-> "add"]]

Tx(slot, at, index, payloads) == [slot |-> slot, at |-> at, index |-> index, payloads |-> payloads]
Walk(c, scope, window) == [collection |-> c, scope |-> scope, window |-> window]
Case(first, second, walks) == [history |-> <<first, second>>, walks |-> walks]

MCScenarios ==
    { \* a swap after an ordinary instruction, then a liquidity change of its pool and a
      \* swap of another
      Case(Tx(1, 1, 0, <<[Payload("swap2") EXCEPT !.form = "plain"], Payload("swap2")>>),
           Tx(2, 1, 0, <<Payload("liquidity_change"), [Payload("swap2") EXCEPT !.pool = 2]>>),
           {Walk("swaps", AllScope, "day"), Walk("swaps", PoolScope(2), "week"),
            Walk("liquidity_changes", PoolScope(1), "month")}),
      \* swaps of one slot that nothing ranks, one to another program, one too wide
      Case(Tx(1, 1, 0, <<[Payload("swap2") EXCEPT !.to = FALSE], Payload("swap2"),
                         Payload("swap2")>>),
           Tx(1, 1, 0, <<[Payload("swap2") EXCEPT !.enums.direction = "AtoB"],
                         [Payload("swap2") EXCEPT !.beyond = {"claiming_fee"}]>>),
           {Walk("swaps", DammV2Scope, "day"), Walk("swaps", DlmmScope, "day")}),
      \* ranked by their transaction index, against their signatures
      Case(Tx(1, 1, 2, <<Payload("swap2")>>), Tx(1, 1, 1, <<Payload("liquidity_change")>>),
           {Walk("liquidity_changes", AllScope, "day")}),
      \* positions: the split's deprecated twin first
      Case(Tx(1, 1, 0, <<Payload("split_position2"), Payload("split_position3"),
                         Payload("create_position")>>),
           Tx(2, 2, 0, <<Payload("lock_position"), Payload("close_position")>>),
           {Walk("position_changes", AllScope, "month")}),
      Case(Tx(1, 1, 0, <<Payload("initialize_pool"), Payload("permanent_lock_position")>>),
           Tx(1, 2, 0, <<[Payload("permanent_lock_position") EXCEPT !.whole = FALSE],
                         Payload("update_pool_fees"), Payload("set_pool_status")>>),
           {Walk("pool_creations", DammV2Scope, "week"), Walk("pool_changes", AllScope, "day"),
            Walk("position_changes", PoolScope(1), "day")}),
      \* claims, the last past the largest index
      Case(Tx(1, 1, 0, <<Payload("claim_position_fee"), Payload("claim_protocol_fee")>>),
           Tx(2, 2, 0, <<Payload("claim_reward"), Payload("claim_position_fee"),
                         [Payload("claim_reward") EXCEPT !.form = "plain"],
                         Payload("claim_reward")>>),
           {Walk("position_fee_claims", AllScope, "month"), Walk("reward_claims", AllScope, "day"),
            Walk("protocol_fee_claims", AllScope, "day")}),
      \* rewards, the first and its neighbour known to the second release only
      Case(Tx(1, 1, 0, <<[Payload("fund_reward") EXCEPT !.form = "short"],
                         Payload("initialize_reward"),
                         [Payload("fund_reward") EXCEPT !.far = {"reward_duration_end"}]>>),
           Tx(2, 1, 0, <<Payload("update_reward_duration"), Payload("update_reward_funder")>>),
           {Walk("reward_changes", AllScope, "day")}),
      Case(Tx(1, 1, 0, <<Payload("withdraw_ineligible_reward"),
                         Payload("withdraw_dead_liquidity_reward")>>),
           Tx(1, 1, 0, <<[Payload("swap2") EXCEPT !.enums.direction = "neither"],
                         Payload("fund_reward")>>),
           {Walk("reward_changes", DammV2Scope, "day")}) }

MCReleases ==
    <<Kinds \ {"initialize_reward", "split_position3", "withdraw_ineligible_reward"}, Kinds>>
MCTimes == 1 .. 3
MCWindowLength == [day |-> 1, week |-> 2, month |-> 3]
=============================================================================
