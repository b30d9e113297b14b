---------------------------- MODULE DammV2Events ----------------------------
(***************************************************************************)
(* The DAMM v2 events from the wire to their tables and back: the borsh    *)
(* mirrors, the extraction of a transaction's payloads, the translation to *)
(* the domain, what each insert stores and refuses, and what the answers   *)
(* show (crates/core/src/application/extraction, crates/persistence/src/   *)
(* repositories/meteora/damm_v2 and crates/api/src/http/dto/response).     *)
(*                                                                         *)
(* Of an event the numbers are kept: each value is named by the wire field *)
(* it came from. Addresses, flags and indexes are copied everywhere and    *)
(* judged nowhere, but the three enums a translation reads.                *)
(***************************************************************************)
EXTENDS Naturals, Sequences, FiniteSets

\* The numbers an event carries: 64-bit and 128-bit ones.
Mirror(u64, u128) == [u64 |-> u64, u128 |-> u128]

-----------------------------------------------------------------------------
(* The wire mirrors.                                                       *)

EvtSwap2 ==
    Mirror({"amount_0", "amount_1", "included_fee_input_amount", "excluded_fee_input_amount",
            "amount_left", "output_amount", "claiming_fee", "protocol_fee", "compounding_fee",
            "referral_fee", "included_transfer_fee_amount_in",
            "included_transfer_fee_amount_out", "excluded_transfer_fee_amount_out",
            "current_timestamp", "reserve_a_amount", "reserve_b_amount"},
           {"next_sqrt_price"})

EvtLiquidityChange ==
    Mirror({"token_a_amount", "token_b_amount", "transfer_fee_included_token_a_amount",
            "transfer_fee_included_token_b_amount", "reserve_a_amount", "reserve_b_amount",
            "token_a_amount_threshold", "token_b_amount_threshold"},
           {"liquidity_delta"})

EvtClaimPositionFee == Mirror({"fee_a_claimed", "fee_b_claimed"}, {})
EvtClaimProtocolFee == Mirror({"token_a_amount", "token_b_amount"}, {})
EvtClaimReward == Mirror({"total_reward"}, {})
EvtInitializeReward == Mirror({"reward_duration"}, {})
EvtFundReward ==
    Mirror({"amount", "transfer_fee_excluded_amount_in", "reward_duration_end"},
           {"pre_reward_rate", "post_reward_rate"})
EvtWithdrawIneligibleReward == Mirror({"amount"}, {})
EvtWithdrawDeadLiquidityReward == Mirror({"amount"}, {})
EvtUpdateRewardDuration == Mirror({"old_reward_duration", "new_reward_duration"}, {})
EvtUpdateRewardFunder == Mirror({}, {})
EvtCreatePosition == Mirror({}, {})
EvtClosePosition == Mirror({}, {})
EvtLockPosition ==
    Mirror({"cliff_point", "period_frequency"},
           {"cliff_unlock_liquidity", "liquidity_per_period"})
EvtPermanentLockPosition ==
    Mirror({}, {"lock_liquidity_amount", "total_permanent_locked_liquidity"})
EvtInitializePool ==
    Mirror({"activation_point", "token_a_amount", "token_b_amount", "total_amount_a",
            "total_amount_b"},
           {"sqrt_min_price", "sqrt_max_price", "liquidity", "sqrt_price"})
EvtSetPoolStatus == Mirror({}, {})
EvtUpdatePoolFees == Mirror({}, {})

\* What moved, and both positions after it: the parts of each group.
SplitAmounts == {"split_fee_a", "split_fee_b", "split_reward_0", "split_reward_1"}
SplitFirst == {"first_fee_a", "first_fee_b", "first_reward_0", "first_reward_1"}
SplitSecond == {"second_fee_a", "second_fee_b", "second_reward_0", "second_reward_1"}
SplitLiquidities ==
    {"split_permanent_locked", "split_unlocked", "split_vested",
     "first_unlocked", "first_permanent_locked", "first_vested",
     "second_unlocked", "second_permanent_locked", "second_vested"}
EvtSplitPosition3 ==
    Mirror(SplitAmounts \cup SplitFirst \cup SplitSecond,
           SplitLiquidities \cup {"current_sqrt_price"})

Mirrors ==
    [swap2 |-> EvtSwap2,
     liquidity_change |-> EvtLiquidityChange,
     claim_position_fee |-> EvtClaimPositionFee,
     claim_protocol_fee |-> EvtClaimProtocolFee,
     claim_reward |-> EvtClaimReward,
     initialize_reward |-> EvtInitializeReward,
     fund_reward |-> EvtFundReward,
     withdraw_ineligible_reward |-> EvtWithdrawIneligibleReward,
     withdraw_dead_liquidity_reward |-> EvtWithdrawDeadLiquidityReward,
     update_reward_duration |-> EvtUpdateRewardDuration,
     update_reward_funder |-> EvtUpdateRewardFunder,
     split_position3 |-> EvtSplitPosition3,
     create_position |-> EvtCreatePosition,
     close_position |-> EvtClosePosition,
     lock_position |-> EvtLockPosition,
     permanent_lock_position |-> EvtPermanentLockPosition,
     initialize_pool |-> EvtInitializePool,
     set_pool_status |-> EvtSetPoolStatus,
     update_pool_fees |-> EvtUpdatePoolFees]

Kinds == DOMAIN Mirrors

\* The wire event: each number under its name.
WireEvent(kind) == [f \in Mirrors[kind].u64 \cup Mirrors[kind].u128 |-> f]

-----------------------------------------------------------------------------
(* The payloads of a transaction: inner instructions, in order.            *)
(*   to     the program addressed is cp-amm                                *)
(*   form   "plain", an ordinary instruction; "short", one too short to    *)
(*          tell; "event", an event_cpi                                    *)
(*   kind   what its discriminator names, an unknown event included        *)
(*   whole  its body has the layout of the mirror                          *)
(*   beyond the numbers of it past 63 bits                                 *)
(*   far    those that, as seconds, are past the year 9999                 *)
(*   enums  the values of the enums its translation reads                  *)

\* The deprecated twin cp-amm emits beside every split.
Ignored == {"split_position2"}

\* The payloads an inner instruction may be.
WirePayloads(pools) ==
    [to : BOOLEAN, form : {"plain", "short", "event"}, kind : STRING, whole : BOOLEAN,
     beyond : SUBSET STRING, far : SUBSET STRING, pool : pools,
     enums : [direction : STRING, fee_mode : STRING, change : STRING]]

\* The entries of a list at some of its positions, in their order.
Selected(list, at) ==
    [i \in 1 .. Cardinality(at) |->
        list[CHOOSE k \in at : Cardinality({j \in at : j < k}) = i - 1]]

\* Only what is addressed to cp-amm, tagged or not: the output position is the
\* event_index.
ExtractAnchorEventCpis(payloads) == Selected(payloads, {k \in DOMAIN payloads : payloads[k].to})

DecodeAnchorEventCpi(p) ==
    CASE p.form = "short" -> "failed"
      [] p.form = "plain" -> "skipped"
      [] p.form = "event" -> "decoded"

\* By discriminator, among the kinds this release knows.
Dispatch(p, known) ==
    CASE p.kind \in Ignored -> "ignored"
      [] p.kind \notin Ignored \cup known -> "unknown"
      [] p.kind \in known /\ ~p.whole -> "failed"
      [] p.kind \in known /\ p.whole -> "recognized"

\* Mutation: the events are numbered among themselves.
ExtractWireEventsRenumbered(payloads, known, maxIndex) ==
    LET raw == ExtractAnchorEventCpis(payloads)
        fate(k) == LET d == DecodeAnchorEventCpi(raw[k])
                   IN IF d # "decoded" THEN d ELSE Dispatch(raw[k], known)
        before(k) == Cardinality({j \in 1 .. k - 1 : fate(j) = "recognized"})
    IN [k \in DOMAIN raw |-> [event_index |-> before(k), payload |-> raw[k], fate |-> fate(k)]]

\* Each payload takes its index before it is decoded, and past the largest one
\* it is dropped as a failure.
ExtractWireEvents(payloads, known, maxIndex) ==
    LET raw == ExtractAnchorEventCpis(payloads)
        fate(k) == LET d == DecodeAnchorEventCpi(raw[k])
                   IN IF k - 1 > maxIndex THEN "failed"
                      ELSE IF d # "decoded" THEN d ELSE Dispatch(raw[k], known)
    IN [k \in DOMAIN raw |-> [event_index |-> k - 1, payload |-> raw[k], fate |-> fate(k)]]

-----------------------------------------------------------------------------
(* The translations: the domain event's numbers, and the wire's they take. *)

Failed == [failed |-> TRUE]

TradeDirections == {"AtoB", "BtoA"}
CollectFeeModes == {"BothToken", "OnlyB", "Compounding"}

ComputeFeeTokenIsA(mode, direction) == mode = "BothToken" /\ direction = "BtoA"

\* Mutation: the amounts are kept as in and out.
TranslateSwapInOut(e, enums) ==
    IF enums.direction \notin TradeDirections \/ enums.fee_mode \notin CollectFeeModes
    THEN Failed
    ELSE [amount_a |-> e.included_transfer_fee_amount_in,
          amount_b |-> e.included_transfer_fee_amount_out,
          reserve_a_after |-> e.reserve_a_amount, reserve_b_after |-> e.reserve_b_amount,
          next_sqrt_price |-> e.next_sqrt_price,
          claiming_fee |-> e.claiming_fee, protocol_fee |-> e.protocol_fee,
          compounding_fee |-> e.compounding_fee, referral_fee |-> e.referral_fee]

\* In and out become A and B by the direction.
TranslateSwap(e, enums) ==
    LET in == e.included_transfer_fee_amount_in
        out == e.included_transfer_fee_amount_out
    IN IF enums.direction \notin TradeDirections \/ enums.fee_mode \notin CollectFeeModes
       THEN Failed
       ELSE [amount_a |-> IF enums.direction = "AtoB" THEN in ELSE out,
             amount_b |-> IF enums.direction = "AtoB" THEN out ELSE in,
             reserve_a_after |-> e.reserve_a_amount, reserve_b_after |-> e.reserve_b_amount,
             next_sqrt_price |-> e.next_sqrt_price,
             claiming_fee |-> e.claiming_fee, protocol_fee |-> e.protocol_fee,
             compounding_fee |-> e.compounding_fee, referral_fee |-> e.referral_fee]

\* The thresholds and the amounts with their transfer fees are not kept.
TranslateLiquidity(e, enums) ==
    IF enums.change \notin {"add", "remove"} THEN Failed
    ELSE [amount_a |-> e.token_a_amount, amount_b |-> e.token_b_amount,
          liquidity_delta |-> e.liquidity_delta,
          reserve_a_after |-> e.reserve_a_amount, reserve_b_after |-> e.reserve_b_amount]

TranslateClaimPositionFee(e) ==
    [fee_a_claimed |-> e.fee_a_claimed, fee_b_claimed |-> e.fee_b_claimed]
TranslateClaimProtocolFee(e) ==
    [token_a_amount |-> e.token_a_amount, token_b_amount |-> e.token_b_amount]
TranslateClaimReward(e) == [total_reward |-> e.total_reward]
TranslateInitializeReward(e) == [reward_duration |-> e.reward_duration]
TranslateFundReward(e) ==
    [amount |-> e.amount,
     transfer_fee_excluded_amount_in |-> e.transfer_fee_excluded_amount_in,
     reward_duration_end |-> e.reward_duration_end,
     pre_reward_rate |-> e.pre_reward_rate, post_reward_rate |-> e.post_reward_rate]
TranslateWithdrawIneligibleReward(e) == [amount |-> e.amount]
TranslateWithdrawDeadLiquidityReward(e) == [amount |-> e.amount]
TranslateUpdateRewardDuration(e) ==
    [old_reward_duration |-> e.old_reward_duration,
     new_reward_duration |-> e.new_reward_duration]
TranslateUpdateRewardFunder(e) == e
TranslateCreatePosition(e) == e
TranslateClosePosition(e) == e
TranslateLockPosition(e) ==
    [cliff_point |-> e.cliff_point, period_frequency |-> e.period_frequency,
     cliff_unlock_liquidity |-> e.cliff_unlock_liquidity,
     liquidity_per_period |-> e.liquidity_per_period]
TranslatePermanentLockPosition(e) ==
    [lock_liquidity_amount |-> e.lock_liquidity_amount,
     total_permanent_locked_liquidity |-> e.total_permanent_locked_liquidity]
TranslateInitializePool(e) ==
    [sqrt_min_price |-> e.sqrt_min_price, sqrt_max_price |-> e.sqrt_max_price,
     sqrt_price |-> e.sqrt_price, liquidity |-> e.liquidity,
     activation_point |-> e.activation_point,
     token_a_amount |-> e.token_a_amount, token_b_amount |-> e.token_b_amount,
     total_amount_a |-> e.total_amount_a, total_amount_b |-> e.total_amount_b]
TranslateSetPoolStatus(e) == e
TranslateUpdatePoolFees(e) == e
\* Every part under its own name: the groups order theirs differently.
TranslateSplitPosition(e) == [part \in DOMAIN e |-> e[part]]

TranslateWireEvent(kind, enums) ==
    LET e == WireEvent(kind)
    IN CASE kind = "swap2" -> TranslateSwap(e, enums)
         [] kind = "liquidity_change" -> TranslateLiquidity(e, enums)
         [] kind = "claim_position_fee" -> TranslateClaimPositionFee(e)
         [] kind = "claim_protocol_fee" -> TranslateClaimProtocolFee(e)
         [] kind = "claim_reward" -> TranslateClaimReward(e)
         [] kind = "initialize_reward" -> TranslateInitializeReward(e)
         [] kind = "fund_reward" -> TranslateFundReward(e)
         [] kind = "withdraw_ineligible_reward" -> TranslateWithdrawIneligibleReward(e)
         [] kind = "withdraw_dead_liquidity_reward" -> TranslateWithdrawDeadLiquidityReward(e)
         [] kind = "update_reward_duration" -> TranslateUpdateRewardDuration(e)
         [] kind = "update_reward_funder" -> TranslateUpdateRewardFunder(e)
         [] kind = "split_position3" -> TranslateSplitPosition(e)
         [] kind = "create_position" -> TranslateCreatePosition(e)
         [] kind = "close_position" -> TranslateClosePosition(e)
         [] kind = "lock_position" -> TranslateLockPosition(e)
         [] kind = "permanent_lock_position" -> TranslatePermanentLockPosition(e)
         [] kind = "initialize_pool" -> TranslateInitializePool(e)
         [] kind = "set_pool_status" -> TranslateSetPoolStatus(e)
         [] kind = "update_pool_fees" -> TranslateUpdatePoolFees(e)

-----------------------------------------------------------------------------
(* The inserts: the numbers a table stores in 63 bits, and refuses a row   *)
(* for; the 128-bit ones are stored as decimals, whole.                    *)

InsertSwap ==
    {"amount_a", "amount_b", "reserve_a_after", "reserve_b_after", "claiming_fee",
     "protocol_fee", "compounding_fee", "referral_fee"}
InsertLiquidity == {"amount_a", "amount_b", "reserve_a_after", "reserve_b_after"}
InsertClaimPositionFee == {"fee_a_claimed", "fee_b_claimed"}
InsertClaimProtocolFee == {"token_a_amount", "token_b_amount"}
InsertClaimReward == {"total_reward"}
InsertInitializeReward == {"reward_duration"}
InsertFundReward == {"amount", "transfer_fee_excluded_amount_in", "reward_duration_end"}
InsertWithdrawIneligibleReward == {"amount"}
InsertWithdrawDeadLiquidityReward == {"amount"}
InsertUpdateRewardDuration == {"old_reward_duration", "new_reward_duration"}
InsertUpdateRewardFunder == {}
InsertSplitPosition == SplitAmounts \cup SplitFirst \cup SplitSecond
InsertCreatePosition == {}
InsertClosePosition == {}
InsertLockPosition == {"cliff_point", "period_frequency"}
InsertPermanentLockPosition == {}
InsertInitializePool ==
    {"activation_point", "token_a_amount", "token_b_amount", "total_amount_a", "total_amount_b"}
InsertSetPoolStatus == {}
InsertUpdatePoolFees == {}

Checked ==
    [swap2 |-> InsertSwap,
     liquidity_change |-> InsertLiquidity,
     claim_position_fee |-> InsertClaimPositionFee,
     claim_protocol_fee |-> InsertClaimProtocolFee,
     claim_reward |-> InsertClaimReward,
     initialize_reward |-> InsertInitializeReward,
     fund_reward |-> InsertFundReward,
     withdraw_ineligible_reward |-> InsertWithdrawIneligibleReward,
     withdraw_dead_liquidity_reward |-> InsertWithdrawDeadLiquidityReward,
     update_reward_duration |-> InsertUpdateRewardDuration,
     update_reward_funder |-> InsertUpdateRewardFunder,
     split_position3 |-> InsertSplitPosition,
     create_position |-> InsertCreatePosition,
     close_position |-> InsertClosePosition,
     lock_position |-> InsertLockPosition,
     permanent_lock_position |-> InsertPermanentLockPosition,
     initialize_pool |-> InsertInitializePool,
     set_pool_status |-> InsertSetPoolStatus,
     update_pool_fees |-> InsertUpdatePoolFees]

\* The insert is refused: a number it stores in 63 bits does not fit.
ConvertU64ToI64Fails(kind, numbers, beyond) ==
    \E column \in Checked[kind] : numbers[column] \in beyond
=============================================================================
