---------------------------- MODULE EventAnswers ----------------------------
(***************************************************************************)
(* What the event lists answer: the nine collections and the tables each   *)
(* is read from, the columns of each row, and what its answer shows of     *)
(* them (crates/persistence/src/repositories/<collection>_event, crates/   *)
(* api/src/http/dto/response/<collection>_event).                          *)
(*                                                                         *)
(* A row keeps the numbers its insert stored, r.column; the text of        *)
(* addresses and of the other columns is copied through.                   *)
(***************************************************************************)
EXTENDS DammV2Events

-----------------------------------------------------------------------------
(* The rows: the columns each list selects.                                *)

SwapEventRow ==
    {"amount_a", "amount_b", "reserve_a_after", "reserve_b_after", "next_sqrt_price",
     "claiming_fee", "protocol_fee", "compounding_fee", "referral_fee"}
LiquidityEventRow ==
    {"amount_a", "amount_b", "liquidity_delta", "reserve_a_after", "reserve_b_after"}
ClaimPositionFeeEventRow == {"fee_a_claimed", "fee_b_claimed"}
ClaimProtocolFeeEventRow == {"token_a_amount", "token_b_amount"}
ClaimRewardEventRow == {"total_reward"}
RewardChangeRows ==
    [initialize_reward |-> {"reward_duration"},
     fund_reward |-> {"amount", "transfer_fee_excluded_amount_in", "reward_duration_end",
                      "pre_reward_rate", "post_reward_rate"},
     withdraw_ineligible_reward |-> {"amount"},
     withdraw_dead_liquidity_reward |-> {"amount"},
     update_reward_duration |-> {"old_reward_duration", "new_reward_duration"},
     update_reward_funder |-> {}]
InitializePoolEventRow ==
    {"sqrt_min_price", "sqrt_max_price", "sqrt_price", "liquidity", "activation_point",
     "token_a_amount", "token_b_amount", "total_amount_a", "total_amount_b"}
PoolChangeRows == [set_pool_status |-> {}, update_pool_fees |-> {}]
PositionLockRows ==
    [create_position |-> {}, close_position |-> {},
     lock_position |-> {"cliff_point", "period_frequency", "cliff_unlock_liquidity",
                        "liquidity_per_period"},
     permanent_lock_position |-> {"lock_liquidity_amount", "total_permanent_locked_liquidity"}]
SplitPositionEventRow ==
    SplitAmounts \cup SplitFirst \cup SplitSecond \cup SplitLiquidities \cup {"current_sqrt_price"}

RowColumns(kind) ==
    CASE kind = "swap2" -> SwapEventRow
      [] kind = "liquidity_change" -> LiquidityEventRow
      [] kind = "claim_position_fee" -> ClaimPositionFeeEventRow
      [] kind = "claim_protocol_fee" -> ClaimProtocolFeeEventRow
      [] kind = "claim_reward" -> ClaimRewardEventRow
      [] kind \in DOMAIN RewardChangeRows -> RewardChangeRows[kind]
      [] kind = "initialize_pool" -> InitializePoolEventRow
      [] kind \in DOMAIN PoolChangeRows -> PoolChangeRows[kind]
      [] kind \in DOMAIN PositionLockRows -> PositionLockRows[kind]
      [] kind = "split_position3" -> SplitPositionEventRow

\* A row of the table, as the list reads it.
ReadRow(kind, stored) == [c \in RowColumns(kind) |-> stored[c]]

-----------------------------------------------------------------------------
(* The answers: each number under the name it is shown by.                 *)

SwapEventResponse(r) ==
    [amountA |-> r.amount_a, amountB |-> r.amount_b,
     reserveAAfter |-> r.reserve_a_after, reserveBAfter |-> r.reserve_b_after,
     nextSqrtPrice |-> r.next_sqrt_price,
     claimingFee |-> r.claiming_fee, protocolFee |-> r.protocol_fee,
     compoundingFee |-> r.compounding_fee, referralFee |-> r.referral_fee]

LiquidityChangeEventResponse(r) ==
    [amountA |-> r.amount_a, amountB |-> r.amount_b,
     reserveAAfter |-> r.reserve_a_after, reserveBAfter |-> r.reserve_b_after,
     liquidityDelta |-> r.liquidity_delta]

PositionFeeClaimEventResponse(r) == [feeA |-> r.fee_a_claimed, feeB |-> r.fee_b_claimed]
ProtocolFeeClaimEventResponse(r) == [amountA |-> r.token_a_amount, amountB |-> r.token_b_amount]
RewardClaimEventResponse(r) == [amount |-> r.total_reward]

\* A date a client can read, or none. What an answer may leave out is no number
\* of the wire.
NoDate == "null"
Date(seconds, far) == IF seconds \in far THEN NoDate ELSE seconds

RewardChangeEventResponse(kind, r, far) ==
    CASE kind = "initialize_reward" -> [rewardDuration |-> r.reward_duration]
      [] kind = "fund_reward" ->
            [amount |-> r.amount,
             transferFeeExcludedAmountIn |-> r.transfer_fee_excluded_amount_in,
             rewardDurationEnd |-> Date(r.reward_duration_end, far),
             preRewardRate |-> r.pre_reward_rate, postRewardRate |-> r.post_reward_rate]
      [] kind = "update_reward_duration" ->
            [oldRewardDuration |-> r.old_reward_duration,
             newRewardDuration |-> r.new_reward_duration]
      [] kind = "update_reward_funder" -> r
      [] kind \in {"withdraw_ineligible_reward", "withdraw_dead_liquidity_reward"} ->
            [amount |-> r.amount]

PoolCreationEventResponse(r) ==
    [sqrtMinPrice |-> r.sqrt_min_price, sqrtMaxPrice |-> r.sqrt_max_price,
     sqrtPrice |-> r.sqrt_price, liquidity |-> r.liquidity,
     activationPoint |-> r.activation_point,
     tokenAAmount |-> r.token_a_amount, tokenBAmount |-> r.token_b_amount,
     totalAmountA |-> r.total_amount_a, totalAmountB |-> r.total_amount_b]

PoolChangeEventResponse(r) == r

VestingLockResponse(r) ==
    [cliffPoint |-> r.cliff_point, periodFrequency |-> r.period_frequency,
     cliffUnlockLiquidity |-> r.cliff_unlock_liquidity,
     liquidityPerPeriod |-> r.liquidity_per_period]
PermanentLockResponse(r) ==
    [lockedLiquidity |-> r.lock_liquidity_amount,
     totalPermanentLockedLiquidity |-> r.total_permanent_locked_liquidity]
\* The parts of each group, under the group.
SplitResponse(r) == r

PositionChangeEventResponse(kind, r) ==
    CASE kind \in {"create_position", "close_position"} -> r
      [] kind = "lock_position" -> VestingLockResponse(r)
      [] kind = "permanent_lock_position" -> PermanentLockResponse(r)
      [] kind = "split_position3" -> SplitResponse(r)

-----------------------------------------------------------------------------
(* The collections, and the tables each merges.                            *)

PositionChangeTables ==
    {"create_position", "close_position", "lock_position", "permanent_lock_position",
     "split_position3"}
RewardChangeTables ==
    {"initialize_reward", "fund_reward", "update_reward_duration", "update_reward_funder",
     "withdraw_ineligible_reward", "withdraw_dead_liquidity_reward"}
PoolChangeTables == {"set_pool_status", "update_pool_fees"}

Tables ==
    [swaps |-> {"swap2"},
     liquidity_changes |-> {"liquidity_change"},
     pool_creations |-> {"initialize_pool"},
     position_changes |-> PositionChangeTables,
     position_fee_claims |-> {"claim_position_fee"},
     protocol_fee_claims |-> {"claim_protocol_fee"},
     reward_claims |-> {"claim_reward"},
     reward_changes |-> RewardChangeTables,
     pool_changes |-> PoolChangeTables]

Collections == DOMAIN Tables
CollectionOf(kind) == CHOOSE c \in Collections : kind \in Tables[c]

\* What the answer shows of a row read, some of whose numbers are far dates.
Response(kind, r, far) ==
    LET c == CollectionOf(kind)
    IN CASE c = "swaps" -> SwapEventResponse(r)
         [] c = "liquidity_changes" -> LiquidityChangeEventResponse(r)
         [] c = "pool_creations" -> PoolCreationEventResponse(r)
         [] c = "position_changes" -> PositionChangeEventResponse(kind, r)
         [] c = "position_fee_claims" -> PositionFeeClaimEventResponse(r)
         [] c = "protocol_fee_claims" -> ProtocolFeeClaimEventResponse(r)
         [] c = "reward_claims" -> RewardClaimEventResponse(r)
         [] c = "reward_changes" -> RewardChangeEventResponse(kind, r, far)
         [] c = "pool_changes" -> PoolChangeEventResponse(r)
=============================================================================
