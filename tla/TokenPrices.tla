---------------------------- MODULE TokenPrices ----------------------------
(***************************************************************************)
(* What yog-context and yog-signals share: the clock, token_last_price as  *)
(* insert_batch keeps it, and the pool whose two mints are priced.  The    *)
(* pool's own rows are the indexer's: here its swaps are external.         *)
(*                                                                         *)
(* A price is a number of half units of the column's last decimal, so that *)
(* two prices the source tells apart may be one price once stored.         *)
(***************************************************************************)
EXTENDS Integers, FiniteSets, FiniteSetsExt, Functions, TLC

CONSTANTS
    MintA, MintB,      \* the pool's two mints
    ReserveA, ReserveB,\* what it holds of each
    StorageCeiling     \* the first price the column refuses

ASSUME ReservesAssumption == ReserveA \in Nat /\ ReserveB \in Nat

VARIABLES
    now,               \* the clock of the database and of both daemons
    token_last_price,  \* the last row written, per mint that has one
    pool               \* pool_current_state: the spot price, and the last swap

Mints == {MintA, MintB}
Reserve == (MintA :> ReserveA) @@ (MintB :> ReserveB)

\* A price as token_prices.price_usd holds it: midpoints round away from zero.
at_storage_scale(price) == (price + 1) \div 2

is_storable(price) == at_storage_scale(price) \in 1 .. (StorageCeiling - 1)

Row(price, at) == [price |-> at_storage_scale(price), at |-> at]

\* The entries of one map written over those of another.
Over(new, old) ==
    [m \in DOMAIN new \cup DOMAIN old |-> IF m \in DOMAIN new THEN new[m] ELSE old[m]]

\* One statement for the series and for the last price: an older price never
\* replaces a newer one, and a second row of one instant is dropped.
InsertBatch(rows) ==
    LET newer == {m \in DOMAIN rows :
                    m \in DOMAIN token_last_price => token_last_price[m].at < rows[m].at}
    IN  token_last_price' = Over(Restrict(rows, newer), token_last_price)

\* yog_amount_usd of what the pool holds of one mint, at its last price.
Held(m) == Reserve[m] * token_last_price[m].price

\* The pool_price_snapshot view and the floor its reader puts on it.
LatestSnapshots(minTvl) ==
    IF Mints \subseteq DOMAIN token_last_price /\ Held(MintA) + Held(MintB) >= minTvl
    THEN {[last_swap_at |-> pool.at, spot |-> pool.spot,
           a |-> token_last_price[MintA], b |-> token_last_price[MintB]]}
    ELSE {}
=============================================================================
