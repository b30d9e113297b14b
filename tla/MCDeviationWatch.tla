-------------------------- MODULE MCDeviationWatch --------------------------
(* A pool whose second mint is the steady one.  In column units MintA is    *)
(* worth 2 or 8, or rounds to nothing; 3 and 4 are one price there.         *)
EXTENDS DeviationWatch

MCPrices == {0, 3, 4, 16}
MCSpots == {4}
MCAddressSlot == (MintA :> 5) @@ (MintB :> 0)
=============================================================================
