---------------------------- MODULE MCCostLookup ----------------------------
(***************************************************************************)
(* A small market, and two tokens one of which takes twice the gas of the   *)
(* other.                                                                  *)
(***************************************************************************)
EXTENDS CostLookup, TLC

CONSTANTS eth, dai

\* The price rises between two blocks.
Rise == {<<1, 2>>}

TwoUnits == (eth :> 1) @@ (dai :> 2)
=============================================================================
