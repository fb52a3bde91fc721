------------------------------ MODULE GasPrice ------------------------------
(***************************************************************************)
(* The price of one gas unit that GasService charges for a window of base  *)
(* fees: their average, rounded down to a gwei, up to five gwei, shifted   *)
(* by a percentage, and never below ten gwei.                              *)
(***************************************************************************)
EXTENDS Integers

CONSTANTS
    OneGwei,           \* in the unit of the base fees
    FeeShiftPercentage

ASSUME GweiAssumption == OneGwei \in Nat \ {0}
ASSUME ShiftAssumption == FeeShiftPercentage \in Nat /\ FeeShiftPercentage >= 20

FiveGwei == 5 * OneGwei

\* Down to a whole gwei.
RoundBigNumber(x) == (x \div OneGwei) * OneGwei

\* Mutant of CeilBigNumber: down to five gwei.
FloorFiveGwei(x) == x - (x % FiveGwei)

\* Mutant of CeilBigNumber: the remainder stays.
CeilWithoutFloor(x) == x + IF x % FiveGwei > 0 THEN FiveGwei ELSE 0

\* Up to a multiple of five gwei.
CeilBigNumber(x) == x - (x % FiveGwei) + IF x % FiveGwei > 0 THEN FiveGwei ELSE 0

\* getAverageGasPrice of a window whose fees have the average avg (rounded down).
AverageGasPrice(avg) ==
    (CeilBigNumber(RoundBigNumber(avg)) * (100 + FeeShiftPercentage)) \div 100

\* The price calculateGasCost multiplies with the gas units of the token.
ChargedPrice(avg) ==
    IF AverageGasPrice(avg) < 10 * OneGwei THEN 10 * OneGwei ELSE AverageGasPrice(avg)
=============================================================================
