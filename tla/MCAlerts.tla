------------------------------ MODULE MCAlerts ------------------------------
(***************************************************************************)
(* A small history for the alerts.                                         *)
(***************************************************************************)
EXTENDS Alerts

CONSTANTS a, b

\* A small payment and, in the next block, a larger one.
UnevenN == 2
UnevenBlock == <<1, 2>>
UnevenHash == <<a, b>>
UnevenCost == <<6, 10>>
FlatGas == <<3, 3>>
AllKnown == <<TRUE, TRUE>>
=============================================================================
