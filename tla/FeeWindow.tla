----------------------------- MODULE FeeWindow -----------------------------
(***************************************************************************)
(* The window of base fees moves with L1: every block adds its fee and     *)
(* drops the oldest.  The price of the window is what users are charged.   *)
(***************************************************************************)
EXTENDS GasPrice, Sequences, SequencesExt

CONSTANTS
    Length,  \* getNumberOfBlocksToCalculateTheGasCost
    Fees     \* base fees a block may have

ASSUME WindowAssumption == Length \in Nat \ {0} /\ Fees \subseteq Nat

VARIABLE baseFees  \* fees of the last Length blocks, oldest first

Init == baseFees \in [1..Length -> Fees]

\* L1 mines a block.
NewBlock == \E fee \in Fees : baseFees' = Append(Tail(baseFees), fee)

Next == NewBlock

Spec == Init /\ [][Next]_baseFees

Sum(s) == FoldSeq(+, 0, s)

Price == ChargedPrice(Sum(baseFees) \div Len(baseFees))

\* The relayer never charges less per gas than the window cost on average, in
\* spite of the rounding down (getAverageGasPrice 93-102, the floor of 10 gwei 83).
CoversAverage == Price * Length >= Sum(baseFees)

\* The price follows the blocks that enter and leave, in spite of the rounding
\* and the floor: a block that is at least as dear as the one it replaces never
\* makes the price fall, and one that is at most as dear never makes it rise,
\* whatever the other fees of the window are (81-102).
FollowsFees ==
    [][/\ baseFees'[Length] >= baseFees[1] => Price' >= Price
       /\ baseFees'[Length] <= baseFees[1] => Price' <= Price]_baseFees
=============================================================================
