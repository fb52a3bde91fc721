------------------------------ MODULE MCReads ------------------------------
(***************************************************************************)
(* The small histories of MCRelayer for Reads.                             *)
(***************************************************************************)
EXTENDS Reads

CONSTANTS a, b, c

FlatGas == [w \in 1..N |-> 3]
AllKnown == [w \in 1..N |-> TRUE]

\* An unknown bridge before a paid withdrawal, which is in its chunk or not as
\* the range begins at 2 or at 1, and two equal paid withdrawals in one chunk.
\* The first block of the relayer is 1.
MixedN == 4
MixedBlock == <<2, 3, 4, 4>>
MixedHash == <<a, b, c, c>>
MixedKnown == <<TRUE, FALSE, TRUE, TRUE>>
MixedCost == <<6, 6, 6, 6>>

\* One paid withdrawal in each of two blocks.
BehindN == 2
BehindBlock == <<1, 2>>
BehindHash == <<a, b>>
BehindCost == <<6, 6>>
=============================================================================
