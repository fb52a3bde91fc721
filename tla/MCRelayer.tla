----------------------------- MODULE MCRelayer -----------------------------
(***************************************************************************)
(* Small histories for the relayer.  Each is a choice of withdrawals; the  *)
(* configurations name the one they use.                                   *)
(***************************************************************************)
EXTENDS Relayer

CONSTANTS a, b, c

FlatGas == [w \in 1..N |-> 3]
AllKnown == [w \in 1..N |-> TRUE]

\* Two equal paid withdrawals, one of a bridge the relayer does not know, one
\* that was paid and an equal one that was not.  The unknown one comes before a
\* paid one in a chunk when a range begins at 1.
PaidN == 5
PaidBlock == <<1, 2, 2, 3, 3>>
PaidHash == <<a, a, b, c, c>>
PaidKnown == <<TRUE, TRUE, FALSE, TRUE, TRUE>>
PaidCost == <<6, 6, 6, 6, 0>>

\* A paid withdrawal and, later, an equal one whose user did not pay.
TwinN == 3
TwinBlock == <<1, 1, 2>>
TwinHash == <<a, b, a>>
TwinCost == <<6, 6, 0>>

\* A withdrawal that was not paid before one that was, in one block.
SkewN == 2
SkewBlock == <<1, 1>>
SkewHash == <<a, b>>
SkewCost == <<0, 6>>

\* The same with a bridge the relayer does not know.
StrayKnown == <<FALSE, TRUE>>
StrayCost == <<6, 6>>
=============================================================================
