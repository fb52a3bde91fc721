---------------------------- MODULE MCFeeHistory ----------------------------
(***************************************************************************)
(* Requests are interchangeable.                                           *)
(***************************************************************************)
EXTENDS FeeHistory, TLC

Symmetry == Permutations(Clients)
=============================================================================
