----------------------------- MODULE MCTxPath -----------------------------
(***************************************************************************)
(* TxPath for TLC: the ids are model values, and may be exchanged.         *)
(***************************************************************************)
EXTENDS TxPath, TLC

IdSymmetry == Permutations(Ids)

=============================================================================
