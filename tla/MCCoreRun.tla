----------------------------- MODULE MCCoreRun -----------------------------
(* CoreRun, for model checking.                                            *)
EXTENDS CoreRun
=============================================================================
