-------------------------- MODULE MCActionExecution --------------------------
(***************************************************************************)
(* Instances of ActionExecution for TLC.                                   *)
(***************************************************************************)
EXTENDS ActionExecution, TLC

KeySymmetry == Permutations(Keys)
=============================================================================
