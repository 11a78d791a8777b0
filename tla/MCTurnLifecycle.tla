---------------------------- MODULE MCTurnLifecycle ----------------------------
(* Instances of TurnLifecycle for TLC.                                        *)
EXTENDS TurnLifecycle, TLC

InputSymmetry == Permutations(Inputs)
================================================================================
