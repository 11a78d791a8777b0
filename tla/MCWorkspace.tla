------------------------------ MODULE MCWorkspace ------------------------------
(* Instances of Workspace for TLC.                                            *)
EXTENDS Workspace, TLC

Interchangeable == Permutations(Actors) \cup Permutations(NewNames)
================================================================================
