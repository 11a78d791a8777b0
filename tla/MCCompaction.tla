----------------------------- MODULE MCCompaction -----------------------------
(* Instances of Compaction for TLC.                                           *)
EXTENDS Compaction

Large == {3}
================================================================================
