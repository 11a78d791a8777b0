--------------------------- MODULE MCStreamTransport ---------------------------
(* Instances of StreamTransport for TLC.                                       *)
EXTENDS StreamTransport, TLC

StreamSymmetry == Permutations(Streams) \cup Permutations(Sessions)
================================================================================
