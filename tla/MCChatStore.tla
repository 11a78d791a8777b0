----------------------------- MODULE MCChatStore -----------------------------
(* The chat store on one page with two streams. *)
EXTENDS ChatStore, TLC

PageSymmetry == Permutations(Old) \union Permutations(Fresh)
=============================================================================
