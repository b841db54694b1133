----------------------------- MODULE MCNodeList -----------------------------
(* Small instances of NodeList. *)
EXTENDS NodeList, TLC

MCSymmetry == Permutations(Threads)
=============================================================================
