----------------------------- MODULE MC_Terminals -----------------------------
(* Instances of Terminals for TLC. *)
EXTENDS Terminals, TLC

Symmetry == Permutations(Threads) \cup Permutations(Tabs)
=============================================================================
