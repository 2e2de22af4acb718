------------------------------- MODULE MC_Auth -------------------------------
(* Instances of AdminAuth for TLC. *)
EXTENDS AdminAuth, TLC

Symmetry == Permutations(Handlers)
=============================================================================
