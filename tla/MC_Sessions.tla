---------------------------- MODULE MC_Sessions ----------------------------
(* Symmetry for AISessions.                                                *)
EXTENDS AISessions

Symmetry == Permutations(Calls)
=============================================================================
