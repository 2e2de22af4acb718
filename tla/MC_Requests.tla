---------------------------- MODULE MC_Requests ----------------------------
(* RequestLifecycle and its invariant for TLC: the runs take the constants *)
(* from their configurations and use no symmetry, which liveness does not  *)
(* allow.                                                                  *)
EXTENDS RequestInvariant
=============================================================================
