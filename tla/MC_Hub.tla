-------------------------------- MODULE MC_Hub --------------------------------
(* Instances of EventHub for TLC. *)
EXTENDS EventHub
=============================================================================
