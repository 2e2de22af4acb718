---------------------------- MODULE MC_Policies ----------------------------
(* Commands, model values and symmetry for AgentPolicies.                  *)
EXTENDS AgentPolicies, TLC

(* A write with sudo within the default limit, and a dangerous command     *)
(* beyond it.                                                              *)
SampleCommands ==
    {[risk |-> Medium, marks |-> {"sudo"}],
     [risk |-> High, marks |-> {}]}

Interchangeable == Permutations(Agents) \cup Permutations(Tokens)
=============================================================================
