------------------------------ MODULE MC_Lines ------------------------------
(* Scenarios and symmetry for LineGate.                                    *)
EXTENDS LineGate, TLC

(* Two lines in a shell that nothing disturbs, and one line in exec mode   *)
(* with failing writes and a crash.                                        *)
TwoLinesOrFaults ==
    {[mode |-> "shell", lines |-> Lines, faults |-> 0, restarts |-> 0]}
      \cup {[mode |-> "exec", lines |-> {l}, faults |-> 2, restarts |-> 1] : l \in Lines}

Symmetry == Permutations(Lines) \cup Permutations(Workers)
=============================================================================
