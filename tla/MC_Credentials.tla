---------------------------- MODULE MC_Credentials ----------------------------
(* Instances of Credentials for TLC. *)
EXTENDS Credentials, TLC

\* No old rows, or one of every connection.  All have the same endpoint: those
\* of different connections are never compared.
MCLegacy == {[c \in Conns |-> ep] : ep \in Endpoints \cup {None}}

Symmetry == Permutations(Conns) \cup Permutations(Endpoints)
=============================================================================
