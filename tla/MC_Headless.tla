----------------------------- MODULE MC_Headless -----------------------------
EXTENDS Headless

\* The files an operator starts with: A behind B, B alone with prune, and A
\* alone, changed and enforced.  A brings its password in a file, the changed
\* A in a variable, B has none.
MCFile(conns, mcp, policy) ==
  [conns |-> conns, mcp |-> mcp, policy |-> policy,
   enforce |-> FALSE, prune |-> FALSE]
MCA == [name |-> "A", hash |-> 1, auth |-> "password", source |-> "file"]
MCB == [name |-> "B", hash |-> 3, auth |-> Unset, source |-> "none"]
MCFiles ==
  {MCFile(<<MCB, MCA>>, 11, 21),
   [MCFile(<<MCB>>, 11, 22) EXCEPT !.prune = TRUE],
   [MCFile(<<[MCA EXCEPT !.hash = 2, !.source = "env"]>>, 0, 0) EXCEPT !.enforce = TRUE]}
MCNames == {"A", "B"}
=============================================================================
