----------------------------- MODULE MCStmtLife -----------------------------
(***************************************************************************)
(* StmtLife for TLC.                                                       *)
(***************************************************************************)
EXTENDS StmtLife, TLC

\* Records, payload blocks, pipes, clients and statements are interchangeable.
Symmetry ==
  Permutations(Clients) \cup Permutations(Recs) \cup Permutations(Bufs)
    \cup Permutations(Pipes) \cup Permutations(Stmts)
=============================================================================
