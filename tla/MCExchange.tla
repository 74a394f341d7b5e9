----------------------------- MODULE MCExchange -----------------------------
(***************************************************************************)
(* Exchange for TLC.                                                       *)
(***************************************************************************)
EXTENDS Exchange, TLC

\* Statements and pipes are interchangeable, and so are connections when they all
\* read in the same way.
Symmetry ==
  Permutations(Conns) \cup Permutations(Pipes) \cup Permutations(Stmts)

\* What a later step can read: the command in hand until it is sent, the statement
\* while it is asked about or captured, the verdict until settle() is done; and
\* a pipe that is free and empty is pointed at another statement before it is used.
LiveState ==
  LET Until(labels, x) == [c \in Conns |-> IF pc[c] \in labels THEN x[c] ELSE Nil]
  IN  <<serverVars, rx, pc, connVars, free, cpipe, dpipe, inbox, cacheVars, daemon,
        writes, slow,
        Until({"acquire", "ask", "unask", "pass", "wait", "release", "settle"}, query),
        [c \in Conns |->
           IF capturing[c] \/ pc[c] \in {"wait", "release", "settle", "s_acquire"}
             THEN pending[c] ELSE Nil],
        Until({"release", "settle"}, status),
        [k \in Pipes |-> IF cpipe[k] = Nil /\ inbox[k] = << >> THEN Nil ELSE dpipes[k]]>>
=============================================================================
