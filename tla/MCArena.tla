------------------------------ MODULE MCArena -------------------------------
(***************************************************************************)
(* Arena for TLC, with the accounting that needs a sum.                    *)
(***************************************************************************)
EXTENDS Arena, FiniteSetsExt

\* `used', which status reports, is the payload of the blocks that are in use.
UsedIsExact ==
  used = MapThenSumSet(LAMBDA o : Payload(size[o]), held \cup retired)

\* What is free can be found again by walking from free_head, and what is not free is
\* what `used' says: alloc() fails only when nothing fits, and status tells the truth.
AccountsAreExact == FreeListReaches /\ UsedIsExact

\* What the next steps depend on, so that states that differ only in headers and
\* footers left behind by merging are one state.  The properties below are about
\* these values only; that nothing else is read is what BlocksTile says.
LiveHeap ==
  <<starts, [o \in starts |-> <<size[o], free[o], foot[End(o)]>>],
    list.head, [o \in FreeBlocks |-> <<list.next[o], list.prev[o]>>],
    used, held, [o \in retired |-> age[o]], pc, off, want, todo>>

=============================================================================
