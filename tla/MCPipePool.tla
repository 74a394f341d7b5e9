----------------------------- MODULE MCPipePool -----------------------------
(***************************************************************************)
(* PipePool for TLC: the freelist map has a slot per key and the pool      *)
(* starts in the order Pool::init leaves it in.                            *)
(***************************************************************************)
EXTENDS PipePool

CONSTANTS K1, K2

\* Pool::init pushes the keys in order.
MCInit ==
  /\ Init
  /\ freelist[0] = K1

MCSpecQuick == MCInit /\ [][NextQuick]_vars
MCSpecDead == MCInit /\ [][NextDead]_vars
MCLiveSpec == MCSpecDead /\ Fairness
=============================================================================
