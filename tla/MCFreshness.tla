---------------------------- MODULE MCFreshness -----------------------------
(***************************************************************************)
(* An instance of Freshness: two parts to a second, a time to live of one  *)
(* second.  The clients are interchangeable.                               *)
(***************************************************************************)
EXTENDS Freshness, TLC

ClientSymmetry == Permutations(Clients)
=============================================================================
