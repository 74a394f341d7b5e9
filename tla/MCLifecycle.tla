---------------------------- MODULE MCLifecycle -----------------------------
(***************************************************************************)
(* Lifecycle for TLC.  Daemons are interchangeable while they are off, so  *)
(* that the one that is started when none is up may be d1; d2 is the one   *)
(* that is started beside it.                                              *)
(***************************************************************************)
EXTENDS Lifecycle

CONSTANTS d1, d2

D2IsSecond == dm[d2] # Off => dm[d1] # Off
=============================================================================
