------------------------------ MODULE PipeSet -------------------------------
(***************************************************************************)
(* What the dpipe pool promises its clients: a set of free pipes from      *)
(* which a client takes one for itself alone, and to which it gives it     *)
(* back -- or, when it cannot, does not.  PipePool implements it with a    *)
(* spinlock, an array of slots and a count.                                *)
(***************************************************************************)
CONSTANTS Clients, Keys, NoKey

VARIABLES
  free,          \* the pipes nobody holds
  held           \* the pipe each client holds, or NoKey

vars == <<free, held>>

Init ==
  /\ free = Keys
  /\ held = [c \in Clients |-> NoKey]

\* acquire() has taken a pipe.
Take(c) ==
  /\ held[c] = NoKey
  /\ \E k \in free :
       /\ free' = free \ {k}
       /\ held' = [held EXCEPT ![c] = k]

\* release() has returned it.
Give(c) ==
  /\ held[c] # NoKey
  /\ free' = free \cup {held[c]}
  /\ held' = [held EXCEPT ![c] = NoKey]

\* The lock could not be had, and the pipe is leaked.
Lose(c) ==
  /\ held[c] # NoKey
  /\ held' = [held EXCEPT ![c] = NoKey]
  /\ UNCHANGED free

Next == \E c \in Clients : Take(c) \/ Give(c) \/ Lose(c)

Spec == Init /\ [][Next]_vars
=============================================================================
