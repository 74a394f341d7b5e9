------------------------------ MODULE PipePool ------------------------------
(***************************************************************************)
(* The dpipe freelist that every attached client pops and pushes, and the  *)
(* spinlock in the arena's control block that guards it                    *)
(* (src/uclient/shared.cpp), with the daemon's breaking of a lock whose    *)
(* holder died (src/daemon/main.cpp, breakStaleLock).                      *)
(*                                                                         *)
(* A client's acquire() and release() are split at every bpf(2) call and   *)
(* every atomic access that moves the lock, the freelist or the splice,    *)
(* because those are the steps other processes can interleave with.  A     *)
(* client can die at any of them.                                          *)
(*                                                                         *)
(* The clock is abstracted to what breakStaleLock compares: taken_ns was   *)
(* never written, is less than a second old, or is at least a second old.  *)
(***************************************************************************)
EXTENDS Naturals

CONSTANTS
  Clients,       \* client connections, one request at a time each
  Keys,          \* dpipe keys; Pool::init numbers them from 0
  Slots,         \* entries of the dpipe_freelist map (BNCL_MAX_PIPES)
  NoClient,      \* the empty entry of a map of clients
  NoKey          \* no key

ASSUME SlotsAssumption == Slots \in Nat
ASSUME NoClientAssumption == NoClient \notin Clients
ASSUME NoKeyAssumption == NoKey \notin Keys

VARIABLES
  lock,          \* bncl_ctl.lock
  taken_ns,      \* bncl_ctl.taken_ns: "never", "fresh" or "old"
  num_free,      \* dpipes_meta.num_free
  freelist,      \* dpipe_freelist
  dpipes,        \* dpipes[k].stmt: whose statement the record names
  cpipe_map,     \* cpipe_map[k]: the client socket spliced to k
  sk_info,       \* pipe_sk_info of the client's socket: its key, or NoKey
  pc,            \* where each client is
  key,           \* the client's local `key`, NoKey before it has one
  meta,          \* the client's local copy of dpipes_meta.num_free
  alive,         \* FALSE once the process has died
  daemon         \* "run", or "break" between breakStaleLock's test and store

vars == <<lock, taken_ns, num_free, freelist, dpipes, cpipe_map, sk_info,
          pc, key, meta, alive, daemon>>

\* The two halves most actions leave alone together.
poolVars == <<num_free, freelist, dpipes>>
spliceVars == <<cpipe_map, sk_info>>

PCs == {"idle",
        "a_stamp", "a_meta", "a_slot", "a_count", "a_claim", "a_unlock",
        "a_splice", "a_pair", "held",
        "r_unpair", "p_lock",
        "p_stamp", "p_meta", "p_slot", "p_count", "unlock"}

\* Between the compare-and-swap in lockPipes() and the store in unlockPipes().
Section == {"a_stamp", "a_meta", "a_slot", "a_count", "a_claim", "a_unlock",
            "p_stamp", "p_meta", "p_slot", "p_count", "unlock"}

\* Between the write that pops a key and the write that pushes it back.
Carrying == {"a_claim", "a_unlock", "a_splice", "a_pair", "held", "r_unpair",
             "p_lock", "p_stamp", "p_meta", "p_slot", "p_count"}

InSection(c) == pc[c] \in Section
Carries(c) == pc[c] \in Carrying

FreeKeys == {freelist[i] : i \in 0 .. num_free - 1}

TypeOK ==
  /\ lock \in {0, 1}
  /\ taken_ns \in {"never", "fresh", "old"}
  /\ num_free \in 0 .. Slots
  /\ freelist \in [0 .. Slots - 1 -> Keys]
  /\ dpipes \in [Keys -> Clients \cup {NoClient}]
  /\ cpipe_map \in [Keys -> Clients \cup {NoClient}]
  /\ sk_info \in [Clients -> Keys \cup {NoKey}]
  /\ pc \in [Clients -> PCs]
  /\ key \in [Clients -> Keys \cup {NoKey}]
  /\ meta \in [Clients -> 0 .. Slots]
  /\ alive \in [Clients -> BOOLEAN]
  /\ daemon \in {"run", "break"}

\* Pool::init has run: every key is on the freelist exactly once and every
\* dpipe record is blank.
Init ==
  /\ lock = 0
  /\ taken_ns = "never"
  /\ num_free \in 0 .. Slots
  /\ freelist \in [0 .. Slots - 1 -> Keys]
  /\ \A i, j \in 0 .. num_free - 1 : i # j => freelist[i] # freelist[j]
  /\ FreeKeys = Keys
  /\ dpipes = [k \in Keys |-> NoClient]
  /\ cpipe_map = [k \in Keys |-> NoClient]
  /\ sk_info = [c \in Clients |-> NoKey]
  /\ pc = [c \in Clients |-> "idle"]
  /\ key = [c \in Clients |-> NoKey]
  /\ meta = [c \in Clients |-> 0]
  /\ alive = [c \in Clients |-> TRUE]
  /\ daemon = "run"

At(c, label) == alive[c] /\ pc[c] = label
Goto(c, label) == pc' = [pc EXCEPT ![c] = label]

\* Returning from acquire() without a pipe, or from release(): the locals go.
Return(c) ==
  /\ Goto(c, "idle")
  /\ key' = [key EXCEPT ![c] = NoKey]
  /\ meta' = [meta EXCEPT ![c] = 0]
-----------------------------------------------------------------------------
(* The lock.                                                               *)

\* Mutant of Lock: a store where the code has a compare-and-swap.
LockStore(c) ==
  /\ \/ At(c, "idle") /\ Goto(c, "a_stamp")
     \/ At(c, "p_lock") /\ Goto(c, "p_stamp")
  /\ lock' = 1
  /\ UNCHANGED <<taken_ns, poolVars, spliceVars, key, meta, alive, daemon>>

\* lockPipes(): the compare-and-swap, from acquire() or from release().
Lock(c) ==
  /\ lock = 0
  /\ \/ At(c, "idle") /\ Goto(c, "a_stamp")
     \/ At(c, "p_lock") /\ Goto(c, "p_stamp")
  /\ lock' = 1
  /\ UNCHANGED <<taken_ns, poolVars, spliceVars, key, meta, alive, daemon>>

\* Mutant of GiveUp: no limit on the attempts.
Spin(c) ==
  /\ At(c, "p_lock")
  /\ lock = 1
  /\ UNCHANGED vars

\* lockPipes() after 4096 failed attempts, where a key is at stake: release()
\* and acquire()'s splice failure do not push it back.  From idle the same
\* failure changes nothing.
GiveUp(c) ==
  /\ At(c, "p_lock")
  /\ lock = 1
  /\ Return(c)
  /\ UNCHANGED <<lock, taken_ns, poolVars, spliceVars, alive, daemon>>

\* lockPipes(): the time stamp, stored after the lock is taken.
Stamp(c) ==
  /\ \/ At(c, "a_stamp") /\ Goto(c, "a_meta")
     \/ At(c, "p_stamp") /\ Goto(c, "p_meta")
  /\ taken_ns' = "fresh"
  /\ UNCHANGED <<lock, poolVars, spliceVars, key, meta, alive, daemon>>

\* unlockPipes(), on the way out of acquire() with a pipe or in any other case.
Unlock(c) ==
  /\ \/ At(c, "a_unlock") /\ Goto(c, "a_splice") /\ UNCHANGED <<key, meta>>
     \/ At(c, "unlock") /\ Return(c)
  /\ lock' = 0
  /\ UNCHANGED <<taken_ns, poolVars, spliceVars, alive, daemon>>
-----------------------------------------------------------------------------
(* popDpipe() and the claim.                                               *)

\* Read dpipes_meta; an empty pool ends the attempt.
PopMeta(c) ==
  /\ At(c, "a_meta")
  /\ meta' = [meta EXCEPT ![c] = num_free]
  /\ Goto(c, IF num_free = 0 THEN "unlock" ELSE "a_slot")
  /\ UNCHANGED <<lock, taken_ns, poolVars, spliceVars, key, alive, daemon>>

\* Read the top slot.
PopSlot(c) ==
  /\ At(c, "a_slot")
  /\ key' = [key EXCEPT ![c] = freelist[meta[c] - 1]]
  /\ Goto(c, "a_count")
  /\ UNCHANGED <<lock, taken_ns, poolVars, spliceVars, meta, alive, daemon>>

\* Write the decremented count.
PopCount(c) ==
  /\ At(c, "a_count")
  /\ num_free' = meta[c] - 1
  /\ Goto(c, "a_claim")
  /\ UNCHANGED <<lock, taken_ns, freelist, dpipes, spliceVars, key, meta,
                 alive, daemon>>

\* Write the statement into the dpipe record -- or, when the record cannot be
\* read or bncl_stmt_get refuses a dead statement, push the key back.
Claim(c) ==
  /\ At(c, "a_claim")
  /\ \/ /\ dpipes' = [dpipes EXCEPT ![key[c]] = c]
        /\ Goto(c, "a_unlock")
     \/ /\ Goto(c, "p_meta")
        /\ UNCHANGED dpipes
  /\ UNCHANGED <<lock, taken_ns, num_free, freelist, spliceVars, key, meta,
                 alive, daemon>>

\* Register the socket in cpipe_map; if that fails the key is given back.
Splice(c) ==
  /\ At(c, "a_splice")
  /\ \/ /\ cpipe_map' = [cpipe_map EXCEPT ![key[c]] = c]
        /\ Goto(c, "a_pair")
     \/ /\ Goto(c, "p_lock")
        /\ UNCHANGED cpipe_map
  /\ UNCHANGED <<lock, taken_ns, poolVars, sk_info, key, meta, alive, daemon>>

\* Pair it.  If that fails the key is given back too, and the cpipe_map entry
\* stays behind.
Pair(c) ==
  /\ At(c, "a_pair")
  /\ \/ /\ sk_info' = [sk_info EXCEPT ![c] = key[c]]
        /\ Goto(c, "held")
     \/ /\ Goto(c, "p_lock")
        /\ UNCHANGED sk_info
  /\ UNCHANGED <<lock, taken_ns, poolVars, cpipe_map, key, meta, alive, daemon>>
-----------------------------------------------------------------------------
(* release() and pushDpipe().                                              *)

\* Mutant of Release: the pairing is left on the socket.
ReleasePaired(c) ==
  /\ At(c, "held")
  /\ Goto(c, "r_unpair")
  /\ UNCHANGED <<lock, taken_ns, poolVars, spliceVars, key, meta, alive, daemon>>

\* release(): clear the pairing first.
Release(c) ==
  /\ At(c, "held")
  /\ sk_info' = [sk_info EXCEPT ![c] = NoKey]
  /\ Goto(c, "r_unpair")
  /\ UNCHANGED <<lock, taken_ns, poolVars, cpipe_map, key, meta, alive, daemon>>

\* release(): then delete the cpipe_map entry.
Unsplice(c) ==
  /\ At(c, "r_unpair")
  /\ cpipe_map' = [cpipe_map EXCEPT ![key[c]] = NoClient]
  /\ Goto(c, "p_lock")
  /\ UNCHANGED <<lock, taken_ns, poolVars, sk_info, key, meta, alive, daemon>>

\* Mutant of PushMeta: the count is raised before the slot is written.
PushCountFirst(c) ==
  /\ At(c, "p_meta")
  /\ meta' = [meta EXCEPT ![c] = num_free]
  /\ num_free' = IF num_free < Slots THEN num_free + 1 ELSE num_free
  /\ Goto(c, "p_slot")
  /\ UNCHANGED <<lock, taken_ns, freelist, dpipes, spliceVars, key, alive, daemon>>

\* Read dpipes_meta.
PushMeta(c) ==
  /\ At(c, "p_meta")
  /\ meta' = [meta EXCEPT ![c] = num_free]
  /\ Goto(c, "p_slot")
  /\ UNCHANGED <<lock, taken_ns, poolVars, spliceVars, key, alive, daemon>>

\* Write the key into its slot; an index past the map is refused by the kernel.
PushSlot(c) ==
  /\ At(c, "p_slot")
  /\ IF meta[c] < Slots
       THEN /\ freelist' = [freelist EXCEPT ![meta[c]] = key[c]]
            /\ Goto(c, "p_count")
       ELSE /\ Goto(c, "unlock")
            /\ UNCHANGED freelist
  /\ UNCHANGED <<lock, taken_ns, num_free, dpipes, spliceVars, key, meta,
                 alive, daemon>>

\* Only then write the incremented count.
PushCount(c) ==
  /\ At(c, "p_count")
  /\ num_free' = meta[c] + 1
  /\ Goto(c, "unlock")
  /\ UNCHANGED <<lock, taken_ns, freelist, dpipes, spliceVars, key, meta,
                 alive, daemon>>
-----------------------------------------------------------------------------
(* Everything else that happens to the lock and the pool.                  *)

\* The process dies.  The kernel closes its socket, which takes the socket out
\* of cpipe_map and frees its sk_storage; nothing else is undone.
Crash(c) ==
  /\ alive[c]
  /\ alive' = [alive EXCEPT ![c] = FALSE]
  /\ cpipe_map' = [k \in Keys |-> IF cpipe_map[k] = c THEN NoClient
                                                     ELSE cpipe_map[k]]
  /\ sk_info' = [sk_info EXCEPT ![c] = NoKey]
  /\ UNCHANGED <<lock, taken_ns, poolVars, pc, key, meta, daemon>>

\* A second passes since the stamp.
Age ==
  /\ taken_ns = "fresh"
  /\ taken_ns' = "old"
  /\ UNCHANGED <<lock, poolVars, spliceVars, pc, key, meta, alive, daemon>>

\* breakStaleLock(): the lock is held and its stamp is a second old ...
BreakTest ==
  /\ daemon = "run"
  /\ lock = 1
  /\ taken_ns = "old"
  /\ daemon' = "break"
  /\ UNCHANGED <<lock, taken_ns, poolVars, spliceVars, pc, key, meta, alive>>

\* Mutant of BreakStore: the stamp is cleared and the lock is not.
BreakStamp ==
  /\ daemon = "break"
  /\ taken_ns' = "never"
  /\ daemon' = "run"
  /\ UNCHANGED <<lock, poolVars, spliceVars, pc, key, meta, alive>>

\* ... so it is freed.
BreakStore ==
  /\ daemon = "break"
  /\ lock' = 0
  /\ daemon' = "run"
  /\ UNCHANGED <<taken_ns, poolVars, spliceVars, pc, key, meta, alive>>

ClientStep(c) ==
  \/ Lock(c) \/ GiveUp(c) \/ Stamp(c) \/ Unlock(c)
  \/ PopMeta(c) \/ PopSlot(c) \/ PopCount(c) \/ Claim(c) \/ Splice(c)
  \/ Pair(c)
  \/ Release(c) \/ Unsplice(c) \/ PushMeta(c) \/ PushSlot(c) \/ PushCount(c)

Next ==
  \/ \E c \in Clients : ClientStep(c) \/ Crash(c)
  \/ Age \/ BreakTest \/ BreakStore

\* The program with no assumption on its timing.
Spec == Init /\ [][Next]_vars
-----------------------------------------------------------------------------
(* Assumptions on timing.                                                  *)

NoLiveHolder == \A c \in Clients : alive[c] => ~InSection(c)

\* A live holder leaves the section within a second of its stamp: it runs a
\* few bpf(2) calls and is never stopped for long.
NextQuick ==
  \/ \E c \in Clients : ClientStep(c) \/ Crash(c)
  \/ Age /\ NoLiveHolder
  \/ BreakTest \/ BreakStore

\* What breakStaleLock's comment concludes: a lock it finds stale was left by a
\* holder that died.
NextDead ==
  \/ \E c \in Clients : ClientStep(c) \/ Crash(c)
  \/ Age
  \/ BreakTest /\ NoLiveHolder
  \/ BreakStore

SpecQuick == Init /\ [][NextQuick]_vars
SpecDead == Init /\ [][NextDead]_vars

\* The steps a live client takes by itself once it has entered acquire() or
\* release(); entering either is up to the application.
Runs(c) == pc[c] \notin {"idle", "held"} /\ ClientStep(c)

\* The kernel schedules every live client, the daemon's 500 ms tick keeps
\* coming, and time passes.
Fairness ==
  /\ \A c \in Clients : WF_vars(Runs(c))
  /\ WF_vars(Age)
  /\ WF_vars(BreakTest /\ NoLiveHolder)
  /\ WF_vars(BreakStore)

LiveSpec == SpecDead /\ Fairness
-----------------------------------------------------------------------------
(* Properties.                                                             *)

\* No dpipe is in the hands of two clients, and none that is in a client's
\* hands is still on the freelist: release() leaks a pipe rather than risk it,
\* because "one connection receiving another's rows ... is a wrong answer".
NoSharedPipe ==
  /\ \A c, d \in Clients : c # d /\ Carries(c) /\ Carries(d) => key[c] # key[d]
  /\ \A c \in Clients : Carries(c) =>
       \A i \in 0 .. num_free - 1 : freelist[i] # key[c]

\* No key is on the freelist twice.
FreelistDistinct ==
  \A i, j \in 0 .. num_free - 1 : i # j => freelist[i] # freelist[j]

\* The record of a pipe names the statement of the client that claimed it, for
\* as long as that client may post a request on it: the daemon resolves every
\* request through that record.
Claimed == {"a_unlock", "a_splice", "a_pair", "held"}
RecordIsHolders == \A c \in Clients : pc[c] \in Claimed => dpipes[key[c]] = c

\* While a live client's socket is paired with a key, that client holds the
\* key and replies on it come back to that client's socket.
SpliceIsHolders ==
  \A c \in Clients : alive[c] /\ sk_info[c] # NoKey =>
    /\ pc[c] = "held"
    /\ sk_info[c] = key[c]
    /\ cpipe_map[key[c]] = c

\* A lock that has been stamped at least once is always freed again, also when
\* its holder dies with it.  One whose holder dies before the first stamp of all is
\* not: breakStaleLock() takes a stamp of zero to mean that nobody has it.
StampedLockIsFreed == (lock = 1 /\ taken_ns # "never") ~> (lock = 0)

\* A live client that has begun to give a pipe back gets out of release().
ReleaseReturns ==
  \A c \in Clients : (pc[c] = "r_unpair") ~> (pc[c] = "idle" \/ ~alive[c])
-----------------------------------------------------------------------------
(* The inductive invariant behind the safety properties, for SpecDead.     *)

\* A client has a key from the moment it reads one from a slot.
HasKey == \A c \in Clients : Carries(c) \/ pc[c] = "a_count" => key[c] \in Keys

\* Among live clients the section is exclusive, and the lock is held.
LiveExclusion ==
  \A c \in Clients : alive[c] /\ InSection(c) =>
    /\ lock = 1
    /\ \A d \in Clients : alive[d] /\ InSection(d) => d = c

\* Between breakStaleLock's test and its store the lock stays the dead one's.
BreakIsSound == daemon = "break" => lock = 1 /\ NoLiveHolder

\* What a live client read in the section is still what is there.
LocalsFresh ==
  \A c \in Clients : alive[c] =>
    /\ pc[c] \in {"a_slot", "a_count"} => meta[c] = num_free /\ num_free > 0
    /\ pc[c] = "a_count" => key[c] = freelist[num_free - 1]
    /\ pc[c] \in {"p_slot", "p_count"} => meta[c] = num_free
    /\ pc[c] = "p_count" => num_free < Slots /\ freelist[num_free] = key[c]

\* Between registering a socket and pairing it, the registration stands.
Registered == \A c \in Clients : At(c, "a_pair") => cpipe_map[key[c]] = c

\* The pool is sound at every step of every client, dead ones included: the count is
\* within the map, no key is on the freelist twice or in two hands, a pipe's record
\* names the statement of the client that claimed it, and a paired socket is spliced to
\* the pipe its own connection holds.  acquire(), release() and the daemon, which
\* resolves a request through the record, rely on each of these.
PoolInv ==
  /\ TypeOK
  /\ HasKey
  /\ LiveExclusion
  /\ BreakIsSound
  /\ LocalsFresh
  /\ FreelistDistinct
  /\ NoSharedPipe
  /\ RecordIsHolders
  /\ Registered
  /\ SpliceIsHolders
-----------------------------------------------------------------------------
(* The pool as its clients see it: popping takes effect when the count is  *)
(* written, pushing likewise.                                              *)

heldKeys == [c \in Clients |-> IF Carries(c) THEN key[c] ELSE NoKey]

Pipes == INSTANCE PipeSet WITH free <- FreeKeys, held <- heldKeys

\* Provided only a dead holder's lock is broken, the lock, the slots and the
\* count behave as a set of pipes each taken by one client at a time: popDpipe()
\* and pushDpipe() are atomic whatever the interleaving and whoever dies.
ImplementsPipeSet == Pipes!Spec
=============================================================================
