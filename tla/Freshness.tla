----------------------------- MODULE Freshness ------------------------------
(***************************************************************************)
(* How old the rows are that a client is served: one statement, its record *)
(* in the arena and its key in Valkey (src/daemon/main.cpp: expired, serve,*)
(* store; src/uclient/shared.cpp: lookupPayload; src/uclient/agent.cpp:    *)
(* handleWrite, settle).  The switch of the local tier may change between  *)
(* any two requests, and the agent's copy of it lags behind the daemon's.  *)
(*                                                                         *)
(* Time is counted in parts of a second, because the daemon compares       *)
(* nanoseconds and the client whole seconds.  Rows are as old as the time  *)
(* since a client handed them to store().                                  *)
(***************************************************************************)
EXTENDS Integers

CONSTANTS
  Clients,
  Second,       \* units of time in a second
  TTL,          \* Daemon::opt.ttl, in seconds; with 0 nothing expires in the arena
  MaxWait,      \* how long the daemon waits for one reply of Valkey at most
  MaxNow        \* bound: time

\* A payload can be fetched within its own time to live.
ASSUME TimeAssumption ==
  /\ Second \in Nat \ {0} /\ TTL \in Nat \ {0} /\ MaxNow \in Nat
  /\ MaxWait \in Nat /\ MaxWait <= TTL * Second

VARIABLES
  now,
  rec,          \* the record: stmt_data, when its rows were handed in, stmt_ts
  key,          \* the key in Valkey, when its rows were handed in, when it expires
  d,            \* the daemon: idle, or waiting for Valkey since start
  cl            \* each client: idle, waiting for a verdict, or told that there is a payload;
                \* when it asked, if both ends bypass the local tier; when it was told, if
                \* the payload has not been dropped since

vars == <<now, rec, key, d, cl>>

Life == TTL * Second

Idle == [at |-> "idle", start |-> 0, born |-> 0, done |-> FALSE, found |-> FALSE]
NoRows == [has |-> FALSE, born |-> 0, ts |-> 0]
NoKey == [has |-> FALSE, born |-> 0, expires |-> 0]
Resting == [at |-> "idle", since |-> 0, told |-> 0]

Init ==
  /\ now = 1
  /\ rec = NoRows /\ key = NoKey
  /\ d = Idle
  /\ cl = [c \in Clients |-> Resting]

Tick ==
  /\ now < MaxNow
  /\ d.at # "idle" => now < d.start + MaxWait
  /\ now' = now + 1
  /\ UNCHANGED <<rec, key, d, cl>>
-----------------------------------------------------------------------------
(* The two tests of age.                                                   *)

\* Mutant of expired: the daemon counts whole seconds too.
expiredSeconds(r) == (now - r.ts) \div Second > TTL

\* expired(): the daemon's.
expired(r) == now - r.ts > Life

\* Mutant of FreshForClient: the daemon's verdict is taken as it is.
FreshForClientTrusts(r) == r.has

\* lookupPayload(): the client's, in whole seconds.
FreshForClient(r) == r.has /\ ~(now > r.ts /\ (now - r.ts) \div Second > TTL)
-----------------------------------------------------------------------------
(* The client.                                                             *)

\* handleWrite(): a client asks when it finds a payload, or when the local tier is off;
\* otherwise its query goes to the server.
Ask(c, local_s) ==
  /\ cl[c].at = "idle"
  /\ local_s => FreshForClient(rec)
  /\ cl' = [cl EXCEPT ![c] = [Resting EXCEPT !.at = "asked",
                                          !.since = IF local_s THEN 0 ELSE now]]
  /\ UNCHANGED <<now, rec, key, d>>

\* settle(): after REPLY_OK the client is served what the record holds by now, if that
\* is still there and fresh; otherwise, and out of time, its query goes to the server.
Settle(c) ==
  /\ cl[c].at # "idle"
  /\ cl' = [cl EXCEPT ![c] = Resting]
  /\ UNCHANGED <<now, rec, key, d>>

\* What settle() finds.
IsServed(c) == cl[c].at = "told" /\ FreshForClient(rec)
-----------------------------------------------------------------------------
(* The daemon.                                                             *)

\* reply(AGENT_OK).
Told(since) == [at |-> "told", since |-> since, told |-> now]

\* Mutant of Hit: the daemon does not look at its switch.
HitAlways(c) ==
  /\ d.at = "idle" /\ cl[c].at = "asked"
  /\ rec.has /\ ~expired(rec)
  /\ cl' = [cl EXCEPT ![c] = Told(cl[c].since)]
  /\ UNCHANGED <<now, rec, key, d>>

\* serve(): a hit in the arena, with the local tier on.
Hit(c) ==
  /\ d.at = "idle" /\ cl[c].at = "asked"
  /\ rec.has /\ ~expired(rec)
  /\ cl' = [cl EXCEPT ![c] = Told(0)]
  /\ UNCHANGED <<now, rec, key, d>>

\* serve(): the clock is read, and Valkey is asked.
Get(c, local_on) ==
  /\ d.at = "idle" /\ cl[c].at = "asked"
  /\ ~(local_on /\ rec.has /\ ~expired(rec))
  /\ d' = [Idle EXCEPT !.at = "get", !.start = now]
  /\ cl' = [cl EXCEPT ![c].at = "fetch"]
  /\ UNCHANGED <<now, rec, key>>

\* The client whose request the daemon serves, unless it has given up.
Asker == {c \in Clients : cl[c].at = "fetch"}

\* serve() with the value: it goes to the arena, dated when Valkey was asked.
Fetched ==
  /\ d.at = "get" /\ d.done /\ d.found
  /\ rec' = [has |-> TRUE, born |-> d.born, ts |-> d.start]
  /\ cl' = [c \in Clients |-> IF c \in Asker THEN Told(cl[c].since) ELSE cl[c]]
  /\ d' = Idle
  /\ UNCHANGED <<now, key>>

\* serve() with the value and a full arena: AGENT_CACHE_ERROR.
ArenaFull ==
  /\ d.at = "get" /\ d.done /\ d.found
  /\ cl' = [c \in Clients |-> IF c \in Asker THEN Resting ELSE cl[c]]
  /\ d' = Idle
  /\ UNCHANGED <<now, rec, key>>

\* serve() with nothing, with no reply or with half of one: the record forgets its payload.
Missed ==
  /\ d.at = "get"
  /\ rec' = NoRows
  /\ cl' = [c \in Clients |-> IF c \in Asker THEN Resting ELSE [cl[c] EXCEPT !.told = 0]]
  /\ d' = Idle
  /\ UNCHANGED <<now, key>>

\* store(): SETEX, and then the arena, dated when that is done.
Store ==
  /\ d.at = "idle"
  /\ d' = [Idle EXCEPT !.at = "setex", !.start = now, !.born = now]
  /\ UNCHANGED <<now, rec, key, cl>>

\* Mutant of Stored: the record is given the time it expires.
StoredExpiry ==
  /\ d.at = "setex"
  /\ rec' \in {rec, [has |-> TRUE, born |-> d.born, ts |-> now + Life]}
  /\ d' = Idle
  /\ UNCHANGED <<now, key, cl>>

\* With or without an answer of Valkey, and unless the arena is full.
Stored ==
  /\ d.at = "setex"
  /\ rec' \in {rec, [has |-> TRUE, born |-> d.born, ts |-> now]}
  /\ d' = Idle
  /\ UNCHANGED <<now, key, cl>>
-----------------------------------------------------------------------------
(* Valkey.                                                                 *)

\* GET: a key is found until it expires.
ValkeyGets ==
  /\ d.at = "get" /\ ~d.done
  /\ d' = [d EXCEPT !.done = TRUE, !.found = key.has /\ now <= key.expires, !.born = key.born]
  /\ UNCHANGED <<now, rec, key, cl>>

\* SETEX.
ValkeySets ==
  /\ d.at = "setex" /\ ~d.done
  /\ d' = [d EXCEPT !.done = TRUE]
  /\ key' = [has |-> TRUE, born |-> d.born, expires |-> now + Life]
  /\ UNCHANGED <<now, rec, cl>>

\* The daemon of another machine stores the statement; the key is evicted or flushed.
OtherMachine ==
  /\ key' \in {NoKey, [has |-> TRUE, born |-> now, expires |-> now + Life]}
  /\ UNCHANGED <<now, rec, d, cl>>

Next ==
  \/ Tick
  \/ \E c \in Clients :
       \/ \E local \in BOOLEAN : Ask(c, local) \/ Get(c, local)
       \/ Settle(c) \/ Hit(c)
  \/ Fetched \/ ArenaFull \/ Missed \/ Store \/ Stored
  \/ ValkeyGets \/ ValkeySets \/ OtherMachine

Spec == Init /\ [][Next]_vars
-----------------------------------------------------------------------------
(* Properties.                                                             *)

\* The times, the two copies of the rows, and who waits for whom.
TypeOK ==
  /\ now \in Nat
  /\ rec \in [has : BOOLEAN, born : Nat, ts : Nat] /\ rec.ts <= now
  /\ key \in [has : BOOLEAN, born : Nat, expires : Nat]
  /\ d \in [at : {"idle", "get", "setex"}, start : Nat, born : Nat, done : BOOLEAN, found : BOOLEAN]
  /\ cl \in [Clients -> [at : {"idle", "asked", "fetch", "told"}, since : Nat, told : Nat]]

\* The waits of the daemon: it waits no longer than MaxWait, and what Valkey has found
\* for it had not expired.
WaitInv ==
  /\ d.at # "idle" => d.start <= now /\ now <= d.start + MaxWait
  /\ d.at = "setex" => d.born = d.start
  /\ d.at = "get" /\ d.done /\ d.found => d.start <= d.born + Life + MaxWait

\* Rows are dated no later than a time to live and a wait after they were handed in.
DateInv ==
  /\ key.has => key.expires <= key.born + Life + MaxWait
  /\ rec.has => rec.ts <= rec.born + Life + MaxWait

\* A client asked before the fetch that will answer it began, and its answer is dated
\* after it asked; the payload it was told of is there, and was fresh.
ClientInv(c) ==
  /\ cl[c].since <= now
  /\ cl[c].at = "fetch" => d.at = "get"
  /\ cl[c].at \in {"fetch", "told"} /\ d.at = "get" => cl[c].since <= d.start
  /\ cl[c].at = "told" /\ rec.has => cl[c].since <= rec.ts
  /\ cl[c].told # 0 =>
       /\ cl[c].at = "told" /\ rec.has
       /\ cl[c].told <= now /\ cl[c].told <= rec.ts + Life
       /\ d.at = "get" => cl[c].told <= d.start

\* The inductive invariant: what serve() and store() keep true of the dates they write and
\* the waits in between, so that a client that finds a payload knows how old it can be.
AgeInv == TypeOK /\ now > 0 /\ WaitInv /\ DateInv /\ \A c \in Clients : ClientInv(c)

\* Rows that a client is served are younger than twice the time to live, a second for
\* the client's rounding, and one wait for Valkey: a fetch dates the rows anew, and
\* they may have been in Valkey for their whole time (serve: stmt_ts = now).
StalenessIsBounded ==
  \A c \in Clients : IsServed(c) => now - rec.born < 2 * Life + Second + MaxWait

\* With the local tier off at both ends, what a client is served was stored or fetched
\* after it asked, whatever the other clients and the LOCAL command do meanwhile.
BypassIsFresh ==
  \A c \in Clients : IsServed(c) => rec.ts >= cl[c].since

\* A payload the daemon announces is found by the client that reads it within a second,
\* unless a miss has dropped it: the client's test of age never fails where the
\* daemon's has just passed, for all that one counts nanoseconds and the other seconds.
VerdictHolds ==
  \A c \in Clients :
    cl[c].told # 0 /\ now - cl[c].told < Second => IsServed(c)
=============================================================================
