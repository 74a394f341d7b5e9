--------------------------- MODULE FreshnessProofs --------------------------
(***************************************************************************)
(* Proofs that the age of served rows is bounded, that bypassing the local *)
(* tier reaches Valkey, and that a verdict holds for a second, for every   *)
(* time to live, every resolution of the clock, every longest wait for     *)
(* Valkey and any number of clients.                                       *)
(***************************************************************************)
EXTENDS Freshness, TLAPS

\* What whole seconds say of a time: a \div s <= t until t + 1 seconds have passed.
LEMMA WholeSeconds ==
  ASSUME NEW a \in Nat, NEW s \in Nat \ {0}, NEW t \in Nat
  PROVE  a \div s <= t <=> a < t * s + s
<1> DEFINE q == a \div s
<1>1. q \in Nat /\ a % s \in 0 .. s - 1 /\ a = s * q + (a % s)
  OBVIOUS
<1>2. CASE q <= t
  <2>1. s * q <= s * t
    BY <1>1, <1>2
  <2>2. QED
    BY <1>1, <1>2, <2>1
<1>3. CASE q > t
  <2>1. q >= t + 1
    BY <1>1, <1>3
  <2>2. s * q >= s * (t + 1)
    BY <1>1, <2>1
  <2>3. QED
    BY <1>1, <1>3, <2>2
<1>4. QED
  BY <1>1, <1>2, <1>3

LEMMA LifeIsNat == Life \in Nat /\ MaxWait <= Life /\ Second \in Nat \ {0} /\ MaxWait \in Nat
  BY TimeAssumption DEF Life

\* FreshForClient without the division.
LEMMA FreshUntil ==
  ASSUME TypeOK
  PROVE  FreshForClient(rec) <=> rec.has /\ now - rec.ts < Life + Second
<1>1. now \in Nat /\ rec.ts \in Nat /\ rec.ts <= now
  BY DEF TypeOK
<1>2. now - rec.ts \in Nat
  BY <1>1
<1>3. (now - rec.ts) \div Second <= TTL <=> now - rec.ts < TTL * Second + Second
  BY <1>2, WholeSeconds, TimeAssumption
<1>4. (now - rec.ts) \div Second \in Int
  BY <1>2, TimeAssumption
<1>5. rec.ts = now => now - rec.ts < Life + Second
  BY <1>1, LifeIsNat
<1>6. QED
  BY <1>1, <1>3, <1>4, <1>5, TimeAssumption DEF FreshForClient, Life

LEMMA InitAgeInv == Init => AgeInv
  BY LifeIsNat DEF Init, AgeInv, TypeOK, WaitInv, DateInv, ClientInv, Idle, NoRows, NoKey, Resting

\* No action takes the daemon past its wait, dates rows later than they may be, or
\* takes from a client what it was told.
LEMMA NextAgeInv == AgeInv /\ [Next]_vars => AgeInv'
<1> SUFFICES ASSUME AgeInv, [Next]_vars PROVE AgeInv'
  OBVIOUS
<1> USE LifeIsNat DEF AgeInv
<1>1. CASE Tick
  <2>1. TypeOK' /\ (now > 0)' /\ WaitInv' /\ DateInv'
    BY <1>1 DEF Tick, TypeOK, WaitInv, DateInv
  <2>2. ASSUME NEW c \in Clients PROVE ClientInv(c)'
    BY <1>1, <2>2 DEF Tick, TypeOK, ClientInv
  <2>3. QED
    BY <2>1, <2>2
<1>2. ASSUME NEW b \in Clients, NEW local \in BOOLEAN, Ask(b, local) PROVE AgeInv'
  <2>1. TypeOK' /\ (now > 0)' /\ WaitInv' /\ DateInv'
    BY <1>2 DEF Ask, TypeOK, WaitInv, DateInv, Resting
  <2>2. ASSUME NEW c \in Clients PROVE ClientInv(c)'
    BY <1>2, <2>2 DEF Ask, TypeOK, ClientInv, Resting
  <2>3. QED
    BY <2>1, <2>2
<1>3. ASSUME NEW b \in Clients, NEW local \in BOOLEAN, Get(b, local) PROVE AgeInv'
  <2>1. TypeOK' /\ (now > 0)' /\ WaitInv' /\ DateInv'
    <3>1. TypeOK' /\ (now > 0)'
      BY <1>3 DEF Get, TypeOK, Idle
    <3>2. WaitInv'
      BY <1>3 DEF Get, TypeOK, WaitInv, DateInv, Idle
    <3>3. DateInv'
      BY <1>3 DEF Get, TypeOK, WaitInv, DateInv, Idle
    <3>4. QED
      BY <3>1, <3>2, <3>3
  <2>2. ASSUME NEW c \in Clients PROVE ClientInv(c)'
    BY <1>3, <2>2 DEF Get, TypeOK, ClientInv, Idle
  <2>3. QED
    BY <2>1, <2>2
<1>4. ASSUME NEW b \in Clients, Settle(b) PROVE AgeInv'
  <2>1. TypeOK' /\ (now > 0)' /\ WaitInv' /\ DateInv'
    BY <1>4 DEF Settle, TypeOK, WaitInv, DateInv, Resting
  <2>2. ASSUME NEW c \in Clients PROVE ClientInv(c)'
    BY <1>4, <2>2 DEF Settle, TypeOK, ClientInv, Resting
  <2>3. QED
    BY <2>1, <2>2
<1>5. ASSUME NEW b \in Clients, Hit(b) PROVE AgeInv'
  <2>1. TypeOK' /\ (now > 0)' /\ WaitInv' /\ DateInv'
    BY <1>5 DEF Hit, TypeOK, WaitInv, DateInv, Told
  <2>2. ASSUME NEW c \in Clients PROVE ClientInv(c)'
    BY <1>5, <2>2 DEF Hit, TypeOK, ClientInv, Told, expired
  <2>3. QED
    BY <2>1, <2>2
<1>6. CASE Fetched
  <2>1. TypeOK' /\ (now > 0)' /\ WaitInv' /\ DateInv'
    BY <1>6 DEF Fetched, TypeOK, WaitInv, DateInv, Told, Idle
  <2>2. ASSUME NEW c \in Clients PROVE ClientInv(c)'
    BY <1>6, <2>2 DEF Fetched, TypeOK, WaitInv, ClientInv, Told, Asker, Idle
  <2>3. QED
    BY <2>1, <2>2
<1>7. CASE ArenaFull
  <2>1. TypeOK' /\ (now > 0)' /\ WaitInv' /\ DateInv'
    BY <1>7 DEF ArenaFull, TypeOK, WaitInv, DateInv, Resting, Idle
  <2>2. ASSUME NEW c \in Clients PROVE ClientInv(c)'
    BY <1>7, <2>2 DEF ArenaFull, TypeOK, ClientInv, Resting, Asker, Idle
  <2>3. QED
    BY <2>1, <2>2
<1>8. CASE Missed
  <2>1. TypeOK' /\ (now > 0)' /\ WaitInv' /\ DateInv'
    BY <1>8 DEF Missed, TypeOK, WaitInv, DateInv, Resting, Idle, NoRows
  <2>2. ASSUME NEW c \in Clients PROVE ClientInv(c)'
    BY <1>8, <2>2 DEF Missed, TypeOK, ClientInv, Resting, Asker, Idle, NoRows
  <2>3. QED
    BY <2>1, <2>2
<1>9. CASE Store
  <2>1. TypeOK' /\ (now > 0)' /\ WaitInv' /\ DateInv'
    <3>1. TypeOK' /\ (now > 0)'
      BY <1>9 DEF Store, TypeOK, Idle
    <3>2. WaitInv'
      BY <1>9 DEF Store, TypeOK, WaitInv, DateInv, Idle
    <3>3. DateInv'
      BY <1>9 DEF Store, TypeOK, WaitInv, DateInv, Idle
    <3>4. QED
      BY <3>1, <3>2, <3>3
  <2>2. ASSUME NEW c \in Clients PROVE ClientInv(c)'
    BY <1>9, <2>2 DEF Store, TypeOK, ClientInv, Idle
  <2>3. QED
    BY <2>1, <2>2
<1>10. CASE Stored
  <2>1. TypeOK' /\ (now > 0)' /\ WaitInv' /\ DateInv'
    <3>1. TypeOK' /\ (now > 0)'
      <4>1. [has |-> TRUE, born |-> d.born, ts |-> now] \in [has : BOOLEAN, born : Nat, ts : Nat]
        BY DEF TypeOK
      <4>2. rec' \in [has : BOOLEAN, born : Nat, ts : Nat] /\ rec'.ts <= now
        <5>1. CASE rec' = rec
          BY <5>1 DEF TypeOK
        <5>2. CASE rec' = [has |-> TRUE, born |-> d.born, ts |-> now]
          BY <4>1, <5>2 DEF TypeOK
        <5>3. QED
          BY <1>10, <5>1, <5>2 DEF Stored
      <4>3. d' \in [at : {"idle", "get", "setex"}, start : Nat, born : Nat, done : BOOLEAN,
                    found : BOOLEAN]
        BY <1>10 DEF Stored, Idle
      <4>4. QED
        BY <1>10, <4>2, <4>3 DEF Stored, TypeOK
    <3>2. WaitInv'
      BY <1>10 DEF Stored, TypeOK, WaitInv, DateInv, Idle
    <3>3. DateInv'
      BY <1>10 DEF Stored, TypeOK, WaitInv, DateInv, Idle
    <3>4. QED
      BY <3>1, <3>2, <3>3
  <2>2. ASSUME NEW c \in Clients PROVE ClientInv(c)'
    BY <1>10, <2>2 DEF Stored, TypeOK, ClientInv, Idle
  <2>3. QED
    BY <2>1, <2>2
<1>11. CASE ValkeyGets
  <2>1. TypeOK' /\ (now > 0)' /\ WaitInv' /\ DateInv'
    <3>1. TypeOK' /\ (now > 0)'
      BY <1>11 DEF ValkeyGets, TypeOK
    <3>2. WaitInv'
      BY <1>11 DEF ValkeyGets, TypeOK, WaitInv, DateInv
    <3>3. DateInv'
      BY <1>11 DEF ValkeyGets, TypeOK, WaitInv, DateInv
    <3>4. QED
      BY <3>1, <3>2, <3>3
  <2>2. ASSUME NEW c \in Clients PROVE ClientInv(c)'
    BY <1>11, <2>2 DEF ValkeyGets, TypeOK, ClientInv
  <2>3. QED
    BY <2>1, <2>2
<1>12. CASE ValkeySets
  <2>1. TypeOK' /\ (now > 0)' /\ WaitInv' /\ DateInv'
    <3>1. TypeOK' /\ (now > 0)'
      <4>1. d.born \in Nat /\ now + Life \in Nat
        BY DEF TypeOK
      <4>2. key' \in [has : BOOLEAN, born : Nat, expires : Nat]
        BY <1>12, <4>1 DEF ValkeySets
      <4>3. d' \in [at : {"idle", "get", "setex"}, start : Nat, born : Nat, done : BOOLEAN,
                    found : BOOLEAN]
        BY <1>12 DEF ValkeySets, TypeOK
      <4>4. QED
        BY <1>12, <4>2, <4>3 DEF ValkeySets, TypeOK
    <3>2. WaitInv'
      BY <1>12 DEF ValkeySets, TypeOK, WaitInv, DateInv
    <3>3. DateInv'
      BY <1>12 DEF ValkeySets, TypeOK, WaitInv, DateInv
    <3>4. QED
      BY <3>1, <3>2, <3>3
  <2>2. ASSUME NEW c \in Clients PROVE ClientInv(c)'
    BY <1>12, <2>2 DEF ValkeySets, TypeOK, ClientInv
  <2>3. QED
    BY <2>1, <2>2
<1>13. CASE OtherMachine
  <2>1. TypeOK' /\ (now > 0)' /\ WaitInv' /\ DateInv'
    <3>1. TypeOK' /\ (now > 0)'
      <4>1. now \in Nat /\ now + Life \in Nat
        BY DEF TypeOK
      <4>2. key' \in [has : BOOLEAN, born : Nat, expires : Nat]
        <5>1. CASE key' = NoKey
          BY <5>1 DEF NoKey
        <5>2. CASE key' = [has |-> TRUE, born |-> now, expires |-> now + Life]
          BY <4>1, <5>2
        <5>3. QED
          BY <1>13, <5>1, <5>2 DEF OtherMachine
      <4>3. QED
        BY <1>13, <4>2 DEF OtherMachine, TypeOK
    <3>2. WaitInv'
      BY <1>13 DEF OtherMachine, TypeOK, WaitInv, DateInv, NoKey
    <3>3. DateInv'
      BY <1>13 DEF OtherMachine, TypeOK, WaitInv, DateInv, NoKey
    <3>4. QED
      BY <3>1, <3>2, <3>3
  <2>2. ASSUME NEW c \in Clients PROVE ClientInv(c)'
    BY <1>13, <2>2 DEF OtherMachine, TypeOK, ClientInv
  <2>3. QED
    BY <2>1, <2>2
<1>14. CASE UNCHANGED vars
  BY <1>14 DEF vars, TypeOK, WaitInv, DateInv, ClientInv
<1>15. QED
  BY <1>1, <1>2, <1>3, <1>4, <1>5, <1>6, <1>7, <1>8, <1>9, <1>10, <1>11, <1>12, <1>13, <1>14
     DEF Next

\* The daemon's waits, the dates of the rows and what the clients were told stay
\* consistent, for every time to live and any number of clients (serve, store, settle).
THEOREM DatesAreSound == Spec => []AgeInv
  BY InitAgeInv, NextAgeInv, PTL DEF Spec

\* Rows that a client is served are younger than twice the time to live, a second and
\* one wait for Valkey (expired, serve, store, lookupPayload).
THEOREM RowsAreYoung == Spec => []StalenessIsBounded
<1>1. AgeInv => StalenessIsBounded
  BY LifeIsNat, FreshUntil DEF AgeInv, DateInv, StalenessIsBounded, IsServed, TypeOK
<1>2. QED
  BY <1>1, DatesAreSound, PTL

\* With the local tier off at both ends a client is served what was stored or fetched
\* after it asked (handleWrite, serve, settle).
THEOREM BypassReachesValkey == Spec => []BypassIsFresh
<1>1. AgeInv => BypassIsFresh
  BY DEF AgeInv, ClientInv, BypassIsFresh, IsServed, FreshForClient, TypeOK
<1>2. QED
  BY <1>1, DatesAreSound, PTL

\* A payload the daemon has announced passes the client's test of age for a second,
\* unless it was dropped (expired, lookupPayload).
THEOREM TestsOfAgeAgree == Spec => []VerdictHolds
<1>1. AgeInv => VerdictHolds
  BY LifeIsNat, FreshUntil DEF AgeInv, ClientInv, VerdictHolds, IsServed, TypeOK
<1>2. QED
  BY <1>1, DatesAreSound, PTL
=============================================================================
