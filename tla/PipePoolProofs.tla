--------------------------- MODULE PipePoolProofs ---------------------------
(***************************************************************************)
(* Proofs about PipePool under SpecDead: clients interleave and die in any *)
(* way, and the daemon breaks the lock of a dead holder only.              *)
(*                                                                         *)
(* Exclusion of live clients (LiveExclusion) makes what a client read in   *)
(* the section still true when it writes (LocalsFresh); with that, the     *)
(* slots stay distinct from each other and from the keys in clients' hands *)
(* (FreelistDistinct, NoSharedPipe).  A dead client keeps its program      *)
(* counter: the key it died with stays its own for ever.                   *)
(***************************************************************************)
EXTENDS PipePool, TLAPS

\* Pool::init establishes the invariant.
LEMMA IInvInit == Init => PoolInv
  BY SlotsAssumption, NoClientAssumption, NoKeyAssumption
  DEF Init, PoolInv, TypeOK, HasKey, LiveExclusion, BreakIsSound, LocalsFresh,
      FreelistDistinct, NoSharedPipe, RecordIsHolders, Registered,
      SpliceIsHolders, FreeKeys, PCs, Section, Carrying, Claimed, InSection,
      Carries, At, NoLiveHolder

\* The types are kept; a slot index is within the map because the count the
\* client read is the current one.
LEMMA TypeStep == TypeOK /\ HasKey /\ LocalsFresh /\ [NextDead]_vars => TypeOK'
<1> SUFFICES ASSUME TypeOK, HasKey, LocalsFresh, [NextDead]_vars PROVE TypeOK' OBVIOUS
<1> USE SlotsAssumption, NoClientAssumption, NoKeyAssumption DEF TypeOK,
        HasKey, LocalsFresh, PCs, Carries, Carrying, At, Goto, Return,
        poolVars, spliceVars
<1>1. ASSUME NEW c \in Clients, Lock(c) PROVE TypeOK'
  BY <1>1 DEF Lock
<1>2. ASSUME NEW c \in Clients, GiveUp(c) PROVE TypeOK'
  BY <1>2 DEF GiveUp
<1>3. ASSUME NEW c \in Clients, Stamp(c) PROVE TypeOK'
  BY <1>3 DEF Stamp
<1>4. ASSUME NEW c \in Clients, Unlock(c) PROVE TypeOK'
  <2>1. CASE Goto(c, "a_splice")  BY <1>4, <2>1 DEF Unlock
  <2>2. CASE Goto(c, "idle")
    <3>1. CASE Return(c)  BY <1>4, <3>1 DEF Unlock
    <3>2. CASE UNCHANGED <<key, meta>>  BY <1>4, <2>2, <3>2 DEF Unlock
    <3>3. QED  BY <1>4, <3>1, <3>2 DEF Unlock
  <2>q. QED  BY <1>4, <2>1, <2>2 DEF Unlock
<1>5. ASSUME NEW c \in Clients, PopMeta(c) PROVE TypeOK'
  BY <1>5 DEF PopMeta
<1>6. ASSUME NEW c \in Clients, PopSlot(c) PROVE TypeOK'
  BY <1>6 DEF PopSlot
<1>7. ASSUME NEW c \in Clients, PopCount(c) PROVE TypeOK'
  BY <1>7 DEF PopCount
<1>8. ASSUME NEW c \in Clients, Claim(c) PROVE TypeOK'
  <2>1. CASE Goto(c, "a_unlock")
    <3>1. dpipes' \in [Keys -> Clients \cup {NoClient}]
      BY <1>8 DEF Claim
    <3>2. QED  BY <1>8, <2>1, <3>1 DEF Claim
  <2>2. CASE Goto(c, "p_meta")  BY <1>8, <2>2 DEF Claim
  <2>q. QED  BY <1>8, <2>1, <2>2 DEF Claim
<1>9. ASSUME NEW c \in Clients, Splice(c) PROVE TypeOK'
  <2>1. CASE Goto(c, "a_pair")  BY <1>9, <2>1 DEF Splice
  <2>2. CASE Goto(c, "p_lock")  BY <1>9, <2>2 DEF Splice
  <2>q. QED  BY <1>9, <2>1, <2>2 DEF Splice
<1>10. ASSUME NEW c \in Clients, Pair(c) PROVE TypeOK'
  <2>1. CASE Goto(c, "held")  BY <1>10, <2>1 DEF Pair
  <2>2. CASE Goto(c, "p_lock")  BY <1>10, <2>2 DEF Pair
  <2>q. QED  BY <1>10, <2>1, <2>2 DEF Pair
<1>11. ASSUME NEW c \in Clients, Release(c) PROVE TypeOK'
  BY <1>11 DEF Release
<1>12. ASSUME NEW c \in Clients, Unsplice(c) PROVE TypeOK'
  BY <1>12 DEF Unsplice
<1>13. ASSUME NEW c \in Clients, PushMeta(c) PROVE TypeOK'
  BY <1>13 DEF PushMeta
<1>14. ASSUME NEW c \in Clients, PushSlot(c) PROVE TypeOK'
  <2>1. CASE Goto(c, "p_count")
    <3>1. freelist' \in [0 .. Slots - 1 -> Keys]
      BY <1>14 DEF PushSlot
    <3>2. QED  BY <1>14, <2>1, <3>1 DEF PushSlot
  <2>2. CASE Goto(c, "unlock")  BY <1>14, <2>2 DEF PushSlot
  <2>q. QED  BY <1>14, <2>1, <2>2 DEF PushSlot
<1>15. ASSUME NEW c \in Clients, PushCount(c) PROVE TypeOK'
  BY <1>15 DEF PushCount
<1>16. ASSUME NEW c \in Clients, Crash(c) PROVE TypeOK'
  BY <1>16 DEF Crash
<1>17. ASSUME Age PROVE TypeOK'
  BY <1>17 DEF Age
<1>18. ASSUME BreakTest, NoLiveHolder PROVE TypeOK'
  BY <1>18 DEF BreakTest
<1>19. ASSUME BreakStore PROVE TypeOK'
  BY <1>19 DEF BreakStore
<1>20. CASE UNCHANGED vars
  BY <1>20 DEF vars
<1>q. QED
  BY <1>1, <1>2, <1>3, <1>4, <1>5, <1>6, <1>7, <1>8, <1>9, <1>10, <1>11, <1>12, <1>13, <1>14, <1>15, <1>16, <1>17, <1>18, <1>19, <1>20 DEF NextDead, ClientStep

\* Only a slot below the count is read for a key.
LEMMA HasKeyStep == HasKey /\ TypeOK /\ LocalsFresh /\ [NextDead]_vars => HasKey'
<1> SUFFICES ASSUME HasKey, TypeOK, LocalsFresh, [NextDead]_vars PROVE HasKey' OBVIOUS
<1> USE SlotsAssumption, NoClientAssumption, NoKeyAssumption DEF HasKey,
        TypeOK, LocalsFresh, Carries, Carrying, At, Goto, Return, poolVars,
        spliceVars
<1>1. ASSUME NEW c \in Clients, Lock(c) PROVE HasKey'
  BY <1>1 DEF Lock
<1>2. ASSUME NEW c \in Clients, GiveUp(c) PROVE HasKey'
  BY <1>2 DEF GiveUp
<1>3. ASSUME NEW c \in Clients, Stamp(c) PROVE HasKey'
  BY <1>3 DEF Stamp
<1>4. ASSUME NEW c \in Clients, Unlock(c) PROVE HasKey'
  BY <1>4 DEF Unlock
<1>5. ASSUME NEW c \in Clients, PopMeta(c) PROVE HasKey'
  BY <1>5 DEF PopMeta
<1>6. ASSUME NEW c \in Clients, PopSlot(c) PROVE HasKey'
  BY <1>6 DEF PopSlot
<1>7. ASSUME NEW c \in Clients, PopCount(c) PROVE HasKey'
  BY <1>7 DEF PopCount
<1>8. ASSUME NEW c \in Clients, Claim(c) PROVE HasKey'
  BY <1>8 DEF Claim
<1>9. ASSUME NEW c \in Clients, Splice(c) PROVE HasKey'
  BY <1>9 DEF Splice
<1>10. ASSUME NEW c \in Clients, Pair(c) PROVE HasKey'
  BY <1>10 DEF Pair
<1>11. ASSUME NEW c \in Clients, Release(c) PROVE HasKey'
  BY <1>11 DEF Release
<1>12. ASSUME NEW c \in Clients, Unsplice(c) PROVE HasKey'
  BY <1>12 DEF Unsplice
<1>13. ASSUME NEW c \in Clients, PushMeta(c) PROVE HasKey'
  BY <1>13 DEF PushMeta
<1>14. ASSUME NEW c \in Clients, PushSlot(c) PROVE HasKey'
  BY <1>14 DEF PushSlot
<1>15. ASSUME NEW c \in Clients, PushCount(c) PROVE HasKey'
  BY <1>15 DEF PushCount
<1>16. ASSUME NEW c \in Clients, Crash(c) PROVE HasKey'
  BY <1>16 DEF Crash
<1>17. ASSUME Age PROVE HasKey'
  BY <1>17 DEF Age
<1>18. ASSUME BreakTest, NoLiveHolder PROVE HasKey'
  BY <1>18 DEF BreakTest
<1>19. ASSUME BreakStore PROVE HasKey'
  BY <1>19 DEF BreakStore
<1>20. CASE UNCHANGED vars
  BY <1>20 DEF vars
<1>q. QED
  BY <1>1, <1>2, <1>3, <1>4, <1>5, <1>6, <1>7, <1>8, <1>9, <1>10, <1>11, <1>12, <1>13, <1>14, <1>15, <1>16, <1>17, <1>18, <1>19, <1>20 DEF NextDead, ClientStep

\* lockPipes()'s compare-and-swap lets in one live client; breaking a dead
\* holder's lock finds no live client inside.
LEMMA ExclusionStep == LiveExclusion /\ TypeOK /\ BreakIsSound /\ [NextDead]_vars => LiveExclusion'
<1> SUFFICES ASSUME LiveExclusion, TypeOK, BreakIsSound, [NextDead]_vars PROVE LiveExclusion' OBVIOUS
<1> USE SlotsAssumption, NoClientAssumption, NoKeyAssumption DEF
        LiveExclusion, TypeOK, BreakIsSound, InSection, Section, NoLiveHolder,
        At, Goto, Return, poolVars, spliceVars
<1>1. ASSUME NEW c \in Clients, Lock(c) PROVE LiveExclusion'
  BY <1>1 DEF Lock
<1>2. ASSUME NEW c \in Clients, GiveUp(c) PROVE LiveExclusion'
  BY <1>2 DEF GiveUp
<1>3. ASSUME NEW c \in Clients, Stamp(c) PROVE LiveExclusion'
  BY <1>3 DEF Stamp
<1>4. ASSUME NEW c \in Clients, Unlock(c) PROVE LiveExclusion'
  <2>1. CASE Goto(c, "a_splice")  BY <1>4, <2>1 DEF Unlock
  <2>2. CASE Goto(c, "idle")  BY <1>4, <2>2 DEF Unlock
  <2>q. QED  BY <1>4, <2>1, <2>2 DEF Unlock
<1>5. ASSUME NEW c \in Clients, PopMeta(c) PROVE LiveExclusion'
  BY <1>5 DEF PopMeta
<1>6. ASSUME NEW c \in Clients, PopSlot(c) PROVE LiveExclusion'
  BY <1>6 DEF PopSlot
<1>7. ASSUME NEW c \in Clients, PopCount(c) PROVE LiveExclusion'
  BY <1>7 DEF PopCount
<1>8. ASSUME NEW c \in Clients, Claim(c) PROVE LiveExclusion'
  BY SMTT(20), <1>8 DEF Claim
<1>9. ASSUME NEW c \in Clients, Splice(c) PROVE LiveExclusion'
  BY SMTT(20), <1>9 DEF Splice
<1>10. ASSUME NEW c \in Clients, Pair(c) PROVE LiveExclusion'
  BY <1>10 DEF Pair
<1>11. ASSUME NEW c \in Clients, Release(c) PROVE LiveExclusion'
  BY <1>11 DEF Release
<1>12. ASSUME NEW c \in Clients, Unsplice(c) PROVE LiveExclusion'
  BY <1>12 DEF Unsplice
<1>13. ASSUME NEW c \in Clients, PushMeta(c) PROVE LiveExclusion'
  BY <1>13 DEF PushMeta
<1>14. ASSUME NEW c \in Clients, PushSlot(c) PROVE LiveExclusion'
  BY <1>14 DEF PushSlot
<1>15. ASSUME NEW c \in Clients, PushCount(c) PROVE LiveExclusion'
  BY <1>15 DEF PushCount
<1>16. ASSUME NEW c \in Clients, Crash(c) PROVE LiveExclusion'
  BY <1>16 DEF Crash
<1>17. ASSUME Age PROVE LiveExclusion'
  BY <1>17 DEF Age
<1>18. ASSUME BreakTest, NoLiveHolder PROVE LiveExclusion'
  BY <1>18 DEF BreakTest
<1>19. ASSUME BreakStore PROVE LiveExclusion'
  BY <1>19 DEF BreakStore
<1>20. CASE UNCHANGED vars
  BY <1>20 DEF vars
<1>q. QED
  BY <1>1, <1>2, <1>3, <1>4, <1>5, <1>6, <1>7, <1>8, <1>9, <1>10, <1>11, <1>12, <1>13, <1>14, <1>15, <1>16, <1>17, <1>18, <1>19, <1>20 DEF NextDead, ClientStep

\* Nobody can enter between breakStaleLock()'s test and its store.
LEMMA BreakStep == BreakIsSound /\ TypeOK /\ LiveExclusion /\ [NextDead]_vars => BreakIsSound'
<1> SUFFICES ASSUME BreakIsSound, TypeOK, LiveExclusion, [NextDead]_vars PROVE BreakIsSound' OBVIOUS
<1> USE SlotsAssumption, NoClientAssumption, NoKeyAssumption DEF BreakIsSound,
        TypeOK, LiveExclusion, InSection, Section, NoLiveHolder, At, Goto,
        Return, poolVars, spliceVars
<1>1. ASSUME NEW c \in Clients, Lock(c) PROVE BreakIsSound'
  BY <1>1 DEF Lock
<1>2. ASSUME NEW c \in Clients, GiveUp(c) PROVE BreakIsSound'
  BY <1>2 DEF GiveUp
<1>3. ASSUME NEW c \in Clients, Stamp(c) PROVE BreakIsSound'
  BY <1>3 DEF Stamp
<1>4. ASSUME NEW c \in Clients, Unlock(c) PROVE BreakIsSound'
  BY <1>4 DEF Unlock
<1>5. ASSUME NEW c \in Clients, PopMeta(c) PROVE BreakIsSound'
  BY <1>5 DEF PopMeta
<1>6. ASSUME NEW c \in Clients, PopSlot(c) PROVE BreakIsSound'
  BY <1>6 DEF PopSlot
<1>7. ASSUME NEW c \in Clients, PopCount(c) PROVE BreakIsSound'
  BY <1>7 DEF PopCount
<1>8. ASSUME NEW c \in Clients, Claim(c) PROVE BreakIsSound'
  BY <1>8 DEF Claim
<1>9. ASSUME NEW c \in Clients, Splice(c) PROVE BreakIsSound'
  BY <1>9 DEF Splice
<1>10. ASSUME NEW c \in Clients, Pair(c) PROVE BreakIsSound'
  BY <1>10 DEF Pair
<1>11. ASSUME NEW c \in Clients, Release(c) PROVE BreakIsSound'
  BY <1>11 DEF Release
<1>12. ASSUME NEW c \in Clients, Unsplice(c) PROVE BreakIsSound'
  BY <1>12 DEF Unsplice
<1>13. ASSUME NEW c \in Clients, PushMeta(c) PROVE BreakIsSound'
  BY <1>13 DEF PushMeta
<1>14. ASSUME NEW c \in Clients, PushSlot(c) PROVE BreakIsSound'
  BY <1>14 DEF PushSlot
<1>15. ASSUME NEW c \in Clients, PushCount(c) PROVE BreakIsSound'
  BY <1>15 DEF PushCount
<1>16. ASSUME NEW c \in Clients, Crash(c) PROVE BreakIsSound'
  BY <1>16 DEF Crash
<1>17. ASSUME Age PROVE BreakIsSound'
  BY <1>17 DEF Age
<1>18. ASSUME BreakTest, NoLiveHolder PROVE BreakIsSound'
  BY <1>18 DEF BreakTest
<1>19. ASSUME BreakStore PROVE BreakIsSound'
  BY <1>19 DEF BreakStore
<1>20. CASE UNCHANGED vars
  BY <1>20 DEF vars
<1>q. QED
  BY <1>1, <1>2, <1>3, <1>4, <1>5, <1>6, <1>7, <1>8, <1>9, <1>10, <1>11, <1>12, <1>13, <1>14, <1>15, <1>16, <1>17, <1>18, <1>19, <1>20 DEF NextDead, ClientStep

\* Nobody moves the count or a slot under a live client in the section.
LEMMA LocalsStep == LocalsFresh /\ TypeOK /\ LiveExclusion /\ [NextDead]_vars => LocalsFresh'
<1> SUFFICES ASSUME LocalsFresh, TypeOK, LiveExclusion, [NextDead]_vars PROVE LocalsFresh' OBVIOUS
<1> USE SlotsAssumption, NoClientAssumption, NoKeyAssumption DEF LocalsFresh,
        TypeOK, LiveExclusion, InSection, Section, At, Goto, Return, poolVars,
        spliceVars
<1>1. ASSUME NEW c \in Clients, Lock(c) PROVE LocalsFresh'
  BY <1>1 DEF Lock
<1>2. ASSUME NEW c \in Clients, GiveUp(c) PROVE LocalsFresh'
  BY <1>2 DEF GiveUp
<1>3. ASSUME NEW c \in Clients, Stamp(c) PROVE LocalsFresh'
  BY <1>3 DEF Stamp
<1>4. ASSUME NEW c \in Clients, Unlock(c) PROVE LocalsFresh'
  BY <1>4 DEF Unlock
<1>5. ASSUME NEW c \in Clients, PopMeta(c) PROVE LocalsFresh'
  BY <1>5 DEF PopMeta
<1>6. ASSUME NEW c \in Clients, PopSlot(c) PROVE LocalsFresh'
  BY <1>6 DEF PopSlot
<1>7. ASSUME NEW c \in Clients, PopCount(c) PROVE LocalsFresh'
  BY <1>7 DEF PopCount
<1>8. ASSUME NEW c \in Clients, Claim(c) PROVE LocalsFresh'
  BY <1>8 DEF Claim
<1>9. ASSUME NEW c \in Clients, Splice(c) PROVE LocalsFresh'
  BY <1>9 DEF Splice
<1>10. ASSUME NEW c \in Clients, Pair(c) PROVE LocalsFresh'
  BY <1>10 DEF Pair
<1>11. ASSUME NEW c \in Clients, Release(c) PROVE LocalsFresh'
  BY <1>11 DEF Release
<1>12. ASSUME NEW c \in Clients, Unsplice(c) PROVE LocalsFresh'
  BY <1>12 DEF Unsplice
<1>13. ASSUME NEW c \in Clients, PushMeta(c) PROVE LocalsFresh'
  BY <1>13 DEF PushMeta
<1>14. ASSUME NEW c \in Clients, PushSlot(c) PROVE LocalsFresh'
  BY <1>14 DEF PushSlot
<1>15. ASSUME NEW c \in Clients, PushCount(c) PROVE LocalsFresh'
  BY <1>15 DEF PushCount
<1>16. ASSUME NEW c \in Clients, Crash(c) PROVE LocalsFresh'
  BY <1>16 DEF Crash
<1>17. ASSUME Age PROVE LocalsFresh'
  BY <1>17 DEF Age
<1>18. ASSUME BreakTest, NoLiveHolder PROVE LocalsFresh'
  BY <1>18 DEF BreakTest
<1>19. ASSUME BreakStore PROVE LocalsFresh'
  BY <1>19 DEF BreakStore
<1>20. CASE UNCHANGED vars
  BY <1>20 DEF vars
<1>q. QED
  BY <1>1, <1>2, <1>3, <1>4, <1>5, <1>6, <1>7, <1>8, <1>9, <1>10, <1>11, <1>12, <1>13, <1>14, <1>15, <1>16, <1>17, <1>18, <1>19, <1>20 DEF NextDead, ClientStep

\* A push writes a key that no slot below the count holds.
LEMMA DistinctStep == FreelistDistinct /\ TypeOK /\ LocalsFresh /\ NoSharedPipe /\ [NextDead]_vars => FreelistDistinct'
<1> SUFFICES ASSUME FreelistDistinct, TypeOK, LocalsFresh, NoSharedPipe, [NextDead]_vars PROVE FreelistDistinct' OBVIOUS
<1> USE SlotsAssumption, NoClientAssumption, NoKeyAssumption DEF
        FreelistDistinct, TypeOK, LocalsFresh, NoSharedPipe, Carries,
        Carrying, At, Goto, Return, poolVars, spliceVars
<1>1. ASSUME NEW c \in Clients, Lock(c) PROVE FreelistDistinct'
  BY <1>1 DEF Lock
<1>2. ASSUME NEW c \in Clients, GiveUp(c) PROVE FreelistDistinct'
  BY <1>2 DEF GiveUp
<1>3. ASSUME NEW c \in Clients, Stamp(c) PROVE FreelistDistinct'
  BY <1>3 DEF Stamp
<1>4. ASSUME NEW c \in Clients, Unlock(c) PROVE FreelistDistinct'
  BY <1>4 DEF Unlock
<1>5. ASSUME NEW c \in Clients, PopMeta(c) PROVE FreelistDistinct'
  BY <1>5 DEF PopMeta
<1>6. ASSUME NEW c \in Clients, PopSlot(c) PROVE FreelistDistinct'
  BY <1>6 DEF PopSlot
<1>7. ASSUME NEW c \in Clients, PopCount(c) PROVE FreelistDistinct'
  BY <1>7 DEF PopCount
<1>8. ASSUME NEW c \in Clients, Claim(c) PROVE FreelistDistinct'
  BY <1>8 DEF Claim
<1>9. ASSUME NEW c \in Clients, Splice(c) PROVE FreelistDistinct'
  BY <1>9 DEF Splice
<1>10. ASSUME NEW c \in Clients, Pair(c) PROVE FreelistDistinct'
  BY <1>10 DEF Pair
<1>11. ASSUME NEW c \in Clients, Release(c) PROVE FreelistDistinct'
  BY <1>11 DEF Release
<1>12. ASSUME NEW c \in Clients, Unsplice(c) PROVE FreelistDistinct'
  BY <1>12 DEF Unsplice
<1>13. ASSUME NEW c \in Clients, PushMeta(c) PROVE FreelistDistinct'
  BY <1>13 DEF PushMeta
<1>14. ASSUME NEW c \in Clients, PushSlot(c) PROVE FreelistDistinct'
  <2>1. CASE Goto(c, "p_count")  BY <1>14, <2>1 DEF PushSlot
  <2>2. CASE Goto(c, "unlock")  BY <1>14, <2>2 DEF PushSlot
  <2>q. QED  BY <1>14, <2>1, <2>2 DEF PushSlot
<1>15. ASSUME NEW c \in Clients, PushCount(c) PROVE FreelistDistinct'
  BY <1>15 DEF PushCount
<1>16. ASSUME NEW c \in Clients, Crash(c) PROVE FreelistDistinct'
  BY <1>16 DEF Crash
<1>17. ASSUME Age PROVE FreelistDistinct'
  BY <1>17 DEF Age
<1>18. ASSUME BreakTest, NoLiveHolder PROVE FreelistDistinct'
  BY <1>18 DEF BreakTest
<1>19. ASSUME BreakStore PROVE FreelistDistinct'
  BY <1>19 DEF BreakStore
<1>20. CASE UNCHANGED vars
  BY <1>20 DEF vars
<1>q. QED
  BY <1>1, <1>2, <1>3, <1>4, <1>5, <1>6, <1>7, <1>8, <1>9, <1>10, <1>11, <1>12, <1>13, <1>14, <1>15, <1>16, <1>17, <1>18, <1>19, <1>20 DEF NextDead, ClientStep

\* A pop takes the key of the one slot it uncovers; every other step moves a
\* client within, or out of, the stretch in which it has its key.
LEMMA SharedStep == NoSharedPipe /\ TypeOK /\ HasKey /\ LocalsFresh /\ FreelistDistinct /\ [NextDead]_vars => NoSharedPipe'
<1> SUFFICES ASSUME NoSharedPipe, TypeOK, HasKey, LocalsFresh, FreelistDistinct, [NextDead]_vars PROVE NoSharedPipe' OBVIOUS
<1> USE SlotsAssumption, NoClientAssumption, NoKeyAssumption DEF NoSharedPipe,
        TypeOK, HasKey, LocalsFresh, FreelistDistinct, Carries, Carrying, At,
        Goto, Return, poolVars, spliceVars
<1>1. ASSUME NEW c \in Clients, Lock(c) PROVE NoSharedPipe'
  <2>1. CASE Goto(c, "a_stamp")  BY <1>1, <2>1 DEF Lock
  <2>2. CASE Goto(c, "p_stamp")  BY <1>1, <2>2 DEF Lock
  <2>q. QED  BY <1>1, <2>1, <2>2 DEF Lock
<1>2. ASSUME NEW c \in Clients, GiveUp(c) PROVE NoSharedPipe'
  BY <1>2 DEF GiveUp
<1>3. ASSUME NEW c \in Clients, Stamp(c) PROVE NoSharedPipe'
  <2>1. CASE Goto(c, "a_meta")  BY <1>3, <2>1 DEF Stamp
  <2>2. CASE Goto(c, "p_meta")  BY <1>3, <2>2 DEF Stamp
  <2>q. QED  BY <1>3, <2>1, <2>2 DEF Stamp
<1>4. ASSUME NEW c \in Clients, Unlock(c) PROVE NoSharedPipe'
  <2>1. CASE Goto(c, "a_splice")  BY <1>4, <2>1 DEF Unlock
  <2>2. CASE Goto(c, "idle")  BY <1>4, <2>2 DEF Unlock
  <2>q. QED  BY <1>4, <2>1, <2>2 DEF Unlock
<1>5. ASSUME NEW c \in Clients, PopMeta(c) PROVE NoSharedPipe'
  BY <1>5 DEF PopMeta
<1>6. ASSUME NEW c \in Clients, PopSlot(c) PROVE NoSharedPipe'
  BY <1>6 DEF PopSlot
<1>7. ASSUME NEW c \in Clients, PopCount(c) PROVE NoSharedPipe'
  BY <1>7 DEF PopCount
<1>8. ASSUME NEW c \in Clients, Claim(c) PROVE NoSharedPipe'
  <2>1. CASE Goto(c, "a_unlock")  BY <1>8, <2>1 DEF Claim
  <2>2. CASE Goto(c, "p_meta")  BY <1>8, <2>2 DEF Claim
  <2>q. QED  BY <1>8, <2>1, <2>2 DEF Claim
<1>9. ASSUME NEW c \in Clients, Splice(c) PROVE NoSharedPipe'
  <2>1. CASE Goto(c, "a_pair")  BY <1>9, <2>1 DEF Splice
  <2>2. CASE Goto(c, "p_lock")  BY <1>9, <2>2 DEF Splice
  <2>q. QED  BY <1>9, <2>1, <2>2 DEF Splice
<1>10. ASSUME NEW c \in Clients, Pair(c) PROVE NoSharedPipe'
  <2>1. CASE Goto(c, "held")  BY <1>10, <2>1 DEF Pair
  <2>2. CASE Goto(c, "p_lock")  BY <1>10, <2>2 DEF Pair
  <2>q. QED  BY <1>10, <2>1, <2>2 DEF Pair
<1>11. ASSUME NEW c \in Clients, Release(c) PROVE NoSharedPipe'
  BY <1>11 DEF Release
<1>12. ASSUME NEW c \in Clients, Unsplice(c) PROVE NoSharedPipe'
  BY <1>12 DEF Unsplice
<1>13. ASSUME NEW c \in Clients, PushMeta(c) PROVE NoSharedPipe'
  BY <1>13 DEF PushMeta
<1>14. ASSUME NEW c \in Clients, PushSlot(c) PROVE NoSharedPipe'
  <2>1. CASE Goto(c, "p_count")  BY <1>14, <2>1 DEF PushSlot
  <2>2. CASE Goto(c, "unlock")  BY <1>14, <2>2 DEF PushSlot
  <2>q. QED  BY <1>14, <2>1, <2>2 DEF PushSlot
<1>15. ASSUME NEW c \in Clients, PushCount(c) PROVE NoSharedPipe'
  BY <1>15 DEF PushCount
<1>16. ASSUME NEW c \in Clients, Crash(c) PROVE NoSharedPipe'
  BY <1>16 DEF Crash
<1>17. ASSUME Age PROVE NoSharedPipe'
  BY <1>17 DEF Age
<1>18. ASSUME BreakTest, NoLiveHolder PROVE NoSharedPipe'
  BY <1>18 DEF BreakTest
<1>19. ASSUME BreakStore PROVE NoSharedPipe'
  BY <1>19 DEF BreakStore
<1>20. CASE UNCHANGED vars
  BY <1>20 DEF vars
<1>q. QED
  BY <1>1, <1>2, <1>3, <1>4, <1>5, <1>6, <1>7, <1>8, <1>9, <1>10, <1>11, <1>12, <1>13, <1>14, <1>15, <1>16, <1>17, <1>18, <1>19, <1>20 DEF NextDead, ClientStep

\* acquire() writes only the record of the key it holds.
LEMMA RecordStep == RecordIsHolders /\ TypeOK /\ HasKey /\ NoSharedPipe /\ [NextDead]_vars => RecordIsHolders'
<1> SUFFICES ASSUME RecordIsHolders, TypeOK, HasKey, NoSharedPipe, [NextDead]_vars PROVE RecordIsHolders' OBVIOUS
<1> USE SlotsAssumption, NoClientAssumption, NoKeyAssumption DEF
        RecordIsHolders, TypeOK, HasKey, NoSharedPipe, Carries, Carrying,
        Claimed, At, Goto, Return, poolVars, spliceVars
<1>1. ASSUME NEW c \in Clients, Lock(c) PROVE RecordIsHolders'
  BY <1>1 DEF Lock
<1>2. ASSUME NEW c \in Clients, GiveUp(c) PROVE RecordIsHolders'
  BY <1>2 DEF GiveUp
<1>3. ASSUME NEW c \in Clients, Stamp(c) PROVE RecordIsHolders'
  BY <1>3 DEF Stamp
<1>4. ASSUME NEW c \in Clients, Unlock(c) PROVE RecordIsHolders'
  BY <1>4 DEF Unlock
<1>5. ASSUME NEW c \in Clients, PopMeta(c) PROVE RecordIsHolders'
  BY <1>5 DEF PopMeta
<1>6. ASSUME NEW c \in Clients, PopSlot(c) PROVE RecordIsHolders'
  BY <1>6 DEF PopSlot
<1>7. ASSUME NEW c \in Clients, PopCount(c) PROVE RecordIsHolders'
  BY <1>7 DEF PopCount
<1>8. ASSUME NEW c \in Clients, Claim(c) PROVE RecordIsHolders'
  BY <1>8 DEF Claim
<1>9. ASSUME NEW c \in Clients, Splice(c) PROVE RecordIsHolders'
  BY <1>9 DEF Splice
<1>10. ASSUME NEW c \in Clients, Pair(c) PROVE RecordIsHolders'
  BY <1>10 DEF Pair
<1>11. ASSUME NEW c \in Clients, Release(c) PROVE RecordIsHolders'
  BY <1>11 DEF Release
<1>12. ASSUME NEW c \in Clients, Unsplice(c) PROVE RecordIsHolders'
  BY <1>12 DEF Unsplice
<1>13. ASSUME NEW c \in Clients, PushMeta(c) PROVE RecordIsHolders'
  BY <1>13 DEF PushMeta
<1>14. ASSUME NEW c \in Clients, PushSlot(c) PROVE RecordIsHolders'
  BY <1>14 DEF PushSlot
<1>15. ASSUME NEW c \in Clients, PushCount(c) PROVE RecordIsHolders'
  BY <1>15 DEF PushCount
<1>16. ASSUME NEW c \in Clients, Crash(c) PROVE RecordIsHolders'
  BY <1>16 DEF Crash
<1>17. ASSUME Age PROVE RecordIsHolders'
  BY <1>17 DEF Age
<1>18. ASSUME BreakTest, NoLiveHolder PROVE RecordIsHolders'
  BY <1>18 DEF BreakTest
<1>19. ASSUME BreakStore PROVE RecordIsHolders'
  BY <1>19 DEF BreakStore
<1>20. CASE UNCHANGED vars
  BY <1>20 DEF vars
<1>q. QED
  BY <1>1, <1>2, <1>3, <1>4, <1>5, <1>6, <1>7, <1>8, <1>9, <1>10, <1>11, <1>12, <1>13, <1>14, <1>15, <1>16, <1>17, <1>18, <1>19, <1>20 DEF NextDead, ClientStep

\* Nobody touches the cpipe_map entry of a key another client holds.
LEMMA RegisteredStep == Registered /\ TypeOK /\ HasKey /\ NoSharedPipe /\ [NextDead]_vars => Registered'
<1> SUFFICES ASSUME Registered, TypeOK, HasKey, NoSharedPipe, [NextDead]_vars PROVE Registered' OBVIOUS
<1> USE SlotsAssumption, NoClientAssumption, NoKeyAssumption DEF Registered,
        TypeOK, HasKey, NoSharedPipe, Carries, Carrying, At, Goto, Return,
        poolVars, spliceVars
<1>1. ASSUME NEW c \in Clients, Lock(c) PROVE Registered'
  BY <1>1 DEF Lock
<1>2. ASSUME NEW c \in Clients, GiveUp(c) PROVE Registered'
  BY <1>2 DEF GiveUp
<1>3. ASSUME NEW c \in Clients, Stamp(c) PROVE Registered'
  BY <1>3 DEF Stamp
<1>4. ASSUME NEW c \in Clients, Unlock(c) PROVE Registered'
  BY <1>4 DEF Unlock
<1>5. ASSUME NEW c \in Clients, PopMeta(c) PROVE Registered'
  BY <1>5 DEF PopMeta
<1>6. ASSUME NEW c \in Clients, PopSlot(c) PROVE Registered'
  BY <1>6 DEF PopSlot
<1>7. ASSUME NEW c \in Clients, PopCount(c) PROVE Registered'
  BY <1>7 DEF PopCount
<1>8. ASSUME NEW c \in Clients, Claim(c) PROVE Registered'
  BY <1>8 DEF Claim
<1>9. ASSUME NEW c \in Clients, Splice(c) PROVE Registered'
  BY <1>9 DEF Splice
<1>10. ASSUME NEW c \in Clients, Pair(c) PROVE Registered'
  BY <1>10 DEF Pair
<1>11. ASSUME NEW c \in Clients, Release(c) PROVE Registered'
  BY <1>11 DEF Release
<1>12. ASSUME NEW c \in Clients, Unsplice(c) PROVE Registered'
  BY <1>12 DEF Unsplice
<1>13. ASSUME NEW c \in Clients, PushMeta(c) PROVE Registered'
  BY <1>13 DEF PushMeta
<1>14. ASSUME NEW c \in Clients, PushSlot(c) PROVE Registered'
  BY <1>14 DEF PushSlot
<1>15. ASSUME NEW c \in Clients, PushCount(c) PROVE Registered'
  BY <1>15 DEF PushCount
<1>16. ASSUME NEW c \in Clients, Crash(c) PROVE Registered'
  BY <1>16 DEF Crash
<1>17. ASSUME Age PROVE Registered'
  BY <1>17 DEF Age
<1>18. ASSUME BreakTest, NoLiveHolder PROVE Registered'
  BY <1>18 DEF BreakTest
<1>19. ASSUME BreakStore PROVE Registered'
  BY <1>19 DEF BreakStore
<1>20. CASE UNCHANGED vars
  BY <1>20 DEF vars
<1>q. QED
  BY <1>1, <1>2, <1>3, <1>4, <1>5, <1>6, <1>7, <1>8, <1>9, <1>10, <1>11, <1>12, <1>13, <1>14, <1>15, <1>16, <1>17, <1>18, <1>19, <1>20 DEF NextDead, ClientStep

\* Pairing is the last step in and the first step out.
LEMMA SpliceStep == SpliceIsHolders /\ TypeOK /\ HasKey /\ NoSharedPipe /\ Registered /\ [NextDead]_vars => SpliceIsHolders'
<1> SUFFICES ASSUME SpliceIsHolders, TypeOK, HasKey, NoSharedPipe, Registered, [NextDead]_vars PROVE SpliceIsHolders' OBVIOUS
<1> USE SlotsAssumption, NoClientAssumption, NoKeyAssumption DEF
        SpliceIsHolders, TypeOK, HasKey, NoSharedPipe, Registered, Carries,
        Carrying, At, Goto, Return, poolVars, spliceVars
<1>1. ASSUME NEW c \in Clients, Lock(c) PROVE SpliceIsHolders'
  BY <1>1 DEF Lock
<1>2. ASSUME NEW c \in Clients, GiveUp(c) PROVE SpliceIsHolders'
  BY <1>2 DEF GiveUp
<1>3. ASSUME NEW c \in Clients, Stamp(c) PROVE SpliceIsHolders'
  BY <1>3 DEF Stamp
<1>4. ASSUME NEW c \in Clients, Unlock(c) PROVE SpliceIsHolders'
  BY <1>4 DEF Unlock
<1>5. ASSUME NEW c \in Clients, PopMeta(c) PROVE SpliceIsHolders'
  BY <1>5 DEF PopMeta
<1>6. ASSUME NEW c \in Clients, PopSlot(c) PROVE SpliceIsHolders'
  BY <1>6 DEF PopSlot
<1>7. ASSUME NEW c \in Clients, PopCount(c) PROVE SpliceIsHolders'
  BY <1>7 DEF PopCount
<1>8. ASSUME NEW c \in Clients, Claim(c) PROVE SpliceIsHolders'
  BY <1>8 DEF Claim
<1>9. ASSUME NEW c \in Clients, Splice(c) PROVE SpliceIsHolders'
  BY <1>9 DEF Splice
<1>10. ASSUME NEW c \in Clients, Pair(c) PROVE SpliceIsHolders'
  BY <1>10 DEF Pair
<1>11. ASSUME NEW c \in Clients, Release(c) PROVE SpliceIsHolders'
  BY <1>11 DEF Release
<1>12. ASSUME NEW c \in Clients, Unsplice(c) PROVE SpliceIsHolders'
  BY <1>12 DEF Unsplice
<1>13. ASSUME NEW c \in Clients, PushMeta(c) PROVE SpliceIsHolders'
  BY <1>13 DEF PushMeta
<1>14. ASSUME NEW c \in Clients, PushSlot(c) PROVE SpliceIsHolders'
  BY <1>14 DEF PushSlot
<1>15. ASSUME NEW c \in Clients, PushCount(c) PROVE SpliceIsHolders'
  BY <1>15 DEF PushCount
<1>16. ASSUME NEW c \in Clients, Crash(c) PROVE SpliceIsHolders'
  BY <1>16 DEF Crash
<1>17. ASSUME Age PROVE SpliceIsHolders'
  BY <1>17 DEF Age
<1>18. ASSUME BreakTest, NoLiveHolder PROVE SpliceIsHolders'
  BY <1>18 DEF BreakTest
<1>19. ASSUME BreakStore PROVE SpliceIsHolders'
  BY <1>19 DEF BreakStore
<1>20. CASE UNCHANGED vars
  BY <1>20 DEF vars
<1>q. QED
  BY <1>1, <1>2, <1>3, <1>4, <1>5, <1>6, <1>7, <1>8, <1>9, <1>10, <1>11, <1>12, <1>13, <1>14, <1>15, <1>16, <1>17, <1>18, <1>19, <1>20 DEF NextDead, ClientStep

(***************************************************************************)
(* The theorems.                                                           *)
(***************************************************************************)

\* The invariant is kept by every step the program takes in which the daemon
\* breaks only a dead holder's lock.
LEMMA IInvStep == PoolInv /\ [NextDead]_vars => PoolInv'
  BY TypeStep, HasKeyStep, ExclusionStep, BreakStep, LocalsStep, DistinctStep,
     SharedStep, RecordStep, RegisteredStep, SpliceStep
  DEF PoolInv

\* For any number of clients and pipes, whoever dies at whatever step, the pool is
\* sound: its count and its slots agree, no key is twice on the freelist or in two
\* hands, and records and splices are their holders'.
THEOREM PoolIsSound == SpecDead => []PoolInv
  BY IInvInit, IInvStep, PTL DEF SpecDead

\* Every variable keeps its type: in particular the count stays within the
\* freelist map and no slot ever holds anything but a key.
THEOREM TypeCorrect == SpecDead => []TypeOK
<1>1. PoolInv => TypeOK  BY DEF PoolInv
<1>2. QED  BY <1>1, PoolIsSound, PTL

\* For any number of clients and pipes, whoever dies at whatever step: no pipe is
\* in two hands and none in a client's hands is still on the freelist.
THEOREM PipesAreExclusive == SpecDead => []NoSharedPipe
<1>1. PoolInv => NoSharedPipe  BY DEF PoolInv
<1>2. QED  BY <1>1, PoolIsSound, PTL

\* No push or pop, also one cut short by a crash, puts a key on the freelist
\* twice.
THEOREM FreelistIsDistinct == SpecDead => []FreelistDistinct
<1>1. PoolInv => FreelistDistinct  BY DEF PoolInv
<1>2. QED  BY <1>1, PoolIsSound, PTL

\* The statement the daemon finds on a pipe is the one its holder wrote there,
\* and a paired socket is spliced to the pipe its own connection holds.
THEOREM PipesBelongToHolders == SpecDead => [](RecordIsHolders /\ SpliceIsHolders)
<1>1. PoolInv => RecordIsHolders /\ SpliceIsHolders  BY DEF PoolInv
<1>2. QED  BY <1>1, PoolIsSound, PTL

(***************************************************************************)
(* Refinement: PipePool implements PipeSet.                                *)
(***************************************************************************)

\* At the start every pipe is free and nobody holds one.
LEMMA RefinesInit == Init => Pipes!Init
  BY DEF Init, Pipes!Init, heldKeys, Carries, Carrying, FreeKeys

\* Writing the decremented count takes the pipe out of the free set.
LEMMA PopTakes ==
  ASSUME PoolInv, NEW c \in Clients, PopCount(c)
  PROVE  Pipes!Take(c)
<1> USE DEF PoolInv, TypeOK, LocalsFresh, PopCount, At, Goto
<1>1. heldKeys[c] = NoKey  BY DEF heldKeys, Carries, Carrying
<1>2. key[c] = freelist[num_free - 1] /\ num_free > 0 /\ num_free' = num_free - 1
  OBVIOUS
<1>3. key[c] \in FreeKeys
  BY <1>2, SlotsAssumption DEF FreeKeys
<1>4. FreeKeys' = FreeKeys \ {key[c]}
  <2> DEFINE Below == {freelist[i] : i \in 0 .. num_free - 2}
  <2>1. key[c] \notin Below
    <3>1. ASSUME NEW i \in 0 .. num_free - 2 PROVE freelist[i] # key[c]
      <4>1. i \in 0 .. num_free - 1 /\ num_free - 1 \in 0 .. num_free - 1 /\ i # num_free - 1
        BY <1>2, SlotsAssumption
      <4>2. QED  BY <1>2, <4>1 DEF FreelistDistinct
    <3>2. QED  BY <3>1
  <2>2. FreeKeys' = Below  BY <1>2, SlotsAssumption DEF FreeKeys
  <2>3. FreeKeys = Below \cup {key[c]}
    BY <1>2, SlotsAssumption DEF FreeKeys
  <2>4. QED  BY <2>1, <2>2, <2>3
<1>5. heldKeys' = [heldKeys EXCEPT ![c] = key[c]]
  BY DEF heldKeys, Carries, Carrying
<1>6. QED  BY <1>1, <1>3, <1>4, <1>5 DEF Pipes!Take

\* Writing the incremented count returns it.
LEMMA PushGives ==
  ASSUME PoolInv, NEW c \in Clients, PushCount(c)
  PROVE  Pipes!Give(c)
<1> USE DEF PoolInv, TypeOK, LocalsFresh, PushCount, At, Goto
<1>1. heldKeys[c] = key[c] /\ key[c] # NoKey
  BY NoKeyAssumption DEF heldKeys, HasKey, Carries, Carrying
<1>2. key[c] = freelist[num_free] /\ num_free' = num_free + 1 /\ freelist' = freelist
  OBVIOUS
<1>3. FreeKeys' = FreeKeys \cup {key[c]}
  BY <1>2, SlotsAssumption DEF FreeKeys
<1>4. heldKeys' = [heldKeys EXCEPT ![c] = NoKey]
  BY DEF heldKeys, Carries, Carrying
<1>5. QED  BY <1>1, <1>3, <1>4 DEF Pipes!Give

\* A pipe that cannot be pushed is lost, and only lost.
LEMMA GiveUpLoses ==
  ASSUME PoolInv, NEW c \in Clients, GiveUp(c)
  PROVE  Pipes!Lose(c)
<1> USE DEF PoolInv, TypeOK, GiveUp, At, Goto, Return, poolVars
<1>1. heldKeys[c] # NoKey
  BY NoKeyAssumption DEF heldKeys, HasKey, Carries, Carrying
<1>2. heldKeys' = [heldKeys EXCEPT ![c] = NoKey]
  BY DEF heldKeys, Carries, Carrying
<1>3. FreeKeys' = FreeKeys  BY DEF FreeKeys
<1>4. QED  BY <1>1, <1>2, <1>3 DEF Pipes!Lose

\* A push that finds the freelist full drops the key.
LEMMA FullPushLoses ==
  ASSUME PoolInv, NEW c \in Clients, PushSlot(c), ~(meta[c] < Slots)
  PROVE  Pipes!Lose(c)
<1> USE DEF PoolInv, TypeOK, PushSlot, At, Goto
<1>1. heldKeys[c] # NoKey
  BY NoKeyAssumption DEF heldKeys, HasKey, Carries, Carrying
<1>2. heldKeys' = [heldKeys EXCEPT ![c] = NoKey]
  BY DEF heldKeys, Carries, Carrying
<1>3. FreeKeys' = FreeKeys  BY DEF FreeKeys
<1>4. QED  BY <1>1, <1>2, <1>3 DEF Pipes!Lose

\* Filling the slot above the top one shows nobody anything yet.
LEMMA PushSlotHides ==
  ASSUME PoolInv, NEW c \in Clients, PushSlot(c), meta[c] < Slots
  PROVE  UNCHANGED <<FreeKeys, heldKeys>>
<1> USE DEF PoolInv, TypeOK, PushSlot, At, Goto
<1>1. heldKeys' = heldKeys  BY DEF heldKeys, Carries, Carrying
<1>2. meta[c] = num_free  BY DEF LocalsFresh
<1>3. FreeKeys' = FreeKeys  BY <1>2, SlotsAssumption DEF FreeKeys
<1>4. QED  BY <1>1, <1>3

\* Every step of the pool is a step of the abstract set of pipes, or none.
LEMMA RefinesStep == PoolInv /\ [NextDead]_vars => [Pipes!Next]_(Pipes!vars)
<1> SUFFICES ASSUME PoolInv, [NextDead]_vars PROVE [Pipes!Next]_(Pipes!vars)
  OBVIOUS
<1> USE DEF Pipes!vars
<1>1. ASSUME NEW c \in Clients, PopCount(c) PROVE Pipes!Next
  BY <1>1, PopTakes DEF Pipes!Next
<1>2. ASSUME NEW c \in Clients, PushCount(c) PROVE Pipes!Next
  BY <1>2, PushGives DEF Pipes!Next
<1>3. ASSUME NEW c \in Clients, GiveUp(c) PROVE Pipes!Next
  BY <1>3, GiveUpLoses DEF Pipes!Next
<1>4. ASSUME NEW c \in Clients, PushSlot(c) PROVE [Pipes!Next]_(Pipes!vars)
  BY <1>4, FullPushLoses, PushSlotHides DEF Pipes!Next
<1>5. ASSUME UNCHANGED <<num_free, freelist>>, heldKeys' = heldKeys
      PROVE  UNCHANGED Pipes!vars
  BY <1>5 DEF FreeKeys
<1>6. ASSUME NEW c \in Clients,
             Lock(c) \/ Stamp(c) \/ PopMeta(c) \/ PopSlot(c) \/ Release(c)
             \/ Unsplice(c) \/ PushMeta(c) \/ Crash(c)
      PROVE  UNCHANGED Pipes!vars
  <2> USE DEF PoolInv, TypeOK, At, Goto, poolVars, heldKeys, Carries, Carrying
  <2>1. CASE Lock(c)  BY <2>1, <1>5 DEF Lock
  <2>2. CASE Stamp(c)  BY <2>2, <1>5 DEF Stamp
  <2>3. CASE PopMeta(c)  BY <2>3, <1>5 DEF PopMeta
  <2>4. CASE PopSlot(c)  BY <2>4, <1>5 DEF PopSlot
  <2>5. CASE Release(c)  BY <2>5, <1>5 DEF Release
  <2>6. CASE Unsplice(c)  BY <2>6, <1>5 DEF Unsplice
  <2>7. CASE PushMeta(c)  BY <2>7, <1>5 DEF PushMeta
  <2>8. CASE Crash(c)  BY <2>8, <1>5 DEF Crash
  <2>9. QED  BY <1>6, <2>1, <2>2, <2>3, <2>4, <2>5, <2>6, <2>7, <2>8
<1>7. ASSUME NEW c \in Clients, Unlock(c) \/ Claim(c) \/ Splice(c) \/ Pair(c)
      PROVE  UNCHANGED Pipes!vars
  <2> USE DEF PoolInv, TypeOK, At, Goto, Return, poolVars, heldKeys, Carries, Carrying
  <2>1. CASE Unlock(c)
    <3>1. CASE Return(c)  BY <2>1, <3>1, <1>5 DEF Unlock
    <3>2. CASE UNCHANGED <<key, meta>>  BY <2>1, <3>2, <1>5 DEF Unlock
    <3>3. QED  BY <2>1, <3>1, <3>2 DEF Unlock
  <2>2. CASE Claim(c)  BY <2>2, <1>5 DEF Claim
  <2>3. CASE Splice(c)  BY <2>3, <1>5 DEF Splice
  <2>4. CASE Pair(c)  BY <2>4, <1>5 DEF Pair
  <2>5. QED  BY <1>7, <2>1, <2>2, <2>3, <2>4
<1>8. CASE Age \/ (BreakTest /\ NoLiveHolder) \/ BreakStore
  BY <1>5, <1>8 DEF Age, BreakTest, BreakStore, poolVars, heldKeys, Carries
<1>9. CASE UNCHANGED vars
  BY <1>5, <1>9 DEF vars, heldKeys, Carries
<1>10. QED
  BY <1>1, <1>2, <1>3, <1>4, <1>6, <1>7, <1>8, <1>9 DEF NextDead, ClientStep

\* popDpipe() and pushDpipe() are atomic: the lock, the slots and the count
\* implement a set of pipes from which each is taken by one client at a time.
THEOREM PoolImplementsPipeSet == SpecDead => ImplementsPipeSet
  BY RefinesInit, RefinesStep, PoolIsSound, PTL
  DEF SpecDead, ImplementsPipeSet, Pipes!Spec
=============================================================================
