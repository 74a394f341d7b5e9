--------------------------- MODULE StmtLifeProofs ---------------------------
(***************************************************************************)
(* Proofs of the safety properties of StmtLife, for any number of clients, *)
(* pipes, statements and blocks, and any grace period: the steps of the    *)
(* clients keep the invariant of StmtLifeDaemonProofs, and the theorems    *)
(* follow from it.                                                         *)
(***************************************************************************)
EXTENDS StmtLifeDaemonProofs

\* A client finds a record in stmts_map: it is in use at that moment.
LEMMA ResolveKeeps ==
  ASSUME LifeInv, NEW c \in Clients, NEW s \in Stmts, Resolve(c, s)
  PROVE  LifeInv'
<1>1. /\ pc' \in [Clients -> PCs]
      /\ ptr' \in [Clients -> Recs \cup {Nil}]
      /\ dwell' \in [Clients \cup Pipes -> 0 .. Grace - 1]
      /\ stmts_map[s] # Nil /\ ptr'[c] = stmts_map[s] /\ pc'[c] \in Finding /\ pc[c] = "idle"
      /\ \A d \in Clients \ {c} : pc'[d] = pc[d] /\ ptr'[d] = ptr[d] /\ dwell'[d] = dwell[d]
      /\ \A k \in Pipes : dwell'[k] = dwell[k]
  <2>1. Goto(c, "l_get") \/ Goto(c, "a_get")
    BY Zenon DEF Resolve
  <2>2. /\ pc' \in [Clients -> PCs] /\ pc'[c] \in Finding
        /\ \A d \in Clients \ {c} : pc'[d] = pc[d]
    BY Zenon, <2>1, Goes DEF LifeInv, PCs, Finding
  <2>3. Clock(c)
    BY Zenon DEF Resolve
  <2>4. QED
    BY <2>2, <2>3, ClientClocks DEF LifeInv, TypeOK, Resolve, At
<1>2. UNCHANGED <<stmts_map, known, orphans, mem, age, refs, text, data, len, bytes,
      dpipes, inbox, buf, pipe, dpc, job, next>>
  BY Zenon DEF Resolve, listVars, heapVars, recVars, pipeVars, daemonVars
<1>3. TypeOK'
  BY Zenon, <1>1, <1>2 DEF LifeInv, TypeOK
<1>4. Holders'
  BY <1>1, <1>2, Types DEF LifeInv, Holders, Finding, Piped, Holding
<1>5. Reached'
  BY <1>1, <1>2, Types DEF LifeInv, Reached, Finding, Outlives, Books, PublishedIsListed
<1>6. Queued'
  BY Zenon, <1>1, <1>2, Types DEF LifeInv, Queued, Outlives
<1>7. Counted' /\ Payloads'
  BY <1>2 DEF LifeInv, Counted, Payloads
<1>8. Books' /\ Listing'
  BY Zenon, <1>2 DEF LifeInv, Books, UnlistedIsCollected, PublishedIsListed, Listing
<1>9. QED
  BY Zenon, <1>3, <1>4, <1>5, <1>6, <1>7, <1>8 DEF LifeInv

\* bncl_stmt_get takes a reference, unless there is none left to share.
LEMMA GetKeeps ==
  ASSUME LifeInv, NEW c \in Clients, Get(c)
  PROVE  LifeInv'
<1>1. CASE refs[ptr[c]] = {}
  <2>1. /\ pc' \in [Clients -> PCs] /\ ptr' \in [Clients -> Recs \cup {Nil}]
        /\ buf' \in [Clients -> Bufs \cup {Nil}] /\ pipe' \in [Clients -> Pipes \cup {Nil}]
        /\ pc'[c] = "idle" /\ ptr'[c] = Nil /\ buf'[c] = Nil /\ pipe'[c] = Nil
        /\ \A d \in Clients \ {c} :
             /\ pc'[d] = pc[d] /\ ptr'[d] = ptr[d] /\ buf'[d] = buf[d] /\ pipe'[d] = pipe[d]
        /\ dwell' \in [Clients \cup Pipes -> 0 .. Grace - 1]
        /\ dwell'[c] = 0 /\ \A k \in Pipes : dwell'[k] = dwell[k]
        /\ \A d \in Clients \ {c} : dwell'[d] = dwell[d]
    <3>1. Return(c) /\ Clock(c)
      BY Zenon, <1>1 DEF Get
    <3>2. QED
      BY Zenon, <3>1, Returns, ClientClocks DEF LifeInv
  <2>2. UNCHANGED <<stmts_map, known, orphans, mem, age, refs, text, data, len, bytes,
        dpipes, inbox, dpc, job, next>>
    BY Zenon, <1>1 DEF Get, At, listVars, heapVars, pipeVars, daemonVars
  <2>3. TypeOK'
    BY Zenon, <2>1, <2>2 DEF LifeInv, TypeOK
  <2>4. Holders'
    BY <1>1, <2>1, <2>2, Types DEF LifeInv, Holders, Finding, Piped, Holding
  <2>5. Reached'
    BY <1>1, <2>1, <2>2, Types DEF LifeInv, Reached, Finding, Outlives
  <2>6. Queued'
    BY Zenon, <1>1, <2>1, <2>2, Types DEF LifeInv, Queued, Outlives
  <2>7. Counted' /\ Payloads'
    BY <2>2 DEF LifeInv, Counted, Payloads
  <2>8. Books' /\ Listing'
    BY Zenon, <2>2 DEF LifeInv, Books, UnlistedIsCollected, PublishedIsListed, Listing
  <2>9. QED
    BY Zenon, <2>3, <2>4, <2>5, <2>6, <2>7, <2>8 DEF LifeInv
<1>2. CASE refs[ptr[c]] # {}
  <2>1. /\ pc[c] = "l_get" /\ pc'[c] = "l_check" /\ ptr[c] \in Recs
        /\ pc' \in [Clients -> PCs]
        /\ \A d \in Clients \ {c} : pc'[d] = pc[d]
        /\ dwell' \in [Clients \cup Pipes -> 0 .. Grace - 1]
        /\ dwell'[c] = 0 /\ \A k \in Pipes : dwell'[k] = dwell[k]
        /\ \A d \in Clients \ {c} : dwell'[d] = dwell[d]
        /\ refs' \in [Recs -> SUBSET (Clients \cup {List, Leak})]
        /\ refs'[ptr[c]] = refs[ptr[c]] \cup {c}
        /\ \A r \in Recs : r # ptr[c] => refs'[r] = refs[r]
    <3>1. pc[c] = "l_get" /\ Goto(c, "l_check") /\ "l_check" \in PCs /\ Clock(c)
      BY Zenon, <1>2 DEF Get, At, PCs
    <3>2. ptr[c] \in Recs
      BY Zenon, <3>1, Types DEF LifeInv, Holders, Finding
    <3>3. /\ pc' \in [Clients -> PCs] /\ pc'[c] = "l_check"
          /\ \A d \in Clients \ {c} : pc'[d] = pc[d]
      BY Zenon, <3>1, Goes DEF LifeInv
    <3>4. refs' = [refs EXCEPT ![ptr[c]] = refs[ptr[c]] \cup {c}]
      BY Zenon, <1>2 DEF Get
    <3>5. QED
      BY <3>1, <3>2, <3>3, <3>4, ClientClocks DEF LifeInv, TypeOK
  <2>2. UNCHANGED <<stmts_map, known, orphans, mem, age, text, data, len, bytes, dpipes,
        inbox, ptr, buf, pipe, dpc, job, next>>
    BY Zenon, <1>2 DEF Get, listVars, heapVars, pipeVars, daemonVars
  <2>3. TypeOK'
    BY Zenon, <2>1, <2>2 DEF LifeInv, TypeOK
  <2>4. Counted'
    BY Zenon, <1>2, <2>1, <2>2, Types DEF LifeInv, Counted
  <2>5. Holders'
    BY <1>2, <2>1, <2>2, Types DEF LifeInv, Holders, Finding, Piped, Holding
  <2>6. Reached'
    BY <1>2, <2>1, <2>2, Types DEF LifeInv, Reached, Finding, Outlives
  <2>7. Queued'
    BY Zenon, <1>2, <2>1, <2>2, Types DEF LifeInv, Queued, Outlives
  <2>8. Books'
    <3>1. \A r \in Recs : List \in refs'[r] <=> List \in refs[r]
      BY <1>2, <2>1, TokenAssumption
    <3>2. orphans \subseteq Recs
      BY Zenon DEF LifeInv, TypeOK
    <3>3. QED
      BY Zenon, <2>2, <3>1, <3>2, Types DEF LifeInv, Books, UnlistedIsCollected, PublishedIsListed
  <2>9. Listing'
    BY <1>2, <2>1, <2>2, Types DEF LifeInv, Listing
  <2>10. Payloads'
    BY <2>2 DEF LifeInv, Payloads
  <2>11. QED
    BY Zenon, <2>3, <2>4, <2>5, <2>6, <2>7, <2>8, <2>9, <2>10 DEF LifeInv
<1>3. QED
  BY Zenon, <1>1, <1>2 DEF Get

\* lookupPayload() looks whether there is a payload.
LEMMA CheckKeeps ==
  ASSUME LifeInv, NEW c \in Clients, Check(c)
  PROVE  LifeInv'
<1>1. /\ pc' \in [Clients -> PCs]
      /\ pc[c] = "l_check" /\ pc'[c] \in {"l_put", "l_read"}
      /\ \A d \in Clients \ {c} : pc'[d] = pc[d]
  <2>1. Goto(c, "l_put") \/ Goto(c, "l_read")
    BY Zenon DEF Check
  <2>2. QED
    BY Zenon, <2>1, Goes DEF LifeInv, Check, At, PCs
<1>2. UNCHANGED <<stmts_map, known, orphans, mem, age, refs, text, data, len, bytes,
      dpipes, inbox, ptr, buf, pipe, dwell, dpc, job, next>>
  BY Zenon DEF Check, listVars, heapVars, recVars, pipeVars, daemonVars
<1>3. TypeOK'
  BY Zenon, <1>1, <1>2 DEF LifeInv, TypeOK
<1>4. Holders'
  BY <1>1, <1>2, Types DEF LifeInv, Holders, Finding, Piped, Holding
<1>5. Reached'
  BY Zenon, <1>1, <1>2, Types DEF LifeInv, Reached, Finding, Outlives
<1>6. Counted' /\ Queued'
  BY Zenon, <1>2 DEF LifeInv, Counted, Queued, Outlives
<1>7. Payloads' /\ Books' /\ Listing'
  BY <1>2 DEF LifeInv, Payloads, Books, UnlistedIsCollected, PublishedIsListed, Listing
<1>8. QED
  BY Zenon, <1>3, <1>4, <1>5, <1>6, <1>7 DEF LifeInv

\* lookupPayload() reads stmt_data again: what it points at was retired this very moment,
\* if at all.
LEMMA ReadKeeps ==
  ASSUME LifeInv, NEW c \in Clients, Read(c)
  PROVE  LifeInv'
<1>1. /\ pc' \in [Clients -> PCs] /\ buf' \in [Clients -> Bufs \cup {Nil}]
      /\ pc[c] = "l_read" /\ pc'[c] = "l_copy" /\ buf'[c] = data[ptr[c]] /\ ptr[c] \in Recs
      /\ \A d \in Clients \ {c} : pc'[d] = pc[d] /\ buf'[d] = buf[d]
      /\ dwell' \in [Clients \cup Pipes -> 0 .. Grace - 1]
      /\ dwell'[c] = 0 /\ \A k \in Pipes : dwell'[k] = dwell[k]
      /\ \A d \in Clients \ {c} : dwell'[d] = dwell[d]
  <2>1. pc[c] = "l_read" /\ Goto(c, "l_copy") /\ "l_copy" \in PCs /\ Clock(c)
    BY Zenon DEF Read, At, PCs
  <2>2. ptr[c] \in Recs
    BY Zenon, <2>1, Types DEF LifeInv, Holders, Holding
  <2>3. pc' \in [Clients -> PCs] /\ pc'[c] = "l_copy" /\ \A d \in Clients \ {c} : pc'[d] = pc[d]
    BY Zenon, <2>1, Goes DEF LifeInv
  <2>4. buf' = [buf EXCEPT ![c] = data[ptr[c]]] /\ data[ptr[c]] \in Bufs \cup {Nil}
    BY Zenon, <2>2 DEF Read, LifeInv, TypeOK
  <2>5. QED
    BY Zenon, <2>1, <2>2, <2>3, <2>4, ClientClocks DEF LifeInv, TypeOK
<1>2. UNCHANGED <<stmts_map, known, orphans, mem, age, refs, text, data, len, bytes,
      dpipes, inbox, ptr, pipe, dpc, job, next>>
  BY Zenon DEF Read, listVars, heapVars, recVars, pipeVars, daemonVars
<1>3. TypeOK'
  BY Zenon, <1>1, <1>2 DEF LifeInv, TypeOK
<1>4. Holders'
  BY <1>1, <1>2, Types DEF LifeInv, Holders, Finding, Piped, Holding
<1>5. Reached'
  BY <1>1, <1>2, Types DEF LifeInv, Reached, Finding, Outlives, Payloads
<1>6. Queued'
  BY Zenon, <1>1, <1>2, Types DEF LifeInv, Queued, Outlives
<1>7. Counted' /\ Payloads'
  BY <1>2 DEF LifeInv, Counted, Payloads
<1>8. Books' /\ Listing'
  BY Zenon, <1>2 DEF LifeInv, Books, UnlistedIsCollected, PublishedIsListed, Listing
<1>9. QED
  BY Zenon, <1>3, <1>4, <1>5, <1>6, <1>7, <1>8 DEF LifeInv

\* A client that reads at null is gone.
LEMMA FaultKeeps ==
  ASSUME LifeInv, NEW c \in Clients, Fault(c)
  PROVE  LifeInv'
<1>1. /\ pc' \in [Clients -> PCs]
      /\ pc[c] = "l_copy" /\ pc'[c] = "dead"
      /\ \A d \in Clients \ {c} : pc'[d] = pc[d]
      /\ ptr' \in [Clients -> Recs \cup {Nil}]
      /\ ptr'[c] = Nil
      /\ \A d \in Clients \ {c} : ptr'[d] = ptr[d]
      /\ dwell' \in [Clients \cup Pipes -> 0 .. Grace - 1]
      /\ dwell'[c] = 0 /\ \A k \in Pipes : dwell'[k] = dwell[k]
      /\ \A d \in Clients \ {c} : dwell'[d] = dwell[d]
  <2>1. Goto(c, "dead") /\ "dead" \in PCs /\ pc[c] = "l_copy" /\ Clock(c)
    BY Zenon DEF Fault, At, PCs
  <2>2. pc' \in [Clients -> PCs] /\ pc'[c] = "dead" /\ \A d \in Clients \ {c} : pc'[d] = pc[d]
    BY Zenon, <2>1, Goes DEF LifeInv
  <2>3. QED
    BY <2>1, <2>2, ClientClocks DEF LifeInv, TypeOK, Fault
<1>2. UNCHANGED <<stmts_map, known, orphans, mem, age, refs, text, data, len, bytes,
      dpipes, inbox, buf, pipe, dpc, job, next>>
  BY Zenon DEF Fault, listVars, heapVars, recVars, pipeVars, daemonVars
<1>3. TypeOK'
  BY Zenon, <1>1, <1>2 DEF LifeInv, TypeOK
<1>4. Holders'
  BY <1>1, <1>2, Types DEF LifeInv, Holders, Finding, Piped, Holding
<1>5. Reached'
  BY <1>1, <1>2, Types DEF LifeInv, Reached, Finding, Outlives
<1>6. Queued'
  BY Zenon, <1>1, <1>2, Types DEF LifeInv, Queued, Outlives
<1>7. Counted' /\ Payloads'
  BY <1>2 DEF LifeInv, Counted, Payloads
<1>8. Books' /\ Listing'
  BY Zenon, <1>2 DEF LifeInv, Books, UnlistedIsCollected, PublishedIsListed, Listing
<1>9. QED
  BY Zenon, <1>3, <1>4, <1>5, <1>6, <1>7, <1>8 DEF LifeInv

\* lookupPayload() has copied the payload and lets its address go.
LEMMA CopyKeeps ==
  ASSUME LifeInv, NEW c \in Clients, Copy(c)
  PROVE  LifeInv'
<1>1. /\ pc' \in [Clients -> PCs]
      /\ pc[c] = "l_copy" /\ pc'[c] = "l_put"
      /\ \A d \in Clients \ {c} : pc'[d] = pc[d]
      /\ buf' \in [Clients -> Bufs \cup {Nil}]
      /\ buf'[c] = Nil
      /\ \A d \in Clients \ {c} : buf'[d] = buf[d]
      /\ dwell' \in [Clients \cup Pipes -> 0 .. Grace - 1]
      /\ dwell'[c] = 0 /\ \A k \in Pipes : dwell'[k] = dwell[k]
      /\ \A d \in Clients \ {c} : dwell'[d] = dwell[d]
  <2>1. Goto(c, "l_put") /\ "l_put" \in PCs /\ pc[c] = "l_copy" /\ Clock(c)
    BY Zenon DEF Copy, At, PCs
  <2>2. pc' \in [Clients -> PCs] /\ pc'[c] = "l_put" /\ \A d \in Clients \ {c} : pc'[d] = pc[d]
    BY Zenon, <2>1, Goes DEF LifeInv
  <2>3. QED
    BY Zenon, <2>1, <2>2, ClientClocks DEF LifeInv, TypeOK, Copy
<1>2. UNCHANGED <<stmts_map, known, orphans, mem, age, refs, text, data, len, bytes,
      dpipes, inbox, ptr, pipe, dpc, job, next>>
  BY Zenon DEF Copy, listVars, heapVars, recVars, pipeVars, daemonVars
<1>3. TypeOK'
  BY Zenon, <1>1, <1>2 DEF LifeInv, TypeOK
<1>4. Holders'
  BY <1>1, <1>2, Types DEF LifeInv, Holders, Finding, Piped, Holding
<1>5. Reached'
  BY <1>1, <1>2, Types DEF LifeInv, Reached, Finding, Outlives
<1>6. Queued'
  BY Zenon, <1>1, <1>2, Types DEF LifeInv, Queued, Outlives
<1>7. Counted' /\ Payloads'
  BY <1>2 DEF LifeInv, Counted, Payloads
<1>8. Books' /\ Listing'
  BY Zenon, <1>2 DEF LifeInv, Books, UnlistedIsCollected, PublishedIsListed, Listing
<1>9. QED
  BY Zenon, <1>3, <1>4, <1>5, <1>6, <1>7, <1>8 DEF LifeInv

\* A client dies; its reference and its pipe stay.
LEMMA CrashKeeps ==
  ASSUME LifeInv, NEW c \in Clients, Crash(c)
  PROVE  LifeInv'
<1>1. /\ pc' \in [Clients -> PCs]
      /\ pc[c] \notin {"idle", "dead"} /\ pc'[c] = "dead"
      /\ \A d \in Clients \ {c} : pc'[d] = pc[d]
      /\ ptr' \in [Clients -> Recs \cup {Nil}] /\ buf' \in [Clients -> Bufs \cup {Nil}]
      /\ ptr'[c] = Nil /\ buf'[c] = Nil
      /\ \A d \in Clients \ {c} : ptr'[d] = ptr[d] /\ buf'[d] = buf[d]
      /\ dwell' \in [Clients \cup Pipes -> 0 .. Grace - 1]
      /\ dwell'[c] = 0 /\ \A k \in Pipes : dwell'[k] = dwell[k]
      /\ \A d \in Clients \ {c} : dwell'[d] = dwell[d]
  <2>1. Goto(c, "dead") /\ "dead" \in PCs /\ pc[c] \notin {"idle", "dead"} /\ Clock(c)
    BY Zenon DEF Crash, At, PCs
  <2>2. pc' \in [Clients -> PCs] /\ pc'[c] = "dead" /\ \A d \in Clients \ {c} : pc'[d] = pc[d]
    BY Zenon, <2>1, Goes DEF LifeInv
  <2>3. QED
    BY <2>1, <2>2, ClientClocks DEF LifeInv, TypeOK, Crash
<1>2. UNCHANGED <<stmts_map, known, orphans, mem, age, refs, text, data, len, bytes,
      dpipes, inbox, pipe, dpc, job, next>>
  BY Zenon DEF Crash, listVars, heapVars, recVars, pipeVars, daemonVars
<1>3. TypeOK'
  BY Zenon, <1>1, <1>2 DEF LifeInv, TypeOK
<1>4. Holders'
  BY <1>1, <1>2, Types DEF LifeInv, Holders, Finding, Piped, Holding
<1>5. Reached'
  BY <1>1, <1>2, Types DEF LifeInv, Reached, Finding, Outlives
<1>6. Queued'
  BY Zenon, <1>1, <1>2, Types DEF LifeInv, Queued, Outlives
<1>7. Counted' /\ Payloads'
  BY <1>2 DEF LifeInv, Counted, Payloads
<1>8. Books' /\ Listing'
  BY Zenon, <1>2 DEF LifeInv, Books, UnlistedIsCollected, PublishedIsListed, Listing
<1>9. QED
  BY Zenon, <1>3, <1>4, <1>5, <1>6, <1>7, <1>8 DEF LifeInv

\* bncl_stmt_put takes the client's own reference away, and nobody else's.
LEMMA PutKeeps ==
  ASSUME LifeInv, NEW c \in Clients, Put(c)
  PROVE  LifeInv'
<1>1. /\ pc[c] = "l_put" /\ ptr[c] \in Recs
      /\ pc' \in [Clients -> PCs] /\ ptr' \in [Clients -> Recs \cup {Nil}]
      /\ buf' \in [Clients -> Bufs \cup {Nil}] /\ pipe' \in [Clients -> Pipes \cup {Nil}]
      /\ pc'[c] = "idle" /\ ptr'[c] = Nil /\ buf'[c] = Nil /\ pipe'[c] = Nil
      /\ \A d \in Clients \ {c} :
           /\ pc'[d] = pc[d] /\ ptr'[d] = ptr[d] /\ buf'[d] = buf[d] /\ pipe'[d] = pipe[d]
      /\ refs' \in [Recs -> SUBSET (Clients \cup {List, Leak})]
      /\ refs'[ptr[c]] = refs[ptr[c]] \ {c} /\ \A r \in Recs : r # ptr[c] => refs'[r] = refs[r]
  <2>1. pc[c] = "l_put" /\ Return(c)
    BY Zenon DEF Put, At
  <2>2. ptr[c] \in Recs
    BY Zenon, <2>1, Types DEF LifeInv, Holders, Holding
  <2>3. refs' = [refs EXCEPT ![ptr[c]] = refs[ptr[c]] \ {c}]
    BY Zenon DEF Put
  <2>4. QED
    BY <2>1, <2>2, <2>3, Returns DEF LifeInv, TypeOK
<1>2. UNCHANGED <<stmts_map, known, orphans, mem, age, text, data, len, bytes, dpipes,
      inbox, dwell, dpc, job, next>>
  BY Zenon DEF Put, listVars, heapVars, pipeVars, daemonVars
<1>3. TypeOK'
  BY Zenon, <1>1, <1>2 DEF LifeInv, TypeOK
<1>4. Counted'
  BY <1>1, <1>2, Types DEF LifeInv, Counted
<1>5. Holders'
  BY <1>1, <1>2, Types DEF LifeInv, Holders, Finding, Piped, Holding
<1>6. Reached'
  BY <1>1, <1>2, Types DEF LifeInv, Reached, Finding, Outlives
<1>7. Books'
  <2>1. \A r \in Recs : List \in refs'[r] <=> List \in refs[r]
    BY Zenon, <1>1, TokenAssumption
  <2>2. orphans \subseteq Recs
    BY Zenon DEF LifeInv, TypeOK
  <2>3. QED
    BY Zenon, <1>2, <2>1, <2>2, Types DEF LifeInv, Books, UnlistedIsCollected, PublishedIsListed
<1>8. Listing'
  BY Zenon, <1>1, <1>2, Types, TokenAssumption DEF LifeInv, Listing
<1>9. Queued' /\ Payloads'
  BY <1>2 DEF LifeInv, Queued, Outlives, Payloads
<1>10. QED
  BY Zenon, <1>3, <1>4, <1>5, <1>6, <1>7, <1>8, <1>9 DEF LifeInv

\* acquire() pops a pipe that nobody has and points it at a record it has a reference on.
LEMMA ClaimKeeps ==
  ASSUME LifeInv, NEW c \in Clients, Claim(c)
  PROVE  LifeInv'
<1>1. CASE Return(c) /\ UNCHANGED <<refs, dpipes>>
  <2>1. /\ pc' \in [Clients -> PCs] /\ ptr' \in [Clients -> Recs \cup {Nil}]
        /\ buf' \in [Clients -> Bufs \cup {Nil}] /\ pipe' \in [Clients -> Pipes \cup {Nil}]
        /\ pc'[c] = "idle" /\ ptr'[c] = Nil /\ buf'[c] = Nil /\ pipe'[c] = Nil
        /\ \A d \in Clients \ {c} :
             /\ pc'[d] = pc[d] /\ ptr'[d] = ptr[d] /\ buf'[d] = buf[d] /\ pipe'[d] = pipe[d]
        /\ dwell' \in [Clients \cup Pipes -> 0 .. Grace - 1]
        /\ dwell'[c] = 0 /\ \A k \in Pipes : dwell'[k] = dwell[k]
        /\ \A d \in Clients \ {c} : dwell'[d] = dwell[d]
    <3>1. Clock(c)
      BY Zenon DEF Claim
    <3>2. QED
      BY Zenon, <1>1, <3>1, Returns, ClientClocks DEF LifeInv
  <2>2. UNCHANGED <<stmts_map, known, orphans, mem, age, refs, text, data, len, bytes,
        dpipes, inbox, dpc, job, next>>
    BY Zenon, <1>1 DEF Claim, listVars, heapVars, daemonVars
  <2>3. TypeOK'
    BY Zenon, <2>1, <2>2 DEF LifeInv, TypeOK
  <2>4. Holders'
    BY <1>1, <2>1, <2>2, Types DEF LifeInv, Holders, Finding, Piped, Holding
  <2>5. Reached'
    BY <1>1, <2>1, <2>2, Types DEF LifeInv, Reached, Finding, Outlives
  <2>6. Queued'
    BY <1>1, <2>1, <2>2, Types DEF LifeInv, Queued, Outlives
  <2>7. Counted' /\ Payloads'
    BY <2>2 DEF LifeInv, Counted, Payloads
  <2>8. Books' /\ Listing'
    BY Zenon, <2>2 DEF LifeInv, Books, UnlistedIsCollected, PublishedIsListed, Listing
  <2>9. QED
    BY Zenon, <2>3, <2>4, <2>5, <2>6, <2>7, <2>8 DEF LifeInv
<1>2. CASE ~(Return(c) /\ UNCHANGED <<refs, dpipes>>)
  <2>1. PICK k \in Pipes :
         /\ ~Held(k)
         /\ refs[ptr[c]] # {}
         /\ refs' = [refs EXCEPT ![ptr[c]] = refs[ptr[c]] \cup {c}]
         /\ dpipes' = [dpipes EXCEPT ![k] = ptr[c]]
         /\ pipe' = [pipe EXCEPT ![c] = k]
         /\ Goto(c, "a_splice")
         /\ UNCHANGED <<ptr, buf>>
    BY Zenon, <1>2 DEF Claim
  <2>2. /\ pc[c] = "a_get" /\ pc'[c] = "a_splice" /\ ptr[c] \in Recs /\ refs[ptr[c]] # {}
        /\ pc' \in [Clients -> PCs]
        /\ \A d \in Clients \ {c} : pc'[d] = pc[d] /\ pipe'[d] = pipe[d]
        /\ dwell' \in [Clients \cup Pipes -> 0 .. Grace - 1]
        /\ dwell'[c] = 0 /\ \A q \in Pipes : dwell'[q] = dwell[q]
        /\ \A d \in Clients \ {c} : dwell'[d] = dwell[d]
        /\ refs' \in [Recs -> SUBSET (Clients \cup {List, Leak})]
        /\ refs'[ptr[c]] = refs[ptr[c]] \cup {c}
        /\ \A r \in Recs : r # ptr[c] => refs'[r] = refs[r]
        /\ dpipes' \in [Pipes -> Recs \cup {Nil}] /\ pipe' \in [Clients -> Pipes \cup {Nil}]
        /\ dpipes'[k] = ptr[c] /\ \A q \in Pipes \ {k} : dpipes'[q] = dpipes[q]
        /\ pipe'[c] = k /\ \A d \in Clients : pipe[d] # k
    <3>1. pc[c] = "a_get" /\ "a_splice" \in PCs /\ Clock(c)
      BY Zenon DEF Claim, At, PCs
    <3>2. ptr[c] \in Recs
      BY Zenon, <3>1, Types DEF LifeInv, Holders, Finding
    <3>3. /\ pc' \in [Clients -> PCs] /\ pc'[c] = "a_splice"
          /\ \A d \in Clients \ {c} : pc'[d] = pc[d]
      BY Zenon, <2>1, <3>1, Goes DEF LifeInv
    <3>4. dwell' \in [Clients \cup Pipes -> 0 .. Grace - 1] /\ dwell'[c] = 0
          /\ (\A q \in Pipes : dwell'[q] = dwell[q])
          /\ \A d \in Clients \ {c} : dwell'[d] = dwell[d]
      BY Zenon, <3>1, ClientClocks DEF LifeInv
    <3>5. \A d \in Clients : pipe[d] # k
      BY Zenon, <2>1 DEF Held
    <3>6. QED
      BY <2>1, <3>1, <3>2, <3>3, <3>4, <3>5 DEF LifeInv, TypeOK
  <2>3. UNCHANGED <<stmts_map, known, orphans, mem, age, text, data, len, bytes, inbox, ptr,
        buf, dpc, job, next>>
    BY Zenon, <1>2 DEF Claim, listVars, heapVars, daemonVars
  <2>4. TypeOK'
    BY Zenon, <2>2, <2>3 DEF LifeInv, TypeOK
  <2>5. Counted'
    BY <1>2, <2>2, <2>3, Types DEF LifeInv, Counted
  <2>6. Holders'
    <3>1. k # Nil /\ ptr[c] # Nil
      BY Zenon, <2>2, NilAssumption
    <3>2. \A d \in Clients \ {c} : pipe[d] # Nil => dpipes'[pipe[d]] = dpipes[pipe[d]]
      BY <2>2, Types DEF LifeInv
    <3>3. \A r \in Recs : refs[r] \subseteq refs'[r]
      BY Zenon, <2>2
    <3>4. ASSUME NEW d \in Clients
        PROVE  /\ pc'[d] \in Finding \cup Holding => ptr'[d] # Nil
               /\ pc'[d] \in Holding => d \in refs'[ptr'[d]]
               /\ pc'[d] \in Piped => pipe'[d] # Nil /\ dpipes'[pipe'[d]] = ptr'[d]
               /\ pc'[d] \notin Piped \cup {"dead"} => pipe'[d] = Nil
               /\ pipe'[d] # Nil => dpipes'[pipe'[d]] # Nil /\ d \in refs'[dpipes'[pipe'[d]]]
      BY SMTT(20), <2>2, <2>3, <3>1, <3>2, <3>3, Types DEF LifeInv, Holders, Finding, Piped, Holding
    <3>5. \A d, e \in Clients : pipe'[d] # Nil /\ pipe'[d] = pipe'[e] => d = e
      BY <2>2 DEF LifeInv, Holders
    <3>6. QED
      BY Zenon, <3>4, <3>5 DEF Holders
  <2>7. Reached'
    BY <1>2, <2>2, <2>3, Types DEF LifeInv, Reached, Finding, Outlives
  <2>8. Queued'
    <3>1. mem[ptr[c]] = "used" /\ ptr[c] # Nil
      BY Zenon, <2>2, NilAssumption DEF LifeInv, Counted
    <3>2. QED
      BY SMTT(20), <2>2, <2>3, <3>1 DEF LifeInv, Queued, Outlives
  <2>9. Books'
    <3>1. \A r \in Recs : List \in refs'[r] <=> List \in refs[r]
      BY <1>2, <2>2, TokenAssumption
    <3>2. orphans \subseteq Recs
      BY Zenon DEF LifeInv, TypeOK
    <3>3. QED
      BY Zenon, <2>3, <3>1, <3>2, Types DEF LifeInv, Books, UnlistedIsCollected, PublishedIsListed
  <2>10. Listing'
    BY <1>2, <2>2, <2>3, Types DEF LifeInv, Listing
  <2>11. Payloads'
    BY <2>3 DEF LifeInv, Payloads
  <2>12. QED
    BY Zenon, <2>4, <2>5, <2>6, <2>7, <2>8, <2>9, <2>10, <2>11 DEF LifeInv
<1>3. QED
  BY Zenon, <1>1, <1>2 DEF Claim

\* acquire() has spliced the socket, or leaves its reference to nobody.
LEMMA SpliceKeeps ==
  ASSUME LifeInv, NEW c \in Clients, Splice(c)
  PROVE  LifeInv'
<1>1. CASE Goto(c, "held") /\ UNCHANGED <<refs, ptr, buf, pipe>>
  <2>1. /\ pc' \in [Clients -> PCs]
        /\ pc[c] = "a_splice" /\ pc'[c] = "held"
        /\ \A d \in Clients \ {c} : pc'[d] = pc[d]
    <3>1. pc[c] = "a_splice" /\ "held" \in PCs
      BY Zenon DEF Splice, At, PCs
    <3>2. QED
      BY Zenon, <1>1, <3>1, Goes DEF LifeInv
  <2>2. UNCHANGED <<stmts_map, known, orphans, mem, age, refs, text, data, len, bytes,
        dpipes, inbox, ptr, buf, pipe, dwell, dpc, job, next>>
    BY Zenon, <1>1 DEF Splice, listVars, heapVars, pipeVars, daemonVars
  <2>3. TypeOK'
    BY Zenon, <2>1, <2>2 DEF LifeInv, TypeOK
  <2>4. Holders'
    BY <1>1, <2>1, <2>2, Types DEF LifeInv, Holders, Finding, Piped, Holding
  <2>5. Reached'
    BY <1>1, <2>1, <2>2, Types DEF LifeInv, Reached, Finding, Outlives
  <2>6. Counted' /\ Queued'
    BY Zenon, <2>2 DEF LifeInv, Counted, Queued, Outlives
  <2>7. Payloads' /\ Books' /\ Listing'
    BY SMTT(20), <2>2 DEF LifeInv, Payloads, Books, UnlistedIsCollected, PublishedIsListed, Listing
  <2>8. QED
    BY Zenon, <2>3, <2>4, <2>5, <2>6, <2>7 DEF LifeInv
<1>2. CASE Return(c) /\ refs' = [refs EXCEPT ![ptr[c]] = (@ \ {c}) \cup {Leak}]
  <2>1. /\ pc[c] = "a_splice" /\ ptr[c] \in Recs
        /\ pc' \in [Clients -> PCs] /\ ptr' \in [Clients -> Recs \cup {Nil}]
        /\ buf' \in [Clients -> Bufs \cup {Nil}] /\ pipe' \in [Clients -> Pipes \cup {Nil}]
        /\ pc'[c] = "idle" /\ ptr'[c] = Nil /\ buf'[c] = Nil /\ pipe'[c] = Nil
        /\ \A d \in Clients \ {c} :
             /\ pc'[d] = pc[d] /\ ptr'[d] = ptr[d] /\ buf'[d] = buf[d] /\ pipe'[d] = pipe[d]
        /\ refs' \in [Recs -> SUBSET (Clients \cup {List, Leak})]
        /\ refs'[ptr[c]] = (refs[ptr[c]] \ {c}) \cup {Leak}
        /\ \A r \in Recs : r # ptr[c] => refs'[r] = refs[r]
    <3>1. pc[c] = "a_splice"
      BY Zenon DEF Splice, At
    <3>2. ptr[c] \in Recs
      BY Zenon, <3>1, Types DEF LifeInv, Holders, Holding
    <3>3. QED
      BY <1>2, <3>1, <3>2, Returns DEF LifeInv, TypeOK
  <2>2. UNCHANGED <<stmts_map, known, orphans, mem, age, text, data, len, bytes, dpipes,
        inbox, dwell, dpc, job, next>>
    BY Zenon, <1>2 DEF Splice, listVars, heapVars, pipeVars, daemonVars
  <2>3. TypeOK'
    BY Zenon, <2>1, <2>2 DEF LifeInv, TypeOK
  <2>4. Counted'
    BY <1>2, <2>1, <2>2, Types DEF LifeInv, Counted, Holders, Holding
  <2>5. Holders'
    BY SMTT(20), <1>2, <2>1, <2>2, Types DEF LifeInv, Holders, Finding, Piped, Holding
  <2>6. Reached'
    BY Zenon, <2>1, <2>2, ReachedReturns DEF LifeInv, Finding
  <2>7. Books'
    <3>1. \A r \in Recs : List \in refs'[r] <=> List \in refs[r]
      BY Zenon, <1>2, <2>1, TokenAssumption DEF List, Leak
    <3>2. orphans \subseteq Recs
      BY Zenon DEF LifeInv, TypeOK
    <3>3. QED
      BY Zenon, <2>2, <3>1, <3>2, Types DEF LifeInv, Books, UnlistedIsCollected, PublishedIsListed
  <2>8. Listing'
    <3>1. \A r \in Recs : List \in refs'[r] <=> List \in refs[r]
      BY Zenon, <1>2, <2>1, TokenAssumption DEF List, Leak
    <3>2. QED
      BY Zenon, <2>2, <3>1, Types DEF LifeInv, Listing
  <2>9. Queued' /\ Payloads'
    BY <2>2 DEF LifeInv, Queued, Outlives, Payloads
  <2>10. QED
    BY Zenon, <2>3, <2>4, <2>5, <2>6, <2>7, <2>8, <2>9 DEF LifeInv
<1>3. QED
  BY Zenon, <1>1, <1>2 DEF Splice

\* A request is queued on a pipe whose record is referenced.
LEMMA PostKeeps ==
  ASSUME LifeInv, NEW c \in Clients, NEW kind \in {"LOOKUP", "STORE"}, Post(c, kind)
  PROVE  LifeInv'
<1>1. /\ pc' \in [Clients -> PCs] /\ inbox' \in [Pipes -> Seq({"LOOKUP", "STORE"})]
      /\ pc[c] = "held" /\ pc'[c] = "posted" /\ pipe[c] \in Pipes
      /\ \A d \in Clients \ {c} : pc'[d] = pc[d]
      /\ \A k \in Pipes : k # pipe[c] => inbox'[k] = inbox[k]
  <2>1. pc[c] = "held" /\ Goto(c, "posted") /\ "posted" \in PCs
    BY Zenon DEF Post, At, PCs
  <2>2. pc' \in [Clients -> PCs] /\ pc'[c] = "posted" /\ \A d \in Clients \ {c} : pc'[d] = pc[d]
    BY Zenon, <2>1, Goes DEF LifeInv
  <2>3. pipe[c] \in Pipes
    BY Zenon, <2>1, Types DEF LifeInv, Holders, Piped
  <2>4. inbox' = [inbox EXCEPT ![pipe[c]] = Append(inbox[pipe[c]], kind)]
    BY Zenon DEF Post
  <2>5. Append(inbox[pipe[c]], kind) \in Seq({"LOOKUP", "STORE"})
    BY <2>3 DEF LifeInv, TypeOK
  <2>6. QED
    BY Zenon, <2>1, <2>2, <2>3, <2>4, <2>5 DEF LifeInv, TypeOK
<1>2. UNCHANGED <<stmts_map, known, orphans, mem, age, refs, text, data, len, bytes,
      dpipes, ptr, buf, pipe, dwell, dpc, job, next>>
  BY Zenon DEF Post, listVars, heapVars, recVars, daemonVars
<1>3. TypeOK'
  BY Zenon, <1>1, <1>2 DEF LifeInv, TypeOK
<1>4. Holders'
  BY <1>1, <1>2, Types DEF LifeInv, Holders, Finding, Piped, Holding
<1>5. Reached'
  BY <1>1, <1>2, Types DEF LifeInv, Reached, Finding, Outlives
<1>6. Queued'
  <2>1. mem[dpipes[pipe[c]]] = "used" /\ dpipes[pipe[c]] # Nil
    BY Zenon, <1>1, Types, NilAssumption DEF LifeInv, Holders, Counted, Piped
  <2>2. QED
    BY Zenon, <1>1, <1>2, <2>1 DEF LifeInv, Queued, Outlives
<1>7. Counted' /\ Payloads'
  BY <1>2 DEF LifeInv, Counted, Payloads
<1>8. Books' /\ Listing'
  BY Zenon, <1>2 DEF LifeInv, Books, UnlistedIsCollected, PublishedIsListed, Listing
<1>9. QED
  BY Zenon, <1>3, <1>4, <1>5, <1>6, <1>7, <1>8 DEF LifeInv

\* release() drops the reference; what is still queued on the pipe is protected by time.
LEMMA ReleaseKeeps ==
  ASSUME LifeInv, NEW c \in Clients, Release(c)
  PROVE  LifeInv'
<1>1. /\ pc[c] \in {"held", "posted"} /\ ptr[c] \in Recs /\ pipe[c] \in Pipes
      /\ dpipes[pipe[c]] = ptr[c]
      /\ pc' \in [Clients -> PCs] /\ ptr' \in [Clients -> Recs \cup {Nil}]
      /\ buf' \in [Clients -> Bufs \cup {Nil}] /\ pipe' \in [Clients -> Pipes \cup {Nil}]
      /\ pc'[c] = "idle" /\ ptr'[c] = Nil /\ buf'[c] = Nil /\ pipe'[c] = Nil
      /\ \A d \in Clients \ {c} :
           /\ pc'[d] = pc[d] /\ ptr'[d] = ptr[d] /\ buf'[d] = buf[d] /\ pipe'[d] = pipe[d]
      /\ refs' \in [Recs -> SUBSET (Clients \cup {List, Leak})]
      /\ refs'[ptr[c]] = refs[ptr[c]] \ {c} /\ \A r \in Recs : r # ptr[c] => refs'[r] = refs[r]
      /\ dwell' \in [Clients \cup Pipes -> 0 .. Grace - 1]
      /\ dwell'[pipe[c]] = 0 /\ \A d \in Clients : dwell'[d] = dwell[d]
      /\ \A k \in Pipes : k # pipe[c] => dwell'[k] = dwell[k]
  <2>1. pc[c] \in {"held", "posted"} /\ Return(c) /\ Clock(pipe[c])
    BY Zenon DEF Release
  <2>2. ptr[c] \in Recs /\ pipe[c] \in Pipes /\ dpipes[pipe[c]] = ptr[c]
    BY Zenon, <2>1, Types DEF LifeInv, Holders, Holding, Piped
  <2>3. refs' = [refs EXCEPT ![ptr[c]] = refs[ptr[c]] \ {c}]
    BY Zenon, <2>2 DEF Release
  <2>4. /\ dwell' \in [Clients \cup Pipes -> 0 .. Grace - 1] /\ dwell'[pipe[c]] = 0
        /\ \A d \in Clients : dwell'[d] = dwell[d]
        /\ \A k \in Pipes : k # pipe[c] => dwell'[k] = dwell[k]
    BY Zenon, <2>1, <2>2, PipeClocks DEF LifeInv
  <2>5. /\ refs' \in [Recs -> SUBSET (Clients \cup {List, Leak})]
        /\ refs'[ptr[c]] = refs[ptr[c]] \ {c}
        /\ \A r \in Recs : r # ptr[c] => refs'[r] = refs[r]
    BY Zenon, <2>2, <2>3 DEF LifeInv, TypeOK
  <2>6. QED
    BY Zenon, <2>1, <2>2, <2>4, <2>5, Returns DEF LifeInv
<1>2. UNCHANGED <<stmts_map, known, orphans, mem, age, text, data, len, bytes, dpipes,
      inbox, dpc, job, next>>
  BY Zenon DEF Release, listVars, heapVars, pipeVars, daemonVars
<1>3. TypeOK'
  BY Zenon, <1>1, <1>2 DEF LifeInv, TypeOK
<1>4. Counted'
  BY <1>1, <1>2, Types DEF LifeInv, Counted
<1>5. Holders'
  BY SMTT(20), <1>1, <1>2, Types DEF LifeInv, Holders, Finding, Piped, Holding
<1>6. Reached'
  BY Zenon, <1>1, <1>2, ReachedReturns DEF LifeInv, Finding
<1>7. Queued'
  <2>1. mem[dpipes[pipe[c]]] = "used" /\ dpipes[pipe[c]] # Nil
    BY Zenon, <1>1, NilAssumption DEF LifeInv, Holders, Counted, Holding
  <2>2. QED
    BY Zenon, <1>1, <1>2, <2>1 DEF LifeInv, Queued, Outlives
<1>8. Books'
  <2>1. \A r \in Recs : List \in refs'[r] <=> List \in refs[r]
    BY Zenon, <1>1, TokenAssumption
  <2>2. orphans \subseteq Recs
    BY Zenon DEF LifeInv, TypeOK
  <2>3. QED
    BY Zenon, <1>2, <2>1, <2>2, Types DEF LifeInv, Books, UnlistedIsCollected, PublishedIsListed
<1>9. Listing'
  BY <1>1, <1>2, Types, TokenAssumption DEF LifeInv, Listing
<1>10. Payloads'
  BY <1>2 DEF LifeInv, Payloads
<1>11. QED
  BY Zenon, <1>3, <1>4, <1>5, <1>6, <1>7, <1>8, <1>9, <1>10 DEF LifeInv

\* The invariant holds when the daemon has started.
LEMMA InitKeeps == Init => LifeInv
<1> SUFFICES ASSUME Init PROVE LifeInv
  OBVIOUS
<1>1. 0 \in 0 .. Grace /\ 0 \in 0 .. Grace - 1 /\ << >> \in Seq({"LOOKUP", "STORE"})
  BY GraceAssumption
<1>2. NoRecs \in [Stmts -> Recs \cup {Nil}] /\ \A s \in Stmts : NoRecs[s] = Nil
  BY Zenon DEF NoRecs
<1>3. NoReload \in [list : SUBSET Stmts, todo : SUBSET Stmts, recs : [Stmts -> Recs \cup {Nil}]]
  BY Zenon, <1>2 DEF NoReload
<1>4. TypeOK
  BY Zenon, <1>1, <1>2, <1>3 DEF Init, TypeOK, NoJob, PCs
<1>5. Counted /\ Payloads /\ Listing /\ Queued
  BY Zenon, <1>2 DEF Init, Counted, Payloads, Listing, Queued
<1>6. Holders /\ Reached
  BY Zenon DEF Init, Holders, Reached, Finding, Holding, Piped
<1>7. Books
  BY Zenon, <1>2 DEF Init, Books, UnlistedIsCollected, PublishedIsListed, Blocks
<1>8. QED
  BY Zenon, <1>4, <1>5, <1>6, <1>7 DEF LifeInv

\* It is about the state alone.
LEMMA StutterKeeps ==
  ASSUME LifeInv, UNCHANGED vars
  PROVE  LifeInv'
<1>1. TypeOK'
  BY Zenon DEF LifeInv, vars, listVars, heapVars, recVars, pipeVars, clientVars, daemonVars, TypeOK
<1>2. Counted' /\ Holders' /\ Reached'
  BY DEF LifeInv, vars, listVars, heapVars, recVars, pipeVars, clientVars, daemonVars,
         Counted, Holders, Reached, Outlives
<1>3. Queued' /\ Payloads'
  BY DEF LifeInv, vars, listVars, heapVars, recVars, pipeVars, clientVars, daemonVars,
         Queued, Outlives, Payloads
<1>4. Books' /\ Listing'
  BY Zenon DEF LifeInv, vars, listVars, heapVars, recVars, pipeVars, clientVars, daemonVars,
         Books, UnlistedIsCollected, PublishedIsListed, Listing
<1>5. QED
  BY Zenon, <1>1, <1>2, <1>3, <1>4 DEF LifeInv

\* Every step of a client, of the daemon and of the clock keeps the invariant.
LEMMA NextKeeps == LifeInv /\ [Next]_vars => LifeInv'
<1> SUFFICES ASSUME LifeInv, [Next]_vars PROVE LifeInv'
  OBVIOUS
<1>1. ASSUME NEW c \in Clients, ClientStep(c) \/ Crash(c) PROVE LifeInv'
  BY Zenon, <1>1, ResolveKeeps, GetKeeps, CheckKeeps, ReadKeeps, FaultKeeps, CopyKeeps, PutKeeps,
     ClaimKeeps, SpliceKeeps, PostKeeps, ReleaseKeeps, CrashKeeps
  DEF ClientStep
<1>2. CASE Serve
  BY Zenon, <1>2, ServeNothingKeeps, ServeKeepKeeps, ServeMissKeeps, ServeRetiredKeeps DEF Serve
<1>3. CASE Finish
  BY Zenon, <1>3, StoreDataKeeps, StoreLenKeeps, PublishKnownKeeps, PublishFailKeeps, DeleteKeeps,
     PublishNewKeeps, PublishLostKeeps, PublishEndKeeps, DropRefKeeps, ReloadEndKeeps
  DEF Finish
<1>4. ASSUME NEW list \in SUBSET Stmts, Reload(list) PROVE LifeInv'
  BY Zenon, <1>4, ReloadKeeps
<1>5. QED
  BY Zenon, <1>1, <1>2, <1>3, <1>4, CollectKeeps, TickKeeps, StutterKeeps DEF Next

\* The invariant holds of every state that clients, requests, reloads, crashes and the
\* clock lead to.
THEOREM LifeInvariant == Spec => []LifeInv
<1>1. QED
  BY InitKeeps, NextKeeps, PTL DEF Spec

\* Nobody follows a pointer into memory that was handed out again: not a client that has
\* found a record, not one that copies a payload, not the daemon through a pipe
\* (lookupPayload, acquire, serve; RETIRE_GRACE_NS).
THEOREM NothingWild == Spec => []NoWildAccess
<1>1. LifeInv => NoWildAccess
  BY Zenon DEF LifeInv, Reached, Queued, Outlives, Finding, NoWildAccess
<1>2. QED
  BY <1>1, LifeInvariant, PTL

\* From bncl_stmt_get to bncl_stmt_put, through a pipe as well, the record is in use.
THEOREM HoldersKeepRecords == Spec => []HolderKeepsRecord
<1>1. LifeInv => HolderKeepsRecord
  <2> SUFFICES ASSUME LifeInv, NEW c \in Clients, pc[c] \in Holding
               PROVE  /\ mem[ptr[c]] = "used" /\ c \in refs[ptr[c]]
                      /\ pipe[c] # Nil => dpipes[pipe[c]] = ptr[c]
    BY Zenon DEF HolderKeepsRecord
  <2>1. ptr[c] \in Recs /\ c \in refs[ptr[c]]
    BY Zenon, Types DEF LifeInv, Holders
  <2>2. mem[ptr[c]] = "used"
    BY Zenon, <2>1 DEF LifeInv, Counted
  <2>3. pipe[c] # Nil => dpipes[pipe[c]] = ptr[c]
    BY Zenon DEF LifeInv, Holders, Holding, Piped
  <2>4. QED
    BY Zenon, <2>1, <2>2, <2>3
<1>2. QED
  BY <1>1, LifeInvariant, PTL

\* No two records share a payload, and none points at a retired one, except inside keep().
THEOREM PayloadsHaveOneOwner == Spec => []PayloadHasOneOwner
<1>1. LifeInv => PayloadHasOneOwner
  BY DEF LifeInv, Payloads, PayloadHasOneOwner
<1>2. QED
  BY <1>1, LifeInvariant, PTL

\* The books of loadStatements, retireStmt and collectOrphans balance, however a reload
\* ends.
THEOREM BooksBalance == Spec => []RecordsAreAccounted
<1>1. LifeInv => RecordsAreAccounted
  BY Zenon DEF LifeInv, Books, RecordsAreAccounted
<1>2. QED
  BY <1>1, LifeInvariant, PTL

\* A reload never exchanges the record of a statement that is known (loadStatements).
THEOREM RecordsAreKept == Spec => KnownKeepsRecord
<1> DEFINE Kept == \A s \in Stmts : known[s] # Nil => stmts_map'[s] \in {stmts_map[s], Nil}
<1>1. LifeInv /\ [Next]_vars => [Kept]_vars
  <2> SUFFICES ASSUME LifeInv, Next PROVE Kept
    OBVIOUS
  <2>1. ASSUME NEW c \in Clients, ClientStep(c) \/ Crash(c) PROVE stmts_map' = stmts_map
    BY Zenon, <2>1 DEF ClientStep, Resolve, Get, Check, Read, Fault, Copy, Put, Claim, Splice, Post,
                Release, Crash, listVars
  <2>2. CASE Serve
    BY Zenon, <2>2 DEF Serve, ServeNothing, ServeKeep, ServeMiss, ServeRetired, listVars
  <2>3. CASE StoreData \/ StoreLen \/ PublishEnd \/ DropRef \/ ReloadEnd
    BY Zenon, <2>3 DEF StoreData, StoreLen, PublishEnd, DropRef, ReloadEnd, listVars
  <2>4. ASSUME NEW s \in next.todo,
               \/ PublishKnown(s) \/ PublishFail(s) \/ Delete(s)
               \/ \E r \in Recs : PublishNew(s, r) \/ PublishLost(s, r)
        PROVE  Kept
    <3>1. s \in Stmts /\ stmts_map \in [Stmts -> Recs \cup {Nil}]
      BY Zenon, Types DEF LifeInv, TypeOK
    <3>2. CASE PublishKnown(s)
      BY Zenon, <3>1, <3>2 DEF PublishKnown, LifeInv, Listing
    <3>3. CASE PublishFail(s) \/ \E r \in Recs : PublishLost(s, r)
      BY Zenon, <3>3 DEF PublishFail, PublishLost, listVars
    <3>4. CASE Delete(s)
      BY Zenon, <3>1, <3>4 DEF Delete
    <3>5. CASE \E r \in Recs : PublishNew(s, r)
      BY Zenon, <3>1, <3>5 DEF PublishNew
    <3>6. QED
      BY Zenon, <2>4, <3>2, <3>3, <3>4, <3>5
  <2>5. ASSUME NEW list \in SUBSET Stmts, Reload(list) PROVE stmts_map' = stmts_map
    BY Zenon, <2>5 DEF Reload, listVars
  <2>6. CASE Collect \/ Tick
    BY Zenon, <2>6 DEF Collect, Tick, listVars
  <2>7. QED
    BY Zenon, <2>1, <2>2, <2>3, <2>4, <2>5, <2>6 DEF Next, Finish
<1>2. QED
  BY <1>1, LifeInvariant, PTL DEF Spec, KnownKeepsRecord

\* No step forgets a payload without retiring it, except a miss that clears stmt_data
\* (serve, keep, retireStmt).
THEOREM PayloadsAreNotForgotten == Spec => OnlyMissForgets
<1> DEFINE Safe(b) == b \in Owned' \/ mem'[b] = "retired" \/ (dpc = "data" /\ job.buf = Nil)
<1>1. LifeInv /\ [Next]_vars => [\A b \in Owned : Safe(b)]_vars
  <2> SUFFICES ASSUME LifeInv, Next, NEW b \in Owned PROVE Safe(b)
    OBVIOUS
  <2>1. PICK r \in Recs : mem[r] = "used" /\ data[r] = b /\ b \in Bufs
    BY Zenon DEF Owned
  <2>2. ASSUME data'[r] = data[r], mem'[r] = mem[r] PROVE Safe(b)
    BY Zenon, <2>1, <2>2 DEF Owned
  <2>3. ASSUME NEW c \in Clients, ClientStep(c) \/ Crash(c) PROVE mem' = mem /\ data' = data
    BY Zenon, <2>3 DEF ClientStep, Resolve, Get, Check, Read, Fault, Copy, Put, Claim, Splice, Post,
                Release, Crash, heapVars, recVars
  <2>4. CASE Serve
    <3>1. ASSUME NEW k \in Pipes, NEW kind \in {"LOOKUP", "STORE"},
                 ServeNothing(k, kind) \/ ServeMiss(k) \/ ServeRetired(k, kind)
          PROVE  Safe(b)
      BY Zenon, <2>2, <3>1 DEF ServeNothing, ServeMiss, ServeRetired, heapVars, recVars
    <3>2. ASSUME NEW k \in Pipes, NEW kind \in {"LOOKUP", "STORE"}, ServeKeep(k, kind)
          PROVE  Safe(b)
      <4>1. dpipes[k] \in Recs
        <5>1. Dequeue(k, kind)
          BY Zenon, <3>2 DEF ServeKeep
        <5>2. inbox[k] # << >>
          BY Zenon, <5>1, Dequeues DEF LifeInv
        <5>3. QED
          BY Zenon, <5>2, Types DEF LifeInv, Queued
      <4>2. \A q \in Recs : q # data[dpipes[k]] /\ q \in Blocks /\ q \notin Bufs
        BY <4>1, Types, NilAssumption DEF LifeInv
      <4>3. data' = data
        BY Zenon, <3>2 DEF ServeKeep
      <4>4. mem'[r] = mem[r]
        BY <3>2, <4>2 DEF ServeKeep
      <4>5. QED
        BY Zenon, <2>2, <4>3, <4>4
    <3>3. QED
      BY Zenon, <2>4, <3>1, <3>2 DEF Serve
  <2>5. CASE StoreData
    <3>1. /\ dpc = "data" /\ job.rec \in Recs /\ data' = [data EXCEPT ![job.rec] = job.buf]
          /\ mem' = mem
      BY Zenon, <2>5, Types DEF LifeInv, Payloads, StoreData, heapVars
    <3>2. CASE r # job.rec
      BY Zenon, <2>2, <3>1, <3>2 DEF LifeInv, TypeOK
    <3>3. CASE r = job.rec /\ job.buf # Nil
      BY Zenon, <2>1, <3>1, <3>3, NilAssumption DEF LifeInv, Payloads
    <3>4. QED
      BY Zenon, <3>1, <3>2, <3>3
  <2>6. CASE StoreLen \/ PublishEnd \/ ReloadEnd
    BY Zenon, <2>2, <2>6 DEF StoreLen, PublishEnd, ReloadEnd, heapVars, recVars
  <2>7. CASE DropRef
    <3>1. job.rec \in Recs
      BY Zenon, <2>7, Types DEF LifeInv, Listing, DropRef
    <3>2. CASE mem' = mem /\ data' = data
      BY Zenon, <2>2, <3>2
    <3>3. CASE RetireStmts({job.rec})
      <4>1. /\ b \in Blocks /\ b # Nil /\ r \in Blocks /\ r \notin Bufs
            /\ data[job.rec] \in Bufs \cup {Nil}
        BY <2>1, <3>1, Types, NilAssumption DEF LifeInv, TypeOK
      <4>2. CASE r = job.rec
        BY Zenon, <2>1, <3>3, <4>1, <4>2 DEF RetireStmts, RetireAll
      <4>3. CASE r # job.rec
        <5>1. data'[r] = data[r]
          BY Zenon, <3>3, <4>3 DEF RetireStmts
        <5>2. mem'[r] = mem[r]
          BY Zenon, <3>3, <4>1, <4>3, NilAssumption DEF RetireStmts, RetireAll
        <5>3. QED
          BY Zenon, <2>2, <5>1, <5>2
      <4>4. QED
        BY Zenon, <4>2, <4>3
    <3>4. QED
      BY Zenon, <2>7, <3>2, <3>3 DEF DropRef, heapVars
  <2>8. ASSUME NEW s \in next.todo,
               \/ PublishKnown(s) \/ PublishFail(s) \/ Delete(s)
               \/ \E q \in Recs : PublishNew(s, q) \/ PublishLost(s, q)
        PROVE  Safe(b)
    <3>1. CASE PublishKnown(s) \/ PublishFail(s) \/ Delete(s)
      BY Zenon, <2>2, <3>1 DEF PublishKnown, PublishFail, Delete, heapVars, recVars
    <3>2. ASSUME NEW q \in Recs, PublishNew(s, q) \/ PublishLost(s, q) PROVE Safe(b)
      <4>1. /\ mem[q] = "free" /\ mem' = [mem EXCEPT ![q] = "used"]
            /\ data' = [data EXCEPT ![q] = Nil]
        BY Zenon, <3>2 DEF PublishNew, PublishLost
      <4>2. q # r /\ r \in Blocks
        BY Zenon, <2>1, <4>1, Types DEF LifeInv
      <4>3. QED
        BY Zenon, <2>2, <4>1, <4>2 DEF LifeInv, TypeOK
    <3>3. QED
      BY Zenon, <2>8, <3>1, <3>2
  <2>9. ASSUME NEW list \in SUBSET Stmts, Reload(list) PROVE mem' = mem /\ data' = data
    BY Zenon, <2>9 DEF Reload, heapVars, recVars
  <2>10. CASE Collect
    <3>1. b \in Blocks /\ b # Nil /\ r \in Blocks /\ r \notin Bufs /\ r \notin GonePayloads
      <4>1. \A q \in Gone : q \in Recs
        BY Zenon DEF LifeInv, TypeOK, Gone
      <4>2. \A x \in GonePayloads : x \in Bufs
        BY Zenon, <4>1, Types DEF LifeInv, GonePayloads
      <4>3. QED
        BY Zenon, <2>1, <4>2, Types, NilAssumption DEF LifeInv
    <3>2. /\ mem' = [x \in Blocks |-> IF x \in Gone \cup GonePayloads THEN "retired"
                                      ELSE IF x \in Due THEN "free" ELSE mem[x]]
          /\ data' = [q \in Recs |-> IF q \in Gone THEN Nil ELSE data[q]]
      BY Zenon, <2>10 DEF Collect, Gone, GonePayloads
    <3>3. CASE r \in Gone
      BY Zenon, <2>1, <3>1, <3>2, <3>3 DEF GonePayloads
    <3>4. CASE r \notin Gone
      BY Zenon, <2>1, <2>2, <3>1, <3>2, <3>4 DEF Due
    <3>5. QED
      BY Zenon, <3>3, <3>4
  <2>11. CASE Tick
    BY Zenon, <2>2, <2>11 DEF Tick, recVars
  <2>12. QED
    BY Zenon, <2>2, <2>3, <2>4, <2>5, <2>6, <2>7, <2>8, <2>9, <2>10, <2>11 DEF Next, Finish
<1>2. QED
  BY <1>1, LifeInvariant, PTL DEF Spec, OnlyMissForgets
=============================================================================
