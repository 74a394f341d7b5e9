------------------------ MODULE StmtLifeDaemonProofs ------------------------
(***************************************************************************)
(* The inductive invariant of StmtLife, the facts its proofs share, and    *)
(* the proof that the steps of the daemon, and time, keep it.              *)
(* StmtLifeProofs has the steps of the clients and the theorems.           *)
(***************************************************************************)
EXTENDS StmtLife, TLAPS

Finding == {"l_get", "a_get"}
Piped == {"a_splice", "held", "posted"}

\* Block b, which x points at without a reference, has not been retired for longer than
\* x has had the pointer; so it is not due.
Outlives(b, x) == mem[b] = "used" \/ (mem[b] = "retired" /\ age[b] <= dwell[x])

\* Only a record in use is referenced.
Counted == \A r \in Recs : refs[r] # {} => mem[r] = "used"

\* A client is among the holders of the record it has a reference on, and of the record
\* its pipe points at; a dead one as well.  A pipe has one holder.
Holders ==
  /\ \A c \in Clients :
       /\ pc[c] \in Finding \cup Holding => ptr[c] # Nil
       /\ pc[c] \in Holding => c \in refs[ptr[c]]
       /\ pc[c] \in Piped => pipe[c] # Nil /\ dpipes[pipe[c]] = ptr[c]
       /\ pc[c] \notin Piped \cup {"dead"} => pipe[c] = Nil
       /\ pipe[c] # Nil => dpipes[pipe[c]] # Nil /\ c \in refs[dpipes[pipe[c]]]
  /\ \A c, d \in Clients : pipe[c] # Nil /\ pipe[c] = pipe[d] => c = d

\* What clients reach without a reference.
Reached ==
  \A c \in Clients :
    /\ pc[c] \in Finding => Outlives(ptr[c], c)
    /\ pc[c] = "l_copy" /\ buf[c] # Nil => Outlives(buf[c], c)

\* What the daemon reaches through a pipe.
Queued ==
  \A k \in Pipes : inbox[k] # << >> =>
    /\ dpipes[k] # Nil
    /\ Outlives(dpipes[k], k) \/ (dpc = "dead" /\ mem[dpipes[k]] = "retired")

\* The payloads of the records.  Inside keep() the old one is retired a moment before the
\* record points away from it, and no time passes; the new one is nobody's yet.
Payloads ==
  /\ \A r \in Recs : data[r] # Nil =>
       /\ mem[r] = "used"
       /\ \/ mem[data[r]] = "used"
          \/ dpc = "data" /\ job.rec = r /\ mem[data[r]] = "retired" /\ age[data[r]] = 0
  /\ \A r, q \in Recs : data[r] # Nil /\ data[r] = data[q] => r = q
  /\ dpc \in {"data", "len"} => job.rec # Nil /\ mem[job.rec] = "used"
  /\ dpc = "data" /\ job.buf # Nil =>
       /\ mem[job.buf] = "used" /\ \A r \in Recs : data[r] # job.buf
       /\ data[job.rec] # Nil => mem[data[job.rec]] = "retired"

\* Orphans are records in use that the list has let go, and a record in use has its text.
Books ==
  /\ UnlistedIsCollected /\ PublishedIsListed
  /\ \A r \in orphans : mem[r] = "used" /\ List \notin refs[r]
  /\ \A r \in Recs : mem[r] = "used" => text[r] \in Stmts

\* A known statement is published under the record it is known by, from one reload to the
\* next; during a reload so is what has been published, and of what is dropped what is
\* still to be deleted.
Listing ==
  /\ dpc \notin {"delete", "put"} => \A s \in Stmts : known[s] # Nil => stmts_map[s] = known[s]
  /\ dpc \in {"publish", "delete", "put"} =>
       \A s \in Stmts : next.recs[s] # Nil => stmts_map[s] = next.recs[s]
  /\ dpc \in {"delete", "put"} =>
       \A s \in next.todo : known[s] # Nil /\ next.recs[s] = Nil /\ stmts_map[s] = known[s]
  /\ dpc = "put" =>
       /\ job.rec # Nil /\ mem[job.rec] = "used" /\ List \in refs[job.rec]
       /\ \A s \in Stmts : stmts_map[s] # job.rec

LifeInv ==
  /\ TypeOK /\ Counted /\ Holders /\ Reached /\ Queued /\ Payloads /\ Books /\ Listing

\* What collectOrphans() retires.
Gone == {r \in orphans : refs[r] = {}}
GonePayloads == {data[r] : r \in Gone} \ {Nil}
-----------------------------------------------------------------------------

\* What the locals, the clocks and the blocks of a state are.
LEMMA Types ==
  TypeOK =>
    /\ \A c \in Clients :
         /\ ptr[c] # Nil => ptr[c] \in Recs
         /\ buf[c] # Nil => buf[c] \in Bufs
         /\ pipe[c] # Nil => pipe[c] \in Pipes
         /\ dwell[c] \in Nat /\ dwell[c] < Grace
    /\ \A k \in Pipes :
         /\ dpipes[k] # Nil => dpipes[k] \in Recs
         /\ dwell[k] \in Nat /\ dwell[k] < Grace
    /\ \A r \in Recs : (data[r] # Nil => data[r] \in Bufs) /\ r \in Blocks /\ r \notin Bufs
    /\ \A b \in Bufs : b \in Blocks /\ b \notin Recs
    /\ \A b \in Blocks :
         age[b] \in Nat /\ age[b] <= Grace /\ mem[b] \in {"free", "used", "retired"}
    /\ \A s \in Stmts : (stmts_map[s] # Nil => stmts_map[s] \in Recs)
                        /\ (known[s] # Nil => known[s] \in Recs)
    /\ (job.rec # Nil => job.rec \in Recs) /\ (job.buf # Nil => job.buf \in Bufs)
    /\ next.todo \subseteq Stmts
<1> SUFFICES ASSUME TypeOK
             PROVE  /\ \A c \in Clients :
                         /\ ptr[c] # Nil => ptr[c] \in Recs
                         /\ buf[c] # Nil => buf[c] \in Bufs
                         /\ pipe[c] # Nil => pipe[c] \in Pipes
                         /\ dwell[c] \in Nat /\ dwell[c] < Grace
                    /\ \A k \in Pipes :
                         /\ dpipes[k] # Nil => dpipes[k] \in Recs
                         /\ dwell[k] \in Nat /\ dwell[k] < Grace
                    /\ \A r \in Recs :
                         (data[r] # Nil => data[r] \in Bufs) /\ r \in Blocks /\ r \notin Bufs
                    /\ \A b \in Bufs : b \in Blocks /\ b \notin Recs
                    /\ \A b \in Blocks :
                         /\ age[b] \in Nat /\ age[b] <= Grace
                         /\ mem[b] \in {"free", "used", "retired"}
                    /\ \A s \in Stmts : (stmts_map[s] # Nil => stmts_map[s] \in Recs)
                                        /\ (known[s] # Nil => known[s] \in Recs)
                    /\ (job.rec # Nil => job.rec \in Recs)
                    /\ (job.buf # Nil => job.buf \in Bufs)
                    /\ next.todo \subseteq Stmts
  OBVIOUS
<1>1. \A x \in Clients \cup Pipes : dwell[x] \in Nat /\ dwell[x] < Grace
  BY GraceAssumption DEF TypeOK
<1>2. \A c \in Clients : /\ ptr[c] # Nil => ptr[c] \in Recs
                         /\ buf[c] # Nil => buf[c] \in Bufs
                         /\ pipe[c] # Nil => pipe[c] \in Pipes
  BY Zenon DEF TypeOK
<1>3. \A k \in Pipes : dpipes[k] # Nil => dpipes[k] \in Recs
  BY Zenon DEF TypeOK
<1>4. \A r \in Recs : (data[r] # Nil => data[r] \in Bufs) /\ r \in Blocks /\ r \notin Bufs
  BY Zenon, BlocksAssumption DEF TypeOK, Blocks
<1>5. \A b \in Bufs : b \in Blocks /\ b \notin Recs
  BY Zenon, BlocksAssumption DEF Blocks
<1>6. \A b \in Blocks :
        age[b] \in Nat /\ age[b] <= Grace /\ mem[b] \in {"free", "used", "retired"}
  BY GraceAssumption DEF TypeOK
<1>7. \A s \in Stmts : (stmts_map[s] # Nil => stmts_map[s] \in Recs)
                       /\ (known[s] # Nil => known[s] \in Recs)
  BY Zenon DEF TypeOK
<1>8. (job.rec # Nil => job.rec \in Recs) /\ (job.buf # Nil => job.buf \in Bufs)
  BY Zenon DEF TypeOK
<1>9. next.todo \subseteq Stmts
  BY Zenon DEF TypeOK
<1>10. QED
  BY Zenon, <1>1, <1>2, <1>3, <1>4, <1>5, <1>6, <1>7, <1>8, <1>9

\* A client goes on to another label.
LEMMA Goes ==
  ASSUME TypeOK, NEW c \in Clients, NEW l \in PCs, Goto(c, l)
  PROVE  /\ pc' \in [Clients -> PCs] /\ pc'[c] = l
         /\ \A d \in Clients \ {c} : pc'[d] = pc[d]
BY Zenon DEF TypeOK, Goto

\* A client returns, and has no pointers left.
LEMMA Returns ==
  ASSUME TypeOK, NEW c \in Clients, Return(c)
  PROVE  /\ pc' \in [Clients -> PCs] /\ ptr' \in [Clients -> Recs \cup {Nil}]
         /\ buf' \in [Clients -> Bufs \cup {Nil}] /\ pipe' \in [Clients -> Pipes \cup {Nil}]
         /\ pc'[c] = "idle" /\ ptr'[c] = Nil /\ buf'[c] = Nil /\ pipe'[c] = Nil
         /\ \A d \in Clients \ {c} :
              pc'[d] = pc[d] /\ ptr'[d] = ptr[d] /\ buf'[d] = buf[d] /\ pipe'[d] = pipe[d]
<1>1. Goto(c, "idle") /\ "idle" \in PCs
  BY Zenon DEF Return, PCs
<1>2. QED
  BY <1>1, Goes DEF TypeOK, Return

\* The clock of a client or a pipe is set back, and no other.
LEMMA Clocks ==
  ASSUME TypeOK, NEW x \in Clients \cup Pipes, Clock(x)
  PROVE  /\ dwell' \in [Clients \cup Pipes -> 0 .. Grace - 1] /\ dwell'[x] = 0
         /\ \A c \in Clients : c # x => dwell'[c] = dwell[c]
         /\ \A k \in Pipes : k # x => dwell'[k] = dwell[k]
<1>1. 0 \in 0 .. Grace - 1
  BY GraceAssumption
<1>2. QED
  BY Zenon, <1>1 DEF TypeOK, Clock

\* serve() takes one request off one pipe.
LEMMA Dequeues ==
  ASSUME TypeOK, NEW k \in Pipes, NEW kind \in {"LOOKUP", "STORE"}, Dequeue(k, kind)
  PROVE  /\ dpc = "idle" /\ inbox[k] # << >>
         /\ inbox' \in [Pipes -> Seq({"LOOKUP", "STORE"})]
         /\ dwell' \in [Clients \cup Pipes -> 0 .. Grace - 1]
         /\ \A q \in Pipes \ {k} : inbox'[q] = inbox[q]
         /\ \A c \in Clients : dwell'[c] = dwell[c]
         /\ \A q \in Pipes : inbox'[q] # << >> => dwell'[q] = dwell[q]
<1>1. dpc = "idle" /\ inbox[k] # << >>
  BY Zenon DEF Dequeue
<1>2. 0 \in 0 .. Grace - 1
  BY GraceAssumption
<1>3. inbox[k] \in Seq({"LOOKUP", "STORE"}) /\ Tail(inbox[k]) \in Seq({"LOOKUP", "STORE"})
  BY <1>1 DEF TypeOK
<1>4. /\ inbox' \in [Pipes -> Seq({"LOOKUP", "STORE"})]
      /\ \A q \in Pipes \ {k} : inbox'[q] = inbox[q]
  BY Zenon, <1>3 DEF TypeOK, Dequeue
<1>5. dwell' = [dwell EXCEPT ![k] = IF inbox'[k] = << >> THEN 0 ELSE dwell[k]]
  BY Zenon DEF Dequeue
<1>6. dwell' \in [Clients \cup Pipes -> 0 .. Grace - 1]
  BY Zenon, <1>2, <1>5 DEF TypeOK
<1>7. \A c \in Clients : dwell'[c] = dwell[c]
  BY Zenon, <1>5, BlocksAssumption DEF TypeOK
<1>8. \A q \in Pipes : inbox'[q] # << >> => dwell'[q] = dwell[q]
  BY Zenon, <1>5 DEF TypeOK
<1>9. QED
  BY Zenon, <1>1, <1>4, <1>6, <1>7, <1>8

\* The clock of a client is set back.
LEMMA ClientClocks ==
  ASSUME TypeOK, NEW c \in Clients, Clock(c)
  PROVE  /\ dwell' \in [Clients \cup Pipes -> 0 .. Grace - 1] /\ dwell'[c] = 0
         /\ \A d \in Clients \ {c} : dwell'[d] = dwell[d]
         /\ \A k \in Pipes : dwell'[k] = dwell[k]
<1>1. c \in Clients \cup Pipes /\ \A k \in Pipes : k # c
  BY Zenon, BlocksAssumption
<1>2. QED
  BY Zenon, <1>1, Clocks

\* The clock of a pipe is set back.
LEMMA PipeClocks ==
  ASSUME TypeOK, NEW k \in Pipes, Clock(k)
  PROVE  /\ dwell' \in [Clients \cup Pipes -> 0 .. Grace - 1] /\ dwell'[k] = 0
         /\ \A c \in Clients : dwell'[c] = dwell[c]
         /\ \A q \in Pipes \ {k} : dwell'[q] = dwell[q]
<1>1. k \in Clients \cup Pipes /\ \A c \in Clients : c # k
  BY Zenon, BlocksAssumption
<1>2. QED
  BY Zenon, <1>1, Clocks

\* Outside keep(), the payloads are in order when no record gains one and none goes from
\* under its record.
LEMMA PayloadsOutside ==
  ASSUME Payloads, dpc' \notin {"data", "len"},
         \A q \in Recs : data'[q] # Nil =>
           data'[q] = data[q] /\ mem'[q] = "used" /\ mem'[data[q]] = "used"
  PROVE  Payloads'
<1>1. \A q \in Recs : data'[q] # Nil =>
        /\ mem'[q] = "used"
        /\ \/ mem'[data'[q]] = "used"
           \/ dpc' = "data" /\ job'.rec = q /\ mem'[data'[q]] = "retired" /\ age'[data'[q]] = 0
  BY Zenon
<1>2. ASSUME NEW r \in Recs, NEW q \in Recs, data'[r] # Nil, data'[r] = data'[q] PROVE r = q
  <2>1. data'[r] = data[r] /\ data'[q] = data[q]
    BY Zenon, <1>2
  <2>2. data[r] # Nil /\ data[r] = data[q]
    BY Zenon, <1>2, <2>1
  <2>3. \A x, y \in Recs : data[x] # Nil /\ data[x] = data[y] => x = y
    BY DEF Payloads
  <2>4. QED
    BY Zenon, <2>2, <2>3
<1>3. dpc' # "data" /\ dpc' # "len"
  BY Zenon
<1>4. QED
  BY <1>1, <1>2, <1>3 DEF Payloads

\* The map is in order when no key gains a record and the records it leads to stay.
LEMMA PublishedStays ==
  ASSUME PublishedIsListed,
         \A t \in Stmts : stmts_map'[t] # Nil =>
           /\ stmts_map'[t] = stmts_map[t] /\ mem'[stmts_map[t]] = mem[stmts_map[t]]
           /\ text'[stmts_map[t]] = text[stmts_map[t]] /\ List \in refs'[stmts_map[t]]
  PROVE  PublishedIsListed'
BY Zenon DEF PublishedIsListed

\* What clients reach without a reference stays there when no block changes and the one
\* client that moves keeps no pointer.
LEMMA ReachedReturns ==
  ASSUME Reached, NEW c \in Clients, pc'[c] \notin Finding, pc'[c] # "l_copy",
         \A d \in Clients \ {c} : /\ pc'[d] = pc[d] /\ ptr'[d] = ptr[d] /\ buf'[d] = buf[d]
                                  /\ dwell'[d] = dwell[d],
         UNCHANGED <<mem, age>>
  PROVE  Reached'
<1>1. ASSUME NEW d \in Clients
      PROVE  /\ pc'[d] \in Finding => Outlives(ptr[d], d)'
             /\ pc'[d] = "l_copy" /\ buf'[d] # Nil => Outlives(buf[d], d)'
  <2>1. CASE d = c
    BY Zenon, <2>1
  <2>2. CASE d # c
    BY Zenon, <2>2 DEF Reached, Outlives
  <2>3. QED
    BY Zenon, <2>1, <2>2
<1>2. QED
  BY Zenon, <1>1 DEF Reached, Finding

\* What the daemon reaches through a pipe stays there when no record in use or retired
\* changes, no pipe gets another record, and no request arrives.
LEMMA QueuedStays ==
  ASSUME TypeOK, Queued, dpc # "dead", dpipes' = dpipes,
         \A b \in Recs : mem[b] # "free" => mem'[b] = mem[b] /\ age'[b] = age[b],
         \A k \in Pipes : inbox'[k] # << >> => inbox[k] # << >> /\ dwell'[k] = dwell[k]
  PROVE  Queued'
<1>1. ASSUME NEW k \in Pipes, inbox'[k] # << >>
      PROVE  dpipes[k] # Nil /\ Outlives(dpipes[k], k)'
  <2>1. dpipes[k] \in Recs /\ Outlives(dpipes[k], k) /\ dpipes[k] # Nil
    BY Zenon, <1>1, Types DEF Queued
  <2>2. QED
    BY Zenon, <1>1, <2>1 DEF Outlives
<1>2. QED
  BY Zenon, <1>1 DEF Queued

\* collectOrphans() and reclaim(): what is due is what nobody reaches.
LEMMA CollectKeeps ==
  ASSUME LifeInv, Collect
  PROVE  LifeInv'
<1>1. /\ dpc = "idle" /\ orphans' = orphans \ Gone
      /\ mem' = [b \in Blocks |-> IF b \in Gone \cup GonePayloads THEN "retired"
                                ELSE IF b \in Due THEN "free" ELSE mem[b]]
      /\ age' = [b \in Blocks |-> IF b \in Gone \cup GonePayloads \cup Due THEN 0 ELSE age[b]]
      /\ bytes' = [b \in Bufs |-> IF b \in GonePayloads THEN Scribbled ELSE bytes[b]]
      /\ data' = [r \in Recs |-> IF r \in Gone THEN Nil ELSE data[r]]
      /\ len' = [r \in Recs |-> IF r \in Gone THEN Nil ELSE len[r]]
      /\ text' = [r \in Recs |-> IF r \in Gone THEN Nil ELSE text[r]]
  BY Zenon DEF Collect, Gone, GonePayloads
<1>2. /\ orphans' \in SUBSET Recs
      /\ mem' \in [Blocks -> {"free", "used", "retired"}]
      /\ age' \in [Blocks -> 0 .. Grace]
      /\ text' \in [Recs -> Stmts \cup {Nil}]
      /\ data' \in [Recs -> Bufs \cup {Nil}]
      /\ len' \in [Recs -> Bufs \cup {Nil}]
      /\ bytes' \in [Bufs -> Stmts \cup {Scribbled}]
  <2>1. 0 \in 0 .. Grace
    BY GraceAssumption
  <2>2. orphans' \subseteq Recs
    BY Zenon, <1>1 DEF LifeInv, TypeOK
  <2>3. mem' \in [Blocks -> {"free", "used", "retired"}] /\ age' \in [Blocks -> 0 .. Grace]
    BY Zenon, <1>1, <2>1 DEF LifeInv, TypeOK
  <2>4. QED
    BY Zenon, <1>1, <2>2, <2>3 DEF LifeInv, TypeOK
<1>3. /\ dpc = "idle" /\ orphans' = orphans \ Gone
      /\ \A r \in Gone : r \in Recs /\ mem[r] = "used" /\ refs[r] = {} /\ data'[r] = Nil
      /\ \A b \in Blocks : b \in Gone \cup GonePayloads => mem'[b] = "retired" /\ age'[b] = 0
      /\ \A b \in Blocks \ (Gone \cup GonePayloads) : mem[b] = "used" => mem'[b] = "used"
      /\ \A b \in Blocks \ (Gone \cup GonePayloads) : mem[b] # "used" => mem'[b] # "used"
      /\ \A b \in Blocks \ (Gone \cup GonePayloads) : mem[b] = "retired" /\ age[b] < Grace =>
           mem'[b] = "retired" /\ age'[b] = age[b]
      /\ \A r \in Recs \ Gone : data'[r] = data[r] /\ text'[r] = text[r]
      /\ \A r \in Recs : r \in Blocks /\ r \notin GonePayloads
  <2>1. \A r \in Gone : r \in Recs /\ mem[r] = "used" /\ refs[r] = {} /\ data'[r] = Nil
    BY Zenon, <1>1 DEF LifeInv, TypeOK, Books, Gone
  <2>2. \A r \in Recs : r \in Blocks /\ r \notin GonePayloads
    <3>1. \A q \in Gone : data[q] # Nil => data[q] \in Bufs
      BY Zenon, <2>1, Types DEF LifeInv
    <3>2. \A b \in GonePayloads : b \in Bufs
      BY Zenon, <3>1 DEF GonePayloads
    <3>3. QED
      BY Zenon, <3>2, Types DEF LifeInv
  <2>3. \A b \in Due : b \in Blocks /\ mem[b] = "retired" /\ ~(age[b] < Grace)
    <3>1. \A x \in Nat : x >= Grace => ~(x < Grace)
      BY GraceAssumption
    <3>2. QED
      BY Zenon, <3>1, Types DEF LifeInv, Due
  <2>4. /\ \A b \in Blocks : b \in Gone \cup GonePayloads => mem'[b] = "retired" /\ age'[b] = 0
        /\ \A b \in Blocks \ (Gone \cup GonePayloads) : mem[b] = "used" => mem'[b] = "used"
        /\ \A b \in Blocks \ (Gone \cup GonePayloads) : mem[b] # "used" => mem'[b] # "used"
        /\ \A b \in Blocks \ (Gone \cup GonePayloads) : mem[b] = "retired" /\ age[b] < Grace =>
             mem'[b] = "retired" /\ age'[b] = age[b]
    BY Zenon, <1>1, <2>3
  <2>5. QED
    BY Zenon, <1>1, <2>1, <2>2, <2>4
<1>4. UNCHANGED <<stmts_map, known, refs, dpipes, inbox, pc, ptr, buf, pipe, dwell, dpc,
      job, next>>
  BY Zenon DEF Collect, pipeVars, clientVars, daemonVars
<1>5. TypeOK'
  BY Zenon, <1>3, <1>4, <1>2 DEF LifeInv, TypeOK
<1>6. Counted'
  <2>1. \A r \in Recs : refs[r] # {} => r \notin Gone \cup GonePayloads /\ r \in Blocks
    BY Zenon, <1>3
  <2>2. QED
    BY Zenon, <1>3, <1>4, <2>1 DEF LifeInv, Counted
<1>7. Reached'
  <2>1. ASSUME NEW c \in Clients, NEW b \in Blocks, Outlives(b, c) PROVE Outlives(b, c)'
    <3>1. dwell[c] \in Nat /\ dwell[c] < Grace /\ age[b] \in Nat /\ Grace \in Nat
      BY Zenon, Types, GraceAssumption DEF LifeInv
    <3>2. QED
      BY <1>3, <1>4, <2>1, <3>1 DEF Outlives
  <2>2. QED
    BY Zenon, <1>4, <2>1, Types DEF LifeInv, Holders, Reached
<1>8. Queued'
  <2>1. ASSUME NEW k \in Pipes, NEW b \in Recs, Outlives(b, k) PROVE Outlives(b, k)'
    <3>1. dwell[k] \in Nat /\ dwell[k] < Grace /\ age[b] \in Nat /\ Grace \in Nat
      BY Zenon, Types, GraceAssumption DEF LifeInv
    <3>2. QED
      BY <1>3, <1>4, <2>1, <3>1 DEF Outlives
  <2>2. QED
    BY Zenon, <1>3, <1>4, <2>1, Types DEF LifeInv, Queued
<1>9. Payloads'
  <2>1. dpc' \notin {"data", "len"}
    BY Zenon, <1>3, <1>4
  <2>2. ASSUME NEW q \in Recs, data'[q] # Nil
      PROVE  /\ q \notin Gone /\ data'[q] = data[q] /\ mem'[q] = "used"
             /\ mem'[data[q]] = "used"
    <3>1. q \notin Gone /\ data'[q] = data[q] /\ data[q] \in Bufs /\ data[q] \in Blocks
      BY <1>3, <2>2, Types DEF LifeInv
    <3>2. mem[q] = "used" /\ mem[data[q]] = "used" /\ data[q] \notin GonePayloads
      BY <1>3, <2>2, <3>1 DEF LifeInv, Payloads, GonePayloads
    <3>3. data[q] \notin Gone
      BY Zenon, <1>3, <3>1, Types DEF LifeInv
    <3>4. QED
      BY Zenon, <1>3, <3>1, <3>2, <3>3
  <2>3. QED
    BY <2>1, <2>2 DEF LifeInv, Payloads
<1>10. Books'
  <2>1. UnlistedIsCollected'
    BY Zenon, <1>3, <1>4 DEF LifeInv, Books, UnlistedIsCollected
  <2>2. PublishedIsListed'
    <3>1. ASSUME NEW s \in Stmts, stmts_map[s] # Nil PROVE stmts_map[s] \in Recs \ Gone
      BY Zenon, <1>3, <3>1, Types DEF LifeInv, Books, PublishedIsListed
    <3>2. QED
      BY <1>3, <1>4, <3>1 DEF LifeInv, Books, PublishedIsListed
  <2>3. ASSUME NEW r \in orphans' PROVE mem'[r] = "used" /\ List \notin refs'[r]
    BY Zenon, <1>3, <1>4 DEF LifeInv, Books, TypeOK
  <2>4. ASSUME NEW r \in Recs, mem'[r] = "used" PROVE text'[r] \in Stmts
    BY Zenon, <1>3, <2>4 DEF LifeInv, Books
  <2>5. QED
    BY Zenon, <2>1, <2>2, <2>3, <2>4 DEF Books
<1>11. Listing'
  BY Zenon, <1>3, <1>4, NilAssumption, Types DEF LifeInv, Listing
<1>12. Holders'
  BY Zenon, <1>4 DEF LifeInv, Holders, Finding, Piped, Holding
<1>13. QED
  BY Zenon, <1>5, <1>6, <1>7, <1>8, <1>9, <1>10, <1>11, <1>12 DEF LifeInv

\* retireStmt(), or the record joins the orphans.
LEMMA DropRefKeeps ==
  ASSUME LifeInv, DropRef
  PROVE  LifeInv'
<1>1. CASE refs'[job.rec] # {}
  <2>1. /\ dpc = "put" /\ job.rec \in Recs /\ mem[job.rec] = "used"
        /\ \A s \in Stmts : stmts_map[s] # job.rec
    BY Zenon, Types DEF LifeInv, Listing, DropRef
  <2>2. /\ refs' \in [Recs -> SUBSET (Clients \cup {List, Leak})]
        /\ orphans' \in SUBSET Recs
        /\ job' \in [rec : Recs \cup {Nil}, buf : Bufs \cup {Nil}]
    <3>1. /\ refs' = [refs EXCEPT ![job.rec] = refs[job.rec] \ {List}]
          /\ orphans' = orphans \cup {job.rec} /\ job' = NoJob
      BY Zenon, <1>1 DEF DropRef
    <3>2. QED
      BY Zenon, <2>1, <3>1 DEF LifeInv, TypeOK, NoJob
  <2>3. /\ dpc = "put" /\ job.rec \in Recs /\ mem[job.rec] = "used"
        /\ \A s \in Stmts : stmts_map[s] # job.rec
        /\ dpc' = "delete" /\ orphans' = orphans \cup {job.rec}
        /\ refs'[job.rec] = refs[job.rec] \ {List}
        /\ \A r \in Recs : r # job.rec => refs'[r] = refs[r]
    <3>1. refs' = [refs EXCEPT ![job.rec] = refs[job.rec] \ {List}]
      BY Zenon DEF DropRef
    <3>2. QED
      BY Zenon, <1>1, <2>1, <3>1 DEF LifeInv, TypeOK, DropRef
  <2>4. UNCHANGED <<stmts_map, known, mem, age, text, data, len, bytes, dpipes, inbox, pc,
        ptr, buf, pipe, dwell, next>>
    BY Zenon, <1>1 DEF DropRef, heapVars, pipeVars, clientVars
  <2>5. TypeOK'
    BY Zenon, <2>3, <2>4, <2>2 DEF LifeInv, TypeOK
  <2>6. Counted'
    BY Zenon, <1>1, <2>3, <2>4, Types DEF LifeInv, Counted
  <2>7. Holders'
    <3>1. \A r \in Recs, c \in Clients : c \in refs[r] => c \in refs'[r]
      BY Zenon, <2>3, TokenAssumption
    <3>2. QED
      BY Zenon, <2>4, <3>1, Types DEF LifeInv, Holders, Finding, Holding, Piped
  <2>8. Queued'
    BY Zenon, <1>1, <2>3, <2>4, Types DEF LifeInv, Queued, Outlives
  <2>9. Payloads'
    BY <1>1, <2>3, <2>4, Types DEF LifeInv, Payloads
  <2>10. Books'
    <3>1. UnlistedIsCollected'
      BY Zenon, <2>3, <2>4 DEF LifeInv, Books, UnlistedIsCollected
    <3>2. PublishedIsListed'
      BY Zenon, <2>3, <2>4, Types DEF LifeInv, Books, PublishedIsListed
    <3>3. ASSUME NEW q \in orphans' PROVE mem[q] = "used" /\ List \notin refs'[q]
      BY Zenon, <2>3 DEF LifeInv, Books, TypeOK
    <3>4. QED
      BY Zenon, <2>4, <3>1, <3>2, <3>3 DEF LifeInv, Books
  <2>11. Listing'
    BY Zenon, <1>1, <2>3, <2>4, Types DEF LifeInv, Listing
  <2>12. Reached'
    BY Zenon, <2>4 DEF LifeInv, Reached, Finding, Outlives
  <2>13. QED
    BY Zenon, <2>5, <2>6, <2>7, <2>8, <2>9, <2>10, <2>11, <2>12 DEF LifeInv
<1>2. CASE refs'[job.rec] = {}
  <2>1. /\ dpc = "put" /\ job.rec \in Recs /\ mem[job.rec] = "used"
        /\ \A s \in Stmts : stmts_map[s] # job.rec
    BY Zenon, Types DEF LifeInv, Listing, DropRef
  <2>2. /\ RetireStmts({job.rec}) /\ refs' = [refs EXCEPT ![job.rec] = refs[job.rec] \ {List}]
        /\ job' = NoJob
    BY Zenon, <1>2 DEF DropRef
  <2>3. /\ mem' \in [Blocks -> {"free", "used", "retired"}]
        /\ age' \in [Blocks -> 0 .. Grace]
        /\ refs' \in [Recs -> SUBSET (Clients \cup {List, Leak})]
        /\ text' \in [Recs -> Stmts \cup {Nil}]
        /\ data' \in [Recs -> Bufs \cup {Nil}]
        /\ len' \in [Recs -> Bufs \cup {Nil}]
        /\ bytes' \in [Bufs -> Stmts \cup {Scribbled}]
        /\ job' \in [rec : Recs \cup {Nil}, buf : Bufs \cup {Nil}]
    <3>1. 0 \in 0 .. Grace
      BY GraceAssumption
    <3>2. mem' \in [Blocks -> {"free", "used", "retired"}] /\ age' \in [Blocks -> 0 .. Grace]
      BY Zenon, <2>2, <3>1 DEF LifeInv, TypeOK, RetireStmts, RetireAll
    <3>3. /\ text' \in [Recs -> Stmts \cup {Nil}] /\ data' \in [Recs -> Bufs \cup {Nil}]
          /\ len' \in [Recs -> Bufs \cup {Nil}] /\ bytes' \in [Bufs -> Stmts \cup {Scribbled}]
      BY Zenon, <2>2 DEF LifeInv, TypeOK, RetireStmts
    <3>4. QED
      BY Zenon, <2>1, <2>2, <3>2, <3>3 DEF LifeInv, TypeOK, NoJob
  <2>4. /\ dpc = "put" /\ job.rec \in Recs /\ mem[job.rec] = "used"
        /\ \A s \in Stmts : stmts_map[s] # job.rec
        /\ dpc' = "delete" /\ refs[job.rec] \subseteq {List} /\ refs'[job.rec] = {}
        /\ mem'[job.rec] = "retired" /\ age'[job.rec] = 0 /\ data'[job.rec] = Nil
        /\ data[job.rec] # Nil => mem'[data[job.rec]] = "retired" /\ age'[data[job.rec]] = 0
        /\ \A r \in Recs : r # job.rec =>
             /\ mem'[r] = mem[r] /\ age'[r] = age[r] /\ refs'[r] = refs[r] /\ data'[r] = data[r]
             /\ text'[r] = text[r]
        /\ \A b \in Bufs : b # data[job.rec] => mem'[b] = mem[b] /\ age'[b] = age[b]
    <3>1. data[job.rec] # Nil => data[job.rec] \in Bufs
      BY Zenon, <2>1, Types DEF LifeInv
    <3>2. \A r \in Recs : r # data[job.rec] /\ r \in Blocks
      BY <3>1, Types, NilAssumption DEF LifeInv
    <3>3. \A x \in Bufs : x \in Blocks /\ x # job.rec /\ x # Nil
      BY Zenon, <2>1, Types, NilAssumption DEF LifeInv
    <3>4. /\ mem'[job.rec] = "retired" /\ age'[job.rec] = 0 /\ data'[job.rec] = Nil
          /\ data[job.rec] # Nil => mem'[data[job.rec]] = "retired" /\ age'[data[job.rec]] = 0
      BY Zenon, <2>1, <2>2, <3>1, <3>2, <3>3 DEF RetireStmts, RetireAll
    <3>5. ASSUME NEW r \in Recs, r # job.rec
        PROVE  mem'[r] = mem[r] /\ age'[r] = age[r] /\ data'[r] = data[r] /\ text'[r] = text[r]
      BY Zenon, <2>2, <3>2, <3>5 DEF RetireStmts, RetireAll
    <3>6. ASSUME NEW b \in Bufs, b # data[job.rec] PROVE mem'[b] = mem[b] /\ age'[b] = age[b]
      BY Zenon, <2>2, <3>3, <3>6 DEF RetireStmts, RetireAll
    <3>7. refs[job.rec] \subseteq {List} /\ \A r \in Recs : r # job.rec => refs'[r] = refs[r]
      BY Zenon, <1>2, <2>1, <2>2 DEF LifeInv, TypeOK
    <3>8. QED
      BY Zenon, <1>2, <2>1, <3>4, <3>5, <3>6, <3>7 DEF DropRef
  <2>5. UNCHANGED <<stmts_map, known, orphans, dpipes, inbox, pc, ptr, buf, pipe, dwell,
        next>>
    BY Zenon, <1>2 DEF DropRef, heapVars, pipeVars, clientVars
  <2>6. TypeOK'
    BY Zenon, <2>4, <2>5, <2>3 DEF LifeInv, TypeOK
  <2>7. Counted'
    BY <1>2, <2>4, <2>5 DEF LifeInv, Counted
  <2>8. Holders'
    <3>1. \A r \in Recs, c \in Clients : c \in refs[r] => c \in refs'[r]
      BY Zenon, <2>4, TokenAssumption
    <3>2. QED
      BY Zenon, <2>5, <3>1, Types DEF LifeInv, Holders, Finding, Holding, Piped
  <2>9. Reached'
    <3>1. ASSUME NEW c \in Clients, NEW b \in Blocks, Outlives(b, c) PROVE Outlives(b, c)'
      <4>1. dwell[c] \in Nat
        BY Zenon, Types DEF LifeInv
      <4>2. QED
        BY <2>4, <2>5, <3>1, <4>1, NilAssumption DEF Outlives, Blocks
    <3>2. QED
      BY Zenon, <2>5, <3>1, Types DEF LifeInv, Holders, Reached
  <2>10. Queued'
    <3>1. ASSUME NEW k \in Pipes, NEW r \in Recs, Outlives(r, k) PROVE Outlives(r, k)'
      <4>1. dwell[k] \in Nat
        BY Zenon, Types DEF LifeInv
      <4>2. QED
        BY <2>4, <2>5, <3>1, <4>1 DEF Outlives
    <3>2. QED
      BY Zenon, <2>4, <2>5, <3>1, Types DEF LifeInv, Queued
  <2>11. Payloads'
    <3>1. dpc' \notin {"data", "len"}
      BY Zenon, <2>4
    <3>2. ASSUME NEW q \in Recs, data'[q] # Nil
        PROVE  /\ q # job.rec /\ data'[q] = data[q] /\ mem'[q] = "used"
               /\ mem'[data[q]] = "used"
      <4>1. q # job.rec /\ data'[q] = data[q] /\ mem'[q] = mem[q] /\ data[q] \in Bufs
        BY <2>4, <3>2, Types DEF LifeInv
      <4>2. mem[q] = "used" /\ mem[data[q]] = "used" /\ data[q] # data[job.rec]
        BY Zenon, <2>4, <3>2, <4>1 DEF LifeInv, Payloads
      <4>3. QED
        BY Zenon, <2>4, <4>1, <4>2
    <3>3. QED
      BY <3>1, <3>2 DEF LifeInv, Payloads
  <2>12. Books'
    <3>1. UnlistedIsCollected'
      BY Zenon, <2>4, <2>5 DEF LifeInv, Books, UnlistedIsCollected
    <3>2. PublishedIsListed'
      <4>1. \A t \in Stmts : stmts_map[t] # Nil => stmts_map[t] \in Recs /\ stmts_map[t] # job.rec
        BY Zenon, <2>4, Types DEF LifeInv
      <4>2. QED
        <5>1. \A t \in Stmts : stmts_map[t] # Nil => List \in refs[stmts_map[t]]
          BY Zenon DEF LifeInv, Books, PublishedIsListed
        <5>2. QED
          BY Zenon, <2>4, <2>5, <4>1, <5>1, PublishedStays DEF LifeInv, Books
    <3>3. \A q \in orphans : q # job.rec
      BY Zenon, <2>4 DEF LifeInv, Listing, Books
    <3>4. QED
      <4>1. \A q \in orphans : q \in Recs /\ mem[q] = "used" /\ List \notin refs[q]
        BY Zenon DEF LifeInv, Books, TypeOK
      <4>2. \A q \in orphans' : mem'[q] = "used" /\ List \notin refs'[q]
        BY Zenon, <2>4, <2>5, <3>3, <4>1
      <4>3. ASSUME NEW q \in Recs, mem'[q] = "used" PROVE text'[q] \in Stmts
        <5>1. q # job.rec /\ mem[q] = "used"
          BY Zenon, <2>4, <4>3
        <5>2. QED
          BY Zenon, <2>4, <5>1 DEF LifeInv, Books
      <4>4. QED
        BY Zenon, <3>1, <3>2, <4>2, <4>3 DEF Books
  <2>13. Listing'
    BY Zenon, <1>2, <2>4, <2>5, Types DEF LifeInv, Listing
  <2>14. QED
    BY Zenon, <2>6, <2>7, <2>8, <2>9, <2>10, <2>11, <2>12, <2>13 DEF LifeInv
<1>3. QED
  BY Zenon, <1>1, <1>2 DEF DropRef

\* keep() takes a new block and retires the old payload.
LEMMA ServeKeepKeeps ==
  ASSUME LifeInv, NEW k \in Pipes, NEW kind \in {"LOOKUP", "STORE"}, ServeKeep(k, kind)
  PROVE  LifeInv'
<1>1. PICK b \in Bufs :
       LET r == dpipes[k]
           old == {data[r]} \ {Nil}
       IN  /\ mem[b] = "free"
           /\ mem' = [x \in Blocks |-> IF x \in old THEN "retired"
                                       ELSE IF x = b THEN "used" ELSE mem[x]]
           /\ age' = [x \in Blocks |-> IF x \in old THEN 0 ELSE age[x]]
           /\ bytes' = [x \in Bufs |-> IF x \in old THEN Scribbled
                                       ELSE IF x = b THEN text[r] ELSE bytes[x]]
           /\ job' = [rec |-> r, buf |-> b]
  BY Zenon DEF ServeKeep
<1>2. Dequeue(k, kind) /\ dpc' = "data" /\ mem[dpipes[k]] = "used"
  BY Zenon DEF ServeKeep
<1>3. dpipes[k] \in Recs
  BY <1>2, Types, Dequeues DEF LifeInv, Queued
<1>4. b # Nil /\ \A r \in Recs : data[r] # b
  BY Zenon, <1>1, <1>2, NilAssumption, Dequeues DEF LifeInv, Payloads
<1>5. text[dpipes[k]] \in Stmts
  BY Zenon, <1>2, <1>3 DEF LifeInv, Books
<1>6. 0 \in 0 .. Grace
  BY GraceAssumption
<1>7. /\ inbox' \in [Pipes -> Seq({"LOOKUP", "STORE"})]
      /\ dwell' \in [Clients \cup Pipes -> 0 .. Grace - 1]
      /\ mem' \in [Blocks -> {"free", "used", "retired"}]
      /\ age' \in [Blocks -> 0 .. Grace]
      /\ bytes' \in [Bufs -> Stmts \cup {Scribbled}]
      /\ job' \in [rec : Recs \cup {Nil}, buf : Bufs \cup {Nil}]
  <2>1. mem' \in [Blocks -> {"free", "used", "retired"}] /\ age' \in [Blocks -> 0 .. Grace]
    BY Zenon, <1>1, <1>6 DEF LifeInv, TypeOK
  <2>2. bytes' \in [Bufs -> Stmts \cup {Scribbled}]
    BY Zenon, <1>1, <1>5 DEF LifeInv, TypeOK
  <2>3. QED
    BY Zenon, <1>1, <1>2, <1>3, <2>1, <2>2, Dequeues DEF LifeInv
<1>8. /\ dpc = "idle" /\ inbox[k] # << >> /\ dpc' = "data"
      /\ \A q \in Pipes \ {k} : inbox'[q] = inbox[q]
      /\ \A c \in Clients : dwell'[c] = dwell[c]
      /\ \A q \in Pipes : inbox'[q] # << >> => dwell'[q] = dwell[q]
      /\ dpipes[k] \in Recs /\ mem[dpipes[k]] = "used" /\ job'.rec = dpipes[k] /\ job'.buf = b
      /\ mem[b] = "free" /\ mem'[b] = "used" /\ \A r \in Recs : data[r] # b
      /\ \A r \in Recs : mem'[r] = mem[r] /\ age'[r] = age[r]
      /\ \A x \in Bufs : x # data[dpipes[k]] /\ x # b => mem'[x] = mem[x] /\ age'[x] = age[x]
      /\ data[dpipes[k]] # Nil => mem'[data[dpipes[k]]] = "retired" /\ age'[data[dpipes[k]]] = 0
  <2>1. data[dpipes[k]] # Nil => data[dpipes[k]] \in Bufs
    BY Zenon, <1>3, Types DEF LifeInv
  <2>2. \A r \in Recs : r # b /\ r # data[dpipes[k]] /\ r \in Blocks
    BY <2>1, Types, NilAssumption DEF LifeInv
  <2>3. \A x \in Bufs : x \in Blocks
    BY Zenon, Types DEF LifeInv
  <2>4. QED
    BY Zenon, <1>1, <1>2, <1>3, <1>4, <2>1, <2>2, <2>3, Dequeues DEF LifeInv
<1>9. UNCHANGED <<stmts_map, known, orphans, refs, text, data, len, dpipes, pc, ptr, buf,
      pipe, next>>
  BY Zenon DEF ServeKeep, listVars, clientVars
<1>10. TypeOK'
  BY Zenon, <1>8, <1>9, <1>7 DEF LifeInv, TypeOK
<1>11. Counted'
  BY <1>8, <1>9 DEF LifeInv, Counted
<1>12. Reached'
  <2>1. ASSUME NEW c \in Clients, pc[c] \in Finding PROVE Outlives(ptr[c], c)'
    <3>1. ptr[c] \in Recs /\ Outlives(ptr[c], c)
      BY Zenon, <2>1, Types DEF LifeInv, Holders, Reached
    <3>2. QED
      BY Zenon, <1>8, <1>9, <3>1 DEF Outlives
  <2>2. ASSUME NEW c \in Clients, pc[c] = "l_copy", buf[c] # Nil PROVE Outlives(buf[c], c)'
    <3>1. buf[c] \in Bufs /\ Outlives(buf[c], c) /\ dwell[c] \in Nat
      BY Zenon, <2>2, Types DEF LifeInv, Reached
    <3>2. CASE buf[c] = data[dpipes[k]]
      BY <1>8, <1>9, <2>2, <3>1, <3>2 DEF Outlives
    <3>3. CASE buf[c] # data[dpipes[k]]
      BY Zenon, <1>8, <1>9, <3>1, <3>3 DEF Outlives
    <3>4. QED
      BY Zenon, <3>2, <3>3
  <2>3. QED
    BY Zenon, <1>9, <2>1, <2>2 DEF Reached
<1>13. Queued'
  <2>1. ASSUME NEW q \in Pipes, inbox'[q] # << >>
        PROVE  dpipes[q] # Nil /\ Outlives(dpipes[q], q)'
    <3>1. inbox[q] # << >>
      BY Zenon, <1>8, <2>1
    <3>2. dpipes[q] \in Recs /\ Outlives(dpipes[q], q) /\ dpipes[q] # Nil
      BY Zenon, <1>8, <3>1, Types DEF LifeInv, Queued
    <3>3. QED
      BY Zenon, <1>8, <1>9, <2>1, <3>2 DEF Outlives
  <2>2. QED
    BY Zenon, <1>9, <2>1 DEF Queued
<1>14. Payloads'
  <2>1. job'.rec # Nil /\ mem'[job'.rec] = "used"
    BY Zenon, <1>8, NilAssumption
  <2>2. ASSUME NEW r \in Recs, data[r] # Nil
      PROVE  /\ mem'[r] = "used"
             /\ \/ mem'[data[r]] = "used"
                \/ job'.rec = r /\ mem'[data[r]] = "retired" /\ age'[data[r]] = 0
    <3>1. data[r] \in Bufs /\ mem[r] = "used" /\ mem[data[r]] = "used"
      BY Zenon, <1>8, <2>2, Types DEF LifeInv, Payloads
    <3>2. r # dpipes[k] => data[r] # data[dpipes[k]]
      BY Zenon, <1>8, <2>2 DEF LifeInv, Payloads
    <3>3. QED
      BY Zenon, <1>8, <2>2, <3>1, <3>2
  <2>3. QED
    BY <1>8, <1>9, <2>1, <2>2 DEF LifeInv, Payloads
<1>15. Books'
  <2>1. UnlistedIsCollected'
    BY Zenon, <1>8, <1>9 DEF LifeInv, Books, UnlistedIsCollected
  <2>2. ASSUME NEW t \in Stmts, stmts_map'[t] # Nil
        PROVE  /\ stmts_map'[t] = stmts_map[t] /\ mem'[stmts_map[t]] = mem[stmts_map[t]]
               /\ text'[stmts_map[t]] = text[stmts_map[t]] /\ List \in refs'[stmts_map[t]]
    <3>1. stmts_map[t] \in Recs /\ List \in refs[stmts_map[t]]
      BY Zenon, <1>9, <2>2, Types DEF LifeInv, Books, PublishedIsListed
    <3>2. QED
      BY Zenon, <1>8, <1>9, <3>1
  <2>3. PublishedIsListed'
    BY Zenon, <2>2, PublishedStays DEF LifeInv, Books
  <2>4. \A r \in orphans : r \in Recs
    BY Zenon DEF LifeInv, TypeOK
  <2>5. QED
    BY Zenon, <1>8, <1>9, <2>1, <2>3, <2>4 DEF LifeInv, Books
<1>16. Listing'
  BY Zenon, <1>8, <1>9 DEF LifeInv, Listing
<1>17. Holders'
  BY Zenon, <1>9 DEF LifeInv, Holders, Finding, Piped, Holding
<1>18. QED
  BY Zenon, <1>10, <1>11, <1>12, <1>13, <1>14, <1>15, <1>16, <1>17 DEF LifeInv

\* A new statement gets a block that nobody reaches.
LEMMA PublishNewKeeps ==
  ASSUME LifeInv, NEW s \in next.todo, NEW r \in Recs, PublishNew(s, r)
  PROVE  LifeInv'
<1>1. /\ mem' \in [Blocks -> {"free", "used", "retired"}]
      /\ refs' \in [Recs -> SUBSET (Clients \cup {List, Leak})]
      /\ text' \in [Recs -> Stmts \cup {Nil}]
      /\ data' \in [Recs -> Bufs \cup {Nil}]
      /\ len' \in [Recs -> Bufs \cup {Nil}]
      /\ stmts_map' \in [Stmts -> Recs \cup {Nil}]
      /\ next' \in [list : SUBSET Stmts, todo : SUBSET Stmts, recs : [Stmts -> Recs \cup {Nil}]]
  <2>1. mem' = [mem EXCEPT ![r] = "used"] /\ r \in Blocks
    BY Zenon, Types DEF LifeInv, PublishNew
  <2>2. mem' \in [Blocks -> {"free", "used", "retired"}]
    BY Zenon, <2>1 DEF LifeInv, TypeOK
  <2>3. s \in Stmts
    BY Zenon, Types DEF LifeInv

  <2>4. next' = [next EXCEPT !.todo = next.todo \ {s}, !.recs[s] = r]
    BY Zenon DEF PublishNew
  <2>5. next' \in [list : SUBSET Stmts, todo : SUBSET Stmts, recs : [Stmts -> Recs \cup {Nil}]]
    BY Zenon, <2>3, <2>4 DEF LifeInv, TypeOK
  <2>6. QED
    BY Zenon, <2>2, <2>3, <2>5 DEF LifeInv, TypeOK, PublishNew
<1>2. /\ dpc = "publish" /\ s \in Stmts /\ known[s] = Nil
      /\ mem[r] = "free" /\ mem'[r] = "used" /\ refs'[r] = {List} /\ text'[r] = s
      /\ data'[r] = Nil
      /\ \A q \in Recs \ {r} :
           /\ mem'[q] = mem[q] /\ refs'[q] = refs[q] /\ text'[q] = text[q] /\ data'[q] = data[q]
      /\ \A b \in Bufs : mem'[b] = mem[b]
      /\ stmts_map'[s] = r /\ \A t \in Stmts \ {s} : stmts_map'[t] = stmts_map[t]
      /\ next'.recs[s] = r /\ \A t \in Stmts \ {s} : next'.recs[t] = next.recs[t]
  <2>1. mem' = [mem EXCEPT ![r] = "used"] /\ mem \in [Blocks -> {"free", "used", "retired"}]
    BY Zenon DEF LifeInv, TypeOK, PublishNew
  <2>2. s \in Stmts /\ r \in Blocks /\ \A b \in Bufs : b # r /\ b \in Blocks
    BY Zenon, Types DEF LifeInv
  <2>3. \A q \in Recs : q \in Blocks
    BY Zenon, Types DEF LifeInv
  <2>4. /\ mem'[r] = "used" /\ (\A q \in Recs \ {r} : mem'[q] = mem[q])
        /\ \A b \in Bufs : mem'[b] = mem[b]
    BY Zenon, <2>1, <2>2, <2>3

  <2>5. next' = [next EXCEPT !.todo = next.todo \ {s}, !.recs[s] = r]
    BY Zenon DEF PublishNew
  <2>6. next'.recs[s] = r /\ \A t \in Stmts \ {s} : next'.recs[t] = next.recs[t]
    BY Zenon, <2>2, <2>5 DEF LifeInv, TypeOK
  <2>7. QED
    BY <2>2, <2>4, <2>6 DEF LifeInv, TypeOK, PublishNew
<1>3. UNCHANGED <<known, orphans, age, bytes, dpipes, inbox, pc, ptr, buf, pipe, dwell,
      dpc, job>>
  BY Zenon DEF PublishNew, pipeVars, clientVars
<1>4. TypeOK'
  BY Zenon, <1>2, <1>3, <1>1 DEF LifeInv, TypeOK
<1>5. Counted'
  BY <1>2, <1>3 DEF LifeInv, Counted
<1>6. Holders'
  <2>1. \A q \in Recs : refs[q] \subseteq refs'[q]
    BY Zenon, <1>2 DEF LifeInv, Counted
  <2>2. QED
    BY Zenon, <1>3, <2>1, Types DEF LifeInv, Holders, Finding, Holding, Piped
<1>7. Reached'
  <2>1. \A b \in Blocks : mem[b] # "free" => mem'[b] = mem[b]
    BY Zenon, <1>2 DEF Blocks
  <2>2. \A c \in Clients : (pc[c] \in Finding => ptr[c] \in Blocks) /\ (buf[c] # Nil => buf[c] \in Blocks)
    BY Zenon, Types DEF LifeInv, Holders
  <2>3. QED
    BY Zenon, <1>3, <2>1, <2>2 DEF LifeInv, Reached, Outlives
<1>8. Queued'
  <2>1. \A b \in Recs : mem[b] # "free" => mem'[b] = mem[b]
    BY Zenon, <1>2
  <2>2. QED
    BY Zenon, <1>2, <1>3, <2>1, QueuedStays DEF LifeInv
<1>9. Payloads'
  <2>1. \A q \in Recs : data[q] # Nil => q # r /\ data[q] \in Bufs
    BY Zenon, <1>2, Types DEF LifeInv, Payloads
  <2>2. dpc' \notin {"data", "len"}
    BY Zenon, <1>2, <1>3
  <2>3. \A q \in Recs : data'[q] # Nil => q # r /\ data'[q] = data[q] /\ mem'[q] = mem[q]
                                     /\ mem'[data[q]] = mem[data[q]]
    BY <1>2, <2>1
  <2>4. \A q \in Recs : data[q] # Nil => mem[q] = "used" /\ mem[data[q]] = "used"
    BY Zenon, <1>2 DEF LifeInv, Payloads
  <2>5. QED
    BY Zenon, <2>2, <2>3, <2>4, PayloadsOutside DEF LifeInv
<1>10. Books'
  <2>1. UnlistedIsCollected'
    BY Zenon, <1>2, <1>3 DEF LifeInv, Books, UnlistedIsCollected
  <2>2. PublishedIsListed'
    <3>1. \A t \in Stmts : stmts_map[t] # Nil => stmts_map[t] \in Recs \ {r}
      BY Zenon, <1>2, Types DEF LifeInv, Books, PublishedIsListed
    <3>2. QED
      BY <1>2, <1>3, <3>1 DEF LifeInv, Books, PublishedIsListed
  <2>3. (\A q \in orphans : mem[q] = "used" /\ List \notin refs[q])' /\ (\A q \in Recs : mem[q] = "used" => text[q] \in Stmts)'
    BY <1>2, <1>3 DEF LifeInv, Books, TypeOK
  <2>4. QED
    BY Zenon, <2>1, <2>2, <2>3 DEF Books
<1>11. Listing'
  BY <1>2, <1>3, Types DEF LifeInv, Listing
<1>12. QED
  BY Zenon, <1>4, <1>5, <1>6, <1>7, <1>8, <1>9, <1>10, <1>11 DEF LifeInv

\* A new record is lost with the reload.
LEMMA PublishLostKeeps ==
  ASSUME LifeInv, NEW s \in next.todo, NEW r \in Recs, PublishLost(s, r)
  PROVE  LifeInv'
<1>1. /\ mem' \in [Blocks -> {"free", "used", "retired"}]
      /\ refs' \in [Recs -> SUBSET (Clients \cup {List, Leak})]
      /\ text' \in [Recs -> Stmts \cup {Nil}]
      /\ data' \in [Recs -> Bufs \cup {Nil}]
      /\ len' \in [Recs -> Bufs \cup {Nil}]
      /\ next' \in [list : SUBSET Stmts, todo : SUBSET Stmts, recs : [Stmts -> Recs \cup {Nil}]]
  <2>1. mem' = [mem EXCEPT ![r] = "used"] /\ r \in Blocks
    BY Zenon, Types DEF LifeInv, PublishLost
  <2>2. mem' \in [Blocks -> {"free", "used", "retired"}]
    BY Zenon, <2>1 DEF LifeInv, TypeOK
  <2>3. s \in Stmts
    BY Zenon, Types DEF LifeInv

  <2>4. NoRecs \in [Stmts -> Recs \cup {Nil}]
    BY Zenon DEF NoRecs
  <2>5. NoReload \in [list : SUBSET Stmts, todo : SUBSET Stmts, recs : [Stmts -> Recs \cup {Nil}]]
    BY Zenon, <2>4 DEF NoReload
  <2>6. QED
    BY Zenon, <2>2, <2>3, <2>5 DEF LifeInv, TypeOK, PublishLost
<1>2. /\ dpc = "publish" /\ s \in Stmts /\ known[s] = Nil
      /\ mem[r] = "free" /\ mem'[r] = "used" /\ refs'[r] = {List} /\ text'[r] = s
      /\ data'[r] = Nil
      /\ \A q \in Recs \ {r} :
           /\ mem'[q] = mem[q] /\ refs'[q] = refs[q] /\ text'[q] = text[q] /\ data'[q] = data[q]
      /\ \A b \in Bufs : mem'[b] = mem[b]
      /\ dpc' = "idle"
  <2>1. mem' = [mem EXCEPT ![r] = "used"] /\ mem \in [Blocks -> {"free", "used", "retired"}]
    BY Zenon DEF LifeInv, TypeOK, PublishLost
  <2>2. s \in Stmts /\ r \in Blocks /\ \A b \in Bufs : b # r /\ b \in Blocks
    BY Zenon, Types DEF LifeInv
  <2>3. \A q \in Recs : q \in Blocks
    BY Zenon, Types DEF LifeInv
  <2>4. /\ mem'[r] = "used" /\ (\A q \in Recs \ {r} : mem'[q] = mem[q])
        /\ \A b \in Bufs : mem'[b] = mem[b]
    BY Zenon, <2>1, <2>2, <2>3

  <2>5. QED
    BY <2>2, <2>4 DEF LifeInv, TypeOK, PublishLost
<1>3. UNCHANGED <<stmts_map, known, orphans, age, bytes, dpipes, inbox, pc, ptr, buf, pipe,
      dwell, job>>
  BY Zenon DEF PublishLost, listVars, pipeVars, clientVars
<1>4. TypeOK'
  BY Zenon, <1>2, <1>3, <1>1 DEF LifeInv, TypeOK
<1>5. Counted'
  BY Zenon, <1>2, <1>3 DEF LifeInv, Counted
<1>6. Holders'
  <2>1. \A q \in Recs : refs[q] \subseteq refs'[q]
    BY Zenon, <1>2 DEF LifeInv, Counted
  <2>2. QED
    BY Zenon, <1>3, <2>1, Types DEF LifeInv, Holders, Finding, Holding, Piped
<1>7. Reached'
  <2>1. \A b \in Blocks : mem[b] # "free" => mem'[b] = mem[b]
    BY Zenon, <1>2 DEF Blocks
  <2>2. \A c \in Clients : (pc[c] \in Finding => ptr[c] \in Blocks) /\ (buf[c] # Nil => buf[c] \in Blocks)
    BY Zenon, Types DEF LifeInv, Holders
  <2>3. QED
    BY Zenon, <1>3, <2>1, <2>2 DEF LifeInv, Reached, Outlives
<1>8. Queued'
  <2>1. \A b \in Recs : mem[b] # "free" => mem'[b] = mem[b]
    BY Zenon, <1>2
  <2>2. QED
    BY Zenon, <1>2, <1>3, <2>1, QueuedStays DEF LifeInv
<1>9. Payloads'
  <2>1. \A q \in Recs : data[q] # Nil => q # r /\ data[q] \in Bufs
    BY Zenon, <1>2, Types DEF LifeInv, Payloads
  <2>2. dpc' \notin {"data", "len"}
    BY Zenon, <1>2, <1>3
  <2>3. \A q \in Recs : data'[q] # Nil => q # r /\ data'[q] = data[q] /\ mem'[q] = mem[q]
                                     /\ mem'[data[q]] = mem[data[q]]
    BY Zenon, <1>2, <2>1
  <2>4. \A q \in Recs : data[q] # Nil => mem[q] = "used" /\ mem[data[q]] = "used"
    BY Zenon, <1>2 DEF LifeInv, Payloads
  <2>5. QED
    BY Zenon, <2>2, <2>3, <2>4, PayloadsOutside DEF LifeInv
<1>10. Books'
  <2>1. UnlistedIsCollected'
    BY Zenon, <1>2, <1>3 DEF LifeInv, Books, UnlistedIsCollected
  <2>2. PublishedIsListed'
    <3>1. \A t \in Stmts : stmts_map[t] # Nil => stmts_map[t] \in Recs \ {r}
      BY Zenon, <1>2, Types DEF LifeInv, Books, PublishedIsListed
    <3>2. QED
      <4>1. \A t \in Stmts : stmts_map[t] # Nil => List \in refs[stmts_map[t]]
        BY Zenon DEF LifeInv, Books, PublishedIsListed
      <4>2. QED
        BY Zenon, <1>2, <1>3, <3>1, <4>1, PublishedStays DEF LifeInv, Books
  <2>3. (\A q \in orphans : mem[q] = "used" /\ List \notin refs[q])' /\ (\A q \in Recs : mem[q] = "used" => text[q] \in Stmts)'
    BY Zenon, <1>2, <1>3 DEF LifeInv, Books, TypeOK
  <2>4. QED
    BY Zenon, <2>1, <2>2, <2>3 DEF Books
<1>11. Listing'
  BY Zenon, <1>2, <1>3, Types DEF LifeInv, Listing
<1>12. QED
  BY Zenon, <1>4, <1>5, <1>6, <1>7, <1>8, <1>9, <1>10, <1>11 DEF LifeInv

\* Time passes: a retired block grows no older than a pointer to it.
LEMMA TickKeeps ==
  ASSUME LifeInv, Tick
  PROVE  LifeInv'
<1>1. /\ age' \in [Blocks -> 0 .. Grace]
      /\ dwell' \in [Clients \cup Pipes -> 0 .. Grace - 1]
      /\ dpc \in {"idle", "dead"}
      /\ \A b \in Blocks : mem[b] # "retired" \/ age'[b] <= age[b] + 1
      /\ \A c \in Clients : pc[c] \in {"l_get", "a_get", "l_copy"} => dwell'[c] = dwell[c] + 1
      /\ \A k \in Pipes : inbox[k] # << >> /\ ~Held(k) /\ dpc # "dead" =>
           dwell'[k] = dwell[k] + 1
  <2>1. \A x \in Clients \cup Pipes : dwell[x] \in 0 .. Grace - 1 /\ (Bare(x) =>
          dwell[x] + 1 < Grace)
    BY Zenon DEF LifeInv, TypeOK, Tick
  <2>2. \A x \in Clients \cup Pipes : (IF Bare(x) THEN dwell[x] + 1 ELSE 0) \in 0 .. Grace - 1
    BY <2>1, GraceAssumption
  <2>3. dwell' = [x \in Clients \cup Pipes |-> IF Bare(x) THEN dwell[x] + 1 ELSE 0]
    BY Zenon DEF Tick
  <2>4. dwell' \in [Clients \cup Pipes -> 0 .. Grace - 1]
    BY Zenon, <2>2, <2>3
  <2>5. age' = [b \in Blocks |-> IF mem[b] = "retired" /\ age[b] < Grace THEN age[b] + 1 ELSE age[b]]
    BY Zenon DEF Tick
  <2>6. ASSUME NEW b \in Blocks
      PROVE  age'[b] \in 0 .. Grace /\ age'[b] <= age[b] + 1
    BY <2>5, Types, GraceAssumption DEF LifeInv
  <2>7. age' \in [Blocks -> 0 .. Grace]
    BY Zenon, <2>5, <2>6
  <2>8. \A c \in Clients : pc[c] \in {"l_get", "a_get", "l_copy"} => dwell'[c] = dwell[c] + 1
    BY Zenon, <2>3 DEF Bare
  <2>9. \A k \in Pipes : inbox[k] # << >> /\ ~Held(k) /\ dpc # "dead" =>
          dwell'[k] = dwell[k] + 1
    BY Zenon, <2>3 DEF Bare
  <2>10. dpc \in {"idle", "dead"}
    BY Zenon DEF Tick
  <2>11. QED
    BY Zenon, <2>4, <2>6, <2>7, <2>8, <2>9, <2>10
<1>2. UNCHANGED <<stmts_map, known, orphans, mem, refs, text, data, len, bytes, dpipes,
      inbox, pc, ptr, buf, pipe, dpc, job, next>>
  BY Zenon DEF Tick, listVars, recVars, pipeVars, clientVars, daemonVars
<1>3. TypeOK'
  BY Zenon, <1>1, <1>2 DEF LifeInv, TypeOK
<1>4. Reached'
  <2>1. ASSUME NEW c \in Clients, NEW b \in Blocks, Outlives(b, c),
               pc[c] \in {"l_get", "a_get", "l_copy"}
        PROVE  Outlives(b, c)'
    BY <1>1, <1>2, <2>1, Types DEF LifeInv, Outlives
  <2>2. QED
    BY Zenon, <1>2, <2>1, Types DEF LifeInv, Holders, Reached, Finding
<1>5. Queued'
  <2>1. ASSUME NEW k \in Pipes, inbox[k] # << >>
        PROVE  Outlives(dpipes[k], k)' \/ (dpc = "dead" /\ mem[dpipes[k]] = "retired")
    <3>1. CASE Held(k)
      BY <1>2, <3>1, Types, NilAssumption DEF LifeInv, Held, Holders, Counted, Outlives
    <3>2. CASE ~Held(k)
      BY <1>1, <1>2, <2>1, <3>2, Types DEF LifeInv, Queued, Outlives
    <3>3. QED
      BY Zenon, <3>1, <3>2
  <2>2. QED
    BY Zenon, <1>2, <2>1 DEF LifeInv, Queued
<1>6. Payloads'
  BY <1>1, <1>2, Types DEF LifeInv, Payloads
<1>7. Counted' /\ Holders'
  BY Zenon, <1>2 DEF LifeInv, Counted, Holders, Finding, Piped, Holding
<1>8. Books' /\ Listing'
  BY Zenon, <1>2 DEF LifeInv, Books, UnlistedIsCollected, PublishedIsListed, Listing
<1>9. QED
  BY Zenon, <1>3, <1>4, <1>5, <1>6, <1>7, <1>8 DEF LifeInv

\* serve() is about to clear stmt_data.
LEMMA ServeMissKeeps ==
  ASSUME LifeInv, NEW k \in Pipes, ServeMiss(k)
  PROVE  LifeInv'
<1>1. /\ inbox' \in [Pipes -> Seq({"LOOKUP", "STORE"})]
      /\ dwell' \in [Clients \cup Pipes -> 0 .. Grace - 1]
      /\ dpc = "idle" /\ inbox[k] # << >> /\ \A q \in Pipes \ {k} : inbox'[q] = inbox[q]
      /\ \A c \in Clients : dwell'[c] = dwell[c]
      /\ \A q \in Pipes : inbox'[q] # << >> => dwell'[q] = dwell[q]
      /\ dpc' = "data" /\ job'.rec = dpipes[k] /\ job'.buf = Nil /\ dpipes[k] \in Recs
      /\ mem[dpipes[k]] = "used"
      /\ job' \in [rec : Recs \cup {Nil}, buf : Bufs \cup {Nil}]
  <2>1. /\ Dequeue(k, "LOOKUP") /\ dpc' = "data" /\ job' = [rec |-> dpipes[k], buf |-> Nil]
        /\ mem[dpipes[k]] = "used"
    BY Zenon DEF ServeMiss
  <2>2. dpipes[k] \in Recs
    BY Zenon, <2>1, Types, Dequeues DEF LifeInv, Queued
  <2>3. QED
    BY Zenon, <2>1, <2>2, Dequeues DEF LifeInv
<1>2. UNCHANGED <<stmts_map, known, orphans, mem, age, refs, text, data, len, bytes,
      dpipes, pc, ptr, buf, pipe, next>>
  BY Zenon DEF ServeMiss, listVars, heapVars, recVars, clientVars
<1>3. TypeOK'
  BY Zenon, <1>1, <1>2 DEF LifeInv, TypeOK
<1>4. Reached'
  BY Zenon, <1>1, <1>2, Types DEF LifeInv, Reached, Finding, Outlives
<1>5. Queued'
  <2>1. \A q \in Pipes : inbox'[q] # << >> => inbox[q] # << >> /\ dwell'[q] = dwell[q]
    BY Zenon, <1>1
  <2>2. QED
    BY Zenon, <1>1, <1>2, <2>1, QueuedStays DEF LifeInv
<1>6. Payloads'
  BY <1>1, <1>2, Types, NilAssumption DEF LifeInv, Payloads
<1>7. Listing'
  BY Zenon, <1>1, <1>2, Types DEF LifeInv, Listing
<1>8. Counted' /\ Holders' /\ Books'
  BY <1>2
  DEF LifeInv, Counted, Holders, Finding, Piped, Holding, Books, UnlistedIsCollected,
      PublishedIsListed
<1>9. QED
  BY Zenon, <1>3, <1>4, <1>5, <1>6, <1>7, <1>8 DEF LifeInv

\* The key of a statement goes; no other key leads to its record.
LEMMA DeleteKeeps ==
  ASSUME LifeInv, NEW s \in next.todo, Delete(s)
  PROVE  LifeInv'
<1>1. /\ next' \in [list : SUBSET Stmts, todo : SUBSET Stmts, recs : [Stmts -> Recs \cup {Nil}]]
      /\ job' \in [rec : Recs \cup {Nil}, buf : Bufs \cup {Nil}]
      /\ stmts_map' \in [Stmts -> Recs \cup {Nil}]
      /\ dpc = "delete" /\ dpc' = "put" /\ s \in Stmts /\ known[s] \in Recs
      /\ stmts_map[s] = known[s] /\ stmts_map'[s] = Nil
      /\ \A t \in Stmts \ {s} : stmts_map'[t] = stmts_map[t]
      /\ next'.recs = next.recs /\ next'.todo = next.todo \ {s} /\ next.recs[s] = Nil
      /\ job'.rec = known[s]
  <2>1. /\ dpc = "delete" /\ dpc' = "put" /\ stmts_map' = [stmts_map EXCEPT ![s] = Nil]
        /\ next' = [next EXCEPT !.todo = next.todo \ {s}]
        /\ job' = [rec |-> known[s], buf |-> Nil]
    BY Zenon DEF Delete
  <2>2. s \in Stmts /\ known[s] \in Recs /\ stmts_map[s] = known[s] /\ next.recs[s] = Nil
    BY Zenon, <2>1, Types DEF LifeInv, Listing
  <2>3. next' \in [list : SUBSET Stmts, todo : SUBSET Stmts, recs : [Stmts -> Recs \cup {Nil}]]
    BY Zenon, <2>1, <2>2 DEF LifeInv, TypeOK
  <2>4. next'.recs = next.recs /\ next'.todo = next.todo \ {s}
    BY Zenon, <2>1 DEF LifeInv, TypeOK
  <2>5. QED
    BY Zenon, <2>1, <2>2, <2>3, <2>4 DEF LifeInv, TypeOK
<1>2. UNCHANGED <<known, orphans, mem, age, refs, text, data, len, bytes, dpipes, inbox,
      pc, ptr, buf, pipe, dwell>>
  BY Zenon DEF Delete, heapVars, recVars, pipeVars, clientVars
<1>3. TypeOK'
  BY Zenon, <1>1, <1>2 DEF LifeInv, TypeOK
<1>4. Queued'
  BY Zenon, <1>1, <1>2, Types DEF LifeInv, Queued, Outlives
<1>5. Payloads'
  <2>1. dpc' \notin {"data", "len"} /\ dpc # "data"
    BY Zenon, <1>1
  <2>2. \A q \in Recs : data'[q] # Nil =>
          data'[q] = data[q] /\ mem'[q] = "used" /\ mem'[data[q]] = "used"
    BY Zenon, <1>2, <2>1 DEF LifeInv, Payloads
  <2>3. QED
    BY Zenon, <2>1, <2>2, PayloadsOutside DEF LifeInv
<1>6. Books'
  BY <1>1, <1>2, Types DEF LifeInv, Books, UnlistedIsCollected, PublishedIsListed
<1>7. Listing'
  <2>1. /\ known[s] # Nil /\ mem[known[s]] = "used" /\ List \in refs[known[s]]
        /\ text[known[s]] = s
    BY <1>1, NilAssumption DEF LifeInv, Books, PublishedIsListed
  <2>2. \A t \in Stmts : stmts_map'[t] # known[s]
    BY <1>1, <2>1 DEF LifeInv, Books, PublishedIsListed
  <2>3. QED
    BY <1>1, <1>2, <2>1, <2>2, Types DEF LifeInv, Listing
<1>8. Counted' /\ Holders' /\ Reached'
  BY <1>2 DEF LifeInv, Counted, Holders, Finding, Piped, Holding, Reached, Outlives
<1>9. QED
  BY Zenon, <1>3, <1>4, <1>5, <1>6, <1>7, <1>8 DEF LifeInv

\* serve() takes a request and changes nothing in the arena.
LEMMA ServeNothingKeeps ==
  ASSUME LifeInv, NEW k \in Pipes, NEW kind \in {"LOOKUP", "STORE"}, ServeNothing(k, kind)
  PROVE  LifeInv'
<1>1. /\ inbox' \in [Pipes -> Seq({"LOOKUP", "STORE"})]
      /\ dwell' \in [Clients \cup Pipes -> 0 .. Grace - 1]
      /\ dpc = "idle" /\ inbox[k] # << >> /\ \A q \in Pipes \ {k} : inbox'[q] = inbox[q]
      /\ \A c \in Clients : dwell'[c] = dwell[c]
      /\ \A q \in Pipes : inbox'[q] # << >> => dwell'[q] = dwell[q]
  <2>1. Dequeue(k, kind)
    BY Zenon DEF ServeNothing
  <2>2. QED
    BY Zenon, <2>1, Dequeues DEF LifeInv
<1>2. UNCHANGED <<stmts_map, known, orphans, mem, age, refs, text, data, len, bytes,
      dpipes, pc, ptr, buf, pipe, dpc, job, next>>
  BY Zenon DEF ServeNothing, listVars, heapVars, recVars, clientVars, daemonVars
<1>3. TypeOK'
  BY Zenon, <1>1, <1>2 DEF LifeInv, TypeOK
<1>4. Reached'
  BY Zenon, <1>1, <1>2, Types DEF LifeInv, Reached, Finding, Outlives
<1>5. Queued'
  <2>1. \A q \in Pipes : inbox'[q] # << >> => inbox[q] # << >> /\ dwell'[q] = dwell[q]
    BY Zenon, <1>1
  <2>2. QED
    BY Zenon, <1>1, <1>2, <2>1, QueuedStays DEF LifeInv
<1>6. Counted' /\ Holders'
  BY Zenon, <1>2 DEF LifeInv, Counted, Holders, Finding, Piped, Holding
<1>7. Payloads' /\ Books' /\ Listing'
  BY <1>2 DEF LifeInv, Payloads, Books, UnlistedIsCollected, PublishedIsListed, Listing
<1>8. QED
  BY Zenon, <1>3, <1>4, <1>5, <1>6, <1>7 DEF LifeInv

\* serve() meets a retired record.
LEMMA ServeRetiredKeeps ==
  ASSUME LifeInv, NEW k \in Pipes, NEW kind \in {"LOOKUP", "STORE"}, ServeRetired(k, kind)
  PROVE  LifeInv'
<1>1. /\ inbox' \in [Pipes -> Seq({"LOOKUP", "STORE"})]
      /\ dwell' \in [Clients \cup Pipes -> 0 .. Grace - 1]
      /\ dpc = "idle" /\ inbox[k] # << >> /\ \A q \in Pipes \ {k} : inbox'[q] = inbox[q]
      /\ \A c \in Clients : dwell'[c] = dwell[c]
      /\ \A q \in Pipes : inbox'[q] # << >> => dwell'[q] = dwell[q]
      /\ dpc' \in {"idle", "dead"}
  <2>1. Dequeue(k, kind) /\ dpc' \in {"idle", "dead"}
    BY Zenon DEF ServeRetired
  <2>2. QED
    BY Zenon, <2>1, Dequeues DEF LifeInv
<1>2. UNCHANGED <<stmts_map, known, orphans, mem, age, refs, text, data, len, bytes,
      dpipes, pc, ptr, buf, pipe, job, next>>
  BY Zenon DEF ServeRetired, listVars, heapVars, recVars, clientVars
<1>3. TypeOK'
  BY Zenon, <1>1, <1>2 DEF LifeInv, TypeOK
<1>4. Reached'
  BY Zenon, <1>1, <1>2, Types DEF LifeInv, Reached, Finding, Outlives
<1>5. Queued'
  BY SMTT(20), <1>1, <1>2, Types DEF LifeInv, Queued, Outlives
<1>6. Payloads'
  BY <1>1, <1>2, Types DEF LifeInv, Payloads
<1>7. Listing'
  BY Zenon, <1>1, <1>2, Types DEF LifeInv, Listing
<1>8. Counted' /\ Holders' /\ Books'
  BY <1>2
  DEF LifeInv, Counted, Holders, Finding, Piped, Holding, Books, UnlistedIsCollected,
      PublishedIsListed
<1>9. QED
  BY Zenon, <1>3, <1>4, <1>5, <1>6, <1>7, <1>8 DEF LifeInv

\* The record is pointed at the new payload, which is nobody else's.
LEMMA StoreDataKeeps ==
  ASSUME LifeInv, StoreData
  PROVE  LifeInv'
<1>1. /\ data' \in [Recs -> Bufs \cup {Nil}]
      /\ dpc = "data" /\ dpc' = "len" /\ job.rec \in Recs /\ data'[job.rec] = job.buf
      /\ \A r \in Recs : r # job.rec => data'[r] = data[r]
  <2>1. dpc = "data" /\ dpc' = "len" /\ data' = [data EXCEPT ![job.rec] = job.buf]
    BY Zenon DEF StoreData
  <2>2. job.rec \in Recs /\ job.buf \in Bufs \cup {Nil}
    BY Zenon, <2>1, Types DEF LifeInv, TypeOK, Payloads
  <2>3. QED
    BY Zenon, <2>1, <2>2 DEF LifeInv, TypeOK
<1>2. UNCHANGED <<stmts_map, known, orphans, mem, age, refs, text, len, bytes, dpipes,
      inbox, pc, ptr, buf, pipe, dwell, job, next>>
  BY Zenon DEF StoreData, listVars, heapVars, pipeVars, clientVars
<1>3. TypeOK'
  BY Zenon, <1>1, <1>2 DEF LifeInv, TypeOK
<1>4. Queued'
  BY Zenon, <1>1, <1>2, Types DEF LifeInv, Queued, Outlives
<1>5. Payloads'
  BY <1>1, <1>2, Types DEF LifeInv, Payloads
<1>6. Listing'
  BY Zenon, <1>1, <1>2, Types DEF LifeInv, Listing
<1>7. Counted' /\ Holders'
  BY Zenon, <1>2 DEF LifeInv, Counted, Holders, Finding, Piped, Holding
<1>8. Reached' /\ Books'
  BY Zenon, <1>2
  DEF LifeInv, Reached, Finding, Outlives, Books, UnlistedIsCollected, PublishedIsListed
<1>9. QED
  BY Zenon, <1>3, <1>4, <1>5, <1>6, <1>7, <1>8 DEF LifeInv

\* The length follows.
LEMMA StoreLenKeeps ==
  ASSUME LifeInv, StoreLen
  PROVE  LifeInv'
<1>1. /\ len' \in [Recs -> Bufs \cup {Nil}]
      /\ job' \in [rec : Recs \cup {Nil}, buf : Bufs \cup {Nil}]
      /\ dpc = "len" /\ dpc' = "idle"
  <2>1. dpc = "len" /\ dpc' = "idle" /\ len' = [len EXCEPT ![job.rec] = job.buf] /\ job' = NoJob
    BY Zenon DEF StoreLen
  <2>2. job.rec \in Recs /\ job.buf \in Bufs \cup {Nil}
    BY Zenon, <2>1, Types DEF LifeInv, TypeOK, Payloads
  <2>3. QED
    BY Zenon, <2>1, <2>2 DEF LifeInv, TypeOK, NoJob
<1>2. UNCHANGED <<stmts_map, known, orphans, mem, age, refs, text, data, bytes, dpipes,
      inbox, pc, ptr, buf, pipe, dwell, next>>
  BY Zenon DEF StoreLen, listVars, heapVars, pipeVars, clientVars
<1>3. TypeOK'
  BY Zenon, <1>1, <1>2 DEF LifeInv, TypeOK
<1>4. Queued'
  BY Zenon, <1>1, <1>2, Types DEF LifeInv, Queued, Outlives
<1>5. Payloads'
  BY <1>1, <1>2, Types DEF LifeInv, Payloads
<1>6. Listing'
  BY Zenon, <1>1, <1>2, Types DEF LifeInv, Listing
<1>7. Counted' /\ Holders'
  BY Zenon, <1>2 DEF LifeInv, Counted, Holders, Finding, Piped, Holding
<1>8. Reached' /\ Books'
  BY Zenon, <1>2
  DEF LifeInv, Reached, Finding, Outlives, Books, UnlistedIsCollected, PublishedIsListed
<1>9. QED
  BY Zenon, <1>3, <1>4, <1>5, <1>6, <1>7, <1>8 DEF LifeInv

\* loadStatements() begins.
LEMMA ReloadKeeps ==
  ASSUME LifeInv, NEW list \in SUBSET Stmts, Reload(list)
  PROVE  LifeInv'
<1>1. /\ next' \in [list : SUBSET Stmts, todo : SUBSET Stmts, recs : [Stmts -> Recs \cup {Nil}]]
      /\ dpc = "idle" /\ dpc' = "publish" /\ \A s \in Stmts : next'.recs[s] = Nil
  <2>1. /\ dpc = "idle" /\ dpc' = "publish"
        /\ next' = [list |-> list, todo |-> list, recs |-> NoRecs]
    BY Zenon DEF Reload
  <2>2. NoRecs \in [Stmts -> Recs \cup {Nil}] /\ \A s \in Stmts : NoRecs[s] = Nil
    BY Zenon DEF NoRecs
  <2>3. QED
    BY Zenon, <2>1, <2>2
<1>2. UNCHANGED <<stmts_map, known, orphans, mem, age, refs, text, data, len, bytes,
      dpipes, inbox, pc, ptr, buf, pipe, dwell, job>>
  BY Zenon DEF Reload, listVars, heapVars, recVars, pipeVars, clientVars
<1>3. TypeOK'
  BY Zenon, <1>1, <1>2 DEF LifeInv, TypeOK
<1>4. Queued'
  BY Zenon, <1>1, <1>2, Types DEF LifeInv, Queued, Outlives
<1>5. Payloads'
  BY <1>1, <1>2, Types DEF LifeInv, Payloads
<1>6. Listing'
  BY Zenon, <1>1, <1>2, Types DEF LifeInv, Listing
<1>7. Counted' /\ Holders'
  BY Zenon, <1>2 DEF LifeInv, Counted, Holders, Finding, Piped, Holding
<1>8. Reached' /\ Books'
  BY Zenon, <1>2
  DEF LifeInv, Reached, Finding, Outlives, Books, UnlistedIsCollected, PublishedIsListed
<1>9. QED
  BY Zenon, <1>3, <1>4, <1>5, <1>6, <1>7, <1>8 DEF LifeInv

\* loadStatements() gives up: the arena is full.
LEMMA PublishFailKeeps ==
  ASSUME LifeInv, NEW s \in next.todo, PublishFail(s)
  PROVE  LifeInv'
<1>1. /\ next' \in [list : SUBSET Stmts, todo : SUBSET Stmts, recs : [Stmts -> Recs \cup {Nil}]]
      /\ dpc = "publish" /\ dpc' = "idle"
  <2>1. NoRecs \in [Stmts -> Recs \cup {Nil}]
    BY Zenon DEF NoRecs
  <2>2. NoReload \in [list : SUBSET Stmts, todo : SUBSET Stmts, recs : [Stmts -> Recs \cup {Nil}]]
    BY Zenon, <2>1 DEF NoReload

  <2>3. QED
    BY Zenon, <2>2 DEF PublishFail
<1>2. UNCHANGED <<stmts_map, known, orphans, mem, age, refs, text, data, len, bytes,
      dpipes, inbox, pc, ptr, buf, pipe, dwell, job>>
  BY Zenon DEF PublishFail, listVars, heapVars, recVars, pipeVars, clientVars
<1>3. TypeOK'
  BY Zenon, <1>1, <1>2 DEF LifeInv, TypeOK
<1>4. Queued'
  BY Zenon, <1>1, <1>2, Types DEF LifeInv, Queued, Outlives
<1>5. Payloads'
  BY <1>1, <1>2, Types DEF LifeInv, Payloads
<1>6. Listing'
  BY Zenon, <1>1, <1>2, Types DEF LifeInv, Listing
<1>7. Counted' /\ Holders'
  BY Zenon, <1>2 DEF LifeInv, Counted, Holders, Finding, Piped, Holding
<1>8. Reached' /\ Books'
  BY Zenon, <1>2
  DEF LifeInv, Reached, Finding, Outlives, Books, UnlistedIsCollected, PublishedIsListed
<1>9. QED
  BY Zenon, <1>3, <1>4, <1>5, <1>6, <1>7, <1>8 DEF LifeInv

\* loadStatements() ends: what is published is what is known.
LEMMA ReloadEndKeeps ==
  ASSUME LifeInv, ReloadEnd
  PROVE  LifeInv'
<1>1. /\ next' \in [list : SUBSET Stmts, todo : SUBSET Stmts, recs : [Stmts -> Recs \cup {Nil}]]
      /\ known' \in [Stmts -> Recs \cup {Nil}]
      /\ dpc = "delete" /\ dpc' = "idle" /\ known' = next.recs
  <2>1. NoRecs \in [Stmts -> Recs \cup {Nil}]
    BY Zenon DEF NoRecs
  <2>2. NoReload \in [list : SUBSET Stmts, todo : SUBSET Stmts, recs : [Stmts -> Recs \cup {Nil}]]
    BY Zenon, <2>1 DEF NoReload

  <2>3. next.recs \in [Stmts -> Recs \cup {Nil}]
    BY Zenon DEF LifeInv, TypeOK
  <2>4. QED
    BY Zenon, <2>2, <2>3 DEF ReloadEnd
<1>2. UNCHANGED <<stmts_map, orphans, mem, age, refs, text, data, len, bytes, dpipes,
      inbox, pc, ptr, buf, pipe, dwell, job>>
  BY Zenon DEF ReloadEnd, heapVars, recVars, pipeVars, clientVars
<1>3. TypeOK'
  BY Zenon, <1>1, <1>2 DEF LifeInv, TypeOK
<1>4. Queued'
  BY Zenon, <1>1, <1>2, Types DEF LifeInv, Queued, Outlives
<1>5. Payloads'
  BY <1>1, <1>2, Types DEF LifeInv, Payloads
<1>6. Listing'
  BY Zenon, <1>1, <1>2, Types DEF LifeInv, Listing
<1>7. Counted' /\ Holders'
  BY Zenon, <1>2 DEF LifeInv, Counted, Holders, Finding, Piped, Holding
<1>8. Reached' /\ Books'
  BY Zenon, <1>2
  DEF LifeInv, Reached, Finding, Outlives, Books, UnlistedIsCollected, PublishedIsListed
<1>9. QED
  BY Zenon, <1>3, <1>4, <1>5, <1>6, <1>7, <1>8 DEF LifeInv

\* A known statement is published as it was.
LEMMA PublishKnownKeeps ==
  ASSUME LifeInv, NEW s \in next.todo, PublishKnown(s)
  PROVE  LifeInv'
<1>1. /\ next' \in [list : SUBSET Stmts, todo : SUBSET Stmts, recs : [Stmts -> Recs \cup {Nil}]]
      /\ s \in Stmts /\ dpc = "publish" /\ known[s] # Nil /\ stmts_map' = stmts_map
      /\ next'.recs[s] = known[s]
      /\ \A t \in Stmts \ {s} : next'.recs[t] = next.recs[t]
  <2>1. /\ dpc = "publish" /\ known[s] # Nil /\ stmts_map' = [stmts_map EXCEPT ![s] = known[s]]
        /\ next' = [next EXCEPT !.todo = next.todo \ {s}, !.recs[s] = known[s]]
    BY Zenon DEF PublishKnown
  <2>2. s \in Stmts /\ known[s] \in Recs \cup {Nil} /\ stmts_map[s] = known[s]
    BY Zenon, <2>1, Types DEF LifeInv, TypeOK, Listing
  <2>3. stmts_map' = stmts_map
    BY <2>1, <2>2 DEF LifeInv, TypeOK
  <2>4. next' \in [list : SUBSET Stmts, todo : SUBSET Stmts, recs : [Stmts -> Recs \cup {Nil}]]
    BY Zenon, <2>1, <2>2 DEF LifeInv, TypeOK
  <2>5. next'.recs[s] = known[s] /\ \A t \in Stmts \ {s} : next'.recs[t] = next.recs[t]
    BY Zenon, <2>1, <2>2 DEF LifeInv, TypeOK
  <2>6. QED
    BY Zenon, <2>1, <2>2, <2>3, <2>4, <2>5
<1>2. UNCHANGED <<known, orphans, mem, age, refs, text, data, len, bytes, dpipes, inbox,
      pc, ptr, buf, pipe, dwell, dpc, job>>
  BY Zenon DEF PublishKnown, heapVars, recVars, pipeVars, clientVars
<1>3. TypeOK'
  BY Zenon, <1>1, <1>2 DEF LifeInv, TypeOK
<1>4. Books'
  BY Zenon, <1>1, <1>2, Types DEF LifeInv, Books, UnlistedIsCollected, PublishedIsListed
<1>5. Listing'
  BY <1>1, <1>2, Types DEF LifeInv, Listing
<1>6. Counted' /\ Holders'
  BY Zenon, <1>2 DEF LifeInv, Counted, Holders, Finding, Piped, Holding
<1>7. Reached' /\ Queued' /\ Payloads'
  BY <1>2 DEF LifeInv, Reached, Finding, Outlives, Queued, Payloads
<1>8. QED
  BY Zenon, <1>3, <1>4, <1>5, <1>6, <1>7 DEF LifeInv

\* Everything is published; the statements that left the list come next.
LEMMA PublishEndKeeps ==
  ASSUME LifeInv, PublishEnd
  PROVE  LifeInv'
<1>1. /\ next' \in [list : SUBSET Stmts, todo : SUBSET Stmts, recs : [Stmts -> Recs \cup {Nil}]]
      /\ dpc = "publish" /\ dpc' = "delete" /\ next'.recs = next.recs /\ next'.todo = Dropped
  <2>1. dpc = "publish" /\ dpc' = "delete" /\ next' = [next EXCEPT !.todo = Dropped]
    BY Zenon DEF PublishEnd
  <2>2. Dropped \in SUBSET Stmts
    BY Zenon DEF Dropped
  <2>3. QED
    BY Zenon, <2>1, <2>2 DEF LifeInv, TypeOK
<1>2. UNCHANGED <<stmts_map, known, orphans, mem, age, refs, text, data, len, bytes,
      dpipes, inbox, pc, ptr, buf, pipe, dwell, job>>
  BY Zenon DEF PublishEnd, listVars, heapVars, recVars, pipeVars, clientVars
<1>3. TypeOK'
  BY Zenon, <1>1, <1>2 DEF LifeInv, TypeOK
<1>4. Queued'
  BY Zenon, <1>1, <1>2, Types DEF LifeInv, Queued, Outlives
<1>5. Payloads'
  BY <1>1, <1>2, Types DEF LifeInv, Payloads
<1>6. Listing'
  BY <1>1, <1>2, Types DEF LifeInv, Listing, Dropped
<1>7. Counted' /\ Holders'
  BY Zenon, <1>2 DEF LifeInv, Counted, Holders, Finding, Piped, Holding
<1>8. Reached' /\ Books'
  BY Zenon, <1>2
  DEF LifeInv, Reached, Finding, Outlives, Books, UnlistedIsCollected, PublishedIsListed
<1>9. QED
  BY Zenon, <1>3, <1>4, <1>5, <1>6, <1>7, <1>8 DEF LifeInv
=============================================================================
