------------------------------ MODULE StmtLife ------------------------------
(***************************************************************************)
(* The life of a statement record and of the payloads it points at: who    *)
(* publishes them, who reads them and when their memory may be handed out  *)
(* again (src/daemon/main.cpp: loadStatements, store, serve, keep,         *)
(* retireStmt, collectOrphans; src/uclient/shared.cpp: lookupPayload,      *)
(* acquire, release; the reference count in src/common/defs.h).            *)
(*                                                                         *)
(* Clients read the arena without telling anyone.  Their steps are split   *)
(* at every access to shared memory, and so are the daemon's where a       *)
(* client can see the state in between.  The heap is what Arena promises:  *)
(* a block is free, used or retired, and a retired block is freed once     *)
(* its grace period is over.  The text of a statement is allocated and     *)
(* retired with its record and is not modelled apart from it.              *)
(*                                                                         *)
(* stmt_refs is kept as the set of its holders: the statement list, the    *)
(* clients, and Leak for references nobody is left to drop.  The count in  *)
(* the code is the number of them.                                         *)
(***************************************************************************)
EXTENDS Naturals, Sequences

CONSTANTS
  Clients,       \* client connections
  Pipes,         \* dpipe keys
  Stmts,         \* statement texts
  Recs,          \* arena blocks that hold records
  Bufs,          \* arena blocks that hold payloads
  Grace,         \* RETIRE_GRACE_NS, in ticks
  MaxInbox,      \* bound: requests queued on one dpipe
  Nil            \* the null pointer

ASSUME GraceAssumption == Grace \in Nat \ {0} /\ MaxInbox \in Nat
ASSUME NilAssumption == Nil \notin Recs \cup Bufs \cup Pipes
ASSUME BlocksAssumption == Recs \cap Bufs = {} /\ Pipes \cap Clients = {}

List == "list"
Leak == "leak"
Scribbled == "scribbled"
ASSUME TokenAssumption == {List, Leak} \cap Clients = {} /\ Scribbled \notin Stmts

Blocks == Recs \cup Bufs

VARIABLES
  stmts_map,     \* the published record of each statement
  known,         \* Daemon::known
  orphans,       \* Daemon::orphans
  mem, age,      \* "free", "used" or "retired", and for how long retired
  refs,          \* stmt_refs
  text,          \* stmt_txt
  data, len,     \* stmt_data, and the payload that stmt_data_len measures
  bytes,         \* whose response a payload block contains
  dpipes,        \* dpipes[k].stmt
  inbox,         \* requests queued on a dpipe
  pc, ptr, buf, pipe,    \* each client's position and locals
  dwell,         \* how long a pointer has been held without a reference
  dpc, job, next         \* the daemon's position and locals

heapVars == <<mem, age>>
recVars == <<refs, text, data, len, bytes>>
listVars == <<stmts_map, known, orphans>>
pipeVars == <<dpipes, inbox>>
clientVars == <<pc, ptr, buf, pipe>>
daemonVars == <<dpc, job, next>>
vars == <<listVars, heapVars, recVars, pipeVars, clientVars, dwell, daemonVars>>

PCs == {"idle", "l_get", "l_check", "l_read", "l_copy", "l_put",
        "a_get", "a_splice", "held", "posted", "dead"}

\* Where a client holds a reference on ptr.
Holding == {"l_check", "l_read", "l_copy", "l_put", "a_splice", "held", "posted"}

NoJob == [rec |-> Nil, buf |-> Nil]

TypeOK ==
  /\ stmts_map \in [Stmts -> Recs \cup {Nil}]
  /\ known \in [Stmts -> Recs \cup {Nil}]
  /\ orphans \subseteq Recs
  /\ mem \in [Blocks -> {"free", "used", "retired"}]
  /\ age \in [Blocks -> 0 .. Grace]
  /\ refs \in [Recs -> SUBSET (Clients \cup {List, Leak})]
  /\ text \in [Recs -> Stmts \cup {Nil}]
  /\ data \in [Recs -> Bufs \cup {Nil}]
  /\ len \in [Recs -> Bufs \cup {Nil}]
  /\ bytes \in [Bufs -> Stmts \cup {Scribbled}]
  /\ dpipes \in [Pipes -> Recs \cup {Nil}]
  /\ inbox \in [Pipes -> Seq({"LOOKUP", "STORE"})]
  /\ pc \in [Clients -> PCs]
  /\ ptr \in [Clients -> Recs \cup {Nil}]
  /\ buf \in [Clients -> Bufs \cup {Nil}]
  /\ pipe \in [Clients -> Pipes \cup {Nil}]
  /\ dwell \in [Clients \cup Pipes -> 0 .. Grace - 1]
  /\ dpc \in {"idle", "data", "len", "publish", "delete", "put", "dead"}
  /\ job \in [rec : Recs \cup {Nil}, buf : Bufs \cup {Nil}]
  /\ next \in [list : SUBSET Stmts, todo : SUBSET Stmts, recs : [Stmts -> Recs \cup {Nil}]]

NoRecs == [s \in Stmts |-> Nil]
NoReload == [list |-> {}, todo |-> {}, recs |-> NoRecs]

\* The daemon has started with an empty list; the first Reload publishes one.
Init ==
  /\ stmts_map = NoRecs
  /\ known = NoRecs
  /\ orphans = {}
  /\ mem = [b \in Blocks |-> "free"]
  /\ age = [b \in Blocks |-> 0]
  /\ refs = [r \in Recs |-> {}]
  /\ text = [r \in Recs |-> Nil]
  /\ data = [r \in Recs |-> Nil]
  /\ len = [r \in Recs |-> Nil]
  /\ bytes = [b \in Bufs |-> Scribbled]
  /\ dpipes = [k \in Pipes |-> Nil]
  /\ inbox = [k \in Pipes |-> << >>]
  /\ pc = [c \in Clients |-> "idle"]
  /\ ptr = [c \in Clients |-> Nil]
  /\ buf = [c \in Clients |-> Nil]
  /\ pipe = [c \in Clients |-> Nil]
  /\ dwell = [x \in Clients \cup Pipes |-> 0]
  /\ dpc = "idle"
  /\ job = NoJob
  /\ next = NoReload
-----------------------------------------------------------------------------
(* lookupPayload().                                                        *)

At(c, label) == pc[c] = label
Goto(c, label) == pc' = [pc EXCEPT ![c] = label]
Return(c) ==
  /\ Goto(c, "idle")
  /\ ptr' = [ptr EXCEPT ![c] = Nil]
  /\ buf' = [buf EXCEPT ![c] = Nil]
  /\ pipe' = [pipe EXCEPT ![c] = Nil]

\* Start of a stretch in which x holds a pointer and no reference, and its end.
Clock(x) == dwell' = [dwell EXCEPT ![x] = 0]

\* Find the record in stmts_map, for lookupPayload() or for acquire().
Resolve(c, s) ==
  /\ At(c, "idle")
  /\ stmts_map[s] # Nil
  /\ ptr' = [ptr EXCEPT ![c] = stmts_map[s]]
  /\ Goto(c, "l_get") \/ Goto(c, "a_get")
  /\ Clock(c)
  /\ UNCHANGED <<listVars, heapVars, recVars, pipeVars, buf, pipe, daemonVars>>

\* bncl_stmt_get refuses a record whose count is zero.
Get(c) ==
  /\ At(c, "l_get")
  /\ \/ /\ refs[ptr[c]] = {}
        /\ Return(c)
        /\ UNCHANGED refs
     \/ /\ refs[ptr[c]] # {}
        /\ refs' = [refs EXCEPT ![ptr[c]] = @ \cup {c}]
        /\ Goto(c, "l_check")
        /\ UNCHANGED <<ptr, buf, pipe>>
  /\ Clock(c)
  /\ UNCHANGED <<listVars, heapVars, text, data, len, bytes, pipeVars, daemonVars>>

\* No payload, or one past its TTL, is a miss.
Check(c) ==
  /\ At(c, "l_check")
  /\ \/ Goto(c, "l_put")
     \/ data[ptr[c]] # Nil /\ len[ptr[c]] # Nil /\ Goto(c, "l_read")
  /\ UNCHANGED <<listVars, heapVars, recVars, pipeVars, ptr, buf, pipe, dwell,
                 daemonVars>>

\* stmt_data is read a second time, for the copy.
Read(c) ==
  /\ At(c, "l_read")
  /\ buf' = [buf EXCEPT ![c] = data[ptr[c]]]
  /\ Goto(c, "l_copy")
  /\ Clock(c)
  /\ UNCHANGED <<listVars, heapVars, recVars, pipeVars, ptr, pipe, daemonVars>>

\* The daemon took the payload away between the check and that read, and has put
\* another one there since: the client reads stmt_data_len bytes at null.
Fault(c) ==
  /\ At(c, "l_copy")
  /\ buf[c] = Nil /\ len[ptr[c]] # Nil
  /\ Goto(c, "dead")
  /\ ptr' = [ptr EXCEPT ![c] = Nil]
  /\ Clock(c)
  /\ UNCHANGED <<listVars, heapVars, recVars, pipeVars, buf, pipe, daemonVars>>

\* The copy, stmt_data_len bytes from there.
Copy(c) ==
  /\ At(c, "l_copy")
  /\ buf[c] # Nil \/ len[ptr[c]] = Nil
  /\ Goto(c, "l_put")
  /\ buf' = [buf EXCEPT ![c] = Nil]
  /\ Clock(c)
  /\ UNCHANGED <<listVars, heapVars, recVars, pipeVars, ptr, pipe, daemonVars>>

\* Mutant of Put: a path that returns without bncl_stmt_put.
PutForgotten(c) ==
  /\ At(c, "l_put")
  /\ Return(c)
  /\ UNCHANGED <<listVars, heapVars, recVars, pipeVars, dwell, daemonVars>>

\* bncl_stmt_put.  A client that drops the last reference leaves the record for
\* the daemon to collect.
Put(c) ==
  /\ At(c, "l_put")
  /\ refs' = [refs EXCEPT ![ptr[c]] = @ \ {c}]
  /\ Return(c)
  /\ UNCHANGED <<listVars, heapVars, text, data, len, bytes, pipeVars, dwell,
                 daemonVars>>
-----------------------------------------------------------------------------
(* acquire() and release().                                                *)

Held(k) == \E c \in Clients : pipe[c] = k

\* acquire(), with the pool's lock held: pop a pipe, take a reference and point
\* the pipe at the record.  No pipe, or no reference, ends the attempt.
Claim(c) ==
  /\ At(c, "a_get")
  /\ \/ /\ Return(c)
        /\ UNCHANGED <<refs, dpipes>>
     \/ \E k \in Pipes :
          /\ ~Held(k)
          /\ refs[ptr[c]] # {}
          /\ refs' = [refs EXCEPT ![ptr[c]] = @ \cup {c}]
          /\ dpipes' = [dpipes EXCEPT ![k] = ptr[c]]
          /\ pipe' = [pipe EXCEPT ![c] = k]
          /\ Goto(c, "a_splice")
          /\ UNCHANGED <<ptr, buf>>
  /\ Clock(c)
  /\ UNCHANGED <<listVars, heapVars, text, data, len, bytes, inbox, daemonVars>>

\* Splicing the socket.  When it fails the pipe goes back and the reference is
\* not dropped.
Splice(c) ==
  /\ At(c, "a_splice")
  /\ \/ /\ Goto(c, "held")
        /\ UNCHANGED <<refs, ptr, buf, pipe>>
     \/ /\ refs' = [refs EXCEPT ![ptr[c]] = (@ \ {c}) \cup {Leak}]
        /\ Return(c)
  /\ UNCHANGED <<listVars, heapVars, text, data, len, bytes, pipeVars, dwell,
                 daemonVars>>

\* askLookup() or askStore().
Post(c, kind) ==
  /\ At(c, "held")
  /\ Len(inbox[pipe[c]]) < MaxInbox
  /\ inbox' = [inbox EXCEPT ![pipe[c]] = Append(@, kind)]
  /\ Goto(c, "posted")
  /\ UNCHANGED <<listVars, heapVars, recVars, dpipes, ptr, buf, pipe, dwell,
                 daemonVars>>

\* release(): after the reply to a LOOKUP or when the wait for it ran out, right
\* after the post of a STORE, and when the post failed.
Release(c) ==
  /\ pc[c] \in {"held", "posted"}
  /\ refs' = [refs EXCEPT ![dpipes[pipe[c]]] = @ \ {c}]
  /\ Clock(pipe[c])
  /\ Return(c)
  /\ UNCHANGED <<listVars, heapVars, text, data, len, bytes, pipeVars, daemonVars>>

\* The process dies.  Nobody drops the reference it held or returns its pipe.
Crash(c) ==
  /\ pc[c] \notin {"idle", "dead"}
  /\ Goto(c, "dead")
  /\ ptr' = [ptr EXCEPT ![c] = Nil]
  /\ buf' = [buf EXCEPT ![c] = Nil]
  /\ Clock(c)
  /\ UNCHANGED <<listVars, heapVars, recVars, pipeVars, pipe, daemonVars>>

ClientStep(c) ==
  \/ \E s \in Stmts : Resolve(c, s)
  \/ Get(c) \/ Check(c) \/ Read(c) \/ Fault(c) \/ Copy(c) \/ Put(c)
  \/ Claim(c) \/ Splice(c) \/ (\E kind \in {"LOOKUP", "STORE"} : Post(c, kind))
  \/ Release(c)
-----------------------------------------------------------------------------
(* The daemon serving requests.                                            *)

\* retire() of a set of blocks.
RetireAll(B) ==
  /\ mem' = [b \in Blocks |-> IF b \in B THEN "retired" ELSE mem[b]]
  /\ age' = [b \in Blocks |-> IF b \in B THEN 0 ELSE age[b]]

\* serve() takes the request; dwell is that of the pipe's unprotected pointer.
Dequeue(k, kind) ==
  /\ dpc = "idle"
  /\ inbox[k] # << >> /\ Head(inbox[k]) = kind
  /\ inbox' = [inbox EXCEPT ![k] = Tail(@)]
  /\ dwell' = [dwell EXCEPT ![k] = IF inbox'[k] = << >> THEN 0 ELSE @]

\* serve() and store() where they change nothing in the arena: a hit, a cache that
\* cannot be reached, a body that is refused, bytes keep() finds in place already,
\* an arena that is full.
ServeNothing(k, kind) ==
  /\ Dequeue(k, kind)
  /\ mem[dpipes[k]] = "used"
  /\ UNCHANGED <<listVars, heapVars, recVars, dpipes, clientVars, daemonVars>>

\* keep(): the payload goes into a new block, and the old one is retired, which
\* writes over its first bytes, before the record points away from it.
ServeKeep(k, kind) ==
  /\ Dequeue(k, kind)
  /\ mem[dpipes[k]] = "used"
  /\ \E b \in Bufs :
       LET r == dpipes[k]
           old == {data[r]} \ {Nil}
       IN  /\ mem[b] = "free"
           /\ mem' = [x \in Blocks |-> IF x \in old THEN "retired"
                                       ELSE IF x = b THEN "used" ELSE mem[x]]
           /\ age' = [x \in Blocks |-> IF x \in old THEN 0 ELSE age[x]]
           /\ bytes' = [x \in Bufs |-> IF x \in old THEN Scribbled
                                       ELSE IF x = b THEN text[r] ELSE bytes[x]]
           /\ job' = [rec |-> r, buf |-> b]
  /\ dpc' = "data"
  /\ UNCHANGED <<listVars, refs, text, data, len, dpipes, clientVars, next>>

\* A LOOKUP that finds nothing upstream either drops the local copy.
ServeMiss(k) ==
  /\ Dequeue(k, "LOOKUP")
  /\ mem[dpipes[k]] = "used"
  /\ job' = [rec |-> dpipes[k], buf |-> Nil]
  /\ dpc' = "data"
  /\ UNCHANGED <<listVars, heapVars, recVars, dpipes, clientVars, next>>

\* The record has been retired, and retire() wrote its own record over stmt_txt
\* and stmt_len: the text reads as empty, or the daemon faults on it.
ServeRetired(k, kind) ==
  /\ Dequeue(k, kind)
  /\ mem[dpipes[k]] # "used"
  /\ dpc' \in {"idle", "dead"}
  /\ UNCHANGED <<listVars, heapVars, recVars, dpipes, clientVars, job, next>>

\* Mutant of StoreData: only a record that has no payload is given one.
StoreDataOnce ==
  /\ dpc = "data"
  /\ data' = [data EXCEPT ![job.rec] = IF @ = Nil THEN job.buf ELSE @]
  /\ dpc' = "len"
  /\ UNCHANGED <<listVars, heapVars, refs, text, len, bytes, pipeVars, clientVars,
                 dwell, job, next>>

\* The record's stores, the pointer first and then the length.
StoreData ==
  /\ dpc = "data"
  /\ data' = [data EXCEPT ![job.rec] = job.buf]
  /\ dpc' = "len"
  /\ UNCHANGED <<listVars, heapVars, refs, text, len, bytes, pipeVars, clientVars,
                 dwell, job, next>>

StoreLen ==
  /\ dpc = "len"
  /\ len' = [len EXCEPT ![job.rec] = job.buf]
  /\ dpc' = "idle"
  /\ job' = NoJob
  /\ UNCHANGED <<listVars, heapVars, refs, text, data, bytes, pipeVars, clientVars,
                 dwell, next>>
-----------------------------------------------------------------------------
(* The statement list.                                                     *)

\* loadStatements(), at start and for RELOAD.
Reload(list) ==
  /\ dpc = "idle"
  /\ next' = [list |-> list, todo |-> list, recs |-> NoRecs]
  /\ dpc' = "publish"
  /\ UNCHANGED <<listVars, heapVars, recVars, pipeVars, clientVars, dwell, job>>

\* A statement that is known keeps its record.
PublishKnown(s) ==
  /\ dpc = "publish"
  /\ known[s] # Nil
  /\ stmts_map' = [stmts_map EXCEPT ![s] = known[s]]
  /\ next' = [next EXCEPT !.todo = @ \ {s}, !.recs[s] = known[s]]
  /\ UNCHANGED <<known, orphans, heapVars, recVars, pipeVars, clientVars, dwell,
                 dpc, job>>

\* Mutant of PublishNew: a statement that is known gets a new record as well.
PublishAlways(s, r) ==
  /\ dpc = "publish"
  /\ mem[r] = "free"
  /\ mem' = [mem EXCEPT ![r] = "used"]
  /\ refs' = [refs EXCEPT ![r] = {List}]
  /\ text' = [text EXCEPT ![r] = s]
  /\ data' = [data EXCEPT ![r] = Nil]
  /\ len' = [len EXCEPT ![r] = Nil]
  /\ stmts_map' = [stmts_map EXCEPT ![s] = r]
  /\ next' = [next EXCEPT !.todo = @ \ {s}, !.recs[s] = r]
  /\ UNCHANGED <<known, orphans, age, bytes, pipeVars, clientVars, dwell, dpc, job>>

\* A new one gets a new record, with the list's reference.
PublishNew(s, r) ==
  /\ dpc = "publish"
  /\ known[s] = Nil
  /\ mem[r] = "free"
  /\ mem' = [mem EXCEPT ![r] = "used"]
  /\ refs' = [refs EXCEPT ![r] = {List}]
  /\ text' = [text EXCEPT ![r] = s]
  /\ data' = [data EXCEPT ![r] = Nil]
  /\ len' = [len EXCEPT ![r] = Nil]
  /\ stmts_map' = [stmts_map EXCEPT ![s] = r]
  /\ next' = [next EXCEPT !.todo = @ \ {s}, !.recs[s] = r]
  /\ UNCHANGED <<known, orphans, age, bytes, pipeVars, clientVars, dwell, dpc, job>>

\* The arena is full: what has been published stays published, and `known' stays
\* as it was.
PublishFail(s) ==
  /\ dpc = "publish"
  /\ known[s] = Nil
  /\ \A r \in Recs : mem[r] # "free"
  /\ dpc' = "idle"
  /\ next' = NoReload
  /\ UNCHANGED <<listVars, heapVars, recVars, pipeVars, clientVars, dwell, job>>

\* stmts_map is full: the record that was just filled in is lost with the reload.
PublishLost(s, r) ==
  /\ dpc = "publish"
  /\ known[s] = Nil
  /\ stmts_map[s] = Nil
  /\ mem[r] = "free"
  /\ mem' = [mem EXCEPT ![r] = "used"]
  /\ refs' = [refs EXCEPT ![r] = {List}]
  /\ text' = [text EXCEPT ![r] = s]
  /\ data' = [data EXCEPT ![r] = Nil]
  /\ len' = [len EXCEPT ![r] = Nil]
  /\ dpc' = "idle"
  /\ next' = NoReload
  /\ UNCHANGED <<listVars, age, bytes, pipeVars, clientVars, dwell, job>>

Dropped == {s \in Stmts : known[s] # Nil /\ next.recs[s] = Nil}

\* Everything is published: the statements that left the list come next.
PublishEnd ==
  /\ dpc = "publish"
  /\ next.todo = {}
  /\ next' = [next EXCEPT !.todo = Dropped]
  /\ dpc' = "delete"
  /\ UNCHANGED <<listVars, heapVars, recVars, pipeVars, clientVars, dwell, job>>

\* The map key goes first, so that no client can newly find the record ...
Delete(s) ==
  /\ dpc = "delete"
  /\ stmts_map' = [stmts_map EXCEPT ![s] = Nil]
  /\ next' = [next EXCEPT !.todo = @ \ {s}]
  /\ job' = [rec |-> known[s], buf |-> Nil]
  /\ dpc' = "put"
  /\ UNCHANGED <<known, orphans, heapVars, recVars, pipeVars, clientVars, dwell>>

\* retireStmt(): the payload, the text and the record.
RetireStmts(R) ==
  LET B == {data[r] : r \in R} \ {Nil}
  IN  /\ RetireAll(R \cup B)
      /\ bytes' = [b \in Bufs |-> IF b \in B THEN Scribbled ELSE bytes[b]]
      /\ data' = [r \in Recs |-> IF r \in R THEN Nil ELSE data[r]]
      /\ len' = [r \in Recs |-> IF r \in R THEN Nil ELSE len[r]]
      /\ text' = [r \in Recs |-> IF r \in R THEN Nil ELSE text[r]]

\* Mutant of DropRef: the record is retired whoever holds it.
DropRetires ==
  /\ dpc = "put"
  /\ refs' = [refs EXCEPT ![job.rec] = @ \ {List}]
  /\ RetireStmts({job.rec})
  /\ job' = NoJob
  /\ dpc' = "delete"
  /\ UNCHANGED <<listVars, pipeVars, clientVars, dwell, next>>

\* Mutant of DropRef: a record somebody holds is not put among the orphans.
DropForgets ==
  /\ dpc = "put"
  /\ refs' = [refs EXCEPT ![job.rec] = @ \ {List}]
  /\ IF refs'[job.rec] = {}
       THEN RetireStmts({job.rec})
       ELSE UNCHANGED <<heapVars, text, data, len, bytes>>
  /\ job' = NoJob
  /\ dpc' = "delete"
  /\ UNCHANGED <<listVars, pipeVars, clientVars, dwell, next>>

\* ... and then the list's reference.  The last one retires the record; otherwise
\* it waits among the orphans.
DropRef ==
  /\ dpc = "put"
  /\ refs' = [refs EXCEPT ![job.rec] = @ \ {List}]
  /\ IF refs'[job.rec] = {}
       THEN RetireStmts({job.rec}) /\ UNCHANGED orphans
       ELSE /\ orphans' = orphans \cup {job.rec}
            /\ UNCHANGED <<heapVars, text, data, len, bytes>>
  /\ job' = NoJob
  /\ dpc' = "delete"
  /\ UNCHANGED <<stmts_map, known, pipeVars, clientVars, dwell, next>>

ReloadEnd ==
  /\ dpc = "delete"
  /\ next.todo = {}
  /\ known' = next.recs
  /\ next' = NoReload
  /\ dpc' = "idle"
  /\ UNCHANGED <<stmts_map, orphans, heapVars, recVars, pipeVars, clientVars,
                 dwell, job>>
-----------------------------------------------------------------------------
(* Time.                                                                   *)

\* Mutant of Due: a retired block is freed at the next turn.
DueAtOnce == {b \in Blocks : mem[b] = "retired"}

\* What reclaim() frees.
Due == {b \in Blocks : mem[b] = "retired" /\ age[b] >= Grace}

\* The start of every turn of the daemon's loop: collectOrphans(), then reclaim().
Collect ==
  LET R == {r \in orphans : refs[r] = {}}
      B == {data[r] : r \in R} \ {Nil}
  IN  /\ dpc = "idle"
      /\ R \cup Due # {}
      /\ orphans' = orphans \ R
      /\ mem' = [b \in Blocks |-> IF b \in R \cup B THEN "retired"
                                  ELSE IF b \in Due THEN "free" ELSE mem[b]]
      /\ age' = [b \in Blocks |-> IF b \in R \cup B \cup Due THEN 0 ELSE age[b]]
      /\ bytes' = [b \in Bufs |-> IF b \in B THEN Scribbled ELSE bytes[b]]
      /\ data' = [r \in Recs |-> IF r \in R THEN Nil ELSE data[r]]
      /\ len' = [r \in Recs |-> IF r \in R THEN Nil ELSE len[r]]
      /\ text' = [r \in Recs |-> IF r \in R THEN Nil ELSE text[r]]
      /\ UNCHANGED <<stmts_map, known, refs, pipeVars, clientVars, dwell, daemonVars>>

\* Who holds a pointer and no reference: a client between finding a record and
\* taking its reference, or copying a payload; a pipe given back with a request
\* still queued on it, as long as there is a daemon to serve it.
Bare(x) ==
  \/ x \in Clients /\ pc[x] \in {"l_get", "a_get", "l_copy"}
  \/ x \in Pipes /\ inbox[x] # << >> /\ ~Held(x) /\ dpc # "dead"

\* A tick of the clock.  What arena.h assumes is a guard: a client gets through
\* those stretches, and the daemon serves a queued request and finishes what it
\* is doing, within the grace period.
Tick ==
  /\ dpc \in {"idle", "dead"}
  /\ \A x \in Clients \cup Pipes : Bare(x) => dwell[x] + 1 < Grace
  /\ age' = [b \in Blocks |-> IF mem[b] = "retired" /\ age[b] < Grace
                                THEN age[b] + 1 ELSE age[b]]
  /\ dwell' = [x \in Clients \cup Pipes |-> IF Bare(x) THEN dwell[x] + 1 ELSE 0]
  /\ UNCHANGED <<listVars, mem, recVars, pipeVars, clientVars, daemonVars>>

Serve ==
  \E k \in Pipes :
    \/ \E kind \in {"LOOKUP", "STORE"} :
         ServeNothing(k, kind) \/ ServeKeep(k, kind) \/ ServeRetired(k, kind)
    \/ ServeMiss(k)

\* The daemon finishing what it has begun.
Finish ==
  \/ StoreData \/ StoreLen
  \/ \E s \in next.todo :
       \/ PublishKnown(s) \/ PublishFail(s) \/ Delete(s)
       \/ \E r \in Recs : PublishNew(s, r) \/ PublishLost(s, r)
  \/ PublishEnd \/ DropRef \/ ReloadEnd

Next ==
  \/ \E c \in Clients : ClientStep(c) \/ Crash(c)
  \/ Serve \/ Finish
  \/ \E list \in SUBSET Stmts : Reload(list)
  \/ Collect \/ Tick

Spec == Init /\ [][Next]_vars

\* A live client runs on once it has started, and settles what it has asked; the
\* daemon's loop comes round again and again; and time goes on: no infinity of
\* steps fits between two ticks.
Fairness ==
  /\ \A c \in Clients : WF_vars(pc[c] # "idle" /\ ClientStep(c))
  /\ WF_vars(Finish)
  /\ SF_vars(Serve)
  /\ SF_vars(Collect)
  /\ []<><<Tick>>_vars

LiveSpec == Spec /\ Fairness
-----------------------------------------------------------------------------
(* Properties.                                                             *)

\* Whatever is reloaded, replaced and reclaimed, nobody follows a pointer into
\* memory that has been freed: not a client that has found a record, not one that
\* copies a payload, not the daemon through a pipe.
NoWildAccess ==
  /\ \A c \in Clients : pc[c] \in {"l_get", "a_get"} => mem[ptr[c]] # "free"
  /\ \A c \in Clients : pc[c] = "l_copy" /\ buf[c] # Nil => mem[buf[c]] # "free"
  /\ \A k \in Pipes : inbox[k] # << >> => mem[dpipes[k]] # "free"

\* A record is not retired while a client holds a reference on it, from
\* bncl_stmt_get to bncl_stmt_put, through the pipe as well.
HolderKeepsRecord ==
  \A c \in Clients : pc[c] \in Holding =>
    /\ mem[ptr[c]] = "used"
    /\ c \in refs[ptr[c]]
    /\ pipe[c] # Nil => dpipes[pipe[c]] = ptr[c]

\* A payload in use belongs to one record, and a record never points at a payload
\* that has been retired, except inside keep().
PayloadHasOneOwner ==
  \A r \in Recs : mem[r] = "used" /\ data[r] # Nil =>
    /\ mem[data[r]] = "used" \/ (dpc = "data" /\ job.rec = r)
    /\ \A q \in Recs \ {r} : mem[q] = "used" => data[q] # data[r]

\* A record without the list's reference is retired, or waits among the orphans to
\* be: dropping a statement forgets no record, whoever holds it at that moment.
UnlistedIsCollected ==
  \A r \in Recs : mem[r] = "used" => List \in refs[r] \/ r \in orphans

\* The published record of a statement is used, about that statement, and holds the
\* list's reference, so that a client that finds it a moment before it is dropped
\* is either refused or counted.
PublishedIsListed ==
  \A s \in Stmts : stmts_map[s] # Nil =>
    LET r == stmts_map[s]
    IN  mem[r] = "used" /\ text[r] = s /\ List \in refs[r]

\* The books balance through every reload, however it is interleaved or cut short: what
\* is published is listed, and what is not listed is on its way out.
RecordsAreAccounted == TypeOK /\ UnlistedIsCollected /\ PublishedIsListed

\* "a statement that was already in the list keeps the RECORD it had": reload may
\* take a known statement out, and never exchanges its record.
KnownKeepsRecord ==
  [][\A s \in Stmts : known[s] # Nil => stmts_map'[s] \in {stmts_map[s], Nil}]_vars

\* A record that was taken out while a client held it is collected when the last
\* reference is dropped, unless a client died or failed with one.
OrphanIsCollected ==
  \A r \in Recs :
    (r \in orphans) ~> (\/ r \notin orphans
                        \/ Leak \in refs[r]
                        \/ \E c \in refs[r] \cap Clients : pc[c] = "dead"
                        \/ dpc = "dead")

\* What has been retired is freed.
RetiredIsFreed ==
  \A b \in Blocks : (mem[b] = "retired") ~> (mem[b] = "free" \/ dpc = "dead")

Owned == {b \in Bufs : \E r \in Recs : mem[r] = "used" /\ data[r] = b}

\* A payload that is some record's goes on being one's, or is retired; serve() forgets it
\* without retiring it only when a miss clears stmt_data.
OnlyMissForgets ==
  [][\A b \in Owned : b \in Owned' \/ mem'[b] = "retired" \/ (dpc = "data" /\ job.buf = Nil)]_vars

\* The memory of a statement that left the list comes back: its record is collected
\* after its last reader, and it and its payload outlast the grace period and no more;
\* and no payload is forgotten but by a miss (collectOrphans, reclaim, keep, serve).
MemoryComesBack == OrphanIsCollected /\ RetiredIsFreed /\ OnlyMissForgets

-----------------------------------------------------------------------------
(* What comments say and the program does not do; no run claims these.     *)

\* "it has to outlive the request whatever the administrator does to the statement
\* list meanwhile": the record behind a queued request is not retired.
RecordOutlivesRequest == \A k \in Pipes : inbox[k] # << >> => mem[dpipes[k]] = "used"

\* "Hold a reference for as long as the payload is being read": what a client
\* copies is the payload of the statement it looked up, all of it and nothing else.
CopyIsIntact ==
  \A c \in Clients : pc[c] = "l_copy" =>
    /\ buf[c] # Nil
    /\ len[ptr[c]] = buf[c]
    /\ bytes[buf[c]] = text[ptr[c]]
=============================================================================
