------------------------------ MODULE Exchange ------------------------------
(***************************************************************************)
(* The conversation between an application's connection, the database      *)
(* server and the daemon (src/uclient/agent.cpp: handleWrite, settle,      *)
(* takeReply, observe; src/uclient/shared.cpp: acquire, askLookup,         *)
(* askStore, release; src/daemon/main.cpp: serve, store, reply;            *)
(* src/kclient/kclient.bpf.c: the two redirects).                          *)
(*                                                                         *)
(* A listed query is suppressed, and the connection's own socket is        *)
(* spliced to a dpipe to ask the daemon.  The verdict arrives on that      *)
(* socket, the pipe goes back, and the query is answered from the arena    *)
(* or sent for real.  A response that came from the server is posted to    *)
(* the daemon over another pipe, which goes back at once.                  *)
(*                                                                         *)
(* A request says nothing but its kind: the daemon finds the statement in  *)
(* dpipes[k], and its reply goes to whatever socket cpipe_map[k] holds at  *)
(* that moment.  Taking and returning a pipe are single steps here         *)
(* (PipePool has the lock and the freelist), and so is a record's payload  *)
(* (StmtLife has its memory).                                              *)
(***************************************************************************)
EXTENDS Naturals, Sequences, FiniteSets, Functions

CONSTANTS
  Conns,         \* connections, each in a process of its own
  Pollers,       \* those whose application reads only when epoll says it can
  Pipes,         \* dpipe keys
  Stmts,         \* listed statements
  MaxInbox,      \* bound: requests queued on one dpipe
  MaxWrites,     \* bound: commands the applications send in all
  Nil

ASSUME PollersAssumption == Pollers \subseteq Conns
ASSUME PipesAssumption == Cardinality(Pipes) \in Nat
ASSUME BoundsAssumption == MaxInbox \in Nat /\ MaxWrites \in Nat
ASSUME NilAssumption == Nil \notin Conns \cup Pipes \cup Stmts

\* The other commands: they open and close a transaction.
Begin == "START TRANSACTION"
Commit == "COMMIT"
Commands == Stmts \cup {Begin, Commit}

ASSUME CommandsAssumption == {Begin, Commit} \cap Stmts = {}

\* A result set: the statement it answers, and whether it was read in a
\* transaction, where it may show what only that session can see.
Rows == [stmt : Stmts, txn : BOOLEAN]

VARIABLES
  srv, txn,          \* the server: the query it has to answer, its transaction
  rx,                \* the socket's receive queue
  pc, query,         \* the agent's position, and the command in hand
  pending,           \* the statement asked about or captured
  status,            \* the daemon's verdict
  dpipe,             \* the pipe held
  in_txn, capturing, captured, caps_known,     \* what Conn remembers
  free,              \* the freelist, a stack
  dpipes, cpipe,     \* dpipes[k].stmt, and cpipe_map with the socket's pairing
  inbox,             \* requests queued on a dpipe
  local,             \* the payload in the arena, as long as its TTL lasts
  upstream,          \* Valkey
  daemon,            \* the daemon's position and locals
  writes,            \* commands sent so far
  slow               \* which of the waits the code counts on have run out

serverVars == <<srv, txn>>
cmdVars == <<query, pending>>
connVars == <<in_txn, capturing, captured, caps_known>>
poolVars == <<free, dpipes, cpipe, dpipe>>
cacheVars == <<local, upstream>>
vars == <<serverVars, rx, pc, cmdVars, status, connVars, poolVars, inbox,
          cacheVars, daemon, writes, slow>>

Verdicts == {"OK", "WRITE_THROUGH", "ERROR"}
Verdict(v) == [from |-> "daemon", kind |-> v, rows |-> Nil, txn |-> FALSE]
Response(kind, rows, t) ==
  [from |-> "server", kind |-> kind, rows |-> rows, txn |-> t]

PCs == {"idle", "acquire", "ask", "unask", "pass", "wait", "release", "settle",
        "read", "s_acquire", "s_post", "s_release", "broken"}

TypeOK ==
  /\ srv \in [Conns -> Seq(Commands)]
  /\ txn \in [Conns -> BOOLEAN]
  /\ rx \in [Conns -> Seq([from : {"daemon", "server"},
                           kind : Verdicts \cup {"rows", "ok", "err"},
                           rows : Rows \cup {Nil}, txn : BOOLEAN])]
  /\ pc \in [Conns -> PCs]
  /\ query \in [Conns -> Commands \cup {Nil}]
  /\ pending \in [Conns -> Stmts \cup {Nil}]
  /\ status \in [Conns -> Verdicts \cup {Nil}]
  /\ dpipe \in [Conns -> Pipes \cup {Nil}]
  /\ in_txn \in [Conns -> BOOLEAN]
  /\ capturing \in [Conns -> BOOLEAN]
  /\ captured \in [Conns -> Rows \cup {Nil}]
  /\ caps_known \in [Conns -> BOOLEAN]
  /\ free \in Seq(Pipes)
  /\ dpipes \in [Pipes -> Stmts \cup {Nil}]
  /\ cpipe \in [Pipes -> Conns \cup {Nil}]
  /\ inbox \in [Pipes -> Seq([kind : {"LOOKUP", "STORE", "TLS"},
                              rows : Rows \cup {Nil}])]
  /\ local \in [Stmts -> Rows \cup {Nil}]
  /\ upstream \in [Stmts -> Rows \cup {Nil}]
  /\ daemon \in [pc : {"idle", "answer", "dead"}, key : Pipes \cup {Nil},
                 stmt : Stmts \cup {Nil}]
  /\ writes \in 0 .. MaxWrites
  /\ slow \subseteq {"reuse", "timeout"}

\* The pool is full, the cache empty, no connection has sent anything.
Init ==
  /\ srv = [c \in Conns |-> << >>]
  /\ txn = [c \in Conns |-> FALSE]
  /\ rx = [c \in Conns |-> << >>]
  /\ pc = [c \in Conns |-> "idle"]
  /\ query = [c \in Conns |-> Nil]
  /\ pending = [c \in Conns |-> Nil]
  /\ status = [c \in Conns |-> Nil]
  /\ dpipe = [c \in Conns |-> Nil]
  /\ in_txn = [c \in Conns |-> FALSE]
  /\ capturing = [c \in Conns |-> FALSE]
  /\ captured = [c \in Conns |-> Nil]
  /\ caps_known = [c \in Conns |-> FALSE]
  /\ free \in Bijection(1 .. Cardinality(Pipes), Pipes)
  /\ dpipes = [k \in Pipes |-> Nil]
  /\ cpipe = [k \in Pipes |-> Nil]
  /\ inbox = [k \in Pipes |-> << >>]
  /\ local = [s \in Stmts |-> Nil]
  /\ upstream = [s \in Stmts |-> Nil]
  /\ daemon = [pc |-> "idle", key |-> Nil, stmt |-> Nil]
  /\ writes = 0
  /\ slow = {}
-----------------------------------------------------------------------------
(* Sockets and pipes.                                                      *)

At(c, label) == pc[c] = label
Goto(c, label) == pc' = [pc EXCEPT ![c] = label]

PairedWith(c) == {k \in Pipes : cpipe[k] = c}

\* A send() on the connection's socket: splice_c2d takes it to the dpipe while the
\* socket is paired, and the network to the server otherwise.  A query is sent
\* inside a TLS record.
SendQuery(c, q) ==
  \/ /\ PairedWith(c) = {}
     /\ srv' = [srv EXCEPT ![c] = Append(@, q)]
     /\ UNCHANGED inbox
  \/ \E k \in PairedWith(c) :
       /\ inbox' = [inbox EXCEPT ![k] = Append(@, [kind |-> "TLS", rows |-> Nil])]
       /\ UNCHANGED srv

\* post() of a request.
Post(c, request) ==
  \E k \in PairedWith(c) :
    /\ Len(inbox[k]) < MaxInbox
    /\ inbox' = [inbox EXCEPT ![k] = Append(@, request)]

\* lookupPayload(): there is a payload and it is not past its TTL.
HasPayload(s) == local[s] # Nil

\* acquire(): the top of the freelist, pointed at the statement, and the socket
\* spliced to it.
Take(c, s) ==
  LET k == free[Len(free)]
      busy == inbox[k] # << >> \/ (daemon.pc = "answer" /\ daemon.key = k)
  IN  /\ free # << >>
      /\ free' = SubSeq(free, 1, Len(free) - 1)
      /\ dpipes' = [dpipes EXCEPT ![k] = s]
      /\ cpipe' = [cpipe EXCEPT ![k] = c]
      /\ dpipe' = [dpipe EXCEPT ![c] = k]
      /\ slow' = IF busy THEN slow \cup {"reuse"} ELSE slow

\* Mutant of GiveBack: the socket stays paired.
GiveBackPaired(c) ==
  /\ free' = Append(free, dpipe[c])
  /\ dpipe' = [dpipe EXCEPT ![c] = Nil]
  /\ UNCHANGED <<dpipes, cpipe>>

\* release(): the pairing is undone and the pipe goes back on top.
GiveBack(c) ==
  /\ cpipe' = [cpipe EXCEPT ![dpipe[c]] = Nil]
  /\ free' = Append(free, dpipe[c])
  /\ dpipe' = [dpipe EXCEPT ![c] = Nil]
  /\ UNCHANGED dpipes
-----------------------------------------------------------------------------
(* The write side: handleWrite().                                          *)

\* The application sends a command.
Command(c, q) ==
  /\ At(c, "idle")
  /\ writes < MaxWrites
  /\ writes' = writes + 1
  /\ query' = [query EXCEPT ![c] = q]

\* It passes when it is not listed, when the agent is switched off (on_s, which
\* follows the daemon's slot with a delay) and inside a transaction.
WritePass(c, q) ==
  /\ Command(c, q)
  /\ SendQuery(c, q)
  /\ Goto(c, "read")
  /\ UNCHANGED <<txn, rx, pending, status, connVars, poolVars, cacheVars,
                 daemon, slow>>

\* No payload here, with the local tier on (local_s): the query runs, and what comes
\* back is captured.
WriteCapture(c, s) ==
  /\ Command(c, s)
  /\ ~in_txn[c]
  /\ ~HasPayload(s)
  /\ pending' = [pending EXCEPT ![c] = s]
  /\ capturing' = [capturing EXCEPT ![c] = TRUE]
  /\ SendQuery(c, s)
  /\ Goto(c, "read")
  /\ UNCHANGED <<txn, rx, status, in_txn, captured, caps_known, poolVars,
                 cacheVars, daemon, slow>>

\* The daemon is to be asked: there is a payload, or the local tier is bypassed.
WriteAsk(c, s) ==
  /\ Command(c, s)
  /\ ~in_txn[c]
  /\ Goto(c, "acquire")
  /\ UNCHANGED <<serverVars, rx, pending, status, connVars, poolVars, inbox,
                 cacheVars, daemon, slow>>

\* Without a pipe (none left, the lock not to be had) the query goes out.
Acquire(c) ==
  /\ At(c, "acquire")
  /\ \/ /\ Take(c, query[c])
        /\ Goto(c, "ask")
        /\ UNCHANGED <<srv, inbox>>
     \/ /\ SendQuery(c, query[c])
        /\ Goto(c, "read")
        /\ UNCHANGED <<poolVars, slow>>
  /\ UNCHANGED <<txn, rx, cmdVars, status, connVars, cacheVars, daemon,
                 writes>>

\* askLookup().  When it fails the pipe goes back and the query goes out.
Ask(c) ==
  /\ At(c, "ask")
  /\ \/ /\ Post(c, [kind |-> "LOOKUP", rows |-> Nil])
        /\ status' = [status EXCEPT ![c] = Nil]
        /\ pending' = [pending EXCEPT ![c] = query[c]]
        /\ Goto(c, "wait")
     \/ /\ Goto(c, "unask")
        /\ UNCHANGED <<inbox, pending, status>>
  /\ UNCHANGED <<serverVars, rx, query, connVars, poolVars, cacheVars,
                 daemon, slow, writes>>

Unask(c) ==
  /\ At(c, "unask")
  /\ GiveBack(c)
  /\ Goto(c, "pass")
  /\ UNCHANGED <<serverVars, rx, cmdVars, status, connVars, inbox,
                 cacheVars, daemon, slow, writes>>

Pass(c) ==
  /\ At(c, "pass")
  /\ SendQuery(c, query[c])
  /\ Goto(c, "read")
  /\ UNCHANGED <<txn, rx, cmdVars, status, connVars, poolVars, cacheVars,
                 daemon, slow, writes>>
-----------------------------------------------------------------------------
(* The read side: settle(), then the real SSL_read and observe().          *)

\* The application is in SSL_read: always, when it reads blocking, and when there
\* is something to read, when it waits in epoll_wait().
Reading(c) == c \notin Pollers \/ rx[c] # << >>

\* takeReply(): the verdict is read off the socket.
TakeReply(c) ==
  /\ At(c, "wait")
  /\ rx[c] # << >>
  /\ Head(rx[c]).from = "daemon"
  /\ status' = [status EXCEPT ![c] = Head(rx[c]).kind]
  /\ rx' = [rx EXCEPT ![c] = Tail(@)]
  /\ Goto(c, "release")
  /\ UNCHANGED <<serverVars, cmdVars, connVars, poolVars, inbox, cacheVars,
                 daemon, slow, writes>>

\* Mutant of TimeOut: the wait has no deadline.
TimeOutNever(c) ==
  /\ At(c, "wait")
  /\ Reading(c)
  /\ FALSE
  /\ UNCHANGED vars

\* poll() came back with nothing at the deadline.
TimeOut(c) ==
  /\ At(c, "wait")
  /\ Reading(c)
  /\ rx[c] = << >>
  /\ slow' = slow \cup {"timeout"}
  /\ Goto(c, "release")
  /\ UNCHANGED <<serverVars, rx, cmdVars, status, connVars, poolVars,
                 inbox, cacheVars, daemon, writes>>

Release(c) ==
  /\ At(c, "release")
  /\ GiveBack(c)
  /\ Goto(c, "settle")
  /\ UNCHANGED <<serverVars, rx, cmdVars, status, connVars, inbox,
                 cacheVars, daemon, slow, writes>>

\* REPLY_OK, with the framing known and the payload still there: the rows come from
\* the arena.
CanServe(c) ==
  /\ At(c, "settle")
  /\ status[c] = "OK" /\ caps_known[c] /\ HasPayload(pending[c])

SettleServe(c) ==
  /\ CanServe(c)
  /\ pending' = [pending EXCEPT ![c] = Nil]
  /\ Goto(c, "idle")
  /\ UNCHANGED <<serverVars, rx, query, status, connVars, poolVars, inbox,
                 cacheVars, daemon, slow, writes>>

\* Mutant of SettleResend: the suppressed query is not sent.
SettleForgets(c) ==
  /\ ~CanServe(c)
  /\ At(c, "settle")
  /\ capturing' = [capturing EXCEPT ![c] = TRUE]
  /\ Goto(c, "read")
  /\ UNCHANGED <<serverVars, rx, cmdVars, status, in_txn, captured, caps_known,
                 poolVars, inbox, cacheVars, daemon, slow, writes>>

\* Anything else: the suppressed query is sent for real, and captured.
SettleResend(c) ==
  /\ At(c, "settle")
  /\ ~CanServe(c)
  /\ capturing' = [capturing EXCEPT ![c] = TRUE]
  /\ SendQuery(c, query[c])
  /\ Goto(c, "read")
  /\ UNCHANGED <<txn, rx, cmdVars, status, in_txn, captured, caps_known,
                 poolVars, cacheVars, daemon, slow, writes>>

\* OpenSSL gets the daemon's bytes where it expects a TLS record.
ReadStray(c) ==
  /\ At(c, "read")
  /\ rx[c] # << >>
  /\ Head(rx[c]).from = "daemon"
  /\ Goto(c, "broken")
  /\ UNCHANGED <<serverVars, rx, cmdVars, status, connVars, poolVars,
                 inbox, cacheVars, daemon, slow, writes>>

\* The response tracker at the last packet of a response.  An error completes it
\* without a look at the flag, which begin() had cleared.
InTransaction(m) == m.kind # "err" /\ m.txn

\* parseResultSet() accepts the response.
IsResultSet(m) == m.kind = "rows"

\* inferCaps(): a result set shows the framing.
KnowsCaps(c, m) == caps_known[c] \/ (capturing[c] /\ IsResultSet(m))

\* Mutant of Observe: rows from inside a transaction are published too.
ObservePublishes(c) ==
  LET m == Head(rx[c])
      rows == capturing[c] /\ IsResultSet(m)
  IN  /\ At(c, "read")
      /\ rx[c] # << >>
      /\ m.from = "server"
      /\ rx' = [rx EXCEPT ![c] = Tail(@)]
      /\ in_txn' = [in_txn EXCEPT ![c] = InTransaction(m)]
      /\ capturing' = [capturing EXCEPT ![c] = FALSE]
      /\ caps_known' = [caps_known EXCEPT ![c] = KnowsCaps(c, m)]
      /\ Goto(c, IF rows THEN "s_acquire" ELSE "idle")
      /\ captured' = [captured EXCEPT ![c] = IF rows THEN m.rows ELSE Nil]
      /\ UNCHANGED <<serverVars, cmdVars, status, poolVars, inbox, cacheVars,
                     daemon, slow, writes>>

\* Mutant of Observe: a response that is not stored leaves the capture open.
ObserveStaysOpen(c) ==
  LET m == Head(rx[c])
      rows == capturing[c] /\ IsResultSet(m)
  IN  /\ At(c, "read")
      /\ rx[c] # << >>
      /\ m.from = "server"
      /\ rx' = [rx EXCEPT ![c] = Tail(@)]
      /\ in_txn' = [in_txn EXCEPT ![c] = InTransaction(m)]
      /\ capturing' = [capturing EXCEPT ![c] = @ /\ ~rows]
      /\ caps_known' = [caps_known EXCEPT ![c] = KnowsCaps(c, m)]
      /\ Goto(c, IF rows /\ ~in_txn'[c] THEN "s_acquire" ELSE "idle")
      /\ captured' = [captured EXCEPT ![c] = IF rows /\ ~in_txn'[c] THEN m.rows ELSE Nil]
      /\ UNCHANGED <<serverVars, cmdVars, status, poolVars, inbox, cacheVars,
                     daemon, slow, writes>>

\* observe(): the response is complete.  An error leaves the tracker's flag at
\* FALSE, anything else sets it from the server's status.  A captured result set is
\* published unless it came from inside a transaction.
Observe(c) ==
  LET m == Head(rx[c])
      rows == capturing[c] /\ IsResultSet(m)
  IN  /\ At(c, "read")
      /\ rx[c] # << >>
      /\ m.from = "server"
      /\ rx' = [rx EXCEPT ![c] = Tail(@)]
      /\ in_txn' = [in_txn EXCEPT ![c] = InTransaction(m)]
      /\ capturing' = [capturing EXCEPT ![c] = FALSE]
      /\ caps_known' = [caps_known EXCEPT ![c] = KnowsCaps(c, m)]
      /\ Goto(c, IF rows /\ ~in_txn'[c] THEN "s_acquire" ELSE "idle")
      /\ captured' = [captured EXCEPT ![c] = IF rows /\ ~in_txn'[c] THEN m.rows ELSE Nil]
      /\ UNCHANGED <<serverVars, cmdVars, status, poolVars, inbox, cacheVars,
                     daemon, slow, writes>>

\* Read-through: a pipe of its own, a STORE, and the pipe back at once.
StoreAcquire(c) ==
  /\ At(c, "s_acquire")
  /\ \/ /\ Take(c, pending[c])
        /\ Goto(c, "s_post")
        /\ UNCHANGED <<captured, pending>>
     \/ /\ Goto(c, "idle")
        /\ captured' = [captured EXCEPT ![c] = Nil]
        /\ pending' = [pending EXCEPT ![c] = Nil]
        /\ UNCHANGED <<poolVars, slow>>
  /\ UNCHANGED <<serverVars, rx, query, status, in_txn, capturing, caps_known,
                 inbox, cacheVars, daemon, writes>>

\* askStore(), which may fail.
StorePost(c) ==
  /\ At(c, "s_post")
  /\ Post(c, [kind |-> "STORE", rows |-> captured[c]]) \/ UNCHANGED inbox
  /\ captured' = [captured EXCEPT ![c] = Nil]
  /\ Goto(c, "s_release")
  /\ UNCHANGED <<serverVars, rx, cmdVars, status, in_txn, capturing, caps_known,
                 poolVars, cacheVars, daemon, slow, writes>>

StoreRelease(c) ==
  /\ At(c, "s_release")
  /\ GiveBack(c)
  /\ pending' = [pending EXCEPT ![c] = Nil]
  /\ Goto(c, "idle")
  /\ UNCHANGED <<serverVars, rx, query, status, connVars, inbox,
                 cacheVars, daemon, slow, writes>>
-----------------------------------------------------------------------------
(* The daemon: serve().                                                    *)

\* The next request on a dpipe.
Request(k, kind) ==
  /\ daemon.pc = "idle"
  /\ inbox[k] # << >> /\ Head(inbox[k]).kind = kind
  /\ inbox' = [inbox EXCEPT ![k] = Tail(@)]

\* A LOOKUP: what the pipe points at now is what is looked up.
ServeLookup(k) ==
  /\ Request(k, "LOOKUP")
  /\ daemon' = [pc |-> "answer", key |-> k, stmt |-> dpipes[k]]
  /\ UNCHANGED <<serverVars, rx, pc, cmdVars, status, connVars, poolVars,
                 cacheVars, slow, writes>>

\* reply(): splice_d2c takes it to the socket in cpipe_map, and drops it when there
\* is none.
Reply(v) ==
  /\ rx' = [c \in Conns |-> IF cpipe[daemon.key] = c
                              THEN Append(rx[c], Verdict(v)) ELSE rx[c]]
  /\ daemon' = [pc |-> "idle", key |-> Nil, stmt |-> Nil]

Keep(s, rows) == local' = [local EXCEPT ![s] = rows]

\* The local tier may answer (local_on) and can.
AnswerLocal ==
  /\ daemon.pc = "answer"
  /\ HasPayload(daemon.stmt)
  /\ Reply("OK")
  /\ UNCHANGED <<serverVars, pc, cmdVars, status, connVars, poolVars, inbox,
                 cacheVars, slow, writes>>

\* Valkey's get(): its copy, or nothing, which is also what a get that fails on a
\* connection that seemed healthy comes back with.
ValkeyGet(s) == {upstream[s], Nil}

\* Valkey's answer, brought into the arena: a hit, or nothing there.
AnswerUpstream ==
  /\ daemon.pc = "answer"
  /\ \E rows \in ValkeyGet(daemon.stmt) :
       /\ Keep(daemon.stmt, rows)
       /\ Reply(IF rows # Nil THEN "OK" ELSE "WRITE_THROUGH")
  /\ UNCHANGED <<serverVars, pc, cmdVars, status, connVars, poolVars, inbox,
                 upstream, slow, writes>>

\* Valkey cannot be reached, or the arena is full.
AnswerError ==
  /\ daemon.pc = "answer"
  /\ Reply("ERROR")
  /\ UNCHANGED <<serverVars, pc, cmdVars, status, connVars, poolVars, inbox,
                 cacheVars, slow, writes>>

\* Valkey's setex().
ValkeySetex(s, rows) == upstream' = [upstream EXCEPT ![s] = rows]

\* store(): refused when the rows come from a transaction; otherwise to Valkey if it
\* can be reached, and to the arena if there is room.
ServeStore(k) ==
  LET rows == Head(inbox[k]).rows
  IN  /\ Request(k, "STORE")
      /\ \/ UNCHANGED upstream
         \/ ~rows.txn /\ ValkeySetex(dpipes[k], rows)
      /\ \/ UNCHANGED local
         \/ ~rows.txn /\ Keep(dpipes[k], rows)
      /\ UNCHANGED <<serverVars, rx, pc, cmdVars, status, connVars, poolVars,
                     daemon, slow, writes>>

\* The TTL of a payload runs out; Valkey's copy goes.
Expire(s) ==
  /\ local[s] # Nil
  /\ local' = [local EXCEPT ![s] = Nil]
  /\ UNCHANGED <<serverVars, rx, pc, cmdVars, status, connVars, poolVars,
                 inbox, upstream, daemon, slow, writes>>

Evict(s) ==
  /\ upstream[s] # Nil
  /\ upstream' = [upstream EXCEPT ![s] = Nil]
  /\ UNCHANGED <<serverVars, rx, pc, cmdVars, status, connVars, poolVars,
                 inbox, local, daemon, slow, writes>>

\* The daemon dies.  Its maps stay, and nobody serves them.
Die ==
  /\ daemon.pc # "dead"
  /\ daemon' = [pc |-> "dead", key |-> Nil, stmt |-> Nil]
  /\ UNCHANGED <<serverVars, rx, pc, cmdVars, status, connVars, poolVars,
                 inbox, cacheVars, slow, writes>>
-----------------------------------------------------------------------------
(* The database server.  It answers one query after the other, with its    *)
(* transaction flag in every answer that is not an error.                  *)

Answer(c, q) ==
  \/ /\ q \in Stmts
     /\ rx' = [rx EXCEPT ![c] = Append(@, Response("rows", [stmt |-> q, txn |-> txn[c]],
                                                   txn[c]))]
     /\ UNCHANGED txn
  \/ /\ q \in {Begin, Commit}
     /\ txn' = [txn EXCEPT ![c] = q = Begin]
     /\ rx' = [rx EXCEPT ![c] = Append(@, Response("ok", Nil, q = Begin))]
  \/ /\ rx' = [rx EXCEPT ![c] = Append(@, Response("err", Nil, FALSE))]
     /\ UNCHANGED txn

Server(c) ==
  /\ srv[c] # << >>
  /\ Answer(c, Head(srv[c]))
  /\ srv' = [srv EXCEPT ![c] = Tail(@)]
  /\ UNCHANGED <<pc, cmdVars, status, connVars, poolVars, inbox, cacheVars,
                 daemon, slow, writes>>
-----------------------------------------------------------------------------

\* The agent, between the application's write and the end of its read.
Agent(c) ==
  \/ Acquire(c) \/ Ask(c) \/ Unask(c) \/ Pass(c)
  \/ TakeReply(c) \/ TimeOut(c) \/ Release(c) \/ SettleServe(c) \/ SettleResend(c)
  \/ ReadStray(c) \/ Observe(c)
  \/ StoreAcquire(c) \/ StorePost(c) \/ StoreRelease(c)

Write(c) ==
  \/ \E q \in Commands : WritePass(c, q)
  \/ \E s \in Stmts : WriteCapture(c, s) \/ WriteAsk(c, s)

Daemon ==
  \/ \E k \in Pipes : ServeLookup(k) \/ ServeStore(k)
  \/ AnswerLocal \/ AnswerUpstream \/ AnswerError

Next ==
  \/ \E c \in Conns : Write(c) \/ Agent(c) \/ Server(c)
  \/ Daemon
  \/ \E s \in Stmts : Expire(s) \/ Evict(s)
  \/ Die

Spec == Init /\ [][Next]_vars

\* Agents run on, the server answers, and a daemon that lives serves what it is asked.
Fairness ==
  /\ \A c \in Conns : WF_vars(Agent(c)) /\ WF_vars(Server(c))
  /\ WF_vars(Daemon)

LiveSpec == Spec /\ Fairness
-----------------------------------------------------------------------------
(* Properties.                                                             *)

\* The server's messages that wait in the socket of a connection.
FromServer(c) == {i \in 1 .. Len(rx[c]) : rx[c][i].from = "server"}

\* The queries and the responses that are under way between a connection and the server.
UnderWay(c) == ({"query"} \X (1 .. Len(srv[c]))) \cup ({"response"} \X FromServer(c))

\* Every query is with exactly one of its two possible answerers.  While the agent
\* waits for the server there is one query or one response under way between them,
\* and at any other time none: a suppressed query is neither lost nor sent twice.
QueryIsSentOnce ==
  \A c \in Conns : pc[c] # "broken" =>
    IF pc[c] = "read" THEN \E m \in UnderWay(c) : UnderWay(c) = {m} ELSE UnderWay(c) = {}

\* "while it is spliced every byte it sends goes to the daemon rather than the
\* server": no query is ever written to a spliced socket.
QueriesStayOffPipes ==
  \A k \in Pipes : \A i \in 1 .. Len(inbox[k]) : inbox[k][i].kind # "TLS"

\* What a session read inside a transaction is never in a cache, nor on its way
\* there, even where an error made the agent lose track of the transaction.
PrivateRowsStayPrivate ==
  /\ \A s \in Stmts : local[s] # Nil => ~local[s].txn
  /\ \A s \in Stmts : upstream[s] # Nil => ~upstream[s].txn
  /\ \A k \in Pipes : \A i \in 1 .. Len(inbox[k]) :
       inbox[k][i].kind = "STORE" => ~inbox[k][i].rows.txn

\* A connection is served another statement's rows only after a pipe was taken with
\* a request of its last holder still on it.
RowsAreOwn ==
  "reuse" \notin slow => \A s \in Stmts : local[s] # Nil => local[s].stmt = s

\* OpenSSL never reads the daemon's bytes as a TLS record, unless a wait for a
\* verdict ran out.
RepliesAreTaken ==
  "timeout" \notin slow => \A c \in Conns : pc[c] # "broken" /\ (pc[c] = "read" =>
    \A i \in 1 .. Len(rx[c]) : rx[c][i].from = "server")

\* No socket carries what is not meant for it: no query goes into a pipe, and no verdict
\* is left for OpenSSL to read.
SocketsAreRouted == TypeOK /\ QueriesStayOffPipes /\ RepliesAreTaken

\* "one connection receiving another's rows is not a degradation, it is a wrong
\* answer": what a connection is served are rows of the statement it sent.
ServedRowsMatch ==
  \A c \in Conns : CanServe(c) => local[pending[c]].stmt = query[c]

\* "a daemon that never answers must not strand the client": a query is answered, or
\* the connection breaks.
QueryIsAnswered == \A c \in Conns : pc[c] # "idle" ~> pc[c] \in {"idle", "broken"}

\* The same, where it holds: for an application that reads blocking, whatever the
\* daemon does, and for one that waits in epoll_wait() as long as the daemon lives.
ReaderIsAnswered ==
  \A c \in Conns : pc[c] # "idle" ~> \/ pc[c] \in {"idle", "broken"}
                                     \/ c \in Pollers /\ daemon.pc = "dead"
========================================
