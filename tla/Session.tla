------------------------------ MODULE Session -------------------------------
(***************************************************************************)
(* One connection seen message by message: what the agent reads off the    *)
(* application's writes and the server's responses                         *)
(* (src/common/session.cpp: RequestTracker, ResponseTracker), what it      *)
(* captures and publishes, and what it answers with in the server's place  *)
(* (src/uclient/agent.cpp: handleWrite, observe, settle, drain).           *)
(*                                                                         *)
(* The agent attaches in the middle of a connection.  It has not seen the  *)
(* handshake, so it guesses the framing from the first result set it       *)
(* captures; it knows of a transaction what the responses it follows say;  *)
(* and its state belongs to the address of an SSL object, which a later    *)
(* connection may have again.                                              *)
(*                                                                         *)
(* Conversations with the daemon are in Exchange.  Here it stores what it  *)
(* is sent, or does not, and its verdict is any.                           *)
(***************************************************************************)
EXTENDS Wire

CONSTANTS
  Stmts,         \* listed statements
  LeadsOf,       \* the first value of each row a query returns
  MaxCmds,       \* bound: commands the application sends
  MaxConns,      \* bound: connections that use the SSL object's address
  Nil

\* Queries that return rows; the others that are sent as COM_QUERY; and commands that
\* are not: one that runs a prepared statement, and one that is answered by an EOF
\* packet alone.
Selects == Stmts \cup {"SELECT"}
Queries == Selects \cup {"BEGIN", "COMMIT"}
Commands == Queries \cup {"COM_STMT_EXECUTE", "COM_SET_OPTION"}

ASSUME StmtsAssumption == Nil \notin Commands
ASSUME LeadsAssumption == LeadsOf \in [Selects -> Seq(Leads)]

VARIABLES
  dep, txn,      \* the connection's framing and the server's transaction
  srv,           \* bytes the server has received: <<command, half>>
  rx,            \* messages on their way to the application
  cmd, unsent,   \* the application's command and the half it has not written
  busy, got,     \* whether it waits for an answer, and the messages it has read
  conn,          \* the agent's Conn
  arena,         \* the payload of each statement, as messages
  last,          \* what the server's last response was about
  odd,           \* unusual things that have happened
  cmds, conns    \* commands and connections so far

vars == <<dep, txn, srv, rx, cmd, unsent, busy, got, conn, arena, last, odd, cmds, conns>>

\* ResponseTracker; caps is "none" until begin() is called for the first time.
Trackers ==
  [state : {"Init", "ColumnDefs", "ColumnEof", "Rows", "Done"}, left : 0 .. 1,
   caps : {"none", "plain", "dep"}, poisoned : BOOLEAN, txn : BOOLEAN]

\* A half of a command, and the columns and rows of a query's result.
Halves(q) == <<<<q, 1>>, <<q, 2>>>>
Columns(q) == <<[of |-> q]>>
Rows(q) == [i \in 1 .. Len(LeadsOf[q]) |-> [of |-> q, lead |-> LeadsOf[q][i]]]
Status(t, more) == [txn |-> t, more |-> more]
Result(q, t, more) == encodeResultSet(ResultSet(Columns(q), Rows(q), Status(t, more), 0), dep)

Init ==
  /\ dep \in BOOLEAN
  /\ txn \in BOOLEAN
  /\ rx = << >>
  /\ unsent = << >>
  /\ got = << >>
  /\ \/ cmd = Nil /\ srv = << >> /\ busy = FALSE
     \/ cmd = "SELECT" /\ srv = Halves(cmd) /\ busy = TRUE
  /\ conn = [req |-> << >>,
             resp |-> [state |-> "Init", left |-> 0, caps |-> "none",
                       poisoned |-> FALSE, txn |-> FALSE],
             in_txn |-> FALSE, caps |-> "unknown", pending |-> Nil,
             capturing |-> FALSE, captured |-> << >>,
             awaiting |-> FALSE, query |-> << >>, owed |-> << >>]
  /\ arena = [s \in Stmts |-> << >>]
  /\ last = "none"
  /\ odd = {}
  /\ cmds = 0
  /\ conns = 1
-----------------------------------------------------------------------------
(* The response tracker.                                                   *)

\* begin(): the framing, or the one without DEPRECATE_EOF while it is not known.
Begin(caps) ==
  [state |-> "Init", left |-> 0, caps |-> IF caps = "unknown" THEN "plain" ELSE caps,
   poisoned |-> FALSE, txn |-> FALSE]

\* The status finish() finds: a short 0xFE packet is read as an EOF where EOFs are
\* expected, anything else as an OK, whose flags are there if PROTOCOL_41 is.
StatusOf(t, m) ==
  IF IsTerminator(m) /\ t.caps # "dep"
    THEN [got |-> parseEof(m), status |-> m.val.status]
    ELSE [got |-> parseOk(m), status |-> IF t.caps = "none" THEN NoStatus ELSE m.val.status]

finish(t, m) ==
  LET s == StatusOf(t, m)
  IN  [t EXCEPT !.state = "Done",
                !.txn = IF s.got THEN s.status.txn ELSE @,
                !.poisoned = @ \/ (s.got /\ s.status.more)]

Poisoned(t) == [t EXCEPT !.state = "Done", !.poisoned = TRUE]

\* feed().
feed(t, m) ==
  CASE t.state = "Done" -> t
    [] t.state = "Init" ->
         LET kind == classifyResponse(m, t.caps = "dep")
         IN  CASE kind \in {"Ok", "Eof"} -> finish(t, m)
               [] kind = "ResultSet" -> [t EXCEPT !.state = "ColumnDefs", !.left = m.val.cols]
               [] OTHER -> Poisoned(t)
    [] t.state = "ColumnDefs" ->
         [t EXCEPT !.left = @ - 1,
                   !.state = IF t.left > 1 THEN @
                             ELSE IF t.caps = "dep" THEN "Rows" ELSE "ColumnEof"]
    [] t.state = "ColumnEof" -> [t EXCEPT !.state = "Rows"]
    [] t.state = "Rows" ->
         IF m.byte = 255 THEN Poisoned(t)
         ELSE IF IsTerminator(m) THEN finish(t, m)
         ELSE t
-----------------------------------------------------------------------------
(* The write side.                                                         *)

\* RequestTracker::next(): a whole command, and the text of a COM_QUERY.
Assembled(halves) == Len(halves) = 2
Text(halves) == Last(halves)[1]
IsQuery(halves) == Text(halves) \in Queries

\* handleWrite() lets the buffer through: real_SSL_write().
Through(halves) == srv' = srv \o halves

\* The first half of a command, or a command that is not COM_QUERY.
WriteOther(halves) ==
  LET buf == conn.req \o halves
  IN  /\ ~(Assembled(buf) /\ IsQuery(buf))
      /\ conn' = [conn EXCEPT !.req = IF Assembled(buf) THEN << >> ELSE buf]
      /\ Through(halves)
      /\ UNCHANGED <<arena, odd>>

\* A COM_QUERY begins a response.
WriteQuery(halves) ==
  LET buf == conn.req \o halves
  IN  Assembled(buf) /\ IsQuery(buf)

\* It passes when the agent is switched off, when it is not listed, inside a
\* transaction, and when there is no pipe or no way to ask.
WritePass(halves) ==
  /\ WriteQuery(halves)
  /\ conn' = [conn EXCEPT !.req = << >>, !.resp = Begin(conn.caps)]
  /\ Through(halves)
  /\ UNCHANGED <<arena, odd>>

\* Listed, outside a transaction.
Cacheable(q) == q \in Stmts /\ ~conn.in_txn

\* No payload: it runs, and what comes back is captured.
WriteCapture(halves) ==
  /\ WriteQuery(halves)
  /\ Cacheable(Text(halves))
  /\ arena[Text(halves)] = << >>
  /\ conn' = [conn EXCEPT !.req = << >>, !.resp = Begin(conn.caps),
                          !.pending = Text(halves), !.captured = << >>, !.capturing = TRUE]
  /\ Through(halves)
  /\ UNCHANGED <<arena, odd>>

\* The daemon is asked, and this buffer is kept.
WriteAsk(halves) ==
  /\ WriteQuery(halves)
  /\ Cacheable(Text(halves))
  /\ conn' = [conn EXCEPT !.req = << >>, !.resp = Begin(conn.caps),
                          !.pending = Text(halves), !.awaiting = TRUE, !.query = halves]
  /\ odd' = IF Len(halves) < 2 THEN odd \cup {"split"} ELSE odd
  /\ UNCHANGED <<srv, arena>>

handleWrite(halves) ==
  WriteOther(halves) \/ WritePass(halves) \/ WriteCapture(halves) \/ WriteAsk(halves)

\* The application has an answer to everything it sent, and sends a command: in one
\* SSL_write or in two.
Send(q) ==
  /\ ~busy
  /\ cmds < MaxCmds
  /\ cmds' = cmds + 1
  /\ busy' = TRUE
  /\ got' = << >>
  /\ cmd' = q
  /\ \E n \in 1 .. 2 :
       /\ handleWrite(SubSeq(Halves(q), 1, n))
       /\ unsent' = SubSeq(Halves(q), n + 1, 2)
  /\ UNCHANGED <<dep, txn, rx, last, conns>>

SendRest ==
  /\ unsent # << >>
  /\ cmd' = cmd
  /\ handleWrite(unsent)
  /\ unsent' = << >>
  /\ UNCHANGED <<dep, txn, rx, busy, got, last, cmds, conns>>
-----------------------------------------------------------------------------
(* The read side.                                                          *)

\* The application calls SSL_read until nothing more of the answer is to come.
Reading == busy /\ unsent = << >>
Take(msgs) ==
  /\ got' = got \o msgs
  /\ busy' = (rx' # << >> \/ conn'.owed # << >>)

\* Mutant of SettleServe: the stored bytes are replayed.
SettleServeCanonical ==
  /\ Reading
  /\ conn.awaiting
  /\ conn.caps # "unknown"
  /\ arena[conn.pending] # << >>
  /\ rx' = rx
  /\ conn' = [conn EXCEPT !.awaiting = FALSE, !.pending = Nil]
  /\ Take(arena[conn.pending])
  /\ UNCHANGED <<dep, txn, srv, cmd, unsent, arena, last, odd, cmds, conns>>

\* settle(): REPLY_OK, the framing known and a payload that parses.  The caller gets
\* as much of it as its buffer takes.
SettleServe ==
  LET payload == parseResultSet(arena[conn.pending], TRUE)
      owed == encodeResultSet(payload.rs, conn.caps = "dep")
  IN  /\ Reading
      /\ conn.awaiting
      /\ conn.caps # "unknown"
      /\ arena[conn.pending] # << >>
      /\ payload.ok
      /\ rx' = rx
      /\ \E n \in {1, Len(owed)} :
           /\ conn' = [conn EXCEPT !.awaiting = FALSE, !.pending = Nil,
                                   !.owed = SubSeq(owed, n + 1, Len(owed))]
           /\ Take(SubSeq(owed, 1, n))
      /\ UNCHANGED <<dep, txn, srv, cmd, unsent, arena, last, odd, cmds, conns>>

\* Mutant of SettleResend: the query is sent twice.
SettleResendTwice ==
  /\ Reading
  /\ conn.awaiting
  /\ srv' = srv \o conn.query \o conn.query
  /\ conn' = [conn EXCEPT !.awaiting = FALSE, !.captured = << >>, !.capturing = TRUE]
  /\ UNCHANGED <<dep, txn, rx, cmd, unsent, busy, got, arena, last, odd, cmds, conns>>

\* Any other verdict, or none in time: the buffer that was kept is sent.
SettleResend ==
  /\ Reading
  /\ conn.awaiting
  /\ srv' = srv \o conn.query
  /\ conn' = [conn EXCEPT !.awaiting = FALSE, !.captured = << >>, !.capturing = TRUE]
  /\ UNCHANGED <<dep, txn, rx, cmd, unsent, busy, got, arena, last, odd, cmds, conns>>

\* drain(): a later call takes more of what is owed.
Drain ==
  /\ Reading
  /\ ~conn.awaiting
  /\ conn.owed # << >>
  /\ rx' = rx
  /\ \E n \in {1, Len(conn.owed)} :
       /\ conn' = [conn EXCEPT !.owed = SubSeq(@, n + 1, Len(@))]
       /\ Take(SubSeq(conn.owed, 1, n))
  /\ UNCHANGED <<dep, txn, srv, cmd, unsent, arena, last, odd, cmds, conns>>

\* Mutant of Complete: whether the response may be shared is not asked.
CompletePoisoned(o, t) ==
  LET caps == IF o.conn.caps = "unknown" THEN inferCaps(o.conn.captured) ELSE o.conn.caps
      whole == parseResultSet(o.conn.captured, caps = "dep")
      share == ~t.txn /\ caps # "unknown" /\ whole.ok
  IN  [conn |-> [o.conn EXCEPT !.resp = t, !.in_txn = t.txn, !.caps = caps,
                               !.capturing = FALSE, !.captured = << >>,
                               !.pending = IF share THEN Nil ELSE @],
       canon |-> IF share THEN encodeResultSet(whole.rs, TRUE) ELSE o.canon]

\* The last packet of a response that is being captured (o is the Conn so far and
\* what is to be published): the framing is learnt, and a result set that may be
\* shared is put in canonical form.
Complete(o, t) ==
  LET caps == IF o.conn.caps = "unknown" THEN inferCaps(o.conn.captured) ELSE o.conn.caps
      whole == parseResultSet(o.conn.captured, caps = "dep")
      share == ~t.poisoned /\ ~t.txn /\ caps # "unknown" /\ whole.ok
  IN  [conn |-> [o.conn EXCEPT !.resp = t, !.in_txn = t.txn, !.caps = caps,
                               !.capturing = FALSE, !.captured = << >>,
                               !.pending = IF share THEN Nil ELSE @],
       canon |-> IF share THEN encodeResultSet(whole.rs, TRUE) ELSE o.canon]

\* Mutant of ObserveOne: the flag is set and not cleared.
ObserveOneKeeps(o, m) ==
  LET t == feed(o.conn.resp, m)
  IN  CASE t.state # "Done" -> [o EXCEPT !.conn.resp = t]
        [] t.state = "Done" /\ ~o.conn.capturing ->
             [o EXCEPT !.conn.resp = t, !.conn.in_txn = @ \/ t.txn]
        [] OTHER -> Complete(o, t)

\* One turn of observe()'s loop.
ObserveOne(o, m) ==
  LET t == feed(o.conn.resp, m)
  IN  CASE t.state # "Done" -> [o EXCEPT !.conn.resp = t]
        [] t.state = "Done" /\ ~o.conn.capturing ->
             [o EXCEPT !.conn.resp = t, !.conn.in_txn = t.txn]
        [] OTHER -> Complete(o, t)

\* observe(): the bytes read join the capture before any of them is looked at.
observe(msgs) ==
  LET start == [conn |-> IF conn.capturing THEN [conn EXCEPT !.captured = @ \o msgs] ELSE conn,
                canon |-> << >>]
      o[i \in 0 .. Len(msgs)] == IF i = 0 THEN start ELSE ObserveOne(o[i - 1], msgs[i])
  IN  o[Len(msgs)]

\* askStore() sends no more than BNCL_STORE_MAX bytes, and the daemon refuses what
\* does not parse or comes from a transaction.
MayStore(canon) ==
  LET whole == parseResultSet(canon, TRUE)
  IN  /\ whole.ok
      /\ ~whole.rs.status.txn
      /\ \A i \in 1 .. Len(whole.rs.rows) : whole.rs.rows[i].lead # "huge"

\* What has happened to a response from which the framing is to be learnt.
Unsure(what) == IF conn.capturing /\ conn.caps = "unknown" THEN {what} ELSE {}

\* real_SSL_read() with one message or all that have arrived, and observe().
Read ==
  /\ Reading
  /\ ~conn.awaiting /\ conn.owed = << >>
  /\ rx # << >>
  /\ \E n \in {1, Len(rx)} :
       LET o == observe(SubSeq(rx, 1, n))
       IN  /\ rx' = SubSeq(rx, n + 1, Len(rx))
           /\ conn' = o.conn
           /\ Take(SubSeq(rx, 1, n))
           /\ \/ UNCHANGED arena
              \/ /\ o.canon # << >> /\ MayStore(o.canon) /\ conn.pending # Nil
                 /\ arena' = [arena EXCEPT ![conn.pending] = o.canon]
  /\ odd' = odd \cup IF cmd = "COM_SET_OPTION" THEN Unsure("eof") ELSE {}
  /\ UNCHANGED <<dep, txn, srv, cmd, unsent, last, cmds, conns>>

\* A payload's TTL runs out, or the daemon drops it.
Expire(s) ==
  /\ arena[s] # << >>
  /\ arena' = [arena EXCEPT ![s] = << >>]
  /\ UNCHANGED <<dep, txn, srv, rx, cmd, unsent, busy, got, conn, last, odd, cmds, conns>>
-----------------------------------------------------------------------------
(* The database server and the application's connections.                  *)

\* Answers that end well and say whether a transaction is open.
PlainAnswer(q, t) ==
  CASE q \in Selects -> Result(q, t, FALSE)
    [] q = "COM_SET_OPTION" -> <<terminator([status |-> Status(t, FALSE), warnings |-> 0], dep)>>
    [] OTHER -> <<OkMessage(0, Status(t, FALSE), 0)>>

\* An error, and a file request; a result set followed by another; one that breaks off.
ErrAnswers(q, t) ==
  {<<ErrMessage>>}
    \cup IF q = "SELECT" THEN {<<InfileMessage, OkMessage(0, Status(t, FALSE), 0)>>} ELSE {}
MoreAnswer(q, t) == Result(q, t, TRUE) \o Result(q, t, FALSE)
BrokenAnswer(q, t) == Front(Result(q, t, FALSE)) \o <<ErrMessage>>

\* A SELECT or a prepared statement may open a transaction (autocommit off).
TxnAfter(q) ==
  CASE q = "BEGIN" -> {TRUE}
    [] q = "COMMIT" -> {FALSE}
    [] q = "COM_SET_OPTION" -> {txn}
    [] OTHER -> {txn, TRUE}

\* The server answers the command it has received.
Answer ==
  /\ Len(srv) >= 2 /\ SubSeq(srv, 1, 2) = Halves(srv[1][1])
  /\ srv' = SubSeq(srv, 3, Len(srv))
  /\ LET q == srv[1][1]
     IN  \/ \E t \in TxnAfter(q) :
              /\ rx' = rx \o PlainAnswer(q, t)
              /\ txn' = t
              /\ last' = IF q \in Queries THEN "query" ELSE "other"
              /\ odd' = odd
         \/ \E msgs \in ErrAnswers(q, txn) :
              rx' = rx \o msgs /\ last' = "other" /\ UNCHANGED <<txn, odd>>
         \/ /\ q \in Selects
            /\ \/ rx' = rx \o MoreAnswer(q, txn) /\ odd' = odd \cup Unsure("more")
               \/ rx' = rx \o BrokenAnswer(q, txn) /\ odd' = odd \cup Unsure("broken")
            /\ last' = "other" /\ txn' = txn
  /\ UNCHANGED <<dep, cmd, unsent, busy, got, conn, arena, cmds, conns>>

\* The application gives the connection up, waiting for an answer or not, and opens
\* another whose SSL object has the same address.
Reconnect ==
  /\ conns < MaxConns
  /\ conns' = conns + 1
  /\ unsent = << >>
  /\ dep' \in BOOLEAN
  /\ txn' = FALSE
  /\ srv' = << >> /\ rx' = << >> /\ got' = << >>
  /\ busy' = FALSE
  /\ last' = "none"
  /\ odd' = odd \cup IF busy \/ dep' # dep THEN {"reuse"} ELSE {}
  /\ UNCHANGED <<cmd, unsent, conn, arena, cmds>>

Next ==
  \/ \E q \in Commands : Send(q)
  \/ SendRest
  \/ SettleServe
  \/ SettleResend
  \/ Drain
  \/ Read
  \/ \E s \in Stmts : Expire(s)
  \/ Answer
  \/ Reconnect

Spec == Init /\ [][Next]_vars
-----------------------------------------------------------------------------
(* Properties.                                                             *)

\* The state of the connection, of the agent and of the arena.
TypeOK ==
  /\ dep \in BOOLEAN /\ txn \in BOOLEAN /\ busy \in BOOLEAN
  /\ cmd \in Commands \cup {Nil}
  /\ unsent \in {<< >>} \cup {<<<<q, 2>>>> : q \in Commands}
  /\ conn.resp \in Trackers
  /\ conn.caps \in Framings
  /\ conn.pending \in Stmts \cup {Nil}
  /\ conn.in_txn \in BOOLEAN /\ conn.capturing \in BOOLEAN /\ conn.awaiting \in BOOLEAN
  /\ DOMAIN arena = Stmts
  /\ last \in {"none", "query", "other"}
  /\ odd \subseteq {"split", "more", "broken", "eof", "reuse"}

\* What makes inferCaps() or the tracker go wrong before the framing is known: the
\* response broke off or had a second part, a packet that ended no result set ended
\* the capture of one without rows; or the Conn is another connection's.
Misled == odd \ {"split"} # {}

\* The framing observe() believes in is the connection's.
FramingIsKnown == conn.caps \in {"unknown", IF dep THEN "dep" ELSE "plain"}

\* It is, unless inferCaps() was misled.
FramingIsRight == ~Misled => FramingIsKnown

\* What is stored for a statement is its columns and all its rows, in canonical form,
\* and was read outside a transaction: a response that was cut short, that belonged to
\* another query or that carried another's rows is never published by observe().
StoredRowsAreOwn ==
  ~Misled =>
    \A s \in Stmts :
      arena[s] \in {<< >>, encodeResultSet(ResultSet(Columns(s), Rows(s), NoStatus, 0), TRUE)}

\* The messages the application reads for a command are one whole answer to it, in
\* the framing it negotiated, whether the server sent them or settle() wrote them.
AnswerIsWhole ==
  ~Misled /\ "split" \notin odd /\ ~busy /\ got # << >> =>
    \E t \in BOOLEAN :
      \/ got \in {PlainAnswer(cmd, t)} \cup ErrAnswers(cmd, t)
      \/ cmd \in Selects /\ got \in {MoreAnswer(cmd, t), BrokenAnswer(cmd, t)}

\* After a response observe() has followed to its end, in_txn is the server's flag.
\* It is not followed when the command was not COM_QUERY, when the response was an
\* error or had a second part, and when a result set without rows came before the
\* framing was known; nor under the wrong framing.
TransactionIsTracked ==
  ~Misled /\ ~busy /\ last = "query" /\ conn.resp.state = "Done" =>
    conn.in_txn = txn

\* The state has its types, and the server holds no more than the command the
\* application is waiting for, once: handleWrite() suppresses a query whole, settle()
\* sends it again whole, and once.  A query whose first half went through before the
\* rest was kept back is excepted, and so is an SSL object's address used again.
StreamsAreWhole ==
  /\ TypeOK
  /\ odd \cap {"split", "reuse"} = {} =>
       srv \in {<< >>} \cup (IF busy THEN {SubSeq(Halves(cmd), 1, n) : n \in 1 .. 2} ELSE {})
=============================================================================
