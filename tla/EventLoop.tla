----------------------------- MODULE EventLoop ------------------------------
(***************************************************************************)
(* The daemon's only thread (src/daemon/main.cpp: run, serve, store,       *)
(* control) and everything it can wait for: bytes of a request that a      *)
(* client sent in part (src/uclient/shared.cpp: post, askStore), a command *)
(* on the control socket, a reply of Valkey (src/common/valkey.cpp).       *)
(*                                                                         *)
(* A request header arrives in one piece, the body of a STORE in two.  A   *)
(* line of a Valkey reply arrives in two pieces, a value after its line.   *)
(* What the caches hold is in Freshness and Exchange: here a lookup may    *)
(* hit or miss.                                                            *)
(***************************************************************************)
EXTENDS Integers, Sequences, FiniteSets, Functions

CONSTANTS
  Clients, Pipes,
  MaxPosts,     \* bound: requests sent
  MaxCalls,     \* bound: control connections
  MaxBreaks,    \* bound: connections to Valkey that break
  Nil

ASSUME PipesAssumption == IsFiniteSet(Pipes)
ASSUME BoundsAssumption == MaxPosts \in Nat /\ MaxCalls \in Nat

VARIABLES
  pipe,         \* bytes on each pipe that the daemon has not read
  free,         \* the freelist, a stack
  cl,           \* each client: the pipe it waits on and the verdict it was sent
  d,            \* what the daemon is doing
  peer,         \* a connection to the control socket
  fd, up,       \* the daemon has a connection to Valkey; it is alive
  job, out,     \* Valkey: the command it has received, what it has still to send
  inbuf,        \* Valkey::inbuf_
  mute,         \* Valkey has stopped answering
  short,        \* pipes on which a STORE was sent in part
  misread,      \* pipes on which something else was taken for a header
  crossed,      \* a reply was taken for another command's
  posts, calls, breaks

vars == <<pipe, free, cl, d, peer, fd, up, job, out, inbuf, mute, short, misread, crossed,
          posts, calls, breaks>>

pipes == <<pipe, free, cl, short, misread, posts>>
valkey == <<fd, up, job, out, inbuf, crossed>>
control == <<peer, calls>>

Loop == [at |-> "loop"]

Init ==
  /\ pipe = [k \in Pipes |-> << >>]
  /\ free = CHOOSE f \in Bijection(1 .. Cardinality(Pipes), Pipes) : TRUE
  /\ cl = [c \in Clients |-> [on |-> Nil, verdict |-> Nil]]
  /\ d = Loop
  /\ peer = Nil
  /\ fd \in BOOLEAN /\ up = fd
  /\ job = Nil /\ out = << >> /\ inbuf = << >>
  /\ mute = FALSE
  /\ short = {} /\ misread = {} /\ crossed = FALSE
  /\ posts = 0 /\ calls = 0 /\ breaks = 0
-----------------------------------------------------------------------------
(* Clients.                                                                *)

Waits(c) == cl[c].on # Nil

StoreBytes(id) == <<<<"S", id>>, <<"B1", id>>, <<"B2", id>>>>

\* acquire() and askLookup().
Ask(c) ==
  /\ ~Waits(c) /\ free # << >> /\ posts < MaxPosts
  /\ posts' = posts + 1
  /\ LET k == free[Len(free)]
     IN  /\ cl' = [cl EXCEPT ![c] = [on |-> k, verdict |-> Nil]]
         /\ pipe' = [pipe EXCEPT ![k] = Append(@, <<"L", posts>>)]
  /\ free' = SubSeq(free, 1, Len(free) - 1)
  /\ UNCHANGED <<d, control, valkey, short, misread, mute, breaks>>

\* Mutant of PostStore: header and body are two writes, and either may be missing.
PostStoreTwice(c) ==
  /\ ~Waits(c) /\ free # << >> /\ posts < MaxPosts
  /\ posts' = posts + 1
  /\ LET k == free[Len(free)]
     IN  \E n \in 1 .. 2 :
           pipe' = [pipe EXCEPT ![k] = @ \o SubSeq(StoreBytes(posts), n, 3)]
  /\ UNCHANGED <<free, cl, d, control, valkey, short, misread, mute, breaks>>

\* acquire(), askStore() and release(): the socket takes all of it, or a part.
PostStore(c) ==
  /\ ~Waits(c) /\ free # << >> /\ posts < MaxPosts
  /\ posts' = posts + 1
  /\ LET k == free[Len(free)]
     IN  \E n \in 1 .. 3 :
           /\ pipe' = [pipe EXCEPT ![k] = @ \o SubSeq(StoreBytes(posts), 1, n)]
           /\ short' = IF n < 3 THEN short \cup {k} ELSE short
  /\ UNCHANGED <<free, cl, d, control, valkey, misread, mute, breaks>>

\* The pipe goes back, and the payload is served or the query sent: settle() with the
\* verdict, or out of time.
GiveBack(c) ==
  /\ cl' = [cl EXCEPT ![c] = [on |-> Nil, verdict |-> Nil]]
  /\ free' = Append(free, cl[c].on)
  /\ UNCHANGED <<pipe, d, control, valkey, short, misread, mute, posts, breaks>>

Settle(c) == Waits(c) /\ cl[c].verdict # Nil /\ GiveBack(c)

TimeOut(c) == Waits(c) /\ cl[c].verdict = Nil /\ GiveBack(c)
-----------------------------------------------------------------------------
(* The daemon.                                                             *)

\* reply(): to whoever is spliced to the pipe.
reply(k, status) ==
  cl' = [c \in Clients |-> IF cl[c].on = k THEN [cl[c] EXCEPT !.verdict = status] ELSE cl[c]]

\* healthy() or connect(), and sendCommand() for the request on k: a connection that
\* has died is found out when the reply is read.
Send(cmd, k, id) ==
  /\ d' = [at |-> "valkey", cmd |-> cmd, pipe |-> k, id |-> id]
  /\ fd' = TRUE
  /\ up' = (up \/ ~fd)
  /\ job' = IF up \/ ~fd THEN [cmd |-> cmd, id |-> id] ELSE Nil
  /\ UNCHANGED <<out, inbuf, crossed>>

\* The rest of serve() for a LOOKUP: a hit in the arena; Valkey is asked; Valkey
\* cannot be reached.
Lookup(k, id) ==
  \/ reply(k, "ok") /\ d' = Loop /\ UNCHANGED valkey
  \/ Send("get", k, id) /\ UNCHANGED cl
  \/ ~fd /\ reply(k, "error") /\ d' = Loop /\ UNCHANGED valkey

Body(k, need) == [at |-> "body", pipe |-> k, need |-> need, got |-> << >>]

\* serve(): a header is read.  Anything but a STORE is a LOOKUP; bytes that are no
\* header are read as either, with any length.
Serve(k) ==
  /\ d = Loop /\ pipe[k] # << >>
  /\ pipe' = [pipe EXCEPT ![k] = Tail(@)]
  /\ LET h == Head(pipe[k])[1]
         garbled == h \in {"B1", "B2"}
     IN  /\ misread' = IF garbled THEN misread \cup {k} ELSE misread
         /\ \/ h # "S" /\ Lookup(k, Head(pipe[k])[2])
            \/ h = "S" /\ d' = Body(k, 2) /\ UNCHANGED <<cl, valkey>>
            \/ garbled /\ d' \in {Loop, Body(k, 1), Body(k, 2)} /\ UNCHANGED <<cl, valkey>>
  /\ UNCHANGED <<free, control, short, mute, posts, breaks>>

\* What store() can parse.
Whole(body) == \E id \in 0 .. MaxPosts : body = Tail(StoreBytes(id))

\* readExactly() of the body, and store(): what does not parse is refused, and the
\* rest goes to Valkey, if it can be reached.
ReadBody ==
  /\ d.at = "body" /\ pipe[d.pipe] # << >>
  /\ pipe' = [pipe EXCEPT ![d.pipe] = Tail(@)]
  /\ LET body == Append(d.got, Head(pipe[d.pipe]))
     IN  \/ d.need > 1 /\ d' = [d EXCEPT !.need = @ - 1, !.got = body] /\ UNCHANGED valkey
         \/ d.need = 1 /\ Whole(body) /\ Send("setex", d.pipe, body[1][2])
         \/ d.need = 1 /\ (~Whole(body) \/ ~fd) /\ d' = Loop /\ UNCHANGED valkey
  /\ UNCHANGED <<free, cl, control, short, misread, mute, posts, breaks>>
-----------------------------------------------------------------------------
(* The Valkey client.                                                      *)

\* What follows a reply: serve() answers with a value, unless the arena is full, and
\* takes everything else for a miss; store() and stats() go on whatever it says.
Done(says) ==
  /\ d' = Loop
  /\ \/ d.cmd = "get" /\ says = "value" /\ \E status \in {"ok", "error"} : reply(d.pipe, status)
     \/ d.cmd = "get" /\ says # "value" /\ reply(d.pipe, "through")
     \/ d.cmd # "get" /\ UNCHANGED cl

\* Mutant of disconnect: what was read of the last reply stays.
disconnectDirty == fd' = FALSE /\ up' = FALSE /\ job' = Nil /\ out' = << >> /\ inbuf' = inbuf

disconnect == fd' = FALSE /\ up' = FALSE /\ job' = Nil /\ out' = << >> /\ inbuf' = << >>

\* readLine() and readExactly(): a piece arrives.  A value's line is followed by the
\* value; a line of an unexpected type drops the connection.
ReadReply ==
  LET buf == Append(inbuf, Head(out))
      says == buf[1].says
      want == IF says = "value" THEN 3 ELSE 2
  IN  /\ d.at = "valkey" /\ out # << >>
      /\ \/ /\ Len(buf) < want
            /\ inbuf' = buf /\ out' = Tail(out)
            /\ UNCHANGED <<d, cl, fd, up, job, crossed>>
         \/ /\ Len(buf) >= want
            /\ IF says = "odd" /\ d.cmd = "get" THEN disconnect
                 ELSE /\ inbuf' = SubSeq(buf, want + 1, Len(buf)) /\ out' = Tail(out)
                      /\ UNCHANGED <<fd, up, job>>
            /\ crossed' = (crossed \/ \E i \in 1 .. want : buf[i].job # [cmd |-> d.cmd, id |-> d.id])
            /\ Done(says)
      /\ UNCHANGED <<pipe, free, control, short, misread, mute, posts, breaks>>

\* Mutant of ReadFails: the end of the stream is read again, as EINTR is.
ReadFailsRetries == d.at = "valkey" /\ ~up /\ out = << >> /\ UNCHANGED vars

\* The read fails.
ReadFails ==
  /\ d.at = "valkey" /\ ~up /\ out = << >>
  /\ disconnect
  /\ Done("nothing")
  /\ UNCHANGED <<pipe, free, control, short, misread, crossed, mute, posts, breaks>>
-----------------------------------------------------------------------------
(* Valkey and the control socket's callers.                                *)

Reply(says, n) == [i \in 1 .. n |-> [says |-> says, job |-> job]]

\* Valkey carries out a command, or answers with an error or with another type.
ValkeyAnswers ==
  /\ up /\ job # Nil /\ ~mute
  /\ job' = Nil
  /\ out' \in {Reply("error", 2), Reply("odd", 2)}
              \cup IF job.cmd = "get" THEN {Reply("value", 3), Reply("nil", 2)} ELSE {Reply("fine", 2)}
  /\ UNCHANGED <<pipes, d, control, fd, up, inbuf, crossed, mute, breaks>>

\* The connection ends, in the middle of a reply or between two commands.
ValkeyCloses ==
  /\ up /\ breaks < MaxBreaks
  /\ breaks' = breaks + 1
  /\ up' = FALSE /\ job' = Nil
  /\ \E n \in 0 .. Len(out) : out' = SubSeq(out, 1, n)
  /\ UNCHANGED <<pipes, d, control, fd, inbuf, crossed, mute>>

\* It hangs, and keeps its connections.
ValkeyHangs ==
  /\ ~mute /\ mute' = TRUE
  /\ UNCHANGED <<pipes, d, control, valkey, breaks>>

\* Somebody connects to the control socket: barnacle, which sends its command at once,
\* or a caller who says nothing.
Call(who) ==
  /\ peer = Nil /\ calls < MaxCalls
  /\ calls' = calls + 1
  /\ peer' = who
  /\ UNCHANGED <<pipes, d, valkey, mute, breaks>>

\* control(): STATS asks Valkey how many keys it has; the other commands wait for
\* nothing.
Control ==
  /\ d = Loop /\ peer # Nil
  /\ \/ peer = "barnacle" /\ peer' = Nil /\ Send("dbsize", Nil, MaxPosts + calls)
     \/ peer = "barnacle" /\ peer' = Nil /\ d' = Loop /\ UNCHANGED valkey
     \/ peer = "silent" /\ d' = [at |-> "control"] /\ UNCHANGED <<peer, valkey>>
  /\ UNCHANGED <<pipes, calls, mute, breaks>>

\* The caller goes away: read() returns nothing.
HangUp ==
  /\ peer = "silent"
  /\ peer' = Nil
  /\ d' = IF d.at = "control" THEN Loop ELSE d
  /\ UNCHANGED <<pipes, calls, valkey, mute, breaks>>

\* The daemon dies.
Die ==
  /\ d' = [at |-> "dead"]
  /\ fd' = FALSE /\ up' = FALSE /\ job' = Nil /\ out' = << >> /\ inbuf' = << >>
  /\ UNCHANGED <<pipes, control, crossed, mute, breaks>>

Daemon == (\E k \in Pipes : Serve(k)) \/ ReadBody \/ ReadReply \/ ReadFails \/ Control

Next ==
  \/ \E c \in Clients : Ask(c) \/ PostStore(c) \/ Settle(c) \/ TimeOut(c)
  \/ Daemon
  \/ ValkeyAnswers \/ ValkeyCloses \/ ValkeyHangs
  \/ \E who \in {"barnacle", "silent"} : Call(who)
  \/ HangUp
  \/ Die

\* epoll_wait() reports every descriptor that is ready, and each is served before the
\* next wait; a thread inside SSL_read goes on; Valkey answers unless it hangs.
Fairness ==
  /\ WF_vars(Daemon)
  /\ \A k \in Pipes : SF_vars(Serve(k))
  /\ SF_vars(Control)
  /\ \A c \in Clients : WF_vars(Settle(c) \/ TimeOut(c))
  /\ WF_vars(ValkeyAnswers)

Spec == Init /\ [][Next]_vars
FairSpec == Spec /\ Fairness
-----------------------------------------------------------------------------
(* Properties.                                                             *)

\* The state of the loop, the pipes and the connection to Valkey.
TypeOK ==
  /\ pipe \in [Pipes -> Seq({"L", "S", "B1", "B2"} \X (0 .. MaxPosts))]
  /\ cl \in [Clients -> [on : Pipes \cup {Nil}, verdict : {Nil, "ok", "error", "through"}]]
  /\ d.at \in {"loop", "body", "valkey", "control", "dead"}
  /\ peer \in {Nil, "barnacle", "silent"}
  /\ up => fd

\* Every reply the Valkey client acts on is the reply to the command it has just
\* sent: a connection that breaks in the middle of a reply leaves nothing of it
\* behind (Valkey::disconnect).
RepliesAreOwn == ~crossed

\* The state has its types, and serve() takes for a header only what was sent as one,
\* unless a STORE was sent in part on that pipe: requests that queue up on a pipe, from
\* whatever holder, keep their boundaries.
InboxIsFramed == TypeOK /\ misread \subseteq short

\* The daemon waits for what nobody is going to send, or is gone.
Stuck ==
  \/ d.at = "body" /\ d.pipe \in short
  \/ d.at = "control"
  \/ d.at = "valkey" /\ mute
  \/ d.at = "dead"

\* Every request is read, unless the loop ends up waiting for ever: for the rest of a
\* STORE that was sent in part, for a silent caller, for a Valkey that hangs.
RequestIsRead ==
  \/ <>[]Stuck
  \/ \A k \in Pipes : (pipe[k] # << >>) ~> (pipe[k] = << >>)
=============================================================================
