-------------------------- MODULE EventLoopProofs ---------------------------
(***************************************************************************)
(* Proofs of the safety properties of EventLoop, for any number of clients *)
(* and pipes and any bound on requests, calls and broken connections.      *)
(***************************************************************************)
EXTENDS EventLoop, FiniteSetTheorems, TLAPS

Bytes == {"L", "S", "B1", "B2"} \X (0 .. MaxPosts)
Commands == [cmd : {"get", "setex", "dbsize"}, id : Nat]
Words == {"value", "nil", "fine", "error", "odd"}

\* What the daemon can be doing.
DaemonStates ==
  {Loop, [at |-> "control"], [at |-> "dead"]}
  \cup [at : {"body"}, pipe : Pipes, need : {1, 2}, got : Seq(Bytes)]
  \cup [at : {"valkey"}, cmd : {"get", "setex", "dbsize"}, pipe : Pipes \cup {Nil}, id : Nat]

ClientStates == [on : Pipes \cup {Nil}, verdict : {Nil, "ok", "error", "through"}]
Messages == [says : Words, job : Commands]

\* The bytes of a pipe are whole requests, after the n pieces of a body that is being
\* read.
Framed(s, n) ==
  /\ n = 1 => 1 <= Len(s) /\ s[1][1] = "B2"
  /\ n = 2 => 2 <= Len(s) /\ s[1][1] = "B1" /\ s[2][1] = "B2"
  /\ \A i \in 1 .. Len(s) :
       /\ s[i][1] = "S" => i + 2 <= Len(s) /\ s[i + 1][1] = "B1" /\ s[i + 2][1] = "B2"
       /\ s[i][1] = "B1" => IF i = 1 THEN n = 2 ELSE s[i - 1][1] = "S"
       /\ s[i][1] = "B2" => IF i = 1 THEN n = 1 ELSE s[i - 1][1] = "B1"

\* What readExactly() has still to take from pipe k for the body it is at.
Owed(k) == IF d.at = "body" /\ d.pipe = k THEN d.need ELSE 0

Inboxes == d.at # "dead" => \A k \in Pipes \ short : Framed(pipe[k], Owed(k))

\* The pieces of a reply: its line arrives in two, and a value follows its line.
Pieces(says) == IF says = "value" THEN 3 ELSE 2

\* What is under way on the connection: nothing, or the command the daemon waits for, or
\* what is left of the one reply to it.
Command == [cmd |-> d.cmd, id |-> d.id]

Connection ==
  /\ d.at # "valkey" => job = Nil
  /\ d.at = "valkey" /\ job # Nil => job = Command
  /\ d.at # "valkey" \/ job # Nil => out = << >> /\ inbuf = << >>
  /\ d.at = "valkey" => \E w \in Words :
       /\ Len(inbuf) < Pieces(w) /\ Len(inbuf) + Len(out) <= Pieces(w)
       /\ \A i \in 1 .. Len(inbuf) : inbuf[i] = [says |-> w, job |-> Command]
       /\ \A i \in 1 .. Len(out) : out[i] = [says |-> w, job |-> Command]

\* The clients' side, with the pipes.
PipeInv ==
  /\ pipe \in [Pipes -> Seq(Bytes)] /\ cl \in [Clients -> ClientStates]
  /\ free \in Seq(Pipes) /\ posts \in 0 .. MaxPosts
  /\ misread \subseteq short
  /\ Inboxes

\* Valkey's side, with the connection.
ValkeyInv ==
  /\ fd \in BOOLEAN /\ up \in BOOLEAN /\ (up => fd)
  /\ out \in Seq(Messages) /\ inbuf \in Seq(Messages)
  /\ Connection /\ ~crossed

LoopInv ==
  /\ d \in DaemonStates /\ peer \in {Nil, "barnacle", "silent"} /\ calls \in Nat
  /\ PipeInv /\ ValkeyInv
-----------------------------------------------------------------------------
(* Framing.                                                                *)

\* serve() at a boundary takes a header, and then a STORE owes its body; readExactly() in
\* a body takes a piece of it.
LEMMA FramedTail ==
  ASSUME NEW s \in Seq(Bytes), s # << >>, NEW n \in {0, 1, 2}, Framed(s, n)
  PROVE  /\ n = 0 => Head(s)[1] \notin {"B1", "B2"}
         /\ n = 0 /\ Head(s)[1] = "S" => Framed(Tail(s), 2)
         /\ n = 0 /\ Head(s)[1] # "S" => Framed(Tail(s), 0)
         /\ n = 2 => Framed(Tail(s), 1)
         /\ n = 1 => Framed(Tail(s), 0)
<1> DEFINE t == Tail(s)
<1>1. /\ t \in Seq(Bytes) /\ Len(s) \in Nat /\ Len(s) >= 1 /\ Len(t) = Len(s) - 1
      /\ \A i \in 1 .. Len(t) : t[i] = s[i + 1] /\ i + 1 \in 1 .. Len(s)
      /\ Head(s) = s[1] /\ 1 \in 1 .. Len(s)
  OBVIOUS
<1> HIDE DEF t
<1>2. n = 0 => Head(s)[1] \notin {"B1", "B2"}
  BY <1>1 DEF Framed
<1>3. ASSUME NEW i \in 1 .. Len(t), t[i][1] = "S"
      PROVE  i + 2 <= Len(t) /\ t[i + 1][1] = "B1" /\ t[i + 2][1] = "B2"
  <2>1. i + 1 \in 1 .. Len(s) /\ s[i + 1][1] = "S"
    BY <1>1, <1>3
  <2>2. (i + 1) + 2 <= Len(s) /\ s[(i + 1) + 1][1] = "B1" /\ s[(i + 1) + 2][1] = "B2"
    BY Zenon, <2>1 DEF Framed
  <2>3. /\ (i + 1) + 2 = (i + 2) + 1
        /\ i + 1 \in 1 .. Len(t) /\ i + 2 \in 1 .. Len(t) /\ i + 2 <= Len(t)
    BY <1>1, <2>2
  <2>4. QED
    BY Zenon, <1>1, <2>2, <2>3
<1>4. ASSUME NEW i \in 1 .. Len(t), i # 1
      PROVE  /\ t[i][1] = "B1" => t[i - 1][1] = "S"
             /\ t[i][1] = "B2" => t[i - 1][1] = "B1"
  <2>1. i + 1 \in 1 .. Len(s) /\ t[i] = s[i + 1] /\ i + 1 # 1 /\ (i + 1) - 1 = i
    BY <1>1
  <2>2. i - 1 \in 1 .. Len(t) /\ (i - 1) + 1 = i
    BY <1>1, <1>4
  <2>3. t[i - 1] = s[i]
    BY Zenon, <1>1, <2>2
  <2>4. /\ s[i + 1][1] = "B1" => s[(i + 1) - 1][1] = "S"
        /\ s[i + 1][1] = "B2" => s[(i + 1) - 1][1] = "B1"
    BY Zenon, <2>1 DEF Framed
  <2>5. QED
    BY Zenon, <2>1, <2>3, <2>4
<1>5. Len(t) >= 1 => /\ t[1][1] = "B1" => s[1][1] = "S"
                     /\ t[1][1] = "B2" => s[1][1] = "B1"
  <2>1. Len(t) >= 1 => 1 + 1 \in 1 .. Len(s) /\ t[1] = s[1 + 1] /\ 1 + 1 # 1 /\ (1 + 1) - 1 = 1
    BY <1>1
  <2>2. QED
    BY Zenon, <2>1 DEF Framed
<1>6. CASE n = 0 /\ s[1][1] = "S"
  <2>1. 2 <= Len(t) /\ t[1][1] = "B1" /\ t[2][1] = "B2"
    BY <1>1, <1>6 DEF Framed
  <2>2. Framed(t, 2)
    BY <1>1, <1>3, <1>4, <1>5, <1>6, <2>1 DEF Framed
  <2>3. QED
    BY <1>1, <1>2, <1>6, <2>2 DEF t
<1>7. CASE n = 0 /\ s[1][1] # "S"
  <2>1. Framed(t, 0)
    BY <1>1, <1>2, <1>3, <1>4, <1>5, <1>7 DEF Framed
  <2>2. QED
    BY <1>1, <1>2, <1>7, <2>1 DEF t
<1>8. CASE n = 2
  <2>1. 1 <= Len(t) /\ t[1][1] = "B2" /\ s[1][1] = "B1"
    BY <1>1, <1>8 DEF Framed
  <2>2. Framed(t, 1)
    BY <1>1, <1>3, <1>4, <1>5, <2>1 DEF Framed
  <2>3. QED
    BY <1>8, <2>2 DEF t
<1>9. CASE n = 1
  <2>1. s[1][1] = "B2"
    BY <1>9 DEF Framed
  <2>2. Framed(t, 0)
    BY SMTT(20), <1>1, <1>3, <1>4, <1>5, <2>1 DEF Framed
  <2>3. QED
    BY <1>9, <2>2 DEF t
<1>10. QED
  BY <1>6, <1>7, <1>8, <1>9

\* Framing is kept when what is added is framed.
LEMMA FramedMore ==
  ASSUME NEW s \in Seq(Bytes), NEW t \in Seq(Bytes), NEW n \in {0, 1, 2}, Framed(s, n),
         Len(s) <= Len(t), \A i \in 1 .. Len(s) : t[i] = s[i],
         \A i \in Len(s) + 1 .. Len(t) :
           /\ t[i][1] = "S" => i + 2 <= Len(t) /\ t[i + 1][1] = "B1" /\ t[i + 2][1] = "B2"
           /\ t[i][1] = "B1" => i # 1 /\ t[i - 1][1] = "S"
           /\ t[i][1] = "B2" => i # 1 /\ t[i - 1][1] = "B1"
  PROVE  Framed(t, n)
<1>1. Len(s) \in Nat /\ Len(t) \in Nat
  OBVIOUS
<1>2. /\ n = 1 => 1 <= Len(t) /\ t[1][1] = "B2"
      /\ n = 2 => 2 <= Len(t) /\ t[1][1] = "B1" /\ t[2][1] = "B2"
  BY <1>1 DEF Framed
<1>3. ASSUME NEW i \in 1 .. Len(t)
      PROVE  /\ t[i][1] = "S" => i + 2 <= Len(t) /\ t[i + 1][1] = "B1" /\ t[i + 2][1] = "B2"
             /\ t[i][1] = "B1" => IF i = 1 THEN n = 2 ELSE t[i - 1][1] = "S"
             /\ t[i][1] = "B2" => IF i = 1 THEN n = 1 ELSE t[i - 1][1] = "B1"
  <2>1. CASE i \in Len(s) + 1 .. Len(t)
    BY Zenon, <2>1
  <2>2. CASE i \in 1 .. Len(s)
    <3>1. t[i] = s[i] /\ (i # 1 => t[i - 1] = s[i - 1])
      BY <1>1, <2>2
    <3>2. s[i][1] = "S" => i + 2 <= Len(t) /\ t[i + 1] = s[i + 1] /\ t[i + 2] = s[i + 2]
      BY <1>1, <2>2 DEF Framed
    <3>3. QED
      <4>1. /\ s[i][1] = "S" => i + 2 <= Len(s) /\ s[i + 1][1] = "B1" /\ s[i + 2][1] = "B2"
            /\ s[i][1] = "B1" => IF i = 1 THEN n = 2 ELSE s[i - 1][1] = "S"
            /\ s[i][1] = "B2" => IF i = 1 THEN n = 1 ELSE s[i - 1][1] = "B1"
        BY Zenon, <2>2 DEF Framed
      <4>2. QED
        BY <3>1, <3>2, <4>1
  <2>3. QED
    BY <1>1, <2>1, <2>2
<1>4. QED
  BY Zenon, <1>2, <1>3 DEF Framed

\* askLookup() adds a whole request.
LEMMA FramedAsk ==
  ASSUME NEW s \in Seq(Bytes), NEW n \in {0, 1, 2}, Framed(s, n), NEW x \in 0 .. MaxPosts
  PROVE  Framed(Append(s, <<"L", x>>), n)
<1> DEFINE t == Append(s, <<"L", x>>)
<1>1. <<"L", x>> \in Bytes
  BY DEF Bytes
<1>2. t \in Seq(Bytes) /\ Len(s) \in Nat /\ Len(t) = Len(s) + 1 /\ \A i \in 1 .. Len(s) : t[i] = s[i]
  BY <1>1
<1>3. \A i \in Len(s) + 1 .. Len(t) : t[i][1] = "L"
  BY <1>1
<1> HIDE DEF t
<1>4. Framed(t, n)
  <2>1. Len(s) <= Len(t)
    BY <1>2
  <2>2. \A i \in Len(s) + 1 .. Len(t) : t[i][1] # "S" /\ t[i][1] # "B1" /\ t[i][1] # "B2"
    BY <1>3
  <2>3. QED
    BY Zenon, <1>2, <2>1, <2>2, FramedMore
<1>5. QED
  BY <1>4 DEF t

\* askStore() that is sent in one piece adds a whole request.
LEMMA FramedStore ==
  ASSUME NEW s \in Seq(Bytes), NEW n \in {0, 1, 2}, Framed(s, n), NEW x \in 0 .. MaxPosts
  PROVE  Framed(s \o StoreBytes(x), n)
<1> DEFINE t == s \o StoreBytes(x)
<1>1. StoreBytes(x) \in Seq(Bytes)
  BY DEF Bytes, StoreBytes
<1>2. /\ t \in Seq(Bytes) /\ Len(s) \in Nat /\ Len(t) = Len(s) + 3
      /\ \A i \in 1 .. Len(s) : t[i] = s[i]
      /\ t[Len(s) + 1][1] = "S" /\ t[Len(s) + 2][1] = "B1" /\ t[Len(s) + 3][1] = "B2"
  BY <1>1 DEF StoreBytes
<1> HIDE DEF t
<1>3. ASSUME NEW i \in Len(s) + 1 .. Len(t)
      PROVE  /\ t[i][1] = "S" => i + 2 <= Len(t) /\ t[i + 1][1] = "B1" /\ t[i + 2][1] = "B2"
             /\ t[i][1] = "B1" => i # 1 /\ t[i - 1][1] = "S"
             /\ t[i][1] = "B2" => i # 1 /\ t[i - 1][1] = "B1"
  <2>1. i = Len(s) + 1 \/ i = Len(s) + 2 \/ i = Len(s) + 3
    BY <1>2
  <2>2. CASE i = Len(s) + 1
    BY <1>2, <2>2
  <2>3. CASE i = Len(s) + 2
    BY <1>2, <2>3
  <2>4. CASE i = Len(s) + 3
    BY <1>2, <2>4
  <2>5. QED
    BY Zenon, <2>1, <2>2, <2>3, <2>4
<1>4. Framed(t, n)
  <2>1. Len(s) <= Len(t)
    BY <1>2
  <2>2. QED
    BY Zenon, <1>2, <1>3, <2>1, FramedMore
<1>5. QED
  BY <1>4 DEF t

-----------------------------------------------------------------------------
(* The daemon's state.                                                     *)

\* What the daemon has in hand where it is.
LEMMA DaemonTypes ==
  ASSUME d \in DaemonStates
  PROVE  /\ d.at \in {"loop", "body", "valkey", "control", "dead"}
         /\ d.at = "body" => d.pipe \in Pipes /\ d.need \in {1, 2} /\ d.got \in Seq(Bytes)
         /\ d.at = "body" => d \in [at : {"body"}, pipe : Pipes, need : {1, 2}, got : Seq(Bytes)]
         /\ d.at = "valkey" => d.cmd \in {"get", "setex", "dbsize"} /\ d.pipe \in Pipes \cup {Nil}
                               /\ d.id \in Nat
         /\ d = Loop => d.at = "loop"
BY DEF DaemonStates, Loop

\* A step that leaves pipes alone and owes each what it owed.
LEMMA InboxesStay ==
  ASSUME Inboxes, UNCHANGED <<pipe, short>>,
         d'.at # "dead" => d.at # "dead" /\ \A k \in Pipes : Owed(k)' = Owed(k)
  PROVE  Inboxes'
BY Zenon DEF Inboxes

\* A step that leaves the connection alone while nobody waits on it.
LEMMA QuietStays ==
  ASSUME ValkeyInv, UNCHANGED valkey, d.at # "valkey", d'.at # "valkey"
  PROVE  ValkeyInv'
BY Zenon DEF ValkeyInv, Connection, valkey

\* A step that leaves the connection and the daemon alone.
LEMMA ConnectionStays ==
  ASSUME ValkeyInv, UNCHANGED valkey, d' = d
  PROVE  ValkeyInv'
BY DEF ValkeyInv, Connection, Command, valkey

\* reply() writes a verdict.
LEMMA ReplyTypes ==
  ASSUME cl \in [Clients -> ClientStates], NEW k, NEW status \in {"ok", "error", "through"},
         reply(k, status)
  PROVE  cl' \in [Clients -> ClientStates]
<1>1. ASSUME NEW c \in Clients PROVE [cl[c] EXCEPT !.verdict = status] \in ClientStates
  <2>1. cl[c] \in ClientStates
    BY Zenon
  <2>2. QED
    BY Zenon, <2>1 DEF ClientStates
<1>2. QED
  BY Zenon, <1>1 DEF reply

-----------------------------------------------------------------------------
(* The steps.                                                              *)

\* The top of the freelist is a pipe, and so is every other entry.
LEMMA TopIsPipe ==
  ASSUME free \in Seq(Pipes), free # << >>
  PROVE  free[Len(free)] \in Pipes /\ SubSeq(free, 1, Len(free) - 1) \in Seq(Pipes)
OBVIOUS

\* askLookup() puts a whole request on a pipe.
LEMMA AskKeeps ==
  ASSUME LoopInv, NEW c \in Clients, Ask(c)
  PROVE  LoopInv'
<1> DEFINE k == free[Len(free)]
<1>1. k \in Pipes /\ free' \in Seq(Pipes) /\ posts \in 0 .. MaxPosts /\ posts' \in 0 .. MaxPosts
  <2>1. free # << >> /\ free \in Seq(Pipes) /\ free' = SubSeq(free, 1, Len(free) - 1)
    BY Zenon DEF LoopInv, PipeInv, Ask
  <2>2. posts \in 0 .. MaxPosts /\ posts < MaxPosts /\ posts' = posts + 1
    BY Zenon DEF LoopInv, PipeInv, Ask
  <2>3. QED
    BY <2>1, <2>2, TopIsPipe, BoundsAssumption
<1>2. /\ cl' = [cl EXCEPT ![c] = [on |-> k, verdict |-> Nil]]
      /\ pipe' = [pipe EXCEPT ![k] = Append(pipe[k], <<"L", posts>>)]
      /\ UNCHANGED <<d, control, valkey, short, misread, mute, breaks>>
  BY Zenon DEF Ask
<1> HIDE DEF k
<1>3. cl' \in [Clients -> ClientStates]
  <2>1. [on |-> k, verdict |-> Nil] \in ClientStates
    BY Zenon, <1>1 DEF ClientStates
  <2>2. QED
    BY Zenon, <1>2, <2>1 DEF LoopInv, PipeInv
<1>4. pipe[k] \in Seq(Bytes) /\ <<"L", posts>> \in Bytes
  BY Zenon, <1>1 DEF LoopInv, PipeInv, Bytes
<1>5. Append(pipe[k], <<"L", posts>>) \in Seq(Bytes)
  BY <1>4
<1>6. pipe' \in [Pipes -> Seq(Bytes)]
  BY Zenon, <1>2, <1>5 DEF LoopInv, PipeInv
<1>7. Inboxes'
  <2>1. \A q \in Pipes : Owed(q)' = Owed(q) /\ Owed(q) \in {0, 1, 2}
    BY <1>2, DaemonTypes DEF Owed, LoopInv
  <2>2. ASSUME d.at # "dead", NEW q \in Pipes \ short PROVE Framed(pipe'[q], Owed(q)')
    <3>1. Framed(pipe[q], Owed(q))
      BY Zenon, <2>2 DEF LoopInv, PipeInv, Inboxes
    <3>2. CASE q = k
      <4>1. Framed(Append(pipe[k], <<"L", posts>>), Owed(k))
        BY Zenon, <1>1, <1>4, <2>1, <3>1, <3>2, FramedAsk
      <4>2. pipe'[k] = Append(pipe[k], <<"L", posts>>)
        BY Zenon, <1>1, <1>2 DEF LoopInv, PipeInv
      <4>3. QED
        BY Zenon, <2>1, <3>2, <4>1, <4>2
    <3>3. CASE q # k
      <4>1. pipe'[q] = pipe[q]
        BY Zenon, <1>2, <3>3 DEF LoopInv, PipeInv
      <4>2. QED
        BY Zenon, <2>1, <3>1, <4>1
    <3>4. QED
      BY Zenon, <3>2, <3>3
  <2>3. QED
    BY Zenon, <1>2, <2>2 DEF Inboxes
<1>8. ValkeyInv'
  BY Zenon, <1>2, ConnectionStays DEF LoopInv
<1>9. QED
  BY Zenon, <1>1, <1>2, <1>3, <1>6, <1>7, <1>8 DEF LoopInv, PipeInv, control

\* askStore() puts a whole request on a pipe, or the pipe is known to have a part of one.
LEMMA PostStoreKeeps ==
  ASSUME LoopInv, NEW c \in Clients, PostStore(c)
  PROVE  LoopInv'
<1> DEFINE k == free[Len(free)]
<1>1. k \in Pipes /\ posts \in 0 .. MaxPosts /\ posts' \in 0 .. MaxPosts
  <2>1. free # << >> /\ free \in Seq(Pipes)
    BY Zenon DEF LoopInv, PipeInv, PostStore
  <2>2. posts \in 0 .. MaxPosts /\ posts < MaxPosts /\ posts' = posts + 1
    BY Zenon DEF LoopInv, PipeInv, PostStore
  <2>3. QED
    BY <2>1, <2>2, TopIsPipe, BoundsAssumption
<1>2. PICK n \in 1 .. 3 :
        /\ pipe' = [pipe EXCEPT ![k] = pipe[k] \o SubSeq(StoreBytes(posts), 1, n)]
        /\ short' = IF n < 3 THEN short \cup {k} ELSE short
  BY Zenon DEF PostStore
<1>3. UNCHANGED <<free, cl, d, control, valkey, misread, mute, breaks>>
  BY Zenon DEF PostStore
<1> HIDE DEF k
<1>4. /\ StoreBytes(posts) \in Seq(Bytes) /\ SubSeq(StoreBytes(posts), 1, n) \in Seq(Bytes)
      /\ n = 3 => SubSeq(StoreBytes(posts), 1, n) = StoreBytes(posts)
  <2>1. StoreBytes(posts) \in Seq(Bytes) /\ Len(StoreBytes(posts)) = 3
    BY <1>1 DEF StoreBytes, Bytes
  <2>2. QED
    BY <2>1
<1>5. pipe[k] \in Seq(Bytes)
  BY Zenon, <1>1 DEF LoopInv, PipeInv
<1>6. pipe[k] \o SubSeq(StoreBytes(posts), 1, n) \in Seq(Bytes)
  BY <1>4, <1>5
<1>7. pipe' \in [Pipes -> Seq(Bytes)]
  BY Zenon, <1>2, <1>6 DEF LoopInv, PipeInv
<1>8. Inboxes'
  <2>1. \A q \in Pipes : Owed(q)' = Owed(q) /\ Owed(q) \in {0, 1, 2}
    BY <1>3, DaemonTypes DEF Owed, LoopInv
  <2>2. ASSUME d.at # "dead", NEW q \in Pipes \ short' PROVE Framed(pipe'[q], Owed(q)')
    <3>1. Framed(pipe[q], Owed(q))
      BY Zenon, <1>2, <2>2 DEF LoopInv, PipeInv, Inboxes
    <3>2. CASE q = k
      <4>1. n = 3
        BY <1>2, <2>2, <3>2
      <4>2. Framed(pipe[k] \o StoreBytes(posts), Owed(k))
        BY Zenon, <1>1, <1>5, <2>1, <3>1, <3>2, FramedStore
      <4>3. pipe'[k] = pipe[k] \o StoreBytes(posts)
        BY Zenon, <1>1, <1>2, <1>4, <4>1 DEF LoopInv, PipeInv
      <4>4. QED
        BY Zenon, <2>1, <3>2, <4>2, <4>3
    <3>3. CASE q # k
      <4>1. pipe'[q] = pipe[q]
        BY Zenon, <1>2, <3>3 DEF LoopInv, PipeInv
      <4>2. QED
        BY Zenon, <2>1, <3>1, <4>1
    <3>4. QED
      BY Zenon, <3>2, <3>3
  <2>3. QED
    BY Zenon, <1>3, <2>2 DEF Inboxes
<1>9. ValkeyInv'
  BY Zenon, <1>3, ConnectionStays DEF LoopInv
<1>10. misread' \subseteq short'
  BY Zenon, <1>2, <1>3 DEF LoopInv, PipeInv
<1>11. QED
  BY Zenon, <1>1, <1>3, <1>7, <1>8, <1>9, <1>10 DEF LoopInv, PipeInv, control

\* A pipe goes back on the freelist.
LEMMA GiveBackKeeps ==
  ASSUME LoopInv, NEW c \in Clients, Waits(c), GiveBack(c)
  PROVE  LoopInv'
<1>1. cl[c] \in ClientStates
  BY Zenon DEF LoopInv, PipeInv
<1>2. cl[c].on \in Pipes
  BY Zenon, <1>1 DEF Waits, ClientStates
<1>3. free' \in Seq(Pipes)
  BY <1>2 DEF LoopInv, PipeInv, GiveBack
<1>4. cl' \in [Clients -> ClientStates]
  <2>1. [on |-> Nil, verdict |-> Nil] \in ClientStates
    BY Zenon DEF ClientStates
  <2>2. QED
    BY Zenon, <2>1 DEF LoopInv, PipeInv, GiveBack
<1>5. UNCHANGED <<pipe, d, control, valkey, short, misread, mute, posts, breaks>>
  BY Zenon DEF GiveBack
<1>6. Inboxes'
  <2>1. \A k \in Pipes : Owed(k)' = Owed(k)
    BY Zenon, <1>5 DEF Owed
  <2>2. QED
    BY Zenon, <1>5, <2>1, InboxesStay DEF LoopInv, PipeInv
<1>7. ValkeyInv'
  BY Zenon, <1>5, ConnectionStays DEF LoopInv
<1>8. QED
  BY Zenon, <1>3, <1>4, <1>5, <1>6, <1>7 DEF LoopInv, PipeInv, control

\* sendCommand(): the connection was quiet, and what is under way now is this command.
LEMMA SendKeeps ==
  ASSUME ValkeyInv, d.at # "valkey", NEW cmd \in {"get", "setex", "dbsize"},
         NEW k \in Pipes \cup {Nil}, NEW id \in Nat, Send(cmd, k, id)
  PROVE  ValkeyInv' /\ d' \in DaemonStates /\ d'.at = "valkey"
<1>1. /\ d' = [at |-> "valkey", cmd |-> cmd, pipe |-> k, id |-> id]
      /\ fd' = TRUE /\ up' = (up \/ ~fd)
      /\ job' = (IF up \/ ~fd THEN [cmd |-> cmd, id |-> id] ELSE Nil)
      /\ out' = << >> /\ inbuf' = << >> /\ ~crossed'
  BY Zenon DEF Send, ValkeyInv, Connection
<1>2. d' \in DaemonStates /\ d'.at = "valkey" /\ d'.cmd = cmd /\ d'.id = id
  BY <1>1 DEF DaemonStates
<1>3. /\ out' \in Seq(Messages) /\ inbuf' \in Seq(Messages) /\ Len(inbuf') = 0 /\ Len(out') = 0
      /\ \A n \in {2, 3} : Len(inbuf') < n /\ Len(inbuf') + Len(out') <= n
      /\ \A i \in 1 .. 0 : FALSE
  BY <1>1
<1>4. Connection'
  <2>1. Pieces("nil") \in {2, 3} /\ "nil" \in Words
    BY DEF Pieces, Words
  <2>2. job' # Nil => job' = Command'
    BY Zenon, <1>1, <1>2 DEF Command
  <2>3. \E w \in Words :
          /\ Len(inbuf') < Pieces(w) /\ Len(inbuf') + Len(out') <= Pieces(w)
          /\ \A i \in 1 .. Len(inbuf') : inbuf'[i] = [says |-> w, job |-> Command']
          /\ \A i \in 1 .. Len(out') : out'[i] = [says |-> w, job |-> Command']
    BY Zenon, <1>3, <2>1
  <2>4. QED
    BY Zenon, <1>1, <1>2, <2>2, <2>3 DEF Connection
<1>5. QED
  BY Zenon, <1>1, <1>2, <1>3, <1>4 DEF ValkeyInv

\* A pipe loses its first piece: the others keep their framing.
LEMMA PipeShrinks ==
  ASSUME LoopInv, d.at # "dead", NEW k \in Pipes, pipe[k] # << >>,
         pipe' = [pipe EXCEPT ![k] = Tail(@)], short' = short,
         \A q \in Pipes \ {k} : Owed(q)' = Owed(q),
         k \notin short => Framed(Tail(pipe[k]), Owed(k)')
  PROVE  pipe' \in [Pipes -> Seq(Bytes)] /\ Inboxes'
<1>1. Tail(pipe[k]) \in Seq(Bytes)
  BY DEF LoopInv, PipeInv
<1>2. pipe' \in [Pipes -> Seq(Bytes)]
  BY Zenon, <1>1 DEF LoopInv, PipeInv
<1>3. pipe'[k] = Tail(pipe[k]) /\ \A q \in Pipes \ {k} : pipe'[q] = pipe[q]
  BY Zenon DEF LoopInv, PipeInv
<1>4. ASSUME NEW q \in Pipes \ short PROVE Framed(pipe'[q], Owed(q)')
  <2>1. CASE q = k
    BY Zenon, <1>3, <1>4, <2>1
  <2>2. CASE q # k
    BY Zenon, <1>3, <1>4, <2>2 DEF LoopInv, PipeInv, Inboxes
  <2>3. QED
    BY Zenon, <2>1, <2>2
<1>5. QED
  BY Zenon, <1>2, <1>4 DEF Inboxes

\* serve() takes a header, unless the pipe has a part of a STORE on it.
LEMMA ServeKeeps ==
  ASSUME LoopInv, NEW k \in Pipes, Serve(k)
  PROVE  LoopInv'
<1> DEFINE h == Head(pipe[k])
<1>1. /\ d = Loop /\ pipe[k] # << >> /\ pipe' = [pipe EXCEPT ![k] = Tail(@)]
      /\ misread' = IF h[1] \in {"B1", "B2"} THEN misread \cup {k} ELSE misread
      /\ UNCHANGED <<free, control, short, mute, posts, breaks>>
  BY Zenon DEF Serve
<1>2. \/ h[1] # "S" /\ Lookup(k, h[2])
      \/ h[1] = "S" /\ d' = Body(k, 2) /\ UNCHANGED <<cl, valkey>>
      \/ h[1] \in {"B1", "B2"} /\ d' \in {Loop, Body(k, 1), Body(k, 2)} /\ UNCHANGED <<cl, valkey>>
  BY Zenon DEF Serve
<1>3. pipe[k] \in Seq(Bytes) /\ h \in Bytes
  <2>1. pipe[k] \in Seq(Bytes)
    BY Zenon DEF LoopInv, PipeInv
  <2>2. QED
    BY <1>1, <2>1
<1>4. h[2] \in Nat
  BY <1>3, BoundsAssumption DEF Bytes
<1>5. d.at = "loop" /\ \A q \in Pipes : Owed(q) = 0
  BY Zenon, <1>1, DaemonTypes DEF LoopInv, Owed
<1>6. k \notin short => /\ h[1] \notin {"B1", "B2"}
                        /\ h[1] = "S" => Framed(Tail(pipe[k]), 2)
                        /\ h[1] # "S" => Framed(Tail(pipe[k]), 0)
  <2>1. k \notin short => Framed(pipe[k], 0)
    BY Zenon, <1>5 DEF LoopInv, PipeInv, Inboxes
  <2>2. QED
    BY Zenon, <1>1, <1>3, <2>1, FramedTail
<1> HIDE DEF h
<1>7. misread' \subseteq short
  BY Zenon, <1>1, <1>6 DEF LoopInv, PipeInv
<1>8. CASE h[1] # "S" /\ Lookup(k, h[2])
  <2>1. ASSUME d' = Loop, UNCHANGED valkey PROVE ValkeyInv' /\ d' \in DaemonStates /\ d'.at = "loop"
    <3>1. d' \in DaemonStates /\ d'.at = "loop"
      BY <2>1 DEF DaemonStates, Loop
    <3>2. QED
      BY Zenon, <1>5, <2>1, <3>1, QuietStays DEF LoopInv
  <2>2. ASSUME Send("get", k, h[2]) PROVE ValkeyInv' /\ d' \in DaemonStates /\ d'.at = "valkey"
    BY Zenon, <1>4, <1>5, <2>2, SendKeeps DEF LoopInv
  <2>3. ValkeyInv' /\ d' \in DaemonStates /\ d'.at # "body" /\ d'.at # "dead"
    BY Zenon, <1>8, <2>1, <2>2 DEF Lookup
  <2>4. cl' \in [Clients -> ClientStates]
    BY Zenon, <1>8, ReplyTypes DEF Lookup, LoopInv, PipeInv
  <2>5. \A q \in Pipes : Owed(q)' = 0
    BY Zenon, <2>3 DEF Owed
  <2>6. pipe' \in [Pipes -> Seq(Bytes)] /\ Inboxes'
    BY Zenon, <1>1, <1>5, <1>6, <1>8, <2>5, PipeShrinks
  <2>7. QED
    BY Zenon, <1>1, <1>7, <2>3, <2>4, <2>6 DEF LoopInv, PipeInv, control
<1>9. ASSUME NEW n \in {1, 2}, d' = Body(k, n), UNCHANGED <<cl, valkey>>,
             k \notin short => h[1] = "S" /\ n = 2
      PROVE  LoopInv'
  <2>1. d' \in DaemonStates /\ d'.at = "body" /\ d'.pipe = k /\ d'.need = n
    <3>1. << >> \in Seq(Bytes)
      OBVIOUS
    <3>2. QED
      BY <1>9, <3>1 DEF DaemonStates, Body
  <2>2. ValkeyInv'
    BY Zenon, <1>5, <1>9, <2>1, QuietStays DEF LoopInv
  <2>3. Owed(k)' = n /\ \A q \in Pipes \ {k} : Owed(q)' = 0
    BY Zenon, <2>1 DEF Owed
  <2>4. pipe' \in [Pipes -> Seq(Bytes)] /\ Inboxes'
    BY Zenon, <1>1, <1>5, <1>6, <1>9, <2>3, PipeShrinks
  <2>5. QED
    BY Zenon, <1>1, <1>7, <1>9, <2>1, <2>2, <2>4 DEF LoopInv, PipeInv, control
<1>10. ASSUME h[1] \in {"B1", "B2"}, d' = Loop, UNCHANGED <<cl, valkey>> PROVE LoopInv'
  <2>1. d' \in DaemonStates /\ d'.at = "loop"
    BY <1>10 DEF DaemonStates, Loop
  <2>2. ValkeyInv'
    BY Zenon, <1>5, <1>10, <2>1, QuietStays DEF LoopInv
  <2>3. \A q \in Pipes : Owed(q)' = 0
    BY Zenon, <2>1 DEF Owed
  <2>4. pipe' \in [Pipes -> Seq(Bytes)] /\ Inboxes'
    BY Zenon, <1>1, <1>5, <1>6, <1>10, <2>3, PipeShrinks
  <2>5. QED
    BY Zenon, <1>1, <1>7, <1>10, <2>1, <2>2, <2>4 DEF LoopInv, PipeInv, control
<1>11. QED
  BY Zenon, <1>2, <1>6, <1>8, <1>9, <1>10

\* readExactly() takes a piece of a body, and store() what has become whole.
LEMMA ReadBodyKeeps ==
  ASSUME LoopInv, ReadBody
  PROVE  LoopInv'
<1>1. /\ d.at = "body"
      /\ d \in [at : {"body"}, pipe : Pipes, need : {1, 2}, got : Seq(Bytes)]
      /\ d.pipe \in Pipes /\ d.need \in {1, 2} /\ d.got \in Seq(Bytes)
  BY Zenon, DaemonTypes DEF LoopInv, ReadBody
<1>2. PICK k \in Pipes : k = d.pipe
  BY Zenon, <1>1
<1> DEFINE body == Append(d.got, Head(pipe[k]))
<1>3. /\ pipe[k] # << >> /\ pipe' = [pipe EXCEPT ![k] = Tail(@)]
      /\ UNCHANGED <<free, cl, control, short, misread, mute, posts, breaks>>
      /\ \/ d.need > 1 /\ d' = [d EXCEPT !.need = @ - 1, !.got = body] /\ UNCHANGED valkey
         \/ d.need = 1 /\ Whole(body) /\ Send("setex", k, body[1][2])
         \/ d.need = 1 /\ (~Whole(body) \/ ~fd) /\ d' = Loop /\ UNCHANGED valkey
  BY Zenon, <1>2 DEF ReadBody
<1>4. pipe[k] \in Seq(Bytes)
  BY Zenon DEF LoopInv, PipeInv
<1>5. body \in Seq(Bytes)
  BY <1>1, <1>3, <1>4
<1>6. /\ Owed(k) = d.need /\ \A q \in Pipes \ {k} : Owed(q) = 0
      /\ k \notin short => /\ d.need = 2 => Framed(Tail(pipe[k]), 1)
                           /\ d.need = 1 => Framed(Tail(pipe[k]), 0)
  <2>1. Owed(k) = d.need /\ \A q \in Pipes \ {k} : Owed(q) = 0
    BY Zenon, <1>1, <1>2 DEF Owed
  <2>2. k \notin short => Framed(pipe[k], d.need)
    BY Zenon, <1>1, <2>1 DEF LoopInv, PipeInv, Inboxes
  <2>3. QED
    BY <1>1, <1>3, <1>4, <2>1, <2>2, FramedTail
<1>7. ASSUME ValkeyInv', d' \in DaemonStates, d'.at \in {"loop", "valkey"}, d.need = 1
      PROVE  LoopInv'
  <2>1. \A q \in Pipes : Owed(q)' = 0
    BY Zenon, <1>7 DEF Owed
  <2>2. pipe' \in [Pipes -> Seq(Bytes)] /\ Inboxes'
    BY Zenon, <1>1, <1>3, <1>6, <1>7, <2>1, PipeShrinks
  <2>3. QED
    BY Zenon, <1>3, <1>7, <2>2 DEF LoopInv, PipeInv, control
<1> HIDE DEF body
<1>8. CASE d.need > 1 /\ d' = [d EXCEPT !.need = @ - 1, !.got = body] /\ UNCHANGED valkey
  <2>1. d.need = 2 /\ d.need - 1 = 1
    BY <1>1, <1>8
  <2>2. /\ d' \in [at : {"body"}, pipe : Pipes, need : {1, 2}, got : Seq(Bytes)]
        /\ d'.at = "body" /\ d'.pipe = k /\ d'.need = 1
    BY <1>1, <1>2, <1>5, <1>8, <2>1
  <2>3. d' \in DaemonStates
    BY Zenon, <2>2 DEF DaemonStates
  <2>4. ValkeyInv'
    BY Zenon, <1>1, <1>8, <2>2, QuietStays DEF LoopInv
  <2>5. Owed(k)' = 1 /\ \A q \in Pipes \ {k} : Owed(q)' = 0
    BY Zenon, <2>2 DEF Owed
  <2>6. pipe' \in [Pipes -> Seq(Bytes)] /\ Inboxes'
    BY Zenon, <1>1, <1>3, <1>6, <2>1, <2>5, PipeShrinks
  <2>7. QED
    BY Zenon, <1>3, <2>3, <2>4, <2>6 DEF LoopInv, PipeInv, control
<1>9. CASE d.need = 1 /\ Whole(body) /\ Send("setex", k, body[1][2])
  <2>1. PICK id \in 0 .. MaxPosts : body = Tail(StoreBytes(id))
    BY Zenon, <1>9 DEF Whole
  <2>2. body[1][2] \in Nat
    BY <2>1, BoundsAssumption DEF StoreBytes
  <2>3. ValkeyInv' /\ d' \in DaemonStates /\ d'.at = "valkey"
    BY Zenon, <1>1, <1>3, <1>9, <2>2, SendKeeps DEF LoopInv
  <2>4. QED
    BY Zenon, <1>7, <1>9, <2>3
<1>10. CASE d.need = 1 /\ d' = Loop /\ UNCHANGED valkey
  <2>1. d' \in DaemonStates /\ d'.at = "loop"
    BY <1>10 DEF DaemonStates, Loop
  <2>2. ValkeyInv'
    BY Zenon, <1>1, <1>10, <2>1, QuietStays DEF LoopInv
  <2>3. QED
    BY Zenon, <1>7, <1>10, <2>1, <2>2
<1>11. QED
  BY Zenon, <1>3, <1>8, <1>9, <1>10

\* The connection after disconnect(), whatever was under way.
LEMMA DisconnectKeeps ==
  ASSUME ValkeyInv, disconnect, d'.at # "valkey", ~crossed'
  PROVE  ValkeyInv'
<1>1. << >> \in Seq(Messages)
  OBVIOUS
<1>2. QED
  BY Zenon, <1>1 DEF ValkeyInv, Connection, disconnect

\* The daemon goes back to its loop from a wait for Valkey.
LEMMA DoneKeeps ==
  ASSUME LoopInv, d.at = "valkey", NEW says, Done(says), ValkeyInv',
         UNCHANGED <<pipe, free, control, short, misread, mute, posts, breaks>>
  PROVE  LoopInv'
<1>1. d' = Loop /\ d' \in DaemonStates /\ d'.at = "loop"
  BY DEF Done, DaemonStates, Loop
<1>2. cl' \in [Clients -> ClientStates]
  BY Zenon, ReplyTypes DEF Done, LoopInv, PipeInv
<1>3. Inboxes'
  <2>1. d.at # "dead" /\ \A k \in Pipes : Owed(k)' = Owed(k)
    BY Zenon, <1>1 DEF Owed
  <2>2. QED
    BY Zenon, <2>1, InboxesStay DEF LoopInv, PipeInv
<1>4. QED
  BY Zenon, <1>1, <1>2, <1>3 DEF LoopInv, PipeInv, control

\* readLine() and readExactly() take a piece of the one reply that is under way.
LEMMA ReadReplyKeeps ==
  ASSUME LoopInv, ReadReply
  PROVE  LoopInv'
<1> DEFINE buf == Append(inbuf, Head(out))
           says == buf[1].says
           want == IF says = "value" THEN 3 ELSE 2
<1>1. d.at = "valkey" /\ out # << >> /\ job = Nil /\ ~crossed
  BY Zenon DEF ReadReply, LoopInv, ValkeyInv, Connection
<1>2. UNCHANGED <<pipe, free, control, short, misread, mute, posts, breaks>>
  BY Zenon DEF ReadReply
<1>3. \/ /\ Len(buf) < want
         /\ inbuf' = buf /\ out' = Tail(out)
         /\ UNCHANGED <<d, cl, fd, up, job, crossed>>
      \/ /\ Len(buf) >= want
         /\ IF says = "odd" /\ d.cmd = "get" THEN disconnect
              ELSE /\ inbuf' = SubSeq(buf, want + 1, Len(buf)) /\ out' = Tail(out)
                   /\ UNCHANGED <<fd, up, job>>
         /\ crossed' = (crossed \/ \E i \in 1 .. want : buf[i].job # Command)
         /\ Done(says)
  BY Zenon DEF ReadReply, Command
<1>4. PICK w \in Words :
        /\ Len(inbuf) < Pieces(w) /\ Len(inbuf) + Len(out) <= Pieces(w)
        /\ \A i \in 1 .. Len(inbuf) : inbuf[i] = [says |-> w, job |-> Command]
        /\ \A i \in 1 .. Len(out) : out[i] = [says |-> w, job |-> Command]
  BY Zenon, <1>1 DEF LoopInv, ValkeyInv, Connection
<1> DEFINE m == [says |-> w, job |-> Command]
<1>5. inbuf \in Seq(Messages) /\ out \in Seq(Messages) /\ fd \in BOOLEAN /\ up \in BOOLEAN /\ (up => fd)
  BY Zenon DEF LoopInv, ValkeyInv
<1>6. m.says = w /\ m.job = Command
  OBVIOUS
<1> HIDE DEF m
<1>7. /\ buf \in Seq(Messages) /\ Len(buf) = Len(inbuf) + 1 /\ Len(inbuf) \in Nat
      /\ Tail(out) \in Seq(Messages) /\ Len(out) \in Nat /\ Len(out) >= 1
      /\ Len(Tail(out)) = Len(out) - 1
      /\ \A i \in 1 .. Len(Tail(out)) : Tail(out)[i] = out[i + 1] /\ i + 1 \in 1 .. Len(out)
  BY <1>1, <1>5
<1>8. /\ \A i \in 1 .. Len(buf) : buf[i] = m
      /\ \A i \in 1 .. Len(Tail(out)) : Tail(out)[i] = m
  <2>1. Head(out) = m
    BY <1>1, <1>4, <1>5 DEF m
  <2>2. \A i \in 1 .. Len(inbuf) : inbuf[i] = m
    BY Zenon, <1>4 DEF m
  <2>3. \A i \in 1 .. Len(Tail(out)) : Tail(out)[i] = m
    BY Zenon, <1>4, <1>7 DEF m
  <2>4. QED
    BY <1>5, <2>1, <2>2, <2>3
<1>9. says = w /\ want = Pieces(w) /\ want \in {2, 3}
  BY <1>6, <1>7, <1>8 DEF Pieces
<1> HIDE DEF buf, says, want
<1>10. CASE /\ Len(buf) < want
            /\ inbuf' = buf /\ out' = Tail(out)
            /\ UNCHANGED <<d, cl, fd, up, job, crossed>>
  <2>1. Len(inbuf') < Pieces(w) /\ Len(inbuf') + Len(out') <= Pieces(w)
    BY <1>4, <1>7, <1>9, <1>10
  <2>2. /\ \A i \in 1 .. Len(inbuf') : inbuf'[i] = [says |-> w, job |-> Command']
        /\ \A i \in 1 .. Len(out') : out'[i] = [says |-> w, job |-> Command']
    BY Zenon, <1>8, <1>10 DEF m, Command
  <2>3. Connection'
    BY Zenon, <1>1, <1>10, <2>1, <2>2 DEF Connection
  <2>4. ValkeyInv'
    BY Zenon, <1>1, <1>5, <1>7, <1>10, <2>3 DEF ValkeyInv
  <2>5. Inboxes'
    <3>1. \A k \in Pipes : Owed(k)' = Owed(k)
      BY Zenon, <1>10 DEF Owed
    <3>2. QED
      BY Zenon, <1>1, <1>2, <3>1, InboxesStay DEF LoopInv, PipeInv
  <2>6. QED
    BY Zenon, <1>2, <1>10, <2>4, <2>5 DEF LoopInv, PipeInv, control
<1>11. CASE /\ Len(buf) >= want
            /\ IF says = "odd" /\ d.cmd = "get" THEN disconnect
                 ELSE /\ inbuf' = SubSeq(buf, want + 1, Len(buf)) /\ out' = Tail(out)
                      /\ UNCHANGED <<fd, up, job>>
            /\ crossed' = (crossed \/ \E i \in 1 .. want : buf[i].job # Command)
            /\ Done(says)
  <2>1. Len(buf) = want /\ Len(out) = 1
    BY <1>4, <1>7, <1>9, <1>11
  <2>2. ~crossed'
    BY Zenon, <1>1, <1>6, <1>8, <1>11, <2>1
  <2>3. d'.at # "valkey"
    BY <1>11 DEF Done, Loop
  <2>4. SubSeq(buf, want + 1, Len(buf)) = << >> /\ Tail(out) = << >> /\ << >> \in Seq(Messages)
    BY <1>5, <1>7, <1>9, <2>1
  <2>5. ValkeyInv'
    <3>1. CASE disconnect
      BY Zenon, <2>2, <2>3, <3>1, DisconnectKeeps DEF LoopInv
    <3>2. CASE inbuf' = << >> /\ out' = << >> /\ UNCHANGED <<fd, up, job>>
      BY Zenon, <1>1, <1>5, <2>2, <2>3, <2>4, <3>2 DEF ValkeyInv, Connection
    <3>3. QED
      BY Zenon, <1>11, <2>4, <3>1, <3>2
  <2>6. QED
    BY Zenon, <1>1, <1>2, <1>11, <2>5, DoneKeeps
<1>12. QED
  BY Zenon, <1>3, <1>10, <1>11

\* The read fails: nothing of the reply is left behind.
LEMMA ReadFailsKeeps ==
  ASSUME LoopInv, ReadFails
  PROVE  LoopInv'
<1>1. d.at = "valkey" /\ disconnect /\ Done("nothing") /\ ~crossed'
  BY Zenon DEF ReadFails, LoopInv, ValkeyInv
<1>2. d'.at # "valkey"
  BY <1>1 DEF Done, Loop
<1>3. ValkeyInv'
  BY Zenon, <1>1, <1>2, DisconnectKeeps DEF LoopInv
<1>4. QED
  BY Zenon, <1>1, <1>3, DoneKeeps DEF ReadFails

\* Valkey's answer is to the command the daemon waits for, and it is one whole reply.
LEMMA ValkeyAnswersKeeps ==
  ASSUME LoopInv, ValkeyAnswers
  PROVE  LoopInv'
<1>1. /\ job # Nil /\ job' = Nil
      /\ UNCHANGED <<pipes, d, control, fd, up, inbuf, crossed, mute, breaks>>
  BY Zenon DEF ValkeyAnswers
<1>2. d.at = "valkey" /\ job = Command /\ inbuf = << >>
  BY Zenon, <1>1 DEF LoopInv, ValkeyInv, Connection
<1>3. PICK w \in Words : out' = Reply(w, Pieces(w))
  BY DEF ValkeyAnswers, Words, Pieces
<1>4. Command \in Commands
  BY <1>2, DaemonTypes DEF LoopInv, Command, Commands
<1>5. Pieces(w) \in {2, 3}
  BY Zenon DEF Pieces
<1>6. [says |-> w, job |-> Command] \in Messages
  BY Zenon, <1>4 DEF Messages
<1>7. /\ out' \in Seq(Messages) /\ Len(out') = Pieces(w)
      /\ \A i \in 1 .. Len(out') : out'[i] = [says |-> w, job |-> Command]
  BY <1>2, <1>3, <1>5, <1>6 DEF Reply
<1>8. Connection'
  <2>1. /\ Len(inbuf') < Pieces(w) /\ Len(inbuf') + Len(out') <= Pieces(w)
        /\ \A i \in 1 .. Len(inbuf') : inbuf'[i] = [says |-> w, job |-> Command']
    BY <1>1, <1>2, <1>5, <1>7
  <2>2. Command' = Command
    BY Zenon, <1>1 DEF Command
  <2>3. QED
    BY Zenon, <1>1, <1>2, <1>7, <2>1, <2>2 DEF Connection
<1>9. ValkeyInv'
  BY Zenon, <1>1, <1>7, <1>8 DEF LoopInv, ValkeyInv
<1>10. Inboxes'
  <2>1. \A k \in Pipes : Owed(k)' = Owed(k)
    BY Zenon, <1>1 DEF Owed
  <2>2. QED
    BY Zenon, <1>1, <2>1, InboxesStay DEF LoopInv, PipeInv, pipes
<1>11. QED
  BY Zenon, <1>1, <1>9, <1>10 DEF LoopInv, PipeInv, control, pipes

\* The connection ends in the middle of a reply: what is left of it is a part of it.
LEMMA ValkeyClosesKeeps ==
  ASSUME LoopInv, ValkeyCloses
  PROVE  LoopInv'
<1>1. /\ up' = FALSE /\ job' = Nil /\ fd' = fd /\ crossed' = crossed /\ inbuf' = inbuf
      /\ UNCHANGED <<pipes, d, control, mute>>
  BY Zenon DEF ValkeyCloses
<1>2. PICK n \in 0 .. Len(out) : out' = SubSeq(out, 1, n)
  BY Zenon DEF ValkeyCloses
<1>3. out \in Seq(Messages) /\ inbuf \in Seq(Messages) /\ fd \in BOOLEAN /\ ~crossed
  BY Zenon DEF LoopInv, ValkeyInv
<1>4. /\ out' \in Seq(Messages) /\ Len(out') = n /\ n <= Len(out) /\ Len(out) \in Nat /\ n \in Nat
      /\ \A i \in 1 .. Len(out') : out'[i] = out[i] /\ i \in 1 .. Len(out)
      /\ out = << >> => out' = << >>
  BY <1>2, <1>3
<1>5. Command' = Command
  BY Zenon, <1>1 DEF Command
<1>6. Connection'
  <2>1. CASE d.at # "valkey"
    BY Zenon, <1>1, <1>4, <2>1 DEF LoopInv, ValkeyInv, Connection
  <2>2. CASE d.at = "valkey"
    <3>1. PICK w \in Words :
            /\ Len(inbuf) < Pieces(w) /\ Len(inbuf) + Len(out) <= Pieces(w)
            /\ \A i \in 1 .. Len(inbuf) : inbuf[i] = [says |-> w, job |-> Command]
            /\ \A i \in 1 .. Len(out) : out[i] = [says |-> w, job |-> Command]
      BY Zenon, <2>2 DEF LoopInv, ValkeyInv, Connection
    <3>2. Len(inbuf) + Len(out') <= Pieces(w)
      <4>1. Pieces(w) \in Nat
        BY DEF Pieces
      <4>2. QED
        BY <1>3, <1>4, <3>1, <4>1
    <3>3. \A i \in 1 .. Len(out') : out'[i] = [says |-> w, job |-> Command]
      BY Zenon, <1>4, <3>1
    <3>4. QED
      BY Zenon, <1>1, <1>5, <2>2, <3>1, <3>2, <3>3 DEF Connection
  <2>3. QED
    BY Zenon, <2>1, <2>2
<1>7. ValkeyInv'
  BY Zenon, <1>1, <1>3, <1>4, <1>6 DEF ValkeyInv
<1>8. Inboxes'
  <2>1. \A k \in Pipes : Owed(k)' = Owed(k)
    BY Zenon, <1>1 DEF Owed
  <2>2. QED
    BY Zenon, <1>1, <2>1, InboxesStay DEF LoopInv, PipeInv, pipes
<1>9. QED
  BY Zenon, <1>1, <1>7, <1>8 DEF LoopInv, PipeInv, control, pipes

\* control() runs while nothing is under way.
LEMMA ControlKeeps ==
  ASSUME LoopInv, Control
  PROVE  LoopInv'
<1>1. d = Loop /\ d.at = "loop"
  BY DaemonTypes DEF Control, LoopInv
<1>2. UNCHANGED pipes /\ calls' = calls /\ calls \in Nat
  BY Zenon DEF Control, LoopInv
<1>3. ASSUME d' \in DaemonStates, d'.at \in {"loop", "valkey", "control"}, ValkeyInv', peer' \in {Nil, "barnacle", "silent"}
      PROVE  LoopInv'
  <2>1. \A k \in Pipes : Owed(k)' = Owed(k)
    BY <1>1, <1>3 DEF Owed
  <2>2. Inboxes'
    BY Zenon, <1>1, <1>2, <2>1, InboxesStay DEF LoopInv, PipeInv, pipes, Loop
  <2>3. QED
    BY Zenon, <1>2, <1>3, <2>2 DEF LoopInv, PipeInv, pipes
<1>4. \/ peer' = Nil /\ Send("dbsize", Nil, MaxPosts + calls)
      \/ peer' = Nil /\ d' = Loop /\ UNCHANGED valkey
      \/ d' = [at |-> "control"] /\ UNCHANGED <<peer, valkey>>
  BY Zenon DEF Control
<1>5. CASE peer' = Nil /\ Send("dbsize", Nil, MaxPosts + calls)
  <2>1. MaxPosts + calls \in Nat
    BY <1>2, BoundsAssumption
  <2>2. ValkeyInv' /\ d' \in DaemonStates /\ d'.at = "valkey"
    BY <1>1, <1>5, <2>1, SendKeeps DEF LoopInv
  <2>3. QED
    BY Zenon, <1>3, <1>5, <2>2
<1>6. CASE peer' = Nil /\ d' = Loop /\ UNCHANGED valkey
  <2>1. d' \in DaemonStates /\ d'.at = "loop"
    BY <1>6 DEF DaemonStates, Loop
  <2>2. d.at # "valkey" /\ d'.at # "valkey"
    BY <1>1, <2>1
  <2>3. QED
    BY Zenon, <1>3, <1>6, <2>1, <2>2, QuietStays DEF LoopInv
<1>7. CASE d' = [at |-> "control"] /\ UNCHANGED <<peer, valkey>>
  <2>1. d' \in DaemonStates /\ d'.at = "control"
    BY <1>7 DEF DaemonStates
  <2>2. d.at # "valkey" /\ d'.at # "valkey"
    BY <1>1, <2>1
  <2>3. QED
    BY Zenon, <1>3, <1>7, <2>1, <2>2, QuietStays DEF LoopInv
<1>8. QED
  BY Zenon, <1>4, <1>5, <1>6, <1>7

\* What happens outside the loop and the pipes: a hung Valkey, a caller.
LEMMA OutsideKeeps ==
  ASSUME LoopInv, UNCHANGED <<pipes, d, valkey>>,
         peer' \in {Nil, "barnacle", "silent"}, calls' \in Nat
  PROVE  LoopInv'
<1>1. ValkeyInv'
  BY Zenon, ConnectionStays DEF LoopInv
<1>2. \A k \in Pipes : Owed(k)' = Owed(k)
  BY Zenon DEF Owed
<1>3. Inboxes'
  BY Zenon, <1>2, InboxesStay DEF LoopInv, PipeInv, pipes
<1>4. QED
  BY Zenon, <1>1, <1>3 DEF LoopInv, PipeInv, pipes

\* The caller whose command control() waits for goes away.
LEMMA HangUpKeeps ==
  ASSUME LoopInv, HangUp
  PROVE  LoopInv'
<1>1. /\ peer' = Nil /\ UNCHANGED <<pipes, calls, valkey, mute, breaks>>
      /\ d' = IF d.at = "control" THEN Loop ELSE d
  BY Zenon DEF HangUp
<1>2. CASE d.at # "control"
  BY Zenon, <1>1, <1>2, OutsideKeeps DEF LoopInv
<1>3. CASE d.at = "control"
  <2>1. d' \in DaemonStates /\ d'.at = "loop" /\ d.at # "valkey" /\ d'.at # "valkey" /\ d.at # "dead"
    BY <1>1, <1>3 DEF DaemonStates, Loop
  <2>2. \A k \in Pipes : Owed(k)' = Owed(k)
    BY <1>3, <2>1 DEF Owed
  <2>3. Inboxes'
    BY Zenon, <1>1, <2>1, <2>2, InboxesStay DEF LoopInv, PipeInv, pipes
  <2>4. ValkeyInv'
    BY Zenon, <1>1, <2>1, QuietStays DEF LoopInv
  <2>5. QED
    BY Zenon, <1>1, <2>1, <2>3, <2>4 DEF LoopInv, PipeInv, pipes
<1>4. QED
  BY Zenon, <1>2, <1>3

\* A dead daemon reads nothing, and its connection is gone with it.
LEMMA DieKeeps ==
  ASSUME LoopInv, Die
  PROVE  LoopInv'
<1>1. /\ d' = [at |-> "dead"] /\ disconnect
      /\ UNCHANGED <<pipes, control, crossed, mute, breaks>>
  BY Zenon DEF Die, disconnect
<1>2. d' \in DaemonStates /\ d'.at = "dead" /\ d'.at # "valkey"
  BY <1>1 DEF DaemonStates
<1>3. ValkeyInv'
  <2>1. ValkeyInv /\ ~crossed'
    BY Zenon, <1>1 DEF LoopInv, ValkeyInv
  <2>2. QED
    BY Zenon, <1>1, <1>2, <2>1, DisconnectKeeps
<1>4. Inboxes'
  BY Zenon, <1>2 DEF Inboxes
<1>5. QED
  BY Zenon, <1>1, <1>2, <1>3, <1>4 DEF LoopInv, PipeInv, pipes, control

\* The freelist the daemon starts with holds pipes.
LEMMA FreelistTypes ==
  ASSUME Init
  PROVE  free \in Seq(Pipes)
<1>1. Cardinality(Pipes) \in Nat /\ Bijection(1 .. Cardinality(Pipes), Pipes) # {}
  BY PipesAssumption, FS_CardinalityType DEF ExistsBijection
<1>2. free \in Bijection(1 .. Cardinality(Pipes), Pipes)
  BY <1>1 DEF Init
<1>3. free \in [1 .. Cardinality(Pipes) -> Pipes]
  BY <1>2 DEF Bijection, Injection
<1>4. QED
  BY <1>1, <1>3

\* The daemon starts with empty pipes and a quiet connection.
LEMMA InitKeeps ==
  ASSUME Init
  PROVE  LoopInv
<1>1. /\ d = Loop /\ d \in DaemonStates /\ d.at = "loop" /\ peer = Nil /\ calls \in Nat
      /\ posts \in 0 .. MaxPosts /\ misread \subseteq short
  BY BoundsAssumption DEF Init, DaemonStates, Loop
<1>2. /\ << >> \in Seq(Bytes) /\ << >> \in Seq(Messages) /\ Framed(<< >>, 0)
  BY DEF Framed
<1>3. pipe \in [Pipes -> Seq(Bytes)] /\ free \in Seq(Pipes)
  BY Zenon, <1>2, FreelistTypes DEF Init
<1>4. cl \in [Clients -> ClientStates]
  BY DEF Init, ClientStates
<1>5. Inboxes
  <2>1. \A k \in Pipes : Owed(k) = 0 /\ pipe[k] = << >>
    BY <1>1 DEF Owed, Init
  <2>2. QED
    BY Zenon, <1>2, <2>1 DEF Inboxes
<1>6. ValkeyInv
  <2>1. job = Nil /\ out = << >> /\ inbuf = << >> /\ d.at # "valkey"
    BY <1>1 DEF Init
  <2>2. Connection
    BY Zenon, <2>1 DEF Connection
  <2>3. fd \in BOOLEAN /\ up = fd /\ ~crossed
    BY Zenon DEF Init
  <2>4. QED
    BY Zenon, <1>2, <2>1, <2>2, <2>3 DEF ValkeyInv
<1>7. QED
  BY Zenon, <1>1, <1>3, <1>4, <1>5, <1>6 DEF LoopInv, PipeInv

\* Every step keeps the invariant.
LEMMA NextKeeps ==
  ASSUME LoopInv, [Next]_vars
  PROVE  LoopInv'
<1>1. peer \in {Nil, "barnacle", "silent"} /\ calls \in Nat
  BY Zenon DEF LoopInv
<1>2. CASE UNCHANGED vars
  BY Zenon, <1>1, <1>2, OutsideKeeps DEF vars, pipes, valkey
<1>3. ASSUME NEW c \in Clients, Ask(c) \/ PostStore(c) \/ Settle(c) \/ TimeOut(c)
      PROVE  LoopInv'
  BY Zenon, <1>3, AskKeeps, PostStoreKeeps, GiveBackKeeps DEF Settle, TimeOut, Waits
<1>4. CASE Daemon
  BY Zenon, <1>4, ServeKeeps, ReadBodyKeeps, ReadReplyKeeps, ReadFailsKeeps, ControlKeeps DEF Daemon
<1>5. CASE ValkeyHangs
  BY Zenon, <1>1, <1>5, OutsideKeeps DEF ValkeyHangs, control
<1>6. ASSUME NEW who \in {"barnacle", "silent"}, Call(who)
      PROVE  LoopInv'
  <2>1. calls' \in Nat
    BY <1>1, <1>6 DEF Call
  <2>2. QED
    BY Zenon, <1>6, <2>1, OutsideKeeps DEF Call
<1>7. QED
  BY Zenon, <1>2, <1>3, <1>4, <1>5, <1>6, ValkeyAnswersKeeps, ValkeyClosesKeeps, HangUpKeeps,
     DieKeeps DEF Next
-----------------------------------------------------------------------------
(* The theorems.                                                           *)

\* The daemon's thread, the pipes and the connection to Valkey: the bytes of a pipe are
\* whole requests, after what is left of the body serve() is at, unless a STORE was sent
\* in part on it; and the connection holds at most the command being waited for, or what
\* is left of the one reply to it.
THEOREM LoopInvariant == Spec => []LoopInv
<1>1. Init => LoopInv
  BY Zenon, InitKeeps
<1>2. LoopInv /\ [Next]_vars => LoopInv'
  BY Zenon, NextKeeps
<1>3. QED
  BY <1>1, <1>2, PTL DEF Spec

\* The state has its types, and serve() takes for a header only what was sent as one,
\* unless a STORE was sent in part on that pipe.
THEOREM RequestsKeepBoundaries == Spec => []InboxIsFramed
<1>1. LoopInv => InboxIsFramed
  <2>1. LoopInv => d.at \in {"loop", "body", "valkey", "control", "dead"}
    BY Zenon, DaemonTypes DEF LoopInv
  <2>2. QED
    BY Zenon, <2>1 DEF LoopInv, PipeInv, ValkeyInv, InboxIsFramed, TypeOK, Bytes, ClientStates
<1>2. QED
  BY <1>1, LoopInvariant, PTL

\* Every reply the Valkey client acts on is the reply to the command it has just sent:
\* readLine() and readExactly() never start with what disconnect() should have dropped.
THEOREM RepliesMatchCommands == Spec => []RepliesAreOwn
<1>1. LoopInv => RepliesAreOwn
  BY Zenon DEF LoopInv, ValkeyInv, RepliesAreOwn
<1>2. QED
  BY <1>1, LoopInvariant, PTL
=============================================================================
