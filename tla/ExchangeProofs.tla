--------------------------- MODULE ExchangeProofs ---------------------------
(***************************************************************************)
(* Proofs of the safety properties of Exchange, for any number of          *)
(* connections, pipes and statements and any bound on commands and queues. *)
(***************************************************************************)
EXTENDS Exchange, TLAPS

\* Rows that any session may see.
Public == {r \in Rows : ~r.txn}

\* What the daemon and the server write to a connection's socket.
Messages ==
  {m \in [from : {"daemon", "server"}, kind : Verdicts \cup {"rows", "ok", "err"},
          rows : Rows \cup {Nil}, txn : BOOLEAN] :
     /\ m.from = "daemon" => m.kind \in Verdicts
     /\ m.kind = "rows" => m.rows \in Rows /\ m.rows.txn = m.txn}

\* What the agents write to a pipe.
Requests ==
  {r \in [kind : {"LOOKUP", "STORE"}, rows : Rows \cup {Nil}] :
     r.kind = "STORE" => r.rows \in Public}

ServerTypes == srv \in [Conns -> Seq(Commands)] /\ txn \in [Conns -> BOOLEAN]
CmdTypes == query \in [Conns -> Commands \cup {Nil}] /\ pending \in [Conns -> Stmts \cup {Nil}]
ConnTypes ==
  /\ in_txn \in [Conns -> BOOLEAN] /\ capturing \in [Conns -> BOOLEAN]
  /\ captured \in [Conns -> Public \cup {Nil}] /\ caps_known \in [Conns -> BOOLEAN]
PoolTypes ==
  /\ free \in Seq(Pipes) /\ dpipes \in [Pipes -> Stmts \cup {Nil}]
  /\ cpipe \in [Pipes -> Conns \cup {Nil}] /\ dpipe \in [Conns -> Pipes \cup {Nil}]
CacheTypes == local \in [Stmts -> Public \cup {Nil}] /\ upstream \in [Stmts -> Public \cup {Nil}]
DaemonTypes ==
  [pc : {"idle", "dead"}, key : {Nil}, stmt : {Nil}] \cup [pc : {"answer"}, key : Pipes, stmt : Stmts \cup {Nil}]

Types ==
  /\ ServerTypes /\ CmdTypes /\ ConnTypes /\ PoolTypes /\ CacheTypes
  /\ rx \in [Conns -> Seq(Messages)] /\ inbox \in [Pipes -> Seq(Requests)]
  /\ pc \in [Conns -> PCs] /\ status \in [Conns -> Verdicts \cup {Nil}]
  /\ daemon \in DaemonTypes
  /\ writes \in 0 .. MaxWrites /\ slow \subseteq {"reuse", "timeout"}

\* Where an agent has a pipe in hand.
Holding == {"ask", "unask", "wait", "release", "s_post", "s_release"}

\* A pipe is the one its holder thinks it holds, and a free pipe has no holder.
Pool ==
  /\ \A c \in Conns : dpipe[c] # Nil <=> pc[c] \in Holding
  /\ \A c \in Conns, k \in Pipes : cpipe[k] = c <=> dpipe[c] = k
  /\ \A i \in 1 .. Len(free) : cpipe[free[i]] = Nil
  /\ \A i, j \in 1 .. Len(free) : free[i] = free[j] => i = j

\* What an agent has in hand where it is.
InHand(c) ==
  /\ pc[c] \in {"acquire", "ask", "unask", "pass", "wait", "release", "settle"} => query[c] \in Stmts
  /\ pc[c] \in {"wait", "release", "settle"} => pending[c] = query[c]
  /\ pc[c] \in {"s_acquire", "s_post"} => captured[c] \in Public
  /\ capturing[c] => pc[c] \in {"read", "broken"} /\ pending[c] = query[c]

\* One query or one response is under way while the agent waits for it.
SentOnce(c) ==
  /\ pc[c] = "read" => \/ Len(srv[c]) = 1 /\ FromServer(c) = {}
                       \/ srv[c] = << >> /\ \E i \in 1 .. Len(rx[c]) : FromServer(c) = {i}
  /\ pc[c] \notin {"read", "broken"} => srv[c] = << >> /\ FromServer(c) = {}

\* The agents' side of the exchange.
AgentInv == Types /\ Pool /\ \A c \in Conns : InHand(c) /\ SentOnce(c)

\* The agent that waits for the answer to the lookup on pipe k.
Awaits(c, k) == pc[c] = "wait" /\ dpipe[c] = k /\ rx[c] = << >>
Answering(k) == daemon.pc = "answer" /\ daemon.key = k
IsLookup(k, i) == inbox[k][i].kind = "LOOKUP"

\* As long as no wait has run out: a lookup is on a pipe once, its asker is still there,
\* and a verdict is in the socket of the one who waits for it.
VerdictInv ==
  "timeout" \notin slow =>
    /\ \A k \in Pipes : \A i, j \in 1 .. Len(inbox[k]) : IsLookup(k, i) /\ IsLookup(k, j) => i = j
    /\ \A k \in Pipes : \A i \in 1 .. Len(inbox[k]) :
         IsLookup(k, i) => ~Answering(k) /\ \E c \in Conns : Awaits(c, k)
    /\ \A k \in Pipes : Answering(k) => \E c \in Conns : Awaits(c, k)
    /\ \A c \in Conns : \A i \in 1 .. Len(rx[c]) :
         rx[c][i].from = "daemon" => pc[c] = "wait" /\ Len(rx[c]) = 1
    /\ \A c \in Conns : pc[c] # "broken"

\* The rows of a response are of the query that is under way.
AboutQuery(c) ==
  pc[c] = "read" =>
    /\ \A i \in 1 .. Len(srv[c]) : srv[c][i] = query[c]
    /\ \A i \in 1 .. Len(rx[c]) : rx[c][i].kind = "rows" => rx[c][i].rows.stmt = query[c]

\* The rows an agent has captured are of the statement it has in hand.
CapturedIsOwn(c) ==
  /\ pc[c] \in {"s_acquire", "s_post"} => captured[c].stmt = pending[c]
  /\ pc[c] = "s_post" => dpipes[dpipe[c]] = pending[c]

\* As long as no pipe is taken with a request on it: rows are filed under the statement
\* they answer.
Filed ==
  "reuse" \notin slow =>
    /\ \A k \in Pipes : \A i \in 1 .. Len(inbox[k]) :
         inbox[k][i].kind = "STORE" => inbox[k][i].rows.stmt = dpipes[k]
    /\ \A s \in Stmts : local[s] # Nil => local[s].stmt = s
    /\ \A s \in Stmts : upstream[s] # Nil => upstream[s].stmt = s

RowsInv == Filed /\ \A c \in Conns : AboutQuery(c) /\ CapturedIsOwn(c)

ExchangeInv == AgentInv /\ VerdictInv /\ RowsInv
-----------------------------------------------------------------------------
(* Sequences.                                                              *)

\* What is left of a queue when its first entry is taken.
LEMMA TailFacts ==
  ASSUME NEW S, NEW s \in Seq(S), s # << >>
  PROVE  /\ Head(s) \in S /\ Head(s) = s[1] /\ Tail(s) \in Seq(S)
         /\ Len(s) \in Nat /\ Len(Tail(s)) = Len(s) - 1 /\ 1 \in 1 .. Len(s)
         /\ \A i \in 1 .. Len(Tail(s)) : Tail(s)[i] = s[i + 1] /\ i + 1 \in 1 .. Len(s) /\ i + 1 # 1
         /\ \A i, j \in 1 .. Len(Tail(s)) : i + 1 = j + 1 => i = j
         /\ Len(s) = 1 => Tail(s) = << >>
<1>1. /\ Head(s) \in S /\ Head(s) = s[1] /\ Tail(s) \in Seq(S)
      /\ Len(s) \in Nat /\ Len(Tail(s)) = Len(s) - 1 /\ 1 \in 1 .. Len(s)
  OBVIOUS
<1>2. \A i \in 1 .. Len(Tail(s)) : Tail(s)[i] = s[i + 1] /\ i + 1 \in 1 .. Len(s) /\ i + 1 # 1
  OBVIOUS
<1>3. \A i, j \in 1 .. Len(Tail(s)) : i + 1 = j + 1 => i = j
  BY <1>1
<1>4. Len(s) = 1 => Tail(s) = << >>
  <2>1. \A t \in Seq(S) : Len(t) = 0 => t = << >>
    OBVIOUS
  <2>2. Len(s) = 1 => Len(Tail(s)) = 0
    BY <1>1
  <2>3. QED
    BY Zenon, <1>1, <2>1, <2>2
<1>5. QED
  BY Zenon, <1>1, <1>2, <1>3, <1>4

\* What a queue holds when an entry is added.
LEMMA AppendFacts ==
  ASSUME NEW S, NEW s \in Seq(S), NEW e \in S
  PROVE  /\ Append(s, e) \in Seq(S) /\ Len(s) \in Nat /\ Len(Append(s, e)) = Len(s) + 1
         /\ \A i \in 1 .. Len(Append(s, e)) :
              \/ i \in 1 .. Len(s) /\ Append(s, e)[i] = s[i]
              \/ i = Len(s) + 1 /\ Append(s, e)[i] = e
         /\ \A i \in 1 .. Len(s) : i \in 1 .. Len(Append(s, e)) /\ i # Len(s) + 1
         /\ Len(s) + 1 \in 1 .. Len(Append(s, e))
         /\ s = << >> => Len(Append(s, e)) = 1
OBVIOUS

\* The top of the freelist, and what is left when it is taken.
LEMMA TopFacts ==
  ASSUME NEW S, NEW s \in Seq(S), s # << >>
  PROVE  /\ s[Len(s)] \in S /\ SubSeq(s, 1, Len(s) - 1) \in Seq(S) /\ Len(s) \in 1 .. Len(s)
         /\ \A i \in 1 .. Len(SubSeq(s, 1, Len(s) - 1)) :
              SubSeq(s, 1, Len(s) - 1)[i] = s[i] /\ i \in 1 .. Len(s) /\ i # Len(s)
OBVIOUS

-----------------------------------------------------------------------------
(* The pool.                                                               *)

\* A connection without a pipe is paired with none, so that what it sends goes to the
\* server.
LEMMA Unpaired ==
  ASSUME PoolTypes, Pool, NEW c \in Conns, pc[c] \notin Holding
  PROVE  PairedWith(c) = {}
<1>1. dpipe[c] = Nil
  BY Zenon DEF Pool
<1>2. ASSUME NEW k \in Pipes PROVE cpipe[k] # c
  <2>1. Nil # k
    BY NilAssumption
  <2>2. cpipe[k] = c <=> dpipe[c] = k
    BY Zenon DEF Pool
  <2>3. QED
    BY Zenon, <1>1, <2>1, <2>2
<1>3. QED
  BY Zenon, <1>2 DEF PairedWith

\* A connection with a pipe is paired with that one.
LEMMA Paired ==
  ASSUME PoolTypes, Pool, NEW c \in Conns, pc[c] \in Holding
  PROVE  dpipe[c] \in Pipes /\ cpipe[dpipe[c]] = c /\ PairedWith(c) = {dpipe[c]}
<1>1. dpipe[c] \in Pipes
  BY Zenon DEF Pool, PoolTypes
<1>2. \A k \in Pipes : cpipe[k] = c <=> k = dpipe[c]
  BY Zenon DEF Pool
<1>3. QED
  BY Zenon, <1>1, <1>2 DEF PairedWith

\* A pipe has one holder.
LEMMA OneHolder ==
  ASSUME PoolTypes, Pool, NEW b \in Conns, NEW c \in Conns, dpipe[b] = dpipe[c], dpipe[b] \in Pipes
  PROVE  b = c
<1>1. cpipe[dpipe[b]] = b /\ cpipe[dpipe[c]] = c
  BY Zenon DEF Pool
<1>2. QED
  BY Zenon, <1>1

\* What a connection sends while it has no pipe.
LEMMA SendEffect ==
  ASSUME PoolTypes, Pool, NEW c \in Conns, pc[c] \notin Holding, NEW q, SendQuery(c, q)
  PROVE  srv' = [srv EXCEPT ![c] = Append(srv[c], q)] /\ inbox' = inbox
BY Zenon, Unpaired DEF SendQuery

\* Request r goes on pipe k.
Posted(k, r) == inbox' = [inbox EXCEPT ![k] = Append(inbox[k], r)]

\* What a connection posts while it has a pipe.
LEMMA PostEffect ==
  ASSUME PoolTypes, Pool, NEW c \in Conns, pc[c] \in Holding, NEW r, Post(c, r)
  PROVE  Posted(dpipe[c], r)
<1>1. PICK k \in PairedWith(c) : inbox' = [inbox EXCEPT ![k] = Append(inbox[k], r)]
  BY Zenon DEF Post
<1>2. k = dpipe[c]
  BY Zenon, Paired
<1>3. QED
  BY Zenon, <1>1, <1>2 DEF Posted

\* acquire() pairs the connection with a pipe nobody holds.
LEMMA TakeKeeps ==
  ASSUME PoolTypes, Pool, pc \in [Conns -> PCs], NEW c \in Conns, pc[c] \notin Holding,
         NEW s \in Stmts \cup {Nil}, Take(c, s), NEW l \in Holding, Goto(c, l)
  PROVE  /\ PoolTypes' /\ Pool' /\ free[Len(free)] \in Pipes /\ free # << >>
         /\ \A b \in Conns : dpipe[b] # free[Len(free)]
<1> DEFINE k == free[Len(free)]
<1>1. /\ free # << >> /\ free' = SubSeq(free, 1, Len(free) - 1) /\ dpipes' = [dpipes EXCEPT ![k] = s]
      /\ cpipe' = [cpipe EXCEPT ![k] = c] /\ dpipe' = [dpipe EXCEPT ![c] = k]
      /\ pc' = [pc EXCEPT ![c] = l]
  BY Zenon DEF Take, Goto
<1>2. /\ free \in Seq(Pipes) /\ dpipes \in [Pipes -> Stmts \cup {Nil}]
      /\ cpipe \in [Pipes -> Conns \cup {Nil}] /\ dpipe \in [Conns -> Pipes \cup {Nil}]
  BY Zenon DEF PoolTypes
<1>3. /\ k \in Pipes /\ free' \in Seq(Pipes) /\ Len(free) \in 1 .. Len(free) /\ k = free[Len(free)]
      /\ \A i \in 1 .. Len(free') : free'[i] = free[i] /\ i \in 1 .. Len(free) /\ i # Len(free)
  BY Zenon, <1>1, <1>2, TopFacts
<1> HIDE DEF k
<1>4. cpipe[k] = Nil /\ (\A b \in Conns : dpipe[b] # k) /\ k # Nil /\ c # Nil /\ dpipe[c] = Nil
  <2>1. cpipe[k] = Nil
    BY Zenon, <1>3 DEF Pool
  <2>2. \A b \in Conns : b # Nil
    BY Zenon, NilAssumption
  <2>3. ASSUME NEW b \in Conns PROVE dpipe[b] # k
    <3>1. cpipe[k] = b <=> dpipe[b] = k
      BY Zenon, <1>3 DEF Pool
    <3>2. QED
      BY Zenon, <2>1, <2>2, <3>1
  <2>4. QED
    BY Zenon, <1>3, <2>1, <2>2, <2>3, NilAssumption DEF Pool
<1>5. PoolTypes'
  BY Zenon, <1>1, <1>2, <1>3 DEF PoolTypes
<1>6. /\ cpipe'[k] = c /\ \A q \in Pipes \ {k} : cpipe'[q] = cpipe[q]
      /\ dpipe'[c] = k /\ \A b \in Conns \ {c} : dpipe'[b] = dpipe[b]
      /\ pc'[c] = l /\ \A b \in Conns \ {c} : pc'[b] = pc[b]
  BY Zenon, <1>1, <1>2, <1>3
<1>7. /\ \A b \in Conns : dpipe[b] # Nil <=> pc[b] \in Holding
      /\ \A b \in Conns, q \in Pipes : cpipe[q] = b <=> dpipe[b] = q
      /\ \A i \in 1 .. Len(free) : cpipe[free[i]] = Nil
      /\ \A i, j \in 1 .. Len(free) : free[i] = free[j] => i = j
  BY Zenon DEF Pool
<1>8. /\ \A b \in Conns : dpipe'[b] # Nil <=> pc'[b] \in Holding
      /\ \A b \in Conns, q \in Pipes : cpipe'[q] = b <=> dpipe'[b] = q
  <2>1. ASSUME NEW b \in Conns PROVE dpipe'[b] # Nil <=> pc'[b] \in Holding
    <3>1. CASE b = c
      BY Zenon, <1>4, <1>6, <3>1
    <3>2. CASE b # c
      BY Zenon, <1>6, <1>7, <3>2
    <3>3. QED
      BY Zenon, <3>1, <3>2
  <2>2. ASSUME NEW b \in Conns, NEW q \in Pipes PROVE cpipe'[q] = b <=> dpipe'[b] = q
    <3>1. cpipe[q] = b <=> dpipe[b] = q
      BY Zenon, <1>7
    <3>2. q # Nil /\ b # Nil
      BY Zenon, NilAssumption
    <3>3. QED
      BY <1>3, <1>4, <1>6, <3>1, <3>2
  <2>3. QED
    BY Zenon, <2>1, <2>2
<1>9. \A i \in 1 .. Len(free') : cpipe'[free'[i]] = Nil
  <2>1. ASSUME NEW i \in 1 .. Len(free') PROVE free'[i] # k /\ free'[i] \in Pipes /\ cpipe[free'[i]] = Nil
    BY <1>2, <1>3, <1>7
  <2>2. QED
    BY Zenon, <1>6, <2>1
<1>10. \A i, j \in 1 .. Len(free') : free'[i] = free'[j] => i = j
  BY <1>3, <1>7
<1>11. QED
  BY Zenon, <1>1, <1>3, <1>4, <1>5, <1>8, <1>9, <1>10 DEF Pool, k

\* release() unpairs the connection and puts its pipe back.
LEMMA GiveBackKeeps ==
  ASSUME PoolTypes, Pool, pc \in [Conns -> PCs], NEW c \in Conns, pc[c] \in Holding,
         GiveBack(c), NEW l \in PCs \ Holding, Goto(c, l)
  PROVE  PoolTypes' /\ Pool' /\ dpipes' = dpipes /\ \A b \in Conns \ {c} : dpipe'[b] = dpipe[b]
<1> DEFINE k == dpipe[c]
<1>1. /\ free' = Append(free, k) /\ dpipes' = dpipes
      /\ cpipe' = [cpipe EXCEPT ![k] = Nil] /\ dpipe' = [dpipe EXCEPT ![c] = Nil]
      /\ pc' = [pc EXCEPT ![c] = l]
  BY Zenon DEF GiveBack, Goto
<1>2. /\ free \in Seq(Pipes) /\ dpipes \in [Pipes -> Stmts \cup {Nil}]
      /\ cpipe \in [Pipes -> Conns \cup {Nil}] /\ dpipe \in [Conns -> Pipes \cup {Nil}]
  BY Zenon DEF PoolTypes
<1>3. k \in Pipes /\ cpipe[k] = c /\ c # Nil /\ k # Nil
  BY Zenon, Paired, NilAssumption
<1> HIDE DEF k
<1>4. /\ free' \in Seq(Pipes)
      /\ \A i \in 1 .. Len(free') : \/ i \in 1 .. Len(free) /\ free'[i] = free[i]
                                    \/ i = Len(free) + 1 /\ free'[i] = k
  <2>1. /\ Append(free, k) \in Seq(Pipes)
        /\ \A i \in 1 .. Len(Append(free, k)) :
             \/ i \in 1 .. Len(free) /\ Append(free, k)[i] = free[i]
             \/ i = Len(free) + 1 /\ Append(free, k)[i] = k
    BY Zenon, <1>2, <1>3, AppendFacts
  <2>2. QED
    BY Zenon, <1>1, <2>1
<1>5. PoolTypes'
  BY Zenon, <1>1, <1>2, <1>4 DEF PoolTypes
<1>6. /\ cpipe'[k] = Nil /\ \A q \in Pipes \ {k} : cpipe'[q] = cpipe[q]
      /\ dpipe'[c] = Nil /\ \A b \in Conns \ {c} : dpipe'[b] = dpipe[b]
      /\ pc'[c] = l /\ \A b \in Conns \ {c} : pc'[b] = pc[b]
  BY Zenon, <1>1, <1>2, <1>3
<1>7. \A b \in Conns : dpipe'[b] # Nil <=> pc'[b] \in Holding
  BY Zenon, <1>6 DEF Pool
<1>8. \A b \in Conns, q \in Pipes : cpipe'[q] = b <=> dpipe'[b] = q
  <2>1. \A b \in Conns : b # Nil
    BY Zenon, NilAssumption
  <2>2. \A b \in Conns, q \in Pipes : cpipe[q] = b <=> dpipe[b] = q
    BY Zenon DEF Pool
  <2>3. \A q \in Pipes : q # Nil
    BY Zenon, NilAssumption
  <2>4. QED
    BY <1>3, <1>6, <2>1, <2>2, <2>3
<1>9. \A i \in 1 .. Len(free) : free[i] \in Pipes /\ free[i] # k
  <2>1. \A i \in 1 .. Len(free) : free[i] \in Pipes
    BY <1>2
  <2>2. QED
    BY Zenon, <1>3, <2>1 DEF Pool
<1>10. \A i \in 1 .. Len(free') : cpipe'[free'[i]] = Nil
  <2>1. \A i \in 1 .. Len(free) : cpipe[free[i]] = Nil
    BY Zenon DEF Pool
  <2>2. QED
    BY <1>4, <1>6, <1>9, <2>1
<1>11. \A i, j \in 1 .. Len(free') : free'[i] = free'[j] => i = j
  <2>1. \A i, j \in 1 .. Len(free) : free[i] = free[j] => i = j
    BY Zenon DEF Pool
  <2>2. QED
    BY <1>4, <1>9, <2>1
<1>12. QED
  BY Zenon, <1>1, <1>5, <1>6, <1>7, <1>8, <1>10, <1>11 DEF Pool

\* A step of a connection that keeps what it has of the pool.
LEMMA PoolStays ==
  ASSUME PoolTypes, Pool, pc \in [Conns -> PCs], NEW c \in Conns, NEW l \in PCs,
         l \in Holding <=> pc[c] \in Holding, Goto(c, l), UNCHANGED poolVars
  PROVE  PoolTypes' /\ Pool'
<1>1. free' = free /\ dpipes' = dpipes /\ cpipe' = cpipe /\ dpipe' = dpipe
  BY Zenon DEF poolVars
<1>2. \A b \in Conns : pc'[b] \in Holding <=> pc[b] \in Holding
  BY Zenon DEF Goto
<1>3. QED
  BY Zenon, <1>1, <1>2 DEF PoolTypes, Pool
-----------------------------------------------------------------------------
(* Steps of one connection.                                                *)

\* What a step of another connection leaves of this one.
Untouched(b) ==
  /\ pc'[b] = pc[b] /\ query'[b] = query[b] /\ pending'[b] = pending[b]
  /\ capturing'[b] = capturing[b] /\ captured'[b] = captured[b]
  /\ dpipe'[b] = dpipe[b] /\ srv'[b] = srv[b] /\ rx'[b] = rx[b]

\* The other connections are where they were.
LEMMA OthersStay ==
  ASSUME NEW b \in Conns, Untouched(b), InHand(b), SentOnce(b)
  PROVE  InHand(b)' /\ SentOnce(b)'
<1>1. InHand(b)'
  BY Zenon DEF Untouched, InHand
<1>2. FromServer(b)' = FromServer(b)
  BY Zenon DEF Untouched, FromServer
<1>3. SentOnce(b)'
  BY Zenon, <1>2 DEF Untouched, SentOnce
<1>4. QED
  BY Zenon, <1>1, <1>3

\* The agents' side after a step of connection c.
LEMMA AgentStep ==
  ASSUME AgentInv, NEW c \in Conns, \A b \in Conns \ {c} : Untouched(b),
         Types', Pool', InHand(c)', SentOnce(c)'
  PROVE  AgentInv'
<1>1. ASSUME NEW b \in Conns, b # c PROVE InHand(b)' /\ SentOnce(b)'
  BY Zenon, <1>1, OthersStay DEF AgentInv
<1>2. QED
  BY Zenon, <1>1 DEF AgentInv

\* A query goes out: it is the one that is under way.
LEMMA SentOnceSends ==
  ASSUME NEW c \in Conns, SentOnce(c), pc[c] \notin {"read", "broken"}, NEW q \in Commands,
         pc'[c] = "read", srv'[c] = Append(srv[c], q), rx'[c] = rx[c]
  PROVE  SentOnce(c)' /\ srv'[c] = <<q>>
<1>1. srv[c] = << >> /\ FromServer(c) = {}
  BY Zenon DEF SentOnce
<1>2. srv'[c] = <<q>> /\ Len(srv'[c]) = 1
  BY <1>1
<1>3. FromServer(c)' = {}
  BY Zenon, <1>1 DEF FromServer
<1>4. QED
  BY Zenon, <1>2, <1>3 DEF SentOnce

\* Nothing goes out, and nothing is waited for.
LEMMA SentOnceMoves ==
  ASSUME NEW c \in Conns, SentOnce(c), pc[c] \notin {"read", "broken"},
         pc'[c] \notin {"read", "broken"}, srv'[c] = srv[c], rx'[c] = rx[c]
  PROVE  SentOnce(c)'
<1>1. srv[c] = << >> /\ FromServer(c) = {}
  BY Zenon DEF SentOnce
<1>2. FromServer(c)' = {}
  BY Zenon, <1>1 DEF FromServer
<1>3. pc'[c] # "read"
  BY Zenon
<1>4. QED
  BY Zenon, <1>1, <1>2, <1>3 DEF SentOnce

\* A step of a connection that neither waits nor starts to wait for a verdict.
LEMMA QuietVerdicts ==
  ASSUME VerdictInv, NEW c \in Conns, pc[c] # "wait", pc'[c] \notin {"wait", "broken"},
         \A b \in Conns \ {c} : Untouched(b), rx'[c] = rx[c],
         inbox' = inbox, daemon' = daemon, slow \subseteq slow'
  PROVE  VerdictInv'
<1>1. ASSUME NEW b \in Conns, NEW k, Awaits(b, k) PROVE Awaits(b, k)'
  <2>1. b # c
    BY Zenon, <1>1 DEF Awaits
  <2>2. QED
    BY Zenon, <1>1, <2>1 DEF Awaits, Untouched
<1>2. \A b \in Conns : rx'[b] = rx[b] /\ (pc[b] = "wait" => pc'[b] = "wait")
  BY Zenon DEF Untouched
<1>3. \A b \in Conns : pc[b] # "broken" => pc'[b] # "broken"
  BY Zenon DEF Untouched
<1>4. QED
  BY Zenon, <1>1, <1>2, <1>3 DEF VerdictInv, IsLookup, Answering

\* What is under way for a connection that did not move is still of its query.
LEMMA AboutStays ==
  ASSUME NEW b \in Conns, Untouched(b), AboutQuery(b)
  PROVE  AboutQuery(b)'
<1>1. pc'[b] = pc[b] /\ query'[b] = query[b] /\ srv'[b] = srv[b] /\ rx'[b] = rx[b]
  BY Zenon DEF Untouched
<1>2. QED
  BY <1>1 DEF AboutQuery

\* A step of a connection, and the rows.
LEMMA RowsStep ==
  ASSUME RowsInv, NEW c \in Conns, \A b \in Conns \ {c} : Untouched(b),
         Filed', AboutQuery(c)', CapturedIsOwn(c)',
         \A b \in Conns \ {c} : pc[b] = "s_post" => dpipes'[dpipe[b]] = dpipes[dpipe[b]]
  PROVE  RowsInv'
<1>1. ASSUME NEW b \in Conns, b # c PROVE AboutQuery(b)' /\ CapturedIsOwn(b)'
  <2>1. Untouched(b) /\ AboutQuery(b) /\ CapturedIsOwn(b)
    BY Zenon, <1>1 DEF RowsInv
  <2>2. AboutQuery(b)'
    BY Zenon, <2>1, AboutStays
  <2>3. pc[b] = "s_post" => dpipes'[dpipe'[b]] = pending'[b]
    <3>1. pc[b] = "s_post" => dpipes'[dpipe[b]] = pending[b]
      BY Zenon, <1>1, <2>1 DEF CapturedIsOwn
    <3>2. dpipe'[b] = dpipe[b] /\ pending'[b] = pending[b]
      BY Zenon, <2>1 DEF Untouched
    <3>3. QED
      BY Zenon, <3>1, <3>2
  <2>4. CapturedIsOwn(b)'
    BY Zenon, <2>1, <2>3 DEF CapturedIsOwn, Untouched
  <2>5. QED
    BY Zenon, <2>2, <2>4
<1>2. QED
  BY Zenon, <1>1 DEF RowsInv

\* What is filed stays filed.
LEMMA FiledStays ==
  ASSUME Filed, UNCHANGED <<inbox, dpipes, local, upstream>>, slow \subseteq slow'
  PROVE  Filed'
BY Zenon DEF Filed

\* acquire() points a pipe at another statement: when it is empty, no rows are on it.
LEMMA FiledTake ==
  ASSUME Filed, PoolTypes, NEW c \in Conns, NEW s, Take(c, s), free[Len(free)] \in Pipes,
         UNCHANGED <<inbox, local, upstream>>
  PROVE  Filed'
<1> DEFINE k == free[Len(free)]
<1>1. /\ dpipes' = [dpipes EXCEPT ![k] = s]
      /\ inbox[k] # << >> => slow' = slow \cup {"reuse"}
      /\ slow \subseteq slow'
  BY Zenon DEF Take
<1>2. \A q \in Pipes \ {k} : dpipes'[q] = dpipes[q]
  BY Zenon, <1>1 DEF PoolTypes
<1> HIDE DEF k
<1>3. ASSUME "reuse" \notin slow', NEW q \in Pipes, NEW i \in 1 .. Len(inbox[q]),
             inbox[q][i].kind = "STORE"
      PROVE  inbox[q][i].rows.stmt = dpipes'[q]
  <2>1. CASE q = k
    <3>1. inbox[k] = << >>
      BY Zenon, <1>1, <1>3
    <3>2. QED
      BY <1>3, <2>1, <3>1
  <2>2. CASE q # k
    BY Zenon, <1>1, <1>2, <1>3, <2>2 DEF Filed
  <2>3. QED
    BY Zenon, <2>1, <2>2
<1>4. QED
  BY Zenon, <1>1, <1>3 DEF Filed

\* No rows wait in the socket of a connection that does not wait for any.
LEMMA NoRows ==
  ASSUME Types, NEW c \in Conns, SentOnce(c), pc[c] \notin {"read", "broken"}
  PROVE  \A i \in 1 .. Len(rx[c]) : rx[c][i].from = "daemon" /\ rx[c][i].kind # "rows"
<1>1. FromServer(c) = {} /\ rx[c] \in Seq(Messages)
  BY Zenon DEF SentOnce, Types
<1>2. ASSUME NEW i \in 1 .. Len(rx[c]) PROVE rx[c][i].from = "daemon" /\ rx[c][i].kind # "rows"
  <2>1. rx[c][i] \in Messages
    BY <1>1
  <2>2. rx[c][i].from # "server"
    BY Zenon, <1>1 DEF FromServer
  <2>3. rx[c][i].from = "daemon" /\ rx[c][i].kind \in Verdicts
    BY <2>1, <2>2 DEF Messages
  <2>4. QED
    BY <2>3 DEF Verdicts
<1>3. QED
  BY Zenon, <1>2

\* A query is sent: what it leaves behind, wherever the agent sends it.
LEMMA SendKeeps ==
  ASSUME ExchangeInv, NEW c \in Conns, NEW q \in Commands,
         pc[c] \in {"idle", "acquire", "pass", "settle"}, SendQuery(c, q), Goto(c, "read"),
         UNCHANGED <<txn, rx, status, in_txn, captured, caps_known, poolVars, cacheVars,
                     daemon, slow>>,
         writes' \in 0 .. MaxWrites, CmdTypes', capturing' \in [Conns -> BOOLEAN],
         \A b \in Conns \ {c} : /\ query'[b] = query[b] /\ pending'[b] = pending[b]
                                /\ capturing'[b] = capturing[b],
         query'[c] = q, capturing'[c] => pending'[c] = q
  PROVE  ExchangeInv'
<1>1. Types /\ Pool /\ InHand(c) /\ SentOnce(c) /\ VerdictInv /\ RowsInv /\ PoolTypes /\ pc \in [Conns -> PCs]
  BY Zenon DEF ExchangeInv, AgentInv, Types
<1>2. pc[c] \notin Holding /\ pc[c] \notin {"read", "broken"} /\ "read" \notin Holding /\ "read" \in PCs
      /\ pc[c] # "wait" /\ "read" \notin {"wait", "broken"}
  BY DEF Holding, PCs
<1>3. srv' = [srv EXCEPT ![c] = Append(srv[c], q)] /\ inbox' = inbox
  BY Zenon, <1>1, <1>2, SendEffect
<1>4. srv \in [Conns -> Seq(Commands)] /\ srv[c] \in Seq(Commands)
  BY Zenon, <1>1 DEF Types, ServerTypes
<1>5. Append(srv[c], q) \in Seq(Commands)
  BY <1>4
<1>6. /\ srv' \in [Conns -> Seq(Commands)] /\ srv'[c] = Append(srv[c], q)
      /\ \A b \in Conns \ {c} : srv'[b] = srv[b]
      /\ pc' \in [Conns -> PCs] /\ pc'[c] = "read" /\ \A b \in Conns \ {c} : pc'[b] = pc[b]
  BY Zenon, <1>1, <1>2, <1>3, <1>4, <1>5 DEF Goto
<1>7. \A b \in Conns \ {c} : Untouched(b)
  BY Zenon, <1>6 DEF Untouched, poolVars
<1>8. PoolTypes' /\ Pool'
  BY Zenon, <1>1, <1>2, PoolStays
<1>9. Types'
  BY Zenon, <1>1, <1>3, <1>6, <1>8 DEF Types, ServerTypes, ConnTypes, CacheTypes, cacheVars
<1>10. InHand(c)'
  BY <1>6 DEF InHand
<1>11. SentOnce(c)' /\ srv'[c] = <<q>>
  BY Zenon, <1>1, <1>2, <1>6, SentOnceSends
<1>12. AgentInv'
  BY Zenon, <1>7, <1>8, <1>9, <1>10, <1>11, AgentStep DEF ExchangeInv
<1>13. VerdictInv'
  <2>1. pc'[c] \notin {"wait", "broken"}
    BY Zenon, <1>2, <1>6
  <2>2. QED
    BY Zenon, <1>1, <1>2, <1>3, <1>7, <2>1, QuietVerdicts
<1>14. RowsInv'
  <2>1. AboutQuery(c)'
    <3>1. \A i \in 1 .. Len(srv'[c]) : srv'[c][i] = q
      BY <1>11
    <3>2. \A i \in 1 .. Len(rx'[c]) : rx'[c][i].kind # "rows"
      BY Zenon, <1>1, <1>2, NoRows
    <3>3. QED
      BY Zenon, <3>1, <3>2 DEF AboutQuery
  <2>2. CapturedIsOwn(c)'
    BY <1>6 DEF CapturedIsOwn
  <2>3. Filed'
    BY Zenon, <1>1, <1>3, FiledStays DEF RowsInv, poolVars, cacheVars
  <2>4. dpipes' = dpipes
    BY Zenon DEF poolVars
  <2>5. QED
    BY Zenon, <1>1, <1>7, <2>1, <2>2, <2>3, <2>4, RowsStep
<1>15. QED
  BY Zenon, <1>12, <1>13, <1>14 DEF ExchangeInv

\* The agent goes on, and waits neither for the server nor for a verdict.
LEMMA MoveKeeps ==
  ASSUME ExchangeInv, NEW c \in Conns, NEW l \in PCs \ {"read", "broken", "wait"},
         pc[c] \notin {"read", "broken", "wait"}, Goto(c, l),
         UNCHANGED <<serverVars, rx, status, in_txn, capturing, caps_known, inbox, cacheVars,
                     daemon>>,
         writes' \in 0 .. MaxWrites, CmdTypes', captured' \in [Conns -> Public \cup {Nil}],
         PoolTypes', Pool', slow \subseteq slow', slow' \subseteq {"reuse", "timeout"},
         \A b \in Conns \ {c} : /\ query'[b] = query[b] /\ pending'[b] = pending[b]
                                /\ captured'[b] = captured[b] /\ dpipe'[b] = dpipe[b],
         InHand(c)', CapturedIsOwn(c)', Filed',
         \A b \in Conns \ {c} : pc[b] = "s_post" => dpipes'[dpipe[b]] = dpipes[dpipe[b]]
  PROVE  ExchangeInv'
<1>1. Types /\ SentOnce(c) /\ VerdictInv /\ RowsInv /\ pc \in [Conns -> PCs]
  BY Zenon DEF ExchangeInv, AgentInv, Types
<1>2. /\ l \in PCs /\ l # "read" /\ l \notin {"read", "broken"} /\ l \notin {"wait", "broken"}
      /\ pc[c] # "wait" /\ pc[c] \notin {"read", "broken"}
  BY Zenon
<1>3. pc' \in [Conns -> PCs] /\ pc'[c] = l /\ \A b \in Conns \ {c} : pc'[b] = pc[b]
  BY Zenon, <1>1, <1>2 DEF Goto
<1>4. \A b \in Conns \ {c} : Untouched(b)
  BY Zenon, <1>3 DEF Untouched, serverVars
<1>5. Types'
  BY Zenon, <1>1, <1>3 DEF Types, ServerTypes, ConnTypes, CacheTypes, cacheVars, serverVars
<1>6. SentOnce(c)'
  <2>1. pc'[c] \notin {"read", "broken"} /\ srv'[c] = srv[c] /\ rx'[c] = rx[c]
    BY Zenon, <1>2, <1>3 DEF serverVars
  <2>2. QED
    BY Zenon, <1>1, <1>2, <2>1, SentOnceMoves
<1>7. AgentInv'
  BY Zenon, <1>4, <1>5, <1>6, AgentStep DEF ExchangeInv
<1>8. VerdictInv'
  <2>1. pc'[c] \notin {"wait", "broken"}
    BY Zenon, <1>2, <1>3
  <2>2. QED
    BY Zenon, <1>1, <1>2, <1>4, <2>1, QuietVerdicts
<1>9. RowsInv'
  <2>1. AboutQuery(c)'
    BY Zenon, <1>2, <1>3 DEF AboutQuery
  <2>2. QED
    BY Zenon, <1>1, <1>4, <2>1, RowsStep
<1>10. QED
  BY Zenon, <1>7, <1>8, <1>9 DEF ExchangeInv

-----------------------------------------------------------------------------
(* The write side.                                                         *)

\* The application sends a command.
LEMMA CommandTypes ==
  ASSUME ExchangeInv, NEW c \in Conns, NEW q \in Commands, Command(c, q)
  PROVE  /\ pc[c] = "idle" /\ writes' \in 0 .. MaxWrites
         /\ query' \in [Conns -> Commands \cup {Nil}] /\ query'[c] = q
         /\ \A b \in Conns \ {c} : query'[b] = query[b]
         /\ ~capturing[c] /\ CmdTypes /\ capturing \in [Conns -> BOOLEAN]
<1>1. /\ pc[c] = "idle" /\ writes < MaxWrites /\ writes' = writes + 1
      /\ query' = [query EXCEPT ![c] = q]
  BY Zenon DEF Command, At
<1>2. writes \in 0 .. MaxWrites /\ query \in [Conns -> Commands \cup {Nil}] /\ InHand(c)
      /\ CmdTypes /\ capturing \in [Conns -> BOOLEAN]
  BY Zenon DEF ExchangeInv, AgentInv, Types, CmdTypes, ConnTypes
<1>3. writes' \in 0 .. MaxWrites
  BY <1>1, <1>2, BoundsAssumption
<1>4. ~capturing[c]
  BY <1>1, <1>2 DEF InHand
<1>5. QED
  BY Zenon, <1>1, <1>2, <1>3, <1>4

\* A command passes.
LEMMA WritePassKeeps ==
  ASSUME ExchangeInv, NEW c \in Conns, NEW q \in Commands, WritePass(c, q)
  PROVE  ExchangeInv'
<1>1. /\ Command(c, q) /\ SendQuery(c, q) /\ Goto(c, "read")
      /\ UNCHANGED <<txn, rx, pending, status, connVars, poolVars, cacheVars, daemon, slow>>
  BY Zenon DEF WritePass
<1>2. /\ pc[c] = "idle" /\ writes' \in 0 .. MaxWrites
      /\ query' \in [Conns -> Commands \cup {Nil}] /\ query'[c] = q
      /\ \A b \in Conns \ {c} : query'[b] = query[b]
      /\ ~capturing[c] /\ CmdTypes /\ capturing \in [Conns -> BOOLEAN]
  BY Zenon, <1>1, CommandTypes
<1>3. pending' = pending /\ CmdTypes'
  BY Zenon, <1>1, <1>2 DEF CmdTypes
<1>4. /\ capturing' = capturing
      /\ UNCHANGED <<txn, rx, status, in_txn, captured, caps_known, poolVars, cacheVars, daemon, slow>>
  BY Zenon, <1>1 DEF connVars
<1>5. pc[c] \in {"idle", "acquire", "pass", "settle"}
  BY Zenon, <1>2
<1>6. QED
  BY Zenon, <1>1, <1>2, <1>3, <1>4, <1>5, SendKeeps

\* A listed query without a payload goes out, and its response is captured.
LEMMA WriteCaptureKeeps ==
  ASSUME ExchangeInv, NEW c \in Conns, NEW s \in Stmts, WriteCapture(c, s)
  PROVE  ExchangeInv'
<1>1. /\ Command(c, s) /\ SendQuery(c, s) /\ Goto(c, "read")
      /\ pending' = [pending EXCEPT ![c] = s] /\ capturing' = [capturing EXCEPT ![c] = TRUE]
      /\ UNCHANGED <<txn, rx, status, in_txn, captured, caps_known, poolVars, cacheVars, daemon, slow>>
  BY Zenon DEF WriteCapture
<1>2. s \in Commands
  BY Zenon DEF Commands
<1>3. /\ pc[c] = "idle" /\ writes' \in 0 .. MaxWrites
      /\ query' \in [Conns -> Commands \cup {Nil}] /\ query'[c] = s
      /\ \A b \in Conns \ {c} : query'[b] = query[b]
      /\ CmdTypes /\ capturing \in [Conns -> BOOLEAN]
  BY Zenon, <1>1, <1>2, CommandTypes
<1>4. /\ pending' \in [Conns -> Stmts \cup {Nil}] /\ pending'[c] = s
      /\ \A b \in Conns \ {c} : pending'[b] = pending[b]
      /\ capturing' \in [Conns -> BOOLEAN] /\ \A b \in Conns \ {c} : capturing'[b] = capturing[b]
  BY Zenon, <1>1, <1>3 DEF CmdTypes
<1>5. CmdTypes' /\ pc[c] \in {"idle", "acquire", "pass", "settle"}
  BY Zenon, <1>3, <1>4 DEF CmdTypes
<1>6. QED
  BY Zenon, <1>1, <1>2, <1>3, <1>4, <1>5, SendKeeps

\* The pool, the rows on the pipes and the caches after a step that leaves them alone.
LEMMA FilesStay ==
  ASSUME ExchangeInv, UNCHANGED <<inbox, poolVars, cacheVars, slow>>
  PROVE  /\ Filed' /\ dpipes' = dpipes /\ dpipe' = dpipe
         /\ slow \subseteq slow' /\ slow' \subseteq {"reuse", "timeout"}
<1>1. UNCHANGED <<inbox, dpipes, local, upstream, dpipe, slow>> /\ Filed /\ slow \subseteq {"reuse", "timeout"}
  BY Zenon DEF ExchangeInv, AgentInv, RowsInv, Types, poolVars, cacheVars
<1>2. QED
  BY Zenon, <1>1, FiledStays

\* The parts of the invariant that the agent's steps use.
LEMMA InvParts ==
  ASSUME ExchangeInv
  PROVE  /\ CmdTypes /\ captured \in [Conns -> Public \cup {Nil}] /\ PoolTypes /\ Pool
         /\ pc \in [Conns -> PCs] /\ writes \in 0 .. MaxWrites /\ slow \subseteq {"reuse", "timeout"}
         /\ query \in [Conns -> Commands \cup {Nil}] /\ pending \in [Conns -> Stmts \cup {Nil}]
         /\ \A c \in Conns : InHand(c) /\ SentOnce(c) /\ AboutQuery(c) /\ CapturedIsOwn(c)
BY Zenon DEF ExchangeInv, AgentInv, RowsInv, Types, CmdTypes, ConnTypes

\* A listed query is suppressed, for the daemon to be asked.
LEMMA WriteAskKeeps ==
  ASSUME ExchangeInv, NEW c \in Conns, NEW s \in Stmts, WriteAsk(c, s)
  PROVE  ExchangeInv'
<1>1. /\ Command(c, s) /\ Goto(c, "acquire")
      /\ UNCHANGED <<serverVars, rx, pending, status, connVars, poolVars, inbox, cacheVars, daemon, slow>>
  BY Zenon DEF WriteAsk
<1>2. s \in Commands
  BY Zenon DEF Commands
<1>3. /\ pc[c] = "idle" /\ writes' \in 0 .. MaxWrites
      /\ query' \in [Conns -> Commands \cup {Nil}] /\ query'[c] = s
      /\ \A b \in Conns \ {c} : query'[b] = query[b]
      /\ ~capturing[c] /\ CmdTypes
  BY Zenon, <1>1, <1>2, CommandTypes
<1>4. /\ captured \in [Conns -> Public \cup {Nil}] /\ PoolTypes /\ Pool /\ pc \in [Conns -> PCs]
  BY Zenon, InvParts
<1>5. /\ "acquire" \in PCs \ {"read", "broken", "wait"} /\ pc[c] \notin {"read", "broken", "wait"}
      /\ ("acquire" \in Holding <=> pc[c] \in Holding)
  BY <1>3 DEF PCs, Holding
<1>6. /\ CmdTypes' /\ captured' = captured /\ pending' = pending
      /\ UNCHANGED <<serverVars, rx, status, in_txn, capturing, caps_known, inbox, cacheVars, daemon>>
  BY Zenon, <1>1, <1>3 DEF CmdTypes, connVars
<1>7. Filed' /\ dpipes' = dpipes /\ dpipe' = dpipe /\ slow \subseteq slow' /\ slow' \subseteq {"reuse", "timeout"}
  BY Zenon, <1>1, FilesStay
<1>8. PoolTypes' /\ Pool'
  BY Zenon, <1>1, <1>4, <1>5, PoolStays
<1>9. pc'[c] = "acquire"
  BY Zenon, <1>1, <1>4 DEF Goto
<1>10. InHand(c)' /\ CapturedIsOwn(c)'
  BY <1>3, <1>6, <1>9 DEF InHand, CapturedIsOwn
<1>11. QED
  BY Zenon, <1>1, <1>3, <1>4, <1>5, <1>6, <1>7, <1>8, <1>10, MoveKeeps

\* The agent goes on with what it has: it neither takes nor gives back a pipe.
LEMMA GoesOn ==
  ASSUME ExchangeInv, NEW c \in Conns, NEW l \in PCs \ {"read", "broken", "wait"},
         pc[c] \notin {"read", "broken", "wait"}, l \in Holding <=> pc[c] \in Holding, Goto(c, l),
         UNCHANGED <<serverVars, rx, query, status, in_txn, capturing, caps_known, poolVars,
                     inbox, cacheVars, daemon, slow, writes>>,
         pending' \in [Conns -> Stmts \cup {Nil}], captured' \in [Conns -> Public \cup {Nil}],
         \A b \in Conns \ {c} : pending'[b] = pending[b] /\ captured'[b] = captured[b],
         InHand(c)', CapturedIsOwn(c)'
  PROVE  ExchangeInv'
<1>1. /\ PoolTypes /\ Pool /\ pc \in [Conns -> PCs] /\ writes \in 0 .. MaxWrites /\ CmdTypes
  BY Zenon, InvParts
<1>2. CmdTypes' /\ writes' \in 0 .. MaxWrites
  BY Zenon, <1>1 DEF CmdTypes
<1>3. Filed' /\ dpipes' = dpipes /\ dpipe' = dpipe /\ slow \subseteq slow' /\ slow' \subseteq {"reuse", "timeout"}
  BY Zenon, FilesStay
<1>4. PoolTypes' /\ Pool'
  BY Zenon, <1>1, PoolStays
<1>5. QED
  BY Zenon, <1>2, <1>3, <1>4, MoveKeeps

\* acquire(), for a lookup or for a store.
LEMMA TakesPipe ==
  ASSUME ExchangeInv, NEW c \in Conns, NEW l \in {"ask", "s_post"},
         pc[c] \in {"acquire", "s_acquire"}, Goto(c, l), NEW s \in Stmts \cup {Nil}, Take(c, s),
         UNCHANGED <<serverVars, rx, cmdVars, status, connVars, inbox, cacheVars, daemon, writes>>,
         l = "ask" => pc[c] = "acquire", l = "s_post" => pc[c] = "s_acquire" /\ s = pending[c]
  PROVE  ExchangeInv'
<1>1. /\ PoolTypes /\ Pool /\ pc \in [Conns -> PCs] /\ writes \in 0 .. MaxWrites /\ CmdTypes
      /\ captured \in [Conns -> Public \cup {Nil}] /\ slow \subseteq {"reuse", "timeout"}
      /\ InHand(c) /\ CapturedIsOwn(c) /\ dpipes \in [Pipes -> Stmts \cup {Nil}]
      /\ dpipe \in [Conns -> Pipes \cup {Nil}]
  BY Zenon, InvParts DEF PoolTypes
<1>2. /\ l \in PCs \ {"read", "broken", "wait"} /\ pc[c] \notin {"read", "broken", "wait"}
      /\ l \in Holding /\ pc[c] \notin Holding
  BY DEF PCs, Holding
<1>3. PICK k \in Pipes : k = free[Len(free)]
  BY Zenon, <1>1, <1>2, TakeKeeps
<1>4. PoolTypes' /\ Pool' /\ \A b \in Conns : dpipe[b] # k
  BY Zenon, <1>1, <1>2, <1>3, TakeKeeps
<1>5. /\ dpipes' = [dpipes EXCEPT ![k] = s] /\ dpipe' = [dpipe EXCEPT ![c] = k]
      /\ slow' = slow \/ slow' = slow \cup {"reuse"}
  BY Zenon, <1>3 DEF Take
<1>6. /\ dpipes'[k] = s /\ dpipe'[c] = k
      /\ \A b \in Conns \ {c} : dpipe'[b] = dpipe[b]
      /\ \A q \in Pipes \ {k} : dpipes'[q] = dpipes[q]
      /\ slow \subseteq slow' /\ slow' \subseteq {"reuse", "timeout"}
  BY Zenon, <1>1, <1>5
<1>7. ASSUME NEW b \in Conns \ {c}, pc[b] = "s_post" PROVE dpipes'[dpipe[b]] = dpipes[dpipe[b]]
  <2>1. pc[b] \in Holding
    BY <1>7 DEF Holding
  <2>2. dpipe[b] \in Pipes \ {k}
    BY Zenon, <1>1, <1>4, <2>1, Paired
  <2>3. QED
    BY Zenon, <1>6, <2>2
<1>8. Filed'
  <2>1. Filed /\ UNCHANGED <<inbox, local, upstream>>
    BY Zenon DEF ExchangeInv, RowsInv, cacheVars
  <2>2. QED
    BY Zenon, <1>1, <1>3, <2>1, FiledTake
<1>9. /\ UNCHANGED <<serverVars, rx, query, pending, status, in_txn, capturing, captured, caps_known,
                     inbox, cacheVars, daemon>>
      /\ CmdTypes' /\ captured' \in [Conns -> Public \cup {Nil}] /\ writes' \in 0 .. MaxWrites
  BY Zenon, <1>1 DEF cmdVars, connVars, CmdTypes
<1>10. pc'[c] = l
  BY Zenon, <1>1 DEF Goto
<1>11. InHand(c)'
  BY <1>1, <1>9, <1>10 DEF InHand
<1>12. CapturedIsOwn(c)'
  BY <1>1, <1>6, <1>9, <1>10 DEF CapturedIsOwn
<1>13. QED
  BY Zenon, <1>2, <1>4, <1>6, <1>7, <1>8, <1>9, <1>11, <1>12, MoveKeeps

\* release(), after a lookup or a store.
LEMMA GivesPipeBack ==
  ASSUME ExchangeInv, NEW c \in Conns, NEW l \in {"pass", "settle", "idle"},
         pc[c] \in {"unask", "release", "s_release"}, Goto(c, l), GiveBack(c),
         UNCHANGED <<serverVars, rx, query, status, connVars, inbox, cacheVars, daemon, slow, writes>>,
         pending' \in [Conns -> Stmts \cup {Nil}], \A b \in Conns \ {c} : pending'[b] = pending[b],
         l = "settle" => pc[c] = "release" /\ pending' = pending, l = "pass" => pc[c] = "unask"
  PROVE  ExchangeInv'
<1>1. /\ PoolTypes /\ Pool /\ pc \in [Conns -> PCs] /\ writes \in 0 .. MaxWrites /\ CmdTypes
      /\ captured \in [Conns -> Public \cup {Nil}] /\ slow \subseteq {"reuse", "timeout"}
      /\ InHand(c)
  BY Zenon, InvParts
<1>2. /\ l \in PCs \ {"read", "broken", "wait"} /\ pc[c] \notin {"read", "broken", "wait"}
      /\ l \in PCs \ Holding /\ pc[c] \in Holding
  BY DEF PCs, Holding
<1>3. PoolTypes' /\ Pool' /\ dpipes' = dpipes /\ \A b \in Conns \ {c} : dpipe'[b] = dpipe[b]
  BY Zenon, <1>1, <1>2, GiveBackKeeps
<1>4. /\ UNCHANGED <<serverVars, rx, query, status, in_txn, capturing, captured, caps_known,
                     inbox, cacheVars, daemon>>
      /\ CmdTypes' /\ captured' \in [Conns -> Public \cup {Nil}] /\ writes' \in 0 .. MaxWrites
      /\ slow \subseteq slow' /\ slow' \subseteq {"reuse", "timeout"}
  BY Zenon, <1>1 DEF connVars, CmdTypes
<1>5. Filed'
  BY Zenon, <1>3, <1>4, FiledStays DEF ExchangeInv, RowsInv, cacheVars
<1>6. pc'[c] = l
  BY Zenon, <1>1 DEF Goto
<1>7. InHand(c)' /\ CapturedIsOwn(c)'
  BY <1>1, <1>4, <1>6 DEF InHand, CapturedIsOwn
<1>8. QED
  BY Zenon, <1>2, <1>3, <1>4, <1>5, <1>7, MoveKeeps

\* With a pipe or without.
LEMMA AcquireKeeps ==
  ASSUME ExchangeInv, NEW c \in Conns, Acquire(c)
  PROVE  ExchangeInv'
<1>1. pc[c] = "acquire" /\ UNCHANGED <<txn, rx, cmdVars, status, connVars, cacheVars, daemon, writes>>
  BY Zenon DEF Acquire, At
<1>2. /\ CmdTypes /\ InHand(c) /\ writes \in 0 .. MaxWrites /\ capturing \in [Conns -> BOOLEAN]
  BY Zenon, InvParts DEF ExchangeInv, AgentInv, Types, ConnTypes
<1>3. query[c] \in Stmts /\ ~capturing[c] /\ pc[c] \in {"idle", "acquire", "pass", "settle"}
  BY <1>1, <1>2 DEF InHand
<1>4. CASE Take(c, query[c]) /\ Goto(c, "ask") /\ UNCHANGED <<srv, inbox>>
  <2>1. UNCHANGED <<serverVars, rx, cmdVars, status, connVars, inbox, cacheVars, daemon, writes>>
    BY Zenon, <1>1, <1>4 DEF serverVars
  <2>2. "ask" \in {"ask", "s_post"} /\ pc[c] \in {"acquire", "s_acquire"} /\ "ask" # "s_post"
    BY <1>1
  <2>3. QED
    BY Zenon, <1>1, <1>3, <1>4, <2>1, <2>2, TakesPipe
<1>5. CASE SendQuery(c, query[c]) /\ Goto(c, "read") /\ UNCHANGED <<poolVars, slow>>
  <2>1. query[c] \in Commands
    BY Zenon, <1>3 DEF Commands
  <2>2. /\ UNCHANGED <<txn, rx, status, in_txn, captured, caps_known, poolVars, cacheVars, daemon, slow>>
        /\ query' = query /\ pending' = pending /\ capturing' = capturing
        /\ writes' \in 0 .. MaxWrites /\ CmdTypes'
    BY Zenon, <1>1, <1>2, <1>5 DEF cmdVars, connVars, CmdTypes
  <2>3. QED
    BY Zenon, <1>2, <1>3, <1>5, <2>1, <2>2, SendKeeps
<1>6. QED
  BY Zenon, <1>4, <1>5 DEF Acquire

\* After askLookup() has failed.
LEMMA PassKeeps ==
  ASSUME ExchangeInv, NEW c \in Conns, Pass(c)
  PROVE  ExchangeInv'
<1>1. /\ pc[c] = "pass" /\ SendQuery(c, query[c]) /\ Goto(c, "read")
      /\ UNCHANGED <<txn, rx, cmdVars, status, connVars, poolVars, cacheVars, daemon, slow, writes>>
  BY Zenon DEF Pass, At
<1>2. /\ CmdTypes /\ InHand(c) /\ writes \in 0 .. MaxWrites /\ capturing \in [Conns -> BOOLEAN]
  BY Zenon, InvParts DEF ExchangeInv, AgentInv, Types, ConnTypes
<1>3. query[c] \in Stmts /\ ~capturing[c] /\ pc[c] \in {"idle", "acquire", "pass", "settle"}
  BY <1>1, <1>2 DEF InHand
<1>4. query[c] \in Commands
  BY Zenon, <1>3 DEF Commands
<1>5. /\ UNCHANGED <<txn, rx, status, in_txn, captured, caps_known, poolVars, cacheVars, daemon, slow>>
      /\ query' = query /\ pending' = pending /\ capturing' = capturing
      /\ writes' \in 0 .. MaxWrites /\ CmdTypes'
  BY Zenon, <1>1, <1>2 DEF cmdVars, connVars, CmdTypes
<1>6. QED
  BY Zenon, <1>1, <1>2, <1>3, <1>4, <1>5, SendKeeps

\* The suppressed query is sent after all.
LEMMA SettleResendKeeps ==
  ASSUME ExchangeInv, NEW c \in Conns, SettleResend(c)
  PROVE  ExchangeInv'
<1>1. /\ pc[c] = "settle" /\ SendQuery(c, query[c]) /\ Goto(c, "read")
      /\ capturing' = [capturing EXCEPT ![c] = TRUE]
      /\ UNCHANGED <<txn, rx, cmdVars, status, in_txn, captured, caps_known, poolVars, cacheVars,
                     daemon, slow, writes>>
  BY Zenon DEF SettleResend, At
<1>2. /\ CmdTypes /\ InHand(c) /\ writes \in 0 .. MaxWrites /\ capturing \in [Conns -> BOOLEAN]
  BY Zenon, InvParts DEF ExchangeInv, AgentInv, Types, ConnTypes
<1>3. query[c] \in Stmts /\ pending[c] = query[c] /\ pc[c] \in {"idle", "acquire", "pass", "settle"}
  BY <1>1, <1>2 DEF InHand
<1>4. query[c] \in Commands
  BY Zenon, <1>3 DEF Commands
<1>5. /\ query' = query /\ pending' = pending /\ writes' \in 0 .. MaxWrites /\ CmdTypes'
      /\ capturing' \in [Conns -> BOOLEAN] /\ \A b \in Conns \ {c} : capturing'[b] = capturing[b]
  BY Zenon, <1>1, <1>2 DEF cmdVars, CmdTypes
<1>6. UNCHANGED <<txn, rx, status, in_txn, captured, caps_known, poolVars, cacheVars, daemon, slow>>
  BY Zenon, <1>1
<1>7. QED
  BY Zenon, <1>1, <1>3, <1>4, <1>5, <1>6, SendKeeps

\* The three places where a pipe goes back.
LEMMA ReleaseKeeps ==
  ASSUME ExchangeInv, NEW c \in Conns, Unask(c) \/ Release(c) \/ StoreRelease(c)
  PROVE  ExchangeInv'
<1>1. pending \in [Conns -> Stmts \cup {Nil}]
  BY Zenon, InvParts
<1>2. CASE Unask(c)
  <2>1. /\ pc[c] = "unask" /\ GiveBack(c) /\ Goto(c, "pass") /\ pending' = pending
        /\ UNCHANGED <<serverVars, rx, query, status, connVars, inbox, cacheVars, daemon, slow, writes>>
    BY Zenon, <1>2 DEF Unask, At, cmdVars
  <2>2. "pass" \in {"pass", "settle", "idle"} /\ pc[c] \in {"unask", "release", "s_release"} /\ "pass" # "settle"
    BY <2>1
  <2>3. QED
    BY Zenon, <1>1, <2>1, <2>2, GivesPipeBack
<1>3. CASE Release(c)
  <2>1. /\ pc[c] = "release" /\ GiveBack(c) /\ Goto(c, "settle") /\ pending' = pending
        /\ UNCHANGED <<serverVars, rx, query, status, connVars, inbox, cacheVars, daemon, slow, writes>>
    BY Zenon, <1>3 DEF Release, At, cmdVars
  <2>2. "settle" \in {"pass", "settle", "idle"} /\ pc[c] \in {"unask", "release", "s_release"} /\ "pass" # "settle"
    BY <2>1
  <2>3. QED
    BY Zenon, <1>1, <2>1, <2>2, GivesPipeBack
<1>4. CASE StoreRelease(c)
  <2>1. /\ pc[c] = "s_release" /\ GiveBack(c) /\ Goto(c, "idle") /\ pending' = [pending EXCEPT ![c] = Nil]
        /\ UNCHANGED <<serverVars, rx, query, status, connVars, inbox, cacheVars, daemon, slow, writes>>
    BY Zenon, <1>4 DEF StoreRelease, At
  <2>2. /\ "idle" \in {"pass", "settle", "idle"} /\ pc[c] \in {"unask", "release", "s_release"}
        /\ "idle" # "settle" /\ "idle" # "pass"
    BY <2>1
  <2>3. pending' \in [Conns -> Stmts \cup {Nil}] /\ \A b \in Conns \ {c} : pending'[b] = pending[b]
    BY Zenon, <1>1, <2>1
  <2>4. QED
    BY Zenon, <2>1, <2>2, <2>3, GivesPipeBack
<1>5. QED
  BY Zenon, <1>2, <1>3, <1>4

\* The rows are served from the arena.
LEMMA SettleServeKeeps ==
  ASSUME ExchangeInv, NEW c \in Conns, SettleServe(c)
  PROVE  ExchangeInv'
<1>1. /\ pc[c] = "settle" /\ pending' = [pending EXCEPT ![c] = Nil] /\ Goto(c, "idle")
      /\ UNCHANGED <<serverVars, rx, query, status, in_txn, capturing, captured, caps_known, poolVars,
                     inbox, cacheVars, daemon, slow, writes>>
  BY Zenon DEF SettleServe, CanServe, At, connVars
<1>2. /\ pending \in [Conns -> Stmts \cup {Nil}] /\ captured \in [Conns -> Public \cup {Nil}]
      /\ InHand(c) /\ pc \in [Conns -> PCs]
  BY Zenon, InvParts
<1>3. /\ pending' \in [Conns -> Stmts \cup {Nil}] /\ \A b \in Conns \ {c} : pending'[b] = pending[b]
      /\ pc'[c] = "idle"
  BY Zenon, <1>1, <1>2 DEF Goto
<1>4. /\ "idle" \in PCs \ {"read", "broken", "wait"} /\ pc[c] \notin {"read", "broken", "wait"}
      /\ ("idle" \in Holding <=> pc[c] \in Holding)
  BY <1>1 DEF PCs, Holding
<1>5. InHand(c)' /\ CapturedIsOwn(c)'
  BY <1>1, <1>2, <1>3 DEF InHand, CapturedIsOwn
<1>6. QED
  BY Zenon, <1>1, <1>2, <1>3, <1>4, <1>5, GoesOn

\* acquire() for the read-through, or the end of it.
LEMMA StoreAcquireKeeps ==
  ASSUME ExchangeInv, NEW c \in Conns, StoreAcquire(c)
  PROVE  ExchangeInv'
<1>1. /\ pc[c] = "s_acquire"
      /\ UNCHANGED <<serverVars, rx, query, status, in_txn, capturing, caps_known, inbox, cacheVars,
                     daemon, writes>>
  BY Zenon DEF StoreAcquire, At
<1>2. /\ pending \in [Conns -> Stmts \cup {Nil}] /\ captured \in [Conns -> Public \cup {Nil}]
      /\ InHand(c) /\ pc \in [Conns -> PCs]
  BY Zenon, InvParts
<1>3. CASE Take(c, pending[c]) /\ Goto(c, "s_post") /\ UNCHANGED <<captured, pending>>
  <2>1. UNCHANGED <<serverVars, rx, cmdVars, status, connVars, inbox, cacheVars, daemon, writes>>
    BY Zenon, <1>1, <1>3 DEF cmdVars, connVars
  <2>2. /\ "s_post" \in {"ask", "s_post"} /\ pc[c] \in {"acquire", "s_acquire"} /\ "ask" # "s_post"
    BY <1>1
  <2>3. pending[c] \in Stmts \cup {Nil}
    BY Zenon, <1>2
  <2>4. QED
    BY Zenon, <1>1, <1>3, <2>1, <2>2, <2>3, TakesPipe
<1>4. CASE /\ Goto(c, "idle") /\ captured' = [captured EXCEPT ![c] = Nil]
           /\ pending' = [pending EXCEPT ![c] = Nil] /\ UNCHANGED <<poolVars, slow>>
  <2>1. /\ pending' \in [Conns -> Stmts \cup {Nil}] /\ captured' \in [Conns -> Public \cup {Nil}]
        /\ \A b \in Conns \ {c} : pending'[b] = pending[b] /\ captured'[b] = captured[b]
    BY Zenon, <1>2, <1>4
  <2>2. pc'[c] = "idle"
    BY Zenon, <1>2, <1>4 DEF Goto
  <2>3. /\ "idle" \in PCs \ {"read", "broken", "wait"} /\ pc[c] \notin {"read", "broken", "wait"}
        /\ ("idle" \in Holding <=> pc[c] \in Holding)
    BY <1>1 DEF PCs, Holding
  <2>4. InHand(c)' /\ CapturedIsOwn(c)'
    BY <1>1, <1>2, <2>2 DEF InHand, CapturedIsOwn
  <2>5. QED
    BY Zenon, <1>1, <1>4, <2>1, <2>3, <2>4, GoesOn
<1>5. QED
  BY Zenon, <1>3, <1>4 DEF StoreAcquire

\* The agents' side when one goes on and nothing arrives.
LEMMA AgentMove ==
  ASSUME ExchangeInv, NEW c \in Conns, NEW l \in PCs \ {"read", "broken"},
         pc[c] \notin {"read", "broken"}, l \in Holding <=> pc[c] \in Holding, Goto(c, l),
         UNCHANGED <<serverVars, rx, query, in_txn, capturing, caps_known, poolVars, cacheVars,
                     daemon, writes>>,
         status' \in [Conns -> Verdicts \cup {Nil}], inbox' \in [Pipes -> Seq(Requests)],
         pending' \in [Conns -> Stmts \cup {Nil}], captured' \in [Conns -> Public \cup {Nil}],
         slow' \subseteq {"reuse", "timeout"},
         \A b \in Conns \ {c} : pending'[b] = pending[b] /\ captured'[b] = captured[b],
         InHand(c)'
  PROVE  AgentInv' /\ (\A b \in Conns \ {c} : Untouched(b)) /\ pc'[c] = l
<1>1. Types /\ Pool /\ PoolTypes /\ SentOnce(c) /\ pc \in [Conns -> PCs]
  BY Zenon DEF ExchangeInv, AgentInv, Types
<1>2. pc' \in [Conns -> PCs] /\ pc'[c] = l /\ \A b \in Conns \ {c} : pc'[b] = pc[b]
  BY Zenon, <1>1 DEF Goto
<1>3. \A b \in Conns \ {c} : Untouched(b)
  BY Zenon, <1>2 DEF Untouched, serverVars, poolVars
<1>4. PoolTypes' /\ Pool'
  BY Zenon, <1>1, PoolStays
<1>5. Types'
  BY Zenon, <1>1, <1>2, <1>4 DEF Types, ServerTypes, CmdTypes, ConnTypes, CacheTypes, cacheVars, serverVars
<1>6. SentOnce(c)'
  BY Zenon, <1>1, <1>2, SentOnceMoves DEF serverVars
<1>7. QED
  BY Zenon, <1>2, <1>3, <1>4, <1>5, <1>6, AgentStep DEF ExchangeInv

\* A request is added to a pipe.
LEMMA PostTypes ==
  ASSUME ExchangeInv, NEW k \in Pipes, NEW r \in Requests, Posted(k, r)
  PROVE  /\ inbox' \in [Pipes -> Seq(Requests)] /\ \A q \in Pipes \ {k} : inbox'[q] = inbox[q]
         /\ Len(inbox[k]) + 1 \in 1 .. Len(inbox'[k])
         /\ \A i \in 1 .. Len(inbox'[k]) : \/ i \in 1 .. Len(inbox[k]) /\ inbox'[k][i] = inbox[k][i]
                                           \/ i = Len(inbox[k]) + 1 /\ inbox'[k][i] = r
<1>1. inbox \in [Pipes -> Seq(Requests)] /\ inbox[k] \in Seq(Requests)
  BY Zenon DEF ExchangeInv, AgentInv, Types
<1>2. inbox'[k] = Append(inbox[k], r)
  BY Zenon, <1>1 DEF Posted
<1>3. Append(inbox[k], r) \in Seq(Requests)
  BY Zenon, <1>1, AppendFacts
<1>4. inbox' \in [Pipes -> Seq(Requests)] /\ \A q \in Pipes \ {k} : inbox'[q] = inbox[q]
  BY Zenon, <1>1, <1>3 DEF Posted
<1>5. /\ Len(inbox[k]) + 1 \in 1 .. Len(Append(inbox[k], r))
      /\ \A i \in 1 .. Len(Append(inbox[k], r)) :
           \/ i \in 1 .. Len(inbox[k]) /\ Append(inbox[k], r)[i] = inbox[k][i]
           \/ i = Len(inbox[k]) + 1 /\ Append(inbox[k], r)[i] = r
  BY Zenon, <1>1, AppendFacts
<1>6. QED
  BY Zenon, <1>2, <1>4, <1>5

\* A connection that has asked nothing has nothing to be told.
LEMMA NothingUnderWay ==
  ASSUME ExchangeInv, "timeout" \notin slow, NEW c \in Conns, pc[c] \in Holding \ {"wait"}
  PROVE  /\ \A i \in 1 .. Len(inbox[dpipe[c]]) : ~IsLookup(dpipe[c], i)
         /\ ~Answering(dpipe[c]) /\ rx[c] = << >>
<1>1. PoolTypes /\ Pool /\ Types /\ SentOnce(c) /\ VerdictInv
  BY Zenon DEF ExchangeInv, AgentInv, Types
<1>2. dpipe[c] \in Pipes
  BY Zenon, <1>1, Paired
<1>3. ASSUME NEW b \in Conns, Awaits(b, dpipe[c]) PROVE FALSE
  <2>1. b = c
    BY Zenon, <1>1, <1>2, <1>3, OneHolder DEF Awaits
  <2>2. QED
    BY Zenon, <1>3, <2>1 DEF Awaits
<1>4. pc[c] \notin {"read", "broken"} /\ pc[c] # "wait"
  BY DEF Holding
<1>5. \A i \in 1 .. Len(rx[c]) : rx[c][i].from = "daemon"
  BY Zenon, <1>1, <1>4, NoRows
<1>6. \A i \in 1 .. Len(rx[c]) : FALSE
  BY Zenon, <1>1, <1>4, <1>5 DEF VerdictInv
<1>7. rx[c] = << >>
  <2>1. rx[c] \in Seq(Messages)
    BY Zenon, <1>1 DEF Types
  <2>2. QED
    BY <1>6, <2>1
<1>8. QED
  BY Zenon, <1>1, <1>2, <1>3, <1>7 DEF VerdictInv

\* askLookup() on a pipe that carries no other lookup.
LEMMA AskKeeps ==
  ASSUME ExchangeInv, NEW c \in Conns, Ask(c)
  PROVE  ExchangeInv'
<1> DEFINE r == [kind |-> "LOOKUP", rows |-> Nil]
<1>1. /\ pc[c] = "ask"
      /\ UNCHANGED <<serverVars, rx, query, in_txn, capturing, captured, caps_known, poolVars, cacheVars,
                     daemon, slow, writes>>
  BY Zenon DEF Ask, At, connVars
<1>2. /\ pending \in [Conns -> Stmts \cup {Nil}] /\ captured \in [Conns -> Public \cup {Nil}]
      /\ InHand(c) /\ CapturedIsOwn(c) /\ pc \in [Conns -> PCs] /\ PoolTypes /\ Pool
      /\ slow \subseteq {"reuse", "timeout"} /\ status \in [Conns -> Verdicts \cup {Nil}]
  BY Zenon, InvParts DEF ExchangeInv, AgentInv, Types
<1>3. query[c] \in Stmts /\ ~capturing[c] /\ pc[c] \in Holding /\ pc[c] \in Holding \ {"wait"}
      /\ pc[c] \notin {"read", "broken", "wait"} /\ pc[c] \notin {"read", "broken"}
  BY <1>1, <1>2 DEF InHand, Holding
<1>4. CASE Goto(c, "unask") /\ UNCHANGED <<inbox, pending, status>>
  <2>1. "unask" \in PCs \ {"read", "broken", "wait"} /\ "unask" \in Holding
    BY DEF PCs, Holding
  <2>2. pc'[c] = "unask"
    BY Zenon, <1>2, <1>4 DEF Goto
  <2>3. InHand(c)' /\ CapturedIsOwn(c)'
    BY <1>1, <1>3, <1>4, <2>2 DEF InHand, CapturedIsOwn
  <2>4. QED
    BY Zenon, <1>1, <1>2, <1>3, <1>4, <2>1, <2>3, GoesOn
<1>5. CASE /\ Post(c, r) /\ status' = [status EXCEPT ![c] = Nil]
           /\ pending' = [pending EXCEPT ![c] = query[c]] /\ Goto(c, "wait")
  <2>1. PICK k \in Pipes : k = dpipe[c]
    BY Zenon, <1>2, <1>3, Paired
  <2>2. Posted(k, r)
    BY Zenon, <1>2, <1>3, <1>5, <2>1, PostEffect
  <2>3. r \in Requests /\ r.kind = "LOOKUP"
    BY DEF Requests
  <2> HIDE DEF r
  <2>4. /\ inbox' \in [Pipes -> Seq(Requests)] /\ \A q \in Pipes \ {k} : inbox'[q] = inbox[q]
        /\ Len(inbox[k]) + 1 \in 1 .. Len(inbox'[k])
        /\ \A i \in 1 .. Len(inbox'[k]) : \/ i \in 1 .. Len(inbox[k]) /\ inbox'[k][i] = inbox[k][i]
                                          \/ i = Len(inbox[k]) + 1 /\ inbox'[k][i] = r
    BY Zenon, <2>2, <2>3, PostTypes
  <2>5. /\ pending' \in [Conns -> Stmts \cup {Nil}] /\ status' \in [Conns -> Verdicts \cup {Nil}]
        /\ \A b \in Conns \ {c} : pending'[b] = pending[b] /\ captured'[b] = captured[b]
        /\ pending'[c] = query[c] /\ pc'[c] = "wait"
    BY Zenon, <1>1, <1>2, <1>3, <1>5 DEF Goto
  <2>6. "wait" \in PCs \ {"read", "broken"} /\ "wait" \in Holding /\ "wait" # "read"
    BY DEF PCs, Holding
  <2>7. InHand(c)' /\ CapturedIsOwn(c)' /\ AboutQuery(c)'
    BY <1>1, <1>3, <2>5 DEF InHand, CapturedIsOwn, AboutQuery
  <2>8. AgentInv' /\ (\A b \in Conns \ {c} : Untouched(b))
    BY Zenon, <1>1, <1>2, <1>3, <1>5, <2>4, <2>5, <2>6, <2>7, AgentMove
  <2>9. VerdictInv'
    <3>1. SUFFICES ASSUME "timeout" \notin slow PROVE VerdictInv'
      BY Zenon, <1>1 DEF VerdictInv
    <3>2. VerdictInv
      BY Zenon DEF ExchangeInv
    <3>3. (\A i \in 1 .. Len(inbox[k]) : ~IsLookup(k, i)) /\ ~Answering(k) /\ rx[c] = << >>
      BY Zenon, <1>3, <2>1, <3>1, NothingUnderWay
    <3>4. Awaits(c, k)'
      BY Zenon, <1>1, <2>1, <2>5, <3>3 DEF Awaits, poolVars
    <3>5. \A b \in Conns, q \in Pipes : Awaits(b, q) => Awaits(b, q)'
      BY Zenon, <1>3, <2>8 DEF Awaits, Untouched
    <3>6. \A q \in Pipes : Answering(q)' <=> Answering(q)
      BY Zenon, <1>1 DEF Answering
    <3>7. \A i \in 1 .. Len(inbox'[k]) : IsLookup(k, i)' => i = Len(inbox[k]) + 1
      BY Zenon, <2>4, <3>3 DEF IsLookup
    <3>8. ASSUME NEW q \in Pipes, NEW i \in 1 .. Len(inbox'[q]), IsLookup(q, i)'
          PROVE  /\ ~Answering(q)' /\ \E b \in Conns : Awaits(b, q)'
                 /\ \A j \in 1 .. Len(inbox'[q]) : IsLookup(q, j)' => i = j
      <4>1. CASE q = k
        BY Zenon, <3>3, <3>4, <3>6, <3>7, <3>8, <4>1
      <4>2. CASE q # k
        <5>1. inbox'[q] = inbox[q]
          BY Zenon, <2>4, <4>2
        <5>2. QED
          BY Zenon, <3>1, <3>2, <3>5, <3>6, <3>8, <5>1 DEF VerdictInv, IsLookup
      <4>3. QED
        BY Zenon, <4>1, <4>2
    <3>9. \A q \in Pipes : Answering(q)' => \E b \in Conns : Awaits(b, q)'
      BY Zenon, <3>1, <3>2, <3>5, <3>6 DEF VerdictInv
    <3>10. \A b \in Conns : /\ rx'[b] = rx[b] /\ pc'[b] # "broken"
                            /\ pc[b] = "wait" => pc'[b] = "wait"
      BY Zenon, <1>1, <2>5, <2>6, <2>8, <3>1, <3>2 DEF VerdictInv, Untouched
    <3>11. QED
      BY Zenon, <3>1, <3>2, <3>8, <3>9, <3>10 DEF VerdictInv
  <2>10. Filed'
    <3>1. Filed /\ UNCHANGED <<dpipes, local, upstream, slow>>
      BY Zenon, <1>1 DEF ExchangeInv, RowsInv, poolVars, cacheVars
    <3>2. r.kind # "STORE"
      BY <2>3
    <3>3. ASSUME NEW q \in Pipes, NEW i \in 1 .. Len(inbox'[q]), inbox'[q][i].kind = "STORE"
          PROVE  i \in 1 .. Len(inbox[q]) /\ inbox'[q][i] = inbox[q][i]
      BY Zenon, <2>4, <3>2, <3>3
    <3>4. ASSUME "reuse" \notin slow, NEW q \in Pipes, NEW i \in 1 .. Len(inbox'[q]),
                 inbox'[q][i].kind = "STORE"
          PROVE  inbox'[q][i].rows.stmt = dpipes[q]
      <4>1. i \in 1 .. Len(inbox[q]) /\ inbox'[q][i] = inbox[q][i]
        BY Zenon, <3>3, <3>4
      <4>2. QED
        BY Zenon, <3>1, <3>4, <4>1 DEF Filed
    <3>5. QED
      BY Zenon, <3>1, <3>4 DEF Filed
  <2>11. RowsInv'
    BY Zenon, <1>1, <2>7, <2>8, <2>10, RowsStep DEF ExchangeInv, poolVars
  <2>12. QED
    BY Zenon, <2>8, <2>9, <2>11 DEF ExchangeInv
<1>6. QED
  BY Zenon, <1>4, <1>5 DEF Ask

\* askStore(): the rows are of the statement the pipe points at.
LEMMA StorePostKeeps ==
  ASSUME ExchangeInv, NEW c \in Conns, StorePost(c)
  PROVE  ExchangeInv'
<1> DEFINE r == [kind |-> "STORE", rows |-> captured[c]]
<1>1. /\ pc[c] = "s_post" /\ Goto(c, "s_release") /\ captured' = [captured EXCEPT ![c] = Nil]
      /\ Post(c, r) \/ inbox' = inbox
      /\ UNCHANGED <<serverVars, rx, query, pending, status, in_txn, capturing, caps_known, poolVars,
                     cacheVars, daemon, slow, writes>>
  BY Zenon DEF StorePost, At, cmdVars
<1>2. /\ pending \in [Conns -> Stmts \cup {Nil}] /\ captured \in [Conns -> Public \cup {Nil}]
      /\ InHand(c) /\ CapturedIsOwn(c) /\ pc \in [Conns -> PCs] /\ PoolTypes /\ Pool
      /\ slow \subseteq {"reuse", "timeout"} /\ status \in [Conns -> Verdicts \cup {Nil}]
      /\ inbox \in [Pipes -> Seq(Requests)]
  BY Zenon, InvParts DEF ExchangeInv, AgentInv, Types
<1>3. /\ captured[c] \in Public /\ ~capturing[c] /\ pc[c] \in Holding
      /\ pc[c] \notin {"read", "broken"} /\ pc[c] # "wait"
      /\ captured[c].stmt = pending[c] /\ dpipes[dpipe[c]] = pending[c]
  BY <1>1, <1>2 DEF InHand, CapturedIsOwn, Holding
<1>4. PICK k \in Pipes : k = dpipe[c]
  BY Zenon, <1>2, <1>3, Paired
<1>5. r \in Requests /\ r.kind = "STORE" /\ r.rows = captured[c]
  BY <1>3 DEF Requests, Public
<1>6. Post(c, r) => Posted(k, r)
  BY Zenon, <1>2, <1>3, <1>4, PostEffect
<1> HIDE DEF r
<1>7. /\ inbox' \in [Pipes -> Seq(Requests)]
      /\ \A q \in Pipes : \A i \in 1 .. Len(inbox'[q]) :
           \/ i \in 1 .. Len(inbox[q]) /\ inbox'[q][i] = inbox[q][i]
           \/ q = k /\ inbox'[q][i] = r
  <2>1. CASE inbox' = inbox
    BY Zenon, <1>2, <2>1
  <2>2. CASE Posted(k, r)
    <3>1. /\ inbox' \in [Pipes -> Seq(Requests)] /\ \A q \in Pipes \ {k} : inbox'[q] = inbox[q]
          /\ \A i \in 1 .. Len(inbox'[k]) : \/ i \in 1 .. Len(inbox[k]) /\ inbox'[k][i] = inbox[k][i]
                                            \/ i = Len(inbox[k]) + 1 /\ inbox'[k][i] = r
      BY Zenon, <1>5, <2>2, PostTypes
    <3>2. QED
      BY Zenon, <3>1
  <2>3. QED
    BY Zenon, <1>1, <1>6, <2>1, <2>2
<1>8. /\ captured' \in [Conns -> Public \cup {Nil}] /\ pc'[c] = "s_release"
      /\ \A b \in Conns \ {c} : pending'[b] = pending[b] /\ captured'[b] = captured[b]
  BY Zenon, <1>1, <1>2 DEF Goto
<1>9. "s_release" \in PCs \ {"read", "broken"} /\ "s_release" \in Holding
  BY DEF PCs, Holding
<1>10. InHand(c)' /\ CapturedIsOwn(c)' /\ AboutQuery(c)' /\ pc'[c] \notin {"wait", "broken"}
  BY <1>1, <1>3, <1>8 DEF InHand, CapturedIsOwn, AboutQuery
<1>11. AgentInv' /\ (\A b \in Conns \ {c} : Untouched(b))
  BY Zenon, <1>1, <1>2, <1>3, <1>7, <1>8, <1>9, <1>10, AgentMove
<1>12. VerdictInv'
  <2>1. SUFFICES ASSUME "timeout" \notin slow PROVE VerdictInv'
    BY Zenon, <1>1 DEF VerdictInv
  <2>2. VerdictInv
    BY Zenon DEF ExchangeInv
  <2>3. \A b \in Conns, q \in Pipes : Awaits(b, q) => Awaits(b, q)'
    BY Zenon, <1>3, <1>11 DEF Awaits, Untouched
  <2>4. \A q \in Pipes : Answering(q)' <=> Answering(q)
    BY Zenon, <1>1 DEF Answering
  <2>5. r.kind # "LOOKUP"
    BY <1>5
  <2>6. ASSUME NEW q \in Pipes, NEW i \in 1 .. Len(inbox'[q]), IsLookup(q, i)'
        PROVE  i \in 1 .. Len(inbox[q]) /\ IsLookup(q, i)
    BY Zenon, <1>7, <2>5, <2>6 DEF IsLookup
  <2>7. \A b \in Conns : /\ rx'[b] = rx[b] /\ pc'[b] # "broken"
                         /\ pc[b] = "wait" => pc'[b] = "wait"
    BY Zenon, <1>1, <1>3, <1>10, <1>11, <2>1, <2>2 DEF VerdictInv, Untouched
  <2>8. QED
    BY Zenon, <2>1, <2>2, <2>3, <2>4, <2>6, <2>7 DEF VerdictInv
<1>13. Filed'
  <2>1. Filed /\ UNCHANGED <<dpipes, local, upstream, slow>>
    BY Zenon, <1>1 DEF ExchangeInv, RowsInv, poolVars, cacheVars
  <2>2. ASSUME "reuse" \notin slow, NEW q \in Pipes, NEW i \in 1 .. Len(inbox'[q]), inbox'[q][i].kind = "STORE"
        PROVE  inbox'[q][i].rows.stmt = dpipes[q]
    <3>1. CASE i \in 1 .. Len(inbox[q]) /\ inbox'[q][i] = inbox[q][i]
      BY Zenon, <2>1, <2>2, <3>1 DEF Filed
    <3>2. CASE q = k /\ inbox'[q][i] = r
      BY Zenon, <1>3, <1>4, <1>5, <3>2
    <3>3. QED
      BY Zenon, <1>7, <3>1, <3>2
  <2>3. QED
    BY Zenon, <2>1, <2>2 DEF Filed
<1>14. RowsInv'
  BY Zenon, <1>1, <1>10, <1>11, <1>13, RowsStep DEF ExchangeInv, poolVars
<1>15. QED
  BY Zenon, <1>11, <1>12, <1>14 DEF ExchangeInv

\* The deadline passes.
LEMMA TimeOutKeeps ==
  ASSUME ExchangeInv, NEW c \in Conns, TimeOut(c)
  PROVE  ExchangeInv'
<1>1. /\ pc[c] = "wait" /\ Goto(c, "release") /\ slow' = slow \cup {"timeout"}
      /\ UNCHANGED <<serverVars, rx, query, pending, status, in_txn, capturing, captured, caps_known,
                     poolVars, inbox, cacheVars, daemon, writes>>
  BY Zenon DEF TimeOut, At, cmdVars, connVars
<1>2. /\ pending \in [Conns -> Stmts \cup {Nil}] /\ captured \in [Conns -> Public \cup {Nil}]
      /\ InHand(c) /\ slow \subseteq {"reuse", "timeout"} /\ pc \in [Conns -> PCs]
      /\ status \in [Conns -> Verdicts \cup {Nil}] /\ inbox \in [Pipes -> Seq(Requests)]
  BY Zenon, InvParts DEF ExchangeInv, AgentInv, Types
<1>3. /\ "release" \in PCs \ {"read", "broken"} /\ "release" \in Holding /\ pc[c] \in Holding
      /\ pc[c] \notin {"read", "broken"} /\ slow' \subseteq {"reuse", "timeout"} /\ slow \subseteq slow'
      /\ "timeout" \in slow'
  BY <1>1, <1>2 DEF PCs, Holding
<1>4. pc'[c] = "release"
  BY Zenon, <1>1, <1>2 DEF Goto
<1>5. InHand(c)' /\ CapturedIsOwn(c)' /\ AboutQuery(c)'
  BY <1>1, <1>2, <1>4 DEF InHand, CapturedIsOwn, AboutQuery
<1>6. AgentInv' /\ (\A b \in Conns \ {c} : Untouched(b))
  BY Zenon, <1>1, <1>2, <1>3, <1>5, AgentMove
<1>7. VerdictInv'
  BY Zenon, <1>3 DEF VerdictInv
<1>8. Filed /\ UNCHANGED <<inbox, dpipes, local, upstream>>
  BY Zenon, <1>1 DEF ExchangeInv, RowsInv, poolVars, cacheVars
<1>9. Filed'
  BY Zenon, <1>3, <1>8, FiledStays
<1>10. RowsInv'
  BY Zenon, <1>5, <1>6, <1>8, <1>9, RowsStep DEF ExchangeInv
<1>11. QED
  BY Zenon, <1>6, <1>7, <1>10 DEF ExchangeInv

\* A message is taken off the socket.
LEMMA TakenOff ==
  ASSUME ExchangeInv, NEW c \in Conns, rx[c] # << >>, rx' = [rx EXCEPT ![c] = Tail(rx[c])]
  PROVE  /\ rx' \in [Conns -> Seq(Messages)] /\ \A b \in Conns \ {c} : rx'[b] = rx[b]
         /\ Head(rx[c]) \in Messages /\ Head(rx[c]) = rx[c][1] /\ 1 \in 1 .. Len(rx[c])
         /\ \A i \in 1 .. Len(rx'[c]) : rx'[c][i] = rx[c][i + 1] /\ i + 1 \in 1 .. Len(rx[c]) /\ i + 1 # 1
         /\ Len(rx[c]) = 1 => rx'[c] = << >>
<1>1. rx \in [Conns -> Seq(Messages)] /\ rx[c] \in Seq(Messages)
  BY Zenon DEF ExchangeInv, AgentInv, Types
<1>2. /\ Tail(rx[c]) \in Seq(Messages) /\ Head(rx[c]) \in Messages /\ Head(rx[c]) = rx[c][1]
      /\ 1 \in 1 .. Len(rx[c])
      /\ \A i \in 1 .. Len(Tail(rx[c])) : /\ Tail(rx[c])[i] = rx[c][i + 1] /\ i + 1 \in 1 .. Len(rx[c])
                                          /\ i + 1 # 1
      /\ Len(rx[c]) = 1 => Tail(rx[c]) = << >>
  BY Zenon, <1>1, TailFacts
<1>3. rx'[c] = Tail(rx[c]) /\ \A b \in Conns \ {c} : rx'[b] = rx[b]
  BY Zenon, <1>1
<1>4. rx' \in [Conns -> Seq(Messages)]
  BY Zenon, <1>1, <1>2
<1>5. QED
  BY Zenon, <1>2, <1>3, <1>4

\* takeReply() empties the socket of the one who waits.
LEMMA TakeReplyKeeps ==
  ASSUME ExchangeInv, NEW c \in Conns, TakeReply(c)
  PROVE  ExchangeInv'
<1>1. /\ pc[c] = "wait" /\ rx[c] # << >> /\ Head(rx[c]).from = "daemon" /\ Goto(c, "release")
      /\ status' = [status EXCEPT ![c] = Head(rx[c]).kind] /\ rx' = [rx EXCEPT ![c] = Tail(rx[c])]
      /\ UNCHANGED <<serverVars, query, pending, in_txn, capturing, captured, caps_known, poolVars,
                     inbox, cacheVars, daemon, slow, writes>>
  BY Zenon DEF TakeReply, At, cmdVars, connVars
<1>2. /\ Types /\ Pool /\ PoolTypes /\ InHand(c) /\ SentOnce(c) /\ VerdictInv /\ RowsInv
      /\ pc \in [Conns -> PCs] /\ status \in [Conns -> Verdicts \cup {Nil}]
  BY Zenon DEF ExchangeInv, AgentInv, Types
<1>3. /\ rx' \in [Conns -> Seq(Messages)] /\ \A b \in Conns \ {c} : rx'[b] = rx[b]
      /\ Head(rx[c]) \in Messages /\ Head(rx[c]) = rx[c][1] /\ 1 \in 1 .. Len(rx[c])
      /\ \A i \in 1 .. Len(rx'[c]) : rx'[c][i] = rx[c][i + 1] /\ i + 1 \in 1 .. Len(rx[c]) /\ i + 1 # 1
      /\ Len(rx[c]) = 1 => rx'[c] = << >>
  BY Zenon, <1>1, TakenOff
<1>4. /\ "release" \in PCs /\ "release" \in Holding /\ pc[c] \in Holding
      /\ pc[c] \notin {"read", "broken"}
  BY <1>1 DEF PCs, Holding
<1>5. pc' \in [Conns -> PCs] /\ pc'[c] = "release" /\ \A b \in Conns \ {c} : pc'[b] = pc[b]
  BY Zenon, <1>1, <1>2, <1>4 DEF Goto
<1>6. \A b \in Conns \ {c} : Untouched(b)
  BY Zenon, <1>1, <1>3, <1>5 DEF Untouched, serverVars, poolVars
<1>7. PoolTypes' /\ Pool'
  BY Zenon, <1>1, <1>2, <1>4, PoolStays
<1>8. status' \in [Conns -> Verdicts \cup {Nil}]
  <2>1. Head(rx[c]).kind \in Verdicts
    BY Zenon, <1>1, <1>3 DEF Messages
  <2>2. QED
    BY Zenon, <1>1, <1>2, <2>1
<1>9. Types'
  BY Zenon, <1>1, <1>2, <1>3, <1>5, <1>7, <1>8 DEF Types, ServerTypes, CmdTypes, ConnTypes, CacheTypes,
     cacheVars, serverVars
<1>10. InHand(c)' /\ CapturedIsOwn(c)' /\ AboutQuery(c)' /\ pc'[c] \notin {"read", "broken", "wait"}
  BY <1>1, <1>2, <1>5 DEF InHand, CapturedIsOwn, AboutQuery
<1>11. SentOnce(c)'
  <2>1. srv[c] = << >> /\ FromServer(c) = {}
    BY Zenon, <1>2, <1>4 DEF SentOnce
  <2>2. FromServer(c)' = {}
    <3>1. \A j \in 1 .. Len(rx[c]) : rx[c][j].from # "server"
      BY Zenon, <2>1 DEF FromServer
    <3>2. \A i \in 1 .. Len(rx'[c]) : rx'[c][i].from # "server"
      BY Zenon, <1>3, <3>1
    <3>3. QED
      BY Zenon, <3>2 DEF FromServer
  <2>3. srv'[c] = << >> /\ pc'[c] # "read"
    BY Zenon, <1>1, <1>10, <2>1 DEF serverVars
  <2>4. QED
    BY Zenon, <2>2, <2>3 DEF SentOnce
<1>12. AgentInv'
  BY Zenon, <1>6, <1>7, <1>9, <1>10, <1>11, AgentStep DEF ExchangeInv
<1>13. VerdictInv'
  <2>1. SUFFICES ASSUME "timeout" \notin slow PROVE VerdictInv'
    BY Zenon, <1>1 DEF VerdictInv
  <2>2. rx'[c] = << >>
    BY Zenon, <1>1, <1>2, <1>3, <2>1 DEF VerdictInv
  <2>3. \A i \in 1 .. Len(rx'[c]) : FALSE
    BY <2>2
  <2>4. \A b \in Conns, q \in Pipes : Awaits(b, q) => Awaits(b, q)'
    BY Zenon, <1>1, <1>6 DEF Awaits, Untouched
  <2>5. \A b \in Conns : pc'[b] # "broken"
    BY Zenon, <1>2, <1>5, <1>10, <2>1 DEF VerdictInv
  <2>6. \A b \in Conns : \A i \in 1 .. Len(rx'[b]) :
          rx'[b][i].from = "daemon" => pc'[b] = "wait" /\ Len(rx'[b]) = 1
    <3>1. ASSUME NEW b \in Conns, b # c, NEW i \in 1 .. Len(rx'[b]), rx'[b][i].from = "daemon"
          PROVE  pc'[b] = "wait" /\ Len(rx'[b]) = 1
      <4>1. rx'[b] = rx[b] /\ pc'[b] = pc[b]
        BY Zenon, <1>3, <1>5, <3>1
      <4>2. QED
        BY Zenon, <1>2, <2>1, <3>1, <4>1 DEF VerdictInv
    <3>2. QED
      BY Zenon, <2>3, <3>1
  <2>7. QED
    BY Zenon, <1>1, <1>2, <2>1, <2>4, <2>5, <2>6 DEF VerdictInv, IsLookup, Answering
<1>14. Filed' /\ dpipes' = dpipes
  BY Zenon, <1>1, FilesStay
<1>15. RowsInv'
  BY Zenon, <1>2, <1>6, <1>10, <1>14, RowsStep
<1>16. QED
  BY Zenon, <1>12, <1>13, <1>15 DEF ExchangeInv

\* OpenSSL reads what the daemon wrote: only after a wait has run out.
LEMMA ReadStrayKeeps ==
  ASSUME ExchangeInv, NEW c \in Conns, ReadStray(c)
  PROVE  ExchangeInv'
<1>1. /\ pc[c] = "read" /\ rx[c] # << >> /\ Head(rx[c]).from = "daemon" /\ Goto(c, "broken")
      /\ UNCHANGED <<serverVars, rx, query, pending, status, in_txn, capturing, captured, caps_known,
                     poolVars, inbox, cacheVars, daemon, slow, writes>>
  BY Zenon DEF ReadStray, At, cmdVars, connVars
<1>2. /\ Types /\ Pool /\ PoolTypes /\ InHand(c) /\ VerdictInv /\ RowsInv /\ pc \in [Conns -> PCs]
      /\ rx[c] \in Seq(Messages)
  BY Zenon DEF ExchangeInv, AgentInv, Types
<1>3. "broken" \in PCs /\ "broken" \notin Holding /\ pc[c] \notin Holding /\ pc[c] # "wait"
  BY <1>1 DEF PCs, Holding
<1>4. pc' \in [Conns -> PCs] /\ pc'[c] = "broken" /\ \A b \in Conns \ {c} : pc'[b] = pc[b]
  BY Zenon, <1>1, <1>2, <1>3 DEF Goto
<1>5. \A b \in Conns \ {c} : Untouched(b)
  BY Zenon, <1>1, <1>4 DEF Untouched, serverVars, poolVars
<1>6. PoolTypes' /\ Pool'
  BY Zenon, <1>1, <1>2, <1>3, PoolStays
<1>7. Types'
  BY Zenon, <1>1, <1>2, <1>4, <1>6 DEF Types, ServerTypes, CmdTypes, ConnTypes, CacheTypes,
     cacheVars, serverVars
<1>8. InHand(c)' /\ CapturedIsOwn(c)' /\ AboutQuery(c)' /\ SentOnce(c)'
  BY <1>1, <1>2, <1>4 DEF InHand, CapturedIsOwn, AboutQuery, SentOnce
<1>9. AgentInv'
  BY Zenon, <1>5, <1>6, <1>7, <1>8, AgentStep DEF ExchangeInv
<1>10. "timeout" \in slow
  <2>1. Head(rx[c]) = rx[c][1] /\ 1 \in 1 .. Len(rx[c])
    BY Zenon, <1>1, <1>2, TailFacts
  <2>2. QED
    BY Zenon, <1>1, <1>2, <1>3, <2>1 DEF VerdictInv
<1>11. VerdictInv'
  BY Zenon, <1>1, <1>10 DEF VerdictInv
<1>12. Filed' /\ dpipes' = dpipes
  BY Zenon, <1>1, FilesStay
<1>13. RowsInv'
  BY Zenon, <1>2, <1>5, <1>8, <1>12, RowsStep
<1>14. QED
  BY Zenon, <1>9, <1>11, <1>13 DEF ExchangeInv

\* observe() at the end of a response: what it captures is public, and of the query.
LEMMA ObserveKeeps ==
  ASSUME ExchangeInv, NEW c \in Conns, Observe(c)
  PROVE  ExchangeInv'
<1> DEFINE m == Head(rx[c])
           t == InTransaction(m)
           keeps == capturing[c] /\ IsResultSet(m) /\ ~t
           l == IF keeps THEN "s_acquire" ELSE "idle"
<1>1. /\ pc[c] = "read" /\ rx[c] # << >> /\ m.from = "server" /\ rx' = [rx EXCEPT ![c] = Tail(rx[c])]
      /\ in_txn' = [in_txn EXCEPT ![c] = t] /\ capturing' = [capturing EXCEPT ![c] = FALSE]
      /\ caps_known' = [caps_known EXCEPT ![c] = KnowsCaps(c, m)]
      /\ UNCHANGED <<serverVars, query, pending, status, poolVars, inbox, cacheVars, daemon, slow, writes>>
  BY Zenon DEF Observe, At, cmdVars
<1>2. /\ Types /\ Pool /\ PoolTypes /\ InHand(c) /\ SentOnce(c) /\ VerdictInv /\ RowsInv
      /\ AboutQuery(c) /\ pc \in [Conns -> PCs] /\ in_txn \in [Conns -> BOOLEAN]
      /\ capturing \in [Conns -> BOOLEAN] /\ caps_known \in [Conns -> BOOLEAN]
      /\ captured \in [Conns -> Public \cup {Nil}]
  BY Zenon DEF ExchangeInv, AgentInv, Types, ConnTypes, RowsInv
<1>3. in_txn'[c] = t
  BY Zenon, <1>1, <1>2
<1>4. /\ Goto(c, l) /\ captured' = [captured EXCEPT ![c] = IF keeps THEN m.rows ELSE Nil]
  BY <1>3 DEF Observe
<1>5. /\ rx' \in [Conns -> Seq(Messages)] /\ \A b \in Conns \ {c} : rx'[b] = rx[b]
      /\ m \in Messages /\ m = rx[c][1] /\ 1 \in 1 .. Len(rx[c])
      /\ \A i \in 1 .. Len(rx'[c]) : rx'[c][i] = rx[c][i + 1] /\ i + 1 \in 1 .. Len(rx[c]) /\ i + 1 # 1
  BY Zenon, <1>1, TakenOff
<1>6. keeps => m.rows \in Public /\ m.rows.stmt = query[c] /\ pending[c] = query[c]
  <2>1. keeps => m.kind = "rows" /\ capturing[c] /\ ~(m.kind # "err" /\ m.txn)
    BY Zenon DEF IsResultSet, InTransaction
  <2>2. m.kind = "rows" => m.rows \in Rows /\ m.rows.txn = m.txn
    BY Zenon, <1>5 DEF Messages
  <2>3. m.kind = "rows" => m.rows.stmt = query[c]
    BY Zenon, <1>1, <1>2, <1>5 DEF AboutQuery
  <2>4. capturing[c] => pending[c] = query[c]
    BY Zenon, <1>2 DEF InHand
  <2> HIDE DEF m, keeps
  <2>5. keeps => m.rows \in Public
    BY <2>1, <2>2 DEF Public
  <2>6. QED
    BY Zenon, <2>1, <2>3, <2>4, <2>5
<1>7. t \in BOOLEAN /\ KnowsCaps(c, m) \in BOOLEAN
  BY Zenon, <1>2 DEF InTransaction, KnowsCaps, IsResultSet
<1>8. keeps \in BOOLEAN
  OBVIOUS
<1> HIDE DEF m, t, keeps
<1>9. /\ l \in PCs /\ l \notin Holding /\ pc[c] \notin Holding /\ pc[c] # "wait"
      /\ l \notin {"read", "broken", "wait"} /\ l # "read" /\ (l = "s_acquire" => keeps) /\ l # "s_post"
      /\ l \in {"s_acquire", "idle"}
  BY <1>1 DEF PCs, Holding
<1>10. pc' \in [Conns -> PCs] /\ pc'[c] = l /\ \A b \in Conns \ {c} : pc'[b] = pc[b]
  BY Zenon, <1>2, <1>4, <1>9 DEF Goto
<1>11. /\ captured' \in [Conns -> Public \cup {Nil}] /\ (keeps => captured'[c] = m.rows)
       /\ \A b \in Conns \ {c} : captured'[b] = captured[b]
  BY Zenon, <1>2, <1>4, <1>6
<1>12. /\ in_txn' \in [Conns -> BOOLEAN] /\ capturing' \in [Conns -> BOOLEAN]
       /\ caps_known' \in [Conns -> BOOLEAN] /\ ~capturing'[c]
       /\ \A b \in Conns \ {c} : capturing'[b] = capturing[b]
  BY Zenon, <1>1, <1>2, <1>7
<1>13. \A b \in Conns \ {c} : Untouched(b)
  BY Zenon, <1>1, <1>5, <1>10, <1>11, <1>12 DEF Untouched, serverVars, poolVars
<1>14. PoolTypes' /\ Pool'
  BY Zenon, <1>1, <1>2, <1>4, <1>9, PoolStays
<1> HIDE DEF l
<1>15. Types'
  BY Zenon, <1>1, <1>2, <1>5, <1>10, <1>11, <1>12, <1>14 DEF Types, ServerTypes, CmdTypes, ConnTypes,
     CacheTypes, cacheVars, serverVars
<1>16. InHand(c)' /\ CapturedIsOwn(c)' /\ AboutQuery(c)'
  <2>1. pc'[c] \in {"s_acquire", "idle"} /\ ~capturing'[c] /\ pending'[c] = pending[c]
    BY Zenon, <1>1, <1>9, <1>10, <1>12
  <2>2. pc'[c] = "s_acquire" => captured'[c] \in Public /\ captured'[c].stmt = pending[c]
    BY Zenon, <1>6, <1>9, <1>10, <1>11
  <2>3. QED
    BY <2>1, <2>2 DEF InHand, CapturedIsOwn, AboutQuery
<1>17. SentOnce(c)'
  <2>1. 1 \in FromServer(c)
    BY Zenon, <1>1, <1>5 DEF FromServer
  <2>2. srv[c] = << >> /\ FromServer(c) = {1}
    BY Zenon, <1>1, <1>2, <2>1 DEF SentOnce
  <2>3. \A i \in 1 .. Len(rx'[c]) : rx'[c][i].from # "server"
    BY Zenon, <1>5, <2>2 DEF FromServer
  <2>4. FromServer(c)' = {}
    BY Zenon, <2>3 DEF FromServer
  <2>5. srv'[c] = << >> /\ pc'[c] # "read"
    BY Zenon, <1>1, <1>9, <1>10, <2>2 DEF serverVars
  <2>6. QED
    BY Zenon, <2>4, <2>5 DEF SentOnce
<1>18. AgentInv'
  BY Zenon, <1>13, <1>14, <1>15, <1>16, <1>17, AgentStep DEF ExchangeInv
<1>19. VerdictInv'
  <2>1. SUFFICES ASSUME "timeout" \notin slow PROVE VerdictInv'
    BY Zenon, <1>1 DEF VerdictInv
  <2>2. \A i \in 1 .. Len(rx'[c]) : rx'[c][i].from # "daemon"
    BY Zenon, <1>2, <1>5, <1>9, <2>1 DEF VerdictInv
  <2>3. \A b \in Conns, q \in Pipes : Awaits(b, q) => Awaits(b, q)'
    BY Zenon, <1>9, <1>13 DEF Awaits, Untouched
  <2>4. \A b \in Conns : pc'[b] # "broken"
    BY Zenon, <1>2, <1>9, <1>10, <2>1 DEF VerdictInv
  <2>5. \A b \in Conns : \A i \in 1 .. Len(rx'[b]) :
          rx'[b][i].from = "daemon" => pc'[b] = "wait" /\ Len(rx'[b]) = 1
    <3>1. ASSUME NEW b \in Conns, b # c, NEW i \in 1 .. Len(rx'[b]), rx'[b][i].from = "daemon"
          PROVE  pc'[b] = "wait" /\ Len(rx'[b]) = 1
      <4>1. rx'[b] = rx[b] /\ pc'[b] = pc[b]
        BY Zenon, <1>5, <1>10, <3>1
      <4>2. QED
        BY Zenon, <1>2, <2>1, <3>1, <4>1 DEF VerdictInv
    <3>2. QED
      BY Zenon, <2>2, <3>1
  <2>6. QED
    BY Zenon, <1>1, <1>2, <2>1, <2>3, <2>4, <2>5 DEF VerdictInv, IsLookup, Answering
<1>20. Filed' /\ dpipes' = dpipes
  BY Zenon, <1>1, FilesStay
<1>21. RowsInv'
  BY Zenon, <1>2, <1>13, <1>16, <1>20, RowsStep
<1>22. QED
  BY Zenon, <1>18, <1>19, <1>21 DEF ExchangeInv
-----------------------------------------------------------------------------
(* The server.                                                             *)

\* What the server answers with.
LEMMA AnswerEffect ==
  ASSUME Types, NEW c \in Conns, NEW q \in Commands, Answer(c, q)
  PROVE  /\ txn' \in [Conns -> BOOLEAN]
         /\ \E m \in Messages : /\ m.from = "server" /\ (m.kind = "rows" => m.rows.stmt = q)
                                /\ rx' = [rx EXCEPT ![c] = Append(rx[c], m)]
<1>1. txn \in [Conns -> BOOLEAN] /\ txn[c] \in BOOLEAN
  BY Zenon DEF Types, ServerTypes
<1>2. CASE /\ q \in Stmts /\ txn' = txn
           /\ rx' = [rx EXCEPT ![c] = Append(@, Response("rows", [stmt |-> q, txn |-> txn[c]], txn[c]))]
  <2> DEFINE m == Response("rows", [stmt |-> q, txn |-> txn[c]], txn[c])
  <2>1. m \in Messages /\ m.from = "server" /\ m.rows.stmt = q
    BY <1>1, <1>2 DEF Messages, Response, Rows
  <2>2. rx' = [rx EXCEPT ![c] = Append(rx[c], m)]
    BY Zenon, <1>2
  <2>3. QED
    BY Zenon, <1>1, <1>2, <2>1, <2>2
<1>3. CASE /\ q \in {Begin, Commit} /\ txn' = [txn EXCEPT ![c] = q = Begin]
           /\ rx' = [rx EXCEPT ![c] = Append(@, Response("ok", Nil, q = Begin))]
  <2> DEFINE m == Response("ok", Nil, q = Begin)
  <2>1. m \in Messages /\ m.from = "server" /\ m.kind # "rows"
    BY DEF Messages, Response
  <2>2. rx' = [rx EXCEPT ![c] = Append(rx[c], m)] /\ txn' \in [Conns -> BOOLEAN]
    BY Zenon, <1>1, <1>3
  <2>3. QED
    BY Zenon, <2>1, <2>2
<1>4. CASE /\ rx' = [rx EXCEPT ![c] = Append(@, Response("err", Nil, FALSE))] /\ txn' = txn
  <2> DEFINE m == Response("err", Nil, FALSE)
  <2>1. m \in Messages /\ m.from = "server" /\ m.kind # "rows"
    BY DEF Messages, Response
  <2>2. rx' = [rx EXCEPT ![c] = Append(rx[c], m)]
    BY Zenon, <1>4
  <2>3. QED
    BY Zenon, <1>1, <1>4, <2>1, <2>2
<1>5. QED
  BY Zenon, <1>2, <1>3, <1>4 DEF Answer

\* A message arrives.
Arrives(c, m) == rx'[c] = Append(rx[c], m)

\* What the socket holds then.
LEMMA ArrivedFacts ==
  ASSUME Types, NEW c \in Conns, NEW m \in Messages, Arrives(c, m)
  PROVE  /\ rx'[c] \in Seq(Messages) /\ Len(rx[c]) + 1 \in 1 .. Len(rx'[c])
         /\ rx'[c][Len(rx[c]) + 1] = m /\ Len(rx[c]) + 1 \notin 1 .. Len(rx[c])
         /\ \A i \in 1 .. Len(rx[c]) : i \in 1 .. Len(rx'[c]) /\ rx'[c][i] = rx[c][i]
         /\ \A i \in 1 .. Len(rx'[c]) : \/ i \in 1 .. Len(rx[c]) /\ rx'[c][i] = rx[c][i]
                                        \/ i = Len(rx[c]) + 1 /\ rx'[c][i] = m
         /\ rx[c] = << >> => Len(rx'[c]) = 1
<1>1. rx[c] \in Seq(Messages)
  BY Zenon DEF Types
<1>2. /\ Append(rx[c], m) \in Seq(Messages) /\ Len(rx[c]) + 1 \in 1 .. Len(Append(rx[c], m))
      /\ \A i \in 1 .. Len(Append(rx[c], m)) :
           \/ i \in 1 .. Len(rx[c]) /\ Append(rx[c], m)[i] = rx[c][i]
           \/ i = Len(rx[c]) + 1 /\ Append(rx[c], m)[i] = m
  BY Zenon, <1>1, AppendFacts
<1>3. /\ \A i \in 1 .. Len(rx[c]) : i \in 1 .. Len(Append(rx[c], m)) /\ i # Len(rx[c]) + 1
      /\ rx[c] = << >> => Len(Append(rx[c], m)) = 1
  BY <1>1
<1>4. \A i \in 1 .. Len(rx[c]) : i \in 1 .. Len(Append(rx[c], m)) /\ Append(rx[c], m)[i] = rx[c][i]
  BY Zenon, <1>2, <1>3
<1>5. /\ Append(rx[c], m)[Len(rx[c]) + 1] = m /\ Len(rx[c]) + 1 \notin 1 .. Len(rx[c])
  BY Zenon, <1>2, <1>3
<1>6. QED
  BY Zenon, <1>2, <1>3, <1>4, <1>5 DEF Arrives

\* A query is answered: what was a query under way is a response now.
LEMMA ServerKeeps ==
  ASSUME ExchangeInv, NEW c \in Conns, Server(c)
  PROVE  ExchangeInv'
<1>1. /\ srv[c] # << >> /\ Answer(c, Head(srv[c])) /\ srv' = [srv EXCEPT ![c] = Tail(srv[c])]
      /\ UNCHANGED <<pc, query, pending, status, in_txn, capturing, captured, caps_known, poolVars,
                     inbox, cacheVars, daemon, slow, writes>>
  BY Zenon DEF Server, cmdVars, connVars
<1>2. /\ Types /\ Pool /\ PoolTypes /\ InHand(c) /\ SentOnce(c) /\ VerdictInv /\ RowsInv
      /\ AboutQuery(c) /\ CapturedIsOwn(c)
      /\ rx \in [Conns -> Seq(Messages)] /\ srv \in [Conns -> Seq(Commands)] /\ srv[c] \in Seq(Commands)
  BY Zenon DEF ExchangeInv, AgentInv, Types, ServerTypes, RowsInv
<1>3. /\ Head(srv[c]) \in Commands /\ Head(srv[c]) = srv[c][1] /\ Tail(srv[c]) \in Seq(Commands)
      /\ 1 \in 1 .. Len(srv[c]) /\ (Len(srv[c]) = 1 => Tail(srv[c]) = << >>)
      /\ \A i \in 1 .. Len(Tail(srv[c])) : Tail(srv[c])[i] = srv[c][i + 1] /\ i + 1 \in 1 .. Len(srv[c])
  BY Zenon, <1>1, <1>2, TailFacts
<1>4. PICK m \in Messages : /\ m.from = "server" /\ (m.kind = "rows" => m.rows.stmt = Head(srv[c]))
                            /\ rx' = [rx EXCEPT ![c] = Append(rx[c], m)]
  BY Zenon, <1>1, <1>2, <1>3, AnswerEffect
<1>5. txn' \in [Conns -> BOOLEAN]
  BY Zenon, <1>1, <1>2, <1>3, AnswerEffect
<1>6. Arrives(c, m) /\ \A b \in Conns \ {c} : rx'[b] = rx[b]
  BY Zenon, <1>2, <1>4 DEF Arrives
<1>7. /\ rx'[c] \in Seq(Messages) /\ Len(rx[c]) + 1 \in 1 .. Len(rx'[c])
      /\ rx'[c][Len(rx[c]) + 1] = m /\ Len(rx[c]) + 1 \notin 1 .. Len(rx[c])
      /\ \A i \in 1 .. Len(rx[c]) : i \in 1 .. Len(rx'[c]) /\ rx'[c][i] = rx[c][i]
      /\ \A i \in 1 .. Len(rx'[c]) : \/ i \in 1 .. Len(rx[c]) /\ rx'[c][i] = rx[c][i]
                                     \/ i = Len(rx[c]) + 1 /\ rx'[c][i] = m
  BY Zenon, <1>2, <1>6, ArrivedFacts
<1>8. rx' \in [Conns -> Seq(Messages)]
  BY Zenon, <1>2, <1>4, <1>6, <1>7
<1>9. /\ srv' \in [Conns -> Seq(Commands)] /\ srv'[c] = Tail(srv[c])
      /\ \A b \in Conns \ {c} : srv'[b] = srv[b]
  BY Zenon, <1>1, <1>2, <1>3
<1>10. \A b \in Conns \ {c} : Untouched(b)
  BY Zenon, <1>1, <1>6, <1>9 DEF Untouched, poolVars
<1>11. PoolTypes' /\ Pool'
  BY Zenon, <1>1, <1>2 DEF PoolTypes, Pool, poolVars
<1>12. Types'
  BY Zenon, <1>1, <1>2, <1>5, <1>8, <1>9, <1>11 DEF Types, ServerTypes, CmdTypes, ConnTypes, CacheTypes,
     cacheVars
<1>13. InHand(c)' /\ CapturedIsOwn(c)'
  BY Zenon, <1>1, <1>2 DEF InHand, CapturedIsOwn, poolVars
<1>14. pc[c] \in {"read", "broken"} /\ pc[c] # "wait"
  <2>1. pc[c] \in {"read", "broken"}
    BY Zenon, <1>1, <1>2 DEF SentOnce
  <2>2. QED
    BY <2>1
<1>15. SentOnce(c)'
  <2>1. CASE pc[c] = "read"
    <3>1. Len(srv[c]) = 1 /\ FromServer(c) = {}
      BY Zenon, <1>1, <1>2, <2>1 DEF SentOnce
    <3>2. srv'[c] = << >>
      BY Zenon, <1>3, <1>9, <3>1
    <3>3. \A i \in 1 .. Len(rx[c]) : rx[c][i].from # "server"
      BY Zenon, <3>1 DEF FromServer
    <3>4. FromServer(c)' = {Len(rx[c]) + 1}
      <4>1. Len(rx[c]) + 1 \in FromServer(c)'
        BY Zenon, <1>4, <1>7 DEF FromServer
      <4>2. ASSUME NEW i \in FromServer(c)' PROVE i = Len(rx[c]) + 1
        <5>1. i \in 1 .. Len(rx'[c]) /\ rx'[c][i].from = "server"
          BY Zenon DEF FromServer
        <5>2. QED
          BY Zenon, <1>7, <3>3, <5>1
      <4>3. QED
        BY Zenon, <4>1, <4>2
    <3>5. QED
      BY Zenon, <1>1, <1>7, <2>1, <3>2, <3>4 DEF SentOnce
  <2>2. CASE pc[c] = "broken"
    <3>1. pc'[c] = "broken" /\ pc'[c] # "read"
      BY <1>1, <2>2
    <3>2. QED
      BY Zenon, <3>1 DEF SentOnce
  <2>3. QED
    BY Zenon, <1>14, <2>1, <2>2
<1>16. AgentInv'
  BY Zenon, <1>10, <1>11, <1>12, <1>13, <1>15, AgentStep DEF ExchangeInv
<1>17. VerdictInv'
  <2>1. SUFFICES ASSUME "timeout" \notin slow PROVE VerdictInv'
    BY Zenon, <1>1 DEF VerdictInv
  <2>2. m.from # "daemon"
    BY <1>4
  <2>3. \A i \in 1 .. Len(rx'[c]) : rx'[c][i].from # "daemon"
    BY Zenon, <1>2, <1>7, <1>14, <2>1, <2>2 DEF VerdictInv
  <2>4. \A b \in Conns, q \in Pipes : Awaits(b, q) => Awaits(b, q)'
    BY Zenon, <1>10, <1>14 DEF Awaits, Untouched
  <2>5. ASSUME NEW b \in Conns, b # c, NEW i \in 1 .. Len(rx'[b]), rx'[b][i].from = "daemon"
        PROVE  pc'[b] = "wait" /\ Len(rx'[b]) = 1
    BY Zenon, <1>1, <1>2, <1>6, <2>1, <2>5 DEF VerdictInv
  <2>6. \A b \in Conns : \A i \in 1 .. Len(rx'[b]) :
          rx'[b][i].from = "daemon" => pc'[b] = "wait" /\ Len(rx'[b]) = 1
    BY Zenon, <2>3, <2>5
  <2>7. QED
    BY Zenon, <1>1, <1>2, <2>1, <2>4, <2>6 DEF VerdictInv, IsLookup, Answering
<1>18. Filed' /\ dpipes' = dpipes
  BY Zenon, <1>1, FilesStay
<1>19. AboutQuery(c)'
  <2>1. SUFFICES ASSUME pc[c] = "read"
                 PROVE  /\ \A i \in 1 .. Len(srv'[c]) : srv'[c][i] = query[c]
                        /\ \A i \in 1 .. Len(rx'[c]) : rx'[c][i].kind = "rows" => rx'[c][i].rows.stmt = query[c]
    BY Zenon, <1>1 DEF AboutQuery
  <2>2. /\ \A i \in 1 .. Len(srv[c]) : srv[c][i] = query[c]
        /\ \A i \in 1 .. Len(rx[c]) : rx[c][i].kind = "rows" => rx[c][i].rows.stmt = query[c]
    BY Zenon, <1>2, <2>1 DEF AboutQuery
  <2>3. \A i \in 1 .. Len(srv'[c]) : srv'[c][i] = query[c]
    BY Zenon, <1>3, <1>9, <2>2
  <2>4. m.kind = "rows" => m.rows.stmt = query[c]
    BY Zenon, <1>3, <1>4, <2>2
  <2>5. QED
    BY Zenon, <1>7, <2>2, <2>3, <2>4
<1>20. RowsInv'
  BY Zenon, <1>2, <1>10, <1>13, <1>18, <1>19, RowsStep
<1>21. QED
  BY Zenon, <1>16, <1>17, <1>20 DEF ExchangeInv
-----------------------------------------------------------------------------
(* The daemon.                                                             *)

\* The connections, when the daemon or a cache does something that reaches no socket.
LEMMA ConnsStay ==
  ASSUME ExchangeInv,
         UNCHANGED <<serverVars, rx, pc, cmdVars, status, connVars, poolVars, slow, writes>>,
         inbox' \in [Pipes -> Seq(Requests)], CacheTypes',
         daemon' \in DaemonTypes
  PROVE  /\ AgentInv' /\ (\A c \in Conns : AboutQuery(c)' /\ CapturedIsOwn(c)')
         /\ \A c \in Conns, k \in Pipes : Awaits(c, k) => Awaits(c, k)'
<1>1. UNCHANGED <<srv, txn, rx, pc, query, pending, status, in_txn, capturing, captured, caps_known,
                  free, dpipes, cpipe, dpipe, slow, writes>>
  BY Zenon DEF serverVars, cmdVars, connVars, poolVars
<1>2. Types /\ Pool /\ \A c \in Conns : InHand(c) /\ SentOnce(c) /\ AboutQuery(c) /\ CapturedIsOwn(c)
  BY Zenon DEF ExchangeInv, AgentInv, RowsInv
<1>3. Types'
  BY Zenon, <1>1, <1>2 DEF Types, ServerTypes, CmdTypes, ConnTypes, PoolTypes
<1>4. Pool'
  BY Zenon, <1>1, <1>2 DEF Pool
<1>5. \A c \in Conns : Untouched(c)
  BY Zenon, <1>1 DEF Untouched
<1>6. ASSUME NEW c \in Conns PROVE InHand(c)' /\ SentOnce(c)'
  BY Zenon, <1>2, <1>5, OthersStay
<1>7. ASSUME NEW c \in Conns PROVE AboutQuery(c)' /\ CapturedIsOwn(c)'
  <2>1. AboutQuery(c)'
    BY Zenon, <1>2, <1>5, AboutStays
  <2>2. CapturedIsOwn(c)'
    BY Zenon, <1>1, <1>2 DEF CapturedIsOwn
  <2>3. QED
    BY Zenon, <2>1, <2>2
<1>8. QED
  BY Zenon, <1>1, <1>3, <1>4, <1>6, <1>7 DEF AgentInv, Awaits

\* serve() takes a request off a pipe.
LEMMA RequestFacts ==
  ASSUME ExchangeInv, NEW k \in Pipes, NEW kind, Request(k, kind)
  PROVE  /\ inbox' \in [Pipes -> Seq(Requests)] /\ \A q \in Pipes \ {k} : inbox'[q] = inbox[q]
         /\ Head(inbox[k]) \in Requests /\ Head(inbox[k]) = inbox[k][1] /\ 1 \in 1 .. Len(inbox[k])
         /\ inbox[k][1].kind = kind
         /\ \A i \in 1 .. Len(inbox'[k]) : /\ inbox'[k][i] = inbox[k][i + 1]
                                           /\ i + 1 \in 1 .. Len(inbox[k]) /\ i + 1 # 1
         /\ \A i, j \in 1 .. Len(inbox'[k]) : i + 1 = j + 1 => i = j
<1>1. /\ inbox[k] # << >> /\ Head(inbox[k]).kind = kind /\ inbox' = [inbox EXCEPT ![k] = Tail(inbox[k])]
  BY Zenon DEF Request
<1>2. inbox \in [Pipes -> Seq(Requests)] /\ inbox[k] \in Seq(Requests)
  BY Zenon DEF ExchangeInv, AgentInv, Types
<1>3. /\ Tail(inbox[k]) \in Seq(Requests) /\ Head(inbox[k]) \in Requests /\ Head(inbox[k]) = inbox[k][1]
      /\ 1 \in 1 .. Len(inbox[k])
      /\ \A i \in 1 .. Len(Tail(inbox[k])) : /\ Tail(inbox[k])[i] = inbox[k][i + 1]
                                             /\ i + 1 \in 1 .. Len(inbox[k]) /\ i + 1 # 1
      /\ \A i, j \in 1 .. Len(Tail(inbox[k])) : i + 1 = j + 1 => i = j
  BY Zenon, <1>1, <1>2, TailFacts
<1>4. inbox'[k] = Tail(inbox[k]) /\ \A q \in Pipes \ {k} : inbox'[q] = inbox[q]
  BY Zenon, <1>1, <1>2
<1>5. inbox' \in [Pipes -> Seq(Requests)]
  BY Zenon, <1>1, <1>2, <1>3
<1>6. inbox[k][1].kind = kind
  BY Zenon, <1>1, <1>3
<1>7. QED
  BY Zenon, <1>3, <1>4, <1>5, <1>6

\* What is on the pipes then was there before.
LEMMA RequestsLeft ==
  ASSUME ExchangeInv, NEW k \in Pipes, NEW kind, Request(k, kind),
         NEW q \in Pipes, NEW i \in 1 .. Len(inbox'[q])
  PROVE  \E j \in 1 .. Len(inbox[q]) : inbox'[q][i] = inbox[q][j]
<1>1. /\ \A p \in Pipes \ {k} : inbox'[p] = inbox[p]
      /\ \A n \in 1 .. Len(inbox'[k]) : inbox'[k][n] = inbox[k][n + 1] /\ n + 1 \in 1 .. Len(inbox[k])
  BY Zenon, RequestFacts
<1>2. CASE q = k
  BY Zenon, <1>1, <1>2
<1>3. CASE q # k
  BY Zenon, <1>1, <1>3
<1>4. QED
  BY Zenon, <1>2, <1>3

\* What is left on the pipes: one lookup at most, with its asker.
LEMMA LookupsLeft ==
  ASSUME ExchangeInv, "timeout" \notin slow, NEW k \in Pipes, NEW kind, Request(k, kind)
  PROVE  \A q \in Pipes : \A i \in 1 .. Len(inbox'[q]) : IsLookup(q, i)' =>
           /\ \E b \in Conns : Awaits(b, q)
           /\ \A j \in 1 .. Len(inbox'[q]) : IsLookup(q, j)' => i = j
           /\ ~Answering(q) /\ (q = k => kind # "LOOKUP")
<1>1. VerdictInv
  BY Zenon DEF ExchangeInv
<1>2. /\ \A q \in Pipes \ {k} : inbox'[q] = inbox[q]
      /\ inbox[k][1].kind = kind /\ 1 \in 1 .. Len(inbox[k])
      /\ \A i \in 1 .. Len(inbox'[k]) : /\ inbox'[k][i] = inbox[k][i + 1]
                                        /\ i + 1 \in 1 .. Len(inbox[k]) /\ i + 1 # 1
      /\ \A i, j \in 1 .. Len(inbox'[k]) : i + 1 = j + 1 => i = j
  BY Zenon, RequestFacts
<1>3. ASSUME NEW q \in Pipes, q # k, NEW i \in 1 .. Len(inbox'[q]), IsLookup(q, i)'
      PROVE  /\ \E b \in Conns : Awaits(b, q)
             /\ \A j \in 1 .. Len(inbox'[q]) : IsLookup(q, j)' => i = j
             /\ ~Answering(q)
  <2>1. inbox'[q] = inbox[q]
    BY Zenon, <1>2, <1>3
  <2>2. QED
    BY Zenon, <1>1, <1>3, <2>1 DEF VerdictInv, IsLookup
<1>4. ASSUME NEW i \in 1 .. Len(inbox'[k]), IsLookup(k, i)'
      PROVE  /\ \E b \in Conns : Awaits(b, k)
             /\ \A j \in 1 .. Len(inbox'[k]) : IsLookup(k, j)' => i = j
             /\ ~Answering(k) /\ kind # "LOOKUP"
  <2>1. \A j \in 1 .. Len(inbox'[k]) : IsLookup(k, j)' => IsLookup(k, j + 1)
    BY Zenon, <1>2 DEF IsLookup
  <2>2. \A j \in 1 .. Len(inbox'[k]) : IsLookup(k, j)' => i + 1 = j + 1
    BY Zenon, <1>1, <1>2, <1>4, <2>1 DEF VerdictInv
  <2>3. ~IsLookup(k, 1)
    BY Zenon, <1>1, <1>2, <1>4, <2>1 DEF VerdictInv
  <2>4. QED
    BY Zenon, <1>1, <1>2, <1>4, <2>1, <2>2, <2>3 DEF VerdictInv, IsLookup
<1>5. ASSUME NEW q \in Pipes, NEW i \in 1 .. Len(inbox'[q]), IsLookup(q, i)'
      PROVE  /\ \E b \in Conns : Awaits(b, q)
             /\ \A j \in 1 .. Len(inbox'[q]) : IsLookup(q, j)' => i = j
             /\ ~Answering(q) /\ (q = k => kind # "LOOKUP")
  <2>1. CASE q = k
    BY Zenon, <1>4, <1>5, <2>1
  <2>2. CASE q # k
    BY Zenon, <1>3, <1>5, <2>2
  <2>3. QED
    BY Zenon, <2>1, <2>2
<1>6. QED
  BY Zenon, <1>5

\* serve() has read a LOOKUP: its asker waits for the answer.
LEMMA ServeLookupKeeps ==
  ASSUME ExchangeInv, NEW k \in Pipes, ServeLookup(k)
  PROVE  ExchangeInv'
<1>1. /\ Request(k, "LOOKUP") /\ daemon.pc = "idle"
      /\ daemon' = [pc |-> "answer", key |-> k, stmt |-> dpipes[k]]
      /\ UNCHANGED <<serverVars, rx, pc, cmdVars, status, connVars, poolVars, cacheVars, slow, writes>>
  BY Zenon DEF ServeLookup, Request
<1>2. /\ dpipes[k] \in Stmts \cup {Nil} /\ CacheTypes
      /\ daemon' \in DaemonTypes
  <2>1. dpipes[k] \in Stmts \cup {Nil} /\ CacheTypes
    BY Zenon DEF ExchangeInv, AgentInv, Types, PoolTypes
  <2>2. QED
    BY <1>1, <2>1 DEF DaemonTypes
<1>3. /\ inbox' \in [Pipes -> Seq(Requests)] /\ \A q \in Pipes \ {k} : inbox'[q] = inbox[q]
      /\ inbox[k][1].kind = "LOOKUP" /\ 1 \in 1 .. Len(inbox[k])
  BY Zenon, <1>1, RequestFacts
<1>4. CacheTypes'
  BY Zenon, <1>1, <1>2 DEF CacheTypes, cacheVars
<1>5. /\ AgentInv' /\ (\A c \in Conns : AboutQuery(c)' /\ CapturedIsOwn(c)')
      /\ \A c \in Conns, q \in Pipes : Awaits(c, q) => Awaits(c, q)'
  BY Zenon, <1>1, <1>2, <1>3, <1>4, ConnsStay
<1>6. VerdictInv'
  <2>1. SUFFICES ASSUME "timeout" \notin slow PROVE VerdictInv'
    BY Zenon, <1>1 DEF VerdictInv
  <2>2. VerdictInv
    BY Zenon DEF ExchangeInv
  <2>3. daemon'.key = k
    BY <1>1
  <2>4. ASSUME NEW q \in Pipes, NEW i \in 1 .. Len(inbox'[q]), IsLookup(q, i)'
        PROVE  /\ \E b \in Conns : Awaits(b, q)'
               /\ \A j \in 1 .. Len(inbox'[q]) : IsLookup(q, j)' => i = j
               /\ ~Answering(q)'
    <3>1. /\ \E b \in Conns : Awaits(b, q)
          /\ \A j \in 1 .. Len(inbox'[q]) : IsLookup(q, j)' => i = j
          /\ q # k
      BY Zenon, <1>1, <2>1, <2>4, LookupsLeft
    <3>2. QED
      BY Zenon, <1>5, <2>3, <3>1 DEF Answering
  <2>5. \A q \in Pipes : Answering(q)' => \E b \in Conns : Awaits(b, q)'
    <3>1. \E b \in Conns : Awaits(b, k)
      BY Zenon, <1>3, <2>1, <2>2 DEF VerdictInv, IsLookup
    <3>2. QED
      BY Zenon, <1>5, <2>3, <3>1 DEF Answering
  <2>6. QED
    BY Zenon, <1>1, <2>1, <2>2, <2>4, <2>5 DEF VerdictInv
<1>7. Filed'
  <2>1. Filed /\ UNCHANGED <<dpipes, local, upstream, slow>>
    BY Zenon, <1>1 DEF ExchangeInv, RowsInv, poolVars, cacheVars
  <2>2. \A q \in Pipes : \A i \in 1 .. Len(inbox'[q]) : \E j \in 1 .. Len(inbox[q]) : inbox'[q][i] = inbox[q][j]
    BY Zenon, <1>1, RequestsLeft
  <2>3. SUFFICES ASSUME "reuse" \notin slow, NEW q \in Pipes, NEW i \in 1 .. Len(inbox'[q]),
                        inbox'[q][i].kind = "STORE"
                 PROVE  inbox'[q][i].rows.stmt = dpipes[q]
    BY Zenon, <2>1 DEF Filed
  <2>4. PICK j \in 1 .. Len(inbox[q]) : inbox'[q][i] = inbox[q][j]
    BY Zenon, <2>2
  <2>5. QED
    BY Zenon, <2>1, <2>3, <2>4 DEF Filed
<1>8. QED
  BY Zenon, <1>5, <1>6, <1>7 DEF ExchangeInv, RowsInv

\* A cache gets other rows for a statement.
LEMMA KeepFacts ==
  ASSUME NEW f \in [Stmts -> Public \cup {Nil}], NEW s, NEW r, s \in Stmts => r \in Public \cup {Nil}
  PROVE  /\ [f EXCEPT ![s] = r] \in [Stmts -> Public \cup {Nil}]
         /\ \A t \in Stmts : \/ [f EXCEPT ![s] = r][t] = f[t]
                             \/ t = s /\ [f EXCEPT ![s] = r][t] = r
<1>1. \A t \in Stmts : \/ t # s /\ [f EXCEPT ![s] = r][t] = f[t]
                       \/ t = s /\ [f EXCEPT ![s] = r][t] = r
  OBVIOUS
<1>2. [f EXCEPT ![s] = r] \in [Stmts -> Public \cup {Nil}]
  OBVIOUS
<1>3. QED
  BY Zenon, <1>1, <1>2

\* serve() has read a STORE: rows anyone may see, under the statement they answer.
LEMMA ServeStoreKeeps ==
  ASSUME ExchangeInv, NEW k \in Pipes, ServeStore(k)
  PROVE  ExchangeInv'
<1> DEFINE rows == Head(inbox[k]).rows
<1>1. /\ Request(k, "STORE")
      /\ upstream' = upstream \/ upstream' = [upstream EXCEPT ![dpipes[k]] = rows]
      /\ local' = local \/ local' = [local EXCEPT ![dpipes[k]] = rows]
      /\ UNCHANGED <<serverVars, rx, pc, cmdVars, status, connVars, poolVars, daemon, slow, writes>>
  BY Zenon DEF ServeStore, ValkeySetex, Keep
<1>2. /\ inbox' \in [Pipes -> Seq(Requests)] /\ \A q \in Pipes \ {k} : inbox'[q] = inbox[q]
      /\ Head(inbox[k]) \in Requests /\ Head(inbox[k]) = inbox[k][1]
      /\ inbox[k][1].kind = "STORE" /\ 1 \in 1 .. Len(inbox[k])
  BY Zenon, <1>1, RequestFacts
<1>3. rows \in Public
  BY Zenon, <1>2 DEF Requests
<1>4. /\ local \in [Stmts -> Public \cup {Nil}] /\ upstream \in [Stmts -> Public \cup {Nil}]
      /\ daemon \in DaemonTypes /\ Filed
  BY Zenon DEF ExchangeInv, AgentInv, RowsInv, Types, CacheTypes
<1>5. /\ local' \in [Stmts -> Public \cup {Nil}]
      /\ \A t \in Stmts : local'[t] = local[t] \/ (t = dpipes[k] /\ local'[t] = rows)
  <2>1. /\ [local EXCEPT ![dpipes[k]] = rows] \in [Stmts -> Public \cup {Nil}]
        /\ \A t \in Stmts : \/ [local EXCEPT ![dpipes[k]] = rows][t] = local[t]
                            \/ t = dpipes[k] /\ [local EXCEPT ![dpipes[k]] = rows][t] = rows
    BY Zenon, <1>3, <1>4, KeepFacts
  <2>2. QED
    BY Zenon, <1>1, <1>4, <2>1
<1>6. /\ upstream' \in [Stmts -> Public \cup {Nil}]
      /\ \A t \in Stmts : upstream'[t] = upstream[t] \/ (t = dpipes[k] /\ upstream'[t] = rows)
  <2>1. /\ [upstream EXCEPT ![dpipes[k]] = rows] \in [Stmts -> Public \cup {Nil}]
        /\ \A t \in Stmts : \/ [upstream EXCEPT ![dpipes[k]] = rows][t] = upstream[t]
                            \/ t = dpipes[k] /\ [upstream EXCEPT ![dpipes[k]] = rows][t] = rows
    BY Zenon, <1>3, <1>4, KeepFacts
  <2>2. QED
    BY Zenon, <1>1, <1>4, <2>1
<1>7. daemon' \in DaemonTypes /\ CacheTypes'
  BY Zenon, <1>1, <1>4, <1>5, <1>6 DEF CacheTypes
<1>8. /\ AgentInv' /\ (\A c \in Conns : AboutQuery(c)' /\ CapturedIsOwn(c)')
      /\ \A c \in Conns, q \in Pipes : Awaits(c, q) => Awaits(c, q)'
  BY Zenon, <1>1, <1>2, <1>7, ConnsStay
<1>9. VerdictInv'
  <2>1. SUFFICES ASSUME "timeout" \notin slow PROVE VerdictInv'
    BY Zenon, <1>1 DEF VerdictInv
  <2>2. VerdictInv
    BY Zenon DEF ExchangeInv
  <2>3. ASSUME NEW q \in Pipes, NEW i \in 1 .. Len(inbox'[q]), IsLookup(q, i)'
        PROVE  /\ \E b \in Conns : Awaits(b, q)'
               /\ \A j \in 1 .. Len(inbox'[q]) : IsLookup(q, j)' => i = j
               /\ ~Answering(q)'
    <3>1. /\ \E b \in Conns : Awaits(b, q)
          /\ \A j \in 1 .. Len(inbox'[q]) : IsLookup(q, j)' => i = j
          /\ ~Answering(q)
      BY Zenon, <1>1, <2>1, <2>3, LookupsLeft
    <3>2. QED
      BY Zenon, <1>1, <1>8, <3>1 DEF Answering
  <2>4. \A q \in Pipes : Answering(q)' => \E b \in Conns : Awaits(b, q)'
    BY Zenon, <1>1, <1>8, <2>1, <2>2 DEF Answering, VerdictInv
  <2>5. QED
    BY Zenon, <1>1, <2>1, <2>2, <2>3, <2>4 DEF VerdictInv
<1>10. Filed'
  <2>1. SUFFICES ASSUME "reuse" \notin slow PROVE Filed'
    BY Zenon, <1>1 DEF Filed
  <2>2. /\ \A q \in Pipes : \A i \in 1 .. Len(inbox[q]) :
             inbox[q][i].kind = "STORE" => inbox[q][i].rows.stmt = dpipes[q]
        /\ \A s \in Stmts : local[s] # Nil => local[s].stmt = s
        /\ \A s \in Stmts : upstream[s] # Nil => upstream[s].stmt = s
    BY Zenon, <1>4, <2>1 DEF Filed
  <2>3. rows.stmt = dpipes[k]
    BY Zenon, <1>2, <2>2
  <2>4. ASSUME NEW q \in Pipes, NEW i \in 1 .. Len(inbox'[q]), inbox'[q][i].kind = "STORE"
        PROVE  inbox'[q][i].rows.stmt = dpipes[q]
    <3>1. PICK j \in 1 .. Len(inbox[q]) : inbox'[q][i] = inbox[q][j]
      BY Zenon, <1>1, RequestsLeft
    <3>2. QED
      BY Zenon, <2>2, <2>4, <3>1
  <2>5. ASSUME NEW s \in Stmts
        PROVE  /\ local'[s] # Nil => local'[s].stmt = s
               /\ upstream'[s] # Nil => upstream'[s].stmt = s
    BY Zenon, <1>5, <1>6, <2>2, <2>3
  <2>6. dpipes' = dpipes
    BY Zenon, <1>1 DEF poolVars
  <2>7. QED
    BY Zenon, <2>4, <2>5, <2>6 DEF Filed
<1>11. QED
  BY Zenon, <1>8, <1>9, <1>10 DEF ExchangeInv, RowsInv

\* reply(): the verdict goes to the one who waits for it, or to no one.
LEMMA ReplyKeeps ==
  ASSUME ExchangeInv, NEW v \in Verdicts, daemon.pc = "answer", Reply(v),
         UNCHANGED <<serverVars, pc, cmdVars, status, connVars, poolVars, inbox, slow, writes>>,
         CacheTypes', Filed'
  PROVE  ExchangeInv'
<1> DEFINE k == daemon.key
<1> DEFINE m == Verdict(v)
<1>1. /\ rx' = [c \in Conns |-> IF cpipe[k] = c THEN Append(rx[c], m) ELSE rx[c]]
      /\ daemon' = [pc |-> "idle", key |-> Nil, stmt |-> Nil]
      /\ UNCHANGED <<srv, txn, pc, query, pending, status, in_txn, capturing, captured, caps_known,
                     free, dpipes, cpipe, dpipe, inbox, slow, writes>>
  BY Zenon DEF Reply, serverVars, cmdVars, connVars, poolVars
<1>2. /\ Types /\ Pool /\ VerdictInv
      /\ \A c \in Conns : InHand(c) /\ SentOnce(c) /\ AboutQuery(c) /\ CapturedIsOwn(c)
  BY Zenon DEF ExchangeInv, AgentInv, RowsInv
<1>3. k \in Pipes /\ Answering(k) /\ \A q \in Pipes : Answering(q) => q = k
  <2>1. daemon \in DaemonTypes
    BY Zenon, <1>2 DEF Types
  <2>2. daemon.key \in Pipes
    BY <2>1 DEF DaemonTypes
  <2>3. QED
    BY Zenon, <2>2 DEF Answering
<1>4. /\ m \in Messages /\ m.from = "daemon" /\ m.from # "server" /\ m.kind # "rows"
      /\ daemon' \in DaemonTypes /\ daemon'.pc # "answer"
  BY <1>1 DEF Verdict, Messages, Verdicts, DaemonTypes
<1>5. ASSUME NEW b \in Conns
      PROVE  \/ rx'[b] = rx[b]
             \/ cpipe[k] = b /\ Arrives(b, m)
  BY Zenon, <1>1 DEF Arrives
<1>6. ASSUME NEW b \in Conns
      PROVE  /\ rx'[b] \in Seq(Messages) /\ FromServer(b)' = FromServer(b)
             /\ \A i \in 1 .. Len(rx[b]) : i \in 1 .. Len(rx'[b])
             /\ \A i \in 1 .. Len(rx'[b]) : rx'[b][i].kind = "rows" =>
                  i \in 1 .. Len(rx[b]) /\ rx'[b][i] = rx[b][i]
             /\ rx'[b] # rx[b] /\ rx[b] = << >> => Len(rx'[b]) = 1
  <2>1. CASE rx'[b] = rx[b]
    <3>1. rx[b] \in Seq(Messages)
      BY Zenon, <1>2 DEF Types
    <3>2. FromServer(b)' = FromServer(b)
      BY Zenon, <2>1 DEF FromServer
    <3>3. QED
      BY Zenon, <2>1, <3>1, <3>2
  <2>2. CASE Arrives(b, m)
    <3>1. /\ rx'[b] \in Seq(Messages)
          /\ \A i \in 1 .. Len(rx[b]) : i \in 1 .. Len(rx'[b]) /\ rx'[b][i] = rx[b][i]
          /\ \A i \in 1 .. Len(rx'[b]) : \/ i \in 1 .. Len(rx[b]) /\ rx'[b][i] = rx[b][i]
                                         \/ i = Len(rx[b]) + 1 /\ rx'[b][i] = m
          /\ rx[b] = << >> => Len(rx'[b]) = 1
      BY Zenon, <1>2, <1>4, <2>2, ArrivedFacts
    <3>2. \A i : i \in FromServer(b)' <=> i \in FromServer(b)
      BY Zenon, <1>4, <3>1 DEF FromServer
    <3>3. FromServer(b)' = FromServer(b)
      BY Zenon, <3>2
    <3>4. QED
      BY Zenon, <1>4, <3>1, <3>3
  <2>3. QED
    BY Zenon, <1>5, <2>1, <2>2
<1>7. Types'
  <2>1. rx' \in [Conns -> Seq(Messages)]
    BY Zenon, <1>1, <1>6
  <2>2. QED
    BY Zenon, <1>1, <1>2, <1>4, <2>1 DEF Types, ServerTypes, CmdTypes, ConnTypes, PoolTypes
<1>8. Pool'
  BY Zenon, <1>1, <1>2 DEF Pool
<1>9. ASSUME NEW b \in Conns PROVE InHand(b)' /\ SentOnce(b)' /\ AboutQuery(b)' /\ CapturedIsOwn(b)'
  <2>1. InHand(b)' /\ CapturedIsOwn(b)'
    BY Zenon, <1>1, <1>2 DEF InHand, CapturedIsOwn
  <2>2. SentOnce(b)'
    <3>1. /\ FromServer(b)' = FromServer(b) /\ \A i \in 1 .. Len(rx[b]) : i \in 1 .. Len(rx'[b])
      BY Zenon, <1>6
    <3>2. pc' = pc /\ srv' = srv /\ SentOnce(b)
      BY Zenon, <1>1, <1>2
    <3>3. QED
      BY Zenon, <3>1, <3>2 DEF SentOnce
  <2>3. AboutQuery(b)'
    <3>1. SUFFICES ASSUME pc[b] = "read"
                   PROVE  /\ \A i \in 1 .. Len(srv[b]) : srv[b][i] = query[b]
                          /\ \A i \in 1 .. Len(rx'[b]) :
                               rx'[b][i].kind = "rows" => rx'[b][i].rows.stmt = query[b]
      BY Zenon, <1>1 DEF AboutQuery
    <3>2. QED
      BY Zenon, <1>2, <1>6, <3>1 DEF AboutQuery
  <2>4. QED
    BY Zenon, <2>1, <2>2, <2>3
<1>10. VerdictInv'
  <2>1. SUFFICES ASSUME "timeout" \notin slow PROVE VerdictInv'
    BY Zenon, <1>1 DEF VerdictInv
  <2>2. PICK c \in Conns : Awaits(c, k)
    BY Zenon, <1>2, <1>3, <2>1 DEF VerdictInv
  <2>3. \A b \in Conns, q \in Pipes : cpipe[q] = b <=> dpipe[b] = q
    BY Zenon, <1>2 DEF Pool
  <2>4. \A q \in Pipes : ~Answering(q)'
    BY Zenon, <1>4 DEF Answering
  <2>5. ASSUME NEW q \in Pipes, NEW i \in 1 .. Len(inbox[q]), IsLookup(q, i)
        PROVE  \E b \in Conns : Awaits(b, q)'
    <3>1. PICK b \in Conns : Awaits(b, q)
      BY Zenon, <1>2, <2>1, <2>5 DEF VerdictInv
    <3>2. q # k
      BY Zenon, <1>2, <1>3, <2>1, <2>5 DEF VerdictInv
    <3>3. cpipe[k] # b
      <4>1. dpipe[b] = q
        BY Zenon, <3>1 DEF Awaits
      <4>2. cpipe[k] = b <=> dpipe[b] = k
        BY Zenon, <1>3, <2>3
      <4>3. QED
        BY Zenon, <3>2, <4>1, <4>2
    <3>4. rx'[b] = rx[b]
      BY Zenon, <1>5, <3>3
    <3>5. QED
      BY Zenon, <1>1, <3>1, <3>4 DEF Awaits
  <2>6. ASSUME NEW b \in Conns, NEW i \in 1 .. Len(rx'[b]), rx'[b][i].from = "daemon"
        PROVE  pc[b] = "wait" /\ Len(rx'[b]) = 1
    <3>1. CASE rx'[b] = rx[b]
      BY Zenon, <1>2, <2>1, <2>6, <3>1 DEF VerdictInv
    <3>2. CASE rx'[b] # rx[b]
      <4>1. b = c
        <5>1. cpipe[k] = b
          BY Zenon, <1>5, <3>2
        <5>2. dpipe[c] = k
          BY Zenon, <2>2 DEF Awaits
        <5>3. QED
          BY Zenon, <1>3, <2>3, <5>1, <5>2
      <4>2. QED
        BY Zenon, <1>6, <2>2, <3>2, <4>1 DEF Awaits
    <3>3. QED
      BY Zenon, <3>1, <3>2
  <2>7. \A q \in Pipes : \A i \in 1 .. Len(inbox'[q]) : IsLookup(q, i)' <=> IsLookup(q, i)
    BY Zenon, <1>1 DEF IsLookup
  <2>8. QED
    BY Zenon, <1>1, <1>2, <2>1, <2>4, <2>5, <2>6, <2>7 DEF VerdictInv
<1>11. QED
  BY Zenon, <1>7, <1>8, <1>9, <1>10 DEF ExchangeInv, AgentInv, RowsInv

\* The local tier's answer, Valkey's, and none.
LEMMA AnswerKeeps ==
  ASSUME ExchangeInv, AnswerLocal \/ AnswerUpstream \/ AnswerError
  PROVE  ExchangeInv'
<1>1. /\ local \in [Stmts -> Public \cup {Nil}] /\ upstream \in [Stmts -> Public \cup {Nil}]
      /\ CacheTypes /\ Filed
  BY Zenon DEF ExchangeInv, AgentInv, RowsInv, Types, CacheTypes
<1>2. ASSUME NEW v \in Verdicts, daemon.pc = "answer", Reply(v),
             UNCHANGED <<serverVars, pc, cmdVars, status, connVars, poolVars, inbox, cacheVars, slow, writes>>
      PROVE  ExchangeInv'
  <2>1. CacheTypes'
    BY Zenon, <1>1, <1>2 DEF CacheTypes, cacheVars
  <2>2. Filed'
    BY Zenon, <1>2, FilesStay
  <2>3. QED
    BY Zenon, <1>2, <2>1, <2>2, ReplyKeeps
<1>3. CASE AnswerLocal
  BY Zenon, <1>2, <1>3 DEF AnswerLocal, Verdicts
<1>4. CASE AnswerError
  BY Zenon, <1>2, <1>4 DEF AnswerError, Verdicts
<1>5. CASE AnswerUpstream
  <2> DEFINE s == daemon.stmt
  <2>1. PICK rows \in {upstream[s], Nil} :
          /\ local' = [local EXCEPT ![s] = rows]
          /\ Reply(IF rows # Nil THEN "OK" ELSE "WRITE_THROUGH")
    BY Zenon, <1>5 DEF AnswerUpstream, ValkeyGet, Keep
  <2>2. /\ daemon.pc = "answer"
        /\ UNCHANGED <<serverVars, pc, cmdVars, status, connVars, poolVars, inbox, upstream, slow, writes>>
    BY Zenon, <1>5 DEF AnswerUpstream
  <2>3. (IF rows # Nil THEN "OK" ELSE "WRITE_THROUGH") \in Verdicts
    BY Zenon DEF Verdicts
  <2>4. s \in Stmts => rows \in Public \cup {Nil}
    BY Zenon, <1>1, <2>1
  <2>5. /\ local' \in [Stmts -> Public \cup {Nil}]
        /\ \A t \in Stmts : local'[t] = local[t] \/ (t = s /\ local'[t] = rows)
    BY Zenon, <1>1, <2>1, <2>4, KeepFacts
  <2>6. CacheTypes'
    BY Zenon, <1>1, <2>2, <2>5 DEF CacheTypes
  <2>7. ASSUME "reuse" \notin slow, NEW t \in Stmts, local'[t] # Nil PROVE local'[t].stmt = t
    <3>1. /\ local[t] # Nil => local[t].stmt = t
          /\ upstream[t] # Nil => upstream[t].stmt = t
      BY Zenon, <1>1, <2>7 DEF Filed
    <3>2. CASE local'[t] = local[t]
      BY Zenon, <2>7, <3>1, <3>2
    <3>3. CASE t = s /\ local'[t] = rows
      <4>1. local'[t] = upstream[t]
        BY Zenon, <2>1, <2>7, <3>3
      <4>2. QED
        BY Zenon, <2>7, <3>1, <4>1
    <3>4. QED
      BY Zenon, <2>5, <3>2, <3>3
  <2>8. Filed'
    BY Zenon, <1>1, <2>2, <2>7 DEF Filed, poolVars
  <2>9. QED
    BY Zenon, <2>1, <2>2, <2>3, <2>6, <2>8, ReplyKeeps
<1>6. QED
  BY Zenon, <1>3, <1>4, <1>5

\* Rows are forgotten, or the daemon dies with what it was asked.
LEMMA LossKeeps ==
  ASSUME ExchangeInv, (\E s \in Stmts : Expire(s) \/ Evict(s)) \/ Die \/ UNCHANGED vars
  PROVE  ExchangeInv'
<1>1. /\ UNCHANGED <<serverVars, rx, pc, cmdVars, status, connVars, poolVars, inbox, slow, writes>>
      /\ \/ daemon' = daemon
         \/ daemon' = [pc |-> "dead", key |-> Nil, stmt |-> Nil]
      /\ local' = local \/ \E s \in Stmts : local' = [local EXCEPT ![s] = Nil]
      /\ upstream' = upstream \/ \E s \in Stmts : upstream' = [upstream EXCEPT ![s] = Nil]
  BY Zenon DEF Expire, Evict, Die, vars, cacheVars
<1>2. /\ local \in [Stmts -> Public \cup {Nil}] /\ upstream \in [Stmts -> Public \cup {Nil}]
      /\ inbox \in [Pipes -> Seq(Requests)] /\ daemon \in DaemonTypes /\ Filed /\ VerdictInv
  BY Zenon DEF ExchangeInv, AgentInv, RowsInv, Types, CacheTypes
<1>3. ASSUME NEW f \in [Stmts -> Public \cup {Nil}], NEW s \in Stmts
      PROVE  /\ [f EXCEPT ![s] = Nil] \in [Stmts -> Public \cup {Nil}]
             /\ \A t \in Stmts : [f EXCEPT ![s] = Nil][t] = f[t] \/ [f EXCEPT ![s] = Nil][t] = Nil
  BY Zenon, KeepFacts
<1>4. /\ local' \in [Stmts -> Public \cup {Nil}]
      /\ \A t \in Stmts : local'[t] = local[t] \/ local'[t] = Nil
  BY Zenon, <1>1, <1>2, <1>3
<1>5. /\ upstream' \in [Stmts -> Public \cup {Nil}]
      /\ \A t \in Stmts : upstream'[t] = upstream[t] \/ upstream'[t] = Nil
  BY Zenon, <1>1, <1>2, <1>3
<1>6. daemon' \in DaemonTypes /\ (daemon' = daemon \/ daemon'.pc # "answer")
  BY <1>1, <1>2 DEF DaemonTypes
<1>7. CacheTypes' /\ inbox' \in [Pipes -> Seq(Requests)]
  BY Zenon, <1>1, <1>2, <1>4, <1>5 DEF CacheTypes
<1>8. /\ AgentInv' /\ (\A c \in Conns : AboutQuery(c)' /\ CapturedIsOwn(c)')
      /\ \A c \in Conns, q \in Pipes : Awaits(c, q) => Awaits(c, q)'
  BY Zenon, <1>1, <1>6, <1>7, ConnsStay
<1>9. VerdictInv'
  <2>1. \A q \in Pipes : Answering(q)' => Answering(q)
    BY Zenon, <1>6 DEF Answering
  <2>2. QED
    BY Zenon, <1>1, <1>2, <1>8, <2>1 DEF VerdictInv, IsLookup
<1>10. Filed'
  BY Zenon, <1>1, <1>2, <1>4, <1>5 DEF Filed, poolVars
<1>11. QED
  BY Zenon, <1>8, <1>9, <1>10 DEF ExchangeInv, RowsInv
-----------------------------------------------------------------------------
(* The invariant.                                                          *)

\* The pool is full, and nothing is under way.
LEMMA InitKeeps == Init => ExchangeInv
<1>1. SUFFICES ASSUME Init PROVE ExchangeInv
  BY Zenon
<1>2. Cardinality(Pipes) \in Nat
  BY Zenon, PipesAssumption
<1>3. free \in [1 .. Cardinality(Pipes) -> Pipes] /\ \A i, j \in 1 .. Cardinality(Pipes) : free[i] = free[j] => i = j
  BY Zenon, <1>1 DEF Init, Bijection, Injection, IsInjective, Surjection
<1>4. free \in Seq(Pipes) /\ Len(free) = Cardinality(Pipes)
  BY <1>2, <1>3
<1>5. \A i \in 1 .. Len(free) : free[i] \in Pipes
  BY Zenon, <1>3, <1>4
<1>6. << >> \in Seq(Messages) /\ << >> \in Seq(Requests) /\ << >> \in Seq(Commands) /\ 1 .. Len(<< >>) = {}
  BY DEF Commands
<1>7. Types
  <2>1. ServerTypes /\ CmdTypes /\ ConnTypes /\ PoolTypes /\ CacheTypes
    BY Zenon, <1>1, <1>4, <1>6 DEF Init, ServerTypes, CmdTypes, ConnTypes, PoolTypes, CacheTypes
  <2>2. /\ daemon \in DaemonTypes /\ writes \in 0 .. MaxWrites /\ slow \subseteq {"reuse", "timeout"}
    <3>1. daemon = [pc |-> "idle", key |-> Nil, stmt |-> Nil] /\ writes = 0 /\ slow = {}
      BY Zenon, <1>1 DEF Init
    <3>2. daemon \in DaemonTypes
      BY <3>1 DEF DaemonTypes
    <3>3. writes \in 0 .. MaxWrites
      BY <3>1, BoundsAssumption
    <3>4. QED
      BY Zenon, <3>1, <3>2, <3>3
  <2>3. /\ rx \in [Conns -> Seq(Messages)] /\ inbox \in [Pipes -> Seq(Requests)]
        /\ pc \in [Conns -> PCs] /\ status \in [Conns -> Verdicts \cup {Nil}]
    BY Zenon, <1>1, <1>6 DEF Init, PCs
  <2>4. QED
    BY Zenon, <2>1, <2>2, <2>3 DEF Types
<1>8. \A c \in Conns : /\ pc[c] = "idle" /\ srv[c] = << >> /\ rx[c] = << >> /\ dpipe[c] = Nil
                       /\ capturing[c] = FALSE /\ FromServer(c) = {}
  <2>1. \A c \in Conns : /\ pc[c] = "idle" /\ srv[c] = << >> /\ rx[c] = << >> /\ dpipe[c] = Nil
                         /\ capturing[c] = FALSE
    BY Zenon, <1>1 DEF Init
  <2>2. \A c \in Conns : FromServer(c) = {}
    BY Zenon, <1>6, <2>1 DEF FromServer
  <2>3. QED
    BY Zenon, <2>1, <2>2
<1>9. /\ \A k \in Pipes : cpipe[k] = Nil /\ inbox[k] = << >>
      /\ \A s \in Stmts : local[s] = Nil /\ upstream[s] = Nil
  BY Zenon, <1>1 DEF Init
<1>10. daemon.pc = "idle" /\ daemon.pc # "answer" /\ Nil \notin Pipes /\ Nil \notin Conns
  BY <1>1, NilAssumption DEF Init
<1>11. Pool
  <2>1. \A c \in Conns : dpipe[c] # Nil <=> pc[c] \in Holding
    BY <1>8 DEF Holding
  <2>2. \A c \in Conns, k \in Pipes : cpipe[k] = c <=> dpipe[c] = k
    BY Zenon, <1>8, <1>9, <1>10
  <2>3. QED
    BY Zenon, <1>3, <1>4, <1>5, <1>9, <2>1, <2>2 DEF Pool
<1>12. ASSUME NEW c \in Conns PROVE InHand(c) /\ SentOnce(c) /\ AboutQuery(c) /\ CapturedIsOwn(c)
  BY <1>8 DEF InHand, SentOnce, AboutQuery, CapturedIsOwn
<1>13. VerdictInv
  <2>1. \A c \in Conns : pc[c] # "broken"
    BY <1>8
  <2>2. QED
    BY Zenon, <1>6, <1>8, <1>9, <1>10, <2>1 DEF VerdictInv, Answering
<1>14. Filed
  BY Zenon, <1>6, <1>9 DEF Filed
<1>15. QED
  BY Zenon, <1>7, <1>11, <1>12, <1>13, <1>14 DEF ExchangeInv, AgentInv, RowsInv

\* Whoever moves.
LEMMA NextKeeps == ExchangeInv /\ [Next]_vars => ExchangeInv'
<1>1. SUFFICES ASSUME ExchangeInv, [Next]_vars PROVE ExchangeInv'
  BY Zenon
<1>2. ASSUME NEW c \in Conns, Write(c) PROVE ExchangeInv'
  BY Zenon, <1>1, <1>2, WritePassKeeps, WriteCaptureKeeps, WriteAskKeeps DEF Write
<1>3. ASSUME NEW c \in Conns, Agent(c) PROVE ExchangeInv'
  BY Zenon, <1>1, <1>3, AcquireKeeps, AskKeeps, PassKeeps, TakeReplyKeeps, TimeOutKeeps, ReleaseKeeps,
     SettleServeKeeps, SettleResendKeeps, ReadStrayKeeps, ObserveKeeps, StoreAcquireKeeps, StorePostKeeps
     DEF Agent
<1>4. ASSUME NEW c \in Conns, Server(c) PROVE ExchangeInv'
  BY Zenon, <1>1, <1>4, ServerKeeps
<1>5. CASE Daemon
  BY Zenon, <1>1, <1>5, ServeLookupKeeps, ServeStoreKeeps, AnswerKeeps DEF Daemon
<1>6. CASE (\E s \in Stmts : Expire(s) \/ Evict(s)) \/ Die \/ UNCHANGED vars
  BY Zenon, <1>1, <1>6, LossKeeps
<1>7. QED
  BY Zenon, <1>1, <1>2, <1>3, <1>4, <1>5, <1>6 DEF Next

\* The whole exchange, whatever the agents, the daemon and the server do and in whatever
\* order: who holds a pipe, where a query is, whose verdict is in a socket and whose rows
\* are in a cache.
THEOREM ExchangeInvariant == Spec => []ExchangeInv
<1>1. Init => ExchangeInv
  BY Zenon, InitKeeps
<1>2. ExchangeInv /\ [Next]_vars => ExchangeInv'
  BY Zenon, NextKeeps
<1>3. QED
  BY <1>1, <1>2, PTL DEF Spec

\* A query is with exactly one of its two answerers: the write hook and settle() neither
\* lose a suppressed query nor send it twice.
THEOREM QueriesAreSentOnce == Spec => []QueryIsSentOnce
<1>1. ASSUME ExchangeInv PROVE QueryIsSentOnce
  <2>1. SUFFICES ASSUME NEW c \in Conns, pc[c] # "broken"
                 PROVE  IF pc[c] = "read" THEN \E m \in UnderWay(c) : UnderWay(c) = {m} ELSE UnderWay(c) = {}
    BY Zenon DEF QueryIsSentOnce
  <2>2. SentOnce(c)
    BY Zenon, <1>1 DEF ExchangeInv, AgentInv
  <2>3. CASE pc[c] = "read"
    <3>1. CASE Len(srv[c]) = 1 /\ FromServer(c) = {}
      <4>1. UnderWay(c) = {<<"query", 1>>}
        BY <3>1 DEF UnderWay
      <4>2. QED
        BY Zenon, <2>3, <4>1
    <3>2. CASE srv[c] = << >> /\ \E i \in 1 .. Len(rx[c]) : FromServer(c) = {i}
      <4>1. PICK i \in 1 .. Len(rx[c]) : FromServer(c) = {i}
        BY Zenon, <3>2
      <4>2. UnderWay(c) = {<<"response", i>>}
        BY <3>2, <4>1 DEF UnderWay
      <4>3. QED
        BY Zenon, <2>3, <4>2
    <3>3. QED
      BY Zenon, <2>2, <2>3, <3>1, <3>2 DEF SentOnce
  <2>4. CASE pc[c] # "read"
    <3>1. srv[c] = << >> /\ FromServer(c) = {}
      BY <2>1, <2>2, <2>4 DEF SentOnce
    <3>2. UnderWay(c) = {}
      BY <3>1 DEF UnderWay
    <3>3. QED
      BY Zenon, <2>4, <3>2
  <2>5. QED
    BY Zenon, <2>3, <2>4
<1>2. QED
  BY <1>1, ExchangeInvariant, PTL

\* No socket carries what is not meant for it: no query goes into a pipe, and unless a
\* wait for a verdict ran out none is left for OpenSSL to read.
THEOREM SocketsStayRouted == Spec => []SocketsAreRouted
<1>1. ASSUME ExchangeInv PROVE SocketsAreRouted
  <2>1. Types /\ ServerTypes /\ CmdTypes /\ ConnTypes /\ PoolTypes /\ CacheTypes /\ VerdictInv
    BY Zenon, <1>1 DEF ExchangeInv, AgentInv, Types
  <2>2. /\ rx \in [Conns -> Seq(Messages)] /\ inbox \in [Pipes -> Seq(Requests)] /\ daemon \in DaemonTypes
        /\ pc \in [Conns -> PCs] /\ status \in [Conns -> Verdicts \cup {Nil}]
        /\ writes \in 0 .. MaxWrites /\ slow \subseteq {"reuse", "timeout"}
    BY Zenon, <2>1 DEF Types
  <2>3. \A T, S : T \subseteq S => Seq(T) \subseteq Seq(S)
    OBVIOUS
  <2>4. rx \in [Conns -> Seq([from : {"daemon", "server"}, kind : Verdicts \cup {"rows", "ok", "err"},
                              rows : Rows \cup {Nil}, txn : BOOLEAN])]
    <3> DEFINE M == [from : {"daemon", "server"}, kind : Verdicts \cup {"rows", "ok", "err"},
                     rows : Rows \cup {Nil}, txn : BOOLEAN]
    <3>1. Messages \subseteq M
      BY Zenon DEF Messages
    <3> HIDE DEF M
    <3>2. Seq(Messages) \subseteq Seq(M)
      BY Zenon, <2>3, <3>1
    <3>3. rx \in [Conns -> Seq(M)]
      BY Zenon, <2>2, <3>2
    <3>4. QED
      BY Zenon, <3>3 DEF M
  <2>5. inbox \in [Pipes -> Seq([kind : {"LOOKUP", "STORE", "TLS"}, rows : Rows \cup {Nil}])]
    <3> DEFINE R == [kind : {"LOOKUP", "STORE", "TLS"}, rows : Rows \cup {Nil}]
    <3>1. Requests \subseteq R
      BY DEF Requests
    <3> HIDE DEF R
    <3>2. Seq(Requests) \subseteq Seq(R)
      BY Zenon, <2>3, <3>1
    <3>3. inbox \in [Pipes -> Seq(R)]
      BY Zenon, <2>2, <3>2
    <3>4. QED
      BY Zenon, <3>3 DEF R
  <2>6. /\ captured \in [Conns -> Rows \cup {Nil}]
        /\ local \in [Stmts -> Rows \cup {Nil}] /\ upstream \in [Stmts -> Rows \cup {Nil}]
    <3>1. Public \cup {Nil} \subseteq Rows \cup {Nil}
      BY Zenon DEF Public
    <3>2. QED
      BY Zenon, <2>1, <3>1 DEF ConnTypes, CacheTypes
  <2>7. daemon \in [pc : {"idle", "answer", "dead"}, key : Pipes \cup {Nil}, stmt : Stmts \cup {Nil}]
    BY <2>2 DEF DaemonTypes
  <2>8. TypeOK
    BY Zenon, <2>1, <2>2, <2>4, <2>5, <2>6, <2>7 DEF TypeOK, ServerTypes, CmdTypes, ConnTypes, PoolTypes
  <2>9. QueriesStayOffPipes
    <3>1. ASSUME NEW k \in Pipes, NEW i \in 1 .. Len(inbox[k]) PROVE inbox[k][i].kind # "TLS"
      <4>1. inbox[k] \in Seq(Requests)
        BY Zenon, <2>2
      <4>2. inbox[k][i] \in Requests
        BY <4>1
      <4>3. QED
        BY <4>2 DEF Requests
    <3>2. QED
      BY Zenon, <3>1 DEF QueriesStayOffPipes
  <2>10. RepliesAreTaken
    <3>1. SUFFICES ASSUME "timeout" \notin slow, NEW c \in Conns
                   PROVE  /\ pc[c] # "broken"
                          /\ pc[c] = "read" => \A i \in 1 .. Len(rx[c]) : rx[c][i].from = "server"
      BY Zenon DEF RepliesAreTaken
    <3>2. pc[c] # "broken"
      BY Zenon, <2>1, <3>1 DEF VerdictInv
    <3>3. ASSUME pc[c] = "read", NEW i \in 1 .. Len(rx[c]) PROVE rx[c][i].from = "server"
      <4>1. rx[c] \in Seq(Messages)
        BY Zenon, <2>2
      <4>2. rx[c][i] \in Messages
        BY <4>1
      <4>3. rx[c][i].from \in {"daemon", "server"}
        BY <4>2 DEF Messages
      <4>4. pc[c] # "wait"
        BY <3>3
      <4>5. QED
        BY Zenon, <2>1, <3>1, <4>3, <4>4 DEF VerdictInv
    <3>4. QED
      BY Zenon, <3>2, <3>3
  <2>11. QED
    BY Zenon, <2>8, <2>9, <2>10 DEF SocketsAreRouted
<1>2. QED
  BY <1>1, ExchangeInvariant, PTL

\* What a session read inside a transaction is never in a cache nor on its way there:
\* observe() publishes only what the server did not flag.
THEOREM TransactionsStayPrivate == Spec => []PrivateRowsStayPrivate
<1>1. ASSUME ExchangeInv PROVE PrivateRowsStayPrivate
  <2>1. CacheTypes /\ inbox \in [Pipes -> Seq(Requests)]
    BY Zenon, <1>1 DEF ExchangeInv, AgentInv, Types
  <2>2. \A s \in Stmts : (local[s] # Nil => ~local[s].txn) /\ (upstream[s] # Nil => ~upstream[s].txn)
    BY Zenon, <2>1 DEF CacheTypes, Public
  <2>3. ASSUME NEW k \in Pipes, NEW i \in 1 .. Len(inbox[k]), inbox[k][i].kind = "STORE"
        PROVE  ~inbox[k][i].rows.txn
    <3>1. inbox[k] \in Seq(Requests)
      BY Zenon, <2>1
    <3>2. inbox[k][i] \in Requests
      BY <3>1
    <3>3. QED
      BY Zenon, <2>3, <3>2 DEF Requests, Public
  <2>4. QED
    BY Zenon, <2>2, <2>3 DEF PrivateRowsStayPrivate
<1>2. QED
  BY <1>1, ExchangeInvariant, PTL

\* Unless a pipe was taken with a request of its last holder on it, the arena holds under
\* a statement the rows of that statement.
THEOREM RowsStayOwn == Spec => []RowsAreOwn
<1>1. ASSUME ExchangeInv PROVE RowsAreOwn
  BY Zenon, <1>1 DEF ExchangeInv, RowsInv, Filed, RowsAreOwn
<1>2. QED
  BY <1>1, ExchangeInvariant, PTL

\* Unless a pipe was taken with a request of its last holder on it, what settle() serves a
\* connection are rows of the statement the connection sent.
THEOREM ServedRowsAreOwn == Spec => [](("reuse" \notin slow) => ServedRowsMatch)
<1>1. ASSUME ExchangeInv PROVE ("reuse" \notin slow) => ServedRowsMatch
  <2>1. SUFFICES ASSUME "reuse" \notin slow, NEW c \in Conns, CanServe(c)
                 PROVE  local[pending[c]].stmt = query[c]
    BY Zenon DEF ServedRowsMatch
  <2>2. InHand(c) /\ Filed
    BY Zenon, <1>1 DEF ExchangeInv, AgentInv, RowsInv
  <2>3. pc[c] = "settle" /\ local[pending[c]] # Nil
    BY Zenon, <2>1 DEF CanServe, At, HasPayload
  <2>4. query[c] \in Stmts /\ pending[c] = query[c]
    BY <2>2, <2>3 DEF InHand
  <2>5. QED
    BY Zenon, <2>1, <2>2, <2>3, <2>4 DEF Filed
<1>2. QED
  BY <1>1, ExchangeInvariant, PTL
=============================================================================
