-------------------------- MODULE LifecycleProofs ---------------------------
(***************************************************************************)
(* Proofs of the safety properties of Lifecycle, for any number of daemons *)
(* and agents and any bound on starts, edits and reloads.                  *)
(***************************************************************************)
EXTENDS Lifecycle, TLAPS

\* Starts are numbered, and nothing knows of a start that has not been.
Numbers ==
  /\ pinned <= starts
  /\ \A m \in Sets : maps[m].rec <= starts /\ (m > starts => maps[m].rec = 0)
  /\ \A d \in Daemons :
       /\ dm[d].no <= starts /\ dm[d].maps <= starts
       /\ dm[d].at # "off" => dm[d].no # 0
  /\ \A a \in Agents : ag[a].maps <= starts

\* There is one daemon at a time, and from binding to closing it listens.
Alone ==
  /\ \A d, e \in Daemons : dm[d].at # "off" /\ dm[e].at # "off" => d = e
  /\ \A d \in Daemons : dm[d].at \in {"bound", "loaded", "run"} => sock = d

\* What a loaded daemon has to itself.
Owns ==
  \A d \in Daemons : dm[d].at \in {"loaded", "run"} =>
    pinned = dm[d].maps /\ maps[pinned].spliced /\ maps[pinned].heap = dm[d].no

\* A daemon that has not loaded yet: nobody knows its number.
Fresh ==
  \A d \in Daemons : dm[d].at \in {"probed", "bound"} =>
    /\ pinned # dm[d].no
    /\ maps[dm[d].no].rec = 0 /\ \A m \in Sets : maps[m].rec # dm[d].no
    /\ \A a \in Agents : ag[a].maps # dm[d].no

\* The record a daemon finds before it has read its list is a killed daemon's, and so
\* is the list of an agent that was not injected too early.
Unseeded ==
  \A d \in Daemons : dm[d].at = "loaded" =>
    LET m == dm[d].maps
    IN  /\ maps[m].rec = 0 \/ (m \in took /\ maps[m].rec # dm[d].no)
        /\ \A a \in Agents : ag[a].hooked /\ ag[a].maps = m /\ ag[a].at # "listed" =>
             ag[a].early \/ m \in took

Published ==
  \A d \in Daemons : Runs(d) =>
    LET m == dm[d].maps
    IN  /\ Listed(dm[d].list) => maps[m].rec = dm[d].no
        /\ ~Listed(dm[d].list) => maps[m].rec = 0 \/ (m \in took /\ maps[m].rec # dm[d].no)

\* Nobody has a list newer than the file, and a copy that is not known to be behind is
\* as new as what a daemon has read.
Lists ==
  /\ \A d \in Daemons : dm[d].list <= file
  /\ \A d \in Daemons, a \in Agents : Runs(d) => ag[a].missed \/ dm[d].list <= staged[a]

\* barnacle waits for an injected agent; one that attaches has read its copy.
Injections ==
  /\ \A a \in Agents : ag[a].at = "listed" =>
       cli = Command("attach", a) /\ ag[a].list = staged[a]
  /\ \A a \in Agents : ag[a].at \in {"draining", "drained"} => cli = Command("detach", a)

\* Generations only grow, on maps that were not taken over.
Generations ==
  \A a \in Agents : ag[a].maps # 0 /\ ag[a].maps \notin took => ag[a].gen <= maps[ag[a].maps].gen

UpToDate ==
  \A d \in Daemons, a \in Agents :
    Runs(d) /\ ag[a].hooked /\ ag[a].maps = dm[d].maps /\ ag[a].at # "listed" =>
      \/ ag[a].gen # maps[ag[a].maps].gen
      \/ dm[d].list <= ag[a].list
      \/ ag[a].missed \/ ag[a].early
      \/ ag[a].maps \in took

\* Whoever waits after the drain is known to.
Drains ==
  \A a \in Agents : ag[a].busy /\ (ag[a].at = "drained" \/ ~ag[a].hooked) => ag[a].hasty

\* What holds as long as daemons come one after the other.
Orderly == Alone /\ Owns /\ Fresh /\ Unseeded /\ Published /\ Generations /\ UpToDate

LifeInv == TypeOK /\ Numbers /\ Lists /\ Injections /\ Drains /\ (~overlap => Orderly)
-----------------------------------------------------------------------------

\* The numbers and flags of a state.
LEMMA Types ==
  TypeOK =>
    /\ starts \in Nat /\ pinned \in Nat /\ file \in Nat
    /\ \A m \in Sets : maps[m].gen \in Nat /\ maps[m].rec \in Nat
    /\ \A d \in Daemons :
         /\ dm[d].no \in Nat /\ dm[d].maps \in Nat /\ dm[d].list \in Nat
         /\ dm[d].at \in {"off", "probed", "bound", "loaded", "run", "closing"}
         /\ dm[d].no = 0 \/ dm[d].no \in Sets
         /\ dm[d].at \in {"loaded", "run", "closing"} => dm[d].maps \in Sets
    /\ \A a \in Agents :
         /\ ag[a].gen \in Nat /\ ag[a].maps \in Nat /\ ag[a].list \in Nat /\ staged[a] \in Nat
         /\ ag[a].maps = 0 \/ ag[a].maps \in Sets
<1> SUFFICES ASSUME TypeOK
             PROVE  /\ starts \in Nat /\ pinned \in Nat /\ file \in Nat
                    /\ \A m \in Sets : maps[m].gen \in Nat /\ maps[m].rec \in Nat
                    /\ \A d \in Daemons :
                         /\ dm[d].no \in Nat /\ dm[d].maps \in Nat /\ dm[d].list \in Nat
                         /\ dm[d].at \in {"off", "probed", "bound", "loaded", "run", "closing"}
                         /\ dm[d].no = 0 \/ dm[d].no \in Sets
                         /\ dm[d].at \in {"loaded", "run", "closing"} => dm[d].maps \in Sets
                    /\ \A a \in Agents :
                         /\ ag[a].gen \in Nat /\ ag[a].maps \in Nat /\ ag[a].list \in Nat
                         /\ staged[a] \in Nat
                         /\ ag[a].maps = 0 \/ ag[a].maps \in Sets
  OBVIOUS
<1>1. starts \in Nat /\ pinned \in Nat /\ file \in Nat
  BY BoundsAssumption DEF TypeOK, Versions
<1>2. ASSUME NEW m \in Sets PROVE maps[m].gen \in Nat /\ maps[m].rec \in Nat
  BY BoundsAssumption DEF TypeOK, MapStates
<1>3. ASSUME NEW d \in Daemons
      PROVE  /\ dm[d].no \in Nat /\ dm[d].maps \in Nat /\ dm[d].list \in Nat
             /\ dm[d].at \in {"off", "probed", "bound", "loaded", "run", "closing"}
             /\ dm[d].no = 0 \/ dm[d].no \in Sets
             /\ dm[d].at \in {"loaded", "run", "closing"} => dm[d].maps \in Sets
  BY BoundsAssumption DEF TypeOK, DaemonStates, Sets, Versions
<1>4. ASSUME NEW a \in Agents
      PROVE  /\ ag[a].gen \in Nat /\ ag[a].maps \in Nat /\ ag[a].list \in Nat
             /\ staged[a] \in Nat
             /\ ag[a].maps = 0 \/ ag[a].maps \in Sets
  BY BoundsAssumption DEF TypeOK, AgentStates, Sets, Versions
<1>5. QED
  BY Zenon, <1>1, <1>2, <1>3, <1>4

\* Commands of different kinds, and of one kind on different agents, are different.
LEMMA CommandsDiffer ==
  ASSUME NEW a \in Agents, NEW b \in Agents
  PROVE  /\ Command("attach", a) # Nil /\ Command("detach", a) # Nil
         /\ Command("attach", a) # Command("detach", b)
         /\ Command("attach", a) # Command("reload", Nil)
         /\ Command("detach", a) # Command("reload", Nil)
         /\ Command("attach", a) = Command("attach", b) => a = b
         /\ Command("detach", a) = Command("detach", b) => a = b
<1>1. Command("attach", a) # Nil /\ Command("detach", a) # Nil
  BY NilAssumption DEF Commands, Command
<1>2. QED
  BY Zenon, <1>1 DEF Command

\* setClientEnabled() writes CLIENT and nothing else.
LEMMA SwitchKeeps ==
  ASSUME TypeOK, NEW on \in BOOLEAN, Switch(on)
  PROVE  /\ maps' \in [Sets -> MapStates]
         /\ \A m \in Sets : maps'[m].gen = maps[m].gen /\ maps'[m].rec = maps[m].rec
         /\ \A m \in Sets : maps'[m].spliced = maps[m].spliced /\ maps'[m].heap = maps[m].heap
<1>1. \A m \in Sets : maps[m] \in MapStates
  BY Zenon DEF TypeOK
<1>2. \A r \in MapStates :
        /\ [r EXCEPT !.client_on = on] \in MapStates
        /\ [r EXCEPT !.client_on = on].gen = r.gen /\ [r EXCEPT !.client_on = on].rec = r.rec
        /\ [r EXCEPT !.client_on = on].spliced = r.spliced
        /\ [r EXCEPT !.client_on = on].heap = r.heap
  BY Zenon DEF MapStates
<1>3. maps' \in [Sets -> MapStates]
  BY Zenon, <1>1, <1>2 DEF Switch
<1>4. ASSUME NEW m \in Sets
      PROVE  /\ maps'[m].gen = maps[m].gen /\ maps'[m].rec = maps[m].rec
             /\ maps'[m].spliced = maps[m].spliced /\ maps'[m].heap = maps[m].heap
  <2>1. maps'[m] = maps[m] \/ maps'[m] = [maps[m] EXCEPT !.client_on = on]
    BY Zenon DEF Switch
  <2>2. QED
    BY Zenon, <1>1, <1>2, <2>1
<1>5. QED
  BY Zenon, <1>3, <1>4

\* What loadStatements() does to the key of the statement, and that it touches nothing
\* else.
LEMMA PublishSets ==
  ASSUME TypeOK, NEW m \in Sets, NEW no \in Sets, NEW known \in Nat,
         NEW list \in Versions
  PROVE  LET new == Publish(m, no, known, list)
         IN  /\ new \in [Sets -> MapStates]
             /\ \A q \in Sets \ {m} : new[q] = maps[q]
             /\ new[m].gen = maps[m].gen /\ new[m].spliced = maps[m].spliced
             /\ new[m].heap = maps[m].heap
             /\ Listed(list) /\ Listed(known) => new[m].rec = maps[m].rec
             /\ Listed(list) /\ ~Listed(known) => new[m].rec = no
             /\ ~Listed(list) /\ Listed(known) => new[m].rec = 0
             /\ ~Listed(list) /\ ~Listed(known) => new[m].rec = maps[m].rec
<1> DEFINE rec == IF Listed(list) THEN (IF Listed(known) THEN maps[m].rec ELSE no)
                  ELSE IF Listed(known) THEN 0 ELSE maps[m].rec
<1>1. ~Listed(0)
  BY DEF Listed
<1>2. Publish(m, no, known, list) = [maps EXCEPT ![m].rec = rec]
  BY Zenon, <1>1 DEF Publish
<1>3. maps[m] \in MapStates /\ maps \in [Sets -> MapStates]
  BY Zenon DEF TypeOK
<1>4. rec \in 0 .. MaxStarts
  BY <1>3, BoundsAssumption DEF MapStates, Sets
<1> HIDE DEF rec
<1>5. [maps[m] EXCEPT !.rec = rec] \in MapStates
  BY Zenon, <1>3, <1>4 DEF MapStates
<1>6. /\ Publish(m, no, known, list) \in [Sets -> MapStates]
      /\ \A q \in Sets \ {m} : Publish(m, no, known, list)[q] = maps[q]
      /\ Publish(m, no, known, list)[m] = [maps[m] EXCEPT !.rec = rec]
  BY Zenon, <1>2, <1>3, <1>5
<1>7. /\ [maps[m] EXCEPT !.rec = rec].gen = maps[m].gen
      /\ [maps[m] EXCEPT !.rec = rec].spliced = maps[m].spliced
      /\ [maps[m] EXCEPT !.rec = rec].heap = maps[m].heap
      /\ [maps[m] EXCEPT !.rec = rec].rec = rec
  BY Zenon, <1>3 DEF MapStates
<1>8. QED
  BY Zenon, <1>6, <1>7 DEF rec

\* Noting whose copy of the file is behind leaves the agents alone.
LEMMA CompareKeeps ==
  ASSUME TypeOK, Compare
  PROVE  /\ ag' \in [Agents -> AgentStates]
         /\ \A a \in Agents :
              /\ ag'[a].at = ag[a].at /\ ag'[a].hooked = ag[a].hooked /\ ag'[a].gen = ag[a].gen
              /\ ag'[a].maps = ag[a].maps /\ ag'[a].list = ag[a].list
              /\ ag'[a].busy = ag[a].busy
              /\ ag'[a].hasty = ag[a].hasty /\ ag'[a].early = ag[a].early
              /\ staged[a] < file => ag'[a].missed
<1>1. ASSUME NEW a \in Agents
      PROVE  /\ ag'[a] \in AgentStates
             /\ ag'[a].at = ag[a].at /\ ag'[a].hooked = ag[a].hooked /\ ag'[a].gen = ag[a].gen
             /\ ag'[a].maps = ag[a].maps /\ ag'[a].list = ag[a].list /\ ag'[a].busy = ag[a].busy
             /\ ag'[a].hasty = ag[a].hasty /\ ag'[a].early = ag[a].early
             /\ staged[a] < file => ag'[a].missed
  <2>1. ag[a] \in AgentStates
    BY Zenon DEF TypeOK
  <2>2. \A h \in BOOLEAN : [ag[a] EXCEPT !.missed = h] \in AgentStates
    BY Zenon, <2>1 DEF AgentStates
  <2>3. (staged[a] < file) \in BOOLEAN
    OBVIOUS
  <2>4. ag'[a] = [ag[a] EXCEPT !.missed = staged[a] < file]
    BY Zenon DEF Compare
  <2>5. ag'[a] \in AgentStates
    BY Zenon, <2>2, <2>3, <2>4
  <2>6. QED
    BY Zenon, <2>1, <2>4, <2>5 DEF AgentStates
<1>2. ag' \in [Agents -> AgentStates]
  BY Zenon, <1>1 DEF Compare
<1>3. QED
  BY Zenon, <1>1, <1>2

\* refreshLocked() takes the generation and the list together or neither, and nothing
\* else of what the properties are about.
LEMMA RefreshedKeeps ==
  ASSUME TypeOK, NEW a \in Agents, NEW g \in {ag[a], Refreshed(a)}
  PROVE  /\ g \in AgentStates
         /\ g.at = ag[a].at /\ g.hooked = ag[a].hooked /\ g.maps = ag[a].maps
         /\ g.busy = ag[a].busy /\ g.hasty = ag[a].hasty /\ g.missed = ag[a].missed
         /\ g.early = ag[a].early
         /\ \/ g.gen = ag[a].gen /\ g.list = ag[a].list
            \/ ag[a].maps \in Sets /\ g.gen = maps[ag[a].maps].gen /\ g.list = staged[a]
<1>1. ag[a] \in AgentStates /\ staged[a] \in Versions
  BY Zenon DEF TypeOK
<1>2. ag[a].maps = 0 \/ ag[a].maps \in Sets
  BY Zenon, Types
<1>3. ag[a].maps \in Sets => maps[ag[a].maps].gen \in 0 .. MaxGen /\ maps[ag[a].maps].client_on \in BOOLEAN
  BY Zenon DEF TypeOK, MapStates
<1>4. CASE g = ag[a]
  BY Zenon, <1>1, <1>4
<1>5. CASE g = Refreshed(a) /\ pinned = 0
  BY Zenon, <1>1, <1>5 DEF Refreshed, AgentStates
<1>6. CASE g = Refreshed(a) /\ pinned # 0 /\ (ag[a].gone \/ ag[a].maps = 0)
  BY Zenon, <1>1, <1>6 DEF Refreshed
<1>7. CASE g = Refreshed(a) /\ pinned # 0 /\ ~ag[a].gone /\ ag[a].maps # 0
  <2>1. ag[a].maps \in Sets
    BY Zenon, <1>2, <1>7
  <2>2. CASE maps[ag[a].maps].gen = ag[a].gen
    <3>1. g = [ag[a] EXCEPT !.on = maps[ag[a].maps].client_on]
      BY Zenon, <1>7, <2>2 DEF Refreshed
    <3>2. QED
      BY Zenon, <1>1, <1>3, <2>1, <3>1 DEF AgentStates
  <2>3. CASE maps[ag[a].maps].gen # ag[a].gen
    <3>1. g = [ag[a] EXCEPT !.on = maps[ag[a].maps].client_on, !.gen = maps[ag[a].maps].gen,
                            !.list = staged[a]]
      BY Zenon, <1>7, <2>3 DEF Refreshed
    <3>2. QED
      BY Zenon, <1>1, <1>3, <2>1, <3>1 DEF AgentStates
  <2>4. QED
    BY Zenon, <2>2, <2>3
<1>8. QED
  BY Zenon, <1>4, <1>5, <1>6, <1>7

\* control() reads the list again, publishes it and then the generation.
LEMMA ReloadKeeps ==
  ASSUME LifeInv, NEW x \in Daemons, Reload(x)
  PROVE  LifeInv'
<1> DEFINE m == dm[x].maps
           n == dm[x].no
           pub == Publish(m, n, dm[x].list, file)
<1>0. /\ maps' = [pub EXCEPT ![m].gen = @ + 1] /\ Compare
      /\ dm' = [dm EXCEPT ![x].list = file]
  BY Zenon DEF Reload
<1>1. /\ Runs(x) /\ maps[m].gen < MaxGen /\ cli' = Nil /\ cli = Command("reload", Nil)
      /\ UNCHANGED <<pinned, sock, file, staged, starts, overlap, took>>
  BY Zenon DEF Reload, Answers
<1>2. /\ m \in Sets /\ n \in Sets /\ file \in Versions /\ m <= starts /\ n <= starts
      /\ dm[x].list \in {0} \cup Versions /\ dm[x].at = "run"
  BY Zenon, <1>1, Types DEF LifeInv, TypeOK, DaemonStates, Numbers, Runs
<1>3. /\ pub \in [Sets -> MapStates]
      /\ \A q \in Sets \ {m} : pub[q] = maps[q]
      /\ pub[m].gen = maps[m].gen /\ pub[m].spliced = maps[m].spliced
      /\ pub[m].heap = maps[m].heap
      /\ Listed(file) /\ Listed(dm[x].list) => pub[m].rec = maps[m].rec
      /\ Listed(file) /\ ~Listed(dm[x].list) => pub[m].rec = n
      /\ ~Listed(file) /\ Listed(dm[x].list) => pub[m].rec = 0
      /\ ~Listed(file) /\ ~Listed(dm[x].list) => pub[m].rec = maps[m].rec
  <2>1. TypeOK
    BY Zenon DEF LifeInv
  <2>2. dm[x].list \in Nat /\ m \in Sets /\ n \in Sets /\ file \in Versions
    BY Zenon, <1>2, Types DEF LifeInv
  <2>3. QED
    BY <2>1, <2>2, PublishSets
<1> HIDE DEF pub
<1>4. /\ maps' \in [Sets -> MapStates]
      /\ \A q \in Sets \ {m} : maps'[q] = maps[q]
      /\ maps'[m].gen = maps[m].gen + 1 /\ maps'[m].spliced = pub[m].spliced
      /\ maps'[m].heap = pub[m].heap /\ maps'[m].rec = pub[m].rec
  <2>1. pub[m] \in MapStates /\ pub[m].gen + 1 \in 0 .. MaxGen
    BY <1>1, <1>2, <1>3, BoundsAssumption DEF MapStates
  <2>2. [pub[m] EXCEPT !.gen = @ + 1] \in MapStates
    BY Zenon, <2>1 DEF MapStates
  <2>3. QED
    BY Zenon, <1>0, <1>2, <1>3, <2>1, <2>2 DEF MapStates
<1>5. /\ ag' \in [Agents -> AgentStates]
      /\ \A a \in Agents :
           /\ ag'[a].at = ag[a].at /\ ag'[a].hooked = ag[a].hooked /\ ag'[a].gen = ag[a].gen
           /\ ag'[a].maps = ag[a].maps /\ ag'[a].list = ag[a].list /\ ag'[a].busy = ag[a].busy
           /\ ag'[a].hasty = ag[a].hasty /\ ag'[a].early = ag[a].early
           /\ staged[a] < file => ag'[a].missed
  BY Zenon, <1>0, CompareKeeps DEF LifeInv
<1>6. [dm[x] EXCEPT !.list = file] \in DaemonStates
  BY Zenon, <1>2 DEF LifeInv, TypeOK, DaemonStates
<1>7. /\ \A d \in Daemons \ {x} : dm'[d] = dm[d]
      /\ dm'[x].at = "run" /\ dm'[x].maps = m /\ dm'[x].no = n /\ dm'[x].list = file
      /\ dm' \in [Daemons -> DaemonStates]
  BY Zenon, <1>0, <1>2, <1>6 DEF LifeInv, TypeOK, DaemonStates
<1>8. TypeOK'
  <2>1. \A d \in Daemons : dm'[d].at \in {"loaded", "run", "closing"} => dm'[d].maps # 0
    BY <1>2, <1>7, 0 \notin Sets DEF LifeInv, TypeOK, Sets
  <2>2. QED
    BY Zenon, <1>1, <1>4, <1>5, <1>7, <2>1 DEF LifeInv, TypeOK
<1>9. Numbers'
  <2>1. pub[m].rec \in Nat /\ pub[m].rec <= starts
    BY <1>2, <1>3, Types DEF LifeInv, Numbers, Sets
  <2>2. \A q \in Sets : maps'[q].rec <= starts /\ (q > starts => maps'[q].rec = 0)
    BY <1>2, <1>4, <2>1, Types DEF LifeInv, Numbers, Sets
  <2>3. \A d \in Daemons :
         /\ dm'[d].no <= starts /\ dm'[d].maps <= starts
         /\ dm'[d].at # "off" => dm'[d].no # 0
    BY <1>2, <1>7, Types, 0 \notin Sets DEF LifeInv, Numbers, Sets
  <2>4. \A a \in Agents : ag'[a].maps <= starts
    BY Zenon, <1>5 DEF LifeInv, Numbers
  <2>5. QED
    BY Zenon, <1>1, <2>2, <2>3, <2>4 DEF LifeInv, Numbers
<1>10. Lists'
  BY <1>1, <1>5, <1>7, Types DEF LifeInv, Lists, Runs
<1>11. Injections'
  BY <1>1, <1>5, CommandsDiffer DEF LifeInv, Injections
<1>12. Drains'
  BY Zenon, <1>5 DEF LifeInv, Drains
<1>13. ASSUME ~overlap' PROVE Orderly'
  <2>1. Orderly
    BY Zenon, <1>1, <1>13 DEF LifeInv
  <2>2. \A d \in Daemons \ {x} : dm'[d].at = "off"
    BY Zenon, <1>2, <1>7, <2>1 DEF Orderly, Alone
  <2>3. Alone' /\ Owns'
    <3>1. sock' = x /\ pinned' = m /\ maps[m].spliced /\ maps[m].heap = n
      BY <1>1, <1>2, <2>1 DEF Orderly, Alone, Owns
    <3>2. maps'[m].spliced /\ maps'[m].heap = n
      BY Zenon, <1>3, <1>4, <3>1
    <3>3. QED
      BY Zenon, <1>7, <2>2, <3>1, <3>2 DEF Alone, Owns
  <2>4. Fresh' /\ Unseeded'
    BY Zenon, <1>7, <2>2 DEF Fresh, Unseeded
  <2>5. Published'
    <3>1. took' = took /\ Runs(x) /\ maps'[m].rec = pub[m].rec
      BY Zenon, <1>1, <1>4
    <3>2. /\ Listed(dm[x].list) => maps[m].rec = n
          /\ ~Listed(dm[x].list) => maps[m].rec = 0 \/ (m \in took /\ maps[m].rec # n)
      BY Zenon, <2>1, <3>1 DEF Orderly, Published
    <3>3. /\ Listed(file) => maps'[m].rec = n
          /\ ~Listed(file) => maps'[m].rec = 0 \/ (m \in took /\ maps'[m].rec # n)
      BY Zenon, <1>3, <3>1, <3>2
    <3>4. QED
      BY Zenon, <1>7, <2>2, <3>1, <3>3 DEF Published, Runs
  <2>6. Generations'
    BY <1>1, <1>2, <1>4, <1>5, <2>1, Types DEF LifeInv, Orderly, Generations
  <2>7. UpToDate'
    <3>1. \A a \in Agents : ag[a].maps = m /\ m \notin took => ag[a].gen <= maps[m].gen
      BY <1>2, <2>1, 0 \notin Sets DEF Orderly, Generations, Sets
    <3>2. \A a \in Agents : ag[a].maps = m /\ m \notin took => ag[a].gen # maps'[m].gen
      BY <1>2, <1>4, <3>1, Types DEF LifeInv
    <3>3. QED
      BY <1>1, <1>5, <1>7, <2>2, <3>2 DEF UpToDate, Runs
  <2>8. QED
    BY Zenon, <2>3, <2>4, <2>5, <2>6, <2>7 DEF Orderly
<1>14. QED
  BY Zenon, <1>8, <1>9, <1>10, <1>11, <1>12, <1>13 DEF LifeInv

\* start() reads the list: the first that the daemon publishes.
LEMMA SeedKeeps ==
  ASSUME LifeInv, NEW x \in Daemons, Seed(x)
  PROVE  LifeInv'
<1> DEFINE m == dm[x].maps
           n == dm[x].no
<1>0. /\ maps' = Publish(m, n, 0, file) /\ Compare
      /\ dm' = [dm EXCEPT ![x].at = "run", ![x].list = file]
  BY Zenon DEF Seed
<1>1. /\ dm[x].at = "loaded"
      /\ UNCHANGED <<pinned, sock, file, staged, cli, starts, overlap, took>>
  BY Zenon DEF Seed
<1>2. m \in Sets /\ n \in Sets /\ file \in Versions /\ m <= starts /\ n <= starts
  BY Zenon, <1>1, Types DEF LifeInv, TypeOK, Numbers
<1>3. ~Listed(0)
  BY DEF Listed
<1>4. /\ maps' \in [Sets -> MapStates]
      /\ \A q \in Sets \ {m} : maps'[q] = maps[q]
      /\ maps'[m].gen = maps[m].gen /\ maps'[m].spliced = maps[m].spliced
      /\ maps'[m].heap = maps[m].heap
      /\ Listed(file) => maps'[m].rec = n
      /\ ~Listed(file) => maps'[m].rec = maps[m].rec
  BY <1>0, <1>2, <1>3, PublishSets DEF LifeInv
<1>5. /\ ag' \in [Agents -> AgentStates]
      /\ \A a \in Agents :
           /\ ag'[a].at = ag[a].at /\ ag'[a].hooked = ag[a].hooked /\ ag'[a].gen = ag[a].gen
           /\ ag'[a].maps = ag[a].maps /\ ag'[a].list = ag[a].list /\ ag'[a].busy = ag[a].busy
           /\ ag'[a].hasty = ag[a].hasty /\ ag'[a].early = ag[a].early
           /\ staged[a] < file => ag'[a].missed
  BY Zenon, <1>0, CompareKeeps DEF LifeInv
<1>6. [dm[x] EXCEPT !.at = "run", !.list = file] \in DaemonStates
  BY Zenon, <1>2 DEF LifeInv, TypeOK, DaemonStates
<1>7. /\ \A d \in Daemons \ {x} : dm'[d] = dm[d]
      /\ dm'[x].at = "run" /\ dm'[x].maps = m /\ dm'[x].no = n /\ dm'[x].list = file
      /\ dm' \in [Daemons -> DaemonStates]
  BY Zenon, <1>0, <1>6 DEF LifeInv, TypeOK, DaemonStates
<1>8. TypeOK'
  BY <1>1, <1>4, <1>5, <1>7 DEF LifeInv, TypeOK
<1>9. Numbers'
  <2>1. \A q \in Sets : maps'[q].rec <= starts /\ (q > starts => maps'[q].rec = 0)
    BY <1>2, <1>4, Types DEF LifeInv, Numbers, Sets
  <2>2. \A d \in Daemons :
         /\ dm'[d].no <= starts /\ dm'[d].maps <= starts
         /\ dm'[d].at # "off" => dm'[d].no # 0
    BY <1>2, <1>7, Types, 0 \notin Sets DEF LifeInv, Numbers, Sets
  <2>3. \A a \in Agents : ag'[a].maps <= starts
    BY Zenon, <1>5 DEF LifeInv, Numbers
  <2>4. QED
    BY Zenon, <1>1, <2>1, <2>2, <2>3 DEF LifeInv, Numbers
<1>10. Lists'
  BY <1>1, <1>5, <1>7, Types DEF LifeInv, Lists, Runs
<1>11. Injections' /\ Drains'
  BY <1>1, <1>5 DEF LifeInv, Injections, Drains
<1>12. ASSUME ~overlap' PROVE Orderly'
  <2>1. Orderly
    BY Zenon, <1>1, <1>12 DEF LifeInv
  <2>2. \A d \in Daemons \ {x} : dm'[d].at = "off"
    BY <1>1, <1>7, <2>1 DEF Orderly, Alone
  <2>3. Alone' /\ Owns'
    BY <1>1, <1>2, <1>4, <1>7, <2>1, <2>2 DEF Orderly, Alone, Owns
  <2>4. Fresh' /\ Unseeded'
    BY Zenon, <1>7, <2>2 DEF Fresh, Unseeded
  <2>5. Published'
    <3>1. took' = took /\ (maps[m].rec = 0 \/ (m \in took /\ maps[m].rec # n))
      BY Zenon, <1>1, <2>1 DEF Orderly, Unseeded
    <3>2. /\ Listed(file) => maps'[m].rec = n
          /\ ~Listed(file) => maps'[m].rec = 0 \/ (m \in took /\ maps'[m].rec # n)
      BY Zenon, <1>4, <3>1
    <3>3. QED
      BY Zenon, <1>7, <2>2, <3>1, <3>2 DEF Published, Runs
  <2>6. Generations'
    BY <1>1, <1>4, <1>5, <2>1, Types DEF LifeInv, Orderly, Generations
  <2>7. UpToDate'
    BY <1>1, <1>5, <1>7, <2>1, <2>2 DEF Orderly, Unseeded, UpToDate, Runs
  <2>8. QED
    BY Zenon, <2>3, <2>4, <2>5, <2>6, <2>7 DEF Orderly
<1>13. QED
  BY Zenon, <1>8, <1>9, <1>10, <1>11, <1>12 DEF LifeInv

\* bncl_agent_init() reads the list first.
LEMMA InitListKeeps ==
  ASSUME LifeInv, NEW b \in Agents, InitList(b)
  PROVE  LifeInv'
<1> DEFINE late == staged[b] < file
<1>1. /\ \A a \in Agents \ {b} : ag'[a] = ag[a]
      /\ ag'[b].list = staged[b] /\ ag'[b].at = "listed" /\ (late => ag'[b].missed)
      /\ ag'[b].hooked = ag[b].hooked /\ ag'[b].gen = ag[b].gen /\ ag'[b].maps = ag[b].maps
      /\ ag'[b].busy = ag[b].busy /\ ag'[b].hasty = ag[b].hasty /\ ag'[b].early = ag[b].early
      /\ cli = Command("attach", b) /\ ag[b].at = "idle"
      /\ UNCHANGED <<pinned, maps, sock, dm, file, staged, cli, starts, overlap, took>>
  BY DEF LifeInv, TypeOK, AgentStates, InitList
<1>2. TypeOK'
  <2>1. \A h \in BOOLEAN :
          /\ [ag[b] EXCEPT !.list = staged[b], !.at = "listed", !.missed = h] \in AgentStates
    <3>1. ag[b] \in AgentStates /\ staged \in [Agents -> Versions]
      BY Zenon DEF LifeInv, TypeOK
    <3>2. QED
      BY Zenon, <3>1 DEF AgentStates
  <2>2. late \in BOOLEAN
    OBVIOUS
  <2>3. [ag[b] EXCEPT !.list = staged[b], !.at = "listed", !.missed = late] \in AgentStates
    BY Zenon, <2>1, <2>2
  <2>4. ag' \in [Agents -> AgentStates]
    BY Zenon, <2>3 DEF LifeInv, TypeOK, InitList
  <2>5. QED
    BY Zenon, <1>1, <2>4 DEF LifeInv, TypeOK
<1>3. Numbers'
  BY <1>1, Types DEF LifeInv, Numbers, Sets
<1>4. Lists'
  <2>1. ag'[b].missed \/ file <= staged[b]
    BY <1>1, Types DEF LifeInv
  <2>2. QED
    BY <1>1, <2>1, Types DEF LifeInv, Lists, Runs
<1>5. Injections'
  BY <1>1, CommandsDiffer DEF LifeInv, Injections
<1>6. Drains'
  BY <1>1 DEF LifeInv, Drains
<1>7. ASSUME ~overlap' PROVE Orderly'
  <2>1. Orderly
    BY Zenon, <1>1, <1>7 DEF LifeInv
  <2>2. Alone' /\ Owns' /\ Published'
    BY Zenon, <1>1, <2>1 DEF Orderly, Alone, Owns, Published, Runs
  <2>3. Fresh' /\ Generations'
    BY <1>1, <2>1 DEF Orderly, Fresh, Generations
  <2>4. Unseeded'
    BY <1>1, <2>1 DEF Orderly, Unseeded
  <2>5. UpToDate'
    BY <1>1, <2>1 DEF Orderly, UpToDate, Runs
  <2>6. QED
    BY Zenon, <2>2, <2>3, <2>4, <2>5 DEF Orderly
<1>8. QED
  BY Zenon, <1>2, <1>3, <1>4, <1>5, <1>6, <1>7 DEF LifeInv

\* handleWrite() polls or does not, and keeps the query back or does not.
LEMMA WriteKeeps ==
  ASSUME LifeInv, NEW b \in Agents, Write(b)
  PROVE  LifeInv'
<1>1. PICK g \in {ag[b], Refreshed(b)}, keep \in BOOLEAN :
        /\ keep => g.on
        /\ ag' = [ag EXCEPT ![b] = [g EXCEPT !.busy = keep, !.hasty = @ \/ (g.at # "idle" /\ g.on)]]
  BY Zenon DEF Write
<1>2. UNCHANGED <<pinned, maps, sock, dm, file, staged, cli, starts, overlap, took>>
  BY Zenon DEF Write
<1>3. /\ g \in AgentStates
      /\ g.at = ag[b].at /\ g.hooked = ag[b].hooked /\ g.maps = ag[b].maps
      /\ g.missed = ag[b].missed /\ g.early = ag[b].early
      /\ \/ g.gen = ag[b].gen /\ g.list = ag[b].list
         \/ ag[b].maps \in Sets /\ g.gen = maps[ag[b].maps].gen /\ g.list = staged[b]
  BY Zenon, RefreshedKeeps DEF LifeInv
<1> DEFINE late == g.hasty \/ (g.at # "idle" /\ g.on)
           new == [g EXCEPT !.busy = keep, !.hasty = late]
<1>4. ag' = [ag EXCEPT ![b] = new]
  BY Zenon, <1>1
<1>5. new \in AgentStates
  <2>1. \A h \in BOOLEAN : [g EXCEPT !.busy = keep, !.hasty = h] \in AgentStates
    BY Zenon, <1>3 DEF AgentStates
  <2>2. late \in BOOLEAN
    BY Zenon, <1>3 DEF AgentStates
  <2>3. QED
    BY Zenon, <2>1, <2>2
<1>6. /\ \A a \in Agents \ {b} : ag'[a] = ag[a]
      /\ ag'[b].at = ag[b].at /\ ag'[b].hooked = ag[b].hooked /\ ag'[b].maps = ag[b].maps
      /\ ag'[b].missed = ag[b].missed /\ ag'[b].early = ag[b].early
      /\ ag'[b].gen = g.gen /\ ag'[b].list = g.list /\ ag'[b].busy = keep /\ ag'[b].hasty = late
  BY Zenon, <1>3, <1>4 DEF LifeInv, TypeOK, AgentStates
<1>7. TypeOK'
  BY Zenon, <1>2, <1>4, <1>5 DEF LifeInv, TypeOK
<1>8. Numbers'
  BY Zenon, <1>2, <1>6, Types DEF LifeInv, Numbers, Sets
<1>9. Lists'
  BY Zenon, <1>2, <1>6, Types DEF LifeInv, Lists, Runs
<1>10. Injections'
  BY <1>2, <1>3, <1>6 DEF LifeInv, Injections
<1>11. Drains'
  <2>1. ag[b].hooked
    BY Zenon DEF Write
  <2>2. keep /\ g.at = "drained" => late
    BY Zenon, <1>1
  <2>3. \A a \in Agents \ {b} :
          ag'[a].busy /\ (ag'[a].at = "drained" \/ ~ag'[a].hooked) => ag'[a].hasty
    BY Zenon, <1>6 DEF LifeInv, Drains
  <2>4. ag'[b].busy /\ (ag'[b].at = "drained" \/ ~ag'[b].hooked) => ag'[b].hasty
    BY Zenon, <1>3, <1>6, <2>1, <2>2
  <2>5. QED
    BY Zenon, <2>3, <2>4 DEF Drains
<1>12. ASSUME ~overlap' PROVE Orderly'
  <2>1. Orderly
    BY Zenon, <1>2, <1>12 DEF LifeInv
  <2>2. Alone' /\ Owns' /\ Published'
    BY Zenon, <1>2, <2>1 DEF Orderly, Alone, Owns, Published, Runs
  <2>3. Fresh' /\ Unseeded'
    BY <1>2, <1>6, <2>1 DEF Orderly, Fresh, Unseeded
  <2>4. Generations'
    BY <1>2, <1>3, <1>6, <2>1, Types DEF LifeInv, Orderly, Generations
  <2>5. UpToDate'
    <3>1. \A d \in Daemons : Runs(d) => ag[b].missed \/ dm[d].list <= staged[b]
      BY Zenon DEF LifeInv, Lists
    <3>2. QED
      BY <1>2, <1>3, <1>6, <2>1, <3>1 DEF Orderly, UpToDate, Runs
  <2>6. QED
    BY Zenon, <2>2, <2>3, <2>4, <2>5 DEF Orderly
<1>13. QED
  BY Zenon, <1>7, <1>8, <1>9, <1>10, <1>11, <1>12 DEF LifeInv

\* attach-client stages the list and injects the agent.
LEMMA AttachKeeps ==
  ASSUME LifeInv, NEW b \in Agents, Attach(b)
  PROVE  LifeInv'
<1>1. /\ cli = Nil /\ staged'[b] = file /\ \A a \in Agents \ {b} : staged'[a] = staged[a]
      /\ \A m \in Sets : maps'[m].gen = maps[m].gen /\ maps'[m].rec = maps[m].rec
      /\ \A m \in Sets : maps'[m].spliced = maps[m].spliced /\ maps'[m].heap = maps[m].heap
      /\ UNCHANGED <<pinned, sock, dm, ag, file, starts, overlap, took>>
  BY Zenon, SwitchKeeps DEF LifeInv, TypeOK, Attach
<1>2. TypeOK'
  <2>1. maps' \in [Sets -> MapStates]
    BY Zenon, SwitchKeeps DEF LifeInv, Attach
  <2>2. cli' \in Commands /\ staged' \in [Agents -> Versions]
    BY Zenon DEF LifeInv, TypeOK, Attach, Commands, Command
  <2>3. QED
    BY Zenon, <1>1, <2>1, <2>2 DEF LifeInv, TypeOK
<1>3. Numbers'
  BY Zenon, <1>1, Types DEF LifeInv, Numbers, Sets
<1>4. Lists'
  BY Zenon, <1>1, Types DEF LifeInv, Lists, Runs
<1>5. Injections'
  BY <1>1, CommandsDiffer DEF LifeInv, Injections, Attach
<1>6. Drains'
  BY Zenon, <1>1 DEF LifeInv, Drains
<1>7. ASSUME ~overlap' PROVE Orderly'
  <2>1. Alone'
    BY Zenon, <1>1, <1>7 DEF LifeInv, Orderly, Alone
  <2>2. Owns'
    BY <1>1, <1>7, Types DEF LifeInv, Orderly, Owns
  <2>3. Fresh'
    BY <1>1, <1>7, Types DEF LifeInv, Orderly, Fresh, Numbers
  <2>4. Unseeded'
    BY <1>1, <1>7, Types DEF LifeInv, Orderly, Unseeded
  <2>5. Published'
    BY <1>1, <1>7, Types DEF LifeInv, Orderly, Published, Runs
  <2>6. Generations'
    BY Zenon, <1>1, <1>7, Types DEF LifeInv, Orderly, Generations
  <2>7. UpToDate'
    BY <1>1, <1>7, Types DEF LifeInv, Orderly, UpToDate, Runs
  <2>8. QED
    BY Zenon, <2>1, <2>2, <2>3, <2>4, <2>5, <2>6, <2>7 DEF Orderly
<1>8. QED
  BY Zenon, <1>2, <1>3, <1>4, <1>5, <1>6, <1>7 DEF LifeInv

\* detach-client switches CLIENT off and injects the agent again.
LEMMA DetachKeeps ==
  ASSUME LifeInv, NEW b \in Agents, Detach(b)
  PROVE  LifeInv'
<1>1. /\ cli = Nil
      /\ \A m \in Sets : maps'[m].gen = maps[m].gen /\ maps'[m].rec = maps[m].rec
      /\ \A m \in Sets : maps'[m].spliced = maps[m].spliced /\ maps'[m].heap = maps[m].heap
      /\ UNCHANGED <<pinned, sock, dm, ag, file, staged, starts, overlap, took>>
  BY Zenon, SwitchKeeps DEF LifeInv, TypeOK, Detach
<1>2. TypeOK'
  <2>1. maps' \in [Sets -> MapStates]
    BY Zenon, SwitchKeeps DEF LifeInv, Detach
  <2>2. cli' \in Commands /\ staged' \in [Agents -> Versions]
    BY Zenon DEF LifeInv, TypeOK, Detach, Commands, Command
  <2>3. QED
    BY Zenon, <1>1, <2>1, <2>2 DEF LifeInv, TypeOK
<1>3. Numbers'
  BY Zenon, <1>1, Types DEF LifeInv, Numbers, Sets
<1>4. Lists'
  BY Zenon, <1>1, Types DEF LifeInv, Lists, Runs
<1>5. Injections'
  BY <1>1, CommandsDiffer DEF LifeInv, Injections, Detach
<1>6. Drains'
  BY Zenon, <1>1 DEF LifeInv, Drains
<1>7. ASSUME ~overlap' PROVE Orderly'
  <2>1. Alone'
    BY Zenon, <1>1, <1>7 DEF LifeInv, Orderly, Alone
  <2>2. Owns'
    BY <1>1, <1>7, Types DEF LifeInv, Orderly, Owns
  <2>3. Fresh'
    BY <1>1, <1>7, Types DEF LifeInv, Orderly, Fresh, Numbers
  <2>4. Unseeded'
    BY <1>1, <1>7, Types DEF LifeInv, Orderly, Unseeded
  <2>5. Published'
    BY <1>1, <1>7, Types DEF LifeInv, Orderly, Published, Runs
  <2>6. Generations'
    BY Zenon, <1>1, <1>7, Types DEF LifeInv, Orderly, Generations
  <2>7. UpToDate'
    BY <1>1, <1>7, Types DEF LifeInv, Orderly, UpToDate, Runs
  <2>8. QED
    BY Zenon, <2>1, <2>2, <2>3, <2>4, <2>5, <2>6, <2>7 DEF Orderly
<1>8. QED
  BY Zenon, <1>2, <1>3, <1>4, <1>5, <1>6, <1>7 DEF LifeInv

\* The invariant holds before any daemon was started.
LEMMA InitKeeps == Init => LifeInv
<1> SUFFICES ASSUME Init PROVE LifeInv
  OBVIOUS
<1>1. TypeOK
  <2>1. NoMaps \in MapStates /\ Off \in DaemonStates /\ Bare \in AgentStates
    BY BoundsAssumption DEF NoMaps, Off, Bare, MapStates, DaemonStates, AgentStates
  <2>2. QED
    BY <2>1, BoundsAssumption DEF Init, TypeOK, Versions, Off
<1>2. Numbers /\ Lists /\ Injections /\ Drains
  BY BoundsAssumption
  DEF Init, Numbers, Lists, Injections, Drains, Runs, NoMaps, Off, Bare, Sets, Versions
<1>3. Orderly
  BY Zenon DEF Init, Orderly, Alone, Owns, Fresh, Unseeded, Published, Generations, UpToDate, Runs,
         Off, Bare
<1>4. QED
  BY Zenon, <1>1, <1>2, <1>3 DEF LifeInv

\* openControl() makes the control socket's file anew.
LEMMA BindKeeps ==
  ASSUME LifeInv, NEW x \in Daemons, Bind(x)
  PROVE  LifeInv'
<1>1. /\ \A d \in Daemons \ {x} : dm'[d] = dm[d]
      /\ dm[x].at = "probed" /\ dm'[x].at = "bound" /\ sock' = x
      /\ dm'[x].no = dm[x].no /\ dm'[x].maps = dm[x].maps /\ dm'[x].list = dm[x].list
      /\ UNCHANGED <<pinned, maps, ag, file, staged, cli, starts, overlap, took>>
  BY Zenon, BoundsAssumption DEF LifeInv, TypeOK, Sets, DaemonStates, Bind
<1>2. TypeOK'
  <2>1. dm[x] \in DaemonStates
    BY Zenon DEF LifeInv, TypeOK
  <2>2. [dm[x] EXCEPT !.at = "bound"] \in DaemonStates
    BY Zenon, <2>1 DEF DaemonStates
  <2>3. dm' \in [Daemons -> DaemonStates]
    BY Zenon, <2>2 DEF LifeInv, TypeOK, Bind
  <2>4. \A d \in Daemons : dm'[d].at \in {"loaded", "run", "closing"} => dm'[d].maps # 0
    BY Zenon, <1>1 DEF LifeInv, TypeOK
  <2>5. QED
    BY Zenon, <1>1, <2>3, <2>4 DEF LifeInv, TypeOK
<1>3. Numbers'
  BY <1>1, Types DEF LifeInv, Numbers, Sets
<1>4. Lists'
  BY Zenon, <1>1, Types DEF LifeInv, Lists, Runs
<1>5. Injections'
  BY Zenon, <1>1, CommandsDiffer DEF LifeInv, Injections
<1>6. Drains'
  BY Zenon, <1>1 DEF LifeInv, Drains
<1>7. ASSUME ~overlap' PROVE Orderly'
  <2>1. Alone'
    BY <1>1, <1>7 DEF LifeInv, Orderly, Alone
  <2>2. Owns'
    BY <1>1, <1>7 DEF LifeInv, Orderly, Owns
  <2>3. Fresh'
    BY <1>1, <1>7 DEF LifeInv, Orderly, Fresh
  <2>4. Unseeded'
    BY <1>1, <1>7 DEF LifeInv, Orderly, Unseeded
  <2>5. Published'
    BY <1>1, <1>7 DEF LifeInv, Orderly, Published, Runs
  <2>6. Generations'
    BY Zenon, <1>1, <1>7 DEF LifeInv, Orderly, Generations
  <2>7. UpToDate'
    BY <1>1, <1>7 DEF LifeInv, Orderly, UpToDate, Runs
  <2>8. QED
    BY Zenon, <2>1, <2>2, <2>3, <2>4, <2>5, <2>6, <2>7 DEF Orderly
<1>8. QED
  BY Zenon, <1>2, <1>3, <1>4, <1>5, <1>6, <1>7 DEF LifeInv

\* A load that fails takes the socket away, and no pin.
LEMMA LoadFailsKeeps ==
  ASSUME LifeInv, NEW x \in Daemons, LoadFails(x)
  PROVE  LifeInv'
<1>1. /\ \A d \in Daemons \ {x} : dm'[d] = dm[d]
      /\ dm[x].at = "bound" /\ sock' = Nil
      /\ dm'[x].at = "off" /\ dm'[x].no = 0 /\ dm'[x].maps = 0 /\ dm'[x].list = 0
      /\ UNCHANGED <<pinned, maps, ag, file, staged, cli, starts, overlap, took>>
  BY Zenon, BoundsAssumption DEF LifeInv, TypeOK, Sets, DaemonStates, LoadFails, Off
<1>2. TypeOK'
  BY BoundsAssumption, NilAssumption
  DEF LifeInv, TypeOK, Sets, Commands, Command, DaemonStates, LoadFails, Off
<1>3. Numbers'
  BY <1>1, Types DEF LifeInv, Numbers, Sets
<1>4. Lists'
  BY <1>1, Types DEF LifeInv, Lists, Runs
<1>5. Injections'
  BY Zenon, <1>1, CommandsDiffer DEF LifeInv, Injections
<1>6. Drains'
  BY Zenon, <1>1 DEF LifeInv, Drains
<1>7. ASSUME ~overlap' PROVE Orderly'
  <2>1. Alone'
    BY Zenon, <1>1, <1>7 DEF LifeInv, Orderly, Alone
  <2>2. Owns'
    BY <1>1, <1>7 DEF LifeInv, Orderly, Owns
  <2>3. Fresh'
    BY Zenon, <1>1, <1>7 DEF LifeInv, Orderly, Fresh
  <2>4. Unseeded'
    BY Zenon, <1>1, <1>7 DEF LifeInv, Orderly, Unseeded
  <2>5. Published'
    BY Zenon, <1>1, <1>7 DEF LifeInv, Orderly, Published, Runs
  <2>6. Generations'
    BY Zenon, <1>1, <1>7 DEF LifeInv, Orderly, Generations
  <2>7. UpToDate'
    BY <1>1, <1>7 DEF LifeInv, Orderly, UpToDate, Runs
  <2>8. QED
    BY Zenon, <2>1, <2>2, <2>3, <2>4, <2>5, <2>6, <2>7 DEF Orderly
<1>8. QED
  BY Zenon, <1>2, <1>3, <1>4, <1>5, <1>6, <1>7 DEF LifeInv

\* stop() closes the control socket first.
LEMMA CloseKeeps ==
  ASSUME LifeInv, NEW x \in Daemons, Close(x)
  PROVE  LifeInv'
<1>1. /\ \A d \in Daemons \ {x} : dm'[d] = dm[d]
      /\ dm[x].at \in {"loaded", "run"} /\ dm'[x].at = "closing" /\ sock' = Nil
      /\ dm'[x].no = dm[x].no /\ dm'[x].maps = dm[x].maps /\ dm'[x].list = dm[x].list
      /\ UNCHANGED <<pinned, maps, ag, file, staged, cli, starts, overlap, took>>
  BY Zenon, BoundsAssumption DEF LifeInv, TypeOK, Sets, DaemonStates, Close
<1>2. TypeOK'
  <2>1. dm[x] \in DaemonStates
    BY Zenon DEF LifeInv, TypeOK
  <2>2. [dm[x] EXCEPT !.at = "closing"] \in DaemonStates
    BY Zenon, <2>1 DEF DaemonStates
  <2>3. dm' \in [Daemons -> DaemonStates]
    BY Zenon, <2>2 DEF LifeInv, TypeOK, Close
  <2>4. \A d \in Daemons : dm'[d].at \in {"loaded", "run", "closing"} => dm'[d].maps # 0
    BY Zenon, <1>1 DEF LifeInv, TypeOK
  <2>5. QED
    BY Zenon, <1>1, <2>3, <2>4 DEF LifeInv, TypeOK
<1>3. Numbers'
  BY <1>1, Types DEF LifeInv, Numbers, Sets
<1>4. Lists'
  BY Zenon, <1>1, Types DEF LifeInv, Lists, Runs
<1>5. Injections'
  BY Zenon, <1>1, CommandsDiffer DEF LifeInv, Injections
<1>6. Drains'
  BY Zenon, <1>1 DEF LifeInv, Drains
<1>7. ASSUME ~overlap' PROVE Orderly'
  <2>1. Alone'
    BY <1>1, <1>7 DEF LifeInv, Orderly, Alone
  <2>2. Owns'
    BY <1>1, <1>7 DEF LifeInv, Orderly, Owns
  <2>3. Fresh'
    BY <1>1, <1>7 DEF LifeInv, Orderly, Fresh
  <2>4. Unseeded'
    BY <1>1, <1>7 DEF LifeInv, Orderly, Unseeded
  <2>5. Published'
    BY <1>1, <1>7 DEF LifeInv, Orderly, Published, Runs
  <2>6. Generations'
    BY Zenon, <1>1, <1>7 DEF LifeInv, Orderly, Generations
  <2>7. UpToDate'
    BY <1>1, <1>7 DEF LifeInv, Orderly, UpToDate, Runs
  <2>8. QED
    BY Zenon, <2>1, <2>2, <2>3, <2>4, <2>5, <2>6, <2>7 DEF Orderly
<1>8. QED
  BY Zenon, <1>2, <1>3, <1>4, <1>5, <1>6, <1>7 DEF LifeInv

\* stop() takes the splices and the pins last; nobody has loaded in between, or the
\* overlap is known.
LEMMA UnpinKeeps ==
  ASSUME LifeInv, NEW x \in Daemons, Unpin(x)
  PROVE  LifeInv'
<1>1. /\ \A d \in Daemons \ {x} : dm'[d] = dm[d]
      /\ dm[x].at = "closing" /\ pinned' = 0
      /\ dm'[x].at = "off" /\ dm'[x].no = 0 /\ dm'[x].maps = 0 /\ dm'[x].list = 0
      /\ \A m \in Sets : maps'[m].gen = maps[m].gen /\ maps'[m].rec = maps[m].rec
      /\ UNCHANGED <<sock, ag, file, staged, cli, starts, overlap, took>>
  BY BoundsAssumption DEF LifeInv, TypeOK, Sets, DaemonStates, MapStates, Unpin, Off
<1>2. TypeOK'
  <2>1. Off \in DaemonStates
    BY BoundsAssumption DEF Off, DaemonStates
  <2>2. [dm EXCEPT ![x] = Off] \in [Daemons -> DaemonStates]
    BY Zenon, <2>1 DEF LifeInv, TypeOK
  <2>3. [maps EXCEPT ![dm[x].maps].spliced = FALSE] \in [Sets -> MapStates]
    <3>1. maps \in [Sets -> MapStates]
      BY Zenon DEF LifeInv, TypeOK
    <3>2. \A r \in MapStates : [r EXCEPT !.spliced = FALSE] \in MapStates
      BY Zenon DEF MapStates
    <3>3. QED
      BY Zenon, <3>1, <3>2
  <2>4. \A d \in Daemons : dm'[d].at \in {"loaded", "run", "closing"} => dm'[d].maps # 0
    BY Zenon, <1>1 DEF LifeInv, TypeOK
  <2>5. QED
    BY <2>2, <2>3, <2>4, BoundsAssumption DEF LifeInv, TypeOK, Unpin
<1>3. Numbers'
  BY <1>1, Types DEF LifeInv, Numbers, Sets
<1>4. Lists'
  BY <1>1, Types DEF LifeInv, Lists, Runs
<1>5. Injections'
  BY Zenon, <1>1, CommandsDiffer DEF LifeInv, Injections
<1>6. Drains'
  BY Zenon, <1>1 DEF LifeInv, Drains
<1>7. ASSUME ~overlap' PROVE Orderly'
  <2>1. Alone'
    BY Zenon, <1>1, <1>7 DEF LifeInv, Orderly, Alone
  <2>2. Owns'
    BY <1>1, <1>7, Types DEF LifeInv, Orderly, Owns, Alone
  <2>3. Fresh'
    BY <1>1, <1>7, Types DEF LifeInv, Orderly, Fresh, Numbers
  <2>4. Unseeded'
    BY <1>1, <1>7, Types DEF LifeInv, Orderly, Unseeded
  <2>5. Published'
    BY Zenon, <1>1, <1>7, Types DEF LifeInv, Orderly, Published, Alone, Runs
  <2>6. Generations'
    BY Zenon, <1>1, <1>7, Types DEF LifeInv, Orderly, Generations
  <2>7. UpToDate'
    BY <1>1, <1>7, Types DEF LifeInv, Orderly, UpToDate, Alone, Runs
  <2>8. QED
    BY Zenon, <2>1, <2>2, <2>3, <2>4, <2>5, <2>6, <2>7 DEF Orderly
<1>8. QED
  BY Zenon, <1>2, <1>3, <1>4, <1>5, <1>6, <1>7 DEF LifeInv

\* A killed daemon leaves pins, maps and socket as they are.
LEMMA KillKeeps ==
  ASSUME LifeInv, NEW x \in Daemons, Kill(x)
  PROVE  LifeInv'
<1>1. /\ \A d \in Daemons \ {x} : dm'[d] = dm[d]
      /\ dm[x].at # "off"
      /\ dm'[x].at = "off" /\ dm'[x].no = 0 /\ dm'[x].maps = 0 /\ dm'[x].list = 0
      /\ UNCHANGED <<pinned, maps, sock, ag, file, staged, cli, starts, overlap, took>>
  BY Zenon, BoundsAssumption DEF LifeInv, TypeOK, Sets, DaemonStates, Kill, Off
<1>2. TypeOK'
  BY BoundsAssumption, NilAssumption
  DEF LifeInv, TypeOK, Sets, Commands, Command, DaemonStates, Kill, Off
<1>3. Numbers'
  BY <1>1, Types DEF LifeInv, Numbers, Sets
<1>4. Lists'
  BY <1>1, Types DEF LifeInv, Lists, Runs
<1>5. Injections'
  BY Zenon, <1>1, CommandsDiffer DEF LifeInv, Injections
<1>6. Drains'
  BY Zenon, <1>1 DEF LifeInv, Drains
<1>7. ASSUME ~overlap' PROVE Orderly'
  <2>1. Alone'
    BY <1>1, <1>7 DEF LifeInv, Orderly, Alone
  <2>2. Owns'
    BY Zenon, <1>1, <1>7 DEF LifeInv, Orderly, Owns
  <2>3. Fresh'
    BY Zenon, <1>1, <1>7 DEF LifeInv, Orderly, Fresh
  <2>4. Unseeded'
    BY Zenon, <1>1, <1>7 DEF LifeInv, Orderly, Unseeded
  <2>5. Published'
    BY Zenon, <1>1, <1>7 DEF LifeInv, Orderly, Published, Runs
  <2>6. Generations'
    BY Zenon, <1>1, <1>7 DEF LifeInv, Orderly, Generations
  <2>7. UpToDate'
    BY <1>1, <1>7 DEF LifeInv, Orderly, UpToDate, Runs
  <2>8. QED
    BY Zenon, <2>1, <2>2, <2>3, <2>4, <2>5, <2>6, <2>7 DEF Orderly
<1>8. QED
  BY Zenon, <1>2, <1>3, <1>4, <1>5, <1>6, <1>7 DEF LifeInv

\* An application reads its answer.
LEMMA ReadKeeps ==
  ASSUME LifeInv, NEW b \in Agents, Read(b)
  PROVE  LifeInv'
<1>1. /\ \A a \in Agents \ {b} : ag'[a] = ag[a]
      /\ ~ag'[b].busy
      /\ ag'[b].at = ag[b].at /\ ag'[b].hooked = ag[b].hooked /\ ag'[b].gen = ag[b].gen
      /\ ag'[b].maps = ag[b].maps
      /\ ag'[b].list = ag[b].list /\ ag'[b].missed = ag[b].missed /\ ag'[b].early = ag[b].early
      /\ UNCHANGED <<pinned, maps, sock, dm, file, staged, cli, starts, overlap, took>>
  BY Zenon, BoundsAssumption DEF LifeInv, TypeOK, Sets, AgentStates, Read
<1>2. TypeOK'
  <2>1. [ag[b] EXCEPT !.busy = FALSE] \in AgentStates
    <3>1. ag[b] \in AgentStates /\ staged \in [Agents -> Versions]
      BY Zenon DEF LifeInv, TypeOK
    <3>2. QED
      BY Zenon, <3>1 DEF AgentStates
  <2>2. QED
    BY Zenon, <2>1 DEF LifeInv, TypeOK, Read
<1>3. Numbers'
  BY Zenon, <1>1, Types DEF LifeInv, Numbers, Sets
<1>4. Lists'
  BY Zenon, <1>1, Types DEF LifeInv, Lists, Runs
<1>5. Injections'
  BY <1>1, CommandsDiffer DEF LifeInv, Injections
<1>6. Drains'
  BY Zenon, <1>1 DEF LifeInv, Drains
<1>7. ASSUME ~overlap' PROVE Orderly'
  <2>1. Alone'
    BY Zenon, <1>1, <1>7 DEF LifeInv, Orderly, Alone
  <2>2. Owns'
    BY Zenon, <1>1, <1>7 DEF LifeInv, Orderly, Owns
  <2>3. Fresh'
    BY <1>1, <1>7 DEF LifeInv, Orderly, Fresh
  <2>4. Unseeded'
    BY <1>1, <1>7 DEF LifeInv, Orderly, Unseeded
  <2>5. Published'
    BY Zenon, <1>1, <1>7 DEF LifeInv, Orderly, Published, Runs
  <2>6. Generations'
    BY Zenon, <1>1, <1>7 DEF LifeInv, Orderly, Generations
  <2>7. UpToDate'
    BY <1>1, <1>7 DEF LifeInv, Orderly, UpToDate, Runs
  <2>8. QED
    BY Zenon, <2>1, <2>2, <2>3, <2>4, <2>5, <2>6, <2>7 DEF Orderly
<1>8. QED
  BY Zenon, <1>2, <1>3, <1>4, <1>5, <1>6, <1>7 DEF LifeInv

\* unhookAll() turns the agent off.
LEMMA DrainKeeps ==
  ASSUME LifeInv, NEW b \in Agents, Drain(b)
  PROVE  LifeInv'
<1>1. /\ \A a \in Agents \ {b} : ag'[a] = ag[a]
      /\ cli = Command("detach", b) /\ ag[b].at = "idle" /\ ag'[b].at \in {"idle", "draining"}
      /\ ag'[b].hooked = ag[b].hooked /\ ag'[b].gen = ag[b].gen /\ ag'[b].maps = ag[b].maps
      /\ ag'[b].list = ag[b].list
      /\ ag'[b].busy = ag[b].busy /\ ag'[b].hasty = ag[b].hasty /\ ag'[b].missed = ag[b].missed
      /\ ag'[b].early = ag[b].early
      /\ UNCHANGED <<pinned, maps, sock, dm, file, staged, starts, overlap, took>>
  BY BoundsAssumption DEF LifeInv, TypeOK, Sets, AgentStates, Drain
<1>2. TypeOK'
  <2>1. [ag[b] EXCEPT !.on = FALSE, !.at = "draining"] \in AgentStates
    <3>1. ag[b] \in AgentStates /\ staged \in [Agents -> Versions]
      BY Zenon DEF LifeInv, TypeOK
    <3>2. QED
      BY Zenon, <3>1 DEF AgentStates
  <2>2. QED
    BY Zenon, <2>1 DEF LifeInv, TypeOK, Drain
<1>3. Numbers'
  BY Zenon, <1>1, Types DEF LifeInv, Numbers, Sets
<1>4. Lists'
  BY Zenon, <1>1, Types DEF LifeInv, Lists, Runs
<1>5. Injections'
  BY <1>1, CommandsDiffer DEF LifeInv, Injections, Drain
<1>6. Drains'
  BY Zenon, <1>1 DEF LifeInv, Drains
<1>7. ASSUME ~overlap' PROVE Orderly'
  <2>1. Alone'
    BY Zenon, <1>1, <1>7 DEF LifeInv, Orderly, Alone
  <2>2. Owns'
    BY Zenon, <1>1, <1>7 DEF LifeInv, Orderly, Owns
  <2>3. Fresh'
    BY <1>1, <1>7 DEF LifeInv, Orderly, Fresh
  <2>4. Unseeded'
    BY <1>1, <1>7 DEF LifeInv, Orderly, Unseeded
  <2>5. Published'
    BY Zenon, <1>1, <1>7 DEF LifeInv, Orderly, Published, Runs
  <2>6. Generations'
    BY <1>1, <1>7 DEF LifeInv, Orderly, Generations
  <2>7. UpToDate'
    BY <1>1, <1>7 DEF LifeInv, Orderly, UpToDate, Runs
  <2>8. QED
    BY Zenon, <2>1, <2>2, <2>3, <2>4, <2>5, <2>6, <2>7 DEF Orderly
<1>8. QED
  BY Zenon, <1>2, <1>3, <1>4, <1>5, <1>6, <1>7 DEF LifeInv

\* unhookAll() has waited; who still waits for an answer is known to.
LEMMA DrainedKeeps ==
  ASSUME LifeInv, NEW b \in Agents, Drained(b)
  PROVE  LifeInv'
<1>1. /\ \A a \in Agents \ {b} : ag'[a] = ag[a]
      /\ ag[b].at = "draining" /\ ag'[b].at = "drained"
      /\ ag'[b].busy => ag'[b].hasty
      /\ ag'[b].hooked = ag[b].hooked /\ ag'[b].gen = ag[b].gen /\ ag'[b].maps = ag[b].maps
      /\ ag'[b].list = ag[b].list
      /\ ag'[b].missed = ag[b].missed /\ ag'[b].early = ag[b].early
      /\ UNCHANGED <<pinned, maps, sock, dm, file, staged, cli, starts, overlap, took>>
  BY BoundsAssumption DEF LifeInv, TypeOK, Sets, AgentStates, Drained
<1>2. TypeOK'
  <2>1. (ag[b].hasty \/ ag[b].busy) \in BOOLEAN
    OBVIOUS
  <2>2. \A h \in BOOLEAN : [ag[b] EXCEPT !.at = "drained", !.hasty = h] \in AgentStates
    <3>1. ag[b] \in AgentStates
      BY Zenon DEF LifeInv, TypeOK
    <3>2. QED
      BY Zenon, <3>1 DEF AgentStates
  <2>3. [ag[b] EXCEPT !.at = "drained", !.hasty = ag[b].hasty \/ ag[b].busy] \in AgentStates
    BY Zenon, <2>1, <2>2
  <2>4. QED
    BY Zenon, <2>3 DEF LifeInv, TypeOK, Drained
<1>3. Numbers'
  BY <1>1, Types DEF LifeInv, Numbers, Sets
<1>4. Lists'
  BY Zenon, <1>1, Types DEF LifeInv, Lists, Runs
<1>5. Injections'
  BY <1>1, CommandsDiffer DEF LifeInv, Injections
<1>6. Drains'
  BY Zenon, <1>1 DEF LifeInv, Drains
<1>7. ASSUME ~overlap' PROVE Orderly'
  <2>1. Alone'
    BY Zenon, <1>1, <1>7 DEF LifeInv, Orderly, Alone
  <2>2. Owns'
    BY Zenon, <1>1, <1>7 DEF LifeInv, Orderly, Owns
  <2>3. Fresh'
    BY <1>1, <1>7 DEF LifeInv, Orderly, Fresh
  <2>4. Unseeded'
    BY <1>1, <1>7 DEF LifeInv, Orderly, Unseeded
  <2>5. Published'
    BY Zenon, <1>1, <1>7 DEF LifeInv, Orderly, Published, Runs
  <2>6. Generations'
    BY <1>1, <1>7 DEF LifeInv, Orderly, Generations
  <2>7. UpToDate'
    BY <1>1, <1>7 DEF LifeInv, Orderly, UpToDate, Runs
  <2>8. QED
    BY Zenon, <2>1, <2>2, <2>3, <2>4, <2>5, <2>6, <2>7 DEF Orderly
<1>8. QED
  BY Zenon, <1>2, <1>3, <1>4, <1>5, <1>6, <1>7 DEF LifeInv

\* The entry points are put back.
LEMMA RevertKeeps ==
  ASSUME LifeInv, NEW b \in Agents, Revert(b)
  PROVE  LifeInv'
<1>1. /\ \A a \in Agents \ {b} : ag'[a] = ag[a]
      /\ ag[b].at = "drained" /\ ag'[b].at = "idle" /\ ~ag'[b].hooked
      /\ ag'[b].gen = ag[b].gen /\ ag'[b].maps = ag[b].maps /\ ag'[b].list = ag[b].list
      /\ ag'[b].busy = ag[b].busy /\ ag'[b].hasty = ag[b].hasty /\ ag'[b].missed = ag[b].missed
      /\ ag'[b].early = ag[b].early
      /\ UNCHANGED <<pinned, maps, sock, dm, file, staged, starts, overlap, took>>
  BY BoundsAssumption DEF LifeInv, TypeOK, Sets, AgentStates, Revert
<1>2. TypeOK'
  <2>1. [ag[b] EXCEPT !.at = "idle", !.hooked = FALSE] \in AgentStates
    <3>1. ag[b] \in AgentStates /\ staged \in [Agents -> Versions]
      BY Zenon DEF LifeInv, TypeOK
    <3>2. QED
      BY Zenon, <3>1 DEF AgentStates
  <2>2. QED
    BY Zenon, <2>1 DEF LifeInv, TypeOK, Revert
<1>3. Numbers'
  BY Zenon, <1>1, Types DEF LifeInv, Numbers, Sets
<1>4. Lists'
  BY Zenon, <1>1, Types DEF LifeInv, Lists, Runs
<1>5. Injections'
  <2>1. ASSUME NEW a \in Agents \ {b} PROVE ag[a].at = "idle"
    <3>1. cli = Command("detach", b)
      BY Zenon, <1>1 DEF LifeInv, Injections
    <3>2. ag[a].at \notin {"listed", "draining", "drained"}
      BY Zenon, <3>1, CommandsDiffer DEF LifeInv, Injections
    <3>3. QED
      BY Zenon, <3>2 DEF LifeInv, TypeOK, AgentStates
  <2>2. QED
    BY Zenon, <1>1, <2>1 DEF Injections
<1>6. Drains'
  BY Zenon, <1>1 DEF LifeInv, Drains
<1>7. ASSUME ~overlap' PROVE Orderly'
  <2>1. Alone'
    BY Zenon, <1>1, <1>7 DEF LifeInv, Orderly, Alone
  <2>2. Owns'
    BY Zenon, <1>1, <1>7 DEF LifeInv, Orderly, Owns
  <2>3. Fresh'
    BY <1>1, <1>7 DEF LifeInv, Orderly, Fresh
  <2>4. Unseeded'
    BY <1>1, <1>7 DEF LifeInv, Orderly, Unseeded
  <2>5. Published'
    BY Zenon, <1>1, <1>7 DEF LifeInv, Orderly, Published, Runs
  <2>6. Generations'
    BY <1>1, <1>7 DEF LifeInv, Orderly, Generations
  <2>7. UpToDate'
    BY <1>1, <1>7 DEF LifeInv, Orderly, UpToDate, Runs
  <2>8. QED
    BY Zenon, <2>1, <2>2, <2>3, <2>4, <2>5, <2>6, <2>7 DEF Orderly
<1>8. QED
  BY Zenon, <1>2, <1>3, <1>4, <1>5, <1>6, <1>7 DEF LifeInv

\* The administrator changes the list file.
LEMMA EditKeeps ==
  ASSUME LifeInv, Edit
  PROVE  LifeInv'
<1>1. /\ file' = file + 1
      /\ UNCHANGED <<pinned, maps, sock, dm, ag, staged, cli, starts, overlap, took>>
  BY Zenon, BoundsAssumption DEF LifeInv, TypeOK, Sets, Versions, Edit
<1>2. TypeOK'
  BY BoundsAssumption, NilAssumption
  DEF LifeInv, TypeOK, Sets, Commands, Command, Versions, Edit
<1>3. Numbers'
  BY Zenon, <1>1, Types DEF LifeInv, Numbers, Sets
<1>4. Lists'
  BY <1>1, Types DEF LifeInv, Lists, Runs
<1>5. Injections'
  BY Zenon, <1>1, CommandsDiffer DEF LifeInv, Injections
<1>6. Drains'
  BY Zenon, <1>1 DEF LifeInv, Drains
<1>7. ASSUME ~overlap' PROVE Orderly'
  <2>1. Alone'
    BY Zenon, <1>1, <1>7 DEF LifeInv, Orderly, Alone
  <2>2. Owns'
    BY Zenon, <1>1, <1>7 DEF LifeInv, Orderly, Owns
  <2>3. Fresh'
    BY Zenon, <1>1, <1>7 DEF LifeInv, Orderly, Fresh
  <2>4. Unseeded'
    BY Zenon, <1>1, <1>7 DEF LifeInv, Orderly, Unseeded
  <2>5. Published'
    BY Zenon, <1>1, <1>7 DEF LifeInv, Orderly, Published, Runs
  <2>6. Generations'
    BY Zenon, <1>1, <1>7 DEF LifeInv, Orderly, Generations
  <2>7. UpToDate'
    BY Zenon, <1>1, <1>7 DEF LifeInv, Orderly, UpToDate, Runs
  <2>8. QED
    BY Zenon, <2>1, <2>2, <2>3, <2>4, <2>5, <2>6, <2>7 DEF Orderly
<1>8. QED
  BY Zenon, <1>2, <1>3, <1>4, <1>5, <1>6, <1>7 DEF LifeInv

\* reload-config stages the file where it can.
LEMMA StageKeeps ==
  ASSUME LifeInv, Stage
  PROVE  LifeInv'
<1>1. /\ cli = Nil /\ \A a \in Agents : staged'[a] \in {file, staged[a]}
      /\ UNCHANGED <<pinned, maps, sock, dm, ag, file, starts, overlap, took>>
  BY Zenon, BoundsAssumption DEF LifeInv, TypeOK, Sets, Versions, Stage
<1>2. TypeOK'
  BY BoundsAssumption, NilAssumption
  DEF LifeInv, TypeOK, Sets, Commands, Command, Versions, Stage
<1>3. Numbers'
  BY Zenon, <1>1, Types DEF LifeInv, Numbers, Sets
<1>4. Lists'
  BY Zenon, <1>1, Types DEF LifeInv, Lists, Runs
<1>5. Injections'
  BY Zenon, <1>1, CommandsDiffer DEF LifeInv, Injections, Stage
<1>6. Drains'
  BY Zenon, <1>1 DEF LifeInv, Drains
<1>7. ASSUME ~overlap' PROVE Orderly'
  <2>1. Alone'
    BY Zenon, <1>1, <1>7 DEF LifeInv, Orderly, Alone
  <2>2. Owns'
    BY Zenon, <1>1, <1>7 DEF LifeInv, Orderly, Owns
  <2>3. Fresh'
    BY Zenon, <1>1, <1>7 DEF LifeInv, Orderly, Fresh
  <2>4. Unseeded'
    BY Zenon, <1>1, <1>7 DEF LifeInv, Orderly, Unseeded
  <2>5. Published'
    BY Zenon, <1>1, <1>7 DEF LifeInv, Orderly, Published, Runs
  <2>6. Generations'
    BY Zenon, <1>1, <1>7 DEF LifeInv, Orderly, Generations
  <2>7. UpToDate'
    BY Zenon, <1>1, <1>7 DEF LifeInv, Orderly, UpToDate, Runs
  <2>8. QED
    BY Zenon, <2>1, <2>2, <2>3, <2>4, <2>5, <2>6, <2>7 DEF Orderly
<1>8. QED
  BY Zenon, <1>2, <1>3, <1>4, <1>5, <1>6, <1>7 DEF LifeInv

\* A reload that nobody answers changes nothing.
LEMMA ReloadFailsKeeps ==
  ASSUME LifeInv, ReloadFails
  PROVE  LifeInv'
<1>1. /\ cli = Command("reload", Nil)
      /\ UNCHANGED <<pinned, maps, sock, dm, ag, file, staged, starts, overlap, took>>
  BY Zenon, BoundsAssumption DEF LifeInv, TypeOK, Sets, ReloadFails
<1>2. TypeOK'
  BY Zenon, BoundsAssumption, NilAssumption DEF LifeInv, TypeOK, Sets, Commands, Command, ReloadFails
<1>3. Numbers'
  BY Zenon, <1>1, Types DEF LifeInv, Numbers, Sets
<1>4. Lists'
  BY Zenon, <1>1, Types DEF LifeInv, Lists, Runs
<1>5. Injections'
  BY Zenon, <1>1, CommandsDiffer DEF LifeInv, Injections, ReloadFails
<1>6. Drains'
  BY Zenon, <1>1 DEF LifeInv, Drains
<1>7. ASSUME ~overlap' PROVE Orderly'
  <2>1. Alone'
    BY Zenon, <1>1, <1>7 DEF LifeInv, Orderly, Alone
  <2>2. Owns'
    BY Zenon, <1>1, <1>7 DEF LifeInv, Orderly, Owns
  <2>3. Fresh'
    BY Zenon, <1>1, <1>7 DEF LifeInv, Orderly, Fresh
  <2>4. Unseeded'
    BY Zenon, <1>1, <1>7 DEF LifeInv, Orderly, Unseeded
  <2>5. Published'
    BY Zenon, <1>1, <1>7 DEF LifeInv, Orderly, Published, Runs
  <2>6. Generations'
    BY Zenon, <1>1, <1>7 DEF LifeInv, Orderly, Generations
  <2>7. UpToDate'
    BY Zenon, <1>1, <1>7 DEF LifeInv, Orderly, UpToDate, Runs
  <2>8. QED
    BY Zenon, <2>1, <2>2, <2>3, <2>4, <2>5, <2>6, <2>7 DEF Orderly
<1>8. QED
  BY Zenon, <1>2, <1>3, <1>4, <1>5, <1>6, <1>7 DEF LifeInv

\* openControl() probes the socket: whoever gets through it finds no daemon that is
\* loaded, or the overlap is known.
LEMMA ProbeKeeps ==
  ASSUME LifeInv, NEW x \in Daemons, Probe(x)
  PROVE  LifeInv'
<1>1. starts \in Nat /\ starts + 1 \in Sets /\ dm[x].at = "off" /\ starts' = starts + 1
  BY BoundsAssumption DEF LifeInv, TypeOK, Sets, Probe
<1>2. UNCHANGED <<pinned, maps, sock, ag, file, staged, cli, took>>
  BY Zenon DEF Probe
<1>3. CASE \E e \in Daemons : Listens(e)
  <2>1. UNCHANGED <<dm, overlap>>
    BY Zenon, <1>3 DEF Probe
  <2>2. TypeOK'
    BY <1>1, <1>2, <2>1, BoundsAssumption DEF LifeInv, TypeOK, Sets
  <2>3. Numbers'
    BY <1>1, <1>2, <2>1, Types DEF LifeInv, Numbers, Sets
  <2>4. Lists' /\ Injections' /\ Drains'
    BY Zenon, <1>2, <2>1 DEF LifeInv, Lists, Injections, Drains, Runs
  <2>5. ASSUME ~overlap' PROVE Orderly'
    <3>1. Orderly
      BY Zenon, <2>1, <2>5 DEF LifeInv
    <3>2. Alone' /\ Owns' /\ Generations'
      BY Zenon, <1>2, <2>1, <3>1 DEF Orderly, Alone, Owns, Generations
    <3>3. Fresh' /\ Unseeded' /\ Published' /\ UpToDate'
      BY Zenon, <1>2, <2>1, <3>1 DEF Orderly, Fresh, Unseeded, Published, UpToDate, Runs
    <3>4. QED
      BY Zenon, <3>2, <3>3 DEF Orderly
  <2>6. QED
    BY Zenon, <2>2, <2>3, <2>4, <2>5 DEF LifeInv
<1>4. CASE ~\E e \in Daemons : Listens(e)
  <2> DEFINE new == [at |-> "probed", no |-> starts + 1, maps |-> 0, list |-> 0]
  <2>1. dm' = [dm EXCEPT ![x] = new]
    BY Zenon, <1>4 DEF Probe, Off
  <2>2. new \in DaemonStates
    BY <1>1, BoundsAssumption DEF DaemonStates, Sets
  <2>3. /\ \A d \in Daemons \ {x} : dm'[d] = dm[d]
        /\ dm'[x].at = "probed" /\ dm'[x].no = starts + 1 /\ dm'[x].maps = 0 /\ dm'[x].list = 0
    BY Zenon, <2>1 DEF LifeInv, TypeOK
  <2>4. TypeOK'
    BY <1>1, <1>2, <2>1, <2>2, BoundsAssumption DEF LifeInv, TypeOK, Sets
  <2>5. Numbers'
    <3>1. \A q \in Sets : maps'[q].rec <= starts' /\ (q > starts' => maps'[q].rec = 0)
      BY <1>1, <1>2, Types DEF LifeInv, Numbers, Sets
    <3>2. \A d \in Daemons :
            /\ dm'[d].no <= starts' /\ dm'[d].maps <= starts'
            /\ dm'[d].at # "off" => dm'[d].no # 0
      BY <1>1, <2>3, Types DEF LifeInv, Numbers
    <3>3. pinned' <= starts'
      BY <1>1, <1>2, Types DEF LifeInv, Numbers
    <3>4. \A a \in Agents : ag'[a].maps <= starts'
      BY <1>1, <1>2, Types DEF LifeInv, Numbers
    <3>5. QED
      BY Zenon, <3>1, <3>2, <3>3, <3>4 DEF Numbers
  <2>6. Lists'
    BY <1>2, <2>3, Types DEF LifeInv, Lists, Runs
  <2>7. Injections' /\ Drains'
    BY Zenon, <1>2 DEF LifeInv, Injections, Drains
  <2>8. ASSUME ~overlap' PROVE Orderly'
    <3>1. ~overlap /\ \A e \in Daemons : dm[e].at \notin {"probed", "closing"}
      BY Zenon, <1>4, <2>8 DEF Probe
    <3>2. \A e \in Daemons : dm[e].at = "off"
      BY Zenon, <1>4, <3>1, Types DEF LifeInv, Orderly, Alone, Listens
    <3>3. \A e \in Daemons \ {x} : dm'[e].at = "off"
      BY Zenon, <2>3, <3>2
    <3>4. Alone' /\ Owns' /\ Unseeded' /\ Published' /\ UpToDate'
      BY Zenon, <2>3, <3>3 DEF Alone, Owns, Unseeded, Published, UpToDate, Runs
    <3>5. Fresh'
      BY <1>1, <1>2, <2>3, <3>3, Types DEF LifeInv, Numbers, Fresh, Sets
    <3>6. Generations'
      BY Zenon, <1>2, <3>1 DEF LifeInv, Orderly, Generations
    <3>7. QED
      BY Zenon, <3>4, <3>5, <3>6 DEF Orderly
  <2>9. QED
    BY Zenon, <2>4, <2>5, <2>6, <2>7, <2>8 DEF LifeInv
<1>5. QED
  BY Zenon, <1>3, <1>4

\* start() makes the maps or takes them over, and lays out a heap of its own.
LEMMA LoadKeeps ==
  ASSUME LifeInv, NEW x \in Daemons, Load(x)
  PROVE  LifeInv'
<1> DEFINE n == dm[x].no
           m == IF pinned = 0 THEN n ELSE pinned
           new == [gen |-> 1, client_on |-> TRUE, rec |-> maps[m].rec, heap |-> n, spliced |-> TRUE]
<1>1. dm[x].at = "bound" /\ n \in Sets /\ m \in Sets /\ starts' = starts /\ overlap' = overlap
  BY Types, BoundsAssumption DEF LifeInv, TypeOK, Numbers, Sets, Load
<1>2. /\ pinned' = m /\ maps' = [maps EXCEPT ![m] = new]
      /\ dm' = [dm EXCEPT ![x].at = "loaded", ![x].maps = m]
      /\ took' = IF m = n THEN took ELSE took \cup {m}
      /\ UNCHANGED <<sock, ag, file, staged, cli>>
  BY Zenon DEF Load
<1>3. new \in MapStates
  <2>1. maps[m].rec \in 0 .. MaxStarts
    BY Zenon, <1>1 DEF LifeInv, TypeOK, MapStates
  <2>2. 1 \in 0 .. MaxGen /\ n \in 0 .. MaxStarts
    BY <1>1, BoundsAssumption DEF Sets
  <2>3. QED
    BY Zenon, <2>1, <2>2 DEF MapStates
<1>4. [dm[x] EXCEPT !.at = "loaded", !.maps = m] \in DaemonStates
  <2>1. dm[x] \in DaemonStates /\ m \in 0 .. MaxStarts
    BY <1>1, BoundsAssumption DEF LifeInv, TypeOK, Sets
  <2>2. QED
    BY Zenon, <2>1 DEF DaemonStates
<1>5. /\ \A d \in Daemons \ {x} : dm'[d] = dm[d]
      /\ dm'[x].at = "loaded" /\ dm'[x].maps = m /\ dm'[x].no = n /\ dm'[x].list = dm[x].list
      /\ dm' \in [Daemons -> DaemonStates]
  BY <1>2, <1>4 DEF LifeInv, TypeOK, DaemonStates
<1>6. /\ \A q \in Sets \ {m} : maps'[q] = maps[q]
      /\ maps'[m].gen = 1 /\ maps'[m].rec = maps[m].rec /\ maps'[m].heap = n /\ maps'[m].spliced
      /\ maps' \in [Sets -> MapStates]
  BY Zenon, <1>1, <1>2, <1>3 DEF LifeInv, TypeOK
<1> HIDE DEF new
<1>7. TypeOK'
  BY <1>1, <1>2, <1>5, <1>6, BoundsAssumption DEF LifeInv, TypeOK, Sets
<1>8. Numbers'
  BY <1>1, <1>2, <1>5, <1>6, Types DEF LifeInv, Numbers, Sets
<1>9. Lists'
  BY <1>1, <1>2, <1>5, Types DEF LifeInv, Lists, Runs
<1>10. Injections' /\ Drains'
  BY Zenon, <1>2 DEF LifeInv, Injections, Drains
<1>11. ASSUME ~overlap' PROVE Orderly'
  <2>1. Alone /\ Fresh /\ Generations
    BY Zenon, <1>1, <1>11 DEF LifeInv, Orderly
  <2>2. \A d \in Daemons \ {x} : dm'[d].at = "off"
    BY <1>1, <1>5, <2>1 DEF Alone
  <2>3. Alone' /\ Owns'
    BY <1>1, <1>2, <1>5, <1>6, <2>1, <2>2 DEF Alone, Owns
  <2>4. Fresh' /\ Published' /\ UpToDate'
    BY Zenon, <1>5, <2>2 DEF Fresh, Published, UpToDate, Runs
  <2>5. Unseeded'
    BY <1>1, <1>2, <1>5, <1>6, <2>1, <2>2 DEF Fresh, Unseeded
  <2>6. Generations'
    BY <1>1, <1>2, <1>6, <2>1, Types DEF LifeInv, Fresh, Generations
  <2>7. QED
    BY Zenon, <2>3, <2>4, <2>5, <2>6 DEF Orderly
<1>12. QED
  BY Zenon, <1>7, <1>8, <1>9, <1>10, <1>11 DEF LifeInv

\* openShared() comes after the list was read: the generation is no older than the list.
LEMMA InitOpenKeeps ==
  ASSUME LifeInv, NEW b \in Agents, InitOpen(b)
  PROVE  LifeInv'
<1> DEFINE soon == ~\E d \in Daemons : Runs(d) /\ dm[d].maps = pinned
           opened == [ag[b] EXCEPT !.at = "idle", !.maps = pinned, !.gone = FALSE, !.on = TRUE,
                                   !.gen = maps[pinned].gen, !.hooked = TRUE, !.hasty = FALSE,
                                   !.early = soon]
           failed == [ag[b] EXCEPT !.at = "idle", !.maps = 0]
<1>1. /\ ag[b].at = "listed" /\ cli' = Nil
      /\ ag' = [ag EXCEPT ![b] = IF pinned = 0 THEN failed ELSE opened]
      /\ UNCHANGED <<pinned, maps, sock, dm, file, staged, starts, overlap, took>>
  BY Zenon DEF InitOpen
<1>2. failed \in AgentStates
  <2>1. ag[b] \in AgentStates
    BY Zenon DEF LifeInv, TypeOK
  <2>2. \A g \in AgentStates : [g EXCEPT !.at = "idle", !.maps = 0] \in AgentStates
    <3>1. 0 \in 0 .. MaxStarts
      BY BoundsAssumption
    <3>2. QED
      BY Zenon, <3>1 DEF AgentStates
  <2>3. QED
    BY Zenon, <2>1, <2>2
<1>3. pinned # 0 => pinned \in Sets /\ opened \in AgentStates
  <2>1. pinned # 0 => pinned \in Sets
    BY BoundsAssumption DEF LifeInv, TypeOK, Sets
  <2>2. ag[b] \in AgentStates /\ pinned \in 0 .. MaxStarts
    BY Zenon DEF LifeInv, TypeOK
  <2>3. pinned # 0 => maps[pinned].gen \in 0 .. MaxGen
    BY Zenon, <2>1 DEF LifeInv, TypeOK, MapStates
  <2>4. \A h \in BOOLEAN : pinned # 0 =>
          [ag[b] EXCEPT !.at = "idle", !.maps = pinned, !.gone = FALSE, !.on = TRUE,
                        !.gen = maps[pinned].gen, !.hooked = TRUE, !.hasty = FALSE,
                        !.early = h] \in AgentStates
    BY Zenon, <2>2, <2>3 DEF AgentStates
  <2>5. soon \in BOOLEAN
    OBVIOUS
  <2>6. QED
    BY Zenon, <2>1, <2>4, <2>5
<1>4. /\ \A a \in Agents \ {b} : ag'[a] = ag[a]
      /\ ag'[b].at = "idle" /\ ag'[b].maps = pinned
      /\ ag'[b].list = ag[b].list /\ ag'[b].missed = ag[b].missed
      /\ pinned # 0 => /\ ag'[b].gen = maps[pinned].gen /\ ag'[b].hooked
                       /\ soon => ag'[b].early
      /\ pinned = 0 => /\ ag'[b].hooked = ag[b].hooked /\ ag'[b].busy = ag[b].busy
                       /\ ag'[b].hasty = ag[b].hasty
  BY ZenonT(30), <1>1 DEF LifeInv, TypeOK, AgentStates
<1>5. ASSUME NEW a \in Agents \ {b} PROVE ag[a].at = "idle"
  <2>1. cli = Command("attach", b)
    BY Zenon, <1>1 DEF LifeInv, Injections
  <2>2. ag[a].at \notin {"listed", "draining", "drained"}
    BY Zenon, <2>1, CommandsDiffer DEF LifeInv, Injections
  <2>3. QED
    BY Zenon, <2>2 DEF LifeInv, TypeOK, AgentStates
<1>6. TypeOK'
  <2>1. ag' \in [Agents -> AgentStates]
    BY Zenon, <1>1, <1>2, <1>3 DEF LifeInv, TypeOK
  <2>2. QED
    BY Zenon, <1>1, <2>1 DEF LifeInv, TypeOK
<1>7. Numbers'
  BY <1>1, <1>4, Types DEF LifeInv, Numbers, Sets
<1>8. Lists'
  BY <1>1, <1>4, Types DEF LifeInv, Lists, Runs
<1>9. Injections'
  BY <1>1, <1>4, <1>5 DEF Injections
<1>10. Drains'
  BY <1>1, <1>4 DEF LifeInv, Drains
<1>11. ASSUME ~overlap' PROVE Orderly'
  <2>1. Orderly
    BY Zenon, <1>1, <1>11 DEF LifeInv
  <2>2. Alone' /\ Owns' /\ Published'
    BY Zenon, <1>1, <2>1 DEF Orderly, Alone, Owns, Published, Runs
  <2>3. Fresh' /\ Generations'
    BY <1>1, <1>3, <1>4, <2>1, Types DEF LifeInv, Orderly, Fresh, Generations, Numbers
  <2>4. Unseeded'
    <3>1. \A d \in Daemons : dm[d].at = "loaded" => pinned # 0 /\ soon
      BY <2>1, Types, 0 \notin Sets DEF LifeInv, Orderly, Alone, Owns, Runs, Sets
    <3>2. QED
      BY <1>1, <1>4, <2>1, <3>1 DEF Orderly, Unseeded
  <2>5. UpToDate'
    <3>1. \A d \in Daemons : Runs(d) => pinned = dm[d].maps /\ pinned # 0
      BY <2>1, Types, 0 \notin Sets DEF LifeInv, Orderly, Owns, Runs, Sets
    <3>2. \A d \in Daemons : Runs(d) => ag[b].missed \/ dm[d].list <= ag[b].list
      BY Zenon, <1>1 DEF LifeInv, Lists, Injections
    <3>3. QED
      BY <1>1, <1>4, <2>1, <3>1, <3>2 DEF Orderly, UpToDate, Runs
  <2>6. QED
    BY Zenon, <2>2, <2>3, <2>4, <2>5 DEF Orderly
<1>12. QED
  BY Zenon, <1>6, <1>7, <1>8, <1>9, <1>10, <1>11 DEF LifeInv

\* Every step of a daemon, of an agent and of barnacle keeps the invariant.
LEMMA NextKeeps == LifeInv /\ [Next]_vars => LifeInv'
<1> SUFFICES ASSUME LifeInv, [Next]_vars PROVE LifeInv'
  OBVIOUS
<1>1. CASE UNCHANGED vars
  <2>1. TypeOK' /\ Numbers'
    BY Zenon, <1>1 DEF vars, LifeInv, TypeOK, Numbers
  <2>2. Lists' /\ Injections' /\ Drains'
    BY Zenon, <1>1 DEF vars, LifeInv, Lists, Injections, Drains, Runs
  <2>3. ASSUME ~overlap' PROVE Orderly'
    <3>1. Orderly
      BY Zenon, <1>1, <2>3 DEF LifeInv, vars
    <3>2. Alone' /\ Owns' /\ Generations'
      BY Zenon, <1>1, <3>1 DEF vars, Orderly, Alone, Owns, Generations
    <3>3. Fresh' /\ Unseeded' /\ Published' /\ UpToDate'
      BY Zenon, <1>1, <3>1 DEF vars, Orderly, Fresh, Unseeded, Published, UpToDate, Runs
    <3>4. QED
      BY Zenon, <3>2, <3>3 DEF Orderly
  <2>4. QED
    BY Zenon, <2>1, <2>2, <2>3 DEF LifeInv
<1>2. ASSUME NEW d \in Daemons, Daemon(d) \/ Reload(d) PROVE LifeInv'
  BY Zenon, <1>2, ProbeKeeps, BindKeeps, LoadKeeps, LoadFailsKeeps, SeedKeeps, CloseKeeps, UnpinKeeps,
     KillKeeps, ReloadKeeps
  DEF Daemon
<1>3. ASSUME NEW a \in Agents, Write(a) \/ Read(a) \/ Injected(a) \/ Attach(a) \/ Detach(a)
      PROVE  LifeInv'
  BY Zenon, <1>3, WriteKeeps, ReadKeeps, InitListKeeps, InitOpenKeeps, DrainKeeps, DrainedKeeps,
     RevertKeeps, AttachKeeps, DetachKeeps
  DEF Injected
<1>4. CASE Edit \/ Stage \/ ReloadFails
  BY Zenon, <1>4, EditKeeps, StageKeeps, ReloadFailsKeeps
<1>5. QED
  BY Zenon, <1>1, <1>2, <1>3, <1>4 DEF Next

\* The invariant holds of every state that starts, stops, kills, injections and commands
\* of barnacle lead to.
THEOREM LifeInvariant == Spec => []LifeInv
<1>1. QED
  BY InitKeeps, NextKeeps, PTL DEF Spec

\* A daemon that has loaded has the pins, the splices, the heap and the control socket to
\* itself until it stops (openControl, start, stop), however many others are started
\* beside it or killed before it.
THEOREM DaemonOwnsPins == Spec => []Ownership
<1>1. LifeInv => Ownership
  <2> SUFFICES ASSUME LifeInv, ~overlap, NEW d \in Daemons, dm[d].at \in {"loaded", "run"}
               PROVE  /\ pinned = dm[d].maps /\ sock = d
                      /\ maps[pinned].spliced /\ maps[pinned].heap = dm[d].no
                      /\ \A e \in Daemons \ {d} : dm[e].at = "off"
    BY Zenon DEF LifeInv, Ownership
  <2>1. Alone /\ Owns
    BY Zenon DEF LifeInv, Orderly
  <2>2. QED
    BY Zenon, <2>1 DEF Alone, Owns
<1>2. QED
  BY <1>1, LifeInvariant, PTL

\* What a running daemon has published is its list, and leads into its own heap
\* (loadStatements), through reloads and over the pins of killed daemons.
THEOREM PublishedIsTheList == Spec => []PublishedIsOwn
<1>1. LifeInv => PublishedIsOwn
  BY Zenon DEF LifeInv, Orderly, Published, PublishedIsOwn
<1>2. QED
  BY <1>1, LifeInvariant, PTL

\* An agent that has the daemon's generation has its list or a newer one (refreshLocked,
\* bncl_agent_init, cmd_reload_config).
THEOREM GenerationMeansList == Spec => []AgentIsUpToDate
<1>1. LifeInv => AgentIsUpToDate
  <2> SUFFICES ASSUME LifeInv, ~overlap, NEW d \in Daemons, NEW a \in Agents,
                      Runs(d) /\ ag[a].hooked /\ ag[a].maps = dm[d].maps /\ ag[a].at # "listed"
               PROVE  \/ ag[a].gen # maps[ag[a].maps].gen
                      \/ ag[a].list >= dm[d].list
                      \/ ag[a].missed \/ ag[a].early
                      \/ ag[a].maps \in took
    BY Zenon DEF AgentIsUpToDate
  <2>1. UpToDate
    BY Zenon DEF LifeInv, Orderly
  <2>2. QED
    BY Zenon, <2>1, Types DEF LifeInv, UpToDate
<1>2. QED
  BY <1>1, LifeInvariant, PTL

\* No detach takes the hooks from under a connection that waits, except the two the code
\* allows (unhookAll).
THEOREM DetachIsClean == Spec => []DetachStrandsNobody
<1>1. LifeInv => DetachStrandsNobody
  BY Zenon DEF LifeInv, Drains, DetachStrandsNobody
<1>2. QED
  BY <1>1, LifeInvariant, PTL
=============================================================================
