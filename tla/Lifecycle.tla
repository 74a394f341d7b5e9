----------------------------- MODULE Lifecycle ------------------------------
(***************************************************************************)
(* Starting, stopping, killing and restarting the daemon; attaching agents,*)
(* detaching them and reloading the list (src/daemon/main.cpp: start, stop,*)
(* openControl, loadStatements, control; src/uclient/agent.cpp:            *)
(* bncl_agent_init, unhookAll, refreshLocked; src/uclient/shared.cpp:      *)
(* openShared; src/barnacle/barnacle: the commands of the administrator).  *)
(*                                                                         *)
(* What daemon and agents share is a set of BPF maps, reached by the pins  *)
(* in one directory.  The n-th start makes the n-th set, or takes over the *)
(* pins it finds.  The list is a version of the list file; one statement   *)
(* is on the odd versions only.  Each agent is in a container of its own   *)
(* and reads a copy of the file that barnacle stages there.                *)
(***************************************************************************)
EXTENDS Integers, FiniteSets

CONSTANTS
  Daemons, Agents,
  MaxStarts,    \* bound: starts of a daemon
  MaxEdits,     \* bound: changes of the list file
  MaxGen,       \* bound: reloads of one set of maps
  Nil

ASSUME BoundsAssumption == MaxStarts \in Nat /\ MaxEdits \in Nat /\ MaxGen \in Nat \ {0}

\* What barnacle can be carrying out: on one agent, or, a reload, on none.
Commands == [op : {"attach", "detach", "reload"}, of : Agents \cup {Nil}]
Command(op, a) == [op |-> op, of |-> a]

ASSUME NilAssumption == Nil \notin Daemons \cup Agents \cup Commands

VARIABLES
  pinned,       \* the set of maps the pin directory names, 0 when it is empty
  maps,         \* the sets of maps: the cfg slots, the record of the statement, the heap
  sock,         \* who made the control socket's file
  dm,           \* the daemons
  ag,           \* the agents
  file,         \* the version of the list file
  staged,       \* each agent's copy of it
  cli,          \* the command barnacle is carrying out, and on which agent
  starts,
  overlap,      \* a daemon started while another was half way up or half way down
  took          \* sets of maps that were taken over from a daemon that was killed

vars == <<pinned, maps, sock, dm, ag, file, staged, cli, starts, overlap, took>>

Sets == 1 .. MaxStarts
Versions == 1 .. MaxEdits + 1
Listed(v) == v % 2 = 1

Off == [at |-> "off", no |-> 0, maps |-> 0, list |-> 0]

\* generation, client_on; the start whose heap holds the statement's record, and the
\* start that laid the heap out; the splice programs are attached.
NoMaps == [gen |-> 0, client_on |-> FALSE, rec |-> 0, heap |-> 0, spliced |-> FALSE]

\* An application without the agent.  Of one with it: whether a connection waits for an
\* answer; whether its last detach ran out of time, or it was switched on again meanwhile;
\* whether its copy was behind the file when it was injected or the daemon last read the
\* list; whether it was injected before the daemon had read the list.
Bare == [at |-> "idle", hooked |-> FALSE, on |-> FALSE, gone |-> FALSE, gen |-> 0, maps |-> 0,
         list |-> 0, busy |-> FALSE, hasty |-> FALSE, missed |-> FALSE, early |-> FALSE]

Init ==
  /\ pinned = 0 /\ sock = Nil
  /\ maps = [m \in Sets |-> NoMaps]
  /\ dm = [d \in Daemons |-> Off]
  /\ ag = [a \in Agents |-> Bare]
  /\ file = 1 /\ staged = [a \in Agents |-> 1]
  /\ cli = Nil
  /\ starts = 0 /\ overlap = FALSE /\ took = {}

Listens(d) == sock = d /\ dm[d].at \notin {"off", "probed", "closing"}
Runs(d) == dm[d].at = "run"
-----------------------------------------------------------------------------
(* The daemon's way up.                                                    *)

\* Mutant of Probe: the control socket is bound whether or not anybody answers.
ProbeBlind(d) ==
  /\ dm[d].at = "off" /\ starts < MaxStarts
  /\ starts' = starts + 1
  /\ dm' = [dm EXCEPT ![d] = [Off EXCEPT !.at = "probed", !.no = starts + 1]]
  /\ overlap' = (overlap \/ \E e \in Daemons : dm[e].at \in {"probed", "closing"})
  /\ UNCHANGED <<pinned, maps, sock, ag, file, staged, cli, took>>

\* openControl(), the probe: if somebody answers, this daemon ends and has touched
\* nothing.
Probe(d) ==
  /\ dm[d].at = "off" /\ starts < MaxStarts
  /\ starts' = starts + 1
  /\ IF \E e \in Daemons : Listens(e)
       THEN UNCHANGED <<dm, overlap>>
       ELSE /\ dm' = [dm EXCEPT ![d] = [Off EXCEPT !.at = "probed", !.no = starts + 1]]
            /\ overlap' = (overlap \/ \E e \in Daemons : dm[e].at \in {"probed", "closing"})
  /\ UNCHANGED <<pinned, maps, sock, ag, file, staged, cli, took>>

\* openControl(), the rest: the file is unlinked and made anew.
Bind(d) ==
  /\ dm[d].at = "probed"
  /\ dm' = [dm EXCEPT ![d].at = "bound"]
  /\ sock' = d
  /\ UNCHANGED <<pinned, maps, ag, file, staged, cli, starts, overlap, took>>

\* start(): the maps are made, or taken over where they are pinned; the cfg slots are
\* set, the heap is laid out and the splices are attached.
Load(d) ==
  /\ dm[d].at = "bound"
  /\ LET n == dm[d].no
         m == IF pinned = 0 THEN n ELSE pinned
     IN  /\ pinned' = m
         /\ maps' = [maps EXCEPT ![m] = [gen |-> 1, client_on |-> TRUE, rec |-> @.rec,
                                         heap |-> n, spliced |-> TRUE]]
         /\ dm' = [dm EXCEPT ![d].at = "loaded", ![d].maps = m]
         /\ took' = IF m = n THEN took ELSE took \cup {m}
  /\ UNCHANGED <<sock, ag, file, staged, cli, starts, overlap>>

\* The load fails: stop() takes the control socket away, and no pin.
LoadFails(d) ==
  /\ dm[d].at = "bound"
  /\ dm' = [dm EXCEPT ![d] = Off]
  /\ sock' = Nil
  /\ UNCHANGED <<pinned, maps, ag, file, staged, cli, starts, overlap, took>>

\* Mutant of Publish: a statement that left the list keeps its key.
PublishKeeps(m, no, known, list) ==
  [maps EXCEPT ![m].rec = IF Listed(list) /\ ~(known # 0 /\ Listed(known)) THEN no ELSE @]

\* loadStatements(): a listed statement keeps the record it has in `known`, or gets
\* one; a statement that left the list loses its key, if `known` has it.
Publish(m, no, known, list) ==
  LET has == known # 0 /\ Listed(known)
  IN  [maps EXCEPT ![m].rec = IF Listed(list) THEN (IF has THEN @ ELSE no)
                              ELSE IF has THEN 0 ELSE @]

\* Whose copy of the file is older than what the daemon has just read.
Compare == ag' = [a \in Agents |-> [ag[a] EXCEPT !.missed = staged[a] < file]]

\* start(): loadStatements() and the pool; the daemon is ready.
Seed(d) ==
  /\ dm[d].at = "loaded"
  /\ maps' = Publish(dm[d].maps, dm[d].no, 0, file)
  /\ dm' = [dm EXCEPT ![d].at = "run", ![d].list = file]
  /\ Compare
  /\ UNCHANGED <<pinned, sock, file, staged, cli, starts, overlap, took>>
-----------------------------------------------------------------------------
(* Its way down.                                                           *)

\* stop(), the first half, for a daemon that runs or that failed to: the pipes and the
\* control socket go.
Close(d) ==
  /\ dm[d].at \in {"loaded", "run"}
  /\ dm' = [dm EXCEPT ![d].at = "closing"]
  /\ sock' = Nil
  /\ UNCHANGED <<pinned, maps, ag, file, staged, cli, starts, overlap, took>>

\* stop(), the second half: the splices and the pins go.
Unpin(d) ==
  /\ dm[d].at = "closing"
  /\ maps' = [maps EXCEPT ![dm[d].maps].spliced = FALSE]
  /\ pinned' = 0
  /\ dm' = [dm EXCEPT ![d] = Off]
  /\ UNCHANGED <<sock, ag, file, staged, cli, starts, overlap, took>>

\* SIGKILL, of barnacle or of anybody: the socket's file and the pins stay.
Kill(d) ==
  /\ dm[d].at # "off"
  /\ dm' = [dm EXCEPT ![d] = Off]
  /\ UNCHANGED <<pinned, maps, sock, ag, file, staged, cli, starts, overlap, took>>
-----------------------------------------------------------------------------
(* The agent.                                                              *)

\* Mutant of Refreshed: the generation is taken and the list is not read.
RefreshedSkips(a) ==
  LET g == ag[a]
      m == IF g.maps = 0 THEN NoMaps ELSE maps[g.maps]
  IN  IF pinned = 0 THEN [g EXCEPT !.gone = TRUE, !.on = FALSE]
      ELSE IF g.gone \/ g.maps = 0 THEN g
      ELSE [g EXCEPT !.on = m.client_on, !.gen = m.gen]

\* refreshLocked(): the pins are looked at by name; the slots are read from the maps
\* the agent has open; a new generation makes it read the list.
Refreshed(a) ==
  LET g == ag[a]
      m == IF g.maps = 0 THEN NoMaps ELSE maps[g.maps]
  IN  IF pinned = 0 THEN [g EXCEPT !.gone = TRUE, !.on = FALSE]
      ELSE IF g.gone \/ g.maps = 0 THEN g
      ELSE IF m.gen = g.gen THEN [g EXCEPT !.on = m.client_on]
      ELSE [g EXCEPT !.on = m.client_on, !.gen = m.gen, !.list = staged[a]]

\* handleWrite(): the application sends the statement, and the agent polls first unless
\* it did less than a quarter of a second ago.  The query is kept back when it is on
\* the list, there is a record and a pipe, and the switch is on.
Write(a) ==
  /\ ag[a].hooked /\ ~ag[a].busy
  /\ \E g \in {ag[a], Refreshed(a)}, keep \in BOOLEAN :
       /\ keep => g.on /\ g.maps # 0 /\ Listed(g.list) /\ maps[g.maps].rec # 0
       /\ ag' = [ag EXCEPT ![a] = [g EXCEPT !.busy = keep,
                                            !.hasty = @ \/ (g.at # "idle" /\ g.on)]]
  /\ UNCHANGED <<pinned, maps, sock, dm, file, staged, cli, starts, overlap, took>>

\* settle(), drain(): the application reads its answer, or the query is sent after all.
Read(a) ==
  /\ ag[a].hooked /\ ag[a].busy
  /\ ag' = [ag EXCEPT ![a].busy = FALSE]
  /\ UNCHANGED <<pinned, maps, sock, dm, file, staged, cli, starts, overlap, took>>

\* bncl_agent_init() with a list: it is read first.
InitList(a) ==
  /\ cli = Command("attach", a) /\ ag[a].at = "idle"
  /\ ag' = [ag EXCEPT ![a].list = staged[a], ![a].at = "listed",
                      ![a].missed = staged[a] < file]
  /\ UNCHANGED <<pinned, maps, sock, dm, file, staged, cli, starts, overlap, took>>

\* openShared(), and on success the switch, the generation and the hooks.
InitOpen(a) ==
  /\ ag[a].at = "listed"
  /\ ag' = [ag EXCEPT ![a] =
              IF pinned = 0 THEN [@ EXCEPT !.at = "idle", !.maps = 0]
              ELSE [@ EXCEPT !.at = "idle", !.maps = pinned, !.gone = FALSE, !.on = TRUE,
                             !.gen = maps[pinned].gen, !.hooked = TRUE, !.hasty = FALSE,
                             !.early = ~\E d \in Daemons : Runs(d) /\ dm[d].maps = pinned]]
  /\ cli' = Nil
  /\ UNCHANGED <<pinned, maps, sock, dm, file, staged, starts, overlap, took>>

\* unhookAll(): the switch, when there is anything to put back.
Drain(a) ==
  /\ cli = Command("detach", a) /\ ag[a].at = "idle"
  /\ ag' = [ag EXCEPT ![a] = IF @.hooked THEN [@ EXCEPT !.on = FALSE, !.at = "draining"] ELSE @]
  /\ cli' = IF ag[a].hooked THEN cli ELSE Nil
  /\ UNCHANGED <<pinned, maps, sock, dm, file, staged, starts, overlap, took>>

\* Mutant of Drained: the agent does not wait.
DrainedAtOnce(a) ==
  /\ ag[a].at = "draining"
  /\ ag' = [ag EXCEPT ![a].at = "drained"]
  /\ UNCHANGED <<pinned, maps, sock, dm, file, staged, cli, starts, overlap, took>>

\* No connection waits for a verdict or for the rest of an answer, or half a second is
\* over.
Drained(a) ==
  /\ ag[a].at = "draining"
  /\ ag' = [ag EXCEPT ![a].at = "drained", ![a].hasty = @ \/ ag[a].busy]
  /\ UNCHANGED <<pinned, maps, sock, dm, file, staged, cli, starts, overlap, took>>

\* The entry points are put back.
Revert(a) ==
  /\ ag[a].at = "drained"
  /\ ag' = [ag EXCEPT ![a].at = "idle", ![a].hooked = FALSE]
  /\ cli' = Nil
  /\ UNCHANGED <<pinned, maps, sock, dm, file, staged, starts, overlap, took>>
-----------------------------------------------------------------------------
(* The administrator.  barnacle carries out one command at a time.         *)

Edit ==
  /\ file <= MaxEdits
  /\ file' = file + 1
  /\ UNCHANGED <<pinned, maps, sock, dm, ag, staged, cli, starts, overlap, took>>

\* ctl(): the daemon that listens answers, if it is past starting.
Answers(d) == Listens(d) /\ Runs(d)

\* CLIENT on and CLIENT off; without a daemon nothing is switched.
Switch(on) ==
  maps' = [m \in Sets |-> IF \E d \in Daemons : Answers(d) /\ dm[d].maps = m
                          THEN [maps[m] EXCEPT !.client_on = on] ELSE maps[m]]

\* attach-client, for one process: the daemon must answer; CLIENT on; the list is
\* staged, and the agent injected.
Attach(a) ==
  /\ cli = Nil /\ \E d \in Daemons : Answers(d)
  /\ Switch(TRUE)
  /\ staged' = [staged EXCEPT ![a] = file]
  /\ cli' = Command("attach", a)
  /\ UNCHANGED <<pinned, sock, dm, ag, file, starts, overlap, took>>

\* detach-client, for one process: CLIENT off, and the agent is injected again.
Detach(a) ==
  /\ cli = Nil
  /\ Switch(FALSE)
  /\ cli' = Command("detach", a)
  /\ UNCHANGED <<pinned, sock, dm, ag, file, staged, starts, overlap, took>>

\* reload-config, the first half: the file is staged for every agent it can be staged
\* for.
Stage ==
  /\ cli = Nil
  /\ \E reached \in SUBSET Agents :
       staged' = [a \in Agents |-> IF a \in reached THEN file ELSE staged[a]]
  /\ cli' = Command("reload", Nil)
  /\ UNCHANGED <<pinned, maps, sock, dm, ag, file, starts, overlap, took>>

\* Mutant of Reload: the generation stays as it is.
ReloadSilent(d) ==
  /\ cli = Command("reload", Nil) /\ Answers(d)
  /\ maps[dm[d].maps].gen < MaxGen
  /\ maps' = Publish(dm[d].maps, dm[d].no, dm[d].list, file)
  /\ dm' = [dm EXCEPT ![d].list = file]
  /\ Compare
  /\ cli' = Nil
  /\ UNCHANGED <<pinned, sock, file, staged, starts, overlap, took>>

\* reload-config, the second half, with control() and loadStatements(): the map is
\* published, and then the generation.
Reload(d) ==
  /\ cli = Command("reload", Nil) /\ Answers(d)
  /\ maps[dm[d].maps].gen < MaxGen
  /\ LET m == dm[d].maps
     IN  maps' = [Publish(m, dm[d].no, dm[d].list, file) EXCEPT ![m].gen = @ + 1]
  /\ dm' = [dm EXCEPT ![d].list = file]
  /\ Compare
  /\ cli' = Nil
  /\ UNCHANGED <<pinned, sock, file, staged, starts, overlap, took>>

\* The daemon does not answer, or cannot read its list.
ReloadFails ==
  /\ cli = Command("reload", Nil)
  /\ cli' = Nil
  /\ UNCHANGED <<pinned, maps, sock, dm, ag, file, staged, starts, overlap, took>>

Daemon(d) ==
  Probe(d) \/ Bind(d) \/ Load(d) \/ LoadFails(d) \/ Seed(d) \/ Close(d) \/ Unpin(d) \/ Kill(d)

Injected(a) == InitList(a) \/ InitOpen(a) \/ Drain(a) \/ Drained(a) \/ Revert(a)

Next ==
  \/ \E d \in Daemons : Daemon(d) \/ Reload(d)
  \/ \E a \in Agents : Write(a) \/ Read(a) \/ Injected(a) \/ Attach(a) \/ Detach(a)
  \/ Edit \/ Stage \/ ReloadFails

\* The properties except what follows when one daemon starts while another starts or
\* stops: it is not explored further.
Apart == ~overlap

Spec == Init /\ [][Next]_vars

\* The application goes on sending queries and reading answers.  A quarter of a second
\* after the last poll every write polls, so a poll that would find something comes,
\* however many writes come before it.
Polls(a) == Refreshed(a) # ag[a] /\ Write(a) /\ ag'[a].gen = Refreshed(a).gen
Fairness == \A a \in Agents : WF_vars(Read(a)) /\ SF_vars(Polls(a))
FairSpec == Spec /\ Fairness
-----------------------------------------------------------------------------
(* Properties.                                                             *)

MapStates ==
  [gen : 0 .. MaxGen, client_on : BOOLEAN, rec : 0 .. MaxStarts, heap : 0 .. MaxStarts,
   spliced : BOOLEAN]

DaemonStates ==
  [at : {"off", "probed", "bound", "loaded", "run", "closing"},
   no : 0 .. MaxStarts, maps : 0 .. MaxStarts, list : {0} \cup Versions]

AgentStates ==
  [at : {"idle", "listed", "draining", "drained"}, hooked : BOOLEAN, on : BOOLEAN,
   gone : BOOLEAN, gen : 0 .. MaxGen, maps : 0 .. MaxStarts, list : {0} \cup Versions,
   busy : BOOLEAN, hasty : BOOLEAN, missed : BOOLEAN, early : BOOLEAN]

\* The daemons, the agents and what they share.
TypeOK ==
  /\ pinned \in 0 .. MaxStarts
  /\ maps \in [Sets -> MapStates]
  /\ sock \in Daemons \cup {Nil}
  /\ dm \in [Daemons -> DaemonStates]
  /\ ag \in [Agents -> AgentStates]
  /\ file \in Versions /\ staged \in [Agents -> Versions]
  /\ cli \in Commands \cup {Nil}
  /\ starts \in 0 .. MaxStarts /\ took \subseteq Sets
  /\ \A d \in Daemons : dm[d].at \in {"loaded", "run", "closing"} => dm[d].maps # 0

\* The state has its types, and a daemon that has loaded keeps its pins, its splices and
\* its control socket until it stops itself, and has them to itself: whoever is started
\* beside it finds it and goes away without touching them (openControl, stop), and what
\* a killed daemon left behind is taken over whole.  Daemons that start or stop at the
\* same moment are excepted.
Ownership ==
  /\ TypeOK
  /\ ~overlap =>
       \A d \in Daemons : dm[d].at \in {"loaded", "run"} =>
         /\ pinned = dm[d].maps /\ sock = d
         /\ maps[pinned].spliced /\ maps[pinned].heap = dm[d].no
         /\ \A e \in Daemons \ {d} : dm[e].at = "off"

\* While a daemon runs, a statement of its list leads to a record in its own heap,
\* after reloads and over the pins of a killed daemon; a statement that is not on the
\* list leads nowhere, except to what the killed daemon had published.
PublishedIsOwn ==
  ~overlap =>
    \A d \in Daemons : Runs(d) =>
      LET m == dm[d].maps
      IN  /\ Listed(dm[d].list) => maps[m].rec = dm[d].no
          /\ ~Listed(dm[d].list) => maps[m].rec = 0 \/ (m \in took /\ maps[m].rec # dm[d].no)

\* An agent that has taken the daemon's generation has a list at least as new as the
\* daemon's (refreshLocked, bncl_agent_init, cmd_reload_config: the file before the
\* generation), unless its copy of the file could not be brought up to date, it was
\* injected while the daemon was starting, or the daemon was killed and started again on
\* the same maps.
AgentIsUpToDate ==
  ~overlap =>
    \A d \in Daemons, a \in Agents :
      Runs(d) /\ ag[a].hooked /\ ag[a].maps = dm[d].maps /\ ag[a].at # "listed" =>
        \/ ag[a].gen # maps[ag[a].maps].gen
        \/ ag[a].list >= dm[d].list
        \/ ag[a].missed \/ ag[a].early
        \/ ag[a].maps \in took

\* Nobody is left behind by a detach: once the entry points are put back, no connection
\* waits for an answer that only they could bring, unless the application took more
\* than half a second to read, or the agent was switched on again while it waited
\* (unhookAll, refreshLocked).
DetachStrandsNobody ==
  \A a \in Agents : ~ag[a].hooked /\ ag[a].busy => ag[a].hasty

\* A reload reaches the agents: one that is attached to the daemon's maps and behind its
\* list catches up, unless the daemon or the agent goes away, or its copy of the file is
\* behind too.
ReloadReaches ==
  \A d \in Daemons, a \in Agents :
    LET behind == /\ Runs(d) /\ ag[a].hooked /\ ag[a].maps = dm[d].maps /\ ~ag[a].gone
                  /\ ag[a].maps \notin took /\ ~ag[a].missed /\ ~ag[a].early
                  /\ ag[a].list < dm[d].list
    IN  behind ~> ~behind
=============================================================================
