-------------------------- MODULE TerminalSessions --------------------------
(* The life of the Bash terminals of one room: the tabs of the panel          *)
(* (useTerminalTabs), the hub's registry of who owns which session            *)
(* (TerminalSessionService), and the execution service that runs a container  *)
(* for each (InteractiveTerminalSessions).                                    *)
(*                                                                            *)
(* Sessions are numbered in the order they are asked for. A panel belongs to  *)
(* one connection; the hub runs the calls of a connection one after the other.*)
EXTENDS Integers, Sequences, FiniteSets

CONSTANTS
  Conn,
  MaxStarts,           \* terminals asked for in a behaviour
  MaxTabs,             \* tabs and starts a panel may show
  MaxPerConnection,    \* MaxPerConnection of the registry
  MaxSessionsPerRoom, MaxSessions,   \* of the execution service
  MaxFailures          \* lost answers, failed requests and failed launches

TerminalAssumption ==
  {MaxStarts, MaxTabs, MaxPerConnection, MaxSessionsPerRoom, MaxSessions, MaxFailures} \subseteq Nat

VARIABLES
  up,          \* connections that are connected
  asked,       \* calls a client made and the hub has not begun: <<kind, session>>
  hub,         \* the call a connection has under way
  registry,    \* _sessions of TerminalSessionRegistry
  owner,       \* the connection a session was started for
  tab,         \* what the panel that asked for a session knows of it
  stage,       \* how far the execution service is with a session
  program,     \* the container: none, runs, ended
  watched,     \* sessions whose WatchExit is over
  released,    \* sessions with _slotReleased
  room,        \* RoomSessionCapacity: places taken
  slots,       \* _sessionSlots: places taken
  aged,        \* sessions past a lifetime of the cleanup loop
  lost,        \* history: sessions an answer or a request about was lost
  failures

vars == <<up, asked, hub, registry, owner, tab, stage, program, watched, released, room, slots, aged,
          lost, failures>>
service == <<stage, program, watched, released, room, slots, aged>>

Session == 1..MaxStarts
Idle == [at |-> "idle", s |-> 0]
\* TryAdd refuses when the connection has its number of sessions.
Full(c) == Cardinality({r \in registry : owner[r] = c}) >= MaxPerConnection
started == Cardinality({s \in Session : tab[s] # "none"})
Lose(s) == failures < MaxFailures /\ failures' = failures + 1 /\ lost' = lost \cup {s}

Init ==
  /\ up = Conn /\ asked = [c \in Conn |-> <<>>] /\ hub = [c \in Conn |-> Idle] /\ registry = {}
  /\ owner = [s \in Session |-> "nobody"] /\ tab = [s \in Session |-> "none"]
  /\ stage = [s \in Session |-> "none"] /\ program = [s \in Session |-> "none"]
  /\ watched = {} /\ released = {} /\ room = 0 /\ slots = 0 /\ aged = {} /\ lost = {} /\ failures = 0
-----------------------------------------------------------------------------
(* The panel *)

\* createBashTab: a start that is pending counts twice, as a tab and as a start.
CreateBashTab(c) ==
  LET of(states) == {s \in Session : owner[s] = c /\ tab[s] \in states} IN
  /\ c \in up /\ started < MaxStarts
  /\ Cardinality(of({"pending", "open"})) + Cardinality(of({"pending", "cancelled"})) < MaxTabs
  /\ tab' = [tab EXCEPT ![started + 1] = "pending"] /\ owner' = [owner EXCEPT ![started + 1] = c]
  /\ asked' = [asked EXCEPT ![c] = Append(@, <<"start", started + 1>>)]
  /\ UNCHANGED <<up, hub, registry, service, lost, failures>>

\* closeTerminal reads the workspace first: the request to close comes later.
CloseTab(s) ==
  /\ \/ tab[s] = "open" /\ tab' = [tab EXCEPT ![s] = "closing"]
     \/ tab[s] = "pending" /\ tab' = [tab EXCEPT ![s] = "cancelled"]
  /\ UNCHANGED <<up, asked, hub, registry, owner, service, lost, failures>>

\* The panel goes: its starts are closed when they answer, and a new panel does
\* not count them.
Unmount(c) ==
  /\ c \in up /\ \E s \in Session : owner[s] = c /\ tab[s] \in {"pending", "cancelled", "open"}
  /\ tab' = [s \in Session |-> IF owner[s] # c THEN tab[s] ELSE
       CASE tab[s] = "open" -> "closing" [] tab[s] \in {"pending", "cancelled"} -> "abandoned"
         [] OTHER -> tab[s]]
  /\ UNCHANGED <<up, asked, hub, registry, owner, service, lost, failures>>

CloseTerminal(s) ==
  /\ tab[s] = "closing" /\ owner[s] \in up /\ tab' = [tab EXCEPT ![s] = "closed"]
  /\ asked' = [asked EXCEPT ![owner[s]] = Append(@, <<"close", s>>)]
  /\ UNCHANGED <<up, hub, registry, owner, service, lost, failures>>
-----------------------------------------------------------------------------
(* The hub *)

\* A call begins when the one before it is over. CloseTerminal forgets the
\* session before it asks the execution service.
BeginCall(c) ==
  LET call == Head(asked[c]) IN
  /\ c \in up /\ hub[c] = Idle /\ asked[c] # <<>>
  /\ asked' = [asked EXCEPT ![c] = Tail(@)]
  /\ IF call[1] = "start"
     THEN /\ hub' = [hub EXCEPT ![c] = [at |-> "starting", s |-> call[2]]]
          /\ stage' = [stage EXCEPT ![call[2]] = "asked"] /\ UNCHANGED registry
     ELSE /\ registry' = registry \ {call[2]} /\ UNCHANGED stage
          /\ hub' = IF call[2] \in registry THEN [hub EXCEPT ![c] = [at |-> "closing", s |-> call[2]]] ELSE hub
  /\ UNCHANGED <<up, owner, tab, program, watched, released, room, slots, aged, lost, failures>>

\* A mutant of Register: a start that was cancelled stays as it is.
RegisterCancelled(c) ==
  LET s == hub[c].s IN
  /\ c \in up /\ hub[c].at = "starting" /\ stage[s] \in {"live", "closing", "gone"}
  /\ IF Full(c) THEN hub' = [hub EXCEPT ![c].at = "refusing"] /\ UNCHANGED <<registry, tab>>
     ELSE /\ registry' = registry \cup {s} /\ hub' = [hub EXCEPT ![c] = Idle]
          /\ tab' = [tab EXCEPT ![s] = IF @ = "pending" THEN "open" ELSE @]
  /\ UNCHANGED <<up, asked, owner, service, lost, failures>>

\* TryAdd, and the answer to the panel, which closes what it no longer wants.
Register(c) ==
  LET s == hub[c].s IN
  /\ c \in up /\ hub[c].at = "starting" /\ stage[s] \in {"live", "closing", "gone"}
  /\ IF Full(c) THEN hub' = [hub EXCEPT ![c].at = "refusing"] /\ UNCHANGED <<registry, tab>>
     ELSE /\ registry' = registry \cup {s} /\ hub' = [hub EXCEPT ![c] = Idle]
          /\ tab' = [tab EXCEPT ![s] = IF @ = "pending" THEN "open" ELSE "closing"]
  /\ UNCHANGED <<up, asked, owner, service, lost, failures>>

\* The execution service refused, or its answer did not come in time.
StartFails(c) ==
  LET s == hub[c].s IN
  /\ hub[c].at = "starting" /\ hub' = [hub EXCEPT ![c] = Idle] /\ tab' = [tab EXCEPT ![s] = "closed"]
  /\ \/ stage[s] = "refused" /\ UNCHANGED <<lost, failures>>
     \/ stage[s] # "refused" /\ (IF c \in up THEN Lose(s) ELSE lost' = lost \cup {s} /\ UNCHANGED failures)
  /\ UNCHANGED <<up, asked, registry, owner, service>>

\* A mutant of CloseAsync: a session that ended is not disposed of.
CloseRunning(s) ==
  stage' = IF stage[s] = "live" /\ program[s] = "runs" THEN [stage EXCEPT ![s] = "closing"] ELSE stage

\* CloseAsync of the execution service: only the first call disposes.
CloseAsync(s) == stage' = IF stage[s] = "live" THEN [stage EXCEPT ![s] = "closing"] ELSE stage

\* The request to close, after CloseTerminal, a refused TryAdd or the end of a
\* connection. The hub also waits until the session is disposed of, or fails.
AskToClose(c) ==
  LET s == hub[c].s IN
  /\ hub[c].at \in {"closing", "refusing"} /\ hub' = [hub EXCEPT ![c] = Idle]
  /\ tab' = [tab EXCEPT ![s] = "closed"]
  /\ \/ CloseAsync(s) /\ UNCHANGED <<lost, failures>>
     \/ /\ UNCHANGED stage
        /\ IF c \in up THEN Lose(s) ELSE lost' = lost \cup {s} /\ UNCHANGED failures
  /\ UNCHANGED <<up, asked, registry, owner, program, watched, released, room, slots, aged>>

\* The connection goes with the calls that have not begun.
Drop(c) ==
  /\ c \in up /\ failures < MaxFailures /\ failures' = failures + 1
  /\ up' = up \ {c} /\ asked' = [asked EXCEPT ![c] = <<>>]
  /\ tab' = [s \in Session |-> IF owner[s] = c /\ tab[s] # "none" THEN "closed" ELSE tab[s]]
  /\ UNCHANGED <<hub, registry, owner, service, lost>>

\* OnDisconnected, when the call under way is over: RemoveAll, then one request
\* after the other; the loop passes over those that fail.
CloseConnectionSessions(c) ==
  /\ c \notin up /\ hub[c] = Idle
  /\ \E s \in registry :
       /\ owner[s] = c /\ registry' = registry \ {s}
       /\ hub' = [hub EXCEPT ![c] = [at |-> "closing", s |-> s]]
  /\ UNCHANGED <<up, asked, owner, tab, service, lost, failures>>
-----------------------------------------------------------------------------
(* The execution service *)

\* CreateAsync: a place in the room, then a place in the service.
TryAcquire(s) ==
  /\ stage[s] = "asked"
  /\ IF room < MaxSessionsPerRoom THEN room' = room + 1 /\ stage' = [stage EXCEPT ![s] = "room"]
     ELSE stage' = [stage EXCEPT ![s] = "refused"] /\ UNCHANGED room
  /\ UNCHANGED <<up, asked, hub, registry, owner, tab, program, watched, released, slots, aged, lost, failures>>

TakeSlot(s) ==
  /\ stage[s] = "room"
  /\ IF slots < MaxSessions THEN slots' = slots + 1 /\ stage' = [stage EXCEPT ![s] = "slot"] /\ UNCHANGED room
     ELSE room' = room - 1 /\ stage' = [stage EXCEPT ![s] = "refused"] /\ UNCHANGED slots
  /\ UNCHANGED <<up, asked, hub, registry, owner, tab, program, watched, released, aged, lost, failures>>

\* The workspace, the network and the container.
Launch(s) ==
  /\ stage[s] = "slot" /\ stage' = [stage EXCEPT ![s] = "live"] /\ program' = [program EXCEPT ![s] = "runs"]
  /\ UNCHANGED <<up, asked, hub, registry, owner, tab, watched, released, room, slots, aged, lost, failures>>

LaunchFails(s) ==
  /\ stage[s] = "slot" /\ failures < MaxFailures /\ failures' = failures + 1
  /\ slots' = slots - 1 /\ room' = room - 1 /\ stage' = [stage EXCEPT ![s] = "refused"]
  /\ UNCHANGED <<up, asked, hub, registry, owner, tab, program, watched, released, aged, lost>>

\* A mutant of ReleaseSlot: who disposes of a session gives its places back again.
ReleaseAgain(s) == slots' = slots - 1 /\ room' = room - 1 /\ released' = released \cup {s}

\* ReleaseSlot gives the places back once, whoever comes first.
ReleaseSlot(s) ==
  IF s \in released THEN UNCHANGED <<slots, room, released>>
  ELSE slots' = slots - 1 /\ room' = room - 1 /\ released' = released \cup {s}

\* The shell ends, is killed at a limit of output or storage, or by Dispose.
ProgramEnds(s) ==
  /\ program[s] = "runs" /\ program' = [program EXCEPT ![s] = "ended"]
  /\ UNCHANGED <<up, asked, hub, registry, owner, tab, stage, watched, released, room, slots, aged, lost, failures>>

WatchExit(s) ==
  /\ program[s] = "ended" /\ s \notin watched /\ watched' = watched \cup {s} /\ ReleaseSlot(s)
  /\ UNCHANGED <<up, asked, hub, registry, owner, tab, stage, program, aged, lost, failures>>

\* DisposeSession waits for the exit and for the watcher, but not for ever.
Dispose(s) ==
  /\ stage[s] = "closing" /\ program[s] = "ended" /\ stage' = [stage EXCEPT ![s] = "gone"] /\ ReleaseSlot(s)
  /\ UNCHANGED <<up, asked, hub, registry, owner, tab, program, watched, aged, lost, failures>>

\* An hour, fifteen idle minutes, or two minutes after the exit.
Age(s) ==
  /\ stage[s] = "live" /\ s \notin aged /\ aged' = aged \cup {s}
  /\ UNCHANGED <<up, asked, hub, registry, owner, tab, stage, program, watched, released, room, slots, lost, failures>>

Cleanup(s) ==
  /\ s \in aged /\ stage[s] = "live" /\ CloseAsync(s)
  /\ UNCHANGED <<up, asked, hub, registry, owner, tab, program, watched, released, room, slots, aged, lost, failures>>
-----------------------------------------------------------------------------
Next ==
  \/ \E c \in Conn :
       CreateBashTab(c) \/ Unmount(c) \/ BeginCall(c) \/ Register(c) \/ StartFails(c) \/ AskToClose(c)
       \/ Drop(c) \/ CloseConnectionSessions(c)
  \/ \E s \in Session :
       CloseTab(s) \/ CloseTerminal(s) \/ TryAcquire(s) \/ TakeSlot(s) \/ Launch(s) \/ LaunchFails(s)
       \/ ProgramEnds(s) \/ WatchExit(s) \/ Dispose(s) \/ Age(s) \/ Cleanup(s)

Spec == Init /\ [][Next]_vars

\* Time passes, and the loop of the execution service and its disposals run.
Fairness == \A s \in Session :
  WF_vars(Age(s)) /\ WF_vars(Cleanup(s)) /\ WF_vars(ProgramEnds(s) /\ stage[s] = "closing") /\ WF_vars(Dispose(s))
FairSpec == Spec /\ Fairness
-----------------------------------------------------------------------------
(* Properties *)

\* Both counters stand for the containers that run, and for nothing else once
\* the launches and exits under way are over: no place is lost or given back
\* twice, whatever closes a session meanwhile.
PlacesMatchContainers ==
  LET runs == {s \in Session : program[s] = "runs"}
      between == {s \in Session : stage[s] \in {"room", "slot"}}
      ending == {s \in Session : program[s] = "ended" /\ s \notin watched /\ stage[s] # "gone"}
  IN
  /\ Cardinality(runs) <= slots /\ slots <= Cardinality(runs \cup ending \cup {s \in between : stage[s] = "slot"})
  /\ Cardinality(runs) <= room /\ room <= Cardinality(runs \cup ending \cup between)

\* A session in the execution service is shown by its panel, or on its way to
\* be registered or closed, unless a request or an answer about it was lost: a
\* panel that goes or changes its mind, a refused registration and the end of a
\* connection leave none behind.
NoSilentOrphans ==
  \A s \in Session : stage[s] = "live" /\ s \notin lost =>
    \/ \E c \in Conn : hub[c].s = s
    \/ s \in registry /\ \/ owner[s] \notin up \/ tab[s] \in {"open", "closing"}
                         \/ \E i \in DOMAIN asked[owner[s]] : asked[owner[s]][i] = <<"close", s>>

\* A session that nobody owns ends: there is always a later moment at which
\* none runs or is being closed.
OrphansEnd == []<>(\A s \in lost : stage[s] \notin {"live", "closing"})
=============================================================================
