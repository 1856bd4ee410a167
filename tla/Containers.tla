----------------------------- MODULE Containers -----------------------------
(* What the execution service leaves behind on its host: the containers of    *)
(* terminals (InteractiveTerminalSessions) and of single runs                 *)
(* (ContainerRunner), their workspaces and their networks                     *)
(* (PackageEgressBoundary), and the sweep that removes those without an owner *)
(* (ContainerLifecycle), also after the service crashed.                      *)
EXTENDS Naturals, FiniteSets

CONSTANTS
  Box,              \* sessions and runs, each with a container of its own
  Terminal,         \* those of terminals; the others are single runs
  MaxFaults,        \* crashes, and docker commands and deletions that fail
  CalmHost          \* a start and a sweep at the same time take less than thirty seconds

ContainerAssumption ==
  Terminal \subseteq Box /\ MaxFaults \in Nat /\ CalmHost \in BOOLEAN

VARIABLES
  flow,        \* the call that owns a container: none, files, network, added, live, closing, over
  dir,         \* its workspace: none, fresh, or old after thirty seconds without a write
  network,     \* session networks that exist
  box,         \* its container: none, wanted, created, running, exited, removed
  aged,        \* containers past the age of an orphan
  active,      \* ActiveContainerRegistry
  sweep,       \* the sweep under way: names it listed, those to check, those found stale
  alive,       \* the service runs
  swept,       \* history: containers and workspaces the sweep took from a call that uses them
  faults

vars == <<flow, dir, network, box, aged, active, sweep, alive, swept, faults>>

NoSweep == [at |-> "idle", names |-> {}, todo |-> {}, stale |-> {}]
Exists(b) == box[b] \in {"created", "running", "exited"}
Uses(b) == flow[b] \in {"files", "network", "added"} \/ (flow[b] = "live" /\ box[b] # "removed")
MayFail == faults < MaxFaults /\ faults' = faults + 1

Init ==
  /\ flow = [b \in Box |-> "none"] /\ dir = [b \in Box |-> "none"] /\ network = {}
  /\ box = [b \in Box |-> "none"] /\ aged = {} /\ active = {} /\ sweep = NoSweep /\ alive = TRUE
  /\ swept = {} /\ faults = 0
-----------------------------------------------------------------------------
(* A call that starts a container *)

WriteWorkspace(b) ==
  /\ alive /\ flow[b] = "none" /\ flow' = [flow EXCEPT ![b] = "files"] /\ dir' = [dir EXCEPT ![b] = "fresh"]
  /\ UNCHANGED <<network, box, aged, active, sweep, alive, swept, faults>>

\* Only terminals have a network. When it cannot be set up the workspace goes.
CreateSessionNetwork(b) ==
  /\ alive /\ b \in Terminal /\ flow[b] = "files"
  /\ \/ flow' = [flow EXCEPT ![b] = "network"] /\ network' = network \cup {b} /\ UNCHANGED <<dir, faults>>
     \/ flow' = [flow EXCEPT ![b] = "over"] /\ dir' = [dir EXCEPT ![b] = "none"] /\ MayFail /\ UNCHANGED network
  /\ UNCHANGED <<box, aged, active, sweep, alive, swept>>

\* A mutant of AddActive: the container is not registered.
AddNothing(b) ==
  /\ alive /\ flow[b] = (IF b \in Terminal THEN "network" ELSE "files")
  /\ flow' = [flow EXCEPT ![b] = "added"]
  /\ UNCHANGED <<dir, network, box, aged, active, sweep, alive, swept, faults>>

\* The name is registered before docker has heard of it.
AddActive(b) ==
  /\ alive /\ flow[b] = (IF b \in Terminal THEN "network" ELSE "files")
  /\ flow' = [flow EXCEPT ![b] = "added"] /\ active' = active \cup {b}
  /\ UNCHANGED <<dir, network, box, aged, sweep, alive, swept, faults>>

Launch(b) ==
  /\ alive /\ flow[b] = "added" /\ flow' = [flow EXCEPT ![b] = "live"] /\ box' = [box EXCEPT ![b] = "wanted"]
  /\ UNCHANGED <<dir, network, aged, active, sweep, alive, swept, faults>>

\* The docker client does not start. A terminal leaves its workspace behind.
LaunchFails(b) ==
  /\ alive /\ flow[b] = "added" /\ MayFail /\ flow' = [flow EXCEPT ![b] = "over"]
  /\ active' = active \ {b} /\ network' = network \ {b}
  /\ dir' = IF b \in Terminal THEN dir ELSE [dir EXCEPT ![b] = "none"]
  /\ UNCHANGED <<box, aged, sweep, alive, swept>>
-----------------------------------------------------------------------------
(* Docker *)

\* docker run creates the container and then starts it; a mount needs its directory.
DockerCreates(b) ==
  /\ box[b] = "wanted" /\ box' = [box EXCEPT ![b] = IF dir[b] = "none" THEN "removed" ELSE "created"]
  /\ UNCHANGED <<flow, dir, network, aged, active, sweep, alive, swept, faults>>

DockerStarts(b) ==
  /\ box[b] = "created" /\ box' = [box EXCEPT ![b] = IF dir[b] = "none" THEN "exited" ELSE "running"]
  /\ UNCHANGED <<flow, dir, network, aged, active, sweep, alive, swept, faults>>

\* The program ends. Only terminals run with --rm.
ProgramEnds(b) ==
  /\ box[b] = "running" /\ box' = [box EXCEPT ![b] = IF b \in Terminal THEN "removed" ELSE "exited"]
  /\ UNCHANGED <<flow, dir, network, aged, active, sweep, alive, swept, faults>>

Age(b) ==
  /\ Exists(b) /\ b \notin aged /\ aged' = aged \cup {b}
  /\ UNCHANGED <<flow, dir, network, box, active, sweep, alive, swept, faults>>

\* Thirty seconds pass without a write to the workspace. On a calm host that is
\* longer than a start, with the sweep that did not see its container.
AgeWorkspace(b) ==
  /\ dir[b] = "fresh" /\ dir' = [dir EXCEPT ![b] = "old"]
  /\ CalmHost => \/ flow[b] = "over"
                 \/ (Exists(b) \/ box[b] = "removed") /\ (sweep.at = "idle" \/ b \in sweep.names)
  /\ UNCHANGED <<flow, network, box, aged, active, sweep, alive, swept, faults>>
-----------------------------------------------------------------------------
(* The end of a call *)

\* The process watcher of a terminal.
WatchExit(b) ==
  /\ alive /\ b \in Terminal \cap active /\ flow[b] \in {"live", "closing"} /\ box[b] \in {"removed", "exited"}
  /\ active' = active \ {b}
  /\ UNCHANGED <<flow, dir, network, box, aged, sweep, alive, swept, faults>>

\* The end of a run, its timeout or a limit, or the end of a session: the
\* container is killed and removed, or docker does not answer in time.
StopAndRemove(b) ==
  /\ alive /\ flow[b] = "live" /\ flow' = [flow EXCEPT ![b] = "closing"]
  /\ \/ box' = [box EXCEPT ![b] = "removed"] /\ UNCHANGED faults
     \/ UNCHANGED box /\ MayFail
  /\ UNCHANGED <<dir, network, aged, active, sweep, alive, swept>>

\* The registry, the workspace, and the network: docker keeps one in use.
Release(b) ==
  /\ alive /\ flow[b] = "closing" /\ flow' = [flow EXCEPT ![b] = "over"] /\ active' = active \ {b}
  /\ \/ dir' = [dir EXCEPT ![b] = "none"] /\ UNCHANGED faults
     \/ UNCHANGED dir /\ MayFail
  /\ network' = IF box[b] = "running" THEN network ELSE network \ {b}
  /\ UNCHANGED <<box, aged, sweep, alive, swept>>

\* The service forgets its calls and its registry; containers go on.
Crash ==
  /\ alive /\ MayFail /\ alive' = FALSE
  /\ flow' = [b \in Box |-> IF flow[b] = "none" THEN "none" ELSE "over"]
  /\ active' = {} /\ sweep' = NoSweep
  /\ UNCHANGED <<dir, network, box, aged, swept>>

\* RemoveAbandonedSessionNetworks: those old enough that no running container
\* is attached to, with their containers that do not run.
Restart ==
  /\ ~alive /\ alive' = TRUE
  /\ \E old \in SUBSET {b \in network : box[b] # "running"} :
       /\ network' = network \ old
       /\ box' = [b \in Box |-> IF b \in old /\ Exists(b) THEN "removed" ELSE box[b]]
  /\ UNCHANGED <<flow, dir, aged, active, sweep, swept, faults>>
-----------------------------------------------------------------------------
(* The sweep *)

ListContainers ==
  LET names == {b \in Box : Exists(b)} IN
  /\ alive /\ sweep.at = "idle"
  /\ sweep' = [at |-> "check", names |-> names, todo |-> names, stale |-> {}]
  /\ UNCHANGED <<flow, dir, network, box, aged, active, alive, swept, faults>>

\* A mutant of Stale: only containers that do not run are removed.
StoppedOnly(b) == box[b] # "running"

Stale(b) == box[b] # "running" \/ b \in aged

\* A container that is not registered is inspected: one that is gone ends the sweep.
CheckContainer(b) ==
  /\ sweep.at = "check" /\ b \in sweep.todo
  /\ sweep' = IF b \in active THEN [sweep EXCEPT !.todo = @ \ {b}]
              ELSE IF ~Exists(b) THEN NoSweep
              ELSE [sweep EXCEPT !.todo = @ \ {b}, !.stale = IF Stale(b) THEN {b} ELSE {}, !.at = "remove"]
  /\ UNCHANGED <<flow, dir, network, box, aged, active, alive, swept, faults>>

RemoveStale ==
  /\ sweep.at = "remove" /\ sweep' = [sweep EXCEPT !.at = "check", !.stale = {}]
  /\ box' = [b \in Box |-> IF b \in sweep.stale THEN "removed" ELSE box[b]]
  /\ swept' = swept \cup {b \in sweep.stale : Uses(b)}
  /\ UNCHANGED <<flow, dir, network, aged, active, alive, faults>>

\* Then the directories, by the names that were listed at the beginning.
CleanupOrphanedWorkspaces ==
  LET orphans == {b \in Box \ sweep.names : dir[b] = "old"} IN
  /\ sweep.at = "check" /\ sweep.todo = {} /\ sweep' = NoSweep
  /\ dir' = [b \in Box |-> IF b \in orphans THEN "none" ELSE dir[b]]
  /\ swept' = swept \cup {b \in orphans : Uses(b)}
  /\ UNCHANGED <<flow, network, box, aged, active, alive, faults>>
-----------------------------------------------------------------------------
Next ==
  \/ \E b \in Box :
       WriteWorkspace(b) \/ CreateSessionNetwork(b) \/ AddActive(b) \/ Launch(b) \/ LaunchFails(b)
       \/ DockerCreates(b) \/ DockerStarts(b) \/ ProgramEnds(b) \/ Age(b) \/ AgeWorkspace(b)
       \/ WatchExit(b) \/ StopAndRemove(b) \/ Release(b) \/ CheckContainer(b)
  \/ Crash \/ Restart \/ ListContainers \/ RemoveStale \/ CleanupOrphanedWorkspaces

Spec == Init /\ [][Next]_vars

\* The sweep runs on its timer, the service is restarted, docker does what it
\* was asked, and time passes.
Fairness ==
  /\ WF_vars(Restart) /\ WF_vars(ListContainers) /\ WF_vars(RemoveStale) /\ WF_vars(CleanupOrphanedWorkspaces)
  /\ \A b \in Box : WF_vars(CheckContainer(b)) /\ WF_vars(DockerCreates(b) \/ DockerStarts(b))
                    /\ WF_vars(Age(b)) /\ WF_vars(AgeWorkspace(b))
FairSpec == Spec /\ Fairness
-----------------------------------------------------------------------------
(* Properties *)

\* The sweep takes neither its container nor its workspace from a call that
\* starts or runs, though it acts on a list, a registry and a state it read one
\* after the other.
SweepSparesSessions == swept = {}

\* Whatever a call leaves behind is removed in the end: at every failure of
\* docker or of the file system, and when the service crashed at any step,
\* there is a later moment without containers and workspaces of calls that are over.
LeftoversEnd == []<>(\A b \in Box : flow[b] = "over" => ~Exists(b) /\ dir[b] = "none")
=============================================================================
