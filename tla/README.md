# Syncode: formal verification project

Syncode is a browser IDE in which the people of a *room* edit and run one project together.
Browsers (`src/client`, TypeScript) hold a replica of the text of every file and of the tree of
files, exchange operations through a SignalR hub (`src/server`, .NET) that keeps the room's state in
Redis, and use terminals and language servers that run in containers of an execution service
(`src/execution-service`, .NET). Several instances of the room server share Redis, which is also
SignalR's backplane.

This directory holds TLA+ specifications translated from that source, the TLC configurations that
check them on small instances, and TLAPS proofs for every value of the constants. `PROJECT.json`
lists components, runs, mutants (a plausible bug for every property, which the property must
catch), theorems, findings, hazards, and for every definition the lines of source it stands for.

    tlc -workers 2 -config TextReplicasOrder.cfg TextReplicas        # any run of PROJECT.json
    tlapm TextReplicasProofs.tla                                      # any module *Proofs.tla

## 1. The system: inventory

Paths are below `src/`. "Right" says what makes the component correct.

**Text CRDT** (`client/src/crdt/CrdtDocument.ts`, `CrdtId.ts`, `CrdtChar.ts`). State: the sequence of
characters of a file, tombstones included, each with a Lamport identifier and the identifier of the
character it was inserted after, and a clock. Operations: localInsert, localDelete,
integrateRemoteInsert, integrateRemoteDelete, fromSnapshot, toSnapshot. Hard: concurrent inserts at
one place, whole-document merges. Right: replicas with the same characters show the same text; no
character disappears, moves or comes back to life.

**Pending buffer** (`crdt/PendingBuffer.ts`). State: inserts whose origin, and deletes whose
character, is still unknown. Operations: process, processPending, drain. Hard: chains of buffered
operations. Right: only what has to wait waits, and it is applied as soon as it can be.

**Room text synchronisation, client** (`providers/SignalRCrdtProvider.ts`,
`crdt/offlineTextOpQueue.ts`, `hooks/useCrdtSync.ts`). State: documents and buffers per file, the
connection and where connect() or onreconnected is, save timers, the IndexedDB queue of operations
made offline. Operations: edits, the hub's messages, reconnecting with resynchronisation and replay,
answering snapshot requests. Hard: a connection breaks at any point, pages are reloaded, the server
answers late. Right: tabs that are back show the same text, edits made offline are not lost.

**Room files, server** (`server/Application/Projects/RoomFileService.cs`, `Services/RedisFileStore.cs`,
`Hubs/CollabHub.cs`). State: one stored snapshot per file, the connections of the SignalR group.
Operations: relay an operation (kept nowhere), save a snapshot, store and relay offline snapshots,
pass a peer's snapshot on, send everything to who joins. Hard: JoinRoom reads, picks a peer and
enters the group in separate steps. Right: who joins misses nothing; the stored copy is complete.

**Project tree CRDT** (`crdt/ProjectTree.ts`). State: last-writer-wins registers per entry (creation,
name, parent, deletion) ordered by operation identifier. Operations: create, rename, move, delete,
apply, removeOperation, snapshots. The visible tree drops descendants of deleted entries, detaches
entries from missing parents and breaks cycles at the oldest move. Hard: concurrent moves. Right:
replicas with the same operations show the same tree, which is a forest.

**Project tree outbox** (`crdt/pendingProjectTreeOutbox.ts`, the provider's submitTreeOperation and
flushTreeOperations). State: operations not acknowledged, in memory and IndexedDB. Hard: lost
answers, refusals after later operations. Right: every operation is in the end in the server's log
or rolled back.

**Project tree service and store** (`Services/RedisProjectTreeStore.cs`,
`Application/Projects/ProjectTreeOperationService.cs`, `ProjectTreeStateService.cs`,
`RoomWorkspaceAdapter.cs`). State: the log of operations, a compacted snapshot, per-site counters,
creations and names. Operation: append, one Lua script, after a validation outside it. Right: an
operation is applied once; the log and the snapshot give the tree the clients show.

**Membership and roles** (`Services/RedisParticipantScripts.cs`, `RedisParticipantStore.cs`,
`Application/Rooms/*`). State: participants with admin and lock flags, connection registrations,
limits. Operations: admit, remove, kick, lock, set admin, promote: one Lua script each, composed by
the hub in several awaits. Hard: kicks and demotions against calls under way. Right: limits hold; who
was demoted does not get the role back by coming back.

**Join approval** (`Services/RedisRoomJoinApprovalStore.cs`, `Application/Rooms/RoomJoinService.cs`).
State: requests by request identifier, members with their role, the rejected. Right: who was kicked
asks again. **Leases** (`RoomConnectionLeaseService.cs`): connections renewed every 30 s, dead after
120 s. Right: the participants of a dead instance go.

**Room expiry and recovery** (`Services/RoomLifecycleService.cs`, `RedisRoomMetadataStore.cs`,
CollabHub.RestoreExpiredWorkspace, the provider's restoreRecoveredWorkspace). State: last activity,
the recovery record of an expired room, per-member restore status pending/running/complete. Hard: a
sweep of many steps that a join or a crash meets anywhere. Right: members can come back, and a
workspace marked as restored is.

**Project import** (`Application/Projects/ProjectImportService.cs`, planner, validator; in the client
`import/folderImport.ts`). State: stored snapshots, quota, baseline, the log of the tree. Hard:
overlapping imports, and the undo of one that fails. Right: tabs and server agree, and every file
that is listed has its text.

**Terminals** (`Application/Execution/TerminalSessionService.cs`, `Services/TerminalSessionRegistry.cs`,
execution service `Runner/InteractiveTerminalSessions.cs`, `RoomSessionCapacity.cs`; in the client
`useTerminalTabs.ts`). State: tabs, the registry, sessions with their container, two capacities.
Hard: a start races with closing, disconnecting, failing, expiring. Right: places are given back
once; no session outlives its owner unnoticed.

**Files of terminals** (`InteractiveTerminalSessions.cs`, `sync-workspace.py`, the provider's
synchronizeTerminalWorkspace and flush). State: text in the room, stored snapshots, files of the
container, entries the service remembers. Hard: polls and runs in both directions, lost answers.
Right: a program runs on what the tab shows; what it writes arrives and takes no edit away.

**Language servers** (`Services/LanguageServerSessionService.cs`, execution service
`Runner/LanguageServerSessions.cs`). State: reservations, sessions, one-use tickets, sockets. Hard:
five Redis commands publish one session. Right: limits hold, ended connections leave nothing.
**Language client** (`client/src/utils/monacoLanguageServers.ts`). State: documents at the server, Monaco
models, panes. Hard: edits and renames while connecting. Right: the server has the room's texts.

**Containers** (`Runner/ContainerLifecycle.cs`, `ContainerRunner.cs`, `ActiveContainerRegistry.cs`,
`PackageEgressBoundary.cs`). State: workspaces, networks, containers, the registry, the sweep. Hard: the
sweep acts on a list it read before; crashes. Right: it spares what is used and removes the rest.

**GitHub** (server: `GithubOAuthService.cs`, `GithubTokenVault.cs`, `GithubRepositoryPushService.cs`,
`GithubRepositoryImportService.cs`; client: `GithubSourceControlRemoteActions.tsx`,
`useGithubBranchActions.ts`). State: the vault entry and GitHub's one-use refresh token; the baseline of
a room and the branch at GitHub; what the panel shows. Hard: concurrent refreshes, sign-out, commits of
others during a push, late answers. Right: no session is thrown away, a revoked one is revoked, no
text is overwritten unseen, the panel shows the selected branch.

**Editor panes** (`hooks/useEditorFileState.ts`, `components/editor/editorGroups.ts`). State: panes, tabs,
the remembered and the active file. Right: panes show open files and agree with the provider.

**Rate limits and chat**: one script per key. **Presentation** (Monaco binding, awareness, editor
components), **project export**, **infrastructure**: conversion, user interface and configuration.

How they interact: the Monaco binding turns editor changes into localInsert and localDelete; the
provider sends them as `SendFileOp`; the hub checks membership and relays them to the room's group;
other providers put them through their pending buffers. A new connection calls `JoinRoom`, which
resolves approval, admits, reads files and tree, and asks one participant for its documents. Tree
operations go through the outbox to the append script and back to everybody. Expiry archives an idle
room; the first members that come back re-import the workspace from their memory. Terminals and
language servers are started through the hub, which registers them, and live in containers of the
execution service; their files travel through the provider. GitHub gives a room its first files and
takes its changes back against the baseline that the import recorded.

## 2. What is modelled

| Module | Models | Role |
|---|---|---|
| `CrdtDocument` | `CrdtDocument.ts` | the pure operators of the sequence CRDT |
| `TextReplicas` | `CrdtDocument.ts`, `PendingBuffer.ts`, the provider's handlers of one file | replicas, buffers and a network |
| `SharedList` | what they promise | abstract: one shared list |
| `CrdtDocumentProofs`, `TextReplicasProofs` | | theorems |
| `RoomTextSync` | the provider's connection life, `offlineTextOpQueue.ts`, CollabHub, `RoomFileService.cs`, `RoomJoinService.cs` | how one file's edits survive breaks, joins and reloads |
| `ProjectTree` | `ProjectTree.ts`, `ProjectTreeStateService.cs` | pure operators: the tree a set of operations shows, to a tab and to the server |
| `ProjectTreeSync` | the provider's tree handlers and outbox, `ProjectTreeOperationService.cs`, the append script of `RedisProjectTreeStore.cs` | tabs, outboxes, connections and the log |
| `MCProjectTreeSync` | | instance for TLC |
| `ProjectTreeProofs`, `ProjectTreeSyncProofs` | | theorems |
| `RoomMembership`, `MCRoomMembership` | participant scripts and store, approval store, the hub's join, leave and admin methods, leases | who is in a room with which role |
| `RoomRecovery` | the expiry sweep, the recovery record, restoring | how a room ends and comes back |
| `ProjectImport` | folder and repository import, tab and server | overlapping and failing imports |
| `TerminalSessions` | terminal tabs, registry, sessions, capacities | the life of a terminal |
| `TerminalFiles` | materialising, polling, flushing | files between room and container |
| `LanguageServers` | sessions of language servers on both services | reservation to expiry |
| `LanguageClient` | `monacoLanguageServers.ts` | documents, models, panes |
| `Containers` | calls of the execution service and its sweep | docker, crashes, what is left |
| `GithubSession` | OAuth, vault, sign-out | one refresh token, many requests |
| `GithubPush` | import baseline, push, creation | a room against a branch |
| `GithubBranches` | the source control panel | late answers |
| `EditorFiles` | panes and tabs | three copies of "the active file" |
| `ProjectServices`, `ExecutionServices` | | the components from `RoomRecovery` on, side by side: those of projects and GitHub, and those that run programs; with their assumptions and properties |
| `MCServices` | | extends both: one instance for TLC of them and of a small `RoomMembership` |
| `RoomTextSyncProofs`, `RoomMembershipProofs`, `ProjectServicesProofs`, `ExecutionServicesProofs` | | theorems |

### 2.1 The document and its replicas

A document is a sequence of records `[id, origin, deleted]`; the value of a character and the name of
a file are left out, no rule reads them. `EndsScan`, `InsertPos` and `insertChar` are the integration
rule of `CrdtDocument.insertChar`: walk right from the origin, stop at the first character that is not
part of a subtree of a later sibling. `mergeChar` is the body of fromSnapshot's loop.

`TextReplicas` has one document, clock and pending buffer per site, the operations on their way to
every site (one that was relayed can arrive at any time, in any order, and again: SignalR groups, the
backplane, replay after a reconnection), and snapshots in flight. A handler that loops is split where
JavaScript cannot interleave anything but where the order of the iteration is free: `draining` and
`merging` hold what is left of PendingBuffer.drain and fromSnapshot, and nothing else happens at that
site until it is done.

| State | Code |
|---|---|
| `doc`, `clock`, `pendingInserts`, `pendingDeletes` | `CrdtDocument.chars`, `clock`; the two kinds in `PendingBuffer.pending` |
| `insertsTo`, `deletesTo`, `snapshotsSent` | what the hub relays with `ReceiveFileOp`, `LoadFileSnapshot` |

### 2.2 Breaks, joins and reloads

`RoomTextSync` takes the result of 2.1 (the set of integrated edits determines the text) and models a
document as a set of edits. What remains is the life of a connection.

| State | Code |
|---|---|
| `phase` | where `connect()` or the onreconnected handler is, with `connection.state` |
| `queue`, `offlineOpSeq` | records of IndexedDB, the counter behind their keys |
| `uplink` | invocations of one connection, served in order and one at a time |
| `inbox` | messages to one connection, in any order, but nothing overtakes JoinRoom's answer |
| `participants`, `group` | Redis participants, the SignalR group |
| `joining` | what a running JoinRoom has read |
| `stored` | the snapshot in Redis |

JoinRoom is five actions, because other connections come between its awaits: admission, reading the
stored snapshot, picking the peer, entering the group, answering. A stored snapshot that has arrived
is a message of its own ("load"), because the browser decompresses it asynchronously. A break loses
what is in `uplink` and `inbox`; the server notices it in a separate step, so a tab may be back while
its dead connection is still a participant. A page reload keeps only the queue.

Abstractions: one file that always exists; nobody is locked; no call is refused for its size or rate;
an invocation that was being served when its connection broke counts as served before the break or
not at all; approval is granted at once.

### 2.3 The project tree

`ProjectTree` has no state. A tree is a set of operations; `Latest` is the winning write of a register;
`Visible`, `Attached` and `Detach` are removeDeletedDescendants, detachInvalidParents and
breakParentCycles, said of sets: `Above(up, e)` is what the walk from `e` towards the root meets, as the
least set closed under parents. `Compact` is both toSnapshot and what the append script stores.
`Remaining` is the server's own removal of descendants, which visits entries in an order and forgets
those it has removed.

| State of `ProjectTreeSync` | Code |
|---|---|
| `tree`, `clock` | `ProjectTree.operations`, `clock` |
| `outbox`, `flushing` | `pendingTreeOperations`, `treeFlushPromise` |
| `link`, `resync` | the connection, and whether onreconnected still awaits its flush |
| `uplink`, `inbox` | the invocation on its way; what the hub sent and is not handled |
| `serving` | ApplyAsync calls: before and after validation; their connection may be gone |
| `log`, `saved` | the list and index of operations, the snapshot of the script |

A call is three actions, ReceiveCall (duplicate test), ValidateCall and AppendCall (the script), because
calls of other connections, or an earlier copy of the same operation, come in between. JoinRoom is two,
ReadRoom and EnterGroup: an operation appended in between reaches the joiner by no way, as in
finding 1. `CalmJoins` excludes that here, so that ForeignChangesArrive shows everything else; with
CalmJoins = FALSE TLC refutes it with a rename between ReadRoom and EnterGroup.

`FreshIds` says that no tab makes an identifier a second time. It can, after finding 4: a tree that was
dropped is rebuilt from the server's, so its clock can fall behind operations that still wait in the
outbox; submitTreeOperation takes the next change for the one that is pending, and it is shown and never
sent. FreshIds excludes this where SavedOrRolledBack is checked and proved, so that the property
is about breaks, retries and refusals; `tree_reseed` does without it.

### 2.4 Membership, expiry and imports

`RoomMembership` keeps `participants`, `active` rooms, `connections` of instances, `members` (the records
that the approval store remembers), `requests` and `rejected` as in Redis, one action per Lua script;
`call` is where a hub method of a connection is, with the copies it has read. A connection is lost at
any time; the hub notices it later, after the call under way (SignalR runs the calls of a connection
one by one). `Crash` ends an instance with its connections, `LeaseExpires` lets the others find out.
`QuietTargets` keeps the admins from acting on somebody whose call is under way: without it TLC
refutes KickedMustAsk, because SaveMember of a JoinRoom or LeaveRoom under way, or a second tab with the
same request identifier, writes the membership that the kick has deleted; and DemotedStaysDemoted,
because LeaveRoom saves the role it read before the demotion. It also keeps them from changing the
role of a participant whose connection is gone. The proof found why: a crash between AdmitParticipant
and SaveMember leaves a participant that no record remembers; SetParticipantAdmin then takes the role
in `room:participants` and finds no record to mark as revoked, and the next PromoteParticipant gives
it back. Two connections of one member, an instance that crashes and a demotion before the lease
expires are needed, more than the run's instance had steps for.

`RoomRecovery` has the steps of RunCleanupAsync in the order of the code, and crashes between them; `meta`,
`remembered` and `recovery` are the room's hash, its members and its recovery record. `CalmSweeps`
excludes a join whose SaveMember falls between Archive and DeleteMeta: TLC then refutes MembersCanReturn,
the member is in neither record. A crash between DeleteRest and DeleteMeta, one in a restore that
leaves the status "running" for ever, and a retry refused after a half-applied restore are in the model
and do not break the two properties. Restored files are refused by ImportedSnapshotValidator when
somebody had edited them (`Plain` are those it takes).

`ProjectImport` has two tabs that pick, filter, send and abort; the server validates, plans, saves,
reserves, appends and completes, or fails at any step and undoes. The tab lets through generated folders
that the server refuses. An import of one local file clears the baseline. CancelProjectImport never
meets a running import (a connection's calls are served one by one), so it is no action. TabsShowTree is
about imports that ran to their end: operations of one that stopped half-way are logged and not told.

### 2.5 Terminals, language servers, containers

`TerminalSessions` follows a session from its tab through the hub's call and the registry to the
execution service (`stage`, `program`, `watched`, `released`); `room` and `slots` are the two capacities.
`lost` are the sessions about which a request or an answer was lost; only they may run unseen, until
their idle time (OrphansEnd). Closing a connection takes the registered sessions; a start under way is
closed by the one who started it. `TerminalFiles` says a text is the set of the edits in it. `Poll`
remembers at once what it reports (`known`), the tab applies it file by file later (`answers`); a run
goes through its awaits: flush the terminals, flush the room, materialise. A conflict is refused and
reported. `LanguageServers` has the five commands that publish a session, its ticket, the socket that
uses it once, and failures at each; `LanguageClient` the other end, with Monaco's models.
`Containers` has a call that is a terminal and one that is not, with docker as an external program that
creates, starts, ends and fails; a sweep that lists, inspects and removes; and the workspaces it
cleans. `CalmHost` says that docker and the disk are not slower than the grace periods of
the sweep; without it TLC refutes SweepSparesSessions with a container registered after its list.

### 2.6 GitHub and panes

`GithubSession` numbers the tokens by generation: GitHub takes the refresh token of one generation
once. A request reads the vault, takes the lock, reads again, asks GitHub, stores. A crash or a failed
write between rotation and storing loses the session; `faults = 0` excludes it. Sign-out reads, revokes
and deletes in steps. `GithubPush` has the commits as a growing sequence with ancestors, the baseline of
the room, tabs that edit, review and push under a lock that may lapse, and other people who commit.
Only tracked files of the branch the room has open are protected: an untracked path, or another
branch, is overwritten. `GithubBranches` keeps every request under way with what it closed over
(`first`, `older`, `operations`): the answer to an older page has no guard at all, so `CalmPanel` keeps
the selection while one is loading; without it TLC refutes both halves of PanelShowsRepository:
HistoryIsOfSelected, and PushTargetExists
when a deletion precedes the list of repositories: the next push then makes the branch again.
`EditorFiles` is useEditorFileState over the pure functions of editorGroups; React renders the updates of
an event before the next one.

## 3. What is checked

| Run | Instance | Shows |
|---|---|---|
| `text_order` | 3 sites, up to 4 characters, every reordering and duplication | Convergence, IdsAreGlobal |
| `text_merge` | 2 sites, inserts, a delete, a snapshot merge, fair delivery | TypeOK, DocumentsAreTrees, BufferHoldsOnlyOrphans, HistoryIsKept, refinement of SharedList, EventuallySame |
| `sync_calm` | 2 tabs, 1 edit, 1 break or reload anywhere, joins do not overlap | EventuallySame, EventuallyInRoom |
| `sync_queue` | 1 tab, 3 edits, 3 breaks | TypeOK, QueuedEditsSurvive, EventuallyStored |
| `sync_burst` | 2 tabs, 1 edit, no break, joins may overlap | finding: EventuallySame is violated |
| `sync_reload` | 1 tab, 3 edits, 3 breaks, one of them a reload | finding: QueuedEditsSurvive is violated |
| `tree_races` | 2 tabs, 2 folders, 3 racing changes | ShowsForest, SnapshotStandsForLog |
| `tree_breaks` | 2 tabs, 2 changes, 2 breaks anywhere | TypeOK, LoggedOnce, ForeignChangesArrive, SavedOrRolledBack |
| `tree_delete` | nested folders, 1 change | finding: ServerListsWhatTabsShow is violated |
| `tree_reseed` | a tab joins, 2 changes, 1 break | finding: TabsShowTheSame is violated |
| `membership` | an admin and a member with two tabs, 3 acts of the admin or memberships given up, crash | WithinLimits, KickedMustAsk, DemotedStaysDemoted |
| `services` | each service alone on a small instance | the properties below |

The parts of `services` share one run because their instances are small and independent: the first
state chooses a part, the others rest in one initial state, so the state spaces add up.

| Part | Instance | Shows |
|---|---|---|
| recovery | 2 tabs of one member, 1 expiry, 1 failure, 1 crash | MembersCanReturn, CompleteMeansRestored |
| imports | 2 tabs, 3 paths of different kind and size, 2 imports, 1 failure | RoomShowsImport |
| terminals | 2 connections, 2 starts, 1 place on the host, 1 failure | PlacesMatchContainers, NoSilentOrphans, OrphansEnd |
| files | 1 file, 2 edits, 2 changes of a program, 2 polls, 1 run, 1 lost answer | UnseenEditsSurvive, RunsExchangeEdits |
| servers | 1 connection, limit 1, 3 starts, 1 failure | NoStrayServers |
| client | 2 files, 3 paths, 1 edit, 2 renames, 3 panes, 1 socket that ends | ServerHasRoomTexts |
| containers | a terminal and another call, 1 fault | SweepSparesSessions, LeftoversEnd |
| session | 2 requests, 3 generations, 1 fault | SessionSurvives, SignOutRevokes |
| push | 2 tabs, 2 paths, 2 branches, 3 commits, 2 pushes, 1 fault | KnownTextReplaced |
| branches | 3 branches of 2 and 3 pages, 2 requests, 3 changes, 1 fault | PanelShowsRepository |
| editor | 2 files, a review, 3 panes, 3 changes | PanesShowOpenFiles |
| members | 2 rooms, 2 connections, 1 crash | GhostsLeave |

**Bounds.** Three sites are what the order of siblings needs (two concurrent subtrees and an observer);
four characters give a sibling below a sibling's child, the case in which a scan that stops too early
goes wrong. For one document two sites suffice for merging, since a merge involves two. In
`RoomTextSync` two tabs are one author and one receiver; one break suffices for every place a break
can hit a join, a relay, a save or a replay; the queue needs three edits and three breaks to be
filled, half replayed, broken again and filled again. The same properties with two edits, or with two
breaks, were explored once and hold, but take too long to be kept.
Two folders are the smallest cycle and three changes the smallest history in which a register is written
twice after racing; two breaks let a retry be retried, or both tabs reconnect. ForeignChangesArrive
speaks of the changes of others because of finding 4: a tab can lose its own.
In the services two actors race for one resource, whose limit is one or two so that it is reached;
one failure can hit any step, and a second attempt meets what the first left. Three generations of
tokens are a refresh that races with one that has finished; three commits are a baseline, somebody
else's and a push; three paths are a file, one too many and one that a filter takes out.

**What `sync_calm` assumes.** `CalmJoins` lets a connection start only when no other one is joining
and the server has noticed the end of its predecessor. `sync_burst` is what happens without it.
EventuallySame speaks of executions without a reload: a reload takes operations with it that were
relayed to nobody yet, and the peer a joiner asks may be reloaded before it answers. EventuallyStored
is checked for one tab: with two, a tab that answers a snapshot request before it has loaded, or
drops an operation because it does not know the file yet and then saves, overwrites the stored copy
with less.

**Fairness.** Weak fairness for: delivering what was relayed (`TextReplicas`; a SignalR connection that
stays up delivers, and one that breaks resynchronises), the server's steps, the browser's handlers,
timers, and SignalR's automatic reconnect, whose retry delay is bounded by 30 s and which never gives
up (`nextRetryDelayInMilliseconds` never returns null); the periodic sweeps, expiring leases and idle
times, the disposal of what is being closed, docker doing what it was asked and a service that is
restarted (the compose file restarts it). Fairness of a service counts only in its own runs. There is
none for editing, breaking,
reloading, or for the browser's "online" event. CHECK_DEADLOCK is FALSE because a bounded room in
which everything is delivered has nothing left to do.

## 4. Findings

1. `sync_burst` (CollabHub.cs:173): an operation relayed while another JoinRoom is between its reads
   and AddToGroupAsync reaches the joiner by no way; the texts stay different. The load test calls this
   an error.
2. `sync_reload` (SignalRCrdtProvider.ts:1599): after a reload the offline queue's counter restarts
   while connect() leaves the queue alone; the next offline edit overwrites a queued one that the
   comment promises to keep.
3. `tree_delete` (ProjectTreeStateService.cs:88): the server forgets a removed folder while it still has
   to walk through it, so entries two levels below a deleted folder stay in its list.
4. `tree_reseed` (SignalRCrdtProvider.ts:1280): seeds are identified by rank, so those of a second join can
   conflict with those of the first; the tab then drops its tree, with offline changes that the server
   goes on to accept.

## 5. What is proved

For all values of the constants, from the assumptions of each module: bounds are naturals, sites are
ordered, functions have their domains, and the names that stand for "nobody", "none" and "free" are no
connection, path or request.

| Theorem | Says |
|---|---|
| `InsertKeepsTreeOrder`, `DeletesKeepTreeOrder` | the operators keep a document a pre-order walk of the tree of origins, siblings descending |
| `TreeOrderIsDetermined` | two such walks over the same characters are equal in order |
| `TreesAgree` | two such walks never order two characters differently, whatever else each has |
| `TypeCorrect` | `[]TypeOK` |
| `AlwaysTrees`, `AlwaysIdsAreGlobal` | `[]DocumentsAreTrees`, `[]IdsAreGlobal` |
| `AlwaysConvergence` | `[]Convergence`, strong convergence |
| `AlwaysKept` | `[][...]`: no step drops, reorders or resurrects a character |
| `AlwaysOrphans` | between handlers the buffer holds nothing that could be applied |
| `ReplicasImplementSharedList` | the replicas implement SharedList under the refinement mapping `ListOf` |
| `SyncTypes` | `[]TypeOK` of RoomTextSync |
| `QueueKeepsEdits` | MaxReloads = 0 implies `QueuedEditsSurvive` |
| `CompactOneMore` | compacting at every append is compacting the whole history |
| `CompactShowsTheSame` | compaction changes neither what a tab shows nor what the server lists |
| `TypeCorrect` (tree) | `[]TypeOK` of ProjectTreeSync |
| `AlwaysLoggedOnce` | `[]LoggedOnce` |
| `SnapshotAlwaysStandsForLog` | `[]SnapshotStandsForLog` |
| `ChangesAreSavedOrRolledBack` | FreshIds implies `SavedOrRolledBack` |
| `EntriesAreForest` | what a tree shows is a forest, if no two operations have one identifier |
| `TabsAlwaysShowForests` | `[]ShowsForest` |
| `ForeignChangesAlwaysArrive` | FreshIds and CalmJoins imply `[]ForeignChangesArrive` |
| `RoomsStayWithinLimits` | `[]WithinLimits` |
| `KickedMembersAsk`, `DemotedMembersStay` | QuietTargets implies `[]KickedMustAsk`, `[]DemotedStaysDemoted` |
| `SignOutAlwaysRevokes`, `SessionAlwaysSurvives` | `[]SignOutRevokes`, `[]SessionSurvives` |
| `TerminalPlacesAreContainers`, `TerminalsAreKnown` | `[]PlacesMatchContainers`, `[]NoSilentOrphans` |
| `RunsAndRoomExchangeEdits`, `TerminalsSpareUnseenEdits` | `[]RunsExchangeEdits`, `UnseenEditsSurvive` |
| `ServersAreAccountedFor` | `[]NoStrayServers` |
| `LanguageServersHaveTheRoom` | `[]ServerHasRoomTexts` |
| `SweepIsSafe` | CalmHost implies `[]SweepSparesSessions` |
| `PushReplacesKnownText` | `KnownTextReplaced` |
| `MembersCanAlwaysReturn`, `CompleteAlwaysRestored` | CalmSweeps implies `[]MembersCanReturn`, `[]CompleteMeansRestored` |
| `RoomAlwaysShowsImport` | `[]RoomShowsImport` |
| `PanelAlwaysShowsRepository` | CalmPanel implies `[]PanelShowsRepository` |
| `PanesAlwaysShowOpenFiles` | `[]PanesShowOpenFiles` |

**Hypotheses.** Nine theorems assume a switch of the model, and each is there because TLC refutes the
property without it: a reload loses queued edits (finding 2), so `QueueKeepsEdits` has none; FreshIds
is finding 4, and CalmJoins is finding 1 for operations of the tree (2.3); calls under way write back
what a kick or a demotion deleted, so two theorems have QuietTargets (2.4); a join that ends within
a sweep leaves a member in neither record, so the two of recovery have CalmSweeps (2.4); the sweep of
containers has no lock but its grace periods, so `SweepIsSafe` has CalmHost (2.5); the answer to an
older page, and a deletion, are applied to whatever is selected by then, so the panel has CalmPanel
(2.6). All other theorems hold with crashes, failures, lost answers and interleavings as they are
in the model.

**The argument.** Convergence is not inductive: a replica's next insert depends on the whole order. The
strengthening is *tree order*: in every document, and in every snapshot in flight, a character
comes after its origin, everything between it and its origin descends from the origin, and siblings
stand in descending order of identifiers. It is kept by insertion because the scan passes exactly the
subtrees of later siblings; two documents in tree order over the same characters are equal, by
the first place they differ. Around it: identifiers a site will make are above every identifier of
that site in circulation (so a new one is fresh), an origin precedes what hangs on it in Lamport
order, and an identifier has one origin everywhere. The buffer's invariant needs what a running drain
still has to look at. Library facts used are those of the installed theorem modules.

*Refinement.* The shared list is what all replicas together know. A site that made a character has it
(`AuthorInv`), so a step adds to that list only what it has just typed; two trees with one origin per
character never disagree on two characters (`TreesAgree`), so merging replicas gives one order.

*The queue.* `SyncInv` adds to the types that a joiner is admitted before it is answered, and that keys
in the queue are below the counter (`KeysIssued`): without a reload the counter never restarts, so a
new edit takes a key of its own, and an entry goes only by Acknowledge of its own key.

*Project tree.* Superseding is a strict order on operations, so in a finite set every operation that is
dropped has a maximal one above it that stays (CompactCovers); the winning write of a register is
maximal among what can supersede it, so it stays too, and the tree is a function of the winning
writes. CompactOneMore follows because what superseded a dropped operation is still there to supersede
whatever that would have. That identifiers are unique, which the registers need, is LoggedOnce, and
LoggedOnce is inductive by the counter test of the script alone. The type invariant has to say
where the operation of a tab is (`Flight`): on its way, being served, or answered, at most one of
them, and it is the first of the outbox; otherwise an answer could meet an empty outbox.
SavedOrRolledBack needs `Queue` besides: the outbox is in the order of counters and the server
can have met nothing of it beyond its first operation, also through calls whose connection is
gone; so when the script ignores the first operation for its counter, it is that operation the log
has. Without FreshIds a logged operation can have overtaken one that waits, and the step is lost.
ShowsForest needs of a reachable tree only that identifiers are unique in it (`TreesInv`): the entries
of a cycle then have distinct last writes of their parent, one is the oldest and is detached
(`CycleIsBroken`), and a walk that comes back to where it began meets the cycle only (`AboveCycle`).
For ForeignChangesArrive every logged operation of another tab is in the tree, or on its way
as a message, or in every room that is still to be loaded (`Coming`, `Delivered`); and nothing on its way
conflicts with a tree (`LoggedAgrees`), so no tree is dropped with it.

*Membership.* What a hub method has read is state, so `MembershipInv` speaks of it. Who is let in without
asking is granted, be it by a record, by an approved request, or by a call that has read one of
them (`RecordsGranted`, `ApprovalsGranted`, `CallsGranted`); a demotion is in the record, and no call
under way carries the role it took (`DemotedRecorded`, `CallsDemoted`). Both need that a participant
has a record unless its join is still under way (`Recorded`), and that is what QuietTargets is for. The
limits need that a connection that enters is registered (`EntersRegistered`). A kept-by lemma says for
each action that `MembershipInv` survives it, from what the scripts do to one hash each (`Writes`,
`Seats`, `Goes`, `Relocks`, `Answers`).

*Recovery.* Who was a member is remembered with the room or in its record, which is written before the
room goes (`MembersKept`). One upload runs at a time, by the owner of the recovery (`UploadsAlone`); what
it has sent is stored before the files are created (`UploadsText`), so "complete" is said of all of them.

*Imports.* An identifier that is not created yet is of one import only (`SharedCreated`), so undoing one
takes no text of another. What a tab was told, with what imports under way have changed, is what
the server lists (`ToldOrUnderWay`).

*Push.* A baseline has the texts of its commit (`Records`), and a push to the open branch starts from the
commit of the baseline (`PlanStands`); a branch that has moved refuses it.

*Panel.* The answers the panel still listens to are of the selected branch (`FirstAwaited`,
`OlderAwaited`); operations run one at a time and know the selection (`OneOperation`); the target is there
unless its deletion is about to change the selection (`TargetKept`).

*Panes.* The property is inductive once panes have names of their own (`GoodPanes`). One lemma per pure
function of editorGroups says what it keeps. They rest on what filters return: a filter is a recursive
function here, and `UpTo` is the induction over its length, said of a set instead of an operator.

*Sign-in.* One request refreshes at a time, the one with the lock (`RefreshesAlone`), and while nothing
fails and nobody signs out it holds the generation that GitHub takes (`RefreshesInTurn`); nobody uses
or ends a session before it is stored (`SignedIn`).

*Terminals.* `Slots` and `Rooms` count the sessions that hold a place by their stage; `Fresh` says that a
session not asked for is nowhere, `StartsOnce` that no start waits twice in the queues of calls, and
`Awaited` ties a pending tab to the call that will answer it. NoSilentOrphans is inductive with
them.

*Files of terminals.* For a file that nobody refused, texts only grow on their way: what the service knows
is in the room or in an answer (`Brought`), the container and every answer add to what they replace
(`ContainerAdds`), snapshots are texts the room had (`RoomSaved`), and what the tab showed is in the
stage before the run's (`TabSent`). UnseenEditsSurvive follows from `ContainerSaw`: an edit of the room
that the container or an answer has is one the container has seen.

*Language servers.* What the limit counts moves from the reservations to the list of the connection, while
sockets take it off on their own: `Counted` are the servers that count by their stage, `Held` the
places in Redis, and every counted one is held or about to be listed (`ServersWithin`), and found by the
commands that close a connection (`Findable`). *Language client.* ServerHasRoomTexts is inductive once no
two files have one path. *Containers.* A call is registered before its container exists and has
a young workspace until then (`Registered`, `Sheltered`), so what a sweep has listed as stale is of
calls that are over (`StaleIsOver`).

Where an invariant was not obvious, TLC checked it on an instance larger than the run's before it was
proved; for membership that is how the case of the crashed participant (2.4) came out.

**Only model-checked.** Liveness (EventuallySame, EventuallyInRoom, EventuallyStored, OrphansEnd,
LeftoversEnd, GhostsLeave), which is out of the prover's reach. Every invariant and every action
property that a passing run checks is also a theorem.

## 6. Plan

Every module and every theorem of the plan is there. What could be added, in this order:

1. Hypotheses: CalmJoins and CalmSweeps say that no call is under way in a window; smaller ones would
   name the one call that must not be.
2. Abstract specifications: ProjectTreeSync against a log that grows and trees that follow it, as
   SharedList is for the text.

## 7. Not modelled

Monaco offsets, cursors and awareness, editor components, completions, archives, start-up code:
conversion, presentation or I/O whose state no other part depends on. Rate limits and chat are
single scripts on their own keys. See "components" in `PROJECT.json` for each with its reason, and for
what is left out of those that are modelled.

Behaviour met while modelling that no run states as a finding; the models contain it, or assume it
away where they say so:

- *Roles.* PromoteParticipantScript refuses whoever is not remembered as an admin, so a room whose last
  admin leaves can stay without one, other than the comment at CollabHub.cs:675 says. Taking an occupied room off the active ones (GetParticipants reads
  nobody, then removes) lets one room more than the limit be active.
- *Imports.* A failed import puts back the snapshots it had read over saves made meanwhile.
- *Terminals.* A start under way counts twice against the limit of tabs. The identifier of a dead session
  stays in the provider and makes every later run fail until the tab is closed. A scan that meets a file
  being deleted ends the terminal as one that exceeded its disk.
- *Language servers.* A failure between two of the publishing commands leaves a reservation for its
  whole time to live; an answer that is lost leaves a server for thirty minutes. Their containers are
  not among those the sweep manages, so a crash leaves them. A rename leaves its old model behind.
- *GitHub.* The lock on a refresh is 20 s and the HTTP timeout 15 s; a refresh that ends in between two
  reads of a sign-out writes the vault entry again, and the sign-out then answers 502. A push whose
  baseline cannot be saved is published and refused as moved until the next import.
- *Panes.* The last tab that is closed comes back with the next change of the tree; a change by others can
  hide a review and move the remembered file to the focused pane.
