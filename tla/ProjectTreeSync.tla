-------------------------- MODULE ProjectTreeSync --------------------------
(***************************************************************************)
(* The project trees of the tabs of a room, their outboxes, and the        *)
(* server's log: client/src/providers/SignalRCrdtProvider.ts with          *)
(* crdt/pendingProjectTreeOutbox.ts, and on the server                     *)
(* CollabHub.ApplyProjectTreeOperation with ProjectTreeOperationService    *)
(* and the append script of RedisProjectTreeStore.                         *)
(*                                                                         *)
(* A connection serves its invocations one at a time and in order; what it *)
(* brings to the browser comes in any order, but nothing overtakes the     *)
(* answer of JoinRoom.  Both are lost when it breaks, while an operation   *)
(* the server is working on is carried to its end.                         *)
(*                                                                         *)
(* Left out: size, depth and rate limits, the names of generated folders,  *)
(* locked participants, the contents of files, page reloads (a new page    *)
(* is a new site that takes the outbox over), the limit of the log to its  *)
(* last 1000 operations.  The outbox and its copy in IndexedDB are one.    *)
(***************************************************************************)
EXTENDS ProjectTree

CONSTANTS
  Late,        \* the tabs that open the room only later
  Start,       \* the log, all creations, that the other tabs have seen
  CalmJoins,   \* whether nothing is appended while a JoinRoom is under way
  FreshIds,    \* whether no tab makes an identifier a second time
  MaxChanges,  \* bound: changes made by users
  MaxBreaks    \* bound: connections that break

ASSUME SyncAssumption ==
  /\ Late \subseteq Site
  /\ CalmJoins \in BOOLEAN /\ FreshIds \in BOOLEAN
  /\ Start \in Seq(ProjectTreeOperation)
  /\ \A i \in DOMAIN Start : Start[i].kind = "create" /\ Start[i].id.site \in Site
  /\ \A i, j \in DOMAIN Start :
       /\ Start[i].entry = Start[j].entry => i = j
       /\ i < j /\ Start[i].id.site = Start[j].id.site
            => Start[i].id.counter < Start[j].id.counter
  /\ MaxChanges \in Nat /\ MaxBreaks \in Nat

VARIABLES
  tree,        \* tree[c]: the operations of its ProjectTree
  clock,       \* clock[c]: the ProjectTree's clock
  outbox,      \* outbox[c]: pendingTreeOperations
  flushing,    \* flushing[c]: the first of them is sent and not answered
  link,        \* link[c]: see Link
  resync,      \* resync[c]: onreconnected has not got past its flush
  uplink,      \* uplink[c]: the operation on its way to the server, if any
  inbox,       \* inbox[c]: what the server has sent and c has not handled
  serving,     \* the ApplyProjectTreeOperation calls between two awaits
  log,         \* the accepted operations, in order (list and index)
  saved,       \* the compacted snapshot
  changes, breaks

browser == <<tree, clock, outbox, flushing, resync>>
server == <<log, saved>>
vars == <<browser, link, uplink, inbox, serving, server, changes, breaks>>

Link ==
  {"new",      \* the page is not open yet
   "joining",  \* connected, JoinRoom called
   "entering", \* JoinRoom has read the room, and is not in the group
   "joined",   \* in the room's group
   "down",     \* SignalR is trying to reconnect
   "stopped"}  \* the provider stopped the connection

\* A call: its operation validated or not; its connection up or not.
Call == [client : Site, op : ProjectTreeOperation, valid : BOOLEAN, live : BOOLEAN]

Entries == UNION {[D -> [name : Name, parent : Parent]] : D \in SUBSET Entry}

Connected(c) == link[c] \in {"joining", "entering", "joined"}

-----------------------------------------------------------------------------
Init ==
  LET start(c) == IF c \in Late THEN {} ELSE ToSet(Start)
  IN  /\ tree = [c \in Site |-> start(c)]
      /\ clock = [c \in Site |-> Clock(start(c))]
      /\ outbox = [c \in Site |-> <<>>]
      /\ flushing = [c \in Site |-> FALSE]
      /\ link = [c \in Site |-> IF c \in Late THEN "new" ELSE "joined"]
      /\ resync = [c \in Site |-> FALSE]
      /\ uplink = [c \in Site |-> {}]
      /\ inbox = [c \in Site |-> {}]
      /\ serving = {}
      /\ log = Start
      /\ saved = Compact(ToSet(Start))
      /\ changes = 0 /\ breaks = 0

-----------------------------------------------------------------------------
(* The user and the outbox.                                                *)

\* No operation anywhere is about e: identifiers are random.
Unused(e) ==
  /\ \A c \in Site : \A o \in tree[c] \cup ToSet(outbox[c]) : o.entry # e
  /\ \A o \in ToSet(log) \cup {call.op : call \in serving} : o.entry # e

\* createEntry, which refuses the name of a sibling.
Creation(id, shown) ==
  {o \in [kind : {"create"}, id : {id}, entry : Entry, name : Name, parent : Parent] :
     /\ Unused(o.entry)
     /\ o.parent \in DOMAIN shown \cup {NoParent}
     /\ \A f \in DOMAIN shown : shown[f] # [name |-> o.name, parent |-> o.parent]}

\* getMovableEntry: not into itself or below itself.
Movement(id, shown) ==
  LET up == [e \in DOMAIN shown |-> shown[e].parent]
  IN  {o \in [kind : {"move"}, id : {id}, entry : DOMAIN shown, parent : Parent] :
         \/ o.parent = NoParent
         \/ /\ o.parent \in DOMAIN shown \ {o.entry}
            /\ o.entry \notin Above(up, o.parent)}

\* What the file explorer of c offers.
Offered(c) ==
  LET id == [counter |-> clock[c] + 1, site |-> c]
      shown == getEntries(tree[c])
  IN  Creation(id, shown) \cup Movement(id, shown)
        \cup [kind : {"rename"}, id : {id}, entry : DOMAIN shown, name : Name]
        \cup [kind : {"delete"}, id : {id}, entry : DOMAIN shown]

\* Mutant: the state of the connection is not asked for.
FlushAnyway(c, pending) ==
  IF ~flushing[c] /\ pending # <<>>
  THEN /\ uplink' = [uplink EXCEPT ![c] = {Head(pending)}]
       /\ flushing' = [flushing EXCEPT ![c] = TRUE]
  ELSE UNCHANGED <<uplink, flushing>>

\* flushTreeOperations: invoke the first operation unless a flush is running.
Flush(c, pending) ==
  IF Connected(c) /\ ~flushing[c] /\ pending # <<>>
  THEN /\ uplink' = [uplink EXCEPT ![c] = {Head(pending)}]
       /\ flushing' = [flushing EXCEPT ![c] = TRUE]
  ELSE UNCHANGED <<uplink, flushing>>

\* The operations of c that it may not have in its tree any more.
Sent(c) ==
  {o \in ToSet(outbox[c]) \cup ToSet(log) \cup {call.op : call \in serving} : o.id.site = c}

\* createEntry, renameEntry, moveEntry, deleteEntry; submitTreeOperation: an
\* operation whose identifier is pending already is not added to the outbox.
ChangeTree(c) ==
  /\ link[c] # "new"
  /\ changes < MaxChanges
  /\ FreshIds => \A o \in Sent(c) : o.id.counter <= clock[c]
  /\ \E op \in Offered(c) :
       LET pending == IF \E o \in ToSet(outbox[c]) : o.id = op.id
                      THEN outbox[c] ELSE Append(outbox[c], op)
       IN  /\ tree' = [tree EXCEPT ![c] = @ \cup {op}]
           /\ clock' = [clock EXCEPT ![c] = op.id.counter]
           /\ outbox' = [outbox EXCEPT ![c] = pending]
           /\ Flush(c, pending)
  /\ changes' = changes + 1
  /\ UNCHANGED <<resync, link, inbox, serving, server, breaks>>

-----------------------------------------------------------------------------
(* The server: ApplyProjectTreeOperation.                                  *)

\* A result or an exception goes back unless the connection is gone.
Answer(to, c, live, ok) ==
  IF live THEN [to EXCEPT ![c] = @ \cup {[kind |-> "answer", ok |-> ok]}] ELSE to

\* Mutant: Clients.Caller
RelayToCaller(to, c, op) ==
  IF link[c] = "joined" THEN [to EXCEPT ![c] = @ \cup {[kind |-> "op", op |-> op]}] ELSE to

\* Clients.OthersInGroup
Relay(to, c, op) ==
  [d \in Site |-> IF d # c /\ link[d] = "joined"
                  THEN to[d] \cup {[kind |-> "op", op |-> op]} ELSE to[d]]

\* ApplyAsync up to IsDuplicateAsync.
ReceiveCall(c) ==
  /\ link[c] = "joined"
  /\ \E op \in uplink[c] :
       LET same == {o \in ToSet(log) : o.id = op.id}
       IN  IF same = {}
           THEN /\ serving' = serving \cup
                     {[client |-> c, op |-> op, valid |-> FALSE, live |-> TRUE]}
                /\ UNCHANGED inbox
           ELSE /\ inbox' = Answer(inbox, c, TRUE, op \in same)
                /\ UNCHANGED serving
  /\ uplink' = [uplink EXCEPT ![c] = {}]
  /\ UNCHANGED <<browser, link, server, changes, breaks>>

\* ProjectEntryPaths.GetPath finds the way to the root.
HasPath(up, e) ==
  \A a \in Above(up, e) \cup {e} : a \in DOMAIN up /\ a \notin Above(up, a)

\* EnsureSiblingNameAvailable
SiblingNameAvailable(entries, parent, name, e) ==
  \A f \in DOMAIN entries \ {e} : entries[f] # [name |-> name, parent |-> parent]

\* ValidateOperationAsync, on the entries read at that moment.
Valid(entries, op) ==
  LET up == [e \in DOMAIN entries |-> entries[e].parent]
      known(p) == p = NoParent \/ p \in DOMAIN entries
  IN  CASE op.kind = "create" ->
             /\ op.entry \notin DOMAIN entries
             /\ SiblingNameAvailable(entries, op.parent, op.name, op.entry)
             /\ op.parent = NoParent \/ (known(op.parent) /\ HasPath(up, op.parent))
        [] op.kind = "rename" ->
             /\ op.entry \in DOMAIN entries
             /\ SiblingNameAvailable(entries, entries[op.entry].parent, op.name, op.entry)
        [] op.kind = "move" ->
             /\ op.entry \in DOMAIN entries
             /\ known(op.parent)
             /\ \/ op.parent = NoParent
                \/ /\ op.parent # op.entry
                   /\ op.entry \notin Above(up, op.parent)
                   /\ HasPath(up, op.parent)
             /\ SiblingNameAvailable(entries, op.parent, entries[op.entry].name, op.entry)
             /\ HasPath(up, op.entry)
        [] op.kind = "delete" -> op.entry \in DOMAIN entries

\* ApplyAsync between IsDuplicateAsync and the append script.
ValidateCall(call) ==
  /\ ~call.valid
  /\ IF Valid(GetEntries(saved), call.op)
     THEN /\ serving' = (serving \ {call}) \cup {[call EXCEPT !.valid = TRUE]}
          /\ UNCHANGED inbox
     ELSE /\ serving' = serving \ {call}
          /\ inbox' = Answer(inbox, call.client, call.live, FALSE)
  /\ UNCHANGED <<browser, link, uplink, server, changes, breaks>>

\* The script's own test of the names of siblings, after the operation.
SiblingClash(ops, op) ==
  /\ op.kind # "delete"
  /\ op.entry \in Visible(ops)
  /\ \E f \in Visible(ops) \ {op.entry} :
       /\ NameOp(ops, f).name = NameOp(ops, op.entry).name
       /\ Parents(ops)[f] = Parents(ops)[op.entry]

Counters(site) == {o.id.counter : o \in {p \in ToSet(log) : p.id.site = site}}

\* Mutant: the script relies on IsDuplicateAsync.
VerdictOnNewcomers(op) ==
  IF SiblingClash(saved \cup {op}, op) THEN "refused" ELSE "accepted"

\* AppendProjectTreeOperationScript: what it decides.
Verdict(op) ==
  LET same == {o \in ToSet(log) : o.id = op.id}
  IN  IF same # {} THEN IF op \in same THEN "ignored" ELSE "refused"
      ELSE IF \E n \in Counters(op.id.site) : op.id.counter <= n THEN "ignored"
      ELSE IF \/ op.kind = "create" /\ op.entry \in Created(ToSet(log))
              \/ SiblingClash(saved \cup {op}, op) THEN "refused"
      ELSE "accepted"

\* The script, and after it the relay to the others.
AppendCall(call) ==
  /\ call.valid
  /\ CalmJoins => \A c \in Site : link[c] # "entering"
  /\ serving' = serving \ {call}
  /\ LET verdict == Verdict(call.op)
         answered == Answer(inbox, call.client, call.live, verdict # "refused")
     IN  IF verdict = "accepted"
         THEN /\ log' = Append(log, call.op)
              /\ saved' = Compact(saved \cup {call.op})
              /\ inbox' = Relay(answered, call.client, call.op)
         ELSE /\ inbox' = answered
              /\ UNCHANGED server
  /\ UNCHANGED <<browser, link, uplink, changes, breaks>>

\* JoinRoom up to AddToGroupAsync: the entries, the snapshot and the log are
\* read; they are sent after it.
ReadRoom(c) ==
  /\ link[c] = "joining"
  /\ link' = [link EXCEPT ![c] = "entering"]
  /\ inbox' = [inbox EXCEPT ![c] = @ \cup
       {[kind |-> "room", files |-> GetEntries(saved), snapshot |-> saved, history |-> log]}]
  /\ UNCHANGED <<browser, uplink, serving, server, changes, breaks>>

\* JoinRoom, AddToGroupAsync
EnterGroup(c) ==
  /\ link[c] = "entering"
  /\ link' = [link EXCEPT ![c] = "joined"]
  /\ UNCHANGED <<browser, inbox, uplink, serving, server, changes, breaks>>

-----------------------------------------------------------------------------
(* The browser: what it handles.                                           *)

Handle(c, m) ==
  /\ link[c] # "entering"
  /\ m \in inbox[c]
  /\ m.kind = "room" \/ \A n \in inbox[c] : n.kind # "room"
  /\ inbox' = [inbox EXCEPT ![c] = @ \ {m}]

\* ProjectTreeOperation: applyOperation, which throws at a conflict.
HandleOp(c) ==
  /\ \E m \in inbox[c] :
       /\ m.kind = "op"
       /\ Handle(c, m)
       /\ IF Conflict(tree[c], {m.op})
          THEN UNCHANGED <<tree, clock>>
          ELSE /\ tree' = [tree EXCEPT ![c] = @ \cup {m.op}]
               /\ clock' = [clock EXCEPT ![c] = Max({@, m.op.id.counter})]
  /\ UNCHANGED <<outbox, flushing, link, resync, uplink, serving, server, changes, breaks>>

\* RoomFiles: a tree of seeds, with what the tab had unless they conflict.
Reseeded(local, files) ==
  LET seeds == fromEntries(files)
  IN  IF Conflict(seeds, Compact(local)) THEN seeds ELSE seeds \cup Compact(local)

\* ProjectTreeSnapshot: all of it or, at a conflict, nothing.
WithSnapshot(ops, snapshot) ==
  IF Conflict(ops, snapshot) THEN ops ELSE ops \cup snapshot

\* ProjectTreeHistory: up to the first conflict.
WithHistory(ops, history) ==
  ops \cup {history[i] : i \in {k \in DOMAIN history :
                                 \A j \in 1..k : ~Conflict(ops, {history[j]})}}

\* RoomFiles, ProjectTreeSnapshot and ProjectTreeHistory, then the flush, which
\* after a conflict in the history only onreconnected does.
HandleRoom(c) ==
  /\ \E m \in inbox[c] :
       /\ m.kind = "room"
       /\ Handle(c, m)
       /\ LET loaded == WithSnapshot(Reseeded(tree[c], m.files), m.snapshot)
              ops == WithHistory(loaded, m.history)
          IN  /\ tree' = [tree EXCEPT ![c] = ops]
              /\ clock' = [clock EXCEPT ![c] = Clock(ops)]
              /\ IF Conflict(loaded, ToSet(m.history)) /\ ~resync[c]
                 THEN UNCHANGED <<uplink, flushing>>
                 ELSE Flush(c, outbox[c])
  /\ resync' = [resync EXCEPT ![c] = @ /\ outbox[c] # <<>>]
  /\ UNCHANGED <<outbox, link, serving, server, changes, breaks>>

\* Mutant: a refused operation stays in the tree.
RolledBackNot(ops, op) == ops

\* discardPendingTreeOperation with rollback: removeOperation by identifier.
RolledBack(ops, op) == {o \in ops : o.id # op.id}

\* syncPendingTreeOperation, the call has returned or thrown.  A refusal ends
\* the flush; if onreconnected awaits it, it stops the connection.  The filter
\* takes the first operation away: no identifier is in the outbox twice.
HandleAnswer(c) ==
  LET op == Head(outbox[c])
      rest == Tail(outbox[c])
  IN  /\ \/ /\ Handle(c, [kind |-> "answer", ok |-> TRUE])
            /\ uplink' = [uplink EXCEPT ![c] = IF rest = <<>> THEN {} ELSE {Head(rest)}]
            /\ flushing' = [flushing EXCEPT ![c] = rest # <<>>]
            /\ resync' = [resync EXCEPT ![c] = @ /\ rest # <<>>]
            /\ UNCHANGED <<tree, link>>
         \/ /\ Handle(c, [kind |-> "answer", ok |-> FALSE])
            /\ tree' = [tree EXCEPT ![c] = RolledBack(@, op)]
            /\ flushing' = [flushing EXCEPT ![c] = FALSE]
            /\ resync' = [resync EXCEPT ![c] = FALSE]
            /\ link' = [link EXCEPT ![c] = IF resync[c] THEN "stopped" ELSE @]
            /\ UNCHANGED uplink
      /\ outbox' = [outbox EXCEPT ![c] = rest]
  /\ UNCHANGED <<clock, serving, server, changes, breaks>>

-----------------------------------------------------------------------------
(* Connections.                                                            *)

\* The connection breaks: the call in flight throws, its operation stays.
\* connect() and onreconnected, if they are not done, stop the connection.
Break(c) ==
  /\ Connected(c)
  /\ breaks < MaxBreaks
  /\ breaks' = breaks + 1
  /\ link' = [link EXCEPT ![c] = IF @ # "joined" \/ resync[c] THEN "stopped" ELSE "down"]
  /\ flushing' = [flushing EXCEPT ![c] = FALSE]
  /\ resync' = [resync EXCEPT ![c] = FALSE]
  /\ uplink' = [uplink EXCEPT ![c] = {}]
  /\ inbox' = [inbox EXCEPT ![c] = {}]
  /\ serving' = {[call EXCEPT !.live = @ /\ call.client # c] : call \in serving}
  /\ UNCHANGED <<tree, clock, outbox, server, changes>>

\* connect() or SignalR's reconnect, with the call of JoinRoom.
Connect(c) ==
  /\ link[c] \in {"new", "down"}
  /\ link' = [link EXCEPT ![c] = "joining"]
  /\ resync' = [resync EXCEPT ![c] = link[c] = "down"]
  /\ UNCHANGED <<tree, clock, outbox, flushing, uplink, inbox, serving, server, changes, breaks>>

-----------------------------------------------------------------------------
Next ==
  \/ \E c \in Site :
       \/ ChangeTree(c) \/ ReceiveCall(c) \/ ReadRoom(c) \/ EnterGroup(c)
       \/ HandleOp(c) \/ HandleRoom(c) \/ HandleAnswer(c)
       \/ Break(c) \/ Connect(c)
  \/ \E call \in serving : ValidateCall(call) \/ AppendCall(call)

Spec == Init /\ [][Next]_vars

-----------------------------------------------------------------------------
(* Properties.                                                             *)

Message ==
  [kind : {"op"}, op : ProjectTreeOperation]
    \cup [kind : {"answer"}, ok : BOOLEAN]
    \cup [kind : {"room"}, files : Entries, snapshot : SUBSET ProjectTreeOperation,
          history : Seq(ProjectTreeOperation)]

\* Every variable has its type, and a flush is running exactly while the first
\* operation of the outbox of a connected tab is on its way, being served, or
\* answered (treeFlushPromise).
TypeOK ==
  /\ tree \in [Site -> SUBSET ProjectTreeOperation]
  /\ clock \in [Site -> Nat]
  /\ outbox \in [Site -> Seq(ProjectTreeOperation)]
  /\ flushing \in [Site -> BOOLEAN] /\ resync \in [Site -> BOOLEAN]
  /\ link \in [Site -> Link]
  /\ uplink \in [Site -> SUBSET ProjectTreeOperation]
  /\ inbox \in [Site -> SUBSET Message]
  /\ serving \subseteq Call
  /\ log \in Seq(ProjectTreeOperation)
  /\ saved \subseteq ProjectTreeOperation
  /\ changes \in Nat /\ breaks \in Nat
  /\ \A c \in Site :
       /\ uplink[c] \subseteq ToSet(outbox[c])
       /\ flushing[c] => Connected(c) /\ outbox[c] # <<>>

\* Whatever concurrent moves, deletions and rollbacks a tab has seen, what it
\* shows is a forest: a parent is a folder that is shown too, and nothing is
\* above itself (getEntries, breakParentCycles).
ShowsForest ==
  \A c \in Site :
    LET shown == getEntries(tree[c])
        up == [e \in DOMAIN shown |-> shown[e].parent]
    IN  \A e \in DOMAIN shown :
          /\ up[e] = NoParent \/ up[e] \in DOMAIN shown \cap Folder
          /\ e \notin Above(up, e)

\* The snapshot, compacted at every append, stands for the log: it is what
\* compacting the whole log would give, and shows the same tree, to the server
\* and to a tab that loads it.
SnapshotStandsForLog ==
  /\ saved = Compact(ToSet(log))
  /\ getEntries(saved) = getEntries(ToSet(log))
  /\ GetEntries(saved) = GetEntries(ToSet(log))

\* However often an operation is sent again, and however the copies interleave
\* between validation and append, the log has one operation per identifier and
\* those of a site in the order of their counters.
LoggedOnce ==
  \A i, j \in DOMAIN log :
    i < j /\ log[i].id.site = log[j].id.site => log[i].id.counter < log[j].id.counter

\* A tab that is up to date with what the server sent has every change that
\* others made and the server accepted (OthersInGroup, RoomFiles with
\* ProjectTreeSnapshot and ProjectTreeHistory).
ForeignChangesArrive ==
  \A c \in Site : link[c] = "joined" /\ inbox[c] = {} =>
    \A op \in ToSet(log) : op.id.site # c => op \in tree[c]

\* An operation leaves the outbox when the server has it, or it leaves the tree
\* of its author with it: no change is shown as saved that is not.
SavedOrRolledBack ==
  [][\A c \in Site : \A op \in ToSet(outbox[c]) \ ToSet(outbox'[c]) :
       op \in ToSet(log) \/ op \notin tree'[c]]_vars

\* What the server takes for the room's entries is what a tab with the same
\* operations shows (ProjectTree.test.ts: "deletes folder descendants while
\* preserving children moved out of the folder").
ServerListsWhatTabsShow == DOMAIN GetEntries(saved) = DOMAIN getEntries(saved)

\* Nothing is on its way and no operation waits.
Settled ==
  /\ serving = {}
  /\ \A c \in Site : link[c] = "joined" /\ inbox[c] = {} /\ outbox[c] = <<>>

\* When everything is delivered all tabs show the same tree, the author of an
\* offline change included (README.md: "a shared file tree with offline edit
\* recovery").
TabsShowTheSame ==
  Settled => \A c \in Site : getEntries(tree[c]) = getEntries(saved)
=============================================================================
